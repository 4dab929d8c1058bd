--------------------------- MODULE MCSharedBucket ---------------------------
(***************************************************************************)
(* A small instance of SharedBucket for TLC.  Bytes are 0..4; an integer   *)
(* of two bytes is 5 * high + low, so height 1 read backwards is height 5, *)
(* and an int of two bytes does not fit the one byte of a full ID.         *)
(***************************************************************************)
EXTENDS SharedBucket

CONSTANTS d1, d2    \* two payloads

MCByte            == 0..4
MCData            == {d1, d2}
MCShareCommitment == [d \in Data |-> IF d = d1 THEN <<0>> ELSE <<1>>]

\* A blob of -1, the index of a blob whose place is not known; the same data in
\* the same block once more; and other data at the height 1 read backwards is.
D1      == [data |-> d1, height |-> <<0, 1>>, index |-> <<4, 4>>, length |-> <<0, 2>>]
D1Again == [D1 EXCEPT !.index = <<1, 3>>]
D2      == [D1 EXCEPT !.data = d2, !.height = <<1, 0>>]

MCBlob == {D1, D1Again, D2}

Returned == {EncodeCommitment(NewBlobID(b, at, compact)) :
                 b \in Blob, at \in Blob, compact \in BOOLEAN}

\* Keys of D1 as PUTs return them; then with a byte after the compact ID, two
\* after the full one, cut short, and with another type.
CompactKey == EncodeCommitment(NewBlobID(D1, D1, TRUE))
FullKey    == EncodeCommitment(NewBlobID(D1, D1, FALSE))

MCAsked ==
    {CompactKey, FullKey, Append(CompactKey, 4), FullKey \o <<2, 3>>,
     Front(CompactKey), <<3>> \o Tail(FullKey)}

MCKey == Returned \cup MCAsked

\* The k-th key hashes to the number k.
MCKeccak256 ==
    LET keys == FoldSet(LAMBDA key, keys : Append(keys, key), <<>>, Key)
    IN [key \in Key |-> LET n == CHOOSE i \in 1..Len(keys) : keys[i] = key
                        IN <<n \div 25, (n \div 5) % 5, n % 5>>]

MCPrefix == {"", "a/", "a"}
MCClean  == [p \in Prefix |-> IF p = "a/" THEN "a" ELSE p]

MCDeployments ==
    {[prefix |-> "a", compact |-> TRUE, legacy |-> TRUE, mode |-> "both"],
     [prefix |-> "a/", compact |-> FALSE, legacy |-> FALSE, mode |-> "both"],
     [prefix |-> "", compact |-> FALSE, legacy |-> TRUE, mode |-> "read_fallback"]}
=============================================================================
