------------------------------- MODULE BlobID -------------------------------
(***************************************************************************)
(* The blob ID codec of celestia_storage.go and the commitment bytes built *)
(* from it.  An integer of a fixed width is the string of its bytes, most  *)
(* significant first; a byte string is a sequence of bytes.  The widths    *)
(* are parameters, so a small instance has the layout of the real one:     *)
(* 8 + 32 bytes, and 4 + 4 more in a full ID.                              *)
(***************************************************************************)
EXTENDS Integers, SequencesExt

CONSTANTS
    Byte,               \* values of a byte, 0..255 in the code
    HeightSize, CommitmentSize, ShareOffsetSize, ShareSizeSize,
    IntSize,            \* width of Go's int, which blob.Index() returns
    GenericType,        \* 0x01, the commitment type of optimism's alt-da
    VersionByte         \* 0x0c

Bytes(n) == [1..n -> Byte]

ASSUME BlobIDAssumption ==
    /\ {HeightSize, CommitmentSize, ShareOffsetSize, ShareSizeSize} \subseteq Nat \ {0}
    /\ IntSize \in Nat /\ IntSize >= ShareOffsetSize /\ IntSize >= ShareSizeSize
    /\ 0 \in Byte /\ GenericType \in Byte /\ VersionByte \in Byte

CompactBlobIDSize == HeightSize + CommitmentSize
FullBlobIDSize    == CompactBlobIDSize + ShareOffsetSize + ShareSizeSize

\* struct CelestiaBlobID.
CelestiaBlobID ==
    [isCompact : BOOLEAN, Height : Bytes(HeightSize),
     Commitment : Bytes(CommitmentSize), ShareOffset : Bytes(ShareOffsetSize),
     ShareSize : Bytes(ShareSizeSize)]

Zero(n) == [i \in 1..n |-> 0]

\* binary.LittleEndian, in either direction.
LittleEndian(bytes) == Reverse(bytes)

\* uint32(n) of an int: the bytes of least significance.
LowOrder(n, width) == SubSeq(n, IntSize - width + 1, IntSize)

\* Mutant: location and size are swapped.
MarshalSwapped(id) ==
    IF id.isCompact
    THEN LittleEndian(id.Height) \o id.Commitment
    ELSE LittleEndian(id.Height) \o id.Commitment
             \o (LittleEndian(id.ShareSize) \o LittleEndian(id.ShareOffset))

MarshalBinary(id) ==
    IF id.isCompact
    THEN LittleEndian(id.Height) \o id.Commitment
    ELSE LittleEndian(id.Height) \o id.Commitment
             \o (LittleEndian(id.ShareOffset) \o LittleEndian(id.ShareSize))

\* UnmarshalBinary fails on anything shorter.
LongEnough(bytes) == Len(bytes) >= CompactBlobIDSize

\* Mutant: the height is read as big-endian.
UnmarshalBigEndian(bytes) ==
    LET full == Len(bytes) >= FullBlobIDSize
    IN [isCompact   |-> ~full,
        Height      |-> SubSeq(bytes, 1, HeightSize),
        Commitment  |-> SubSeq(bytes, HeightSize + 1, CompactBlobIDSize),
        ShareOffset |-> Zero(ShareOffsetSize),
        ShareSize   |-> Zero(ShareSizeSize)]

\* Bytes after a compact ID that do not make a full one, and bytes after a
\* full one, are ignored.
UnmarshalBinary(bytes) ==
    LET full     == Len(bytes) >= FullBlobIDSize
        location == CompactBlobIDSize + ShareOffsetSize
    IN [isCompact   |-> ~full,
        Height      |-> LittleEndian(SubSeq(bytes, 1, HeightSize)),
        Commitment  |-> SubSeq(bytes, HeightSize + 1, CompactBlobIDSize),
        ShareOffset |-> IF full
                        THEN LittleEndian(SubSeq(bytes, CompactBlobIDSize + 1, location))
                        ELSE Zero(ShareOffsetSize),
        ShareSize   |-> IF full
                        THEN LittleEndian(SubSeq(bytes, location + 1, FullBlobIDSize))
                        ELSE Zero(ShareSizeSize)]

\* The commitment of a blob ID: NewGenericCommitment of the version byte and
\* the ID, encoded.
EncodeCommitment(id) == <<GenericType, VersionByte>> \o MarshalBinary(id)

HasVersionPrefix(key) ==
    Len(key) >= 2 /\ key[1] = GenericType /\ key[2] = VersionByte

\* key[2:]
StripVersion(key) == SubSeq(key, 3, Len(key))

\* parseBlobIDFromCommitment: when it succeeds, and what it returns.
Parses(key) == HasVersionPrefix(key) /\ LongEnough(StripVersion(key))

parseBlobIDFromCommitment(key) == UnmarshalBinary(StripVersion(key))
=============================================================================
