------------------------- MODULE SharedBucketProofs -------------------------
(***************************************************************************)
(* Proofs about BlobID and SharedBucket, for any widths, bytes and         *)
(* payloads.  Decoding undoes encoding.  From that, from the hash having   *)
(* no collisions and from its being shorter than any legacy name, follow   *)
(* the inductive invariant BucketInv and every property the model states.     *)
(***************************************************************************)
EXTENDS SharedBucket, SequenceTheorems, TLAPS

-----------------------------------------------------------------------------
(***************************************************************************)
(* Byte strings.                                                           *)
(***************************************************************************)

\* A byte string of width n is a sequence of that length.
LEMMA BytesAreSeq ==
  ASSUME NEW n \in Nat, NEW s \in Bytes(n)
  PROVE  s \in Seq(Byte) /\ Len(s) = n
BY DEF Bytes

\* Reading little-endian undoes writing little-endian.
LEMMA LittleEndianInverse ==
  ASSUME NEW n \in Nat, NEW s \in Bytes(n)
  PROVE  LittleEndian(s) \in Bytes(n) /\ LittleEndian(LittleEndian(s)) = s
<1>1. Len(s) = n
  BY BytesAreSeq
<1>2. LittleEndian(s) = [i \in 1..n |-> s[n - i + 1]]
  BY <1>1 DEF LittleEndian, Reverse
<1>3. LittleEndian(s) \in Bytes(n)
  BY <1>2 DEF Bytes
<1>4. LittleEndian(LittleEndian(s)) = [i \in 1..n |-> LittleEndian(s)[n - i + 1]]
  BY <1>3, BytesAreSeq DEF LittleEndian, Reverse
<1>5. \A i \in 1..n : LittleEndian(s)[n - i + 1] = s[i]
  BY <1>2
<1> QED
  BY <1>3, <1>4, <1>5 DEF Bytes

\* A field at the front of a byte string, and what follows it.
LEMMA Fields ==
  ASSUME NEW s \in Seq(Byte), NEW t \in Seq(Byte), Len(s) > 0
  PROVE  /\ s \o t \in Seq(Byte) /\ Len(s \o t) = Len(s) + Len(t)
         /\ SubSeq(s \o t, 1, Len(s)) = s
         /\ \A a \in 1..Len(t), b \in 1..Len(t) :
                SubSeq(s \o t, Len(s) + a, Len(s) + b) = SubSeq(t, a, b)
<1>1. Len(s) \in Nat /\ Len(t) \in Nat
  BY LenProperties
<1>2. s \o t \in Seq(Byte) /\ Len(s \o t) = Len(s) + Len(t)
  BY ConcatProperties
<1>3. SubSeq(s \o t, 1, Len(s)) = s
  <2>1. SubSeq(s \o t, 1, Len(s)) = SubSeq(s, 1, Len(s))
    BY <1>1, SubSeqOfConcat1
  <2> QED
    BY <2>1, SubSeqFull
<1>4. ASSUME NEW a \in 1..Len(t), NEW b \in 1..Len(t)
      PROVE  SubSeq(s \o t, Len(s) + a, Len(s) + b) = SubSeq(t, a, b)
  <2>1. /\ Len(s) + a \in Len(s) + 1 .. Len(s) + Len(t)
        /\ Len(s) + b \in Len(s) + 1 .. Len(s) + Len(t)
    BY <1>1
  <2>2. SubSeq(s \o t, Len(s) + a, Len(s) + b)
            = SubSeq(t, (Len(s) + a) - Len(s), (Len(s) + b) - Len(s))
    BY <2>1, SubSeqOfConcat2
  <2>3. (Len(s) + a) - Len(s) = a /\ (Len(s) + b) - Len(s) = b
    BY <1>1
  <2> QED
    BY <2>2, <2>3
<1> QED
  BY <1>2, <1>3, <1>4

\* Two fields, one after the other.
LEMMA TwoFields ==
  ASSUME NEW s \in Seq(Byte), NEW t \in Seq(Byte), Len(s) > 0, Len(t) > 0
  PROVE  /\ s \o t \in Seq(Byte) /\ Len(s \o t) = Len(s) + Len(t)
         /\ SubSeq(s \o t, 1, Len(s)) = s
         /\ SubSeq(s \o t, Len(s) + 1, Len(s) + Len(t)) = t
<1>1. Len(s) \in Nat /\ Len(t) \in Nat
  BY LenProperties
<1>2. /\ 1 \in 1..Len(t) /\ Len(t) \in 1..Len(t)
      /\ SubSeq(t, 1, Len(t)) = t
  BY <1>1, SubSeqFull
<1> QED
  BY <1>2, Fields

\* A string of two fields, and one of two fields that follows it.
LEMMA Pairs ==
  ASSUME NEW i \in Seq(Byte), NEW l \in Seq(Byte), Len(i) > 0,
         NEW p \in 1..Len(i), p < Len(i), NEW q \in 1..Len(l), q < Len(l)
  PROVE  /\ i \o l \in Seq(Byte) /\ Len(i \o l) = Len(i) + Len(l)
         /\ SubSeq(i \o l, 1, p) = SubSeq(i, 1, p)
         /\ SubSeq(i \o l, p + 1, Len(i)) = SubSeq(i, p + 1, Len(i))
         /\ SubSeq(i \o l, Len(i) + 1, Len(i) + q) = SubSeq(l, 1, q)
         /\ SubSeq(i \o l, Len(i) + q + 1, Len(i) + Len(l)) = SubSeq(l, q + 1, Len(l))
<1>1. Len(i) \in Nat /\ Len(l) \in Nat
  BY LenProperties
<1>2. \A a \in 1..Len(i), b \in 1..Len(i) : SubSeq(i \o l, a, b) = SubSeq(i, a, b)
  BY SubSeqOfConcat1
<1>3. /\ 1 \in 1..Len(i) /\ p + 1 \in 1..Len(i) /\ Len(i) \in 1..Len(i)
      /\ 1 \in 1..Len(l) /\ q + 1 \in 1..Len(l) /\ Len(l) \in 1..Len(l)
      /\ Len(i) + q + 1 = Len(i) + (q + 1)
  BY <1>1
<1>4. /\ i \o l \in Seq(Byte) /\ Len(i \o l) = Len(i) + Len(l)
      /\ \A a \in 1..Len(l), b \in 1..Len(l) :
             SubSeq(i \o l, Len(i) + a, Len(i) + b) = SubSeq(l, a, b)
  BY Fields
<1> QED
  BY <1>2, <1>3, <1>4

-----------------------------------------------------------------------------
(***************************************************************************)
(* The codec.                                                              *)
(***************************************************************************)

\* Decoding an encoded blob ID returns it, a compact one without a location.
THEOREM RoundTrip ==
  ASSUME NEW id \in CelestiaBlobID,
         id.isCompact => /\ id.ShareOffset = Zero(ShareOffsetSize)
                         /\ id.ShareSize = Zero(ShareSizeSize)
  PROVE  /\ MarshalBinary(id) \in Seq(Byte)
         /\ LongEnough(MarshalBinary(id))
         /\ UnmarshalBinary(MarshalBinary(id)) = id
<1>1. /\ HeightSize \in Nat \ {0} /\ CommitmentSize \in Nat \ {0}
      /\ ShareOffsetSize \in Nat \ {0} /\ ShareSizeSize \in Nat \ {0}
  BY BlobIDAssumption
<1>2. /\ id.Height \in Bytes(HeightSize) /\ id.Commitment \in Bytes(CommitmentSize)
      /\ id.ShareOffset \in Bytes(ShareOffsetSize) /\ id.ShareSize \in Bytes(ShareSizeSize)
      /\ id.isCompact \in BOOLEAN
      /\ id = [isCompact |-> id.isCompact, Height |-> id.Height,
               Commitment |-> id.Commitment, ShareOffset |-> id.ShareOffset,
               ShareSize |-> id.ShareSize]
  BY DEF CelestiaBlobID
<1>3. PICK h, c, o, z : /\ h = LittleEndian(id.Height) /\ c = id.Commitment
                        /\ o = LittleEndian(id.ShareOffset)
                        /\ z = LittleEndian(id.ShareSize)
  OBVIOUS
<1>4. /\ h \in Bytes(HeightSize) /\ LittleEndian(h) = id.Height
      /\ o \in Bytes(ShareOffsetSize) /\ LittleEndian(o) = id.ShareOffset
      /\ z \in Bytes(ShareSizeSize) /\ LittleEndian(z) = id.ShareSize
  BY <1>1, <1>2, <1>3, LittleEndianInverse
<1>5. /\ h \in Seq(Byte) /\ c \in Seq(Byte) /\ o \in Seq(Byte) /\ z \in Seq(Byte)
      /\ Len(h) = HeightSize /\ Len(c) = CommitmentSize
      /\ Len(o) = ShareOffsetSize /\ Len(z) = ShareSizeSize
      /\ Len(h) > 0 /\ Len(c) > 0 /\ Len(o) > 0 /\ Len(z) > 0
  BY <1>1, <1>2, <1>3, <1>4, BytesAreSeq
<1>6. PICK m : m = MarshalBinary(id)
  OBVIOUS
<1>7. CASE id.isCompact
  <2>1. m = h \o c
    BY <1>3, <1>6, <1>7 DEF MarshalBinary
  <2>2. /\ m \in Seq(Byte) /\ Len(m) = HeightSize + CommitmentSize
        /\ SubSeq(m, 1, HeightSize) = h
        /\ SubSeq(m, HeightSize + 1, HeightSize + CommitmentSize) = c
    BY <1>5, <2>1, TwoFields
  <2>3. ~(Len(m) >= FullBlobIDSize) /\ Len(m) >= CompactBlobIDSize
    BY <1>1, <2>2 DEF FullBlobIDSize, CompactBlobIDSize
  <2>4. UnmarshalBinary(m) =
            [isCompact |-> TRUE, Height |-> LittleEndian(h), Commitment |-> c,
             ShareOffset |-> Zero(ShareOffsetSize), ShareSize |-> Zero(ShareSizeSize)]
    BY <2>2, <2>3 DEF UnmarshalBinary, CompactBlobIDSize
  <2>5. id = [isCompact |-> TRUE, Height |-> LittleEndian(h), Commitment |-> c,
              ShareOffset |-> Zero(ShareOffsetSize), ShareSize |-> Zero(ShareSizeSize)]
    BY <1>2, <1>3, <1>4, <1>7
  <2> QED
    BY <1>6, <2>2, <2>3, <2>4, <2>5 DEF LongEnough
<1>8. CASE ~id.isCompact
  <2>1. PICK i, l : i = h \o c /\ l = o \o z
    OBVIOUS
  <2>2. m = i \o l
    BY <1>3, <1>6, <1>8, <2>1 DEF MarshalBinary
  <2>3. /\ i \in Seq(Byte) /\ Len(i) = HeightSize + CommitmentSize
        /\ SubSeq(i, 1, HeightSize) = h
        /\ SubSeq(i, HeightSize + 1, HeightSize + CommitmentSize) = c
    BY <1>5, <2>1, TwoFields
  <2>4. /\ l \in Seq(Byte) /\ Len(l) = ShareOffsetSize + ShareSizeSize
        /\ SubSeq(l, 1, ShareOffsetSize) = o
        /\ SubSeq(l, ShareOffsetSize + 1, ShareOffsetSize + ShareSizeSize) = z
    BY <1>5, <2>1, TwoFields
  <2>5. /\ HeightSize \in 1..Len(i) /\ HeightSize < Len(i) /\ Len(i) > 0
        /\ ShareOffsetSize \in 1..Len(l) /\ ShareOffsetSize < Len(l)
    BY <1>1, <2>3, <2>4
  <2>6. /\ m \in Seq(Byte) /\ Len(m) = Len(i) + Len(l)
        /\ SubSeq(m, 1, HeightSize) = h
        /\ SubSeq(m, HeightSize + 1, Len(i)) = c
        /\ SubSeq(m, Len(i) + 1, Len(i) + ShareOffsetSize) = o
        /\ SubSeq(m, Len(i) + ShareOffsetSize + 1, Len(i) + Len(l)) = z
    <3>1. /\ i \o l \in Seq(Byte) /\ Len(i \o l) = Len(i) + Len(l)
          /\ SubSeq(i \o l, 1, HeightSize) = SubSeq(i, 1, HeightSize)
          /\ SubSeq(i \o l, HeightSize + 1, Len(i)) = SubSeq(i, HeightSize + 1, Len(i))
          /\ SubSeq(i \o l, Len(i) + 1, Len(i) + ShareOffsetSize)
                 = SubSeq(l, 1, ShareOffsetSize)
          /\ SubSeq(i \o l, Len(i) + ShareOffsetSize + 1, Len(i) + Len(l))
                 = SubSeq(l, ShareOffsetSize + 1, Len(l))
      BY <2>3, <2>4, <2>5, Pairs
    <3> QED
      BY <3>1, <2>2, <2>3, <2>4
  <2>7. Len(i) = CompactBlobIDSize /\ Len(i) + Len(l) = FullBlobIDSize
    BY <1>1, <2>3, <2>4 DEF CompactBlobIDSize, FullBlobIDSize
  <2>8. Len(m) >= FullBlobIDSize /\ Len(m) >= CompactBlobIDSize
    BY <1>1, <2>6, <2>7 DEF FullBlobIDSize, CompactBlobIDSize
  <2>9. UnmarshalBinary(m) =
            [isCompact |-> FALSE, Height |-> LittleEndian(h), Commitment |-> c,
             ShareOffset |-> LittleEndian(o), ShareSize |-> LittleEndian(z)]
    BY <2>6, <2>7, <2>8 DEF UnmarshalBinary
  <2>10. id = [isCompact |-> FALSE, Height |-> LittleEndian(h), Commitment |-> c,
              ShareOffset |-> LittleEndian(o), ShareSize |-> LittleEndian(z)]
    BY <1>2, <1>3, <1>4, <1>8
  <2> QED
    BY <1>6, <2>6, <2>8, <2>9, <2>10 DEF LongEnough
<1> QED
  BY <1>2, <1>7, <1>8

\* The bytes that turn a blob ID into a commitment are the ones parsing strips.
LEMMA StripPrefix ==
  ASSUME NEW m \in Seq(Byte), Len(m) > 0
  PROVE  LET key == <<GenericType, VersionByte>> \o m
         IN key \in Seq(Byte) /\ HasVersionPrefix(key) /\ StripVersion(key) = m
<1>1. PICK v : v = <<GenericType, VersionByte>>
  OBVIOUS
<1>2. v \in Seq(Byte) /\ Len(v) = 2 /\ v[1] = GenericType /\ v[2] = VersionByte
  BY <1>1, BlobIDAssumption
<1>3. Len(m) \in Nat
  BY LenProperties
<1>4. /\ v \o m \in Seq(Byte) /\ Len(v \o m) = Len(v) + Len(m)
      /\ SubSeq(v \o m, Len(v) + 1, Len(v) + Len(m)) = m
  <2>1. Len(v) > 0
    BY <1>2
  <2> QED
    BY <1>2, <2>1, TwoFields
<1>5. (v \o m)[1] = GenericType /\ (v \o m)[2] = VersionByte
  <2>1. \A i \in 1..Len(v) + Len(m) :
            (v \o m)[i] = IF i <= Len(v) THEN v[i] ELSE m[i - Len(v)]
    BY <1>2, ConcatProperties
  <2>2. /\ 1 \in 1..Len(v) + Len(m) /\ 1 <= Len(v)
        /\ 2 \in 1..Len(v) + Len(m) /\ 2 <= Len(v)
    BY <1>2, <1>3
  <2> QED
    BY <1>2, <2>1, <2>2
<1>6. SubSeq(v \o m, 3, Len(v \o m)) = m /\ Len(v \o m) >= 2
  BY <1>2, <1>3, <1>4
<1> QED
  BY <1>1, <1>4, <1>5, <1>6 DEF HasVersionPrefix, StripVersion

\* The low-order bytes of an int are a byte string of their width.
LEMMA LowOrderBytes ==
  ASSUME NEW n \in Bytes(IntSize), NEW width \in Nat \ {0}, width <= IntSize
  PROVE  LowOrder(n, width) \in Bytes(width)
<1>1. IntSize \in Nat
  BY BlobIDAssumption
<1>2. \A i \in IntSize - width + 1 .. IntSize : n[i] \in Byte
  BY <1>1 DEF Bytes
<1>3. /\ LowOrder(n, width) \in Seq(Byte)
      /\ Len(LowOrder(n, width)) = width
  BY <1>1, <1>2, SubSeqProperties DEF LowOrder
<1> QED
  BY <1>3, LenProperties DEF Bytes

\* What a PUT or the cache puts together is a blob ID, and a compact one has no
\* location.
LEMMA NewBlobIDType ==
  ASSUME NEW b \in Blob, NEW at \in Blob, NEW compact \in BOOLEAN
  PROVE  /\ NewBlobID(b, at, compact) \in CelestiaBlobID
         /\ NewBlobID(b, at, compact).isCompact =>
                /\ NewBlobID(b, at, compact).ShareOffset = Zero(ShareOffsetSize)
                /\ NewBlobID(b, at, compact).ShareSize = Zero(ShareSizeSize)
<1>1. /\ b.height \in Bytes(HeightSize) /\ b.data \in Data
      /\ at.index \in Bytes(IntSize) /\ at.length \in Bytes(IntSize)
      /\ ShareCommitment[b.data] \in Bytes(CommitmentSize)
  BY SharedBucketAssumption
<1>2. /\ ShareOffsetSize \in Nat \ {0} /\ ShareOffsetSize <= IntSize
      /\ ShareSizeSize \in Nat \ {0} /\ ShareSizeSize <= IntSize
      /\ Zero(ShareOffsetSize) \in Bytes(ShareOffsetSize)
      /\ Zero(ShareSizeSize) \in Bytes(ShareSizeSize)
  BY BlobIDAssumption DEF Zero, Bytes
<1>3. /\ LowOrder(at.index, ShareOffsetSize) \in Bytes(ShareOffsetSize)
      /\ LowOrder(at.length, ShareSizeSize) \in Bytes(ShareSizeSize)
  BY <1>1, <1>2, LowOrderBytes
<1> QED
  BY <1>1, <1>2, <1>3 DEF NewBlobID, CelestiaBlobID

\* A marshaled blob ID is at least as long as a compact one, and decodes.
LEMMA Decodes ==
  ASSUME NEW b \in Blob, NEW at \in Blob, NEW compact \in BOOLEAN
  PROVE  LET id == NewBlobID(b, at, compact)
         IN /\ MarshalBinary(id) \in Seq(Byte)
            /\ Len(MarshalBinary(id)) >= CompactBlobIDSize
            /\ UnmarshalBinary(MarshalBinary(id)) = id
            /\ EncodeCommitment(id) \in Seq(Byte)
            /\ Parses(EncodeCommitment(id))
            /\ parseBlobIDFromCommitment(EncodeCommitment(id)) = id
<1>1. PICK id : id = NewBlobID(b, at, compact)
  OBVIOUS
<1>2. /\ MarshalBinary(id) \in Seq(Byte)
      /\ LongEnough(MarshalBinary(id))
      /\ UnmarshalBinary(MarshalBinary(id)) = id
  BY <1>1, NewBlobIDType, RoundTrip
<1>3. Len(MarshalBinary(id)) >= CompactBlobIDSize /\ Len(MarshalBinary(id)) > 0
  BY <1>2, BlobIDAssumption, LenProperties DEF LongEnough, CompactBlobIDSize
<1>4. /\ EncodeCommitment(id) \in Seq(Byte)
      /\ HasVersionPrefix(EncodeCommitment(id))
      /\ StripVersion(EncodeCommitment(id)) = MarshalBinary(id)
  BY <1>2, <1>3, StripPrefix DEF EncodeCommitment
<1> QED
  BY <1>1, <1>2, <1>3, <1>4 DEF Parses, parseBlobIDFromCommitment

-----------------------------------------------------------------------------
(***************************************************************************)
(* Object names.                                                           *)
(***************************************************************************)

\* What the constants are.
LEMMA Constants ==
  /\ \A k \in Key : k \in Seq(Byte) /\ Keccak256[k] \in Seq(Byte)
                   /\ Len(Keccak256[k]) = HashSize
  /\ Asked \subseteq Key /\ <<LegacyVersion>> \in Seq(Byte)
  /\ None \notin Data
  /\ \A d \in Deployments : d.prefix \in Prefix /\ d.compact \in BOOLEAN
  /\ \A b \in Blob : b.data \in Data
<1>1. \A k \in Key : Keccak256[k] \in Bytes(HashSize) /\ HashSize \in Nat
  BY HashAssumption
<1> QED
  BY <1>1, SharedBucketAssumption, BytesAreSeq

\* A legacy name names its blob ID.
LEMMA LegacyNames ==
  ASSUME NEW m \in Seq(Byte)
  PROVE  /\ <<LegacyVersion>> \o m \in Seq(Byte)
         /\ Len(<<LegacyVersion>> \o m) = 1 + Len(m)
         /\ \A n \in Seq(Byte) :
                <<LegacyVersion>> \o m = <<LegacyVersion>> \o n => m = n
<1>1. PICK v : v = <<LegacyVersion>>
  OBVIOUS
<1>2. v \in Seq(Byte) /\ Len(v) = 1
  BY <1>1, Constants
<1>3. v \o m \in Seq(Byte) /\ Len(v \o m) = Len(v) + Len(m)
  BY <1>2, ConcatProperties
<1>4. ASSUME NEW n \in Seq(Byte), v \o m = v \o n
      PROVE  m = n
  BY <1>2, <1>4, ConcatSimplifications
<1> QED
  BY <1>1, <1>2, <1>3, <1>4

\* No hash is a legacy name: it is shorter.
LEMMA NamesApart ==
  ASSUME NEW key \in Key, NEW m \in Seq(Byte), Len(m) >= CompactBlobIDSize
  PROVE  Keccak256[key] # <<LegacyVersion>> \o m
<1>1. Len(Keccak256[key]) = HashSize /\ HashSize < 1 + CompactBlobIDSize
      /\ HashSize \in Int /\ CompactBlobIDSize \in Int
  BY Constants, HashAssumption, BlobIDAssumption DEF CompactBlobIDSize
<1>2. Len(<<LegacyVersion>> \o m) = 1 + Len(m) /\ Len(m) \in Int
  BY LegacyNames, LenProperties
<1> QED
  BY <1>1, <1>2

\* Object names are names.
LEMMA NamesTyped ==
  ASSUME NEW prefix \in Prefix
  PROVE  /\ \A key \in Key : makeKey(prefix, key) \in Name
         /\ \A m \in Seq(Byte) : <<Clean[prefix], <<LegacyVersion>> \o m>> \in Name
BY Constants, LegacyNames DEF makeKey, Name

\* Every key a PUT returns is a key.
LEMMA ReturnedKeys ==
  ASSUME NEW b \in Blob, NEW at \in Blob, NEW compact \in BOOLEAN
  PROVE  EncodeCommitment(NewBlobID(b, at, compact)) \in Key
BY SharedBucketAssumption

-----------------------------------------------------------------------------
(***************************************************************************)
(* The inductive invariant.                                                *)
(***************************************************************************)

LEMMA InitInv == Init => BucketInv
BY SharedBucketAssumption DEF Init, BucketInv, TypeOK, GivenEncoded, WritesNamed,
   CacheNamed, ObjectsMade, AnswerFound, NoGet

\* A write the server sends is a write, of a blob of the chain its key names.
LEMMA SendWriteStep ==
  ASSUME TypeOK, NEW key \in Key, NEW d \in Data, SendWrite(key, d)
  PROVE  /\ writes' \subseteq Write
         /\ \A w \in writes' \ writes :
                w.key = key /\ w.data = d /\ w.name = makeKey(w.prefix, key)
<1>1. deployment.prefix \in Prefix
  BY Constants DEF TypeOK
<1>2. makeKey(deployment.prefix, key) \in Name
  BY <1>1, NamesTyped
<1>3. writes \subseteq Write
  BY DEF TypeOK
<1> QED
  BY <1>1, <1>2, <1>3 DEF SendWrite, Write

\* Setting an object changes that object only.
LEMMA SetObjectStep ==
  ASSUME NEW name, NEW d, SetObject(name, d)
  PROVE  /\ DOMAIN objects' = DOMAIN objects \cup {name}
         /\ objects'[name] = d
         /\ \A n \in DOMAIN objects \ {name} : objects'[n] = objects[n]
BY DEF SetObject

\* A PUT returns the commitment of a blob it published.
LEMMA PutStep ==
  ASSUME BucketInv, NEW b \in Blob, Put(b)
  PROVE  BucketInv'
<1>1. /\ TypeOK /\ chain \subseteq Blob /\ chain' = chain \cup {b}
      /\ deployment.compact \in BOOLEAN
      /\ UNCHANGED <<deployment, objects, stored, cached, get>>
  BY Constants DEF Put, BucketInv, TypeOK
<1>2. PICK at, key :
         /\ at \in chain' /\ at.height = b.height
         /\ ShareCommitment[at.data] = ShareCommitment[b.data]
         /\ key = EncodeCommitment(NewBlobID(b, at, deployment.compact))
         /\ given' = given \cup {[key |-> key, blob |-> b, at |-> at,
                                   compact |-> deployment.compact]}
         /\ SendWrite(key, b.data)
  BY DEF Put
<1>3. at \in Blob /\ key \in Key /\ b.data \in Data
  BY <1>1, <1>2, ReturnedKeys, Constants
<1>4. /\ writes' \subseteq Write
      /\ \A w \in writes' \ writes :
             w.key = key /\ w.data = b.data /\ w.name = makeKey(w.prefix, key)
  BY <1>1, <1>2, <1>3, SendWriteStep
<1>5. Found(key, b)
  <2>1. /\ Parses(key)
        /\ parseBlobIDFromCommitment(key) = NewBlobID(b, at, deployment.compact)
    BY <1>1, <1>2, <1>3, Decodes
  <2> QED
    BY <2>1 DEF Found, NewBlobID
<1>6. TypeOK'
  BY <1>1, <1>2, <1>3, <1>4 DEF TypeOK, bucketVars
<1>7. GivenEncoded'
  BY <1>1, <1>2 DEF BucketInv, GivenEncoded
<1>8. WritesNamed'
  BY <1>1, <1>4, <1>5 DEF BucketInv, WritesNamed, makeKey
<1>9. CacheNamed'
  BY <1>1 DEF BucketInv, CacheNamed
<1>10. ObjectsMade' /\ AnswerFound'
  BY <1>1 DEF BucketInv, ObjectsMade, AnswerFound
<1> QED
  BY <1>6, <1>7, <1>8, <1>9, <1>10 DEF BucketInv

\* A GET the node answers is answered with a blob its key names.
LEMMA GetFoundStep ==
  ASSUME BucketInv, NEW key \in Asked, GetFound(key)
  PROVE  BucketInv'
<1>1. /\ TypeOK /\ key \in Key /\ chain \subseteq Blob
      /\ UNCHANGED <<deployment, chain, given, objects, stored, cached>>
  BY Constants DEF GetFound, BucketInv, TypeOK
<1>2. PICK b \in chain :
         /\ Found(key, b)
         /\ get' = [key |-> key, stage |-> "served", data |-> b.data]
         /\ SendWrite(key, b.data)
  BY DEF GetFound
<1>3. b.data \in Data
  BY <1>1, Constants
<1>4. /\ writes' \subseteq Write
      /\ \A w \in writes' \ writes :
             w.key = key /\ w.data = b.data /\ w.name = makeKey(w.prefix, key)
  BY <1>1, <1>2, <1>3, SendWriteStep
<1>5. TypeOK'
  BY <1>1, <1>2, <1>3, <1>4 DEF TypeOK
<1>6. WritesNamed'
  BY <1>1, <1>2, <1>4 DEF BucketInv, WritesNamed, makeKey
<1>7. GivenEncoded' /\ CacheNamed' /\ ObjectsMade'
  BY <1>1 DEF BucketInv, GivenEncoded, CacheNamed, ObjectsMade
<1>8. AnswerFound'
  BY <1>1, <1>2 DEF AnswerFound
<1> QED
  BY <1>5, <1>6, <1>7, <1>8 DEF BucketInv

\* What is read from the object a key names, and passes verification, is a
\* blob the key names.
LEMMA CanonicalReadStep ==
  ASSUME BucketInv, ReadCanonical, get'.stage = "served"
  PROVE  \E b \in chain : Found(get.key, b) /\ b.data = get'.data
<1>1. PICK name : /\ name = makeKey(deployment.prefix, get.key)
                  /\ Read("canonical", name)
  BY DEF ReadCanonical
<1>2. /\ name \in DOMAIN objects
      /\ get' = IF verifyFallbackCommitment(get.key, objects[name])
                THEN [get EXCEPT !.stage = "served", !.data = objects[name]]
                ELSE NoGet
      /\ get \in [key : Key \cup {<<>>}, data : Data \cup {None},
                  stage : {"none", "canonical", "legacy", "served"}]
  BY <1>1 DEF Read, BucketInv, TypeOK
<1>3. verifyFallbackCommitment(get.key, objects[name]) /\ get'.data = objects[name]
  BY <1>2 DEF NoGet
<1>4. /\ Parses(get.key)
      /\ ShareCommitment[objects[name]] = parseBlobIDFromCommitment(get.key).Commitment
  BY <1>3 DEF verifyFallbackCommitment
<1>5. get.key \in Key
  <2>1. <<>> \notin Key \/ ~Parses(<<>>)
    BY DEF Parses, HasVersionPrefix
  <2> QED
    BY <1>2, <1>4 DEF Parses, HasVersionPrefix
<1>6. CASE \E w \in stored : name = w.name /\ objects[name] = w.data
  <2>1. PICK w \in stored : name = w.name /\ objects[name] = w.data
    BY <1>6
  <2>2. /\ w.name = makeKey(w.prefix, w.key) /\ w.key \in Key
        /\ \E b \in chain : Found(w.key, b) /\ b.data = w.data
    BY <2>1 DEF BucketInv, WritesNamed, TypeOK, Write
  <2>3. w.key = get.key
    BY <1>1, <1>5, <2>1, <2>2, HashAssumption DEF makeKey
  <2> QED
    BY <1>3, <2>1, <2>2, <2>3
<1>7. CASE \E c \in cached : name = LegacyName(c) /\ objects[name] = c.data
  <2>1. PICK c \in cached : name = LegacyName(c)
    BY <1>7
  <2>2. PICK b \in chain, compact \in BOOLEAN :
            c.id = MarshalBinary(NewBlobID(b, b, compact))
    BY <2>1 DEF BucketInv, CacheNamed
  <2>3. c.id \in Seq(Byte) /\ Len(c.id) >= CompactBlobIDSize
    BY <2>2, Decodes DEF BucketInv, TypeOK
  <2>4. Keccak256[get.key] # <<LegacyVersion>> \o c.id
    BY <1>5, <2>3, NamesApart
  <2>5. <<Clean[deployment.prefix], Keccak256[get.key]>>
            = <<Clean[c.prefix], <<LegacyVersion>> \o c.id>>
    BY <1>1, <2>1 DEF makeKey, LegacyName
  <2> QED
    BY <2>4, <2>5
<1> QED
  BY <1>2, <1>6, <1>7 DEF BucketInv, ObjectsMade

\* What is read from the object the external cache named is a blob the key
\* names.
LEMMA LegacyReadStep ==
  ASSUME BucketInv, ReadLegacy, get'.stage = "served"
  PROVE  \E b \in chain : Found(get.key, b) /\ b.data = get'.data
<1>1. PICK name : /\ name = makeReadOnlyLegacyDerivationKey(deployment.prefix, get.key)
                  /\ Read("legacy", name)
  BY DEF ReadLegacy
<1>2. /\ name \in DOMAIN objects
      /\ get' = IF verifyFallbackCommitment(get.key, objects[name])
                THEN [get EXCEPT !.stage = "served", !.data = objects[name]]
                ELSE NoGet
      /\ get \in [key : Key \cup {<<>>}, data : Data \cup {None},
                  stage : {"none", "canonical", "legacy", "served"}]
  BY <1>1 DEF Read, BucketInv, TypeOK
<1>3. verifyFallbackCommitment(get.key, objects[name]) /\ get'.data = objects[name]
  BY <1>2 DEF NoGet
<1>4. /\ Parses(get.key) /\ HasVersionPrefix(get.key)
      /\ Len(StripVersion(get.key)) >= CompactBlobIDSize
      /\ ShareCommitment[objects[name]] = parseBlobIDFromCommitment(get.key).Commitment
  BY <1>3 DEF verifyFallbackCommitment, Parses, LongEnough
<1>5. get.key \in Key /\ get.key \in Seq(Byte)
  BY <1>2, <1>4, Constants DEF HasVersionPrefix
<1>6. PICK m : m = StripVersion(get.key)
  OBVIOUS
<1>7. m \in Seq(Byte)
  <2>1. /\ 3 \in Int /\ Len(get.key) \in Nat
        /\ \A i \in 3..Len(get.key) : get.key[i] \in Byte
    BY <1>5, LenProperties
  <2> QED
    BY <1>6, <2>1, SubSeqProperties DEF StripVersion
<1>8. name = <<Clean[deployment.prefix], <<LegacyVersion>> \o m>>
  BY <1>1, <1>4, <1>6 DEF makeReadOnlyLegacyDerivationKey
<1>9. CASE \E w \in stored : name = w.name /\ objects[name] = w.data
  <2>1. PICK w \in stored : name = w.name
    BY <1>9
  <2>2. w.name = <<Clean[w.prefix], Keccak256[w.key]>> /\ w.key \in Key
    BY <2>1 DEF BucketInv, WritesNamed, TypeOK, Write, makeKey
  <2>3. Keccak256[w.key] # <<LegacyVersion>> \o m
    BY <1>4, <1>6, <1>7, <2>2, NamesApart
  <2> QED
    BY <1>8, <2>1, <2>2, <2>3
<1>10. CASE \E c \in cached : name = LegacyName(c) /\ objects[name] = c.data
  <2>1. PICK c \in cached : name = LegacyName(c) /\ objects[name] = c.data
    BY <1>10
  <2>2. PICK b \in chain, compact \in BOOLEAN :
            b.data = c.data /\ c.id = MarshalBinary(NewBlobID(b, b, compact))
    BY <2>1 DEF BucketInv, CacheNamed
  <2>3. c.id \in Seq(Byte)
    BY <2>1 DEF BucketInv, TypeOK
  <2>4. <<LegacyVersion>> \o m = <<LegacyVersion>> \o c.id
    BY <1>8, <2>1 DEF LegacyName
  <2>5. m = c.id
    BY <1>7, <2>3, <2>4, LegacyNames
  <2>6. b \in Blob /\ UnmarshalBinary(c.id) = NewBlobID(b, b, compact)
    BY <2>2, Decodes DEF BucketInv, TypeOK
  <2>7. parseBlobIDFromCommitment(get.key) = NewBlobID(b, b, compact)
    BY <1>6, <2>5, <2>6 DEF parseBlobIDFromCommitment
  <2>8. Found(get.key, b)
    BY <1>4, <2>7 DEF Found, NewBlobID
  <2> QED
    BY <1>3, <2>1, <2>2, <2>8
<1> QED
  BY <1>2, <1>9, <1>10 DEF BucketInv, ObjectsMade

\* A fallback read keeps the invariant.
LEMMA ReadStep ==
  ASSUME BucketInv, ReadCanonical \/ ReadLegacy
  PROVE  BucketInv'
<1>1. PICK stage, name : Read(stage, name)
  BY DEF ReadCanonical, ReadLegacy
<1>2. /\ name \in DOMAIN objects
      /\ get' = IF verifyFallbackCommitment(get.key, objects[name])
                THEN [get EXCEPT !.stage = "served", !.data = objects[name]]
                ELSE NoGet
      /\ UNCHANGED <<deployment, chain, given, writes, objects, stored, cached>>
      /\ TypeOK /\ objects[name] \in Data
  BY <1>1 DEF Read, bucketVars, BucketInv, TypeOK
<1>3. TypeOK'
  BY <1>2 DEF TypeOK, NoGet
<1>4. GivenEncoded' /\ WritesNamed' /\ CacheNamed' /\ ObjectsMade'
  BY <1>2 DEF BucketInv, GivenEncoded, WritesNamed, CacheNamed, ObjectsMade, makeKey
<1>5. ASSUME get'.stage = "served"
      PROVE  \E b \in chain : Found(get.key, b) /\ b.data = get'.data
  BY <1>5, CanonicalReadStep, LegacyReadStep
<1>6. get'.stage = "served" => get'.key = get.key
  BY <1>2 DEF NoGet, TypeOK
<1>7. AnswerFound'
  BY <1>2, <1>5, <1>6 DEF AnswerFound
<1> QED
  BY <1>3, <1>4, <1>7 DEF BucketInv

\* So do the steps of a GET that read nothing, and a redeployment.
LEMMA QuietStep ==
  ASSUME BucketInv,
         \/ \E key \in Asked : GetFallback(key)
         \/ CanonicalMissing \/ GetEnds \/ Redeploy
  PROVE  BucketInv'
<1>1. /\ UNCHANGED <<chain, given, writes, objects, stored, cached>>
      /\ deployment' \in Deployments
      /\ \/ get' = NoGet
         \/ get' = [get EXCEPT !.stage = "legacy"]
         \/ \E key \in Asked : get' = [key |-> key, stage |-> "canonical", data |-> None]
      /\ TypeOK /\ Asked \subseteq Key
  BY Constants DEF BucketInv, TypeOK, GetFallback, CanonicalMissing, GetEnds, Redeploy, bucketVars
<1>2. TypeOK'
  BY <1>1 DEF TypeOK, NoGet
<1>3. get'.stage # "served"
  BY <1>1 DEF NoGet, TypeOK
<1>4. GivenEncoded' /\ WritesNamed' /\ CacheNamed' /\ ObjectsMade'
  BY <1>1 DEF BucketInv, GivenEncoded, WritesNamed, CacheNamed, ObjectsMade, makeKey
<1> QED
  BY <1>2, <1>3, <1>4 DEF BucketInv, AnswerFound

\* The bucket carries out a write or loses it.
LEMMA BucketStep ==
  ASSUME BucketInv, NEW w \in writes, BucketApply(w) \/ WriteLost(w)
  PROVE  BucketInv'
<1>1. /\ UNCHANGED <<deployment, chain, given, cached, get>>
      /\ writes' = writes \ {w}
      /\ TypeOK /\ w \in Write
  BY DEF BucketApply, WriteLost, BucketInv, TypeOK
<1>2. GivenEncoded' /\ CacheNamed' /\ AnswerFound'
  BY <1>1 DEF BucketInv, GivenEncoded, CacheNamed, AnswerFound
<1>3. CASE BucketApply(w)
  <2>1. /\ stored' = stored \cup {w}
        /\ DOMAIN objects' = DOMAIN objects \cup {w.name}
        /\ objects'[w.name] = w.data
        /\ \A n \in DOMAIN objects \ {w.name} : objects'[n] = objects[n]
    BY <1>3, SetObjectStep DEF BucketApply
  <2>2. TypeOK'
    BY <1>1, <2>1 DEF TypeOK, Write
  <2>3. WritesNamed'
    BY <1>1, <2>1 DEF BucketInv, WritesNamed, makeKey
  <2>4. ObjectsMade'
    BY <1>1, <2>1 DEF BucketInv, ObjectsMade, LegacyName
  <2> QED
    BY <1>2, <2>2, <2>3, <2>4 DEF BucketInv
<1>4. CASE WriteLost(w)
  <2>1. UNCHANGED <<objects, stored>>
    BY <1>4 DEF WriteLost
  <2>2. TypeOK'
    BY <1>1, <2>1 DEF TypeOK
  <2>3. WritesNamed' /\ ObjectsMade'
    BY <1>1, <2>1 DEF BucketInv, WritesNamed, ObjectsMade, LegacyName, makeKey
  <2> QED
    BY <1>2, <2>2, <2>3 DEF BucketInv
<1> QED
  BY <1>3, <1>4

\* The external cache writes an object under a legacy name.
LEMMA CacheStep ==
  ASSUME BucketInv, NEW b \in chain, NEW prefix \in Prefix, NEW compact \in BOOLEAN,
         CacheWrites(b, prefix, compact)
  PROVE  BucketInv'
<1>1. PICK c : c = [id |-> MarshalBinary(NewBlobID(b, b, compact)),
                    prefix |-> prefix, data |-> b.data]
  OBVIOUS
<1>2. /\ SetObject(LegacyName(c), c.data) /\ cached' = cached \cup {c}
      /\ UNCHANGED <<deployment, chain, given, writes, stored, get>>
      /\ TypeOK /\ b \in Blob
  BY <1>1 DEF CacheWrites, LegacyName, BucketInv, TypeOK
<1>3. c.id \in Seq(Byte) /\ c.data \in Data
  BY <1>1, <1>2, Decodes, Constants
<1>4. LegacyName(c) \in Name
  BY <1>1, <1>3, NamesTyped DEF LegacyName
<1>5. /\ DOMAIN objects' = DOMAIN objects \cup {LegacyName(c)}
      /\ objects'[LegacyName(c)] = c.data
      /\ \A n \in DOMAIN objects \ {LegacyName(c)} : objects'[n] = objects[n]
  BY <1>2, SetObjectStep
<1>6. TypeOK'
  BY <1>1, <1>2, <1>3, <1>4, <1>5 DEF TypeOK
<1>7. CacheNamed'
  BY <1>1, <1>2 DEF BucketInv, CacheNamed
<1>8. ObjectsMade'
  BY <1>2, <1>5 DEF BucketInv, ObjectsMade, LegacyName
<1>9. GivenEncoded' /\ WritesNamed' /\ AnswerFound'
  BY <1>2 DEF BucketInv, GivenEncoded, WritesNamed, AnswerFound, makeKey
<1> QED
  BY <1>6, <1>7, <1>8, <1>9 DEF BucketInv

\* No step of the model leaves the invariant.
LEMMA NextInv ==
  ASSUME BucketInv, [Next]_vars
  PROVE  BucketInv'
<1>1. CASE Next
  <2>1. \A b \in Blob : Put(b) => BucketInv'
    BY PutStep
  <2>2. \A key \in Asked : GetFound(key) => BucketInv'
    BY GetFoundStep
  <2>3. ReadCanonical \/ ReadLegacy => BucketInv'
    BY ReadStep
  <2>4. (\E key \in Asked : GetFallback(key)) \/ CanonicalMissing \/ GetEnds \/ Redeploy
            => BucketInv'
    BY QuietStep
  <2>5. \A w \in writes : BucketApply(w) \/ WriteLost(w) => BucketInv'
    BY BucketStep
  <2>6. \A b \in chain, prefix \in Prefix, compact \in BOOLEAN :
            CacheWrites(b, prefix, compact) => BucketInv'
    BY CacheStep
  <2> QED
    BY <1>1, <2>1, <2>2, <2>3, <2>4, <2>5, <2>6 DEF Next
<1>2. CASE UNCHANGED vars
  BY <1>2 DEF vars, bucketVars, BucketInv, TypeOK, GivenEncoded, WritesNamed, CacheNamed,
     ObjectsMade, AnswerFound, LegacyName, makeKey
<1> QED
  BY <1>1, <1>2

\* Commitments, writes, objects and answers come from where BucketInv says they
\* do, through every redeployment.
THEOREM Invariance == Spec => []BucketInv
<1>1. Init => BucketInv
  BY InitInv
<1>2. BucketInv /\ [Next]_vars => BucketInv'
  BY NextInv
<1> QED
  BY <1>1, <1>2, PTL DEF Spec

\* The type invariant.
THEOREM TypeCorrect == Spec => []TypeOK
<1>1. BucketInv => TypeOK
  BY DEF BucketInv
<1> QED
  BY <1>1, Invariance, PTL

-----------------------------------------------------------------------------
(***************************************************************************)
(* What follows from it.                                                   *)
(***************************************************************************)

\* Every commitment a PUT returned parses to its blob, whichever deployment
\* returned it and whichever reads it.
THEOREM CommitmentsAlwaysDecode == Spec => []CommitmentsDecode
<1>1. BucketInv => CommitmentsDecode
  BY Decodes DEF BucketInv, TypeOK, GivenEncoded, CommitmentsDecode
<1> QED
  BY <1>1, Invariance, PTL

\* No GET is answered with a blob its key does not name.
THEOREM AnswersAreNamed == Spec => []ServedIsNamed
<1>1. ASSUME BucketInv, get.stage = "served"
      PROVE  ServedIsNamed
  <2>1. PICK b \in chain : Found(get.key, b) /\ b.data = get.data
    BY <1>1 DEF BucketInv, AnswerFound
  <2>2. ASSUME NEW g \in given, g.key = get.key
        PROVE  ShareCommitment[g.blob.data] = ShareCommitment[get.data]
    <3>1. parseBlobIDFromCommitment(g.key) = NewBlobID(g.blob, g.at, g.compact)
      BY <1>1, Decodes DEF BucketInv, TypeOK, GivenEncoded
    <3>2. parseBlobIDFromCommitment(g.key).Commitment = ShareCommitment[g.blob.data]
      BY <3>1 DEF NewBlobID
    <3> QED
      BY <2>1, <2>2, <3>2 DEF Found
  <2> QED
    BY <2>1, <2>2 DEF ServedIsNamed
<1>2. BucketInv => ServedIsNamed
  BY <1>1 DEF ServedIsNamed
<1> QED
  BY <1>2, Invariance, PTL

\* The server never writes an object the external cache may have written.
THEOREM LegacyNamesReadOnly == Spec => []LegacyReadOnly
<1>1. ASSUME BucketInv, NEW w \in writes \cup stored, NEW b \in chain,
             NEW prefix \in Prefix, NEW compact \in BOOLEAN
      PROVE  w.name # <<Clean[prefix],
                        <<LegacyVersion>> \o MarshalBinary(NewBlobID(b, b, compact))>>
  <2>1. w.name = <<Clean[w.prefix], Keccak256[w.key]>> /\ w.key \in Key /\ b \in Blob
    BY <1>1 DEF BucketInv, TypeOK, WritesNamed, Write, makeKey
  <2>2. Keccak256[w.key] # <<LegacyVersion>> \o MarshalBinary(NewBlobID(b, b, compact))
    BY <2>1, Decodes, NamesApart
  <2> QED
    BY <2>1, <2>2
<1>2. BucketInv => LegacyReadOnly
  BY <1>1 DEF LegacyReadOnly
<1> QED
  BY <1>2, Invariance, PTL

\* What one deployment stored, every later one with the same prefix finds.
THEOREM StoredAlwaysFound == Spec => []StoredIsFound
<1>1. ASSUME BucketInv, NEW w \in stored, Clean[w.prefix] = Clean[deployment.prefix],
             NEW name, name = makeKey(deployment.prefix, w.key)
      PROVE  /\ name \in DOMAIN objects
             /\ ShareCommitment[objects[name]] = ShareCommitment[w.data]
  <2>1. /\ w.name = <<Clean[w.prefix], Keccak256[w.key]>> /\ w.key \in Key
        /\ \E b \in chain : Found(w.key, b) /\ b.data = w.data
    BY <1>1 DEF BucketInv, TypeOK, WritesNamed, Write, makeKey
  <2>2. name = w.name /\ name \in DOMAIN objects
    BY <1>1, <2>1 DEF BucketInv, ObjectsMade, makeKey
  <2>3. CASE \E v \in stored : name = v.name /\ objects[name] = v.data
    <3>1. PICK v \in stored : name = v.name /\ objects[name] = v.data
      BY <2>3
    <3>2. /\ v.name = <<Clean[v.prefix], Keccak256[v.key]>> /\ v.key \in Key
          /\ \E b \in chain : Found(v.key, b) /\ b.data = v.data
      BY <1>1, <3>1 DEF BucketInv, TypeOK, WritesNamed, Write, makeKey
    <3>3. v.key = w.key
      BY <2>1, <2>2, <3>1, <3>2, HashAssumption
    <3> QED
      BY <2>1, <2>2, <3>1, <3>2, <3>3 DEF Found
  <2>4. CASE \E c \in cached : name = LegacyName(c) /\ objects[name] = c.data
    <3>1. PICK c \in cached : name = <<Clean[c.prefix], <<LegacyVersion>> \o c.id>>
      BY <2>4 DEF LegacyName
    <3>2. c.id \in Seq(Byte) /\ Len(c.id) >= CompactBlobIDSize
      BY <1>1, <3>1, Decodes DEF BucketInv, TypeOK, CacheNamed
    <3>3. Keccak256[w.key] # <<LegacyVersion>> \o c.id
      BY <2>1, <3>2, NamesApart
    <3> QED
      BY <2>1, <2>2, <3>1, <3>3
  <2> QED
    BY <1>1, <2>2, <2>3, <2>4 DEF BucketInv, ObjectsMade
<1>2. BucketInv => StoredIsFound
  BY <1>1 DEF StoredIsFound
<1> QED
  BY <1>2, Invariance, PTL

\* What the external cache stored, a legacy read of its commitment finds.
THEOREM CachedAlwaysFound == Spec => []LegacyIsFound
<1>1. ASSUME BucketInv, NEW c \in cached, Clean[c.prefix] = Clean[deployment.prefix],
             NEW name, name = makeReadOnlyLegacyDerivationKey(deployment.prefix,
                                  <<GenericType, VersionByte>> \o c.id)
      PROVE  /\ name \in DOMAIN objects
             /\ ShareCommitment[objects[name]] = ShareCommitment[c.data]
  <2>1. PICK b \in chain, compact \in BOOLEAN :
            b.data = c.data /\ c.id = MarshalBinary(NewBlobID(b, b, compact))
    BY <1>1 DEF BucketInv, CacheNamed
  <2>2. /\ b \in Blob /\ c.id \in Seq(Byte) /\ Len(c.id) >= CompactBlobIDSize
        /\ UnmarshalBinary(c.id) = NewBlobID(b, b, compact)
    BY <1>1, <2>1, Decodes DEF BucketInv, TypeOK
  <2>3. Len(c.id) > 0
    BY <2>2, BlobIDAssumption, LenProperties DEF CompactBlobIDSize
  <2>4. /\ HasVersionPrefix(<<GenericType, VersionByte>> \o c.id)
        /\ StripVersion(<<GenericType, VersionByte>> \o c.id) = c.id
    BY <2>2, <2>3, StripPrefix
  <2>5. name = LegacyName(c)
    BY <1>1, <2>4 DEF makeReadOnlyLegacyDerivationKey, LegacyName
  <2>6. name \in DOMAIN objects
    BY <1>1, <2>5 DEF BucketInv, ObjectsMade
  <2>7. CASE \E w \in stored : name = w.name /\ objects[name] = w.data
    <3>1. PICK w \in stored : name = w.name
      BY <2>7
    <3>2. w.name = <<Clean[w.prefix], Keccak256[w.key]>> /\ w.key \in Key
      BY <1>1, <3>1 DEF BucketInv, TypeOK, WritesNamed, Write, makeKey
    <3>3. Keccak256[w.key] # <<LegacyVersion>> \o c.id
      BY <2>2, <3>2, NamesApart
    <3> QED
      BY <2>5, <3>1, <3>2, <3>3 DEF LegacyName
  <2>8. CASE \E e \in cached : name = LegacyName(e) /\ objects[name] = e.data
    <3>1. PICK e \in cached : name = LegacyName(e) /\ objects[name] = e.data
      BY <2>8
    <3>2. PICK f \in chain, form \in BOOLEAN :
              f.data = e.data /\ e.id = MarshalBinary(NewBlobID(f, f, form))
      BY <1>1, <3>1 DEF BucketInv, CacheNamed
    <3>3. /\ f \in Blob /\ e.id \in Seq(Byte)
          /\ UnmarshalBinary(e.id) = NewBlobID(f, f, form)
      BY <1>1, <3>2, Decodes DEF BucketInv, TypeOK
    <3>4. <<LegacyVersion>> \o c.id = <<LegacyVersion>> \o e.id
      BY <2>5, <3>1 DEF LegacyName
    <3>5. NewBlobID(b, b, compact) = NewBlobID(f, f, form)
      BY <2>2, <3>3, <3>4, LegacyNames
    <3>6. ShareCommitment[b.data] = ShareCommitment[f.data]
      BY <3>5 DEF NewBlobID
    <3> QED
      BY <2>1, <2>6, <3>1, <3>2, <3>6
  <2> QED
    BY <1>1, <2>6, <2>7, <2>8 DEF BucketInv, ObjectsMade
<1>2. BucketInv => LegacyIsFound
  BY <1>1 DEF LegacyIsFound
<1> QED
  BY <1>2, Invariance, PTL
=============================================================================
