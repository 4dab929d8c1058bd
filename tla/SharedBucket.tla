---------------------------- MODULE SharedBucket ----------------------------
(***************************************************************************)
(* One bucket, many deployments.  Operators redeploy the server with other *)
(* blob IDs, another prefix, legacy reads on or off; an external cache     *)
(* writes the same bucket under legacy names; clients ask with any bytes.  *)
(* What holds all of it together is how commitments and object names are   *)
(* spelled: BlobID for the former, fallback/s3/s3.go for the latter.       *)
(*                                                                         *)
(* The interleavings inside a PUT or a GET are CelestiaServer's subject.   *)
(* Here a PUT is one step, and so is a GET up to its fallback reads.       *)
(***************************************************************************)
EXTENDS BlobID, FallbackMode

CONSTANTS
    Data,               \* blob payloads
    ShareCommitment,    \* the share commitment of each
    Blob,               \* blobs as the chain may hold them
    Key,                \* commitments, good and bad
    Asked,              \* those clients ask for
    Keccak256, HashSize,
    LegacyVersion,      \* 0xce, celestiaDerivationVersionForked
    Prefix,             \* prefixes as operators spell them
    Clean,              \* what path.Join makes of each
    Deployments,        \* configurations the server is deployed with
    MaxPuts, MaxWrites, MaxCached,  \* bounds: commitments returned, fallback
                        \* writes, objects the external cache writes
    None

\* The blob ID of blob b as the node locates it at "at".
NewBlobID(b, at, compact) ==
    [isCompact   |-> compact,
     Height      |-> b.height,
     Commitment  |-> ShareCommitment[b.data],
     ShareOffset |-> IF compact THEN Zero(ShareOffsetSize)
                     ELSE LowOrder(at.index, ShareOffsetSize),
     ShareSize   |-> IF compact THEN Zero(ShareSizeSize)
                     ELSE LowOrder(at.length, ShareSizeSize)]

ASSUME SharedBucketAssumption ==
    /\ ShareCommitment \in [Data -> Bytes(CommitmentSize)]
    /\ Blob \subseteq [data : Data, height : Bytes(HeightSize),
                        index : Bytes(IntSize), length : Bytes(IntSize)]
    /\ Key \subseteq Seq(Byte) /\ Asked \subseteq Key
    /\ \A b \in Blob, at \in Blob, compact \in BOOLEAN :
           EncodeCommitment(NewBlobID(b, at, compact)) \in Key
    /\ LegacyVersion \in Byte
    /\ Deployments \subseteq [prefix : Prefix, compact : BOOLEAN, legacy : BOOLEAN,
                              mode : ModeStrings]
    /\ {MaxPuts, MaxWrites, MaxCached} \subseteq Nat /\ None \notin Data

\* Keccak-256 has no collisions, and its 32 bytes are shorter than the 41 of a
\* version byte and a compact blob ID.
ASSUME HashAssumption ==
    /\ HashSize \in Nat /\ HashSize < 1 + CompactBlobIDSize
    /\ Keccak256 \in [Key -> Bytes(HashSize)]
    /\ \A j, k \in Key : Keccak256[j] = Keccak256[k] => j = k

VARIABLES
    deployment,     \* the configuration the server runs under
    chain,          \* blobs the node holds
    given,          \* commitments PUTs returned, with their blobs
    writes,         \* PutObjects sent and neither carried out nor lost
    objects,        \* the bucket: data by object name
    stored,         \* history: the PutObjects the bucket carried out
    cached,         \* history: what the external cache wrote
    get             \* the GET at the fallback, or the answer it just gave

bucketVars == <<writes, objects, stored, cached>>
vars == <<deployment, chain, given, bucketVars, get>>

NoGet == [key |-> <<>>, stage |-> "none", data |-> None]

Init ==
    /\ deployment \in Deployments
    /\ chain = {} /\ given = {} /\ writes = {} /\ stored = {} /\ cached = {}
    /\ objects = <<>>
    /\ get = NoGet
-----------------------------------------------------------------------------
(***************************************************************************)
(* Object names.  Hex encoding loses nothing, so a name is the cleaned     *)
(* prefix and the bytes.                                                   *)
(***************************************************************************)

\* Mutant: the blob ID is stored under its own bytes.
makeKeyUnhashed(prefix, key) ==
    <<Clean[prefix], <<LegacyVersion>> \o StripVersion(key)>>

\* Mutant: the commitment is brought into the form this deployment returns.
makeKeyNormalized(prefix, key) ==
    <<Clean[prefix],
      IF Parses(key) /\ deployment.compact
      THEN Keccak256[EncodeCommitment([parseBlobIDFromCommitment(key)
                                           EXCEPT !.isCompact = TRUE])]
      ELSE Keccak256[key]>>

makeKey(prefix, key) == <<Clean[prefix], Keccak256[key]>>

\* Mutant: the version bytes stay.
makeLegacyKeyUnstripped(prefix, key) ==
    <<Clean[prefix], <<LegacyVersion>> \o key>>

makeReadOnlyLegacyDerivationKey(prefix, key) ==
    <<Clean[prefix],
      <<LegacyVersion>> \o (IF HasVersionPrefix(key) THEN StripVersion(key) ELSE key)>>

SetObject(name, d) ==
    objects' = [n \in DOMAIN objects \cup {name} |->
                    IF n = name THEN d ELSE objects[n]]

\* putFallback starts: the object is named now, under this deployment.
SendWrite(key, d) ==
    /\ writes' = IF WriteEnabled(deployment.mode)
                 THEN writes \cup
                          {[key |-> key, prefix |-> deployment.prefix, data |-> d,
                            name |-> makeKey(deployment.prefix, key)]}
                 ELSE writes
    /\ Cardinality(writes' \cup stored) <= MaxWrites
-----------------------------------------------------------------------------
\* A PUT: the blob is published, its commitment returned, the fallback write
\* started.  With full IDs the location is the one of any blob the node finds
\* at this height under this share commitment.
Put(b) ==
    /\ Cardinality(given) < MaxPuts
    /\ chain' = chain \cup {b}
    /\ \E at \in chain' :
           /\ at.height = b.height
           /\ ShareCommitment[at.data] = ShareCommitment[b.data]
           /\ LET key == EncodeCommitment(NewBlobID(b, at, deployment.compact))
              IN /\ given' = given \cup {[key |-> key, blob |-> b, at |-> at,
                                          compact |-> deployment.compact]}
                 /\ SendWrite(key, b.data)
    /\ UNCHANGED <<deployment, objects, stored, cached, get>>

\* The node is asked by height and share commitment alone.
Found(key, b) ==
    LET id == parseBlobIDFromCommitment(key)
    IN /\ Parses(key)
       /\ b.height = id.Height /\ ShareCommitment[b.data] = id.Commitment

\* The node returns the blob, which also goes to the fallback, under the bytes
\* the client asked with.
GetFound(key) ==
    /\ get.stage = "none"
    /\ \E b \in chain :
           /\ Found(key, b)
           /\ get' = [key |-> key, stage |-> "served", data |-> b.data]
           /\ SendWrite(key, b.data)
    /\ UNCHANGED <<deployment, chain, given, objects, stored, cached>>

\* The node fails, or the key does not parse.  (A GET the node answers with
\* "not found" ends at once and changes nothing here.)
GetFallback(key) ==
    /\ get.stage = "none"
    /\ get' = [key |-> key, stage |-> "canonical", data |-> None]
    /\ UNCHANGED <<deployment, chain, given, bucketVars>>

\* Fallback data is served when it reproduces the share commitment of the key.
verifyFallbackCommitment(key, d) ==
    /\ Parses(key)
    /\ ShareCommitment[d] = parseBlobIDFromCommitment(key).Commitment

\* A fallback read under the given name succeeds.
Read(stage, name) ==
    /\ get.stage = stage /\ name \in DOMAIN objects
    /\ get' = IF verifyFallbackCommitment(get.key, objects[name])
              THEN [get EXCEPT !.stage = "served", !.data = objects[name]]
              ELSE NoGet
    /\ UNCHANGED <<deployment, chain, given, bucketVars>>

ReadCanonical == Read("canonical", makeKey(deployment.prefix, get.key))

\* NoSuchKey, and only then the legacy name.
CanonicalMissing ==
    /\ get.stage = "canonical"
    /\ makeKey(deployment.prefix, get.key) \notin DOMAIN objects
    /\ get' = IF deployment.legacy THEN [get EXCEPT !.stage = "legacy"] ELSE NoGet
    /\ UNCHANGED <<deployment, chain, given, bucketVars>>

ReadLegacy ==
    Read("legacy", makeReadOnlyLegacyDerivationKey(deployment.prefix, get.key))

\* A read fails, the legacy object is missing, or the answer has been given.
GetEnds ==
    /\ get.stage # "none"
    /\ get' = NoGet
    /\ UNCHANGED <<deployment, chain, given, bucketVars>>

\* Mutant: commitment and data, both byte slices, change places.
BucketApplySwapped(w) ==
    /\ writes' = writes \ {w}
    /\ stored' = stored \cup {w}
    /\ SetObject(w.name, w.key)
    /\ UNCHANGED <<deployment, chain, given, cached, get>>

\* The bucket carries out a PutObject, perhaps for a deployment that is gone.
BucketApply(w) ==
    /\ writes' = writes \ {w}
    /\ stored' = stored \cup {w}
    /\ SetObject(w.name, w.data)
    /\ UNCHANGED <<deployment, chain, given, cached, get>>

WriteLost(w) ==
    /\ writes' = writes \ {w}
    /\ UNCHANGED <<deployment, chain, given, objects, stored, cached, get>>

\* The external cache stores a blob under its blob ID.
CacheWrites(b, prefix, compact) ==
    LET id == MarshalBinary(NewBlobID(b, b, compact))
    IN /\ SetObject(<<Clean[prefix], <<LegacyVersion>> \o id>>, b.data)
       /\ cached' = cached \cup {[id |-> id, prefix |-> prefix, data |-> b.data]}
       /\ Cardinality(cached') <= MaxCached
       /\ UNCHANGED <<deployment, chain, given, writes, stored, get>>

\* The server is stopped, in whatever it does, and started as another.
Redeploy ==
    /\ deployment' \in Deployments
    /\ get' = NoGet
    /\ UNCHANGED <<chain, given, bucketVars>>

Next ==
    \/ \E b \in Blob : Put(b)
    \/ \E key \in Asked : GetFound(key) \/ GetFallback(key)
    \/ ReadCanonical \/ CanonicalMissing \/ ReadLegacy \/ GetEnds
    \/ \E w \in writes : BucketApply(w) \/ WriteLost(w)
    \/ \E b \in chain, prefix \in Prefix, compact \in BOOLEAN :
           CacheWrites(b, prefix, compact)
    \/ Redeploy

Spec == Init /\ [][Next]_vars
-----------------------------------------------------------------------------
(***************************************************************************)
(* Properties.                                                             *)
(***************************************************************************)

Name  == {Clean[p] : p \in Prefix} \X Seq(Byte)
Write == [key : Key, prefix : Prefix, data : Data, name : Name]

\* The type invariant of deployments, chain and bucket.
TypeOK ==
    /\ deployment \in Deployments
    /\ chain \subseteq Blob
    /\ given \subseteq [key : Key, blob : Blob, at : Blob, compact : BOOLEAN]
    /\ writes \subseteq Write /\ stored \subseteq Write
    /\ DOMAIN objects \subseteq Name
    /\ \A n \in DOMAIN objects : objects[n] \in Data
    /\ cached \subseteq [id : Seq(Byte), prefix : Prefix, data : Data]
    /\ get \in [key : Key \cup {<<>>}, data : Data \cup {None},
                stage : {"none", "canonical", "legacy", "served"}]

\* Whatever deployment returned it, every commitment parses, under any
\* deployment, to the height and the share commitment of its blob and, in a
\* full ID, to its location cut to 32 bits: MarshalBinary and UnmarshalBinary
\* agree on order, width and endianness of every field.
CommitmentsDecode ==
    \A g \in given :
        /\ Parses(g.key)
        /\ parseBlobIDFromCommitment(g.key) = NewBlobID(g.blob, g.at, g.compact)

\* A GET is only ever answered with a blob that was published at the height
\* its key names, and a commitment a PUT returned with that PUT's blob: cut,
\* extended and foreign keys, legacy objects and redeployments included.
ServedIsNamed ==
    get.stage = "served" =>
        /\ \E b \in chain : Found(get.key, b) /\ b.data = get.data
        /\ \A g \in given : g.key = get.key =>
               ShareCommitment[g.blob.data] = ShareCommitment[get.data]

\* What one deployment stored is where every later one with the same prefix
\* looks, whether it returns compact or full IDs.
StoredIsFound ==
    \A w \in stored : Clean[w.prefix] = Clean[deployment.prefix] =>
        LET name == makeKey(deployment.prefix, w.key)
        IN name \in DOMAIN objects
           /\ ShareCommitment[objects[name]] = ShareCommitment[w.data]

\* What the external cache stored is what a legacy read of the blob's
\* commitment finds, in its compact or full form.
LegacyIsFound ==
    \A c \in cached : Clean[c.prefix] = Clean[deployment.prefix] =>
        LET name == makeReadOnlyLegacyDerivationKey(deployment.prefix,
                        <<GenericType, VersionByte>> \o c.id)
        IN name \in DOMAIN objects
           /\ ShareCommitment[objects[name]] = ShareCommitment[c.data]

\* Legacy names are read-only: no write of the server, under any prefix, goes
\* to a name the external cache uses.
LegacyReadOnly ==
    \A w \in writes \cup stored, b \in chain, prefix \in Prefix, compact \in BOOLEAN :
        w.name # <<Clean[prefix],
                   <<LegacyVersion>> \o MarshalBinary(NewBlobID(b, b, compact))>>

(***************************************************************************)
(* The inductive invariant behind them: where each commitment, write,      *)
(* object and answer comes from.                                           *)
(***************************************************************************)

LegacyName(c) == <<Clean[c.prefix], <<LegacyVersion>> \o c.id>>

GivenEncoded ==
    \A g \in given : /\ g.blob \in chain
                     /\ g.key = EncodeCommitment(NewBlobID(g.blob, g.at, g.compact))

WritesNamed ==
    \A w \in writes \cup stored :
        /\ w.name = makeKey(w.prefix, w.key)
        /\ \E b \in chain : Found(w.key, b) /\ b.data = w.data

CacheNamed ==
    \A c \in cached : \E b \in chain, compact \in BOOLEAN :
        b.data = c.data /\ c.id = MarshalBinary(NewBlobID(b, b, compact))

\* An object is what a write of the server or of the cache made it, and each
\* write made one.
ObjectsMade ==
    /\ \A n \in DOMAIN objects :
           \/ \E w \in stored : n = w.name /\ objects[n] = w.data
           \/ \E c \in cached : n = LegacyName(c) /\ objects[n] = c.data
    /\ \A w \in stored : w.name \in DOMAIN objects
    /\ \A c \in cached : LegacyName(c) \in DOMAIN objects

AnswerFound ==
    get.stage = "served" => \E b \in chain : Found(get.key, b) /\ b.data = get.data

BucketInv ==
    /\ TypeOK
    /\ GivenEncoded
    /\ WritesNamed
    /\ CacheNamed
    /\ ObjectsMade
    /\ AnswerFound
=============================================================================
