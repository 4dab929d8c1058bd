--------------------------- MODULE CelestiaServer ---------------------------
(***************************************************************************)
(* The data path of the DA server: the PUT and GET handlers of             *)
(* celestia_server.go, the Celestia store they call (celestia_storage.go), *)
(* and the S3 fallback (fallback/s3/s3.go) with its asynchronous writers.  *)
(* Many handlers run at once; each is a program counter per request, one   *)
(* step per call that leaves the process or touches shared state.  The     *)
(* Celestia node and the bucket are external: they answer, fail, answer    *)
(* late or not at all.  CelestiaMetrics adds the metrics recorded.         *)
(***************************************************************************)
EXTENDS Integers, FiniteSets, FallbackMode

CONSTANTS
    Req,                \* HTTP requests; each is served at most once
    Data,               \* non-empty request bodies / blob payloads
    Commitments,        \* share commitments
    ShareCommitment,    \* blob.NewBlob(...).Commitment, a function of the data
    Location,           \* (ShareOffset, ShareSize) pairs of full blob IDs
    MaxHeight,          \* bound: how many blocks the chain grows
    MaxCrashes,         \* bound: how often the process dies
    Configs,            \* configurations the process is started under
    NodeMayMiss,        \* the node may fail to find a published blob
                        \* (pruned, not yet indexed)
    BucketTrusted,      \* the bucket returns what was stored, and its legacy
                        \* objects are published blobs
    None, BadKey, Compact

Height  == 1..MaxHeight
Tail    == Location \cup {Compact}

(***************************************************************************)
(* The commitment bytes a GET names and a PUT returns.  A well-formed one  *)
(* is 0x01 0x0c followed by the blob ID; a full ID carries a location      *)
(* after height and commitment, which the node never looks at.  BadKey is  *)
(* any hex string parseBlobIDFromCommitment refuses.                       *)
(***************************************************************************)
GoodKey == [height : Height, commitment : Commitments, tail : Tail]
Key     == GoodKey \cup {BadKey}

\* What NewCelestiaServer is given: fallback.Available(), fallbackMode, the
\* provider's readLegacyBlobs, the store's CompactBlobID and d.metrics # nil,
\* which only CelestiaMetrics looks at.
Config ==
    [available : BOOLEAN, mode : ModeStrings, legacy : BOOLEAN,
     compact : BOOLEAN, metrics : BOOLEAN]

ASSUME ConstantsAssumption ==
    /\ MaxHeight \in Nat /\ MaxCrashes \in Nat
    /\ ShareCommitment \in [Data -> Commitments]
    /\ Configs \subseteq Config
    /\ NodeMayMiss \in BOOLEAN /\ BucketTrusted \in BOOLEAN
    /\ IsFiniteSet(Req) /\ Compact \notin Location
    /\ None \notin Data /\ None \notin Key /\ BadKey \notin GoodKey

VARIABLES
    pc,         \* where each handler is
    op,         \* "put", "get", or "none" before the request is accepted
    data,       \* input of a PUT, the retrieved blob of a GET
    comm,       \* commitment of a PUT, requested commitment of a GET
    resp,       \* status the client received, "lost" when it received none
    pool,       \* PUTs whose transaction is broadcast and not yet in a block
    included,   \* height of the block that holds the PUT's blob, 0 if none
    height,     \* height of the chain
    writer,     \* the putFallback goroutine a request started
    wg,         \* CelestiaServer.wg
    s3put,      \* the writer's PutObject as the bucket sees it
    canonical,  \* canonical objects of the bucket, by commitment
    crashes,    \* how often the process died
    config      \* the configuration this process runs under

requestVars == <<pc, op, data, comm, resp>>
chainVars   == <<pool, included, height>>
writerVars  == <<writer, wg, s3put>>
processVars == <<crashes, config>>
vars == <<requestVars, chainVars, writerVars, canonical, processVars>>

PutPcs  == {"submit", "refetch", "spawn", "respond"}
GetPcs  == {"fetch", "canonical", "legacy", "reply"}
Pcs     == PutPcs \cup GetPcs \cup {"idle", "failed", "notfound", "done", "dead"}
Rejects == {"400", "405", "413"}
Status  == {"200", "404", "500"} \cup Rejects

Init ==
    /\ pc        = [r \in Req |-> "idle"]
    /\ op        = [r \in Req |-> "none"]
    /\ data      = [r \in Req |-> None]
    /\ comm      = [r \in Req |-> None]
    /\ resp      = [r \in Req |-> "none"]
    /\ pool      = {}
    /\ included  = [r \in Req |-> 0]
    /\ height    = 0
    /\ writer    = [r \in Req |-> "none"]
    /\ wg        = 0
    /\ s3put     = [r \in Req |-> "none"]
    /\ canonical = [k \in GoodKey |-> None]
    /\ crashes   = 0
    /\ config    \in Configs
-----------------------------------------------------------------------------
(***************************************************************************)
(* Helpers.                                                                *)
(***************************************************************************)
Goto(r, from, to) == pc[r] = from /\ pc' = [pc EXCEPT ![r] = to]

\* The handler ends and writes a response, which the client may not receive:
\* it hung up, its deadline passed, or the server's WriteTimeout did.
Finish(r, from, status) ==
    /\ Goto(r, from, "done")
    /\ \E seen \in {status, "lost"} : resp' = [resp EXCEPT ![r] = seen]

\* d that the block at k's height holds under k's commitment.
OnChain(k, d) ==
    /\ ShareCommitment[d] = k.commitment
    /\ \E q \in Req : included[q] = k.height /\ data[q] = d

Published(k) == k \in GoodKey /\ \E d \in Data : OnChain(k, d)

(***************************************************************************)
(* What Client.Get may return instead of the blob, and which of it the     *)
(* store calls "not found": isBlobNotFoundError looks for the words "not   *)
(* found" anywhere in the error text, and a nil blob counts too.           *)
(***************************************************************************)
NodeFailures(k) ==
    {"method not found", "deadline exceeded"} \cup
    (IF NodeMayMiss \/ ~Published(k) THEN {"blob: not found", "nil"} ELSE {})

isBlobNotFoundError(answer) == answer \in {"blob: not found", "method not found"}

WritesFallback == config.available /\ WriteEnabled(config.mode)

\* Mutant: the Add is left to the goroutine.
SpawnUncounted(r) ==
    IF WritesFallback
    THEN /\ writer' = [writer EXCEPT ![r] = "running"]
         /\ s3put'  = [s3put EXCEPT ![r] = "sent"]
         /\ UNCHANGED wg
    ELSE UNCHANGED writerVars

\* Between Add and Done.
WriterRuns(r) == writer[r] \in {"running", "success", "error"}

\* d.wg.Add(1); go d.putFallback(...): only when the fallback takes writes.
SpawnWriter(r) ==
    IF WritesFallback
    THEN /\ writer' = [writer EXCEPT ![r] = "running"]
         /\ s3put'  = [s3put EXCEPT ![r] = "sent"]
         /\ wg'     = wg + 1
    ELSE UNCHANGED writerVars
-----------------------------------------------------------------------------
(***************************************************************************)
(* HandlePut.                                                              *)
(***************************************************************************)

\* A wrong method or route, an oversized, unreadable or empty body.
PutReject(r) ==
    /\ \E status \in Rejects : Finish(r, "idle", status)
    /\ op' = [op EXCEPT ![r] = "put"]
    /\ UNCHANGED <<data, comm, chainVars, writerVars, canonical, processVars>>

\* The body is read and is a blob; store.Put starts.
PutAccept(r, d) ==
    /\ Goto(r, "idle", "submit")
    /\ op'   = [op EXCEPT ![r] = "put"]
    /\ data' = [data EXCEPT ![r] = d]
    /\ UNCHANGED <<comm, resp, chainVars, writerVars, canonical, processVars>>

\* Client.Submit hands the transaction to the network.
Broadcast(r) ==
    /\ pc[r] = "submit" /\ included[r] = 0 /\ r \notin pool
    /\ pool' = pool \cup {r}
    /\ UNCHANGED <<requestVars, included, height, writerVars, canonical,
                   processVars>>

\* Mutant: the head of the chain is taken for the height of the blob.
SubmitReturnHead(r) ==
    /\ Goto(r, "submit", IF config.compact THEN "spawn" ELSE "refetch")
    /\ included[r] # 0
    /\ comm' = [comm EXCEPT ![r] =
                   [height     |-> height,
                    commitment |-> ShareCommitment[data[r]],
                    tail       |-> Compact]]
    /\ UNCHANGED <<op, data, resp, chainVars, writerVars, canonical, processVars>>

\* Client.Submit returns the height of the block with the blob.  With compact
\* IDs the commitment is complete, else the stored blob is fetched back.
SubmitReturn(r) ==
    /\ Goto(r, "submit", IF config.compact THEN "spawn" ELSE "refetch")
    /\ included[r] # 0
    /\ comm' = [comm EXCEPT ![r] =
                   [height     |-> included[r],
                    commitment |-> ShareCommitment[data[r]],
                    tail       |-> Compact]]
    /\ UNCHANGED <<op, data, resp, chainVars, writerVars, canonical, processVars>>

\* Mutant: the call has no deadline and fails only for an included blob.
SubmitFailNoTimeout(r) ==
    /\ included[r] # 0
    /\ Goto(r, "submit", "failed")
    /\ UNCHANGED <<op, data, comm, resp, chainVars, writerVars, canonical, processVars>>

\* Client.Submit fails or its context ends, included or not.
SubmitFail(r) ==
    /\ Goto(r, "submit", "failed")
    /\ UNCHANGED <<op, data, comm, resp, chainVars, writerVars, canonical, processVars>>

\* The stored blob tells its location, which completes a full ID.
RefetchReturn(r) ==
    /\ Goto(r, "refetch", "spawn")
    /\ \E loc \in Location : comm' = [comm EXCEPT ![r] = [@ EXCEPT !.tail = loc]]
    /\ UNCHANGED <<op, data, resp, chainVars, writerVars, canonical, processVars>>

\* Mutant: without its location the ID is handed out all the same.
RefetchFailIgnored(r) ==
    /\ Goto(r, "refetch", "spawn")
    /\ UNCHANGED <<op, data, comm, resp, chainVars, writerVars, canonical, processVars>>

\* Fetching the stored blob fails: the PUT fails although the blob is included.
RefetchFail(r) ==
    /\ Goto(r, "refetch", "failed")
    /\ NodeFailures(comm[r]) \ {"nil"} # {}
    /\ UNCHANGED <<op, data, comm, resp, chainVars, writerVars, canonical, processVars>>

\* A nil blob without an error: b.Length() panics, recoveryMiddleware answers,
\* and no metric is recorded.
RefetchPanic(r) ==
    /\ Finish(r, "refetch", "500")
    /\ "nil" \in NodeFailures(comm[r])
    /\ UNCHANGED <<op, data, comm, chainVars, writerVars, canonical, processVars>>

PutSpawn(r) ==
    /\ Goto(r, "spawn", "respond")
    /\ SpawnWriter(r)
    /\ UNCHANGED <<op, data, comm, resp, chainVars, canonical, processVars>>

PutRespond(r) ==
    /\ Finish(r, "respond", "200")
    /\ UNCHANGED <<op, data, comm, chainVars, writerVars, canonical, processVars>>
-----------------------------------------------------------------------------
(***************************************************************************)
(* HandleGet and getBlob.                                                  *)
(***************************************************************************)

\* A wrong method or route, or a commitment that is not hex.
GetReject(r) ==
    /\ \E status \in {"400", "405"} : Finish(r, "idle", status)
    /\ op' = [op EXCEPT ![r] = "get"]
    /\ UNCHANGED <<data, comm, chainVars, writerVars, canonical, processVars>>

GetAccept(r, k) ==
    /\ Goto(r, "idle", "fetch")
    /\ op'   = [op EXCEPT ![r] = "get"]
    /\ comm' = [comm EXCEPT ![r] = k]
    /\ UNCHANGED <<data, resp, chainVars, writerVars, canonical, processVars>>

\* Mutant: the first blob of the block is taken, whatever its commitment.
FetchAnyAtHeight(r) ==
    /\ Goto(r, "fetch", "reply")
    /\ comm[r] \in GoodKey
    /\ \E q \in Req : /\ included[q] = comm[r].height
                      /\ data' = [data EXCEPT ![r] = data[q]]
    /\ SpawnWriter(r)
    /\ UNCHANGED <<op, comm, resp, chainVars, canonical, processVars>>

\* The node returns the blob; the fallback is populated in the background.
FetchFound(r) ==
    /\ Goto(r, "fetch", "reply")
    /\ comm[r] \in GoodKey
    /\ \E d \in Data : OnChain(comm[r], d) /\ data' = [data EXCEPT ![r] = d]
    /\ SpawnWriter(r)
    /\ UNCHANGED <<op, comm, resp, chainVars, canonical, processVars>>

\* ErrNotFound ends the request at once, whatever the fallback holds.
FetchNotFound(r) ==
    /\ Goto(r, "fetch", "notfound")
    /\ comm[r] \in GoodKey
    /\ \E answer \in NodeFailures(comm[r]) :
           answer = "nil" \/ isBlobNotFoundError(answer)
    /\ UNCHANGED <<op, data, comm, resp, chainVars, writerVars, canonical, processVars>>

\* Any other error, a commitment that does not parse included.
FetchFails(r) ==
    \/ comm[r] = BadKey
    \/ \E answer \in NodeFailures(comm[r]) :
           answer # "nil" /\ ~isBlobNotFoundError(answer)

\* No fallback to turn to.
FetchFail(r) ==
    /\ Goto(r, "fetch", "failed")
    /\ FetchFails(r) /\ ~config.available
    /\ UNCHANGED <<op, data, comm, resp, chainVars, writerVars, canonical, processVars>>

\* getFallback starts, in every mode.
FetchFallback(r) ==
    /\ Goto(r, "fetch", "canonical")
    /\ FetchFails(r) /\ config.available
    /\ UNCHANGED <<op, data, comm, resp, chainVars, writerVars, canonical,
                   processVars>>

\* What a GetObject may return for the canonical and the legacy key of k.
CanonicalObjects(k) ==
    IF ~BucketTrusted THEN Data
    ELSE {d \in Data : k \in GoodKey /\ canonical[k] = d}

LegacyObjects(k) ==
    IF ~BucketTrusted THEN Data ELSE {d \in Data : k \in GoodKey /\ OnChain(k, d)}

\* Mutant: only the commitment is parsed, the data is not hashed.
verifyFormatOnly(k, d) == k \in GoodKey

\* Fallback data is served only if it reproduces the requested commitment.
verifyFallbackCommitment(k, d) ==
    k \in GoodKey /\ ShareCommitment[d] = k.commitment

\* Mutant: the object is served as it is.
ServeUnverified(r, from, d) ==
    /\ Goto(r, from, "reply")
    /\ data' = [data EXCEPT ![r] = d]
    /\ UNCHANGED <<op, comm, resp, chainVars, writerVars, canonical, processVars>>

\* Mutant: fallback data is written to the fallback like a node's blob.
ServeAndPopulate(r, from, d) ==
    /\ verifyFallbackCommitment(comm[r], d)
    /\ Goto(r, from, "reply")
    /\ data' = [data EXCEPT ![r] = d]
    /\ SpawnWriter(r)
    /\ UNCHANGED <<op, comm, resp, chainVars, canonical, processVars>>

ServeFallback(r, from, d) ==
    /\ verifyFallbackCommitment(comm[r], d)
    /\ Goto(r, from, "reply")
    /\ data' = [data EXCEPT ![r] = d]
    /\ UNCHANGED <<op, comm, resp, chainVars, writerVars, canonical, processVars>>

\* A failed read, no object, or an object that does not verify.
FallbackError(r, from) ==
    /\ Goto(r, from, "failed")
    /\ UNCHANGED <<op, data, comm, resp, chainVars, writerVars, canonical, processVars>>

CanonicalFound(r) ==
    \E d \in CanonicalObjects(comm[r]) : ServeFallback(r, "canonical", d)

\* NoSuchKey, and legacy blobs are read: try the legacy key.
CanonicalMissing(r) ==
    /\ Goto(r, "canonical", "legacy")
    /\ config.legacy
    /\ ~BucketTrusted \/ CanonicalObjects(comm[r]) = {}
    /\ UNCHANGED <<op, data, comm, resp, chainVars, writerVars, canonical,
                   processVars>>

CanonicalError(r) == FallbackError(r, "canonical")

LegacyFound(r) == \E d \in LegacyObjects(comm[r]) : ServeFallback(r, "legacy", d)

\* Mutant: an object that does not verify is no error.
LegacyErrorOnlyMissing(r) ==
    LegacyObjects(comm[r]) = {} /\ FallbackError(r, "legacy")

LegacyError(r) == FallbackError(r, "legacy")

GetRespond(r) ==
    /\ Finish(r, "reply", "200")
    /\ UNCHANGED <<op, data, comm, chainVars, writerVars, canonical, processVars>>

\* A PUT or a GET that failed, or a GET that found nothing, is answered so.
RespondError(r) ==
    /\ Finish(r, "failed", "500") \/ Finish(r, "notfound", "404")
    /\ UNCHANGED <<op, data, comm, chainVars, writerVars, canonical, processVars>>
-----------------------------------------------------------------------------
(***************************************************************************)
(* putFallback, the chain, the bucket, and the end of the process.         *)
(***************************************************************************)

\* Mutant: objects are named by the share commitment alone.
ApplyByCommitment(r) ==
    /\ s3put[r] = "sent"
    /\ s3put'     = [s3put EXCEPT ![r] = "applied"]
    /\ canonical' = [k \in GoodKey |-> IF k.commitment = comm[r].commitment
                                       THEN data[r] ELSE canonical[k]]
    /\ UNCHANGED <<requestVars, chainVars, writer, wg, processVars>>

\* Mutant: objects are named by the height alone.
ApplyByHeight(r) ==
    /\ s3put[r] = "sent"
    /\ s3put'     = [s3put EXCEPT ![r] = "applied"]
    /\ canonical' = [k \in GoodKey |-> IF k.height = comm[r].height
                                       THEN data[r] ELSE canonical[k]]
    /\ UNCHANGED <<requestVars, chainVars, writer, wg, processVars>>

\* The bucket carries out a PutObject: before or after the writer gave up on
\* it, even after the process died.
BucketApply(r) ==
    /\ s3put[r] = "sent"
    /\ s3put'     = [s3put EXCEPT ![r] = "applied"]
    /\ canonical' = [canonical EXCEPT ![comm[r]] = data[r]]
    /\ UNCHANGED <<requestVars, chainVars, writer, wg, processVars>>

Ends(r, from, to) == writer[r] = from /\ writer' = [writer EXCEPT ![r] = to]

\* fallback.Put returns without an error.
WriterStored(r) ==
    /\ s3put[r] = "applied"
    /\ Ends(r, "running", "success")
    /\ UNCHANGED <<requestVars, chainVars, wg, s3put, canonical, processVars>>

\* Mutant: the write has no timeout and fails only once the bucket has it.
WriterFailedNoTimeout(r) ==
    /\ s3put[r] = "applied"
    /\ Ends(r, "running", "error")
    /\ UNCHANGED <<requestVars, chainVars, wg, s3put, canonical, processVars>>

\* An error or the provider's timeout; the object may be stored all the same.
WriterFailed(r) ==
    /\ Ends(r, "running", "error")
    /\ UNCHANGED <<requestVars, chainVars, wg, s3put, canonical, processVars>>

\* Mutant: Done is called twice, on return and by the caller.
WriterEndsTwice(r) ==
    /\ Ends(r, "success", "stored") \/ Ends(r, "error", "failed")
    /\ wg' = wg - 2
    /\ UNCHANGED <<requestVars, chainVars, s3put, canonical, processVars>>

\* The deferred d.wg.Done(), the last thing the goroutine does.
WriterEnd(r) ==
    /\ Ends(r, "success", "stored") \/ Ends(r, "error", "failed")
    /\ wg' = wg - 1
    /\ UNCHANGED <<requestVars, chainVars, s3put, canonical, processVars>>

\* A block takes any of the broadcast transactions, those of callers that gave
\* up or died included.
NewBlock ==
    /\ height < MaxHeight
    /\ height' = height + 1
    /\ \E txs \in SUBSET pool :
           /\ pool'     = pool \ txs
           /\ included' = [r \in Req |-> IF r \in txs THEN height' ELSE included[r]]
    /\ UNCHANGED <<requestVars, writerVars, canonical, processVars>>

\* The process dies: handlers, writers and wait group are gone; the
\* chain, the bucket and what was sent to them are not.  It is started again,
\* perhaps under another configuration.
Crash ==
    /\ crashes < MaxCrashes
    /\ crashes' = crashes + 1
    /\ pc'      = [r \in Req |-> IF pc[r] = "idle" THEN "idle"
                                 ELSE IF pc[r] = "done" THEN "done" ELSE "dead"]
    /\ writer'  = [r \in Req |-> IF WriterRuns(r) THEN "killed"
                                 ELSE writer[r]]
    /\ wg'      = 0
    /\ config'  \in Configs
    /\ UNCHANGED <<op, data, comm, resp, chainVars, s3put, canonical>>

\* Every request has ended and no writer is left.
Terminated ==
    /\ \A r \in Req : pc[r] \in {"done", "dead"} /\ ~WriterRuns(r)
    /\ UNCHANGED vars
-----------------------------------------------------------------------------
PutStep(r) ==
    \/ SubmitReturn(r) \/ SubmitFail(r)
    \/ RefetchReturn(r) \/ RefetchFail(r) \/ RefetchPanic(r)
    \/ PutSpawn(r) \/ PutRespond(r)

GetStep(r) ==
    \/ FetchFound(r) \/ FetchNotFound(r) \/ FetchFail(r) \/ FetchFallback(r)
    \/ CanonicalFound(r) \/ CanonicalMissing(r) \/ CanonicalError(r)
    \/ LegacyFound(r) \/ LegacyError(r)
    \/ GetRespond(r)

HandlerStep(r) == PutStep(r) \/ GetStep(r) \/ RespondError(r)

WriterStep(r) == WriterStored(r) \/ WriterFailed(r) \/ WriterEnd(r)

Accept(r) ==
    \/ PutReject(r) \/ GetReject(r)
    \/ \E d \in Data : PutAccept(r, d)
    \/ \E k \in Key : GetAccept(r, k)

Next ==
    \/ \E r \in Req : \/ Accept(r) \/ Broadcast(r)
                      \/ HandlerStep(r)
                      \/ WriterStep(r) \/ BucketApply(r)
    \/ NewBlock \/ Crash \/ Terminated

Spec == Init /\ [][Next]_vars

(***************************************************************************)
(* Every call a handler or a writer makes has a context with a timeout     *)
(* (submitTimeout, getTimeout, the provider's), so it returns and the      *)
(* goroutine goes on.  Nothing is assumed of clients, node and bucket.     *)
(***************************************************************************)
Fairness == \A r \in Req : /\ WF_vars(HandlerStep(r))
                           /\ WF_vars(WriterStep(r))

FairSpec == Spec /\ Fairness
-----------------------------------------------------------------------------
(***************************************************************************)
(* Properties.                                                             *)
(***************************************************************************)

ReqData == Data \cup {None}

\* The type invariant of the data path's state.
TypeOK ==
    /\ pc        \in [Req -> Pcs]
    /\ op        \in [Req -> {"none", "put", "get"}]
    /\ data      \in [Req -> ReqData]
    /\ comm      \in [Req -> Key \cup {None}]
    /\ resp      \in [Req -> Status \cup {"none", "lost"}]
    /\ pool      \in SUBSET Req
    /\ included  \in [Req -> 0..MaxHeight]
    /\ height    \in 0..MaxHeight
    /\ writer    \in [Req -> {"none", "running", "success", "error",
                            "stored", "failed", "killed"}]
    /\ wg        \in Nat
    /\ s3put     \in [Req -> {"none", "sent", "applied"}]
    /\ canonical \in [GoodKey -> ReqData]
    /\ crashes   \in 0..MaxCrashes
    /\ config    \in Configs

\* A PUT is answered 200 only when its blob is in a block, and the commitment
\* it returns names that block and that blob: HandlePut blocks until store.Put
\* confirmed, whatever retries, crashes and other PUTs of the same data do.
\* What it is about to return is complete: a full ID has its location.
PutConfirmed ==
    \A r \in Req : op[r] = "put" =>
        /\ resp[r] = "200" => /\ comm[r] \in GoodKey
                              /\ comm[r].height = included[r]
                              /\ OnChain(comm[r], data[r])
        /\ pc[r] = "respond" => (comm[r].tail = Compact <=> config.compact)

\* A GET is answered 200 only with data that hashes to the requested
\* commitment, whatever the bucket returned: the check getBlob makes on
\* fallback data leaves no path around it.
GetIntegrity ==
    \A r \in Req : op[r] = "get" /\ resp[r] = "200" =>
        /\ comm[r] \in GoodKey
        /\ ShareCommitment[data[r]] = comm[r].commitment

\* Share commitments of different data differ.
CollisionFree ==
    \A d, e \in Data : ShareCommitment[d] = ShareCommitment[e] => d = e

\* A commitment that a PUT handed out can never be answered with other data,
\* by the node, the canonical or the legacy objects, before or after a crash.
ReadYourWrite ==
    \A p, g \in Req :
        /\ op[p] = "put" /\ resp[p] = "200"
        /\ op[g] = "get" /\ resp[g] = "200"
        /\ comm[g].commitment = comm[p].commitment
        => data[g] = data[p]

\* With a bucket that returns what was stored, a GET serves nothing that is
\* not on Celestia at the requested height: the fallback never invents a blob.
ServedIsPublished ==
    BucketTrusted =>
        \A r \in Req : op[r] = "get" /\ resp[r] = "200" => OnChain(comm[r], data[r])

\* Every object a writer stored, by a PUT, a GET or a call the bucket carried
\* out late, is the blob Celestia holds under that commitment; a writer that
\* reports success left one.  So a later read of the object verifies.
FallbackSound ==
    /\ \A k \in GoodKey : canonical[k] # None => OnChain(k, canonical[k])
    /\ \A r \in Req : writer[r] \in {"success", "stored"} => canonical[comm[r]] # None

\* CelestiaServer.wg counts exactly the writers that run, in every
\* interleaving of Add in the handlers and Done in the writers, and through
\* crashes; what Stop makes of it is the matter of ServerLifecycle.
WaitGroupCountsWriters == wg = Cardinality({r \in Req : WriterRuns(r)})

\* A stored object is never replaced by other data, not even by a PutObject the
\* bucket carries out after newer ones, or after the process died.
CanonicalNeverChanges ==
    [][\A k \in GoodKey : canonical[k] # None => canonical'[k] = canonical[k]]_vars

\* Every request a handler took on ends: answered, or with the process.
RequestsEnd ==
    \A r \in Req : op[r] # "none" ~> pc[r] \in {"done", "dead"}

\* Every writer ends, so the wait group is drained once requests stop.
WritersEnd == \A r \in Req : WriterRuns(r) ~> ~WriterRuns(r)

(***************************************************************************)
(* The inductive invariant of the safety properties.  RequestOK relates the *)
(* state of one request's handler, transaction and writer; StoreOK relates *)
(* requests, bucket and chain.                                             *)
(***************************************************************************)

\* The data of r is the blob its commitment names.
Matches(r) ==
    /\ comm[r] \in GoodKey /\ data[r] \in Data
    /\ ShareCommitment[data[r]] = comm[r].commitment

\* The commitment of PUT r names its own blob where it is included.
Located(r) == Matches(r) /\ comm[r].height = included[r]

RequestOK(r) ==
    /\ op[r] = "none" <=> pc[r] = "idle"
    /\ pc[r] = "idle" => data[r] = None /\ comm[r] = None
    /\ pc[r] # "done" => resp[r] = "none"
    /\ pc[r] \in PutPcs => op[r] = "put" /\ data[r] \in Data
    /\ pc[r] \in PutPcs \ {"submit"} => Located(r)
    /\ pc[r] \in {"spawn", "respond"} =>
           (comm[r].tail = Compact <=> config.compact)
    /\ pc[r] = "refetch" => ~config.compact
    /\ pc[r] \in GetPcs => op[r] = "get" /\ comm[r] \in Key
    /\ pc[r] = "reply" => Matches(r)
    /\ pc[r] = "failed" =>
           (op[r] = "put" /\ data[r] \in Data) \/ (op[r] = "get" /\ comm[r] \in Key)
    /\ pc[r] = "notfound" => op[r] = "get" /\ comm[r] \in Key
    /\ op[r] = "put" /\ resp[r] = "200" => Located(r)
    /\ op[r] = "get" /\ resp[r] = "200" => Matches(r)
    /\ included[r] # 0 \/ r \in pool => op[r] = "put" /\ data[r] \in Data
    /\ r \in pool => included[r] = 0
    /\ s3put[r] # "none" => Matches(r) /\ pc[r] \in {"respond", "reply", "done", "dead"}
    /\ s3put[r] = "none" => writer[r] = "none"
    /\ writer[r] \in {"success", "stored"} => s3put[r] = "applied"

StoreOK ==
    /\ \A r \in Req : s3put[r] # "none" => OnChain(comm[r], data[r])
    /\ \A r \in Req : s3put[r] = "applied" => canonical[comm[r]] # None
    /\ \A k \in GoodKey : canonical[k] # None => OnChain(k, canonical[k])

\* What is served from a bucket that can be trusted is on the chain.
ServedOK ==
    BucketTrusted =>
        \A r \in Req :
            pc[r] = "reply" \/ (op[r] = "get" /\ resp[r] = "200")
                => OnChain(comm[r], data[r])

\* The strengthening that makes the safety properties inductive: it follows
\* each commitment from the block through handler, writer and bucket to the
\* client that reads it back.
ServerInv ==
    /\ TypeOK
    /\ \A r \in Req : RequestOK(r)
    /\ StoreOK
    /\ ServedOK
    /\ WaitGroupCountsWriters

(***************************************************************************)
(* What a document says and the code does not do; refuted by a run.        *)
(***************************************************************************)

\* The handler decides to answer 404.
FindsNothing(r) == pc[r] # "notfound" /\ pc'[r] = "notfound"

\* API.md, 404: "Blob doesn't exist at height/commitment".
NotFoundMeansAbsent ==
    [][\A r \in Req : FindsNothing(r) => ~Published(comm[r])]_vars
=============================================================================
