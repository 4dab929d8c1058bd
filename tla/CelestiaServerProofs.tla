------------------------ MODULE CelestiaServerProofs ------------------------
(***************************************************************************)
(* Proofs about CelestiaServer: ServerInv is an invariant, and with it        *)
(* TypeOK, PutConfirmed, GetIntegrity, ReadYourWrite, ServedIsPublished,   *)
(* FallbackSound and WaitGroupCountsWriters, for any finite set of         *)
(* requests, any data and any configuration.                               *)
(***************************************************************************)
EXTENDS CelestiaServer, FiniteSetTheorems, TLAPS

USE DEF Height, Tail, GoodKey, Key, PutPcs, GetPcs, Pcs, Rejects, Status,
        requestVars, chainVars, writerVars, processVars

\* What every action of a request is made of.
Actions(r) ==
    Accept(r) \/ Broadcast(r) \/ HandlerStep(r) \/ WriterStep(r) \/ BucketApply(r)

-----------------------------------------------------------------------------
(***************************************************************************)
(* The chain only grows: what is included stays, with its data.            *)
(***************************************************************************)

ChainKept == \A q \in Req : included[q] # 0 =>
                 included'[q] = included[q] /\ data'[q] = data[q]

\* No step of the server, the node or the bucket takes a blob off the chain
\* or changes its data.
LEMMA ChainGrows == ServerInv /\ [Next]_vars => ChainKept
<1> SUFFICES ASSUME ServerInv, [Next]_vars PROVE ChainKept
  OBVIOUS
<1> USE DEF ChainKept
<1>1. ASSUME NEW r \in Req, Accept(r) PROVE ChainKept
  <2>1. pc[r] = "idle"
    BY <1>1 DEF Accept, PutReject, GetReject, PutAccept, GetAccept, Goto, Finish
  <2>2. included[r] = 0
    BY <2>1 DEF ServerInv, TypeOK, RequestOK
  <2> QED
    BY <1>1, <2>2 DEF Accept, PutReject, GetReject, PutAccept, GetAccept,
       ServerInv, TypeOK
<1>2. ASSUME NEW r \in Req, PutStep(r) PROVE ChainKept
  BY <1>2 DEF PutStep, SubmitReturn, SubmitFail, RefetchReturn, RefetchFail,
     RefetchPanic, PutSpawn, PutRespond
<1>3. ASSUME NEW r \in Req, GetStep(r) PROVE ChainKept
  <2>1. pc[r] \in GetPcs
    BY <1>3 DEF GetStep, FetchFound, FetchNotFound, FetchFail, FetchFallback,
       CanonicalFound, CanonicalMissing, CanonicalError, LegacyFound, LegacyError,
       GetRespond, ServeFallback, FallbackError, Goto, Finish
  <2>2. included[r] = 0
    BY <2>1 DEF ServerInv, TypeOK, RequestOK
  <2> QED
    BY <1>3, <2>2 DEF GetStep, FetchFound, FetchNotFound, FetchFail,
       FetchFallback, CanonicalFound, CanonicalMissing, CanonicalError, LegacyFound,
       LegacyError, GetRespond, ServeFallback, FallbackError, ServerInv, TypeOK
<1>4. ASSUME NEW r \in Req,
             WriterStep(r) \/ BucketApply(r) \/ Broadcast(r) \/ RespondError(r)
      PROVE ChainKept
  BY <1>4 DEF RespondError, WriterStep, WriterStored, WriterFailed, WriterEnd,
     Ends, BucketApply, Broadcast
<1>5. CASE NewBlock
  BY <1>5 DEF NewBlock, ServerInv, RequestOK
<1>6. CASE Crash \/ Terminated \/ UNCHANGED vars
  BY <1>6 DEF Crash, Terminated, vars
<1> QED
  BY <1>1, <1>2, <1>3, <1>4, <1>5, <1>6 DEF Next, HandlerStep

\* So a blob found at a height is found there ever after.
LEMMA OnChainStable ==
  ASSUME ChainKept, NEW k \in GoodKey, NEW d, OnChain(k, d)
  PROVE  OnChain(k, d)'
BY ConstantsAssumption DEF OnChain, ChainKept

-----------------------------------------------------------------------------
(***************************************************************************)
(* The initial state.                                                      *)
(***************************************************************************)

LEMMA InitInv == Init => ServerInv
<1> SUFFICES ASSUME Init PROVE ServerInv
  OBVIOUS
<1>1. TypeOK
  BY ConstantsAssumption DEF Init, TypeOK, ReqData
<1>2. \A r \in Req : RequestOK(r)
  BY DEF Init, RequestOK
<1>3. StoreOK /\ ServedOK
  BY DEF Init, StoreOK, ServedOK
<1>4. WaitGroupCountsWriters
  <2>1. {r \in Req : WriterRuns(r)} = {}
    BY DEF Init, WriterRuns
  <2> QED
    BY <2>1, FS_EmptySet DEF Init, WaitGroupCountsWriters
<1> QED
  BY <1>1, <1>2, <1>3, <1>4 DEF ServerInv

-----------------------------------------------------------------------------
(***************************************************************************)
(* TypeOK.                                                                 *)
(***************************************************************************)

LEMMA FinishTypes ==
  ASSUME TypeOK, NEW r \in Req, NEW from, NEW status \in Status,
         Finish(r, from, status)
  PROVE  /\ pc' \in [Req -> Pcs]
         /\ resp' \in [Req -> Status \cup {"none", "lost"}]
BY DEF TypeOK, Finish, Goto

\* A running writer holds a unit of the wait group.
LEMMA RunningCounted ==
  ASSUME ServerInv, NEW r \in Req, WriterRuns(r)
  PROVE  wg >= 1
<1> DEFINE S == {q \in Req : WriterRuns(q)}
<1>1. IsFiniteSet(S)
  BY ConstantsAssumption, FS_Subset
<1>2. S # {}
  OBVIOUS
<1>3. Cardinality(S) # 0 /\ Cardinality(S) \in Nat
  BY <1>1, <1>2, FS_EmptySet, FS_CardinalityType
<1> QED
  BY <1>3 DEF ServerInv, WaitGroupCountsWriters

LEMMA TypeStep == ServerInv /\ [Next]_vars => TypeOK'
<1> SUFFICES ASSUME ServerInv, [Next]_vars PROVE TypeOK'
  OBVIOUS
<1>1. TypeOK /\ \A r \in Req : RequestOK(r)
  BY DEF ServerInv
<1> USE <1>1 DEF TypeOK, ReqData
<1>2. ASSUME NEW r \in Req, Accept(r) PROVE TypeOK'
  <2>1. CASE PutReject(r) \/ GetReject(r)
    <3>1. PICK status \in Status : Finish(r, "idle", status)
      BY <2>1 DEF PutReject, GetReject
    <3>2. op' \in [Req -> {"none", "put", "get"}]
      BY <2>1 DEF PutReject, GetReject
    <3> QED
      BY <2>1, <3>1, <3>2, FinishTypes DEF PutReject, GetReject
  <2>2. ASSUME NEW d \in Data, PutAccept(r, d) PROVE TypeOK'
    BY <2>2 DEF PutAccept, Goto
  <2>3. ASSUME NEW k \in Key, GetAccept(r, k) PROVE TypeOK'
    BY <2>3 DEF GetAccept, Goto
  <2> QED
    BY <1>2, <2>1, <2>2, <2>3 DEF Accept
<1>3. ASSUME NEW r \in Req, PutStep(r) PROVE TypeOK'
  <2>1. CASE SubmitReturn(r)
    <3>1. included[r] \in Height /\ data[r] \in Data
      BY <2>1 DEF SubmitReturn, Goto, RequestOK
    <3>2. ShareCommitment[data[r]] \in Commitments
      BY <3>1, ConstantsAssumption
    <3> QED
      BY <2>1, <3>1, <3>2 DEF SubmitReturn, Goto
  <2>2. CASE SubmitFail(r)
    BY <2>2 DEF SubmitFail, Goto
  <2>3. CASE RefetchReturn(r)
    <3>1. comm[r] \in GoodKey
      BY <2>3 DEF RefetchReturn, Goto, RequestOK, Located, Matches
    <3> QED
      BY <2>3, <3>1 DEF RefetchReturn, Goto
  <2>4. CASE RefetchFail(r)
    BY <2>4 DEF RefetchFail, Goto
  <2>5. CASE RefetchPanic(r)
    BY <2>5, FinishTypes DEF RefetchPanic
  <2>7. CASE PutSpawn(r)
    BY <2>7 DEF PutSpawn, SpawnWriter, Goto
  <2>8. CASE PutRespond(r)
    BY <2>8, FinishTypes DEF PutRespond
  <2> QED
    BY <1>3, <2>1, <2>2, <2>3, <2>4, <2>5, <2>7, <2>8 DEF PutStep
<1>4. ASSUME NEW r \in Req, GetStep(r) PROVE TypeOK'
  <2>1. CASE FetchFound(r)
    BY <2>1 DEF FetchFound, SpawnWriter, Goto
  <2>2. CASE FetchNotFound(r)
    BY <2>2 DEF FetchNotFound, Goto
  <2>3. CASE FetchFail(r)
    BY <2>3 DEF FetchFail, Goto
  <2>9. CASE FetchFallback(r)
    BY <2>9 DEF FetchFallback, Goto
  <2>4. ASSUME NEW from, NEW d \in Data, ServeFallback(r, from, d) PROVE TypeOK'
    BY <2>4 DEF ServeFallback, Goto
  <2>5. CASE CanonicalMissing(r)
    BY <2>5 DEF CanonicalMissing, Goto
  <2>6. CASE CanonicalError(r) \/ LegacyError(r)
    <3>1. PICK from \in {"canonical", "legacy"} : FallbackError(r, from)
      BY <2>6 DEF CanonicalError, LegacyError
    <3> QED
      BY <3>1 DEF FallbackError, Goto
  <2>7. CASE CanonicalFound(r) \/ LegacyFound(r)
    BY <2>4, <2>7 DEF CanonicalFound, LegacyFound, CanonicalObjects, LegacyObjects
  <2>8. CASE GetRespond(r)
    BY <2>8, FinishTypes DEF GetRespond
  <2> QED
    BY <1>4, <2>1, <2>2, <2>3, <2>5, <2>6, <2>7, <2>8, <2>9 DEF GetStep
<1>5. ASSUME NEW r \in Req, WriterStep(r) PROVE TypeOK'
  <2>1. CASE WriterStored(r) \/ WriterFailed(r)
    BY <2>1 DEF WriterStored, WriterFailed, Ends
  <2>2. CASE WriterEnd(r)
    <3>1. wg' \in Nat
      BY <2>2, RunningCounted DEF WriterEnd, Ends, WriterRuns
    <3> QED
      BY <2>2, <3>1 DEF WriterEnd, Ends
  <2> QED
    BY <1>5, <2>1, <2>2 DEF WriterStep
<1>11. ASSUME NEW r \in Req, RespondError(r) PROVE TypeOK'
  BY <1>11, FinishTypes DEF RespondError
<1>6. ASSUME NEW r \in Req, BucketApply(r) PROVE TypeOK'
  BY <1>6 DEF BucketApply
<1>7. ASSUME NEW r \in Req, Broadcast(r) PROVE TypeOK'
  BY <1>7 DEF Broadcast
<1>8. CASE NewBlock
  BY <1>8, ConstantsAssumption DEF NewBlock
<1>9. CASE Crash
  BY <1>9, ConstantsAssumption DEF Crash, WriterRuns
<1>10. CASE Terminated \/ UNCHANGED vars
  BY <1>10 DEF Terminated, vars
<1> QED
  BY <1>2, <1>3, <1>4, <1>5, <1>6, <1>7, <1>8, <1>9, <1>10, <1>11
     DEF Next, HandlerStep

-----------------------------------------------------------------------------
(***************************************************************************)
(* WaitGroupCountsWriters.                                                 *)
(***************************************************************************)

\* One writer more, one writer less.
LEMMA CountUp ==
  ASSUME ServerInv, NEW r \in Req, ~WriterRuns(r),
         writer' = [writer EXCEPT ![r] = "running"], wg' = wg + 1
  PROVE  WaitGroupCountsWriters'
<1> DEFINE S == {q \in Req : WriterRuns(q)}
<1>1. IsFiniteSet(S) /\ r \notin S
  BY ConstantsAssumption, FS_Subset
<1>2. {q \in Req : WriterRuns(q)}' = S \cup {r}
  BY DEF ServerInv, TypeOK, WriterRuns
<1>3. Cardinality(S \cup {r}) = Cardinality(S) + 1
  BY <1>1, FS_AddElement
<1> QED
  BY <1>2, <1>3 DEF ServerInv, WaitGroupCountsWriters

LEMMA CountDown ==
  ASSUME ServerInv, NEW r \in Req, WriterEnd(r)
  PROVE  WaitGroupCountsWriters'
<1> DEFINE S == {q \in Req : WriterRuns(q)}
<1>1. IsFiniteSet(S) /\ r \in S
  BY ConstantsAssumption, FS_Subset DEF WriterEnd, Ends, WriterRuns
<1>2. {q \in Req : WriterRuns(q)}' = S \ {r}
  BY DEF ServerInv, TypeOK, WriterEnd, Ends, WriterRuns
<1>3. Cardinality(S \ {r}) = Cardinality(S) - 1
  BY <1>1, FS_RemoveElement
<1> QED
  BY <1>2, <1>3 DEF ServerInv, WaitGroupCountsWriters, WriterEnd

LEMMA CountSame ==
  ASSUME ServerInv, UNCHANGED <<writer, wg>>
  PROVE  WaitGroupCountsWriters'
BY DEF ServerInv, WaitGroupCountsWriters, WriterRuns

\* A writer that has its result still runs.
LEMMA CountKept ==
  ASSUME ServerInv, NEW r \in Req, WriterStored(r) \/ WriterFailed(r)
  PROVE  WaitGroupCountsWriters'
<1>1. {q \in Req : WriterRuns(q)}' = {q \in Req : WriterRuns(q)}
  BY DEF ServerInv, TypeOK, WriterStored, WriterFailed, Ends, WriterRuns
<1> QED
  BY <1>1 DEF ServerInv, WaitGroupCountsWriters, WriterStored, WriterFailed

\* A handler starts its one writer where it has none.
LEMMA CountSpawn ==
  ASSUME ServerInv, NEW r \in Req, pc[r] \in {"spawn", "fetch"}, SpawnWriter(r)
  PROVE  WaitGroupCountsWriters'
<1>1. ~WriterRuns(r)
  BY DEF ServerInv, TypeOK, RequestOK, WriterRuns
<1> QED
  BY <1>1, CountUp, CountSame DEF SpawnWriter

LEMMA CountStep == ServerInv /\ [Next]_vars => WaitGroupCountsWriters'
<1> SUFFICES ASSUME ServerInv, [Next]_vars PROVE WaitGroupCountsWriters'
  OBVIOUS
<1>1. ASSUME NEW r \in Req,
             Accept(r) \/ Broadcast(r) \/ BucketApply(r) \/ RespondError(r)
      PROVE  WaitGroupCountsWriters'
  BY <1>1, CountSame DEF Accept, PutReject, GetReject, PutAccept, GetAccept,
     Broadcast, BucketApply, RespondError
<1>2. ASSUME NEW r \in Req, PutStep(r) PROVE WaitGroupCountsWriters'
  <2>1. CASE PutSpawn(r)
    BY <2>1, CountSpawn DEF PutSpawn, Goto
  <2>2. CASE ~PutSpawn(r)
    BY <1>2, <2>2, CountSame DEF PutStep, SubmitReturn, SubmitFail, RefetchReturn,
       RefetchFail, RefetchPanic, PutRespond
  <2> QED
    BY <2>1, <2>2
<1>3. ASSUME NEW r \in Req, GetStep(r) PROVE WaitGroupCountsWriters'
  <2>1. CASE FetchFound(r)
    BY <2>1, CountSpawn DEF FetchFound, Goto
  <2>2. CASE ~FetchFound(r)
    BY <1>3, <2>2, CountSame DEF GetStep, FetchNotFound, FetchFail, FetchFallback,
       CanonicalFound, CanonicalMissing, CanonicalError, LegacyFound, LegacyError,
       GetRespond, ServeFallback, FallbackError
  <2> QED
    BY <2>1, <2>2
<1>4. ASSUME NEW r \in Req, WriterStep(r) PROVE WaitGroupCountsWriters'
  BY <1>4, CountDown, CountKept DEF WriterStep
<1>5. CASE Crash
  <2>1. {r \in Req : WriterRuns(r)}' = {}
    BY <1>5 DEF Crash, WriterRuns
  <2> QED
    BY <1>5, <2>1, FS_EmptySet DEF Crash, WaitGroupCountsWriters
<1>6. CASE NewBlock \/ Terminated \/ UNCHANGED vars
  BY <1>6, CountSame DEF NewBlock, Terminated, vars
<1> QED
  BY <1>1, <1>2, <1>3, <1>4, <1>5, <1>6 DEF Next, HandlerStep

-----------------------------------------------------------------------------
(***************************************************************************)
(* RequestOK: a step of request r leaves the others as they are.           *)
(***************************************************************************)

\* All that RequestOK says of q, unchanged.
Kept(q) ==
    /\ pc'[q] = pc[q] /\ op'[q] = op[q] /\ data'[q] = data[q]
    /\ comm'[q] = comm[q] /\ resp'[q] = resp[q]
    /\ included'[q] = included[q] /\ (q \in pool' <=> q \in pool)
    /\ s3put'[q] = s3put[q] /\ writer'[q] = writer[q] /\ config' = config

LEMMA KeptOK ==
  ASSUME NEW q \in Req, RequestOK(q), Kept(q)
  PROVE  RequestOK(q)'
BY DEF RequestOK, Kept, Located, Matches

\* An action of r touches only what belongs to r.
LEMMA OthersKept ==
  ASSUME TypeOK, NEW r \in Req, Actions(r), NEW q \in Req, q # r
  PROVE  Kept(q)
<1>1. CASE Accept(r)
  BY <1>1 DEF TypeOK, Accept, PutReject, GetReject, PutAccept, GetAccept, Goto,
     Finish, Kept
<1>2. CASE PutStep(r)
  BY <1>2 DEF TypeOK, PutStep, SubmitReturn, SubmitFail, RefetchReturn,
     RefetchFail, RefetchPanic, PutSpawn, PutRespond, SpawnWriter, Goto, Finish,
     Kept
<1>3. CASE GetStep(r)
  BY <1>3 DEF TypeOK, GetStep, FetchFound, FetchNotFound, FetchFail,
     FetchFallback, CanonicalFound, CanonicalMissing, CanonicalError,
     LegacyFound, LegacyError, GetRespond, ServeFallback, FallbackError,
     SpawnWriter, Goto, Finish, Kept
<1>4. CASE WriterStep(r) \/ BucketApply(r) \/ Broadcast(r) \/ RespondError(r)
  BY <1>4 DEF TypeOK, RespondError, Goto, Finish, WriterStep, WriterStored,
     WriterFailed, WriterEnd, Ends, BucketApply, Broadcast, Kept
<1> QED
  BY <1>1, <1>2, <1>3, <1>4 DEF Actions, HandlerStep

LEMMA OwnRequestOK ==
  ASSUME ServerInv, NEW r \in Req, Actions(r)
  PROVE  RequestOK(r)'
<1>0. TypeOK /\ RequestOK(r)
  BY DEF ServerInv
<1> USE <1>0 DEF TypeOK, RequestOK, Located, Matches, Goto, Finish
<1>1. CASE Accept(r)
  BY <1>1, ConstantsAssumption DEF Accept, PutReject, GetReject, PutAccept,
     GetAccept
<1>2. CASE PutStep(r)
  <2>1. CASE SubmitReturn(r)
    <3>1. included[r] \in Height /\ ShareCommitment[data[r]] \in Commitments
      BY <2>1, ConstantsAssumption DEF SubmitReturn
    <3> QED
      BY <2>1, <3>1 DEF SubmitReturn
  <2>2. CASE SubmitFail(r) \/ RefetchFail(r)
    BY <2>2 DEF SubmitFail, RefetchFail
  <2>4. CASE RefetchPanic(r)
    BY <2>4 DEF RefetchPanic
  <2>3. CASE RefetchReturn(r)
    BY <2>3, ConstantsAssumption DEF RefetchReturn
  <2>5. CASE PutSpawn(r)
    BY <2>5 DEF PutSpawn, SpawnWriter
  <2>6. CASE PutRespond(r)
    BY <2>6 DEF PutRespond
  <2> QED
    BY <1>2, <2>1, <2>2, <2>3, <2>4, <2>5, <2>6 DEF PutStep
<1>3. CASE GetStep(r)
  <2>1. CASE FetchFound(r)
    <3>1. ShareCommitment[data'[r]] = comm[r].commitment /\ data'[r] \in Data
      BY <2>1 DEF FetchFound, OnChain
    <3> QED
      BY <2>1, <3>1 DEF FetchFound, SpawnWriter
  <2>2. CASE FetchNotFound(r) \/ FetchFail(r) \/ FetchFallback(r) \/ CanonicalMissing(r)
    BY <2>2 DEF FetchNotFound, FetchFail, FetchFallback, CanonicalMissing
  <2>3. CASE CanonicalError(r) \/ LegacyError(r)
    BY <2>3 DEF CanonicalError, LegacyError, FallbackError
  <2>4. ASSUME NEW from \in {"canonical", "legacy"}, NEW d \in Data,
               ServeFallback(r, from, d)
        PROVE  RequestOK(r)'
    BY <2>4 DEF ServeFallback, verifyFallbackCommitment
  <2>5. CASE CanonicalFound(r) \/ LegacyFound(r)
    BY <2>4, <2>5 DEF CanonicalFound, LegacyFound, CanonicalObjects, LegacyObjects
  <2>6. CASE GetRespond(r)
    BY <2>6 DEF GetRespond
  <2> QED
    BY <1>3, <2>1, <2>2, <2>3, <2>5, <2>6 DEF GetStep
<1>4. CASE WriterStep(r) \/ BucketApply(r) \/ Broadcast(r)
  BY <1>4 DEF WriterStep, WriterStored, WriterFailed, WriterEnd, Ends,
     BucketApply, Broadcast
<1>5. CASE RespondError(r)
  BY <1>5 DEF RespondError
<1> QED
  BY <1>1, <1>2, <1>3, <1>4, <1>5 DEF Actions, HandlerStep

LEMMA RequestStep == ServerInv /\ [Next]_vars => \A q \in Req : RequestOK(q)'
<1> SUFFICES ASSUME ServerInv, [Next]_vars, NEW q \in Req PROVE RequestOK(q)'
  OBVIOUS
<1>0. TypeOK /\ RequestOK(q)
  BY DEF ServerInv
<1>1. ASSUME NEW r \in Req, Actions(r) PROVE RequestOK(q)'
  BY <1>0, <1>1, OthersKept, KeptOK, OwnRequestOK
<1>2. CASE NewBlock
  BY <1>0, <1>2 DEF NewBlock, TypeOK, RequestOK, Located, Matches
<1>3. CASE Crash
  BY <1>0, <1>3 DEF Crash, WriterRuns, TypeOK, RequestOK, Located, Matches
<1>4. CASE Terminated \/ UNCHANGED vars
  BY <1>0, <1>4, KeptOK DEF Terminated, vars, Kept
<1> QED
  BY <1>1, <1>2, <1>3, <1>4 DEF Next, Actions

-----------------------------------------------------------------------------
(***************************************************************************)
(* StoreOK and ServedOK.                                                   *)
(***************************************************************************)

\* What a writer is sent off with is on the chain.
LEMMA SpawnedOnChain ==
  ASSUME ServerInv, NEW r \in Req, PutSpawn(r) \/ FetchFound(r)
  PROVE  comm'[r] = comm[r] /\ comm[r] \in GoodKey /\ OnChain(comm[r], data'[r])
<1>1. CASE PutSpawn(r)
  <2>1. Located(r) /\ data'[r] = data[r] /\ comm'[r] = comm[r]
    BY <1>1 DEF PutSpawn, Goto, ServerInv, RequestOK
  <2> QED
    BY <2>1 DEF Located, Matches, OnChain
<1>2. CASE FetchFound(r)
  BY <1>2 DEF FetchFound, ServerInv, TypeOK
<1> QED
  BY <1>1, <1>2

\* No other step starts a writer, and a writer's request keeps its data.
LEMMA SentKept ==
  ASSUME ServerInv, [Next]_vars, NEW r \in Req, s3put'[r] # "none"
  PROVE  \/ /\ s3put[r] # "none" /\ comm'[r] = comm[r] /\ data'[r] = data[r]
            /\ comm[r] \in GoodKey
         \/ s3put'[r] = "sent" /\ (PutSpawn(r) \/ FetchFound(r))
<1>0. TypeOK /\ RequestOK(r)
  BY DEF ServerInv
<1> USE <1>0 DEF TypeOK, RequestOK, Matches
<1>1. ASSUME NEW q \in Req, Actions(q), q # r
      PROVE  s3put'[r] = s3put[r] /\ comm'[r] = comm[r] /\ data'[r] = data[r]
  BY <1>1, OthersKept DEF Kept
<1>2. CASE Accept(r)
  BY <1>2 DEF Accept, PutReject, GetReject, PutAccept, GetAccept, Goto, Finish
<1>3. CASE PutStep(r)
  BY <1>3 DEF PutStep, SubmitReturn, SubmitFail, RefetchReturn, RefetchFail,
     RefetchPanic, PutSpawn, PutRespond, SpawnWriter, Goto, Finish
<1>4. CASE GetStep(r)
  BY <1>4 DEF GetStep, FetchFound, FetchNotFound, FetchFail, FetchFallback,
     CanonicalFound, CanonicalMissing, CanonicalError, LegacyFound, LegacyError,
     GetRespond, ServeFallback, FallbackError, SpawnWriter, Goto, Finish
<1>5. CASE WriterStep(r) \/ BucketApply(r) \/ Broadcast(r) \/ RespondError(r)
  BY <1>5 DEF WriterStep, WriterStored, WriterFailed, WriterEnd, Ends,
     BucketApply, Broadcast, RespondError, Goto, Finish
<1>6. CASE NewBlock \/ Crash \/ Terminated \/ UNCHANGED vars
  BY <1>6 DEF NewBlock, Crash, Terminated, vars
<1> QED
  BY <1>1, <1>2, <1>3, <1>4, <1>5, <1>6 DEF Next, Actions, HandlerStep

\* Only a PutObject that reaches the bucket changes an object.
LEMMA OnlyApplyStores ==
  ASSUME [Next]_vars
  PROVE  canonical' = canonical \/ \E r \in Req : BucketApply(r)
BY DEF Next, Accept, PutReject, GetReject, PutAccept, GetAccept, HandlerStep,
   RespondError, PutStep, SubmitReturn, SubmitFail, RefetchReturn, RefetchFail,
   RefetchPanic, PutSpawn, PutRespond, GetStep, FetchFound, FetchNotFound,
   FetchFail, FetchFallback, CanonicalFound, CanonicalMissing, CanonicalError,
   LegacyFound, LegacyError, GetRespond, ServeFallback, FallbackError, WriterStep,
   WriterStored, WriterFailed, WriterEnd, Broadcast, NewBlock, Crash, Terminated,
   vars

\* And only that makes a call "applied".
LEMMA AppliedByBucket ==
  ASSUME ServerInv, [Next]_vars, NEW r \in Req, s3put'[r] = "applied",
         ~\E q \in Req : BucketApply(q)
  PROVE  s3put[r] = "applied"
BY DEF ServerInv, TypeOK, Next, Accept, PutReject, GetReject, PutAccept,
   GetAccept, HandlerStep, RespondError, PutStep, SubmitReturn, SubmitFail,
   RefetchReturn, RefetchFail, RefetchPanic, PutSpawn, PutRespond, GetStep,
   FetchFound, FetchNotFound, FetchFail, FetchFallback, CanonicalFound,
   CanonicalMissing, CanonicalError, LegacyFound, LegacyError, GetRespond,
   ServeFallback, FallbackError, SpawnWriter, WriterStep, WriterStored,
   WriterFailed, WriterEnd, Ends, Broadcast, NewBlock, Crash, Terminated, vars

LEMMA StoreStep == ServerInv /\ [Next]_vars => StoreOK'
<1> SUFFICES ASSUME ServerInv, [Next]_vars PROVE StoreOK'
  OBVIOUS
<1>0. TypeOK /\ StoreOK /\ \A r \in Req : RequestOK(r)
  BY DEF ServerInv
<1>1. ChainKept
  BY ChainGrows
<1>2. ASSUME NEW r \in Req, s3put'[r] # "none"
      PROVE  comm'[r] \in GoodKey /\ OnChain(comm[r], data[r])' /\ comm'[r] = comm[r]
  <2>1. CASE s3put[r] # "none" /\ comm'[r] = comm[r] /\ data'[r] = data[r]
               /\ comm[r] \in GoodKey
    <3>1. OnChain(comm[r], data[r])
      BY <1>0, <2>1 DEF StoreOK
    <3> QED
      BY <1>1, <2>1, <3>1, ConstantsAssumption DEF OnChain, ChainKept
  <2>2. CASE PutSpawn(r) \/ FetchFound(r)
    <3>1. comm'[r] = comm[r] /\ comm[r] \in GoodKey /\ OnChain(comm[r], data'[r])
      BY <2>2, SpawnedOnChain
    <3> QED
      BY <1>1, <3>1, ConstantsAssumption DEF OnChain, ChainKept
  <2> QED
    BY <1>2, <2>1, <2>2, SentKept
<1>3. ASSUME NEW k \in GoodKey, canonical'[k] # None PROVE OnChain(k, canonical[k])'
  <2>1. CASE canonical'[k] = canonical[k]
    <3>1. OnChain(k, canonical[k])
      BY <1>0, <1>3, <2>1 DEF StoreOK
    <3> QED
      BY <1>1, <2>1, <3>1, ConstantsAssumption DEF OnChain, ChainKept
  <2>2. CASE canonical'[k] # canonical[k]
    <3>1. PICK r \in Req : BucketApply(r)
      BY <2>2, OnlyApplyStores
    <3>2. k = comm[r] /\ canonical'[k] = data[r] /\ data'[r] = data[r]
              /\ comm'[r] = comm[r]
      BY <1>0, <2>2, <3>1 DEF BucketApply, TypeOK
    <3>3. s3put'[r] # "none"
      BY <1>0, <3>1 DEF BucketApply, TypeOK
    <3> QED
      BY <1>2, <3>2, <3>3 DEF OnChain
  <2> QED
    BY <2>1, <2>2
<1>4. ASSUME NEW r \in Req, s3put'[r] = "applied" PROVE canonical'[comm'[r]] # None
  <2>1. comm'[r] = comm[r] /\ comm[r] \in GoodKey
    BY <1>2, <1>4
  <2>2. s3put[r] # "none" /\ data'[r] = data[r]
    BY <1>4, SentKept
  <2>3. data[r] \in Data
    BY <1>0, <2>2 DEF RequestOK, Matches
  <2>4. CASE \E q \in Req : BucketApply(q)
    <3>1. PICK q \in Req : BucketApply(q)
      BY <2>4
    <3>2. data[q] \in Data
      BY <1>0, <3>1 DEF BucketApply, RequestOK, Matches
    <3>3. CASE q = r
      BY <1>0, <2>1, <2>3, <3>1, <3>3, ConstantsAssumption DEF BucketApply, TypeOK
    <3>4. CASE q # r
      <4>1. s3put[r] = "applied"
        BY <1>0, <1>4, <3>1, <3>4 DEF BucketApply, TypeOK
      <4>2. canonical[comm[r]] # None
        BY <1>0, <4>1 DEF StoreOK
      <4> QED
        BY <1>0, <2>1, <3>1, <3>2, <4>2, ConstantsAssumption
           DEF BucketApply, TypeOK
    <3> QED
      BY <3>3, <3>4
  <2>5. CASE ~\E q \in Req : BucketApply(q)
    <3>1. canonical' = canonical
      BY <2>5, OnlyApplyStores
    <3>2. s3put[r] = "applied"
      BY <1>4, <2>2, <2>5, AppliedByBucket
    <3> QED
      BY <1>0, <2>1, <3>1, <3>2 DEF StoreOK
  <2> QED
    BY <2>4, <2>5
<1> QED
  BY <1>2, <1>3, <1>4 DEF StoreOK

\* Data handed to GetRespond is on the chain when the bucket can be trusted.
LEMMA ServedStep == ServerInv /\ [Next]_vars => ServedOK'
<1> SUFFICES ASSUME ServerInv, [Next]_vars, BucketTrusted, NEW q \in Req,
                    (pc[q] = "reply" \/ (op[q] = "get" /\ resp[q] = "200"))'
             PROVE  OnChain(comm[q], data[q])'
  BY DEF ServedOK
<1>0. TypeOK /\ RequestOK(q) /\ StoreOK /\ ServedOK
  BY DEF ServerInv
<1>1. ChainKept
  BY ChainGrows
<1>2. SUFFICES comm'[q] = comm[q] /\ comm[q] \in GoodKey /\ OnChain(comm[q], data'[q])
  BY <1>1, <1>2, ConstantsAssumption DEF OnChain, ChainKept
<1>3. ASSUME pc[q] = "reply" \/ (op[q] = "get" /\ resp[q] = "200"),
             comm'[q] = comm[q], data'[q] = data[q]
      PROVE  comm'[q] = comm[q] /\ comm[q] \in GoodKey /\ OnChain(comm[q], data'[q])
  BY <1>0, <1>3 DEF ServedOK, RequestOK, Matches
<1> USE <1>0 DEF TypeOK, RequestOK
<1>4. ASSUME NEW r \in Req, Actions(r), r # q
      PROVE  comm'[q] = comm[q] /\ comm[q] \in GoodKey /\ OnChain(comm[q], data'[q])
  BY <1>3, <1>4, OthersKept DEF Kept
<1>5. CASE Accept(q)
  BY <1>5 DEF Accept, PutReject, GetReject, PutAccept, GetAccept, Goto, Finish
<1>6. CASE PutStep(q)
  BY <1>3, <1>6 DEF PutStep, SubmitReturn, SubmitFail, RefetchReturn, RefetchFail,
     RefetchPanic, PutSpawn, PutRespond, Goto, Finish
<1>7. CASE GetStep(q)
  <2>1. CASE FetchFound(q)
    BY <2>1 DEF FetchFound
  <2>2. CASE CanonicalFound(q)
    <3>1. PICK d \in Data : comm[q] \in GoodKey /\ canonical[comm[q]] = d
                              /\ ServeFallback(q, "canonical", d)
      BY <2>2 DEF CanonicalFound, CanonicalObjects
    <3>2. OnChain(comm[q], d)
      BY <3>1, ConstantsAssumption DEF StoreOK
    <3> QED
      BY <3>1, <3>2 DEF ServeFallback
  <2>3. CASE LegacyFound(q)
    BY <2>3 DEF LegacyFound, LegacyObjects, ServeFallback
  <2>4. CASE GetRespond(q)
    BY <1>3, <2>4 DEF GetRespond, Finish, Goto
  <2>5. CASE FetchNotFound(q) \/ FetchFail(q) \/ FetchFallback(q)
               \/ CanonicalMissing(q) \/ CanonicalError(q) \/ LegacyError(q)
    BY <1>3, <2>5 DEF FetchNotFound, FetchFail, FetchFallback, CanonicalMissing,
       CanonicalError, LegacyError, FallbackError, Goto, Finish
  <2> QED
    BY <1>7, <2>1, <2>2, <2>3, <2>4, <2>5 DEF GetStep
<1>8. CASE WriterStep(q) \/ BucketApply(q) \/ Broadcast(q) \/ RespondError(q)
  BY <1>3, <1>8 DEF RespondError, Goto, Finish, WriterStep, WriterStored,
     WriterFailed, WriterEnd, Ends, BucketApply, Broadcast
<1>9. CASE NewBlock \/ Terminated \/ UNCHANGED vars
  BY <1>3, <1>9 DEF NewBlock, Terminated, vars
<1>10. CASE Crash
  BY <1>3, <1>10 DEF Crash
<1> QED
  BY <1>4, <1>5, <1>6, <1>7, <1>8, <1>9, <1>10
     DEF Next, Actions, HandlerStep

-----------------------------------------------------------------------------
(***************************************************************************)
(* The theorems.                                                           *)
(***************************************************************************)

\* ServerInv holds in every state the server can reach.
THEOREM Invariance == Spec => []ServerInv
<1>1. Init => ServerInv
  BY InitInv
<1>2. ServerInv /\ [Next]_vars => ServerInv'
  BY TypeStep, RequestStep, StoreStep, ServedStep, CountStep DEF ServerInv
<1> QED
  BY <1>1, <1>2, PTL DEF Spec

\* The state of handlers, chain, bucket and writers stays well typed;
\* the wait group in particular never becomes negative.
THEOREM TypeCorrect == Spec => []TypeOK
<1>1. ServerInv => TypeOK
  BY DEF ServerInv
<1> QED
  BY <1>1, Invariance, PTL

\* Whatever fails, crashes or arrives late, a PUT answered 200 returned the
\* commitment of its own blob at the height of the block that includes it, and
\* what it returns is complete.
THEOREM PutsAreConfirmed == Spec => []PutConfirmed
<1>1. ServerInv => PutConfirmed
  <2> SUFFICES ASSUME ServerInv, NEW r \in Req, op[r] = "put"
               PROVE  /\ resp[r] = "200" => /\ comm[r] \in GoodKey
                                            /\ comm[r].height = included[r]
                                            /\ OnChain(comm[r], data[r])
                      /\ pc[r] = "respond" => (comm[r].tail = Compact <=> config.compact)
    BY DEF PutConfirmed
  <2>1. resp[r] = "200" => Located(r)
    BY DEF ServerInv, RequestOK
  <2>2. pc[r] = "respond" => (comm[r].tail = Compact <=> config.compact)
    BY DEF ServerInv, RequestOK
  <2> QED
    BY <2>1, <2>2 DEF Located, Matches, OnChain
<1> QED
  BY <1>1, Invariance, PTL

\* Whatever the bucket returns, a GET answered 200 carries data that hashes to
\* the commitment it asked for.
THEOREM GetsAreVerified == Spec => []GetIntegrity
<1>1. ServerInv => GetIntegrity
  BY DEF ServerInv, RequestOK, Matches, GetIntegrity
<1> QED
  BY <1>1, Invariance, PTL

\* When commitments are collision free, a commitment a PUT handed out is never
\* answered with anything but that PUT's data.
THEOREM ReadsSeeWrites == CollisionFree => (Spec => []ReadYourWrite)
<1> SUFFICES ASSUME CollisionFree PROVE Spec => []ReadYourWrite
  OBVIOUS
<1>1. ServerInv => ReadYourWrite
  <2> SUFFICES ASSUME ServerInv, NEW p \in Req, NEW g \in Req,
                      op[p] = "put", resp[p] = "200",
                      op[g] = "get", resp[g] = "200",
                      comm[g].commitment = comm[p].commitment
               PROVE  data[g] = data[p]
    BY DEF ReadYourWrite
  <2>1. Matches(p) /\ Matches(g)
    BY DEF ServerInv, RequestOK, Located
  <2> QED
    BY <2>1 DEF Matches, CollisionFree
<1> QED
  BY <1>1, Invariance, PTL

\* With a bucket that returns what was stored, a GET serves only blobs that
\* Celestia holds at the requested height.
THEOREM ServedArePublished == Spec => []ServedIsPublished
<1>1. ServerInv => ServedIsPublished
  BY DEF ServerInv, ServedOK, ServedIsPublished
<1> QED
  BY <1>1, Invariance, PTL

\* The bucket only ever receives published blobs, under their own commitment,
\* and a writer that reports success left one there.
THEOREM FallbackIsSound == Spec => []FallbackSound
<1>1. ServerInv => FallbackSound
  BY DEF ServerInv, StoreOK, RequestOK, FallbackSound
<1> QED
  BY <1>1, Invariance, PTL

\* When commitments are collision free, a stored object keeps its data, through
\* late and repeated PutObjects and through crashes.
THEOREM ObjectsNeverChange == CollisionFree => (Spec => CanonicalNeverChanges)
<1> DEFINE ObjectsKept == \A k \in GoodKey : canonical[k] # None => canonical'[k] = canonical[k]
<1> SUFFICES ASSUME CollisionFree PROVE Spec => [][ObjectsKept]_vars
  BY DEF CanonicalNeverChanges
<1>1. ServerInv /\ [Next]_vars => ObjectsKept
  <2> SUFFICES ASSUME ServerInv, [Next]_vars, NEW k \in GoodKey, canonical[k] # None
               PROVE  canonical'[k] = canonical[k]
    OBVIOUS
  <2>1. ASSUME NEW r \in Req, BucketApply(r) PROVE canonical'[k] = canonical[k]
    <3>1. Matches(r)
      BY <2>1 DEF BucketApply, ServerInv, TypeOK, RequestOK
    <3>2. OnChain(k, canonical[k]) /\ canonical[k] \in Data
      BY DEF ServerInv, StoreOK, TypeOK, ReqData
    <3>3. CASE k = comm[r]
      <4>1. data[r] = canonical[k]
        BY <3>1, <3>2, <3>3 DEF Matches, OnChain, CollisionFree
      <4> QED
        BY <2>1, <3>3, <4>1 DEF BucketApply, ServerInv, TypeOK
    <3>4. CASE k # comm[r]
      BY <2>1, <3>4 DEF BucketApply, ServerInv, TypeOK
    <3> QED
      BY <3>3, <3>4
  <2>2. CASE \A r \in Req : ~BucketApply(r)
    BY <2>2, OnlyApplyStores
  <2> QED
    BY <2>1, <2>2
<1>2. ServerInv /\ [Next]_vars => [ObjectsKept]_vars
  BY <1>1
<1> QED
  BY <1>2, Invariance, PTL DEF Spec

\* The wait group counts the running writers, no more and no fewer.
THEOREM WaitGroupIsExact == Spec => []WaitGroupCountsWriters
<1>1. ServerInv => WaitGroupCountsWriters
  BY DEF ServerInv
<1> QED
  BY <1>1, Invariance, PTL
=============================================================================
