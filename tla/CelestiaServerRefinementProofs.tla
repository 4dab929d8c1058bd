------------------- MODULE CelestiaServerRefinementProofs -------------------
(***************************************************************************)
(* CelestiaServer implements DAService, for any requests, data and         *)
(* configurations: under the mapping of CelestiaServerRefinement the       *)
(* initial states are DAService's, and each step of a handler, a writer,   *)
(* the chain, the bucket, and each crash is a step of DAService or changes *)
(* nothing clients observe.                                                *)
(***************************************************************************)
EXTENDS CelestiaServerRefinement, CelestiaServerProofs

USE DEF Height, Tail, GoodKey, Key, PutPcs, GetPcs, Pcs, Rejects, Status,
        requestVars, chainVars, writerVars, processVars,
        absBlob, absRef, absStatus, absBody, IsPut, Confirmed, RefOf

\* What the abstract service knows of request q.
SameInput(q) == absBlob'[q] = absBlob[q] /\ absRef'[q] = absRef[q]

SameOutcome(q) == absStatus'[q] = absStatus[q] /\ absBody'[q] = absBody[q]

SameView(q) == SameInput(q) /\ SameOutcome(q)

\* No transaction enters a block.
SameChain == included' = included /\ height' = height

-----------------------------------------------------------------------------
(***************************************************************************)
(* From what is observed of each request to a step of DAService.           *)
(***************************************************************************)

\* Nothing observable changes.
LEMMA Invisible ==
  ASSUME SameChain, \A q \in Req : SameView(q)
  PROVE  UNCHANGED DA!daVars
BY DEF SameChain, SameView, SameInput, SameOutcome, DA!daVars

\* Requests that had no outcome fail.
LEMMA FailsAbstractly ==
  ASSUME SameChain, NEW lost \in SUBSET Req,
         \A q \in Req \ lost : SameView(q),
         \A q \in lost : /\ SameInput(q) /\ absBody'[q] = absBody[q]
                         /\ absStatus[q] = "none" /\ absStatus'[q] = "failed"
  PROVE  DA!Next
<1>1. /\ \A q \in lost : absStatus[q] = "none"
      /\ absStatus' = [q \in Req |-> IF q \in lost THEN "failed" ELSE absStatus[q]]
  BY DEF SameView, SameOutcome
<1>2. absBlob' = absBlob /\ absRef' = absRef /\ absBody' = absBody
  BY DEF SameView, SameInput, SameOutcome
<1>3. DA!Fail(lost)
  BY <1>1, <1>2 DEF SameChain, DA!Fail
<1> QED
  BY <1>3 DEF DA!Next

\* A request without an outcome is answered.
LEMMA AnswersAbstractly ==
  ASSUME SameChain, NEW r \in Req, NEW answer,
         \A q \in Req \ {r} : SameView(q), SameInput(r),
         absStatus[r] = "none", absStatus'[r] = "ok", absBody'[r] = answer
  PROVE  DA!Answer(r, answer)
<1>1. absStatus' = [absStatus EXCEPT ![r] = "ok"]
  <2>1. \A q \in Req : absStatus'[q] = IF q = r THEN "ok" ELSE absStatus[q]
    BY DEF SameView, SameOutcome
  <2> QED
    BY <2>1
<1>3. absBody' = [absBody EXCEPT ![r] = answer]
  <2>1. \A q \in Req : absBody'[q] = IF q = r THEN answer ELSE absBody[q]
    BY DEF SameView, SameOutcome
  <2> QED
    BY <2>1
<1>2. absBlob' = absBlob /\ absRef' = absRef
  BY DEF SameView, SameInput
<1> QED
  BY <1>1, <1>2, <1>3 DEF SameChain, DA!Answer

-----------------------------------------------------------------------------
(***************************************************************************)
(* What a step of request r changes of the view.                           *)
(***************************************************************************)

\* The other requests look the same.
LEMMA OthersLookTheSame ==
  ASSUME TypeOK, NEW r \in Req, Actions(r)
  PROVE  SameChain /\ \A q \in Req \ {r} : SameView(q)
<1>1. SameChain
  <2>1. CASE Accept(r)
    BY <2>1 DEF SameChain, Accept, PutReject, GetReject, PutAccept, GetAccept
  <2>2. CASE PutStep(r)
    BY <2>2 DEF SameChain, PutStep, SubmitReturn, SubmitFail, RefetchReturn,
       RefetchFail, RefetchPanic, PutSpawn, PutRespond
  <2>3. CASE GetStep(r)
    BY <2>3 DEF SameChain, GetStep, FetchFound, FetchNotFound, FetchFail,
       FetchFallback, CanonicalFound, CanonicalMissing, CanonicalError, LegacyFound,
       LegacyError, GetRespond, ServeFallback, FallbackError
  <2>4. CASE WriterStep(r) \/ BucketApply(r) \/ Broadcast(r) \/ RespondError(r)
    BY <2>4 DEF SameChain, WriterStep, WriterStored, WriterFailed, WriterEnd,
       BucketApply, Broadcast, RespondError
  <2> QED
    BY <2>1, <2>2, <2>3, <2>4 DEF Actions, HandlerStep
<1>2. ASSUME NEW q \in Req, q # r PROVE SameView(q)
  <2>1. Kept(q)
    BY <1>2, OthersKept
  <2> QED
    BY <2>1 DEF Kept, SameView, SameInput, SameOutcome
<1> QED
  BY <1>1, <1>2

\* A request that ends other than with a 200 the client received fails.
LEMMA EndIsFailure ==
  ASSUME ServerInv, NEW r \in Req, Actions(r), SameInput(r),
         pc[r] \notin {"done", "dead"}, pc'[r] = "done", resp'[r] # "200"
  PROVE  DA!Next
<1>1. SameChain /\ \A q \in Req \ {r} : SameView(q)
  BY OthersLookTheSame DEF ServerInv
<1>2. absStatus[r] = "none" /\ absStatus'[r] = "failed" /\ absBody'[r] = absBody[r]
  OBVIOUS
<1> QED
  BY <1>1, <1>2, FailsAbstractly, {r} \in SUBSET Req

\* A step of a handler that goes on, or of a request's writer, is not seen.
LEMMA StepIsInvisible ==
  ASSUME ServerInv, NEW r \in Req, Actions(r), SameInput(r),
         \/ pc[r] \notin {"done", "dead"} /\ pc'[r] \notin {"done", "dead"}
         \/ /\ pc'[r] = pc[r] /\ resp'[r] = resp[r] /\ op'[r] = op[r]
            /\ comm'[r] = comm[r] /\ data'[r] = data[r]
  PROVE  UNCHANGED DA!daVars
<1>1. SameChain /\ \A q \in Req \ {r} : SameView(q)
  BY OthersLookTheSame DEF ServerInv
<1>2. SameOutcome(r)
  BY DEF SameOutcome
<1> QED
  BY <1>1, <1>2, Invisible DEF SameView

-----------------------------------------------------------------------------
(***************************************************************************)
(* The steps of a request.                                                 *)
(***************************************************************************)

\* Not yet accepted, a request looks as if it had never been made.
LEMMA IdleIsFresh ==
  ASSUME ServerInv, NEW r \in Req, pc[r] = "idle"
  PROVE  /\ op[r] = "none" /\ data[r] = None /\ comm[r] = None
         /\ resp[r] = "none" /\ DA!Fresh(r)
<1>1. op[r] = "none" /\ data[r] = None /\ comm[r] = None /\ resp[r] = "none"
  BY DEF ServerInv, RequestOK
<1> QED
  BY <1>1 DEF DA!Fresh

LEMMA AcceptRefines ==
  ASSUME ServerInv, NEW r \in Req, Accept(r)
  PROVE  [DA!Next]_DA!daVars
<1>0. TypeOK /\ Actions(r)
  BY DEF ServerInv, Actions
<1>1. pc[r] = "idle"
  BY DEF Accept, PutReject, GetReject, PutAccept, GetAccept, Goto, Finish
<1>2. /\ op[r] = "none" /\ data[r] = None /\ comm[r] = None
      /\ resp[r] = "none" /\ DA!Fresh(r)
  BY <1>1, IdleIsFresh
<1>3. SameChain /\ \A q \in Req \ {r} : SameView(q)
  BY <1>0, OthersLookTheSame
<1>4. CASE PutReject(r) \/ GetReject(r)
  <2>1. pc'[r] = "done" /\ resp'[r] # "200"
    BY <1>0, <1>4 DEF PutReject, GetReject, Finish, Goto, TypeOK
  <2>2. data'[r] = None /\ comm'[r] = None /\ op'[r] # "none"
    BY <1>0, <1>2, <1>4 DEF PutReject, GetReject, TypeOK
  <2>3. SameInput(r)
    BY <1>2, <2>2, ConstantsAssumption DEF SameInput
  <2> QED
    BY <1>0, <1>1, <2>1, <2>3, EndIsFailure
<1>5. ASSUME NEW d \in Data, PutAccept(r, d) PROVE DA!Next
  <2>1. /\ pc'[r] = "submit" /\ op'[r] = "put" /\ data'[r] = d
        /\ comm'[r] = None /\ resp'[r] = "none"
    BY <1>0, <1>2, <1>5 DEF PutAccept, Goto, TypeOK
  <2>2. absRef'[r] = absRef[r] /\ SameOutcome(r)
    BY <1>1, <1>2, <2>1 DEF SameOutcome
  <2>3. absBlob' = [absBlob EXCEPT ![r] = d]
    <3>1. \A q \in Req : absBlob'[q] = IF q = r THEN d ELSE absBlob[q]
      BY <1>3, <2>1 DEF SameView, SameInput
    <3> QED
      BY <3>1
  <2>4. absRef' = absRef /\ absStatus' = absStatus /\ absBody' = absBody
    BY <1>3, <2>2 DEF SameView, SameInput, SameOutcome
  <2>5. DA!Put(r, d)
    BY <1>2, <1>3, <2>3, <2>4 DEF DA!Put, SameChain
  <2> QED
    BY <2>5 DEF DA!Next
<1>6. ASSUME NEW k \in GoodKey, GetAccept(r, k) PROVE DA!Next
  <2>1. /\ pc'[r] = "fetch" /\ op'[r] = "get" /\ data'[r] = None
        /\ comm'[r] = k /\ resp'[r] = "none"
    BY <1>0, <1>2, <1>6 DEF GetAccept, Goto, TypeOK
  <2>2. absBlob'[r] = absBlob[r] /\ SameOutcome(r)
    BY <1>1, <1>2, <2>1 DEF SameOutcome
  <2>3. absRef' = [absRef EXCEPT ![r] = RefOf(k)]
    <3>1. \A q \in Req : absRef'[q] = IF q = r THEN RefOf(k) ELSE absRef[q]
      BY <1>3, <2>1 DEF SameView, SameInput
    <3> QED
      BY <3>1
  <2>4. absBlob' = absBlob /\ absStatus' = absStatus /\ absBody' = absBody
    BY <1>3, <2>2 DEF SameView, SameInput, SameOutcome
  <2>5. DA!Get(r, RefOf(k)) /\ RefOf(k) \in DA!BlobRef
    BY <1>2, <1>3, <2>3, <2>4 DEF DA!Get, DA!BlobRef, DA!Height, SameChain
  <2> QED
    BY <2>5 DEF DA!Next
\* A commitment that does not parse asks for nothing that could be served.
<1>7. CASE GetAccept(r, BadKey)
  <2>1. /\ pc'[r] = "fetch" /\ op'[r] = "get" /\ comm'[r] = BadKey
    BY <1>0, <1>7 DEF GetAccept, Goto, TypeOK
  <2>2. SameInput(r)
    BY <1>2, <2>1, ConstantsAssumption DEF SameInput
  <2> QED
    BY <1>0, <1>1, <2>1, <2>2, StepIsInvisible
<1> QED
  BY <1>4, <1>5, <1>6, <1>7 DEF Accept

\* A PUT: its failures are failures, its 200 a confirmation, the rest is unseen.
LEMMA PutRefines ==
  ASSUME ServerInv, NEW r \in Req, PutStep(r)
  PROVE  [DA!Next]_DA!daVars
<1>0. TypeOK /\ Actions(r) /\ RequestOK(r)
  BY DEF ServerInv, Actions, HandlerStep
<1>1. pc[r] \in PutPcs
  BY DEF PutStep, SubmitReturn, SubmitFail, RefetchReturn, RefetchFail,
     RefetchPanic, PutSpawn, PutRespond, Goto, Finish
<1>2. op[r] = "put" /\ data[r] \in Data
  BY <1>0, <1>1 DEF RequestOK
<1>3. op'[r] = "put" /\ data'[r] = data[r] /\ SameInput(r)
  BY <1>0, <1>2 DEF PutStep, SubmitReturn, SubmitFail, RefetchReturn, RefetchFail,
     RefetchPanic, PutSpawn, PutRespond, SameInput
<1>4. CASE \/ SubmitReturn(r) \/ SubmitFail(r)
           \/ RefetchReturn(r) \/ RefetchFail(r) \/ PutSpawn(r)
  <2>1. pc'[r] \notin {"done", "dead"}
    BY <1>0, <1>4 DEF SubmitReturn, SubmitFail, RefetchReturn, RefetchFail,
       PutSpawn, Goto, TypeOK
  <2> QED
    BY <1>0, <1>1, <1>3, <2>1, StepIsInvisible
<1>5. CASE RefetchPanic(r)
  <2>1. pc'[r] = "done" /\ resp'[r] # "200"
    BY <1>0, <1>5 DEF RefetchPanic, Finish, Goto, TypeOK
  <2> QED
    BY <1>0, <1>1, <1>3, <2>1, EndIsFailure
<1>6. CASE PutRespond(r)
  <2>1. Located(r) /\ pc'[r] = "done" /\ comm'[r] = comm[r]
    BY <1>0, <1>6 DEF PutRespond, Finish, Goto, TypeOK, RequestOK
  <2>2. CASE resp'[r] # "200"
    BY <1>0, <1>1, <1>3, <2>1, <2>2, EndIsFailure
  <2>3. CASE resp'[r] = "200"
    <3> DEFINE place == [height |-> included[r], commitment |-> ShareCommitment[absBlob[r]]]
    <3>1. absBlob[r] # None /\ included[r] # 0 /\ RefOf(comm[r]) = place
      BY <1>2, <2>1, ConstantsAssumption DEF Located, Matches
    <3>2. absStatus[r] = "none" /\ absStatus'[r] = "ok" /\ absBody'[r] = place
      BY <1>1, <1>3, <2>1, <2>3, <3>1
    <3>3. SameChain /\ \A q \in Req \ {r} : SameView(q)
      BY <1>0, OthersLookTheSame
    <3>4. DA!Answer(r, place)
      <4> HIDE DEF place, absBlob, absStatus, absBody
      <4> QED
        BY <1>3, <3>2, <3>3, AnswersAbstractly
    <3>5. DA!Confirm(r)
      <4> HIDE DEF absBlob, absStatus, absBody, absRef
      <4> QED
        BY <3>1, <3>4 DEF DA!Confirm
    <3> QED
      BY <3>5 DEF DA!Next
  <2> QED
    BY <2>2, <2>3
<1> QED
  BY <1>4, <1>5, <1>6 DEF PutStep

\* A GET: only its 200 is an answer, with data that is on the chain when the
\* bucket can be trusted; which of node and bucket had it is not seen.
LEMMA GetRefines ==
  ASSUME ServerInv, NEW r \in Req, GetStep(r)
  PROVE  [DA!Next]_DA!daVars
<1>0. TypeOK /\ Actions(r) /\ RequestOK(r)
  BY DEF ServerInv, Actions, HandlerStep
<1>1. pc[r] \in GetPcs
  BY DEF GetStep, FetchFound, FetchNotFound, FetchFail, FetchFallback,
     CanonicalFound, CanonicalMissing, CanonicalError, LegacyFound, LegacyError,
     GetRespond, ServeFallback, FallbackError, Goto, Finish
<1>2. op[r] = "get"
  BY <1>0, <1>1 DEF RequestOK
<1>3. op'[r] = "get" /\ comm'[r] = comm[r] /\ SameInput(r)
  BY <1>0, <1>2 DEF GetStep, FetchFound, FetchNotFound, FetchFail, FetchFallback,
     CanonicalFound, CanonicalMissing, CanonicalError, LegacyFound, LegacyError,
     GetRespond, ServeFallback, FallbackError, SameInput
<1>4. CASE \/ FetchFound(r) \/ FetchNotFound(r) \/ FetchFail(r) \/ FetchFallback(r)
           \/ CanonicalFound(r) \/ CanonicalMissing(r) \/ CanonicalError(r)
           \/ LegacyFound(r) \/ LegacyError(r)
  <2>1. pc'[r] \notin {"done", "dead"}
    BY <1>0, <1>4 DEF FetchFound, FetchNotFound, FetchFail, FetchFallback,
       CanonicalFound, CanonicalMissing, CanonicalError, LegacyFound, LegacyError,
       ServeFallback, FallbackError, Goto, TypeOK
  <2> QED
    BY <1>0, <1>1, <1>3, <2>1, StepIsInvisible
<1>6. CASE GetRespond(r)
  <2>1. /\ Matches(r) /\ pc[r] = "reply" /\ pc'[r] = "done"
        /\ data'[r] = data[r]
    BY <1>0, <1>6 DEF GetRespond, Finish, Goto, TypeOK, RequestOK
  <2>2. CASE resp'[r] # "200"
    BY <1>0, <1>1, <1>3, <2>1, <2>2, EndIsFailure
  <2>3. CASE resp'[r] = "200"
    <3>1. absStatus[r] = "none" /\ absStatus'[r] = "ok" /\ absBody'[r] = data[r]
      BY <1>1, <1>3, <2>1, <2>3
    <3>2. DA!Answer(r, data[r])
      <4>1. SameChain /\ \A q \in Req \ {r} : SameView(q)
        BY <1>0, OthersLookTheSame
      <4> HIDE DEF absBlob, absStatus, absBody
      <4> QED
        BY <1>3, <3>1, <4>1, AnswersAbstractly
    <3>3. absRef[r] = RefOf(comm[r]) /\ RefOf(comm[r]) \in DA!BlobRef
      BY <1>2, <2>1 DEF Matches, DA!BlobRef, DA!Height
    <3>4. BucketTrusted => DA!PublishedAt(absRef[r].height, data[r])
      <4> SUFFICES ASSUME BucketTrusted
                   PROVE  DA!PublishedAt(comm[r].height, data[r])
        BY <3>3
      <4>1. OnChain(comm[r], data[r]) /\ comm[r].height \in Height
        BY <2>1 DEF ServerInv, ServedOK, Matches
      <4>2. PICK q \in Req : included[q] = comm[r].height /\ data[q] = data[r]
        BY <4>1 DEF OnChain
      <4>3. RequestOK(q) /\ included[q] # 0
        BY <4>1, <4>2, ConstantsAssumption DEF ServerInv
      <4>4. op[q] = "put"
        BY <4>3 DEF RequestOK
      <4>5. absBlob[q] = data[r]
        BY <4>2, <4>4
      <4> QED
        BY <4>2, <4>5 DEF DA!PublishedAt
    <3>5. DA!Serve(r, data[r])
      BY <2>1, <3>2, <3>3, <3>4, RefinementAssumption DEF DA!Serve, Matches
    <3> QED
      BY <2>1, <3>5 DEF DA!Next, Matches
  <2> QED
    BY <2>2, <2>3
<1> QED
  BY <1>4, <1>6 DEF GetStep

\* A handler that answers 404 or 500 fails the request.
LEMMA ErrorRefines ==
  ASSUME ServerInv, NEW r \in Req, RespondError(r)
  PROVE  [DA!Next]_DA!daVars
<1>0. TypeOK /\ Actions(r)
  BY DEF ServerInv, Actions, HandlerStep
<1>1. pc[r] \in {"failed", "notfound"} /\ pc'[r] = "done" /\ resp'[r] # "200"
  BY <1>0 DEF RespondError, Finish, Goto, TypeOK
<1>2. SameInput(r)
  BY DEF RespondError, SameInput
<1> QED
  BY <1>0, <1>1, <1>2, EndIsFailure

\* Writers, the bucket and the network's pool are not seen by clients.
LEMMA BackgroundRefines ==
  ASSUME ServerInv, NEW r \in Req, WriterStep(r) \/ BucketApply(r) \/ Broadcast(r)
  PROVE  UNCHANGED DA!daVars
<1>1. UNCHANGED requestVars /\ Actions(r)
  BY DEF WriterStep, WriterStored, WriterFailed, WriterEnd, BucketApply,
     Broadcast, Actions
<1> QED
  BY <1>1, StepIsInvisible DEF SameInput

\* A block publishes the blobs of PUTs.
LEMMA BlockRefines == ServerInv /\ NewBlock => DA!Next
<1> SUFFICES ASSUME ServerInv, NewBlock PROVE DA!Publish
  BY DEF DA!Next
<1>1. PICK txs \in SUBSET pool :
          included' = [r \in Req |-> IF r \in txs THEN height' ELSE included[r]]
  BY DEF NewBlock
<1>2. txs \in SUBSET {r \in Req : absBlob[r] # None /\ included[r] = 0}
  <2> SUFFICES ASSUME NEW r \in txs
               PROVE  r \in Req /\ absBlob[r] # None /\ included[r] = 0
    OBVIOUS
  <2>1. r \in Req /\ r \in pool
    BY DEF ServerInv, TypeOK
  <2>2. op[r] = "put" /\ data[r] \in Data /\ included[r] = 0
    BY <2>1 DEF ServerInv, RequestOK
  <2> QED
    BY <2>1, <2>2, ConstantsAssumption
<1>3. UNCHANGED <<absBlob, absRef, absStatus, absBody>> /\ height' = height + 1
  BY DEF NewBlock
<1> QED
  BY <1>1, <1>2, <1>3 DEF DA!Publish

\* When the process dies, every request in flight fails at once.
LEMMA CrashRefines == ServerInv /\ Crash => DA!Next
<1> SUFFICES ASSUME ServerInv, Crash PROVE DA!Next
  OBVIOUS
<1> DEFINE lost == {r \in Req : pc[r] \notin {"idle", "done", "dead"}}
<1>1. SameChain /\ \A q \in Req : SameInput(q)
  BY DEF Crash, SameChain, SameInput
<1>2. \A q \in Req \ lost : SameView(q)
  BY <1>1 DEF Crash, SameView, SameOutcome
<1>3. \A q \in lost : /\ absBody'[q] = absBody[q]
                      /\ absStatus[q] = "none" /\ absStatus'[q] = "failed"
  BY DEF Crash
<1> HIDE DEF lost
<1>4. lost \in SUBSET Req
  BY DEF lost
<1> QED
  BY <1>1, <1>2, <1>3, <1>4, FailsAbstractly

-----------------------------------------------------------------------------
(***************************************************************************)
(* The refinement.                                                         *)
(***************************************************************************)

\* A server that has just started looks like a service that has.
LEMMA InitRefines == Init => DA!Init
BY ConstantsAssumption DEF Init, DA!Init

LEMMA NextRefines == ServerInv /\ [Next]_vars => [DA!Next]_DA!daVars
<1> SUFFICES ASSUME ServerInv, [Next]_vars PROVE [DA!Next]_DA!daVars
  OBVIOUS
<1>1. CASE Terminated \/ UNCHANGED vars
  BY <1>1 DEF Terminated, vars, DA!daVars
<1> QED
  BY <1>1, AcceptRefines, PutRefines, GetRefines, ErrorRefines, BackgroundRefines,
     BlockRefines, CrashRefines DEF Next, HandlerStep

\* What clients can tell of the server, through failures, late answers, crashes
\* and restarts under another configuration, is a behaviour of DAService: no
\* blob is published twice for a PUT, only its own place is confirmed to it,
\* and only data that was asked for is served.
THEOREM Refinement == Spec => ImplementsDAService
<1>1. Init => DA!Init
  BY InitRefines
<1>2. ServerInv /\ [Next]_vars => [DA!Next]_DA!daVars
  BY NextRefines
<1> QED
  BY <1>1, <1>2, Invariance, PTL DEF Spec, ImplementsDAService, DA!Spec
=============================================================================
