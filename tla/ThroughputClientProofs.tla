----------------------- MODULE ThroughputClientProofs -----------------------
(***************************************************************************)
(* Proofs about ThroughputClient, for any number of workers and blobs, any *)
(* payloads and any service that keeps the promises of DAService: ToolInv   *)
(* is an invariant, and with it every safety property of the tool.         *)
(***************************************************************************)
EXTENDS ThroughputClient, FiniteSetTheorems, SequenceTheorems, TLAPS

USE DEF Workers, Blobs, Request

-----------------------------------------------------------------------------
(***************************************************************************)
(* The channel.                                                            *)
(***************************************************************************)

\* The channel holds every number at first.
LEMMA FullChannel ==
  /\ [n \in Blobs |-> n] \in Seq(Blobs)
  /\ Len([n \in Blobs |-> n]) = TotalBlobs
<1> DEFINE q == [n \in Blobs |-> n]
<1>1. q \in [1..TotalBlobs -> Blobs] /\ TotalBlobs \in Nat
  BY ThroughputAssumption
<1>2. q \in Seq(Blobs)
  BY <1>1, SeqDef
<1>3. Len(q) = TotalBlobs
  BY <1>1, <1>2, LenProperties
<1> QED
  BY <1>2, <1>3

\* Receiving takes the next number.
LEMMA Receive ==
  ASSUME QueueOK, queue # <<>>
  PROVE  /\ Head(queue) = Handed + 1 /\ Head(queue) \in Blobs
         /\ Tail(queue) \in Seq(Blobs) /\ Len(Tail(queue)) = Len(queue) - 1
         /\ \A i \in 1..Len(Tail(queue)) : Tail(queue)[i] = queue[i + 1]
         /\ Len(queue) \in 1..TotalBlobs /\ Handed \in Nat
<1>1. queue \in Seq(Blobs) /\ Len(queue) \in Nat /\ Len(queue) # 0 /\ TotalBlobs \in Nat
  BY ThroughputAssumption, EmptySeq, LenProperties DEF QueueOK
<1>2. Head(queue) = queue[1] /\ Head(queue) \in Blobs
  BY <1>1, HeadTailProperties, ElementOfSeq
<1>3. /\ Tail(queue) \in Seq(Blobs) /\ Len(Tail(queue)) = Len(queue) - 1
      /\ \A i \in 1..Len(Tail(queue)) : Tail(queue)[i] = queue[i + 1]
  BY <1>1, HeadTailProperties
<1> QED
  BY <1>1, <1>2, <1>3 DEF QueueOK, Handed

-----------------------------------------------------------------------------
(***************************************************************************)
(* The service: what it keeps when it or the tool takes a step.            *)
(***************************************************************************)

\* What is published, put or asked for stays.
ServiceKept ==
    \A q \in Request : /\ published[q] # 0 => published'[q] = published[q]
                       /\ blob[q] # None => blob'[q] = blob[q]
                       /\ ref[q] # None => ref'[q] = ref[q]

LEMMA Quiet ==
  ASSUME ServiceOK, UNCHANGED daVars
  PROVE  ServiceOK' /\ ServiceKept
BY DEF ServiceOK, ServiceKept, daVars

\* The tool PUTs.
LEMMA PutKeeps ==
  ASSUME ServiceOK, NEW b \in Blobs, NEW d \in Data, DA!Put(<<b, "put">>, d)
  PROVE  /\ ServiceOK' /\ ServiceKept /\ ref' = ref
         /\ \A q \in Request : blob'[q] = IF q = <<b, "put">> THEN d ELSE blob[q]
<1> USE DEF ServiceOK, DA!Put, DA!Fresh
<1>1. <<b, "put">> \in Request
  OBVIOUS
<1>2. \A q \in Request : blob'[q] = IF q = <<b, "put">> THEN d ELSE blob[q]
  BY <1>1
<1>3. \A c \in Blobs : <<c, "put">> \in Request /\ <<c, "get">> \in Request
                        /\ <<c, "get">> # <<b, "put">>
  OBVIOUS
<1>4. ServiceOK'
  BY <1>1, <1>2, <1>3
<1> QED
  BY <1>1, <1>2, <1>4 DEF ServiceKept

\* The tool GETs.
LEMMA GetKeeps ==
  ASSUME ServiceOK, NEW b \in Blobs, NEW k \in DA!BlobRef, DA!Get(<<b, "get">>, k)
  PROVE  /\ ServiceOK' /\ ServiceKept /\ blob' = blob
         /\ \A q \in Request : ref'[q] = IF q = <<b, "get">> THEN k ELSE ref[q]
<1> USE DEF ServiceOK, DA!Get, DA!Fresh
<1>1. <<b, "get">> \in Request
  OBVIOUS
<1>2. \A q \in Request : ref'[q] = IF q = <<b, "get">> THEN k ELSE ref[q]
  BY <1>1
<1>3. \A c \in Blobs : <<c, "put">> \in Request /\ <<c, "get">> \in Request
                        /\ <<c, "put">> # <<b, "get">>
  OBVIOUS
<1>4. ServiceOK'
  BY <1>1, <1>2, <1>3
<1> QED
  BY <1>1, <1>2, <1>4 DEF ServiceKept

\* A request is a PUT or a GET of a blob.
LEMMA PutOrGet ==
  ASSUME NEW q \in Request
  PROVE  \E b \in Blobs : q = <<b, "put">> \/ q = <<b, "get">>
OBVIOUS

\* A PUT that is published is not published again.
LEMMA PublishKeeps ==
  ASSUME ServiceOK, height < MaxHeight, DA!Publish
  PROVE  ServiceOK' /\ ServiceKept
<1> USE DEF ServiceOK
<1>1. PICK S \in SUBSET {q \in Request : blob[q] # None /\ published[q] = 0} :
          published' = [q \in Request |-> IF q \in S THEN height' ELSE published[q]]
  BY DEF DA!Publish
<1>2. height' = height + 1 /\ height \in Nat /\ height' \in 0..MaxHeight
  BY ThroughputAssumption DEF DA!Publish
<1>3. \A q \in Request : published[q] # 0 => published'[q] = published[q]
  BY <1>1
<1>4. published' \in [Request -> 0..height']
  <2> SUFFICES ASSUME NEW q \in Request
               PROVE  (IF q \in S THEN height' ELSE published[q]) \in 0..height'
    BY <1>1
  <2>1. published[q] \in 0..height
    OBVIOUS
  <2> QED
    BY <1>2, <2>1
<1>5. UNCHANGED <<blob, ref, status, body>>
  BY DEF DA!Publish
<1>6. ASSUME NEW b \in Blobs, status'[<<b, "put">>] = "ok"
      PROVE  /\ blob'[<<b, "put">>] # None /\ published'[<<b, "put">>] # 0
             /\ body'[<<b, "put">>] =
                    [height     |-> published'[<<b, "put">>],
                     commitment |-> ShareCommitment[blob'[<<b, "put">>]]]
  <2>1. published[<<b, "put">>] # 0 /\ <<b, "put">> \in Request
    BY <1>5, <1>6
  <2>2. published'[<<b, "put">>] = published[<<b, "put">>]
    BY <1>3, <2>1
  <2> QED
    BY <1>5, <1>6, <2>1, <2>2
<1>7. ServiceOK'
  BY <1>2, <1>4, <1>5, <1>6
<1> QED
  BY <1>3, <1>5, <1>7 DEF ServiceKept

\* A PUT is confirmed with its own place, a GET answered with data that has the
\* commitment it asks for.
LEMMA ConfirmKeeps ==
  ASSUME ServiceOK, NEW q \in Request, DA!Confirm(q)
  PROVE  ServiceOK' /\ ServiceKept
<1> USE DEF ServiceOK
<1> DEFINE place == [height |-> published[q], commitment |-> ShareCommitment[blob[q]]]
<1>0. blob[q] # None /\ published[q] # 0
  BY DEF DA!Confirm
<1>1. PICK b \in Blobs : q = <<b, "put">>
  <2>1. PICK b \in Blobs : q = <<b, "put">> \/ q = <<b, "get">>
    BY PutOrGet
  <2>2. q # <<b, "get">>
    BY <1>0
  <2> QED
    BY <2>1, <2>2
<1>2. blob[q] \in Data /\ published[q] \in 1..MaxHeight
  BY <1>0, ThroughputAssumption
<1>3. place \in DA!BlobRef
  BY <1>2, ThroughputAssumption DEF DA!BlobRef, DA!Height
<1>4. /\ UNCHANGED <<blob, ref, published, height>>
      /\ status' = [status EXCEPT ![q] = "ok"] /\ body' = [body EXCEPT ![q] = place]
  BY DEF DA!Confirm, DA!Answer
<1>5. \A c \in Blobs : <<c, "put">> \in Request /\ <<c, "get">> \in Request
                        /\ <<c, "get">> # <<b, "put">>
  OBVIOUS
<1>6. /\ status' \in [Request -> {"none", "failed", "ok"}]
      /\ body' \in [Request -> Data \cup DA!BlobRef \cup {None}]
  BY <1>3, <1>4
<1>7. \A p \in Request : p # q => status'[p] = status[p] /\ body'[p] = body[p]
  BY <1>4
<1>8. body'[q] = place
  BY <1>4
<1>10. ASSUME NEW c \in Blobs, status'[<<c, "put">>] = "ok"
       PROVE  /\ blob'[<<c, "put">>] # None /\ published'[<<c, "put">>] # 0
              /\ body'[<<c, "put">>] =
                     [height     |-> published'[<<c, "put">>],
                      commitment |-> ShareCommitment[blob'[<<c, "put">>]]]
  <2>1. CASE <<c, "put">> = q
    BY <1>0, <1>4, <1>8, <2>1
  <2>2. CASE <<c, "put">> # q
    BY <1>4, <1>5, <1>7, <1>10, <2>2
  <2> QED
    BY <2>1, <2>2
<1>11. ASSUME NEW c \in Blobs
       PROVE  /\ status'[<<c, "get">>] = status[<<c, "get">>]
              /\ body'[<<c, "get">>] = body[<<c, "get">>]
  BY <1>1, <1>5, <1>7
<1>9. ServiceOK'
  BY <1>4, <1>6, <1>10, <1>11
<1> QED
  BY <1>4, <1>9 DEF ServiceKept

LEMMA ServeKeeps ==
  ASSUME ServiceOK, NEW q \in Request, NEW d \in Data, DA!Serve(q, d)
  PROVE  ServiceOK' /\ ServiceKept
<1> USE DEF ServiceOK
<1>1. PICK b \in Blobs : q = <<b, "get">>
  BY PutOrGet DEF DA!Serve
<1>2. ref[q] # None /\ ShareCommitment[d] = ref[q].commitment
  BY DEF DA!Serve
<1>3. /\ UNCHANGED <<blob, ref, published, height>>
      /\ status' = [status EXCEPT ![q] = "ok"] /\ body' = [body EXCEPT ![q] = d]
  BY DEF DA!Serve, DA!Answer
<1>4. \A c \in Blobs : <<c, "put">> \in Request /\ <<c, "get">> \in Request
                        /\ <<c, "put">> # <<b, "get">>
  OBVIOUS
<1>5. ServiceOK'
  BY <1>1, <1>2, <1>3, <1>4
<1> QED
  BY <1>3, <1>5 DEF ServiceKept

LEMMA FailKeeps ==
  ASSUME ServiceOK, NEW q \in Request, DA!Fail({q})
  PROVE  ServiceOK' /\ ServiceKept
<1> USE DEF ServiceOK
<1>1. /\ UNCHANGED <<blob, ref, published, height, body>>
      /\ status' = [p \in Request |-> IF p \in {q} THEN "failed" ELSE status[p]]
  BY DEF DA!Fail
<1>2. \A b \in Blobs : <<b, "put">> \in Request /\ <<b, "get">> \in Request
  OBVIOUS
<1>3. ServiceOK'
  BY <1>1, <1>2
<1> QED
  BY <1>1, <1>3 DEF ServiceKept

\* Whatever the service does by itself, it puts nothing and asks for nothing.
LEMMA ServiceKeeps ==
  ASSUME ServiceOK, Service
  PROVE  ServiceOK' /\ ServiceKept /\ blob' = blob /\ ref' = ref
<1>1. ServiceOK' /\ ServiceKept
  BY PublishKeeps, ConfirmKeeps, ServeKeeps, FailKeeps DEF Service
<1>2. blob' = blob /\ ref' = ref
  BY DEF Service, DA!Publish, DA!Confirm, DA!Serve, DA!Fail, DA!Answer
<1> QED
  BY <1>1, <1>2

-----------------------------------------------------------------------------
(***************************************************************************)
(* A worker's step: what it does to task, service and channel.             *)
(***************************************************************************)

LEMMA Numbers ==
  ASSUME QueueOK
  PROVE  Len(queue) \in 0..TotalBlobs /\ Handed \in 0..TotalBlobs /\ 1..Handed \subseteq Blobs
BY ThroughputAssumption, LenProperties DEF QueueOK, Handed

\* A worker that took a number has a request of its own.
LEMMA OwnRequests ==
  ASSUME ToolInv, NEW w \in Workers, Working(w)
  PROVE  /\ task[w] \in BlobResult /\ task[w].blob \in 1..Handed /\ task[w].blob \in Blobs
         /\ PutOf(w) = <<task[w].blob, "put">> /\ PutOf(w) \in Request
         /\ GetOf(w) = <<task[w].blob, "get">> /\ GetOf(w) \in Request
BY Numbers DEF ToolInv, StateOK, WorkerOK, PutOf, GetOf

\* Taking a number hands out the next one, to a new task.
LEMMA Taken ==
  ASSUME ToolInv, NEW w \in Workers, Take(w)
  PROVE  /\ queue # <<>> /\ Head(queue) = Handed + 1 /\ Head(queue) \in Blobs
         /\ Handed' = Handed + 1 /\ Handed \in Nat
         /\ task' \in [Workers -> BlobResult]
         /\ \A v \in Workers : v # w => task'[v] = task[v]
         /\ task'[w].blob = Head(queue) /\ task'[w].data \in Data /\ NotYet(task'[w])
         /\ ~task'[w].mismatch
         /\ DA!Put(<<Head(queue), "put">>, task'[w].data) \/ UNCHANGED daVars
<1>1. QueueOK /\ queue # <<>> /\ queue' = Tail(queue)
  BY DEF ToolInv, Take
<1>2. /\ Head(queue) = Handed + 1 /\ Head(queue) \in Blobs
      /\ Len(queue') = Len(queue) - 1 /\ Len(queue) \in 1..TotalBlobs /\ Handed \in Nat
  BY <1>1, Receive
<1>3. Handed' = Handed + 1
  BY <1>2, ThroughputAssumption DEF Handed
<1>4. PICK d \in Data :
          /\ task' = [task EXCEPT ![w] = [NoTask EXCEPT !.blob = Head(queue), !.data = d]]
          /\ DA!Put(<<Head(queue), "put">>, d) \/ UNCHANGED daVars
  BY DEF Take
<1>5. task \in [Workers -> BlobResult]
  BY DEF ToolInv, StateOK
<1>6. /\ task'[w] = [NoTask EXCEPT !.blob = Head(queue), !.data = d]
      /\ \A v \in Workers : v # w => task'[v] = task[v]
  BY <1>4, <1>5
<1>7. /\ task'[w] \in BlobResult /\ task'[w].blob = Head(queue) /\ task'[w].data = d
      /\ task'[w].commitment = None
      /\ ~task'[w].PutSuccess /\ ~task'[w].GetSuccess /\ ~task'[w].mismatch
  BY <1>2, <1>6 DEF NoTask, BlobResult
<1>8. task' \in [Workers -> BlobResult]
  <2>1. task' = [v \in Workers |-> task'[v]]
    BY <1>4, <1>5
  <2>2. \A v \in Workers : task'[v] \in BlobResult
    BY <1>5, <1>6, <1>7
  <2> QED
    BY <2>1, <2>2
<1> QED
  BY <1>1, <1>2, <1>3, <1>4, <1>6, <1>7, <1>8 DEF NotYet

\* A PUT that is answered is the worker's own blob, where it is published.
LEMMA Put200 ==
  ASSUME ToolInv, NEW w \in Workers, PutAnswered(w)
  PROVE  /\ task' \in [Workers -> BlobResult]
         /\ \A v \in Workers : v # w => task'[v] = task[v]
         /\ task'[w].blob = task[w].blob /\ task'[w].data = task[w].data
         /\ task'[w].PutSuccess /\ ~task'[w].GetSuccess /\ ~task'[w].mismatch
         /\ task'[w].commitment \in DA!BlobRef
         /\ published[PutOf(w)] = task'[w].commitment.height /\ published[PutOf(w)] # 0
         /\ task'[w].commitment.commitment = ShareCommitment[task[w].data]
         /\ DA!Get(GetOf(w), task'[w].commitment) \/ UNCHANGED daVars
<1>1. pc[w] = "put" /\ status[PutOf(w)] = "ok" /\ Working(w)
  BY DEF PutAnswered, Working
<1>2. /\ task[w].blob \in Blobs /\ PutOf(w) = <<task[w].blob, "put">>
      /\ PutOf(w) \in Request /\ task[w] \in BlobResult
  BY <1>1, OwnRequests
<1> DEFINE answer == body[PutOf(w)]
<1>3. /\ blob[PutOf(w)] # None /\ published[PutOf(w)] # 0
      /\ answer = [height     |-> published[PutOf(w)],
                   commitment |-> ShareCommitment[blob[PutOf(w)]]]
  BY <1>1, <1>2 DEF ToolInv, ServiceOK
<1>4. /\ blob[PutOf(w)] = task[w].data /\ task[w].data \in Data
      /\ ~task[w].GetSuccess /\ ~task[w].mismatch
  BY <1>1, <1>3 DEF ToolInv, WorkerOK, NotYet
<1>5. published[PutOf(w)] \in 1..MaxHeight
  BY <1>2, <1>3, ThroughputAssumption DEF ToolInv, ServiceOK
<1>6. answer \in DA!BlobRef
  BY <1>3, <1>4, <1>5, ThroughputAssumption DEF DA!BlobRef, DA!Height
<1>7. published[PutOf(w)] = answer.height /\ answer.commitment = ShareCommitment[task[w].data]
  BY <1>3, <1>4
<1>8. /\ task' = [task EXCEPT ![w].PutSuccess = TRUE, ![w].commitment = answer]
      /\ task \in [Workers -> BlobResult]
      /\ DA!Get(GetOf(w), answer) \/ UNCHANGED daVars
  BY DEF PutAnswered, ToolInv, StateOK
<1> HIDE DEF answer
<1>9. /\ task'[w].blob = task[w].blob /\ task'[w].data = task[w].data
      /\ task'[w].PutSuccess /\ task'[w].commitment = answer
      /\ task'[w].GetSuccess = task[w].GetSuccess /\ task'[w].mismatch = task[w].mismatch
      /\ \A v \in Workers : v # w => task'[v] = task[v]
  BY <1>8 DEF BlobResult
<1>10. task' \in [Workers -> BlobResult]
  BY <1>6, <1>8 DEF BlobResult
<1> QED
  BY <1>3, <1>4, <1>6, <1>7, <1>8, <1>9, <1>10

\* A GET that is answered returns the blob that was put.
LEMMA Get200 ==
  ASSUME ToolInv, NEW w \in Workers, GetAnswered(w)
  PROVE  /\ task' \in [Workers -> BlobResult]
         /\ \A v \in Workers : v # w => task'[v] = task[v]
         /\ task'[w].blob = task[w].blob /\ task'[w].data = task[w].data
         /\ task'[w].PutSuccess = task[w].PutSuccess
         /\ task'[w].commitment = task[w].commitment
         /\ task'[w].GetSuccess /\ ~task'[w].mismatch
         /\ Increment({"getsSuccess"})
<1>1. pc[w] = "get" /\ status[GetOf(w)] = "ok" /\ Working(w)
  BY DEF GetAnswered, Working
<1>2. /\ task[w].blob \in Blobs /\ GetOf(w) = <<task[w].blob, "get">>
      /\ GetOf(w) \in Request /\ task[w] \in BlobResult
  BY <1>1, OwnRequests
<1>3. /\ ref[GetOf(w)] # None /\ body[GetOf(w)] \in Data
      /\ ShareCommitment[body[GetOf(w)]] = ref[GetOf(w)].commitment
  BY <1>1, <1>2 DEF ToolInv, ServiceOK
<1>4. /\ ref[GetOf(w)] = task[w].commitment /\ task[w].data \in Data
      /\ task[w].commitment.commitment = ShareCommitment[task[w].data]
  BY <1>1, <1>3 DEF ToolInv, WorkerOK, Succeeded
<1>5. body[GetOf(w)] = task[w].data
  BY <1>3, <1>4, ThroughputAssumption
<1>6. /\ task' = [task EXCEPT ![w].GetSuccess = TRUE, ![w].mismatch = FALSE]
      /\ task \in [Workers -> BlobResult]
  BY <1>5 DEF GetAnswered, ToolInv, StateOK
<1>7. Increment({"getsSuccess"})
  BY <1>5 DEF GetAnswered
<1>8. task' \in [Workers -> BlobResult]
  BY <1>6 DEF BlobResult
<1>9. /\ task'[w].blob = task[w].blob /\ task'[w].data = task[w].data
      /\ task'[w].PutSuccess = task[w].PutSuccess
      /\ task'[w].commitment = task[w].commitment
      /\ task'[w].GetSuccess /\ ~task'[w].mismatch
      /\ \A v \in Workers : v # w => task'[v] = task[v]
  BY <1>6 DEF BlobResult
<1> QED
  BY <1>7, <1>8, <1>9

\* Only the worker that steps moves, and only its task changes.
LEMMA OneWorker ==
  ASSUME ToolInv, NEW w \in Workers, Step(w)
  PROVE  /\ task' \in [Workers -> BlobResult]
         /\ \A v \in Workers : v # w => task'[v] = task[v] /\ pc'[v] = pc[v]
         /\ started' = started /\ interrupted' = interrupted /\ report' = report
         /\ pc[w] # "none" /\ pc[w] # "returned"
         /\ pc' \in [Workers -> {"none", "select", "put", "failed", "get", "add", "returned"}]
         /\ pc'[w] # "none"
<1>0. StateOK
  BY DEF ToolInv
<1>1. CASE Take(w)
  BY <1>0, <1>1, Taken DEF Take, Go, StateOK
<1>2. CASE PutAnswered(w)
  <2>1. /\ task' \in [Workers -> BlobResult]
        /\ \A v \in Workers : v # w => task'[v] = task[v]
    BY <1>2, Put200
  <2>2. /\ pc[w] = "put" /\ (Go(w, "get") \/ Go(w, "add"))
        /\ started' = started /\ interrupted' = interrupted /\ report' = report
    BY <1>2 DEF PutAnswered
  <2> QED
    BY <1>0, <2>1, <2>2 DEF Go, StateOK
<1>3. CASE GetAnswered(w)
  BY <1>0, <1>3, Get200 DEF GetAnswered, Go, StateOK
<1>4. CASE Return(w) \/ PutError(w) \/ CountFailed(w) \/ GetError(w) \/ AddResult(w)
  BY <1>0, <1>4 DEF Return, PutError, CountFailed, GetError, AddResult, Go, StateOK
<1> QED
  BY <1>1, <1>2, <1>3, <1>4 DEF Step

\* What a worker writes to its task is coherent.
LEMMA CoherentStep ==
  ASSUME ToolInv, NEW w \in Workers, Step(w)
  PROVE  \A v \in Workers : Coherent(task'[v])
<1>0. \A v \in Workers : Coherent(task[v])
  BY DEF ToolInv, StateOK
<1>1. Coherent(task'[w])
  <2>1. CASE Take(w)
    BY <2>1, Taken DEF Coherent, NotYet
  <2>2. CASE PutAnswered(w)
    BY <2>2, Put200, NoneAssumption DEF Coherent
  <2>3. CASE GetAnswered(w)
    <3>1. pc[w] = "get"
      BY <2>3 DEF GetAnswered
    <3>2. task[w].PutSuccess
      BY <3>1 DEF ToolInv, WorkerOK, Succeeded
    <3> QED
      BY <1>0, <2>3, <3>2, Get200 DEF Coherent
  <2>4. CASE ~Take(w) /\ ~PutAnswered(w) /\ ~GetAnswered(w)
    BY <1>0, <2>4 DEF Step, Return, PutError, CountFailed, GetError, AddResult
  <2> QED
    BY <2>1, <2>2, <2>3, <2>4
<1> QED
  BY <1>0, <1>1, OneWorker

\* Counters stay natural numbers, and only the named ones grow.
LEMMA IncrementValue ==
  ASSUME StateOK, NEW names, Increment(names)
  PROVE  /\ counters' \in [CounterNames -> Nat]
         /\ \A c \in CounterNames :
                counters'[c] = counters[c] + IF c \in names THEN 1 ELSE 0
BY DEF StateOK, Increment

LEMMA StateStep == ToolInv /\ [Next]_vars => StateOK'
<1> SUFFICES ASSUME ToolInv, [Next]_vars PROVE StateOK'
  OBVIOUS
<1>0. StateOK /\ \A v \in Workers : WorkerOK(v)
  BY DEF ToolInv
<1>1. ASSUME NEW w \in Workers, Step(w) PROVE StateOK'
  <2>1. counters' \in [CounterNames -> Nat]
    BY <1>0, <1>1, IncrementValue DEF Step, Return, Take, PutAnswered, PutError,
       CountFailed, GetAnswered, GetError, AddResult, StateOK
  <2>2. \A v \in Workers : Coherent(task[v])'
    BY <1>1, CoherentStep DEF Coherent
  <2> QED
    BY <1>0, <1>1, <2>1, <2>2, OneWorker DEF StateOK
<1>2. CASE StartWorker
  BY <1>0, <1>2, ThroughputAssumption DEF StartWorker, Go, StateOK, Coherent
<1>3. CASE Interrupt \/ PrintResults \/ Service \/ UNCHANGED vars
  BY <1>0, <1>3 DEF Interrupt, PrintResults, Service, vars, StateOK, Coherent
<1> QED
  BY <1>1, <1>2, <1>3 DEF Next

\* The service after a step: only a worker that takes a number puts a blob, and
\* only one whose PUT was answered asks for one.
LEMMA ServiceOfStep ==
  ASSUME ToolInv, NEW w \in Workers, Step(w)
  PROVE  /\ ServiceOK' /\ ServiceKept
         /\ \A q \in Request : blob'[q] # blob[q] =>
                Take(w) /\ q = <<Head(queue), "put">> /\ blob'[q] = task'[w].data
         /\ \A q \in Request : ref'[q] # ref[q] =>
                PutAnswered(w) /\ q = GetOf(w) /\ ref'[q] = task'[w].commitment
<1>0. ServiceOK
  BY DEF ToolInv
<1>1. ASSUME UNCHANGED daVars
      PROVE  ServiceOK' /\ ServiceKept /\ blob' = blob /\ ref' = ref
  BY <1>0, <1>1, Quiet DEF daVars
<1>2. CASE Take(w)
  <2>1. /\ Head(queue) \in Blobs /\ task'[w].data \in Data
        /\ DA!Put(<<Head(queue), "put">>, task'[w].data) \/ UNCHANGED daVars
    BY <1>2, Taken
  <2>2. CASE UNCHANGED daVars
    BY <1>1, <2>2
  <2>3. CASE DA!Put(<<Head(queue), "put">>, task'[w].data)
    BY <1>0, <1>2, <2>1, <2>3, PutKeeps
  <2> QED
    BY <2>1, <2>2, <2>3
<1>3. CASE PutAnswered(w)
  <2>1. Working(w)
    BY <1>3 DEF PutAnswered, Working
  <2>2. GetOf(w) = <<task[w].blob, "get">> /\ task[w].blob \in Blobs
    BY <2>1, OwnRequests
  <2>3. /\ task'[w].commitment \in DA!BlobRef
        /\ DA!Get(GetOf(w), task'[w].commitment) \/ UNCHANGED daVars
    BY <1>3, Put200
  <2>4. CASE UNCHANGED daVars
    BY <1>1, <2>4
  <2>5. CASE DA!Get(GetOf(w), task'[w].commitment)
    BY <1>0, <1>3, <2>2, <2>3, <2>5, GetKeeps
  <2> QED
    BY <2>3, <2>4, <2>5
<1>4. CASE ~Take(w) /\ ~PutAnswered(w)
  <2>1. UNCHANGED daVars
    BY <1>4 DEF Step, Return, PutError, CountFailed, GetAnswered, GetError, AddResult
  <2> QED
    BY <1>1, <2>1
<1> QED
  BY <1>2, <1>3, <1>4

LEMMA ServiceStep == ToolInv /\ [Next]_vars => ServiceOK' /\ ServiceKept
<1> SUFFICES ASSUME ToolInv, [Next]_vars PROVE ServiceOK' /\ ServiceKept
  OBVIOUS
<1>1. ServiceOK
  BY DEF ToolInv
<1>2. CASE Service
  BY <1>1, <1>2, ServiceKeeps
<1>3. ASSUME NEW w \in Workers, Step(w) PROVE ServiceOK' /\ ServiceKept
  BY <1>3, ServiceOfStep
<1>4. CASE Interrupt \/ StartWorker \/ PrintResults \/ UNCHANGED vars
  BY <1>1, <1>4, Quiet DEF Interrupt, StartWorker, PrintResults, vars
<1> QED
  BY <1>2, <1>3, <1>4 DEF Next

-----------------------------------------------------------------------------
(***************************************************************************)
(* The channel and what was never sent.                                    *)
(***************************************************************************)

LEMMA QueueStep == ToolInv /\ [Next]_vars => QueueOK'
<1> SUFFICES ASSUME ToolInv, [Next]_vars PROVE QueueOK'
  OBVIOUS
<1>0. QueueOK /\ Len(queue) \in 0..TotalBlobs /\ TotalBlobs \in Nat
  BY Numbers, ThroughputAssumption DEF ToolInv
<1>1. ASSUME queue' = queue, \A b \in Blobs : b > Handed =>
                 /\ blob'[<<b, "put">>] = blob[<<b, "put">>]
                 /\ ref'[<<b, "get">>] = ref[<<b, "get">>]
      PROVE  QueueOK'
  BY <1>0, <1>1 DEF QueueOK, Handed
<1>2. ASSUME NEW w \in Workers, Take(w) PROVE QueueOK'
  <2>1. /\ Head(queue) = Handed + 1 /\ Handed' = Handed + 1 /\ Handed \in Nat
        /\ queue # <<>>
    BY <1>2, Taken
  <2>2. /\ queue' \in Seq(Blobs) /\ Len(queue') = Len(queue) - 1
        /\ \A i \in 1..Len(queue') : queue'[i] = queue[i + 1]
    BY <1>0, <1>2, <2>1, Receive DEF Take
  <2>3. \A i \in 1..Len(queue') : queue'[i] = Handed' + i
    BY <1>0, <2>1, <2>2 DEF QueueOK
  <2>4. ASSUME NEW b \in Blobs, b > Handed'
        PROVE  blob'[<<b, "put">>] = None /\ ref'[<<b, "get">>] = None
    <3>1. b > Handed /\ b # Head(queue)
      BY <2>1, <2>4
    <3>2. blob'[<<b, "put">>] = blob[<<b, "put">>] /\ ref'[<<b, "get">>] = ref[<<b, "get">>]
      <4>1. Step(w) /\ ~PutAnswered(w)
        BY <1>2 DEF Step, Take, PutAnswered
      <4>2. <<b, "put">> \in Request /\ <<b, "get">> \in Request
              /\ <<b, "put">> # <<Head(queue), "put">>
        BY <3>1
      <4> QED
        BY <4>1, <4>2, ServiceOfStep
    <3> QED
      BY <1>0, <3>1, <3>2 DEF QueueOK
  <2> QED
    BY <1>0, <2>2, <2>3, <2>4 DEF QueueOK
<1>3. ASSUME NEW w \in Workers, Step(w), ~Take(w) PROVE QueueOK'
  <2>1. queue' = queue
    BY <1>3 DEF Step, Return, PutAnswered, PutError, CountFailed, GetAnswered,
       GetError, AddResult
  <2>2. ASSUME NEW b \in Blobs, b > Handed
        PROVE  /\ blob'[<<b, "put">>] = blob[<<b, "put">>]
               /\ ref'[<<b, "get">>] = ref[<<b, "get">>]
    <3>1. <<b, "put">> \in Request /\ <<b, "get">> \in Request
      OBVIOUS
    <3>2. PutAnswered(w) => <<b, "get">> # GetOf(w)
      <4> SUFFICES ASSUME PutAnswered(w) PROVE <<b, "get">> # GetOf(w)
        OBVIOUS
      <4>1. Working(w)
        BY DEF PutAnswered, Working
      <4> QED
        BY <2>2, <4>1, OwnRequests, Numbers, <1>0
    <3> QED
      BY <1>3, <3>1, <3>2, ServiceOfStep
  <2> QED
    BY <1>1, <2>1, <2>2
<1>4. CASE Service
  BY <1>1, <1>4, ServiceKeeps DEF Service, ToolInv
<1>5. CASE Interrupt \/ StartWorker \/ PrintResults \/ UNCHANGED vars
  BY <1>1, <1>5 DEF Interrupt, StartWorker, PrintResults, vars, daVars
<1> QED
  BY <1>2, <1>3, <1>4, <1>5 DEF Next
-----------------------------------------------------------------------------
(***************************************************************************)
(* The workers.                                                            *)
(***************************************************************************)

\* What was published under a commitment stays where the commitment says.
LEMMA SucceededKept ==
  ASSUME ServiceKept, NEW r, Succeeded(r), r.blob \in Blobs
  PROVE  published'[<<r.blob, "put">>] = r.commitment.height
<1>1. r.commitment.height # 0
  BY DEF Succeeded, DA!BlobRef, DA!Height
<1> QED
  BY <1>1 DEF Succeeded, ServiceKept

\* A worker that does not move keeps what it relies on, if no number of its is
\* put or asked for.
LEMMA Waiting ==
  ASSUME ToolInv, NEW v \in Workers, ServiceKept,
         task'[v] = task[v], pc'[v] = pc[v], v > started' <=> v > started,
         interrupted => interrupted', queue = <<>> => queue' = <<>>,
         1..Handed \subseteq 1..Handed',
         Working(v) => /\ blob'[PutOf(v)] = blob[PutOf(v)]
                       /\ ref'[GetOf(v)] = ref[GetOf(v)]
  PROVE  WorkerOK(v)'
<1>1. WorkerOK(v)
  BY DEF ToolInv
<1>2. /\ Working(v)' <=> Working(v)
      /\ PutOf(v)' = PutOf(v) /\ GetOf(v)' = GetOf(v)
  BY DEF Working, PutOf, GetOf
<1>3. ASSUME pc[v] \in {"get", "add"} PROVE Succeeded(task[v])'
  <2>1. Working(v) /\ Succeeded(task[v])
    BY <1>1, <1>3 DEF WorkerOK, Working
  <2>2. task[v].blob \in Blobs
    BY <2>1, OwnRequests
  <2>3. published'[<<task[v].blob, "put">>] = task[v].commitment.height
    BY <2>1, <2>2, SucceededKept
  <2> QED
    BY <2>1, <2>3 DEF Succeeded
<1>4. pc[v] \in {"put", "failed"} => NotYet(task[v])'
  BY <1>1 DEF WorkerOK, NotYet
<1>5. Working(v) =>
          /\ task'[v].blob \in 1..Handed' /\ task'[v].data \in Data /\ ~task'[v].mismatch
          /\ blob'[PutOf(v)'] \in {None, task'[v].data}
  BY <1>1, <1>2 DEF WorkerOK
<1>6. pc[v] \in {"put", "get"} => ref'[GetOf(v)'] = ref[GetOf(v)]
  BY <1>2 DEF Working
<1>7. (pc[v] = "put" => ref'[GetOf(v)'] = None)
      /\ (pc[v] = "get" => ref'[GetOf(v)'] \in {None, task'[v].commitment})
  BY <1>1, <1>6 DEF WorkerOK
<1> QED
  BY <1>1, <1>2, <1>3, <1>4, <1>5, <1>7 DEF WorkerOK

\* The steps of a worker leave the requests of the others alone: their numbers
\* are other numbers, and were all taken before.
LEMMA OtherWorkers ==
  ASSUME ToolInv, NEW w \in Workers, Step(w), NEW v \in Workers, v # w
  PROVE  WorkerOK(v)'
<1>1. QueueOK /\ ServiceKept
  BY ServiceOfStep DEF ToolInv
<1>2. /\ task'[v] = task[v] /\ pc'[v] = pc[v]
      /\ started' = started /\ interrupted' = interrupted
  BY OneWorker
<1>3. CASE Take(w)
  <2>1. queue # <<>> /\ Head(queue) = Handed + 1 /\ Handed' = Handed + 1 /\ Handed \in Nat
    BY <1>3, Taken
  <2>2. ~PutAnswered(w)
    BY <1>3 DEF Take, PutAnswered
  <2>3. ASSUME Working(v)
        PROVE  /\ blob'[PutOf(v)] = blob[PutOf(v)]
               /\ ref'[GetOf(v)] = ref[GetOf(v)]
    <3>1. /\ PutOf(v) = <<task[v].blob, "put">> /\ task[v].blob \in 1..Handed
          /\ PutOf(v) \in Request /\ GetOf(v) \in Request
      BY <2>3, OwnRequests
    <3>2. task[v].blob # Head(queue)
      BY <2>1, <3>1
    <3>3. PutOf(v) # <<Head(queue), "put">>
      BY <3>1, <3>2
    <3> QED
      BY <2>2, <3>1, <3>3, ServiceOfStep
  <2>4. 1..Handed \subseteq 1..Handed'
    BY <2>1
  <2> QED
    BY <1>1, <1>2, <2>1, <2>3, <2>4, Waiting
<1>4. CASE ~Take(w)
  <2>1. queue' = queue
    BY <1>4 DEF Step, Return, PutAnswered, PutError, CountFailed, GetAnswered,
       GetError, AddResult
  <2>2. Handed' = Handed
    BY <2>1 DEF Handed
  <2>3. ASSUME Working(v)
        PROVE  /\ blob'[PutOf(v)] = blob[PutOf(v)]
               /\ ref'[GetOf(v)] = ref[GetOf(v)]
    <3>1. /\ GetOf(v) = <<task[v].blob, "get">>
          /\ PutOf(v) \in Request /\ GetOf(v) \in Request
      BY <2>3, OwnRequests
    <3>2. ASSUME PutAnswered(w) PROVE GetOf(v) # GetOf(w)
      <4>1. Working(w)
        BY <3>2 DEF PutAnswered, Working
      <4>2. task[v].blob # task[w].blob
        BY <2>3, <4>1 DEF ToolInv, ResultsOK
      <4>3. GetOf(w) = <<task[w].blob, "get">>
        BY DEF GetOf
      <4> QED
        BY <3>1, <4>2, <4>3
    <3> QED
      BY <1>4, <3>1, <3>2, ServiceOfStep
  <2> QED
    BY <1>1, <1>2, <2>1, <2>2, <2>3, Waiting
<1> QED
  BY <1>3, <1>4

\* A task keeps its success, whatever else is written to it.
LEMMA SuccessCopied ==
  ASSUME ToolInv, ServiceKept, NEW w \in Workers, pc[w] \in {"get", "add"},
         task'[w].blob = task[w].blob, task'[w].data = task[w].data,
         task'[w].PutSuccess = task[w].PutSuccess,
         task'[w].commitment = task[w].commitment
  PROVE  Succeeded(task[w])'
<1>1. Working(w) /\ Succeeded(task[w])
  BY DEF ToolInv, WorkerOK, Working
<1>2. task[w].blob \in Blobs
  BY <1>1, OwnRequests
<1>3. published'[<<task[w].blob, "put">>] = task[w].commitment.height
  BY <1>1, <1>2, SucceededKept
<1> QED
  BY <1>1, <1>3 DEF Succeeded

\* The worker that steps.
LEMMA OwnWorker ==
  ASSUME ToolInv, NEW w \in Workers, Step(w)
  PROVE  WorkerOK(w)'
<1>0. /\ WorkerOK(w) /\ QueueOK /\ ServiceKept
      /\ (pc'[w] = "none" <=> w > started')
      /\ StateOK /\ interrupted' = interrupted
  BY ServiceOfStep, OneWorker DEF ToolInv, WorkerOK
<1>1. CASE Return(w)
  <2>1. pc'[w] = "returned" /\ (interrupted \/ queue = <<>>) /\ queue' = queue
    BY <1>0, <1>1 DEF Return, Go, StateOK
  <2> QED
    BY <1>0, <2>1 DEF WorkerOK, Working
<1>2. CASE Take(w)
  <2>1. /\ queue # <<>> /\ Head(queue) = Handed + 1 /\ Head(queue) \in Blobs
        /\ Handed' = Handed + 1 /\ Handed \in Nat
        /\ task'[w].blob = Head(queue) /\ task'[w].data \in Data /\ NotYet(task'[w])
        /\ ~task'[w].mismatch
    BY <1>2, Taken
  <2>2. pc'[w] = "put" /\ ~PutAnswered(w)
    BY <1>0, <1>2 DEF Take, PutAnswered, Go, StateOK
  <2>3. /\ PutOf(w)' = <<Head(queue), "put">> /\ GetOf(w)' = <<Head(queue), "get">>
        /\ <<Head(queue), "put">> \in Request /\ <<Head(queue), "get">> \in Request
    BY <2>1 DEF PutOf, GetOf
  <2>4. blob[<<Head(queue), "put">>] = None /\ ref[<<Head(queue), "get">>] = None
    BY <1>0, <2>1 DEF QueueOK
  <2>5. blob'[PutOf(w)'] \in {None, task'[w].data} /\ ref'[GetOf(w)'] = None
    BY <2>2, <2>3, <2>4, ServiceOfStep
  <2>6. task'[w].blob \in 1..Handed' /\ NotYet(task[w])'
    BY <2>1 DEF NotYet
  <2> QED
    BY <1>0, <2>1, <2>2, <2>5, <2>6 DEF WorkerOK, Working
<1>3. CASE PutAnswered(w)
  <2>1. Working(w) /\ pc[w] = "put" /\ ref[GetOf(w)] = None
    BY <1>0, <1>3 DEF PutAnswered, Working, WorkerOK
  <2>2. /\ task[w].blob \in 1..Handed /\ task[w].blob \in Blobs
        /\ PutOf(w) = <<task[w].blob, "put">> /\ PutOf(w) \in Request
        /\ GetOf(w) = <<task[w].blob, "get">> /\ GetOf(w) \in Request
    BY <2>1, OwnRequests
  <2>3. /\ task'[w].blob = task[w].blob /\ task'[w].data = task[w].data
        /\ task'[w].PutSuccess /\ ~task'[w].GetSuccess /\ ~task'[w].mismatch
        /\ task'[w].commitment \in DA!BlobRef
        /\ published[PutOf(w)] = task'[w].commitment.height /\ published[PutOf(w)] # 0
        /\ task'[w].commitment.commitment = ShareCommitment[task[w].data]
    BY <1>3, Put200
  <2>4. published'[PutOf(w)] = published[PutOf(w)]
    BY <1>0, <2>2, <2>3 DEF ServiceKept
  <2>5. Succeeded(task[w])'
    BY <2>2, <2>3, <2>4 DEF Succeeded
  <2>6. ref'[GetOf(w)] \in {None, task'[w].commitment}
    BY <2>1, <2>2, ServiceOfStep
  <2>7. blob'[PutOf(w)] = blob[PutOf(w)]
    BY <1>3, <2>2, ServiceOfStep DEF Take, PutAnswered
  <2>8. blob[PutOf(w)] \in {None, task[w].data} /\ task[w].data \in Data
    BY <1>0, <2>1 DEF WorkerOK
  <2>9. /\ pc'[w] \in {"get", "add"} /\ (pc'[w] = "get" => VerifyAfterPut)
        /\ queue' = queue
    BY <1>0, <1>3 DEF PutAnswered, Go, StateOK
  <2>10. Handed' = Handed /\ PutOf(w)' = PutOf(w) /\ GetOf(w)' = GetOf(w)
    BY <2>3, <2>9 DEF Handed, PutOf, GetOf
  <2> QED
    BY <1>0, <2>2, <2>3, <2>5, <2>6, <2>7, <2>8, <2>9, <2>10 DEF WorkerOK, Working
<1>4. CASE PutError(w)
  <2>1. pc[w] = "put" /\ pc'[w] = "failed" /\ task' = task /\ queue' = queue /\ blob' = blob
    BY <1>0, <1>4 DEF PutError, Go, StateOK, daVars
  <2>2. Handed' = Handed /\ PutOf(w)' = PutOf(w)
    BY <2>1 DEF Handed, PutOf
  <2>3. NotYet(task[w])'
    BY <1>0, <2>1 DEF WorkerOK, NotYet
  <2> QED
    BY <1>0, <2>1, <2>2, <2>3 DEF WorkerOK, Working
<1>5. CASE CountFailed(w) \/ AddResult(w)
  <2>1. pc'[w] = "select"
    BY <1>0, <1>5 DEF CountFailed, AddResult, Go, StateOK
  <2> QED
    BY <1>0, <2>1 DEF WorkerOK, Working
<1>6. CASE GetAnswered(w) \/ GetError(w)
  <2>1. /\ pc[w] = "get" /\ pc'[w] = "add" /\ queue' = queue /\ blob' = blob
    BY <1>0, <1>6 DEF GetAnswered, GetError, Go, StateOK, daVars
  <2>2. /\ task'[w].blob = task[w].blob /\ task'[w].data = task[w].data
        /\ task'[w].PutSuccess = task[w].PutSuccess
        /\ task'[w].commitment = task[w].commitment /\ ~task'[w].mismatch
    <3>1. CASE GetAnswered(w)
      BY <3>1, Get200
    <3>2. CASE GetError(w)
      <4>1. task' = task /\ ~task[w].mismatch
        BY <1>0, <2>1, <3>2 DEF GetError, WorkerOK, Working
      <4> QED
        BY <4>1
    <3> QED
      BY <1>6, <3>1, <3>2
  <2>3. Handed' = Handed /\ PutOf(w)' = PutOf(w)
    BY <2>1, <2>2 DEF Handed, PutOf
  <2>4. Succeeded(task[w])'
    BY <1>0, <2>1, <2>2, SuccessCopied
  <2> QED
    BY <1>0, <2>1, <2>2, <2>3, <2>4 DEF WorkerOK, Working
<1> QED
  BY <1>1, <1>2, <1>3, <1>4, <1>5, <1>6 DEF Step

LEMMA WorkersStep == ToolInv /\ [Next]_vars => (\A w \in Workers : WorkerOK(w))'
<1> SUFFICES ASSUME ToolInv, [Next]_vars, NEW v \in Workers PROVE WorkerOK(v)'
  OBVIOUS
<1>0. ServiceKept /\ WorkerOK(v) /\ StateOK
  BY ServiceStep DEF ToolInv
<1>1. ASSUME NEW w \in Workers, Step(w) PROVE WorkerOK(v)'
  BY <1>1, OwnWorker, OtherWorkers
<1>2. CASE StartWorker
  <2>1. started + 1 \in Workers /\ started \in Nat /\ started' = started + 1
    BY <1>0, <1>2, ThroughputAssumption DEF StateOK, StartWorker
  <2>2. CASE v = started + 1
    <3>1. pc'[v] = "select"
      BY <1>0, <1>2, <2>2 DEF StartWorker, Go, StateOK
    <3>2. ~(v > started')
      BY <2>1, <2>2
    <3> QED
      BY <3>1, <3>2 DEF WorkerOK, Working
  <2>3. CASE v # started + 1
    <3>1. /\ pc'[v] = pc[v] /\ task' = task /\ interrupted' = interrupted
          /\ queue' = queue /\ blob' = blob /\ ref' = ref
      BY <1>0, <1>2, <2>3 DEF StartWorker, Go, StateOK, daVars
    <3>2. v > started' <=> v > started
      BY <2>1, <2>3
    <3>3. Handed' = Handed
      BY <3>1 DEF Handed
    <3> QED
      BY <1>0, <3>1, <3>2, <3>3, Waiting
  <2> QED
    BY <2>2, <2>3
<1>3. CASE Interrupt \/ PrintResults \/ Service \/ UNCHANGED vars
  <2>1. /\ pc' = pc /\ task' = task /\ started' = started /\ queue' = queue
        /\ interrupted => interrupted'
    BY <1>3 DEF Interrupt, PrintResults, Service, vars
  <2>2. blob' = blob /\ ref' = ref
    <3>1. CASE Service
      BY <3>1, ServiceKeeps DEF ToolInv
    <3>2. CASE Interrupt \/ PrintResults \/ UNCHANGED vars
      BY <3>2 DEF Interrupt, PrintResults, vars, daVars
    <3> QED
      BY <1>3, <3>1, <3>2
  <2>3. Handed' = Handed
    BY <2>1 DEF Handed
  <2> QED
    BY <1>0, <2>1, <2>2, <2>3, Waiting
<1> QED
  BY <1>1, <1>2, <1>3 DEF Next
-----------------------------------------------------------------------------
(***************************************************************************)
(* The results.                                                            *)
(***************************************************************************)

\* A result that is in stays true.
LEMMA ResultKept ==
  ASSUME ToolInv, ServiceKept, NEW r \in results
  PROVE  (Succeeded(r) \/ NotYet(r))'
<1>1. r.blob \in Blobs /\ (Succeeded(r) \/ NotYet(r))
  BY Numbers DEF ToolInv, ResultsOK
<1>2. CASE Succeeded(r)
  <2>1. published'[<<r.blob, "put">>] = r.commitment.height
    BY <1>1, <1>2, SucceededKept
  <2> QED
    BY <1>2, <2>1 DEF Succeeded
<1>3. CASE NotYet(r)
  BY <1>3 DEF NotYet
<1> QED
  BY <1>1, <1>2, <1>3

\* Steps that add no result and take no number.
LEMMA ResultsSame ==
  ASSUME ToolInv, ServiceKept, results' = results, Handed' = Handed,
         \A v \in Workers : /\ Busy(v)' <=> Busy(v)
                            /\ Working(v)' => Working(v)
                            /\ task'[v].blob = task[v].blob
  PROVE  ResultsOK'
<1>1. ResultsOK
  BY DEF ToolInv
<1>2. \A r \in results : (Succeeded(r) \/ NotYet(r))'
  BY ResultKept
<1>3. \A r \in results' : r.blob \in 1..Handed' /\ ~r.mismatch /\ (Succeeded(r) \/ NotYet(r))'
  BY <1>1, <1>2 DEF ResultsOK
<1>4. \A b \in 1..Handed' :
         (\E r \in results' : r.blob = b) \/ (\E w \in Workers : Busy(w)' /\ task'[w].blob = b)
  BY <1>1 DEF ResultsOK
<1>5. /\ \A r, s \in results' : r.blob = s.blob => r = s
      /\ results' \subseteq BlobResult /\ IsFiniteSet(results')
  BY <1>1 DEF ResultsOK
<1>6. \A v, w \in Workers : v # w /\ Working(v)' /\ Working(w)' => task'[v].blob # task'[w].blob
  BY <1>1 DEF ResultsOK
<1>7. \A r \in results', w \in Workers : Busy(w)' => task'[w].blob # r.blob
  BY <1>1 DEF ResultsOK
<1>8. BlobResult' = BlobResult
  BY DEF BlobResult, DA!BlobRef, DA!Height
<1> QED
  BY <1>3, <1>4, <1>5, <1>6, <1>7, <1>8 DEF ResultsOK

\* A number that is taken is new: no result and no worker has it.
LEMMA ResultsTake ==
  ASSUME ToolInv, NEW w \in Workers, Take(w)
  PROVE  ResultsOK'
<1>1. ResultsOK /\ ServiceKept /\ results' = results
  BY ServiceOfStep DEF ToolInv, Take, Step
<1>2. /\ Head(queue) = Handed + 1 /\ Handed' = Handed + 1 /\ Handed \in Nat
      /\ \A v \in Workers : v # w => task'[v] = task[v]
      /\ task'[w].blob = Head(queue)
  BY <1>1, Taken
<1>3. /\ \A v \in Workers : v # w => pc'[v] = pc[v]
      /\ pc[w] = "select" /\ pc'[w] = "put"
  BY DEF ToolInv, StateOK, Take, Go
<1>4. /\ \A v \in Workers : v # w => /\ Busy(v)' <=> Busy(v)
                                     /\ Working(v)' <=> Working(v)
      /\ Busy(w)' /\ ~Busy(w)
  BY <1>3 DEF Busy, Working
<1>5. \A v \in Workers : Working(v) => task[v].blob \in 1..Handed
  BY OwnRequests
<1>6. \A r \in results : r.blob \in 1..Handed
  BY <1>1 DEF ResultsOK
<1>7. \A r \in results : (Succeeded(r) \/ NotYet(r))'
  BY <1>1, ResultKept
<1>8. \A r \in results' : r.blob \in 1..Handed' /\ ~r.mismatch /\ (Succeeded(r) \/ NotYet(r))'
  BY <1>1, <1>2, <1>7 DEF ResultsOK
<1>9. ASSUME NEW b \in 1..Handed'
      PROVE  (\E r \in results' : r.blob = b)
             \/ (\E v \in Workers : Busy(v)' /\ task'[v].blob = b)
  <2>1. CASE b = Handed + 1
    BY <1>2, <1>4, <2>1
  <2>2. CASE b # Handed + 1
    <3>1. b \in 1..Handed
      BY <1>2, <2>2
    <3>2. (\E r \in results : r.blob = b) \/ (\E v \in Workers : Busy(v) /\ task[v].blob = b)
      BY <1>1, <3>1 DEF ResultsOK
    <3> QED
      BY <1>1, <1>2, <1>4, <3>2
  <2> QED
    BY <2>1, <2>2
<1>10. /\ \A r, s \in results' : r.blob = s.blob => r = s
       /\ results' \subseteq BlobResult /\ IsFiniteSet(results')
  BY <1>1 DEF ResultsOK
<1>11. \A v \in Workers : v # w /\ Working(v)' => task'[v].blob # task'[w].blob
  BY <1>2, <1>4, <1>5
<1>12. ASSUME NEW v \in Workers, NEW u \in Workers, v # u, Working(v)', Working(u)'
       PROVE  task'[v].blob # task'[u].blob
  <2>1. CASE v # w /\ u # w
    BY <1>1, <1>2, <1>4, <1>12, <2>1 DEF ResultsOK
  <2>2. CASE v = w \/ u = w
    BY <1>11, <1>12, <2>2
  <2> QED
    BY <2>1, <2>2
<1>13. ASSUME NEW r \in results', NEW v \in Workers, Busy(v)'
       PROVE  task'[v].blob # r.blob
  <2>1. CASE v = w
    BY <1>1, <1>2, <1>6, <2>1
  <2>2. CASE v # w
    BY <1>1, <1>2, <1>4, <1>13, <2>2 DEF ResultsOK
  <2> QED
    BY <2>1, <2>2
<1>14. BlobResult' = BlobResult
  BY DEF BlobResult, DA!BlobRef, DA!Height
<1> QED
  BY <1>8, <1>9, <1>10, <1>12, <1>13, <1>14 DEF ResultsOK

\* What a worker adds is the result of its number, which has none yet.
LEMMA Added ==
  ASSUME ToolInv, NEW w \in Workers, PutError(w) \/ AddResult(w)
  PROVE  /\ results' = results \cup {task[w]} /\ task[w] \notin results
         /\ task[w] \in BlobResult /\ task[w].blob \in 1..Handed /\ ~task[w].mismatch
         /\ \A r \in results : r.blob # task[w].blob
         /\ task' = task /\ Handed' = Handed /\ UNCHANGED daVars
         /\ Busy(w) /\ Working(w)
<1>1. /\ results' = results \cup {task[w]} /\ task' = task /\ queue' = queue
      /\ UNCHANGED daVars /\ Busy(w) /\ Working(w)
  BY DEF PutError, AddResult, Add, Busy, Working
<1>2. task[w] \in BlobResult /\ task[w].blob \in 1..Handed /\ ~task[w].mismatch
  BY <1>1, OwnRequests DEF ToolInv, WorkerOK
<1>3. \A r \in results : r.blob # task[w].blob
  BY <1>1 DEF ToolInv, ResultsOK
<1>4. Handed' = Handed
  BY <1>1 DEF Handed
<1> QED
  BY <1>1, <1>2, <1>3, <1>4

LEMMA ResultsAdd ==
  ASSUME ToolInv, NEW w \in Workers, PutError(w) \/ AddResult(w)
  PROVE  ResultsOK'
<1>1. /\ ResultsOK /\ ServiceKept
      /\ \A v \in Workers : v # w => pc'[v] = pc[v]
  BY ServiceOfStep, OneWorker DEF ToolInv, Step
<1>2. /\ results' = results \cup {task[w]} /\ task[w] \in BlobResult
      /\ task[w].blob \in 1..Handed /\ ~task[w].mismatch
      /\ \A r \in results : r.blob # task[w].blob
      /\ task' = task /\ Handed' = Handed /\ UNCHANGED daVars
      /\ Busy(w) /\ Working(w)
  BY Added
<1>3. pc'[w] \in {"failed", "select"}
  BY DEF ToolInv, StateOK, PutError, AddResult, Go
<1>4. /\ \A v \in Workers : v # w => (Busy(v)' <=> Busy(v))
      /\ \A v \in Workers : Working(v)' => Working(v)
      /\ ~Busy(w)'
  BY <1>1, <1>2, <1>3 DEF Busy, Working
<1>5. Succeeded(task[w])' \/ NotYet(task[w])'
  <2>1. Succeeded(task[w]) \/ NotYet(task[w])
    BY DEF ToolInv, WorkerOK, PutError, AddResult
  <2>2. published' = published
    BY <1>2 DEF daVars
  <2> QED
    BY <1>2, <2>1, <2>2 DEF Succeeded, NotYet
<1>6. ASSUME NEW r \in results'
      PROVE  r.blob \in 1..Handed' /\ ~r.mismatch /\ (Succeeded(r) \/ NotYet(r))'
  <2>1. CASE r \in results
    BY <1>1, <1>2, <2>1, ResultKept DEF ResultsOK
  <2>2. CASE r = task[w]
    <3>1. r = task'[w]
      BY <1>2, <2>2
    <3> QED
      BY <1>2, <1>5, <2>2, <3>1 DEF Succeeded, NotYet
  <2> QED
    BY <1>2, <2>1, <2>2
<1>7. ASSUME NEW b \in 1..Handed'
      PROVE  (\E r \in results' : r.blob = b)
             \/ (\E v \in Workers : Busy(v)' /\ task'[v].blob = b)
  <2>1. (\E r \in results : r.blob = b) \/ (\E v \in Workers : Busy(v) /\ task[v].blob = b)
    BY <1>1, <1>2 DEF ResultsOK
  <2> QED
    BY <1>2, <1>4, <2>1
<1>8. /\ results' \subseteq BlobResult /\ IsFiniteSet(results')
      /\ \A r, s \in results' : r.blob = s.blob => r = s
  BY <1>1, <1>2, FS_AddElement DEF ResultsOK
<1>9. \A v, u \in Workers : v # u /\ Working(v)' /\ Working(u)' => task'[v].blob # task'[u].blob
  BY <1>1, <1>2, <1>4 DEF ResultsOK
<1>10. ASSUME NEW r \in results', NEW v \in Workers, Busy(v)'
       PROVE  task'[v].blob # r.blob
  <2>1. v # w /\ Busy(v) /\ Working(v)
    BY <1>4, <1>10 DEF Busy, Working
  <2>2. task[v].blob # task[w].blob
    BY <1>1, <1>2, <2>1 DEF ResultsOK
  <2> QED
    BY <1>1, <1>2, <2>1, <2>2 DEF ResultsOK
<1>11. BlobResult' = BlobResult
  BY DEF BlobResult, DA!BlobRef, DA!Height
<1> QED
  BY <1>6, <1>7, <1>8, <1>9, <1>10, <1>11 DEF ResultsOK

LEMMA ResultsStep == ToolInv /\ [Next]_vars => ResultsOK'
<1> SUFFICES ASSUME ToolInv, [Next]_vars PROVE ResultsOK'
  OBVIOUS
<1>0. ServiceKept /\ StateOK
  BY ServiceStep DEF ToolInv
<1>1. ASSUME NEW w \in Workers, Step(w) PROVE ResultsOK'
  <2>1. CASE Take(w)
    BY <2>1, ResultsTake
  <2>2. CASE PutError(w) \/ AddResult(w)
    BY <2>2, ResultsAdd
  <2>3. CASE ~Take(w) /\ ~PutError(w) /\ ~AddResult(w)
    <3>1. results' = results /\ queue' = queue
      BY <1>1, <2>3 DEF Step, Return, PutAnswered, CountFailed, GetAnswered, GetError
    <3>2. Busy(w)' <=> Busy(w)
      BY <1>0, <1>1, <2>3 DEF Step, Return, PutAnswered, CountFailed, GetAnswered,
         GetError, Busy, Go, StateOK
    <3>3. Working(w)' => Working(w)
      BY <1>0, <1>1, <2>3 DEF Step, Return, PutAnswered, CountFailed, GetAnswered,
         GetError, Working, Go, StateOK
    <3>4. \A v \in Workers : v # w => task'[v] = task[v] /\ pc'[v] = pc[v]
      BY <1>1, OneWorker
    <3>5. task'[w].blob = task[w].blob
      BY <1>1, <2>3, Put200, Get200 DEF Step, Return, CountFailed, GetError
    <3>6. Handed' = Handed
      BY <3>1 DEF Handed
    <3>7. \A v \in Workers : /\ Busy(v)' <=> Busy(v)
                             /\ Working(v)' => Working(v)
                             /\ task'[v].blob = task[v].blob
      BY <3>2, <3>3, <3>4, <3>5 DEF Busy, Working
    <3> QED
      BY <1>0, <3>1, <3>6, <3>7, ResultsSame
  <2> QED
    BY <2>1, <2>2, <2>3
<1>2. CASE StartWorker
  <2>1. started + 1 \in Workers /\ pc[started + 1] = "none"
    <3>1. started + 1 \in Workers /\ started + 1 > started
      BY <1>0, <1>2, ThroughputAssumption DEF StateOK, StartWorker
    <3> QED
      BY <3>1 DEF ToolInv, WorkerOK
  <2>2. /\ results' = results /\ queue' = queue /\ task' = task
        /\ \A v \in Workers : v # started + 1 => pc'[v] = pc[v]
        /\ pc'[started + 1] = "select"
    BY <1>0, <1>2, <2>1 DEF StartWorker, Go, StateOK
  <2>3. Handed' = Handed
    BY <2>2 DEF Handed
  <2>4. \A v \in Workers : /\ Busy(v)' <=> Busy(v)
                           /\ Working(v)' => Working(v)
    BY <2>1, <2>2 DEF Busy, Working
  <2> QED
    BY <1>0, <2>2, <2>3, <2>4, ResultsSame
<1>3. CASE Interrupt \/ PrintResults \/ Service \/ UNCHANGED vars
  <2>1. pc' = pc /\ task' = task /\ results' = results /\ queue' = queue
    BY <1>3 DEF Interrupt, PrintResults, Service, vars
  <2>2. Handed' = Handed
    BY <2>1 DEF Handed
  <2>3. \A v \in Workers : (Busy(v)' <=> Busy(v)) /\ (Working(v)' => Working(v))
    BY <2>1 DEF Busy, Working
  <2> QED
    BY <1>0, <2>1, <2>2, <2>3, ResultsSame
<1> QED
  BY <1>1, <1>2, <1>3 DEF Next
-----------------------------------------------------------------------------
(***************************************************************************)
(* The counters.                                                           *)
(***************************************************************************)

Flag(b) == IF b THEN 1 ELSE 0

\* A set of workers that one worker enters or leaves.
LEMMA OneMoves ==
  ASSUME NEW S \in SUBSET Workers, NEW T \in SUBSET Workers, NEW w \in Workers,
         \A v \in Workers : v # w => (v \in S <=> v \in T)
  PROVE  /\ Cardinality(T) = Cardinality(S) + Flag(w \in T) - Flag(w \in S)
         /\ Cardinality(S) \in Nat /\ Cardinality(T) \in Nat
<1> DEFINE O == S \ {w}
<1>1. IsFiniteSet(Workers)
  BY ThroughputAssumption, FS_Interval
<1>2. IsFiniteSet(O) /\ IsFiniteSet(S) /\ IsFiniteSet(T) /\ w \notin O
  BY <1>1, FS_Subset
<1>3. /\ Cardinality(O) \in Nat /\ Cardinality(S) \in Nat /\ Cardinality(T) \in Nat
      /\ Cardinality(O \cup {w}) = Cardinality(O) + 1
  BY <1>2, FS_AddElement, FS_CardinalityType
<1>4. /\ w \in S => S = O \cup {w}
      /\ w \notin S => S = O
      /\ w \in T => T = O \cup {w}
      /\ w \notin T => T = O
  OBVIOUS
<1> HIDE DEF O
<1>5. Cardinality(S) = Cardinality(O) + Flag(w \in S)
  <2>1. CASE w \in S
    BY <1>3, <1>4, <2>1 DEF Flag
  <2>2. CASE w \notin S
    BY <1>3, <1>4, <2>2 DEF Flag
  <2> QED
    BY <2>1, <2>2
<1>6. Cardinality(T) = Cardinality(O) + Flag(w \in T)
  <2>1. CASE w \in T
    BY <1>3, <1>4, <2>1 DEF Flag
  <2>2. CASE w \notin T
    BY <1>3, <1>4, <2>2 DEF Flag
  <2> QED
    BY <2>1, <2>2
<1> QED
  BY <1>3, <1>5, <1>6 DEF Flag

\* A set of results that a new one joins or not.
LEMMA OneAdded ==
  ASSUME NEW R, IsFiniteSet(R), NEW x, x \notin R, NEW S \in SUBSET R,
         NEW T \in SUBSET (R \cup {x}), \A y \in R : y \in S <=> y \in T
  PROVE  Cardinality(T) = Cardinality(S) + Flag(x \in T) /\ Cardinality(S) \in Nat
<1>1. IsFiniteSet(S) /\ x \notin S
  BY FS_Subset
<1>2. Cardinality(S) \in Nat /\ Cardinality(S \cup {x}) = Cardinality(S) + 1
  BY <1>1, FS_AddElement, FS_CardinalityType
<1>3. CASE x \in T
  <2>1. T = S \cup {x}
    BY <1>3
  <2> QED
    BY <1>2, <1>3, <2>1 DEF Flag
<1>4. CASE x \notin T
  <2>1. T = S
    BY <1>4
  <2> QED
    BY <1>2, <1>4, <2>1 DEF Flag
<1> QED
  BY <1>3, <1>4

\* The workers that read their blob back, and those that did not.
Readers == {w \in Workers : pc[w] = "add" /\ task[w].GetSuccess}
Missers == {w \in Workers : pc[w] = "add" /\ ~task[w].GetSuccess}

\* The results that main counts.
PutsDone   == {r \in results : r.PutSuccess}
PutsLost   == {r \in results : ~r.PutSuccess}
GetsDone   == {r \in results : r.GetSuccess}
GetsLost   == {r \in results : r.PutSuccess /\ ~r.GetSuccess}

\* The workers counted, before and after a step of one of them.
LEMMA WorkerCounts ==
  ASSUME ToolInv, NEW w \in Workers, Step(w)
  PROVE  /\ \A pcs : /\ WorkersAt(pcs) \in Nat /\ WorkersAt(pcs)' \in Nat
                     /\ WorkersAt(pcs)' = WorkersAt(pcs) + Flag(pc'[w] \in pcs) - Flag(pc[w] \in pcs)
         /\ Cardinality(Readers)' = Cardinality(Readers) + Flag(pc'[w] = "add" /\ task'[w].GetSuccess)
                                        - Flag(pc[w] = "add" /\ task[w].GetSuccess)
         /\ Cardinality(Missers)' = Cardinality(Missers) + Flag(pc'[w] = "add" /\ ~task'[w].GetSuccess)
                                        - Flag(pc[w] = "add" /\ ~task[w].GetSuccess)
         /\ Cardinality(Readers) \in Nat /\ Cardinality(Missers) \in Nat
<1>1. \A v \in Workers : v # w => task'[v] = task[v] /\ pc'[v] = pc[v]
  BY OneWorker
<1>2. ASSUME NEW pcs
      PROVE  /\ WorkersAt(pcs) \in Nat /\ WorkersAt(pcs)' \in Nat
             /\ WorkersAt(pcs)' = WorkersAt(pcs) + Flag(pc'[w] \in pcs) - Flag(pc[w] \in pcs)
  <2> DEFINE S == {v \in Workers : pc[v] \in pcs}
             T == {v \in Workers : pc'[v] \in pcs}
  <2>1. S \in SUBSET Workers /\ T \in SUBSET Workers
    OBVIOUS
  <2>2. \A v \in Workers : v # w => (v \in S <=> v \in T)
    BY <1>1
  <2>3. (w \in S <=> pc[w] \in pcs) /\ (w \in T <=> pc'[w] \in pcs)
    OBVIOUS
  <2>4. WorkersAt(pcs) = Cardinality(S) /\ WorkersAt(pcs)' = Cardinality(T)
    BY DEF WorkersAt
  <2> HIDE DEF S, T
  <2>5. /\ Cardinality(T) = Cardinality(S) + Flag(w \in T) - Flag(w \in S)
        /\ Cardinality(S) \in Nat /\ Cardinality(T) \in Nat
    BY <2>1, <2>2, OneMoves
  <2> QED
    BY <2>3, <2>4, <2>5 DEF Flag
<1>3. /\ Cardinality(Readers') = Cardinality(Readers) + Flag(w \in Readers') - Flag(w \in Readers)
      /\ Cardinality(Readers) \in Nat
  <2>1. /\ Readers \in SUBSET Workers /\ Readers' \in SUBSET Workers
        /\ \A v \in Workers : v # w => (v \in Readers <=> v \in Readers')
    BY <1>1 DEF Readers
  <2> QED
    BY <2>1, OneMoves
<1>4. /\ Cardinality(Missers') = Cardinality(Missers) + Flag(w \in Missers') - Flag(w \in Missers)
      /\ Cardinality(Missers) \in Nat
  <2>1. /\ Missers \in SUBSET Workers /\ Missers' \in SUBSET Workers
        /\ \A v \in Workers : v # w => (v \in Missers <=> v \in Missers')
    BY <1>1 DEF Missers
  <2> QED
    BY <2>1, OneMoves
<1>5. /\ w \in Readers' <=> pc'[w] = "add" /\ task'[w].GetSuccess
      /\ w \in Readers <=> pc[w] = "add" /\ task[w].GetSuccess
      /\ w \in Missers' <=> pc'[w] = "add" /\ ~task'[w].GetSuccess
      /\ w \in Missers <=> pc[w] = "add" /\ ~task[w].GetSuccess
  BY DEF Readers, Missers
<1> QED
  BY <1>2, <1>3, <1>4, <1>5 DEF Flag

\* The results counted, before and after one is added.
LEMMA ResultCounts ==
  ASSUME ToolInv, NEW w \in Workers, PutError(w) \/ AddResult(w)
  PROVE  /\ Cardinality(PutsDone') = Cardinality(PutsDone) + Flag(task[w].PutSuccess)
         /\ Cardinality(PutsLost') = Cardinality(PutsLost) + Flag(~task[w].PutSuccess)
         /\ Cardinality(GetsDone') = Cardinality(GetsDone) + Flag(task[w].GetSuccess)
         /\ Cardinality(GetsLost') = Cardinality(GetsLost)
                                         + Flag(task[w].PutSuccess /\ ~task[w].GetSuccess)
<1>1. results' = results \cup {task[w]} /\ task[w] \notin results /\ IsFiniteSet(results)
  BY Added DEF ToolInv, ResultsOK
<1>2. Cardinality(PutsDone') = Cardinality(PutsDone) + Flag(task[w] \in PutsDone')
  <2>1. /\ PutsDone \in SUBSET results /\ PutsDone' \in SUBSET (results \cup {task[w]})
        /\ \A r \in results : r \in PutsDone <=> r \in PutsDone'
    BY <1>1 DEF PutsDone
  <2> QED
    BY <1>1, <2>1, OneAdded
<1>3. Cardinality(PutsLost') = Cardinality(PutsLost) + Flag(task[w] \in PutsLost')
  <2>1. /\ PutsLost \in SUBSET results /\ PutsLost' \in SUBSET (results \cup {task[w]})
        /\ \A r \in results : r \in PutsLost <=> r \in PutsLost'
    BY <1>1 DEF PutsLost
  <2> QED
    BY <1>1, <2>1, OneAdded
<1>4. Cardinality(GetsDone') = Cardinality(GetsDone) + Flag(task[w] \in GetsDone')
  <2>1. /\ GetsDone \in SUBSET results /\ GetsDone' \in SUBSET (results \cup {task[w]})
        /\ \A r \in results : r \in GetsDone <=> r \in GetsDone'
    BY <1>1 DEF GetsDone
  <2> QED
    BY <1>1, <2>1, OneAdded
<1>5. Cardinality(GetsLost') = Cardinality(GetsLost) + Flag(task[w] \in GetsLost')
  <2>1. /\ GetsLost \in SUBSET results /\ GetsLost' \in SUBSET (results \cup {task[w]})
        /\ \A r \in results : r \in GetsLost <=> r \in GetsLost'
    BY <1>1 DEF GetsLost
  <2> QED
    BY <1>1, <2>1, OneAdded
<1>6. /\ task[w] \in PutsDone' <=> task[w].PutSuccess
      /\ task[w] \in PutsLost' <=> ~task[w].PutSuccess
      /\ task[w] \in GetsDone' <=> task[w].GetSuccess
      /\ task[w] \in GetsLost' <=> task[w].PutSuccess /\ ~task[w].GetSuccess
  BY <1>1 DEF PutsDone, PutsLost, GetsDone, GetsLost
<1> QED
  BY <1>2, <1>3, <1>4, <1>5, <1>6 DEF Flag

LEMMA ResultCardinalities ==
  ASSUME ResultsOK
  PROVE  /\ Cardinality(PutsDone) \in Nat /\ Cardinality(PutsLost) \in Nat
         /\ Cardinality(GetsDone) \in Nat /\ Cardinality(GetsLost) \in Nat
<1>1. /\ PutsDone \subseteq results /\ PutsLost \subseteq results
      /\ GetsDone \subseteq results /\ GetsLost \subseteq results
      /\ IsFiniteSet(results)
  BY DEF ResultsOK, PutsDone, PutsLost, GetsDone, GetsLost
<1> QED
  BY <1>1, FS_Subset, FS_CardinalityType

\* CountersOK in these terms.
Tally ==
    /\ counters.putsStarted = counters.putsCompleted + WorkersAt({"put", "failed"})
    /\ counters.putsFailed + WorkersAt({"failed"}) = Cardinality(PutsLost)
    /\ counters.putsCompleted = counters.putsFailed + WorkersAt({"get", "add"})
                                    + Cardinality(PutsDone)
    /\ counters.getsSuccess = Cardinality(GetsDone) + Cardinality(Readers)
    /\ counters.getsFailed =
           IF VerifyAfterPut THEN Cardinality(GetsLost) + Cardinality(Missers) ELSE 0

LEMMA CountersTally == CountersOK <=> Tally
BY DEF CountersOK, Tally, PutsDone, PutsLost, GetsDone, GetsLost, Readers, Missers

LEMMA Incremented ==
  ASSUME StateOK, NEW names, Increment(names)
  PROVE  /\ counters'.putsStarted = counters.putsStarted + Flag("putsStarted" \in names)
         /\ counters'.putsCompleted = counters.putsCompleted + Flag("putsCompleted" \in names)
         /\ counters'.putsFailed = counters.putsFailed + Flag("putsFailed" \in names)
         /\ counters'.getsSuccess = counters.getsSuccess + Flag("getsSuccess" \in names)
         /\ counters'.getsFailed = counters.getsFailed + Flag("getsFailed" \in names)
BY IncrementValue DEF CounterNames, Flag

LEMMA CountersTallyNext == CountersOK' <=> Tally'
BY CountersTally, PTL

\* What each step of a worker adds to the counters.
LEMMA CountersWorker ==
  ASSUME ToolInv, NEW w \in Workers, Step(w)
  PROVE  Tally'
<1> DEFINE put  == WorkersAt({"put", "failed"})
           fail == WorkersAt({"failed"})
           good == WorkersAt({"get", "add"})
           same == /\ PutsDone' = PutsDone /\ PutsLost' = PutsLost
                   /\ GetsDone' = GetsDone /\ GetsLost' = GetsLost
<1>0. /\ Tally /\ StateOK /\ WorkerOK(w)
      /\ counters.putsStarted \in Nat /\ counters.putsCompleted \in Nat
      /\ counters.putsFailed \in Nat /\ counters.getsSuccess \in Nat
      /\ counters.getsFailed \in Nat
  BY CountersTally DEF ToolInv, StateOK, CounterNames
<1>1. /\ Cardinality(PutsDone) \in Nat /\ Cardinality(PutsLost) \in Nat
      /\ Cardinality(GetsDone) \in Nat /\ Cardinality(GetsLost) \in Nat
  BY ResultCardinalities DEF ToolInv
<1>2. /\ put \in Nat /\ fail \in Nat /\ good \in Nat
      /\ put' = put + Flag(pc'[w] \in {"put", "failed"}) - Flag(pc[w] \in {"put", "failed"})
      /\ fail' = fail + Flag(pc'[w] = "failed") - Flag(pc[w] = "failed")
      /\ good' = good + Flag(pc'[w] \in {"get", "add"}) - Flag(pc[w] \in {"get", "add"})
  <2>1. (pc'[w] \in {"failed"} <=> pc'[w] = "failed") /\ (pc[w] \in {"failed"} <=> pc[w] = "failed")
    OBVIOUS
  <2> QED
    BY <2>1, WorkerCounts DEF Flag
<1>3. /\ Cardinality(Readers') = Cardinality(Readers) + Flag(pc'[w] = "add" /\ task'[w].GetSuccess)
                                     - Flag(pc[w] = "add" /\ task[w].GetSuccess)
      /\ Cardinality(Missers') = Cardinality(Missers) + Flag(pc'[w] = "add" /\ ~task'[w].GetSuccess)
                                     - Flag(pc[w] = "add" /\ ~task[w].GetSuccess)
      /\ Cardinality(Readers) \in Nat /\ Cardinality(Missers) \in Nat
  BY WorkerCounts
<1>4. results' = results => same
  BY DEF PutsDone, PutsLost, GetsDone, GetsLost
<1>5. /\ counters.putsStarted = counters.putsCompleted + put
      /\ counters.putsFailed + fail = Cardinality(PutsLost)
      /\ counters.putsCompleted = counters.putsFailed + good + Cardinality(PutsDone)
      /\ counters.getsSuccess = Cardinality(GetsDone) + Cardinality(Readers)
      /\ counters.getsFailed =
             IF VerifyAfterPut THEN Cardinality(GetsLost) + Cardinality(Missers) ELSE 0
  BY <1>0 DEF Tally
<1>6. SUFFICES
      /\ counters'.putsStarted = counters'.putsCompleted + put'
      /\ counters'.putsFailed + fail' = Cardinality(PutsLost')
      /\ counters'.putsCompleted = counters'.putsFailed + good' + Cardinality(PutsDone')
      /\ counters'.getsSuccess = Cardinality(GetsDone') + Cardinality(Readers')
      /\ counters'.getsFailed =
             IF VerifyAfterPut THEN Cardinality(GetsLost') + Cardinality(Missers') ELSE 0
  BY DEF Tally
<1> HIDE DEF put, fail, good
<1>7. CASE Return(w)
  <2>1. pc[w] = "select" /\ pc'[w] = "returned" /\ counters' = counters /\ results' = results
    BY <1>0, <1>7 DEF Return, Go, StateOK
  <2> QED
    BY <1>0, <1>1, <1>2, <1>3, <1>4, <1>5, <2>1 DEF Flag
<1>8. CASE Take(w)
  <2>1. pc[w] = "select" /\ pc'[w] = "put" /\ results' = results /\ Increment({"putsStarted"})
    BY <1>0, <1>8 DEF Take, Go, StateOK
  <2>2. /\ counters'.putsStarted = counters.putsStarted + 1
        /\ counters'.putsCompleted = counters.putsCompleted
        /\ counters'.putsFailed = counters.putsFailed
        /\ counters'.getsSuccess = counters.getsSuccess
        /\ counters'.getsFailed = counters.getsFailed
    BY <1>0, <2>1, Incremented DEF Flag
  <2>3. /\ put' = put + 1 /\ fail' = fail /\ good' = good
        /\ Cardinality(Readers') = Cardinality(Readers)
        /\ Cardinality(Missers') = Cardinality(Missers)
    BY <1>2, <1>3, <2>1 DEF Flag
  <2>4. same
    BY <1>4, <2>1
  <2> QED
    BY <1>0, <1>1, <1>2, <1>5, <2>2, <2>3, <2>4
<1>9. CASE PutAnswered(w)
  <2>1. /\ pc[w] = "put" /\ pc'[w] = (IF VerifyAfterPut THEN "get" ELSE "add")
        /\ results' = results /\ Increment({"putsCompleted"})
    BY <1>0, <1>9 DEF PutAnswered, Go, StateOK
  <2>2. /\ counters'.putsStarted = counters.putsStarted
        /\ counters'.putsCompleted = counters.putsCompleted + 1
        /\ counters'.putsFailed = counters.putsFailed
        /\ counters'.getsSuccess = counters.getsSuccess
        /\ counters'.getsFailed = counters.getsFailed
    BY <1>0, <2>1, Incremented DEF Flag
  <2>3. ~task'[w].GetSuccess
    BY <1>9, Put200
  <2>4. /\ put' = put - 1 /\ fail' = fail /\ good' = good + 1
        /\ Cardinality(Readers') = Cardinality(Readers)
        /\ VerifyAfterPut => Cardinality(Missers') = Cardinality(Missers)
    BY <1>2, <1>3, <2>1, <2>3 DEF Flag
  <2> QED
    BY <1>0, <1>1, <1>2, <1>3, <1>4, <1>5, <2>1, <2>2, <2>4
<1>10. CASE PutError(w)
  <2>1. pc[w] = "put" /\ pc'[w] = "failed" /\ counters' = counters
    BY <1>0, <1>10 DEF PutError, Go, StateOK
  <2>2. NotYet(task[w])
    BY <1>0, <2>1 DEF WorkerOK
  <2>3. /\ Cardinality(PutsDone') = Cardinality(PutsDone)
        /\ Cardinality(PutsLost') = Cardinality(PutsLost) + 1
        /\ Cardinality(GetsDone') = Cardinality(GetsDone)
        /\ Cardinality(GetsLost') = Cardinality(GetsLost)
    BY <1>1, <1>10, <2>2, ResultCounts DEF Flag, NotYet
  <2>4. /\ put' = put /\ fail' = fail + 1 /\ good' = good
        /\ Cardinality(Readers') = Cardinality(Readers)
        /\ Cardinality(Missers') = Cardinality(Missers)
    BY <1>2, <1>3, <2>1 DEF Flag
  <2> QED
    BY <1>0, <1>1, <1>2, <1>5, <2>1, <2>3, <2>4
<1>11. CASE CountFailed(w)
  <2>1. /\ pc[w] = "failed" /\ pc'[w] = "select" /\ results' = results
        /\ Increment({"putsCompleted", "putsFailed"})
    BY <1>0, <1>11 DEF CountFailed, Go, StateOK
  <2>2. /\ counters'.putsStarted = counters.putsStarted
        /\ counters'.putsCompleted = counters.putsCompleted + 1
        /\ counters'.putsFailed = counters.putsFailed + 1
        /\ counters'.getsSuccess = counters.getsSuccess
        /\ counters'.getsFailed = counters.getsFailed
    BY <1>0, <2>1, Incremented DEF Flag
  <2>3. /\ put' = put - 1 /\ fail' = fail - 1 /\ good' = good
        /\ Cardinality(Readers') = Cardinality(Readers)
        /\ Cardinality(Missers') = Cardinality(Missers)
    BY <1>2, <1>3, <2>1 DEF Flag
  <2>4. same
    BY <1>4, <2>1
  <2> HIDE DEF same
  <2>5. /\ Cardinality(PutsDone') = Cardinality(PutsDone)
        /\ Cardinality(PutsLost') = Cardinality(PutsLost)
        /\ Cardinality(GetsDone') = Cardinality(GetsDone)
        /\ Cardinality(GetsLost') = Cardinality(GetsLost)
    BY <2>4 DEF same
  <2>6. counters'.putsStarted = counters'.putsCompleted + put'
    BY <1>0, <1>2, <1>5, <2>2, <2>3
  <2>7. counters'.putsFailed + fail' = Cardinality(PutsLost')
    <3>1. fail \in Nat /\ counters.putsFailed \in Nat
      BY <1>0, <1>2
    <3>2. counters'.putsFailed = counters.putsFailed + 1 /\ fail' = fail - 1
      BY <2>2, <2>3
    <3>3. counters'.putsFailed + fail' = counters.putsFailed + fail
      BY <3>1, <3>2
    <3> QED
      BY <1>5, <2>5, <3>3
  <2>8. counters'.putsCompleted = counters'.putsFailed + good' + Cardinality(PutsDone')
    BY <1>0, <1>1, <1>2, <1>5, <2>2, <2>3, <2>5
  <2> QED
    BY <1>5, <2>2, <2>3, <2>5, <2>6, <2>7, <2>8
<1>12. CASE GetAnswered(w)
  <2>1. pc[w] = "get" /\ pc'[w] = "add" /\ results' = results
    BY <1>0, <1>12 DEF GetAnswered, Go, StateOK
  <2>2. Increment({"getsSuccess"}) /\ task'[w].GetSuccess
    BY <1>12, Get200
  <2>3. /\ counters'.putsStarted = counters.putsStarted
        /\ counters'.putsCompleted = counters.putsCompleted
        /\ counters'.putsFailed = counters.putsFailed
        /\ counters'.getsSuccess = counters.getsSuccess + 1
        /\ counters'.getsFailed = counters.getsFailed
    BY <1>0, <2>2, Incremented DEF Flag
  <2>4. /\ put' = put /\ fail' = fail /\ good' = good
        /\ Cardinality(Readers') = Cardinality(Readers) + 1
        /\ Cardinality(Missers') = Cardinality(Missers)
    BY <1>2, <1>3, <2>1, <2>2 DEF Flag
  <2> QED
    BY <1>0, <1>1, <1>2, <1>3, <1>4, <1>5, <2>1, <2>3, <2>4
<1>13. CASE GetError(w)
  <2>1. /\ pc[w] = "get" /\ pc'[w] = "add" /\ results' = results /\ task' = task
        /\ Increment({"getsFailed"})
    BY <1>0, <1>13 DEF GetError, Go, StateOK
  <2>2. VerifyAfterPut /\ ~task'[w].GetSuccess
    BY <1>0, <2>1 DEF WorkerOK
  <2>3. /\ counters'.putsStarted = counters.putsStarted
        /\ counters'.putsCompleted = counters.putsCompleted
        /\ counters'.putsFailed = counters.putsFailed
        /\ counters'.getsSuccess = counters.getsSuccess
        /\ counters'.getsFailed = counters.getsFailed + 1
    BY <1>0, <2>1, Incremented DEF Flag
  <2>4. /\ put' = put /\ fail' = fail /\ good' = good
        /\ Cardinality(Readers') = Cardinality(Readers)
        /\ Cardinality(Missers') = Cardinality(Missers) + 1
    BY <1>2, <1>3, <2>1, <2>2 DEF Flag
  <2> QED
    BY <1>0, <1>1, <1>2, <1>3, <1>4, <1>5, <2>1, <2>2, <2>3, <2>4
<1>14. CASE AddResult(w)
  <2>1. pc[w] = "add" /\ pc'[w] = "select" /\ counters' = counters
    BY <1>0, <1>14 DEF AddResult, Go, StateOK
  <2>2. task[w].PutSuccess /\ (~VerifyAfterPut => ~task[w].GetSuccess)
    BY <1>0, <2>1 DEF WorkerOK, Succeeded
  <2>3. /\ Cardinality(PutsDone') = Cardinality(PutsDone) + 1
        /\ Cardinality(PutsLost') = Cardinality(PutsLost)
        /\ Cardinality(GetsDone') = Cardinality(GetsDone) + Flag(task[w].GetSuccess)
        /\ Cardinality(GetsLost') = Cardinality(GetsLost) + Flag(~task[w].GetSuccess)
    BY <1>1, <1>14, <2>2, ResultCounts DEF Flag
  <2>4. /\ put' = put /\ fail' = fail /\ good' = good - 1
        /\ Cardinality(Readers') = Cardinality(Readers) - Flag(task[w].GetSuccess)
        /\ Cardinality(Missers') = Cardinality(Missers) - Flag(~task[w].GetSuccess)
    BY <1>2, <1>3, <2>1 DEF Flag
  <2> QED
    BY <1>0, <1>1, <1>2, <1>3, <1>5, <2>1, <2>2, <2>3, <2>4 DEF Flag
<1> QED
  BY <1>7, <1>8, <1>9, <1>10, <1>11, <1>12, <1>13, <1>14 DEF Step

LEMMA CountersStep == ToolInv /\ [Next]_vars => CountersOK'
<1> SUFFICES ASSUME ToolInv, [Next]_vars PROVE CountersOK'
  OBVIOUS
<1>0. CountersOK /\ StateOK
  BY DEF ToolInv
<1>1. ASSUME NEW w \in Workers, Step(w) PROVE CountersOK'
  BY <1>1, CountersWorker, CountersTallyNext
<1>2. ASSUME \A v \in Workers : \/ pc'[v] = pc[v]
                                \/ pc'[v] = "select" /\ pc[v] = "none",
             task' = task, results' = results, counters' = counters
      PROVE  CountersOK'
  <2>1. ASSUME NEW pcs \in SUBSET {"put", "failed", "get", "add"}
        PROVE  WorkersAt(pcs)' = WorkersAt(pcs)
    <3>1. {v \in Workers : pc'[v] \in pcs} = {v \in Workers : pc[v] \in pcs}
      BY <1>2
    <3> QED
      BY <3>1 DEF WorkersAt
  <2>2. Readers' = Readers /\ Missers' = Missers
    BY <1>2 DEF Readers, Missers
  <2>3. /\ PutsDone' = PutsDone /\ PutsLost' = PutsLost
        /\ GetsDone' = GetsDone /\ GetsLost' = GetsLost
    BY <1>2 DEF PutsDone, PutsLost, GetsDone, GetsLost
  <2>4. /\ WorkersAt({"put", "failed"})' = WorkersAt({"put", "failed"})
        /\ WorkersAt({"failed"})' = WorkersAt({"failed"})
        /\ WorkersAt({"get", "add"})' = WorkersAt({"get", "add"})
    BY <2>1
  <2>5. Tally'
    BY <1>0, <1>2, <2>2, <2>3, <2>4, CountersTally DEF Tally
  <2> QED
    BY <2>5, CountersTallyNext
<1>3. CASE StartWorker
  <2>1. started + 1 \in Workers /\ started + 1 > started
    BY <1>0, <1>3, ThroughputAssumption DEF StateOK, StartWorker
  <2>2. pc[started + 1] = "none"
    BY <2>1 DEF ToolInv, WorkerOK
  <2>3. \A v \in Workers : \/ pc'[v] = pc[v]
                           \/ pc'[v] = "select" /\ pc[v] = "none"
    BY <1>0, <1>3, <2>2 DEF StartWorker, Go, StateOK
  <2> QED
    BY <1>2, <1>3, <2>3 DEF StartWorker
<1>4. CASE Interrupt \/ PrintResults \/ Service \/ UNCHANGED vars
  <2>1. pc' = pc /\ task' = task /\ results' = results /\ counters' = counters
    BY <1>4 DEF Interrupt, PrintResults, Service, vars
  <2> QED
    BY <1>2, <2>1
<1> QED
  BY <1>1, <1>3, <1>4 DEF Next

-----------------------------------------------------------------------------
(***************************************************************************)
(* The report, and the theorems.                                           *)
(***************************************************************************)

LEMMA ReportStep == ToolInv /\ [Next]_vars => ReportOK'
<1> SUFFICES ASSUME ToolInv, [Next]_vars PROVE ReportOK'
  OBVIOUS
<1>0. ReportOK /\ StateOK
  BY DEF ToolInv
<1>1. ASSUME NEW w \in Workers, Step(w) PROVE ReportOK'
  <2>1. report' = report /\ pc[w] # "returned"
    BY <1>1, OneWorker
  <2> QED
    BY <1>0, <2>1 DEF ReportOK
<1>2. CASE StartWorker
  <2>1. report' = report /\ started # ConcurrentPuts
    BY <1>0, <1>2, ThroughputAssumption DEF StartWorker, StateOK
  <2> QED
    BY <1>0, <2>1 DEF ReportOK
<1>3. CASE PrintResults
  BY <1>3 DEF PrintResults, ReportOK, AggregateResults
<1>4. CASE Interrupt \/ Service \/ UNCHANGED vars
  <2>1. report' = report /\ results' = results /\ started' = started /\ pc' = pc
    BY <1>4 DEF Interrupt, Service, vars
  <2> QED
    BY <1>0, <2>1 DEF ReportOK, AggregateResults
<1> QED
  BY <1>1, <1>2, <1>3, <1>4 DEF Next

LEMMA InitInv == Init => ToolInv
<1> SUFFICES ASSUME Init PROVE ToolInv
  OBVIOUS
<1>1. /\ blob = [r \in Request |-> None] /\ ref = [r \in Request |-> None]
      /\ published = [r \in Request |-> 0] /\ height = 0
      /\ status = [r \in Request |-> "none"] /\ body = [r \in Request |-> None]
  BY DEF Init, DA!Init
<1>2. /\ queue = [n \in Blobs |-> n] /\ interrupted = FALSE /\ started = 0
      /\ pc = [w \in Workers |-> "none"] /\ task = [w \in Workers |-> NoTask]
      /\ results = {} /\ report = None
  BY DEF Init
<1>3. counters = [putsStarted |-> 0, putsCompleted |-> 0, putsFailed |-> 0,
                  getsSuccess |-> 0, getsFailed |-> 0]
  BY DEF Init
<1>4. StateOK
  <2>1. NoTask \in BlobResult
    BY DEF NoTask, BlobResult
  <2>2. counters \in [CounterNames -> Nat]
    BY <1>3 DEF CounterNames
  <2>3. task \in [Workers -> BlobResult]
    BY <1>2, <2>1
  <2>4. pc \in [Workers -> {"none", "select", "put", "failed", "get", "add", "returned"}]
    BY <1>2
  <2>5. started \in 0..ConcurrentPuts /\ interrupted \in BOOLEAN
    <3>1. started \in 0..ConcurrentPuts
      BY <1>2, ThroughputAssumption
    <3>2. interrupted = FALSE
      BY <1>2
    <3>3. interrupted \in BOOLEAN
      BY <3>2, Zenon
    <3> QED
      BY <3>1, <3>3
  <2>6. \A w \in Workers : Coherent(task[w])
    BY <1>2 DEF NoTask, Coherent
  <2> QED
    BY <2>2, <2>3, <2>4, <2>5, <2>6 DEF StateOK
<1>5. ServiceOK
  BY <1>1, ThroughputAssumption DEF ServiceOK
<1>6. Len(queue) = TotalBlobs /\ Handed = 0 /\ queue \in Seq(Blobs)
  BY <1>2, FullChannel, ThroughputAssumption DEF Handed
<1>7. QueueOK
  BY <1>1, <1>2, <1>6, ThroughputAssumption DEF QueueOK
<1>8. ASSUME NEW w \in Workers PROVE WorkerOK(w)
  BY <1>2 DEF WorkerOK, Working
<1>9. ResultsOK
  BY <1>2, <1>6, FS_EmptySet DEF ResultsOK, Working, Busy
<1>10. CountersOK
  <2>1. /\ PutsDone = {} /\ PutsLost = {} /\ GetsDone = {} /\ GetsLost = {}
        /\ Readers = {} /\ Missers = {}
    BY <1>2 DEF PutsDone, PutsLost, GetsDone, GetsLost, Readers, Missers
  <2>2. ASSUME NEW pcs \in SUBSET {"put", "failed", "get", "add"} PROVE WorkersAt(pcs) = 0
    <3>1. {v \in Workers : pc[v] \in pcs} = {}
      BY <1>2
    <3> QED
      BY <3>1, FS_EmptySet DEF WorkersAt
  <2>3. /\ WorkersAt({"put", "failed"}) = 0 /\ WorkersAt({"failed"}) = 0
        /\ WorkersAt({"get", "add"}) = 0
    BY <2>2
  <2>4. Tally
    BY <1>3, <2>1, <2>3, FS_EmptySet DEF Tally
  <2> QED
    BY <2>4, CountersTally
<1>11. ReportOK
  BY <1>2 DEF ReportOK
<1> QED
  BY <1>4, <1>5, <1>7, <1>8, <1>9, <1>10, <1>11 DEF ToolInv

\* The inductive invariant, whatever the service does within its promises and
\* whenever the tool is interrupted.
THEOREM Invariance == Spec => []ToolInv
<1>1. ToolInv /\ [Next]_vars => ToolInv'
  BY StateStep, ServiceStep, QueueStep, WorkersStep, ResultsStep, CountersStep,
     ReportStep DEF ToolInv
<1> QED
  BY InitInv, <1>1, PTL DEF Spec

LEMMA ReportTyped == ToolInv => report \in Report \cup {None}
<1> SUFFICES ASSUME ToolInv, report # None PROVE report \in Report
  OBVIOUS
<1>1. report = AggregateResults(results) /\ ResultsOK
  BY DEF ToolInv, ReportOK
<1>2. \A S \in SUBSET results : Cardinality(S) \in Nat
  BY <1>1, FS_Subset, FS_CardinalityType DEF ResultsOK
<1> QED
  BY <1>1, <1>2 DEF AggregateResults, Report

\* The type invariant.
THEOREM TypeCorrect == Spec => []TypeOK
<1>1. ToolInv => TypeOK
  <2> SUFFICES ASSUME ToolInv PROVE TypeOK
    OBVIOUS
  <2>1. /\ StateOK /\ queue \in Seq(Blobs)
        /\ \A r \in results : r \in BlobResult /\ (Succeeded(r) \/ NotYet(r))
    BY DEF ToolInv, ResultsOK, QueueOK
  <2>2. \A r \in Range(task) : r \in BlobResult /\ Coherent(r)
    BY <2>1 DEF StateOK, Range
  <2>3. \A r \in results : Coherent(r)
    BY <2>1, NoneAssumption DEF Succeeded, NotYet, Coherent, BlobResult
  <2>4. \A c \in DOMAIN counters : counters[c] \in Nat
    BY <2>1 DEF StateOK
  <2>5. \A r \in Range(task) \cup results :
            /\ r.blob \in Blobs \cup {0} /\ r.data \in Data \cup {None}
            /\ r.commitment \in DA!BlobRef \cup {None}
    BY <2>1, <2>2 DEF BlobResult
  <2> QED
    BY <2>1, <2>2, <2>3, <2>4, <2>5, ReportTyped DEF TypeOK, StateOK
<1> QED
  BY Invariance, <1>1, PTL

\* No number is lost or handed out twice, and a tool that was not interrupted
\* has a result of every blob.  The flag -workers is not validated: with 0 the
\* tool starts no worker, sends nothing and prints zeros.
THEOREM NumbersOnce == ConcurrentPuts > 0 => (Spec => []EachBlobOnce)
<1> SUFFICES ASSUME ConcurrentPuts > 0 PROVE Spec => []EachBlobOnce
  OBVIOUS
<1>1. ToolInv => EachBlobOnce
  <2> SUFFICES ASSUME ToolInv PROVE EachBlobOnce
    OBVIOUS
  <2>1. ResultsOK
    BY DEF ToolInv
  <2>2. ASSUME report # None, ~interrupted PROVE {r.blob : r \in results} = Blobs
    <3>1. 1 \in Workers /\ pc[1] = "returned" /\ \A w \in Workers : ~Busy(w)
      BY <2>2, ThroughputAssumption DEF ToolInv, ReportOK, Busy
    <3>2. queue = <<>>
      BY <2>2, <3>1 DEF ToolInv, WorkerOK
    <3>3. Handed = TotalBlobs
      BY <3>2, ThroughputAssumption DEF Handed
    <3> QED
      BY <2>1, <3>1, <3>3 DEF ResultsOK
  <2>3. \A r \in results : \A w \in Workers :
            Working(w) /\ pc[w] # "failed" => task[w].blob # r.blob
    BY <2>1 DEF ResultsOK, Working, Busy
  <2> QED
    BY <2>1, <2>2, <2>3 DEF EachBlobOnce, ResultsOK
<1> QED
  BY Invariance, <1>1, PTL

\* A PUT counted as a success is published where its commitment says.
THEOREM SuccessPublished == Spec => []SuccessIsPublished
<1>1. ToolInv => SuccessIsPublished
  BY DEF ToolInv, ResultsOK, SuccessIsPublished, Succeeded, NotYet, DA!BlobRef, DA!Height
<1> QED
  BY Invariance, <1>1, PTL

\* The tool never sees other data than it put.
THEOREM Matching == Spec => []NoMismatch
<1>1. ToolInv => NoMismatch
  BY DEF ToolInv, ResultsOK, NoMismatch
<1> QED
  BY Invariance, <1>1, PTL

\* The counters agree with the printed results.
THEOREM ReportExact == Spec => []ReportAgrees
<1>1. ToolInv => ReportAgrees
  <2> SUFFICES ASSUME ToolInv, report # None
               PROVE  /\ counters.putsStarted = counters.putsCompleted
                      /\ counters.putsCompleted = report.PutSuccess + report.PutFailed
                      /\ counters.putsFailed = report.PutFailed
                      /\ counters.getsSuccess = report.GetSuccess
                      /\ counters.getsFailed = report.GetFailed
    BY DEF ReportAgrees
  <2>1. /\ report = AggregateResults(results) /\ \A w \in Workers : pc[w] = "returned"
        /\ ResultsOK
    BY DEF ToolInv, ReportOK
  <2>2. Tally /\ \A c \in CounterNames : counters[c] \in Nat
    BY CountersTally DEF ToolInv, StateOK
  <2>3. ASSUME NEW pcs \in SUBSET {"put", "failed", "get", "add"} PROVE WorkersAt(pcs) = 0
    <3>1. {w \in Workers : pc[w] \in pcs} = {}
      BY <2>1
    <3> QED
      BY <3>1, FS_EmptySet DEF WorkersAt
  <2>4. /\ WorkersAt({"put", "failed"}) = 0 /\ WorkersAt({"failed"}) = 0
        /\ WorkersAt({"get", "add"}) = 0
    BY <2>3
  <2>5. Cardinality(Readers) = 0 /\ Cardinality(Missers) = 0
    <3>1. Readers = {} /\ Missers = {}
      BY <2>1 DEF Readers, Missers
    <3> QED
      BY <3>1, FS_EmptySet
  <2>6. /\ report.PutSuccess = Cardinality(PutsDone)
        /\ report.PutFailed = Cardinality(PutsLost)
        /\ report.GetSuccess = Cardinality(GetsDone)
    BY <2>1 DEF AggregateResults, PutsDone, PutsLost, GetsDone
  <2>7. report.GetFailed = IF VerifyAfterPut THEN Cardinality(GetsLost) ELSE 0
    <3>1. report.GetFailed =
              Cardinality({r \in results : ~r.GetSuccess /\ r.PutSuccess /\ VerifyAfterPut})
      BY <2>1 DEF AggregateResults
    <3>2. CASE VerifyAfterPut
      <4>1. {r \in results : ~r.GetSuccess /\ r.PutSuccess /\ VerifyAfterPut} = GetsLost
        BY <3>2 DEF GetsLost
      <4> QED
        BY <3>1, <3>2, <4>1
    <3>3. CASE ~VerifyAfterPut
      <4>1. {r \in results : ~r.GetSuccess /\ r.PutSuccess /\ VerifyAfterPut} = {}
        BY <3>3
      <4> QED
        BY <3>1, <3>3, <4>1, FS_EmptySet
    <3> QED
      BY <3>2, <3>3
  <2>8. /\ Cardinality(PutsDone) \in Nat /\ Cardinality(PutsLost) \in Nat
        /\ Cardinality(GetsDone) \in Nat /\ Cardinality(GetsLost) \in Nat
    BY <2>1, ResultCardinalities
  <2> QED
    BY <2>2, <2>4, <2>5, <2>6, <2>7, <2>8 DEF Tally, CounterNames
<1> QED
  BY Invariance, <1>1, PTL
=============================================================================
