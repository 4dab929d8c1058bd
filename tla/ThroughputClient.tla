--------------------------- MODULE ThroughputClient ---------------------------
(***************************************************************************)
(* The throughput tool of tests/manual/throughput against the DA service.  *)
(* Workers take blob numbers from a closed channel, PUT a random blob, GET *)
(* it back under the commitment they were given and compare; main prints   *)
(* the results when the last worker has returned.  The service is          *)
(* DAService, what CelestiaServer is shown to implement: the tool relies   *)
(* on its promises and on nothing else.  An interrupt cancels requests and *)
(* workers; a request the tool gives up goes on in the service.            *)
(***************************************************************************)
EXTENDS Integers, FiniteSets, SequencesExt

CONSTANTS
    TotalBlobs, ConcurrentPuts, VerifyAfterPut,     \* struct Config
    Data, Commitments, ShareCommitment, MaxHeight, BucketTrusted, None

Workers == 1..ConcurrentPuts
Blobs   == 1..TotalBlobs
Request == Blobs \X {"put", "get"}

ASSUME ThroughputAssumption ==
    /\ {TotalBlobs, ConcurrentPuts, MaxHeight} \subseteq Nat
    /\ VerifyAfterPut \in BOOLEAN
    /\ ShareCommitment \in [Data -> Commitments] /\ None \notin Data
    /\ \A c, d \in Data : ShareCommitment[c] = ShareCommitment[d] => c = d

VARIABLES
    blob, ref, published, height, status, body,     \* the service
    queue,          \* blobChan
    interrupted,    \* ctx is done
    started,        \* workers main has started
    pc,             \* where each worker is
    task,           \* the BlobResult each worker fills, with the blob's data
    results,        \* ResultsCollector.results
    counters,       \* its atomic counters
    report          \* what main printed, None before

DA == INSTANCE DAService WITH Req <- Request

\* What main prints.
Report == [PutSuccess : Nat, PutFailed : Nat, GetSuccess : Nat, GetFailed : Nat]

ASSUME NoneAssumption == None \notin DA!BlobRef

daVars == <<blob, ref, published, height, status, body>>
vars   == <<daVars, queue, interrupted, started, pc, task, results, counters, report>>

NoTask == [blob |-> 0, data |-> None, commitment |-> None,
           PutSuccess |-> FALSE, GetSuccess |-> FALSE, mismatch |-> FALSE]

Init ==
    /\ DA!Init
    /\ queue = [n \in Blobs |-> n]
    /\ interrupted = FALSE /\ started = 0
    /\ pc       = [w \in Workers |-> "none"]
    /\ task     = [w \in Workers |-> NoTask]
    /\ results  = {}
    /\ counters = [putsStarted |-> 0, putsCompleted |-> 0, putsFailed |-> 0,
                   getsSuccess |-> 0, getsFailed |-> 0]
    /\ report   = None

PutOf(w) == <<task[w].blob, "put">>
GetOf(w) == <<task[w].blob, "get">>

Go(w, to) == pc' = [pc EXCEPT ![w] = to]

\* atomic.AddInt64 on some of the counters.
Increment(names) ==
    counters' = [c \in DOMAIN counters |->
                     counters[c] + IF c \in names THEN 1 ELSE 0]

Add(w) == results' = results \cup {task'[w]}
-----------------------------------------------------------------------------
\* An interrupt, or SIGTERM.
Interrupt ==
    /\ ~interrupted /\ report = None
    /\ interrupted' = TRUE
    /\ UNCHANGED <<daVars, queue, started, pc, task, results, counters, report>>

\* Main starts the next worker.  An interrupt cuts the pause between two
\* starts short but, the break being the select's, not the loop.
StartWorker ==
    /\ started < ConcurrentPuts
    /\ started' = started + 1
    /\ Go(started + 1, "select")
    /\ UNCHANGED <<daVars, queue, interrupted, task, results, counters, report>>

\* The channel is closed and empty, or the context is done; with both ready
\* select takes either.
Return(w) ==
    /\ pc[w] = "select"
    /\ interrupted \/ queue = <<>>
    /\ Go(w, "returned")
    /\ UNCHANGED <<daVars, queue, interrupted, started, task, results, counters, report>>

\* Mutant: the number is read and removed in two steps.
TakePeek(w) ==
    /\ pc[w] = "select"
    /\ queue # <<>>
    /\ queue' \in {queue, Tail(queue)}
    /\ \E d \in Data :
           /\ task' = [task EXCEPT ![w] = [NoTask EXCEPT !.blob = Head(queue), !.data = d]]
           /\ DA!Put(<<Head(queue), "put">>, d) \/ UNCHANGED daVars
    /\ Increment({"putsStarted"})
    /\ Go(w, "put")
    /\ UNCHANGED <<interrupted, started, results, report>>

\* A worker takes a blob and sends the PUT, unless the service cannot be
\* reached or the context is done.
Take(w) ==
    /\ pc[w] = "select"
    /\ queue # <<>>
    /\ queue' = Tail(queue)
    /\ \E d \in Data :
           /\ task' = [task EXCEPT ![w] = [NoTask EXCEPT !.blob = Head(queue), !.data = d]]
           /\ \/ ~interrupted /\ DA!Put(<<Head(queue), "put">>, d)
              \/ UNCHANGED daVars
    /\ Increment({"putsStarted"})
    /\ Go(w, "put")
    /\ UNCHANGED <<interrupted, started, results, report>>

\* Mutant: the status code is not looked at.
PutUnchecked(w) ==
    /\ pc[w] = "put"
    /\ status[PutOf(w)] # "none"
    /\ task' = [task EXCEPT ![w].PutSuccess = TRUE, ![w].commitment = body[PutOf(w)]]
    /\ Increment({"putsCompleted"})
    /\ Go(w, "add")
    /\ UNCHANGED <<daVars, queue, interrupted, started, results, report>>

\* Mutant: the workers share the buffer the answer is read into.
PutShared(w) ==
    /\ pc[w] = "put"
    /\ \E v \in Workers :
           /\ pc[v] \in {"put", "get", "add"} /\ status[PutOf(v)] = "ok"
           /\ task' = [task EXCEPT ![w].PutSuccess = TRUE,
                                  ![w].commitment = body[PutOf(v)]]
           /\ Increment({"putsCompleted"})
           /\ Go(w, "get") /\ DA!Get(GetOf(w), body[PutOf(v)])
    /\ UNCHANGED <<queue, interrupted, started, results, report>>

\* 200 with a commitment: the PUT counts as completed, and the GET is sent.
PutAnswered(w) ==
    /\ pc[w] = "put"
    /\ status[PutOf(w)] = "ok"
    /\ task' = [task EXCEPT ![w].PutSuccess = TRUE, ![w].commitment = body[PutOf(w)]]
    /\ Increment({"putsCompleted"})
    /\ IF VerifyAfterPut
       THEN /\ Go(w, "get")
            /\ \/ ~interrupted /\ DA!Get(GetOf(w), body[PutOf(w)])
               \/ UNCHANGED daVars
       ELSE Go(w, "add") /\ UNCHANGED daVars
    /\ UNCHANGED <<queue, interrupted, started, results, report>>

\* Any other status, the HTTP timeout, an interrupt, a broken connection: the
\* result is added as it is, and only then counted.
PutError(w) ==
    /\ pc[w] = "put"
    /\ task' = task
    /\ Add(w)
    /\ Go(w, "failed")
    /\ UNCHANGED <<daVars, queue, interrupted, started, counters, report>>

CountFailed(w) ==
    /\ pc[w] = "failed"
    /\ Increment({"putsCompleted", "putsFailed"})
    /\ Go(w, "select")
    /\ UNCHANGED <<daVars, queue, interrupted, started, task, results, report>>

\* Mutant: the comparison is printed and not counted.
GetUncounted(w) ==
    /\ pc[w] = "get"
    /\ status[GetOf(w)] = "ok"
    /\ LET same == body[GetOf(w)] = task[w].data
       IN task' = [task EXCEPT ![w].GetSuccess = same, ![w].mismatch = ~same]
    /\ UNCHANGED counters
    /\ Go(w, "add")
    /\ UNCHANGED <<daVars, queue, interrupted, started, results, report>>

\* 200 with data, the blob's or other.
GetAnswered(w) ==
    /\ pc[w] = "get"
    /\ status[GetOf(w)] = "ok"
    /\ LET same == body[GetOf(w)] = task[w].data
       IN /\ task' = [task EXCEPT ![w].GetSuccess = same, ![w].mismatch = ~same]
          /\ Increment(IF same THEN {"getsSuccess"} ELSE {"getsFailed"})
    /\ Go(w, "add")
    /\ UNCHANGED <<daVars, queue, interrupted, started, results, report>>

GetError(w) ==
    /\ pc[w] = "get"
    /\ Increment({"getsFailed"})
    /\ Go(w, "add")
    /\ UNCHANGED <<daVars, queue, interrupted, started, task, results, report>>

AddResult(w) ==
    /\ pc[w] = "add"
    /\ task' = task
    /\ Add(w)
    /\ Go(w, "select")
    /\ UNCHANGED <<daVars, queue, interrupted, started, counters, report>>

\* The counts main prints.
AggregateResults(blobResults) ==
    LET count(Test(_)) == Cardinality({r \in blobResults : Test(r)})
    IN [PutSuccess |-> count(LAMBDA r : r.PutSuccess),
        PutFailed  |-> count(LAMBDA r : ~r.PutSuccess),
        GetSuccess |-> count(LAMBDA r : r.GetSuccess),
        GetFailed  |-> count(LAMBDA r : /\ ~r.GetSuccess
                                        /\ r.PutSuccess /\ VerifyAfterPut)]

\* Mutant: main waits for a result of every blob.
PrintWhenAllDone ==
    /\ started = ConcurrentPuts /\ report = None
    /\ Cardinality(results) = TotalBlobs
    /\ report' = AggregateResults(results)
    /\ UNCHANGED <<daVars, queue, interrupted, started, pc, task, results, counters>>

\* wg.Wait returns, and main prints.
PrintResults ==
    /\ started = ConcurrentPuts /\ report = None
    /\ \A w \in Workers : pc[w] = "returned"
    /\ report' = AggregateResults(results)
    /\ UNCHANGED <<daVars, queue, interrupted, started, pc, task, results, counters>>

\* The service takes a step; MaxHeight bounds the blocks.
Service ==
    /\ \/ height < MaxHeight /\ DA!Publish
       \/ \E r \in Request :
              \/ DA!Confirm(r)
              \/ \E d \in Data : DA!Serve(r, d)
              \/ ~DA!Fresh(r) /\ DA!Fail({r})
    /\ UNCHANGED <<queue, interrupted, started, pc, task, results, counters, report>>

Step(w) ==
    \/ Return(w) \/ Take(w)
    \/ PutAnswered(w) \/ PutError(w) \/ CountFailed(w)
    \/ GetAnswered(w) \/ GetError(w) \/ AddResult(w)

Next == Interrupt \/ StartWorker \/ PrintResults \/ Service \/ \E w \in Workers : Step(w)

\* Goroutines run, and the HTTP timeout ends every request.
Fairness ==
    /\ WF_vars(StartWorker) /\ WF_vars(PrintResults)
    /\ \A w \in Workers : WF_vars(Step(w))

Spec == Init /\ [][Next]_vars /\ Fairness
-----------------------------------------------------------------------------
(***************************************************************************)
(* Properties.                                                             *)
(***************************************************************************)

Working(w) == pc[w] \in {"put", "failed", "get", "add"}

\* A blob has a commitment if its PUT succeeded, and is read only then.
Coherent(r) ==
    /\ r.PutSuccess <=> r.commitment # None
    /\ r.GetSuccess => r.PutSuccess

\* The type invariant of the tool.
TypeOK ==
    /\ queue \in Seq(Blobs) /\ started \in 0..ConcurrentPuts
    /\ interrupted \in BOOLEAN
    /\ pc \in [Workers -> {"none", "select", "put", "failed", "get", "add", "returned"}]
    /\ \A r \in Range(task) \cup results :
           /\ r.blob \in Blobs \cup {0} /\ r.data \in Data \cup {None}
           /\ r.commitment \in DA!BlobRef \cup {None}
           /\ Coherent(r)
    /\ report \in Report \cup {None}
    /\ \A c \in DOMAIN counters : counters[c] \in Nat

\* Every blob number is handed to one worker and yields one result, and when
\* the tool was not interrupted the results are those of all blobs.
EachBlobOnce ==
    /\ \A v, w \in Workers : v # w /\ Working(v) /\ Working(w) => task[v].blob # task[w].blob
    /\ \A r, s \in results : r.blob = s.blob => r = s
    /\ \A r \in results : \A w \in Workers :
           Working(w) /\ pc[w] # "failed" => task[w].blob # r.blob
    /\ report # None /\ ~interrupted => {r.blob : r \in results} = Blobs

\* A PUT the tool counts as a success is published, its own blob, at the
\* height its commitment names, however late the answer and whatever the
\* other workers do.
SuccessIsPublished ==
    \A r \in results : r.PutSuccess =>
        /\ r.commitment.height > 0
        /\ published[<<r.blob, "put">>] = r.commitment.height
        /\ r.commitment.commitment = ShareCommitment[r.data]

\* The tool never sees a data mismatch: the service serves what was put.
NoMismatch == \A r \in results : ~r.mismatch

\* The counters of the progress line, each updated on its own and before or
\* after the result is added, agree with the printed results in the end.
ReportAgrees ==
    report # None =>
        /\ counters.putsStarted = counters.putsCompleted
        /\ counters.putsCompleted = report.PutSuccess + report.PutFailed
        /\ counters.putsFailed = report.PutFailed
        /\ counters.getsSuccess = report.GetSuccess
        /\ counters.getsFailed = report.GetFailed

\* The tool ends, interrupted or not, whether or not the service answers.
ToolEnds == <>(report # None)
-----------------------------------------------------------------------------
(***************************************************************************)
(* The inductive invariant of the safety properties.                       *)
(***************************************************************************)

\* struct BlobResult.
BlobResult ==
    [blob : Blobs \cup {0}, data : Data \cup {None}, commitment : DA!BlobRef \cup {None},
     PutSuccess : BOOLEAN, GetSuccess : BOOLEAN, mismatch : BOOLEAN]

\* The blobs 1..Handed were taken from the channel, in this order.
Handed == TotalBlobs - Len(queue)

\* What the service keeps, of PUTs and of GETs.
ServiceOK ==
    /\ height \in 0..MaxHeight
    /\ blob \in [Request -> Data \cup {None}] /\ ref \in [Request -> DA!BlobRef \cup {None}]
    /\ published \in [Request -> 0..height]
    /\ status \in [Request -> {"none", "failed", "ok"}]
    /\ body \in [Request -> Data \cup DA!BlobRef \cup {None}]
    /\ \A b \in Blobs :
           /\ ref[<<b, "put">>] = None /\ blob[<<b, "get">>] = None
           /\ status[<<b, "put">>] = "ok" =>
                  /\ blob[<<b, "put">>] # None /\ published[<<b, "put">>] # 0
                  /\ body[<<b, "put">>] =
                         [height     |-> published[<<b, "put">>],
                          commitment |-> ShareCommitment[blob[<<b, "put">>]]]
           /\ status[<<b, "get">>] = "ok" =>
                  /\ ref[<<b, "get">>] # None /\ body[<<b, "get">>] \in Data
                  /\ ShareCommitment[body[<<b, "get">>]] = ref[<<b, "get">>].commitment

\* A number still in the channel was never sent to the service.
QueueOK ==
    /\ queue \in Seq(Blobs) /\ Len(queue) <= TotalBlobs
    /\ \A i \in 1..Len(queue) : queue[i] = Handed + i
    /\ \A b \in Blobs : b > Handed => blob[<<b, "put">>] = None /\ ref[<<b, "get">>] = None

\* The commitment of r names r's blob where it is published.
Succeeded(r) ==
    /\ r.PutSuccess /\ r.commitment \in DA!BlobRef
    /\ published[<<r.blob, "put">>] = r.commitment.height
    /\ r.commitment.commitment = ShareCommitment[r.data]

NotYet(r) == r.commitment = None /\ ~r.PutSuccess /\ ~r.GetSuccess

WorkerOK(w) ==
    /\ pc[w] = "none" <=> w > started
    /\ Working(w) =>
           /\ task[w].blob \in 1..Handed /\ task[w].data \in Data /\ ~task[w].mismatch
           /\ blob[PutOf(w)] \in {None, task[w].data}
    /\ pc[w] \in {"put", "failed"} => NotYet(task[w])
    /\ pc[w] = "put" => ref[GetOf(w)] = None
    /\ pc[w] \in {"get", "add"} => Succeeded(task[w])
    /\ pc[w] = "get" =>
           /\ VerifyAfterPut /\ ~task[w].GetSuccess
           /\ ref[GetOf(w)] \in {None, task[w].commitment}
    /\ pc[w] = "add" /\ ~VerifyAfterPut => ~task[w].GetSuccess
    /\ pc[w] = "returned" => interrupted \/ queue = <<>>

\* A worker whose blob has no result yet.
Busy(w) == pc[w] \in {"put", "get", "add"}

ResultsOK ==
    /\ results \subseteq BlobResult /\ IsFiniteSet(results)
    /\ \A r \in results : r.blob \in 1..Handed /\ ~r.mismatch /\ (Succeeded(r) \/ NotYet(r))
    /\ \A b \in 1..Handed :
           (\E r \in results : r.blob = b) \/ (\E w \in Workers : Busy(w) /\ task[w].blob = b)
    /\ \A r, s \in results : r.blob = s.blob => r = s
    /\ \A v, w \in Workers : v # w /\ Working(v) /\ Working(w) => task[v].blob # task[w].blob
    /\ \A r \in results, w \in Workers : Busy(w) => task[w].blob # r.blob

WorkersAt(pcs) == Cardinality({w \in Workers : pc[w] \in pcs})

\* Each counter is behind or ahead of the results by the workers that are
\* between the two updates.
CountersOK ==
    /\ counters.putsStarted = counters.putsCompleted + WorkersAt({"put", "failed"})
    /\ counters.putsFailed + WorkersAt({"failed"}) = Cardinality({r \in results : ~r.PutSuccess})
    /\ counters.putsCompleted = counters.putsFailed + WorkersAt({"get", "add"})
                                   + Cardinality({r \in results : r.PutSuccess})
    /\ counters.getsSuccess = Cardinality({r \in results : r.GetSuccess})
           + Cardinality({w \in Workers : pc[w] = "add" /\ task[w].GetSuccess})
    /\ counters.getsFailed =
           IF VerifyAfterPut
           THEN Cardinality({r \in results : r.PutSuccess /\ ~r.GetSuccess})
                  + Cardinality({w \in Workers : pc[w] = "add" /\ ~task[w].GetSuccess})
           ELSE 0

\* Main prints when nothing moves any more.
ReportOK ==
    report # None =>
        /\ report = AggregateResults(results)
        /\ started = ConcurrentPuts /\ \A w \in Workers : pc[w] = "returned"

CounterNames == {"putsStarted", "putsCompleted", "putsFailed", "getsSuccess", "getsFailed"}

StateOK ==
    /\ started \in 0..ConcurrentPuts /\ interrupted \in BOOLEAN
    /\ pc \in [Workers -> {"none", "select", "put", "failed", "get", "add", "returned"}]
    /\ task \in [Workers -> BlobResult] /\ \A w \in Workers : Coherent(task[w])
    /\ counters \in [CounterNames -> Nat]

\* Follows each blob number from the channel through worker and service into
\* the results and the counters.
ToolInv ==
    /\ StateOK /\ ServiceOK /\ QueueOK /\ (\A w \in Workers : WorkerOK(w))
    /\ ResultsOK /\ CountersOK /\ ReportOK
=============================================================================
