--------------------------- MODULE CelestiaMetrics ---------------------------
(***************************************************************************)
(* The metrics of metrics/metrics.go on top of CelestiaServer: the steps   *)
(* of handlers and writers are those of the data path, and between them    *)
(* each makes its metric calls, one by one.  Every Prometheus metric is    *)
(* atomic by itself and no two are updated together, so a scrape, or       *)
(* another goroutine, may come between any two calls.                      *)
(***************************************************************************)
EXTENDS CelestiaServer

VARIABLES
    metrics,          \* how often each counter or histogram was updated
    inclusionHeight,  \* the gauge
    counted           \* the metric calls made for each request so far, by its
                      \* handler and its writer: where they are in their calls

metricsVars == <<metrics, inclusionHeight, counted>>
allVars     == <<vars, metricsVars>>

\* Counters, and histograms by their number of observations.
Counters ==
    {"submissionDurations", "submissions", "submissionErrors", "blobSizes",
     "retrievalDurations", "retrievals", "retrievalErrors",
     "fallbackWrites", "fallbackWriteErrors", "putDurations", "getDurations"}

Calls == Counters \cup {"inclusionHeight"}

NothingRecorded ==
    /\ metrics' = [c \in Counters |-> 0]
    /\ inclusionHeight' = 0
    /\ counted' = [r \in Req |-> {}]

MetricsInit ==
    /\ Init
    /\ metrics = [c \in Counters |-> 0]
    /\ inclusionHeight = 0
    /\ counted = [r \in Req |-> {}]
-----------------------------------------------------------------------------
(***************************************************************************)
(* The metric calls at each place of the code, in their order.             *)
(***************************************************************************)

\* RecordSubmission, RecordHTTPRequest("put"), SetInclusionHeight.
SubmissionCalls ==
    <<"submissionDurations", "submissions", "blobSizes", "putDurations",
      "inclusionHeight">>

\* RecordSubmissionError, RecordHTTPRequest("put").
SubmissionErrorCalls == <<"submissionErrors", "putDurations">>

\* recordGetSuccess: RecordRetrieval, RecordHTTPRequest("get").
RetrievalCalls == <<"retrievalDurations", "retrievals", "getDurations">>

\* handleGetError: RecordRetrievalError, RecordHTTPRequest("get").
RetrievalErrorCalls == <<"retrievalErrors", "getDurations">>

\* Mutant: the error path of HandlePut leaves out the duration.
HandlerCallsNotOnError(r) ==
    CASE pc[r] = "spawn" -> SubmissionCalls
      [] pc[r] = "reply" -> RetrievalCalls
      [] pc[r] = "failed" /\ op[r] = "put" -> <<"submissionErrors">>
      [] pc[r] = "failed" /\ op[r] = "get" -> RetrievalErrorCalls
      [] pc[r] = "notfound" -> RetrievalErrorCalls
      [] OTHER -> <<>>

\* Mutant: a 404 is no error, and handleGetError does not record it.
HandlerCallsNotOn404(r) ==
    CASE pc[r] = "spawn" -> SubmissionCalls
      [] pc[r] = "reply" -> RetrievalCalls
      [] pc[r] = "failed" /\ op[r] = "put" -> SubmissionErrorCalls
      [] pc[r] = "failed" /\ op[r] = "get" -> RetrievalErrorCalls
      [] OTHER -> <<>>

\* Before a handler spawns the writer of a PUT or writes its answer.
HandlerCalls(r) ==
    CASE pc[r] = "spawn" -> SubmissionCalls
      [] pc[r] = "reply" -> RetrievalCalls
      [] pc[r] = "failed" /\ op[r] = "put" -> SubmissionErrorCalls
      [] pc[r] = "failed" /\ op[r] = "get" -> RetrievalErrorCalls
      [] pc[r] = "notfound" -> RetrievalErrorCalls
      [] OTHER -> <<>>

\* Mutant: a failed write is not counted as a write.
WriterCallsErrorOnly(r) ==
    CASE writer[r] = "success" -> <<"fallbackWrites">>
      [] writer[r] = "error"   -> <<"fallbackWriteErrors">>
      [] OTHER -> <<>>

\* Mutant: Done is not deferred and comes before the calls.
WriterCallsAfterDone(r) ==
    CASE writer[r] = "stored" -> <<"fallbackWrites">>
      [] writer[r] = "failed" -> <<"fallbackWrites", "fallbackWriteErrors">>
      [] OTHER -> <<>>

\* RecordFallbackWrite or RecordFallbackWriteError, before the deferred Done.
WriterCalls(r) ==
    CASE writer[r] = "success" -> <<"fallbackWrites">>
      [] writer[r] = "error"   -> <<"fallbackWrites", "fallbackWriteErrors">>
      [] OTHER -> <<>>

\* All calls are made; each sits behind "if d.metrics != nil".
Made(r, calls) ==
    config.metrics => \A i \in DOMAIN calls : calls[i] \in counted[r]

\* Call c: a counter or histogram counts one more, the gauge is set to the
\* height in the commitment that is about to be returned.
Update(r, c) ==
    \/ /\ c \in Counters
       /\ metrics' = [metrics EXCEPT ![c] = @ + 1]
       /\ UNCHANGED inclusionHeight
    \/ /\ c = "inclusionHeight"
       /\ inclusionHeight' = comm[r].height
       /\ UNCHANGED metrics

\* The first of these calls that is not made yet.
Record(r, calls) ==
    /\ config.metrics
    /\ \E i \in DOMAIN calls :
           /\ calls[i] \notin counted[r]
           /\ \A j \in 1..(i - 1) : calls[j] \in counted[r]
           /\ Update(r, calls[i])
           /\ counted' = [counted EXCEPT ![r] = @ \cup {calls[i]}]
    /\ UNCHANGED vars

HandlerRecords(r) == Record(r, HandlerCalls(r))
WriterRecords(r)  == Record(r, WriterCalls(r))

\* The steps of the data path, each after the calls that precede it.
HandlerGoesOn(r) ==
    Made(r, HandlerCalls(r)) /\ HandlerStep(r) /\ UNCHANGED metricsVars

WriterGoesOn(r) ==
    Made(r, WriterCalls(r)) /\ WriterStep(r) /\ UNCHANGED metricsVars

\* New requests, and what happens outside the process.
OutsideStep ==
    /\ \/ \E r \in Req : Accept(r) \/ Broadcast(r) \/ BucketApply(r)
       \/ NewBlock \/ Terminated
    /\ UNCHANGED metricsVars

\* The metrics die with the process.
CrashStep == Crash /\ NothingRecorded

MetricsNext ==
    \/ \E r \in Req : \/ HandlerRecords(r) \/ WriterRecords(r)
                      \/ HandlerGoesOn(r) \/ WriterGoesOn(r)
    \/ OutsideStep \/ CrashStep

MetricsSpec == MetricsInit /\ [][MetricsNext]_allVars
-----------------------------------------------------------------------------
(***************************************************************************)
(* Properties.                                                             *)
(***************************************************************************)

\* The process records metrics and has not died.
Lives == config.metrics /\ crashes = 0

Started == {r \in Req : writer[r] # "none"}
Failed  == {r \in Req : writer[r] = "failed"}

Answered(o, statuses) == {r \in Req : op[r] = o /\ resp[r] \in statuses}

\* The requests a handler took on: no rejects.
Accepted(o) ==
    {r \in Req : op[r] = o /\ IF o = "put" THEN data[r] # None ELSE comm[r] # None}

\* Whenever a scrape comes, between any two calls of any goroutines: nobody got
\* an answer that is not counted, nothing is counted in the total before it is
\* in the count it sums up, each started write is running or counted, a failed
\* one as an error, too, and the gauge is the height of a PUT that is counted.
CountersAgree ==
    Lives =>
        /\ Cardinality(Answered("put", {"200"})) <= metrics["submissions"]
        /\ Cardinality(Answered("get", {"200"})) <= metrics["retrievals"]
        /\ Cardinality(Answered("get", {"404", "500"})) <= metrics["retrievalErrors"]
        /\ metrics["putDurations"] <= metrics["submissions"] + metrics["submissionErrors"]
        /\ metrics["getDurations"] <= metrics["retrievals"] + metrics["retrievalErrors"]
        /\ metrics["blobSizes"] <= metrics["submissions"]
        /\ metrics["submissions"] <= metrics["submissionDurations"]
        /\ Cardinality(Started) <= metrics["fallbackWrites"] + wg
        /\ metrics["fallbackWrites"] <= Cardinality(Started)
        /\ Cardinality(Failed) <= metrics["fallbackWriteErrors"]
        /\ metrics["fallbackWriteErrors"] <= metrics["fallbackWrites"]
        /\ inclusionHeight # 0 =>
               \E r \in Req : /\ op[r] = "put" /\ included[r] = inclusionHeight
                              /\ "submissions" \in counted[r]

\* Once wg.Wait could return, every write is in the counters: Done is deferred
\* and comes after the calls of the writer.
WritesCounted ==
    Lives /\ wg = 0 =>
        /\ metrics["fallbackWrites"] = Cardinality(Started)
        /\ metrics["fallbackWriteErrors"] = Cardinality(Failed)

\* No handler is running.
Quiet == \A r \in Req : pc[r] \in {"idle", "done"}

\* When no handler runs the counters of requests add up: every accepted GET has
\* its duration and is a retrieval or an error; so is every accepted PUT, unless
\* it fetched its blob back and panicked; and after a PUT the gauge is set.
RequestsCounted ==
    Lives /\ Quiet =>
        /\ metrics["putDurations"] = metrics["submissions"] + metrics["submissionErrors"]
        /\ metrics["putDurations"] <= Cardinality(Accepted("put"))
        /\ config.compact => metrics["putDurations"] = Cardinality(Accepted("put"))
        /\ metrics["getDurations"] = metrics["retrievals"] + metrics["retrievalErrors"]
        /\ metrics["getDurations"] = Cardinality(Accepted("get"))
        /\ metrics["submissions"] = metrics["blobSizes"]
        /\ metrics["submissions"] = metrics["submissionDurations"]
        /\ metrics["retrievals"] = metrics["retrievalDurations"]
        /\ metrics["submissions"] # 0 => inclusionHeight # 0

(***************************************************************************)
(* The inductive invariant behind them: each counter is the number of      *)
(* requests it was called for, and where a request's handler and writer    *)
(* are tells which calls were made for it.                                 *)
(***************************************************************************)
MetricsTypeOK ==
    /\ metrics \in [Counters -> Nat]
    /\ inclusionHeight \in 0..MaxHeight
    /\ counted \in [Req -> SUBSET Calls]

\* The requests call c was made for.
CountedFor(c) == {r \in Req : c \in counted[r]}

CountsRequests == \A c \in Counters : metrics[c] = Cardinality(CountedFor(c))

All(calls) == {calls[i] : i \in DOMAIN calls}

\* Some first few of the calls are made, no other.
InOrder(calls, made) ==
    /\ made \subseteq All(calls)
    /\ \A i, j \in DOMAIN calls : j < i /\ calls[i] \in made => calls[j] \in made

OfWriters == {"fallbackWrites", "fallbackWriteErrors"}

HandlerCounted(r) ==
    LET made == counted[r] \ OfWriters
    IN  /\ pc[r] \notin {"respond", "done"} => InOrder(HandlerCalls(r), made)
        /\ pc[r] = "respond" => made = All(SubmissionCalls)
        /\ pc[r] = "done" /\ op[r] = "put" =>
               /\ made \in {{}, All(SubmissionCalls), All(SubmissionErrorCalls)}
               /\ resp[r] = "200" => made = All(SubmissionCalls)
               /\ data[r] = None => made = {}
               /\ made = {} /\ config.compact => data[r] = None
        /\ pc[r] = "done" /\ op[r] = "get" =>
               /\ made \in {{}, All(RetrievalCalls), All(RetrievalErrorCalls)}
               /\ resp[r] = "200" => made = All(RetrievalCalls)
               /\ resp[r] \in {"404", "500"} => made = All(RetrievalErrorCalls)
               /\ made = {} <=> comm[r] = None

WriterCounted(r) ==
    LET made == counted[r] \cap OfWriters
    IN  /\ writer[r] # "killed"
        /\ writer[r] \in {"none", "running", "success", "error"} =>
               InOrder(WriterCalls(r), made)
        /\ writer[r] = "stored" => made = {"fallbackWrites"}
        /\ writer[r] = "failed" => made = OfWriters

\* The gauge holds a height some PUT was told, and is set by the last call.
GaugeSet ==
    /\ inclusionHeight # 0 =>
           \E r \in Req : /\ op[r] = "put" /\ included[r] = inclusionHeight
                          /\ "submissions" \in counted[r]
    /\ inclusionHeight = 0 => CountedFor("inclusionHeight") = {}

MetricsInv ==
    /\ MetricsTypeOK
    /\ CountsRequests
    /\ Lives => /\ \A r \in Req : HandlerCounted(r) /\ WriterCounted(r)
                /\ GaugeSet

(***************************************************************************)
(* What a comment says and the code does not do; refuted by a run.         *)
(***************************************************************************)

\* metrics.go, "Latest Celestia inclusion height": while the process lives the
\* gauge does not go back.
InclusionHeightMonotone ==
    [][crashes' = crashes => inclusionHeight' >= inclusionHeight]_allVars
=============================================================================
