------------------------ MODULE CelestiaMetricsProofs ------------------------
(***************************************************************************)
(* CountersAgree, WritesCounted and RequestsCounted hold of                *)
(* CelestiaMetrics, for any finite set of requests and any configuration.  *)
(* MetricsInv says which calls were made for a request, given where its    *)
(* handler and writer are; it is preserved request by request, and only    *)
(* the last step from it to the three properties counts.                   *)
(***************************************************************************)
EXTENDS CelestiaMetrics, CelestiaServerProofs

USE DEF Height, Tail, GoodKey, Key, PutPcs, GetPcs, Pcs, Rejects, Status,
        requestVars, chainVars, writerVars, processVars

-----------------------------------------------------------------------------
(***************************************************************************)
(* Recording leaves the data path alone.                                   *)
(***************************************************************************)

\* A step that records changes nothing else, any other is one of Next.
LEMMA RecordingIsInvisible == [MetricsNext]_allVars => [Next]_vars
BY DEF MetricsNext, allVars, HandlerRecords, WriterRecords, Record, HandlerGoesOn,
   WriterGoesOn, OutsideStep, CrashStep, Next

\* So the invariant of the data path holds with metrics, too.
LEMMA ServerInvariance == MetricsSpec => []ServerInv
<1>1. MetricsInit => ServerInv
  BY InitInv DEF MetricsInit
<1>2. ServerInv /\ [MetricsNext]_allVars => ServerInv'
  BY RecordingIsInvisible, TypeStep, RequestStep, StoreStep, ServedStep, CountStep
     DEF ServerInv
<1> QED
  BY <1>1, <1>2, PTL DEF MetricsSpec

-----------------------------------------------------------------------------
(***************************************************************************)
(* Sequences of calls.                                                     *)
(***************************************************************************)

\* A sequence of different calls from S.
DistinctIn(calls, S) ==
    \E n \in Nat : /\ DOMAIN calls = 1..n
                   /\ \A i \in 1..n : calls[i] \in S
                   /\ \A i, j \in 1..n : calls[i] = calls[j] => i = j

OfHandlers == Calls \ OfWriters

\* No call is made twice at one place, and handlers and writers share none.
LEMMA CallsAreDistinct ==
  ASSUME NEW r \in Req
  PROVE  DistinctIn(HandlerCalls(r), OfHandlers) /\ DistinctIn(WriterCalls(r), OfWriters)
<1> USE DEF Calls, Counters, OfWriters, OfHandlers
<1>1. DistinctIn(SubmissionCalls, OfHandlers)
  <2>1. DOMAIN SubmissionCalls = 1..5 /\ 5 \in Nat
    BY DEF SubmissionCalls
  <2>2. \A i \in 1..5 : SubmissionCalls[i] \in OfHandlers
    BY DEF SubmissionCalls
  <2>3. \A i, j \in 1..5 : SubmissionCalls[i] = SubmissionCalls[j] => i = j
    BY DEF SubmissionCalls
  <2> HIDE DEF OfHandlers
  <2> QED
    BY <2>1, <2>2, <2>3 DEF DistinctIn
<1>2. DistinctIn(SubmissionErrorCalls, OfHandlers)
  <2>1. DOMAIN SubmissionErrorCalls = 1..2 /\ 2 \in Nat
    BY DEF SubmissionErrorCalls
  <2> QED
    BY <2>1 DEF SubmissionErrorCalls, DistinctIn
<1>3. DistinctIn(RetrievalCalls, OfHandlers)
  <2>1. DOMAIN RetrievalCalls = 1..3 /\ 3 \in Nat
    BY DEF RetrievalCalls
  <2> QED
    BY <2>1 DEF RetrievalCalls, DistinctIn
<1>4. DistinctIn(RetrievalErrorCalls, OfHandlers)
  <2>1. DOMAIN RetrievalErrorCalls = 1..2 /\ 2 \in Nat
    BY DEF RetrievalErrorCalls
  <2> QED
    BY <2>1 DEF RetrievalErrorCalls, DistinctIn
<1>5. ASSUME NEW S PROVE DistinctIn(<<>>, S)
  <2>1. DOMAIN <<>> = 1..0 /\ 0 \in Nat
    OBVIOUS
  <2> QED
    BY <2>1 DEF DistinctIn
<1>6. DistinctIn(<<"fallbackWrites">>, OfWriters)
  <2>1. DOMAIN <<"fallbackWrites">> = 1..1 /\ 1 \in Nat
    OBVIOUS
  <2> QED
    BY <2>1 DEF DistinctIn
<1>7. DistinctIn(<<"fallbackWrites", "fallbackWriteErrors">>, OfWriters)
  <2>1. DOMAIN <<"fallbackWrites", "fallbackWriteErrors">> = 1..2 /\ 2 \in Nat
    OBVIOUS
  <2> QED
    BY <2>1 DEF DistinctIn
<1> HIDE DEF OfHandlers, OfWriters
<1>8. DistinctIn(HandlerCalls(r), OfHandlers)
  BY <1>1, <1>2, <1>3, <1>4, <1>5 DEF HandlerCalls
<1>9. DistinctIn(WriterCalls(r), OfWriters)
  BY <1>5, <1>6, <1>7 DEF WriterCalls
<1> QED
  BY <1>8, <1>9

\* Where nothing was called yet, the calls are in order.
LEMMA NothingInOrder == \A calls : InOrder(calls, {})
BY DEF InOrder

\* Where there is nothing to call, nothing was called.
LEMMA InOrderOfNone == \A made : InOrder(<<>>, made) => made = {}
BY DEF InOrder, All

\* The next call keeps the order.
LEMMA NextInOrder ==
  ASSUME NEW calls, NEW S, DistinctIn(calls, S), NEW made, InOrder(calls, made),
         NEW i \in DOMAIN calls, \A j \in 1..(i - 1) : calls[j] \in made
  PROVE  InOrder(calls, made \cup {calls[i]})
<1>1. PICK n \in Nat : DOMAIN calls = 1..n
                       /\ \A k, j \in 1..n : calls[k] = calls[j] => k = j
  BY DEF DistinctIn
<1>2. made \cup {calls[i]} \subseteq All(calls)
  BY DEF InOrder, All
<1>3. ASSUME NEW k \in 1..n, NEW j \in 1..n, j < k, calls[k] \in made \cup {calls[i]}
      PROVE  calls[j] \in made
  BY <1>1, <1>3 DEF InOrder
<1> QED
  BY <1>1, <1>2, <1>3 DEF InOrder

\* When all are made, these are the calls made.
LEMMA MadeAll ==
  ASSUME NEW calls, NEW made, InOrder(calls, made),
         \A i \in DOMAIN calls : calls[i] \in made
  PROVE  made = All(calls)
BY DEF InOrder, All

-----------------------------------------------------------------------------
(***************************************************************************)
(* Types, and what a recording step does.                                  *)
(***************************************************************************)

\* The steps of MetricsNext that are not recording.
DataStep ==
    \/ \E r \in Req : HandlerGoesOn(r) \/ WriterGoesOn(r)
    \/ OutsideStep

\* Only a handler that has its commitment sets the gauge, to its height.
LEMMA GaugeHeight ==
  ASSUME ServerInv, NEW r \in Req, NEW i \in DOMAIN HandlerCalls(r),
         HandlerCalls(r)[i] = "inclusionHeight"
  PROVE  pc[r] = "spawn" /\ i = 5
<1> USE DEF SubmissionCalls, SubmissionErrorCalls, RetrievalCalls, RetrievalErrorCalls
<1>1. CASE pc[r] = "spawn"
  <2>1. HandlerCalls(r) = SubmissionCalls
    BY <1>1 DEF HandlerCalls
  <2>2. i \in 1..5
    BY <2>1
  <2> QED
    BY <1>1, <2>1, <2>2
<1>2. CASE pc[r] # "spawn"
  <2>1. HandlerCalls(r) \in {RetrievalCalls, SubmissionErrorCalls, RetrievalErrorCalls, <<>>}
    BY <1>2 DEF HandlerCalls
  <2>2. \A calls \in {RetrievalCalls, SubmissionErrorCalls, RetrievalErrorCalls, <<>>} :
            \A k \in DOMAIN calls : calls[k] # "inclusionHeight"
    OBVIOUS
  <2> QED
    BY <2>1, <2>2
<1> QED
  BY <1>1, <1>2

\* A PUT past its submission has its block.
LEMMA SpawnHeight ==
  ASSUME ServerInv, NEW r \in Req, pc[r] = "spawn"
  PROVE  /\ op[r] = "put" /\ comm[r].height = included[r]
         /\ comm[r].height \in 1..MaxHeight
BY DEF ServerInv, RequestOK, Located, Matches

\* A recording step makes one call that was not made, after those before it.
LEMMA RecordStep ==
  ASSUME ServerInv, MetricsTypeOK, NEW r \in Req, NEW calls, NEW S,
         DistinctIn(calls, S), S \subseteq Calls, Record(r, calls)
  PROVE  \E i \in DOMAIN calls :
             /\ calls[i] \in S /\ calls[i] \notin counted[r]
             /\ \A j \in 1..(i - 1) : calls[j] \in counted[r]
             /\ counted'[r] = counted[r] \cup {calls[i]}
             /\ \A q \in Req \ {r} : counted'[q] = counted[q]
             /\ counted' \in [Req -> SUBSET Calls]
             /\ Update(r, calls[i])
BY DEF Record, DistinctIn, MetricsTypeOK

LEMMA UpdateTypes ==
  ASSUME ServerInv, MetricsTypeOK, NEW r \in Req, NEW c, Update(r, c),
         c = "inclusionHeight" => comm[r].height \in 1..MaxHeight
  PROVE  /\ metrics' \in [Counters -> Nat]
         /\ inclusionHeight' \in 0..MaxHeight
BY ConstantsAssumption DEF MetricsTypeOK, Update, Counters

\* The calls of writers do not set the gauge.
LEMMA WriterSetsNoGauge == "inclusionHeight" \notin OfWriters /\ OfWriters \subseteq Calls
BY DEF OfWriters, Calls, Counters

LEMMA MetricsTypeStep ==
  ASSUME ServerInv, MetricsTypeOK, [MetricsNext]_allVars
  PROVE  MetricsTypeOK'
<1>1. ASSUME NEW r \in Req, HandlerRecords(r) PROVE MetricsTypeOK'
  <2>1. PICK i \in DOMAIN HandlerCalls(r) :
            Update(r, HandlerCalls(r)[i]) /\ counted' \in [Req -> SUBSET Calls]
    BY <1>1, CallsAreDistinct, RecordStep DEF HandlerRecords, OfHandlers
  <2>2. HandlerCalls(r)[i] = "inclusionHeight" => comm[r].height \in 1..MaxHeight
    BY GaugeHeight, SpawnHeight
  <2> QED
    BY <2>1, <2>2, UpdateTypes DEF MetricsTypeOK
<1>2. ASSUME NEW r \in Req, WriterRecords(r) PROVE MetricsTypeOK'
  <2>1. PICK i \in DOMAIN WriterCalls(r) : /\ WriterCalls(r)[i] \in OfWriters
                                           /\ Update(r, WriterCalls(r)[i])
                                           /\ counted' \in [Req -> SUBSET Calls]
    BY <1>2, CallsAreDistinct, RecordStep, WriterSetsNoGauge DEF WriterRecords
  <2> QED
    BY <2>1, UpdateTypes, WriterSetsNoGauge DEF MetricsTypeOK
<1>3. CASE DataStep \/ UNCHANGED allVars
  BY <1>3 DEF DataStep, HandlerGoesOn, WriterGoesOn, OutsideStep, allVars,
     metricsVars, MetricsTypeOK
<1>4. CASE CrashStep
  BY <1>4, ConstantsAssumption DEF CrashStep, NothingRecorded, MetricsTypeOK
<1> QED
  BY <1>1, <1>2, <1>3, <1>4 DEF MetricsNext, DataStep

-----------------------------------------------------------------------------
(***************************************************************************)
(* Each counter is the number of requests it was called for.               *)
(***************************************************************************)

LEMMA RecordCounts ==
  ASSUME ServerInv, MetricsTypeOK, CountsRequests, NEW r \in Req, NEW calls, NEW S,
         DistinctIn(calls, S), S \subseteq Calls, Record(r, calls)
  PROVE  CountsRequests'
<1>1. PICK i \in DOMAIN calls :
          /\ calls[i] \in S /\ calls[i] \notin counted[r]
          /\ counted'[r] = counted[r] \cup {calls[i]}
          /\ \A q \in Req \ {r} : counted'[q] = counted[q]
          /\ Update(r, calls[i])
  BY RecordStep
<1> SUFFICES ASSUME NEW c \in Counters PROVE metrics'[c] = Cardinality(CountedFor(c)')
  BY DEF CountsRequests
<1>2. metrics[c] = Cardinality(CountedFor(c)) /\ metrics[c] \in Nat
  BY DEF CountsRequests, MetricsTypeOK
<1>3. CASE c = calls[i]
  <2>1. CountedFor(c)' = CountedFor(c) \cup {r} /\ r \notin CountedFor(c)
    BY <1>1, <1>3 DEF CountedFor
  <2>2. IsFiniteSet(CountedFor(c))
    BY ConstantsAssumption, FS_Subset DEF CountedFor
  <2>3. Cardinality(CountedFor(c)') = Cardinality(CountedFor(c)) + 1
    BY <2>1, <2>2, FS_AddElement
  <2>4. metrics'[c] = metrics[c] + 1
    BY <1>1, <1>3 DEF Update, MetricsTypeOK, Counters
  <2> QED
    BY <1>2, <2>3, <2>4
<1>4. CASE c # calls[i]
  <2>1. CountedFor(c)' = CountedFor(c)
    BY <1>1, <1>4 DEF CountedFor
  <2>2. metrics'[c] = metrics[c]
    BY <1>1, <1>4 DEF Update, MetricsTypeOK
  <2> QED
    BY <1>2, <2>1, <2>2
<1> QED
  BY <1>3, <1>4

LEMMA CountsStep ==
  ASSUME ServerInv, MetricsTypeOK, CountsRequests, [MetricsNext]_allVars
  PROVE  CountsRequests'
<1>1. ASSUME NEW r \in Req, HandlerRecords(r) \/ WriterRecords(r)
      PROVE  CountsRequests'
  BY <1>1, CallsAreDistinct, RecordCounts, WriterSetsNoGauge
     DEF HandlerRecords, WriterRecords, OfHandlers
<1>2. CASE DataStep \/ UNCHANGED allVars
  BY <1>2 DEF DataStep, HandlerGoesOn, WriterGoesOn, OutsideStep, allVars,
     metricsVars, CountsRequests, CountedFor
<1>3. CASE CrashStep
  <2>1. \A c \in Counters : CountedFor(c)' = {} /\ metrics'[c] = 0
    BY <1>3 DEF CrashStep, NothingRecorded, CountedFor
  <2> QED
    BY <2>1, FS_EmptySet DEF CountsRequests
<1> QED
  BY <1>1, <1>2, <1>3 DEF MetricsNext, DataStep

-----------------------------------------------------------------------------
(***************************************************************************)
(* The calls made for one request.                                         *)
(***************************************************************************)

\* The calls its handler made.
Mine(r) == counted[r] \ OfWriters

LEMMA SomeCalls ==
  /\ All(SubmissionCalls) # {} /\ All(SubmissionErrorCalls) # {}
  /\ All(RetrievalCalls) # {} /\ All(RetrievalErrorCalls) # {}
BY DEF All, SubmissionCalls, SubmissionErrorCalls, RetrievalCalls, RetrievalErrorCalls

\* Places where a handler records.
Recording == {"spawn", "reply", "failed", "notfound"}

\* A handler that is not yet at such a place has made no call.
LEMMA NoCallsYet ==
  ASSUME NEW r \in Req, HandlerCounted(r), pc[r] \notin Recording \cup {"respond", "done"}
  PROVE  Mine(r) = {}
<1>1. HandlerCalls(r) = <<>>
  BY DEF HandlerCalls, Recording
<1> QED
  BY <1>1, InOrderOfNone DEF HandlerCounted, Mine

\* A handler that goes on from such a place has made all of its calls.
LEMMA AllCallsMade ==
  ASSUME NEW r \in Req, HandlerCounted(r), pc[r] \in Recording, config.metrics,
         Made(r, HandlerCalls(r))
  PROVE  Mine(r) = All(HandlerCalls(r))
<1>1. \A i \in DOMAIN HandlerCalls(r) : HandlerCalls(r)[i] \in Mine(r)
  BY CallsAreDistinct DEF Made, Mine, DistinctIn, OfHandlers
<1>2. InOrder(HandlerCalls(r), Mine(r))
  BY DEF HandlerCounted, Mine, Recording
<1> QED
  BY <1>1, <1>2, MadeAll

\* Arriving with no call made is fine everywhere but at an answer.
LEMMA ArrivesUncounted ==
  ASSUME NEW r \in Req, Mine(r) = {}, counted' = counted,
         pc'[r] \notin {"respond", "done"}
  PROVE  HandlerCounted(r)'
<1>1. (counted[r] \ OfWriters)' = {}
  BY DEF Mine
<1>2. \A calls : InOrder(calls, (counted[r] \ OfWriters)')
  BY <1>1, NothingInOrder
<1> QED
  BY <1>2 DEF HandlerCounted

LEMMA HandlerStepCounted ==
  ASSUME ServerInv, Lives, NEW r \in Req, HandlerCounted(r), HandlerGoesOn(r)
  PROVE  HandlerCounted(r)'
<1>0. TypeOK /\ RequestOK(r) /\ config.metrics /\ counted' = counted
  BY DEF ServerInv, Lives, HandlerGoesOn, metricsVars
<1> USE DEF Goto, Finish
<1>1. CASE PutStep(r)
  <2>1. CASE SubmitReturn(r) \/ SubmitFail(r) \/ RefetchReturn(r) \/ RefetchFail(r)
    <3>1. /\ pc[r] \in {"submit", "refetch"}
          /\ pc'[r] \in {"spawn", "refetch", "failed"}
      BY <1>0, <2>1 DEF SubmitReturn, SubmitFail, RefetchReturn, RefetchFail, TypeOK
    <3> QED
      BY <1>0, <3>1, NoCallsYet, ArrivesUncounted DEF Recording
  <2>2. CASE RefetchPanic(r)
    <3>1. /\ pc[r] = "refetch" /\ pc'[r] = "done" /\ resp'[r] # "200"
          /\ op'[r] = "put" /\ ~config'.compact
      BY <1>0, <2>2 DEF RefetchPanic, TypeOK, RequestOK
    <3>2. Mine(r) = {}
      BY <3>1, NoCallsYet DEF Recording
    <3> QED
      BY <1>0, <3>1, <3>2 DEF HandlerCounted, Mine
  <2>3. CASE PutSpawn(r)
    <3>1. pc[r] = "spawn" /\ pc'[r] = "respond"
      BY <1>0, <2>3 DEF PutSpawn, TypeOK
    <3>2. HandlerCalls(r) = SubmissionCalls
      BY <3>1 DEF HandlerCalls
    <3>3. Mine(r) = All(SubmissionCalls)
      BY <1>0, <3>1, <3>2, AllCallsMade DEF Recording, HandlerGoesOn
    <3> QED
      BY <1>0, <3>1, <3>3 DEF HandlerCounted, Mine
  <2>4. CASE PutRespond(r)
    <3>1. /\ pc[r] = "respond" /\ pc'[r] = "done" /\ op'[r] = "put"
          /\ data'[r] # None
      BY <1>0, <2>4, ConstantsAssumption DEF PutRespond, TypeOK, RequestOK
    <3>2. counted'[r] \ OfWriters = All(SubmissionCalls)
      BY <1>0, <3>1 DEF HandlerCounted
    <3> QED
      BY <3>1, <3>2, SomeCalls DEF HandlerCounted
  <2> QED
    BY <1>1, <2>1, <2>2, <2>3, <2>4 DEF PutStep
<1>2. CASE GetStep(r)
  <2>1. CASE ~GetRespond(r)
    <3>1. /\ pc[r] \in {"fetch", "canonical", "legacy"}
          /\ pc'[r] \notin {"respond", "done"}
      BY <1>0, <1>2, <2>1 DEF GetStep, FetchFound, FetchNotFound, FetchFail,
         FetchFallback, CanonicalFound, CanonicalMissing, CanonicalError,
         LegacyFound, LegacyError, ServeFallback, FallbackError, TypeOK
    <3> QED
      BY <1>0, <3>1, NoCallsYet, ArrivesUncounted DEF Recording
  <2>2. CASE GetRespond(r)
    <3>1. /\ pc[r] = "reply" /\ pc'[r] = "done" /\ op'[r] = "get"
          /\ resp'[r] \in {"200", "lost"} /\ comm'[r] # None
      BY <1>0, <2>2, ConstantsAssumption DEF GetRespond, TypeOK, RequestOK
    <3>2. HandlerCalls(r) = RetrievalCalls
      BY <3>1 DEF HandlerCalls
    <3>3. Mine(r) = All(RetrievalCalls)
      BY <1>0, <3>1, <3>2, AllCallsMade DEF Recording, HandlerGoesOn
    <3>4. counted'[r] \ OfWriters = All(RetrievalCalls)
      BY <1>0, <3>3 DEF Mine
    <3> QED
      BY <3>1, <3>4, SomeCalls DEF HandlerCounted
  <2> QED
    BY <2>1, <2>2
<1>3. CASE RespondError(r)
  <2>1. /\ pc[r] \in {"failed", "notfound"} /\ pc'[r] = "done" /\ op'[r] = op[r]
        /\ resp'[r] \in {"404", "500", "lost"}
    BY <1>0, <1>3 DEF RespondError, TypeOK
  <2>2. Mine(r) = All(HandlerCalls(r)) /\ counted'[r] \ OfWriters = Mine(r)
    BY <1>0, <2>1, AllCallsMade DEF Recording, HandlerGoesOn, Mine
  <2>3. CASE op[r] = "put"
    <3>1. pc[r] = "failed" /\ data'[r] # None
      BY <1>0, <1>3, <2>1, <2>3, ConstantsAssumption DEF RespondError, RequestOK
    <3>2. HandlerCalls(r) = SubmissionErrorCalls
      BY <2>3, <3>1 DEF HandlerCalls
    <3> QED
      BY <2>1, <2>2, <2>3, <3>1, <3>2, SomeCalls DEF HandlerCounted
  <2>4. CASE op[r] = "get"
    <3>1. comm'[r] # None
      BY <1>0, <1>3, <2>1, <2>4, ConstantsAssumption DEF RespondError, RequestOK
    <3>2. HandlerCalls(r) = RetrievalErrorCalls
      BY <2>1, <2>4 DEF HandlerCalls
    <3> QED
      BY <2>1, <2>2, <2>4, <3>1, <3>2, SomeCalls DEF HandlerCounted
  <2> QED
    BY <1>0, <2>1, <2>3, <2>4 DEF RequestOK
<1> QED
  BY <1>1, <1>2, <1>3 DEF HandlerGoesOn, HandlerStep

\* Nothing happened to the handler of q, nor to its calls.
HandlerKept(q) ==
    /\ pc'[q] = pc[q] /\ op'[q] = op[q] /\ data'[q] = data[q]
    /\ comm'[q] = comm[q] /\ resp'[q] = resp[q] /\ config' = config
    /\ Mine(q)' = Mine(q)

LEMMA KeptHandlerCounted ==
  ASSUME NEW q \in Req, HandlerCounted(q), HandlerKept(q)
  PROVE  HandlerCounted(q)'
<1>1. HandlerCalls(q)' = HandlerCalls(q)
  BY DEF HandlerCalls, HandlerKept, SubmissionCalls, SubmissionErrorCalls,
     RetrievalCalls, RetrievalErrorCalls
<1>2. (counted[q] \ OfWriters)' = counted[q] \ OfWriters
  BY DEF HandlerKept, Mine
<1>3. \A calls, made : InOrder(calls, made)' <=> InOrder(calls, made)
  BY DEF InOrder, All
<1> QED
  BY <1>1, <1>2 DEF HandlerCounted, HandlerKept, InOrder, All

\* Nothing happened to the writer of q, nor to its calls.
WriterKept(q) ==
    /\ writer'[q] = writer[q]
    /\ (counted[q] \cap OfWriters)' = counted[q] \cap OfWriters

LEMMA KeptWriterCounted ==
  ASSUME NEW q \in Req, WriterCounted(q), WriterKept(q)
  PROVE  WriterCounted(q)'
<1>1. WriterCalls(q)' = WriterCalls(q)
  BY DEF WriterCalls, WriterKept
<1> QED
  BY <1>1 DEF WriterCounted, WriterKept, InOrder, All

\* A recording handler makes the next of its calls.
LEMMA HandlerRecordCounted ==
  ASSUME ServerInv, MetricsTypeOK, NEW r \in Req, HandlerRecords(r),
         \A q \in Req : HandlerCounted(q) /\ WriterCounted(q)
  PROVE  \A q \in Req : HandlerCounted(q)' /\ WriterCounted(q)'
<1>1. PICK i \in DOMAIN HandlerCalls(r) :
          /\ HandlerCalls(r)[i] \in OfHandlers
          /\ \A j \in 1..(i - 1) : HandlerCalls(r)[j] \in counted[r]
          /\ counted'[r] = counted[r] \cup {HandlerCalls(r)[i]}
          /\ \A q \in Req \ {r} : counted'[q] = counted[q]
  BY CallsAreDistinct, RecordStep DEF HandlerRecords, OfHandlers
<1>2. UNCHANGED vars
  BY DEF HandlerRecords, Record
<1>3. \A q \in Req : WriterKept(q)
  BY <1>1, <1>2 DEF WriterKept, OfHandlers, vars
<1>4. \A q \in Req \ {r} : HandlerKept(q)
  BY <1>1, <1>2 DEF HandlerKept, Mine, vars
<1>5. HandlerCounted(r)'
  <2>1. pc'[r] = pc[r] /\ pc[r] \notin {"respond", "done"}
    <3>1. CASE pc[r] \in {"respond", "done"}
      <4>1. HandlerCalls(r) = <<>>
        BY <3>1 DEF HandlerCalls
      <4> QED
        BY <1>1, <4>1
    <3> QED
      BY <1>2, <3>1 DEF vars
  <2>2. HandlerCalls(r)' = HandlerCalls(r)
    BY <1>2 DEF HandlerCalls, vars, SubmissionCalls, SubmissionErrorCalls,
       RetrievalCalls, RetrievalErrorCalls
  <2>3. InOrder(HandlerCalls(r), Mine(r))
    BY <2>1 DEF HandlerCounted, Mine
  <2>4. \A j \in 1..(i - 1) : HandlerCalls(r)[j] \in Mine(r)
    <3>1. PICK n \in Nat : /\ DOMAIN HandlerCalls(r) = 1..n
                           /\ \A j \in 1..n : HandlerCalls(r)[j] \in OfHandlers
      BY CallsAreDistinct DEF DistinctIn
    <3> QED
      BY <1>1, <3>1 DEF Mine, OfHandlers
  <2>5. InOrder(HandlerCalls(r), Mine(r) \cup {HandlerCalls(r)[i]})
    BY <2>3, <2>4, CallsAreDistinct, NextInOrder
  <2>6. (counted[r] \ OfWriters)' = Mine(r) \cup {HandlerCalls(r)[i]}
    BY <1>1 DEF Mine, OfHandlers
  <2> QED
    BY <2>1, <2>2, <2>5, <2>6 DEF HandlerCounted, InOrder, All
<1> QED
  BY <1>3, <1>4, <1>5, KeptHandlerCounted, KeptWriterCounted

\* So does a recording writer.
LEMMA WriterRecordCounted ==
  ASSUME ServerInv, MetricsTypeOK, NEW r \in Req, WriterRecords(r),
         \A q \in Req : HandlerCounted(q) /\ WriterCounted(q)
  PROVE  \A q \in Req : HandlerCounted(q)' /\ WriterCounted(q)'
<1>1. PICK i \in DOMAIN WriterCalls(r) :
          /\ WriterCalls(r)[i] \in OfWriters
          /\ \A j \in 1..(i - 1) : WriterCalls(r)[j] \in counted[r]
          /\ counted'[r] = counted[r] \cup {WriterCalls(r)[i]}
          /\ \A q \in Req \ {r} : counted'[q] = counted[q]
  BY CallsAreDistinct, RecordStep, WriterSetsNoGauge DEF WriterRecords
<1>2. UNCHANGED vars
  BY DEF WriterRecords, Record
<1>3. \A q \in Req : HandlerKept(q)
  BY <1>1, <1>2 DEF HandlerKept, Mine, vars
<1>4. \A q \in Req \ {r} : WriterKept(q)
  BY <1>1, <1>2 DEF WriterKept, vars
<1>5. WriterCounted(r)'
  <2>1. writer'[r] = writer[r] /\ writer[r] \in {"success", "error"}
    <3>1. CASE writer[r] \notin {"success", "error"}
      <4>1. WriterCalls(r) = <<>>
        BY <3>1 DEF WriterCalls
      <4> QED
        BY <1>1, <4>1
    <3> QED
      BY <1>2, <3>1 DEF vars
  <2>2. WriterCalls(r)' = WriterCalls(r)
    BY <2>1 DEF WriterCalls
  <2>3. InOrder(WriterCalls(r), counted[r] \cap OfWriters)
    BY <2>1 DEF WriterCounted
  <2>4. \A j \in 1..(i - 1) : WriterCalls(r)[j] \in counted[r] \cap OfWriters
    <3>1. PICK n \in Nat : /\ DOMAIN WriterCalls(r) = 1..n
                           /\ \A j \in 1..n : WriterCalls(r)[j] \in OfWriters
      BY CallsAreDistinct DEF DistinctIn
    <3> QED
      BY <1>1, <3>1
  <2>5. InOrder(WriterCalls(r), (counted[r] \cap OfWriters) \cup {WriterCalls(r)[i]})
    BY <2>3, <2>4, CallsAreDistinct, NextInOrder
  <2>6. (counted[r] \cap OfWriters)' = (counted[r] \cap OfWriters) \cup {WriterCalls(r)[i]}
    BY <1>1
  <2> QED
    BY <2>1, <2>2, <2>5, <2>6 DEF WriterCounted, InOrder, All
<1> QED
  BY <1>3, <1>4, <1>5, KeptHandlerCounted, KeptWriterCounted

\* A handler changes nobody else's handler, and starts only its own writer.
LEMMA HandlerStepLocal ==
  ASSUME ServerInv, NEW r \in Req, HandlerGoesOn(r)
  PROVE  /\ \A q \in Req \ {r} : HandlerKept(q) /\ WriterKept(q)
         /\ counted' = counted /\ crashes' = crashes /\ config' = config
         /\ writer'[r] = writer[r] \/ (writer[r] = "none" /\ writer'[r] = "running")
<1>1. TypeOK /\ RequestOK(r) /\ counted' = counted
  BY DEF ServerInv, HandlerGoesOn, metricsVars
<1> USE DEF Goto, Finish, SpawnWriter
<1>2. CASE PutStep(r)
  BY <1>1, <1>2 DEF PutStep, SubmitReturn, SubmitFail, RefetchReturn, RefetchFail,
     RefetchPanic, PutSpawn, PutRespond, TypeOK, RequestOK, HandlerKept, WriterKept, Mine
<1>3. CASE GetStep(r)
  BY <1>1, <1>3 DEF GetStep, FetchFound, FetchNotFound, FetchFail, FetchFallback,
     CanonicalFound, CanonicalMissing, CanonicalError, LegacyFound, LegacyError,
     GetRespond, ServeFallback, FallbackError, TypeOK, RequestOK, HandlerKept,
     WriterKept, Mine
<1>4. CASE RespondError(r)
  BY <1>1, <1>4 DEF RespondError, TypeOK, HandlerKept, WriterKept, Mine
<1> QED
  BY <1>2, <1>3, <1>4 DEF HandlerGoesOn, HandlerStep

LEMMA HandlerGoesOnCounted ==
  ASSUME ServerInv, Lives, NEW r \in Req, HandlerGoesOn(r),
         \A q \in Req : HandlerCounted(q) /\ WriterCounted(q)
  PROVE  \A q \in Req : HandlerCounted(q)' /\ WriterCounted(q)'
<1>1. HandlerCounted(r)'
  BY HandlerStepCounted
<1>2. WriterCounted(r)'
  <2>1. CASE writer'[r] = writer[r]
    BY <2>1, HandlerStepLocal, KeptWriterCounted DEF WriterKept
  <2>2. CASE writer[r] = "none" /\ writer'[r] = "running"
    <3>1. WriterCalls(r) = <<>> /\ (WriterCalls(r))' = <<>>
      BY <2>2 DEF WriterCalls
    <3>2. (counted[r] \cap OfWriters)' = {}
      BY <2>2, <3>1, HandlerStepLocal, InOrderOfNone DEF WriterCounted
    <3> QED
      BY <2>2, <3>1, <3>2 DEF WriterCounted, InOrder, All
  <2> QED
    BY <2>1, <2>2, HandlerStepLocal
<1> QED
  BY <1>1, <1>2, HandlerStepLocal, KeptHandlerCounted, KeptWriterCounted

\* A writer that ends has made all of its calls.
LEMMA WriterGoesOnCounted ==
  ASSUME ServerInv, Lives, NEW r \in Req, WriterGoesOn(r),
         \A q \in Req : HandlerCounted(q) /\ WriterCounted(q)
  PROVE  \A q \in Req : HandlerCounted(q)' /\ WriterCounted(q)'
<1>0. TypeOK /\ counted' = counted /\ config.metrics
  BY DEF ServerInv, WriterGoesOn, metricsVars, Lives
<1>1. \A q \in Req : HandlerKept(q)
  BY <1>0 DEF WriterGoesOn, WriterStep, WriterStored, WriterFailed, WriterEnd,
     HandlerKept, Mine
<1>2. \A q \in Req \ {r} : WriterKept(q)
  BY <1>0 DEF WriterGoesOn, WriterStep, WriterStored, WriterFailed, WriterEnd, Ends,
     WriterKept, TypeOK
<1>3. CASE WriterStored(r) \/ WriterFailed(r)
  <2>1. writer[r] = "running" /\ writer'[r] \in {"success", "error"}
    BY <1>0, <1>3 DEF WriterStored, WriterFailed, Ends, TypeOK
  <2>2. WriterCalls(r) = <<>>
    BY <2>1 DEF WriterCalls
  <2>3. (counted[r] \cap OfWriters)' = {}
    BY <1>0, <2>1, <2>2, InOrderOfNone DEF WriterCounted
  <2>4. WriterCounted(r)'
    BY <2>1, <2>3 DEF WriterCounted, InOrder, All
  <2> QED
    BY <1>1, <1>2, <2>4, KeptHandlerCounted, KeptWriterCounted
<1>4. CASE WriterEnd(r)
  <2>1. \/ writer[r] = "success" /\ writer'[r] = "stored"
        \/ writer[r] = "error" /\ writer'[r] = "failed"
    BY <1>0, <1>4 DEF WriterEnd, Ends, TypeOK
  <2>2. counted[r] \cap OfWriters = All(WriterCalls(r))
    <3>1. \A i \in DOMAIN WriterCalls(r) : WriterCalls(r)[i] \in counted[r] \cap OfWriters
      BY <1>0, CallsAreDistinct DEF WriterGoesOn, Made, DistinctIn
    <3>2. InOrder(WriterCalls(r), counted[r] \cap OfWriters)
      BY <2>1 DEF WriterCounted
    <3> QED
      BY <3>1, <3>2, MadeAll
  <2>3. /\ writer[r] = "success" => All(WriterCalls(r)) = {"fallbackWrites"}
        /\ writer[r] = "error" => All(WriterCalls(r)) = OfWriters
    BY DEF WriterCalls, All, OfWriters
  <2>4. WriterCounted(r)'
    BY <1>0, <2>1, <2>2, <2>3 DEF WriterCounted
  <2> QED
    BY <1>1, <1>2, <2>4, KeptHandlerCounted, KeptWriterCounted
<1> QED
  BY <1>3, <1>4 DEF WriterGoesOn, WriterStep

\* A new request has no calls; what is outside the process makes none.
LEMMA OutsideCounted ==
  ASSUME ServerInv, Lives, OutsideStep \/ UNCHANGED allVars,
         \A q \in Req : HandlerCounted(q) /\ WriterCounted(q)
  PROVE  \A q \in Req : HandlerCounted(q)' /\ WriterCounted(q)'
<1>0. TypeOK /\ counted' = counted
  BY DEF ServerInv, OutsideStep, allVars, metricsVars
<1>1. ASSUME NEW r \in Req, Accept(r)
      PROVE  \A q \in Req : HandlerCounted(q)' /\ WriterCounted(q)'
  <2> USE DEF Goto, Finish
  <2>1. \A q \in Req \ {r} : HandlerKept(q)
    BY <1>0, <1>1 DEF Accept, PutReject, GetReject, PutAccept, GetAccept, HandlerKept,
       Mine, TypeOK
  <2>2. \A q \in Req : WriterKept(q)
    BY <1>0, <1>1 DEF Accept, PutReject, GetReject, PutAccept, GetAccept, WriterKept
  <2>3. pc[r] = "idle" /\ data[r] = None /\ comm[r] = None
    BY <1>1 DEF Accept, PutReject, GetReject, PutAccept, GetAccept, ServerInv, RequestOK
  <2>4. Mine(r) = {}
    BY <2>3, NoCallsYet DEF Recording
  <2>5. HandlerCounted(r)'
    <3>1. CASE pc'[r] \in {"submit", "fetch"}
      BY <1>0, <2>4, <3>1, ArrivesUncounted
    <3>2. CASE pc'[r] = "done"
      <4>1. /\ data'[r] = None /\ comm'[r] = None /\ op'[r] \in {"put", "get"}
            /\ resp'[r] \in Rejects \cup {"lost"}
        BY <1>0, <1>1, <2>3, <3>2 DEF Accept, PutReject, GetReject, PutAccept, GetAccept,
           TypeOK
      <4>2. (counted[r] \ OfWriters)' = {}
        BY <1>0, <2>4 DEF Mine
      <4> QED
        BY <3>2, <4>1, <4>2 DEF HandlerCounted
    <3> QED
      BY <1>0, <1>1, <3>1, <3>2 DEF Accept, PutReject, GetReject, PutAccept, GetAccept,
         TypeOK
  <2> QED
    BY <2>1, <2>2, <2>5, KeptHandlerCounted, KeptWriterCounted
<1>2. CASE \/ \E r \in Req : Broadcast(r) \/ BucketApply(r)
           \/ NewBlock \/ Terminated \/ UNCHANGED allVars
  <2>1. \A q \in Req : HandlerKept(q) /\ WriterKept(q)
    BY <1>0, <1>2 DEF Broadcast, BucketApply, NewBlock, Terminated, vars, allVars,
       HandlerKept, WriterKept, Mine
  <2> QED
    BY <2>1, KeptHandlerCounted, KeptWriterCounted
<1> QED
  BY <1>1, <1>2 DEF OutsideStep

-----------------------------------------------------------------------------
(***************************************************************************)
(* The gauge.                                                              *)
(***************************************************************************)

\* Short of a crash a call that was made stays made.
LEMMA CountedGrows ==
  ASSUME ServerInv, MetricsTypeOK, [MetricsNext]_allVars, ~CrashStep
  PROVE  \A q \in Req : counted[q] \subseteq counted'[q]
<1>1. ASSUME NEW r \in Req, HandlerRecords(r) \/ WriterRecords(r)
      PROVE  \A q \in Req : counted[q] \subseteq counted'[q]
  BY <1>1 DEF HandlerRecords, WriterRecords, Record, MetricsTypeOK
<1>2. CASE DataStep \/ UNCHANGED allVars
  BY <1>2 DEF DataStep, HandlerGoesOn, WriterGoesOn, OutsideStep, allVars, metricsVars
<1> QED
  BY <1>1, <1>2 DEF MetricsNext, DataStep

\* A step that does not touch the gauge: the PUT whose height it holds keeps it.
LEMMA GaugeKept ==
  ASSUME ServerInv, MetricsTypeOK, [MetricsNext]_allVars, ~CrashStep, GaugeSet,
         inclusionHeight' = inclusionHeight,
         CountedFor("inclusionHeight")' = CountedFor("inclusionHeight")
  PROVE  GaugeSet'
<1> SUFFICES ASSUME inclusionHeight # 0
             PROVE  \E r \in Req : /\ op'[r] = "put" /\ included'[r] = inclusionHeight
                                   /\ "submissions" \in counted'[r]
  BY DEF GaugeSet
<1>1. PICK r \in Req : included[r] = inclusionHeight /\ "submissions" \in counted[r]
  BY DEF GaugeSet
<1>2. included'[r] = included[r]
  BY <1>1, RecordingIsInvisible, ChainGrows DEF ChainKept
<1>3. op'[r] = "put"
  BY <1>1, <1>2, RecordingIsInvisible, RequestStep DEF RequestOK
<1> QED
  BY <1>1, <1>2, <1>3, CountedGrows

LEMMA GaugeStep ==
  ASSUME ServerInv, MetricsTypeOK, [MetricsNext]_allVars, ~CrashStep, GaugeSet
  PROVE  GaugeSet'
<1>1. ASSUME NEW r \in Req, HandlerRecords(r) PROVE GaugeSet'
  <2>1. PICK i \in DOMAIN HandlerCalls(r) :
            /\ \A j \in 1..(i - 1) : HandlerCalls(r)[j] \in counted[r]
            /\ counted'[r] = counted[r] \cup {HandlerCalls(r)[i]}
            /\ \A q \in Req \ {r} : counted'[q] = counted[q]
            /\ Update(r, HandlerCalls(r)[i])
    BY <1>1, CallsAreDistinct, RecordStep DEF HandlerRecords, OfHandlers
  <2>2. CASE HandlerCalls(r)[i] = "inclusionHeight"
    <3>1. pc[r] = "spawn" /\ i = 5
      BY <2>2, GaugeHeight
    <3>2. HandlerCalls(r)[2] = "submissions" /\ 2 \in 1..(i - 1)
      BY <3>1 DEF HandlerCalls, SubmissionCalls
    <3>3. "submissions" \in counted'[r]
      BY <2>1, <3>2
    <3>4. /\ op[r] = "put" /\ comm[r].height = included[r]
          /\ comm[r].height \in 1..MaxHeight
      BY <3>1, SpawnHeight
    <3>5. inclusionHeight' = comm[r].height /\ UNCHANGED vars
      BY <1>1, <2>1, <2>2 DEF Update, Counters, HandlerRecords, Record
    <3>6. inclusionHeight' # 0
      BY <3>4, <3>5, ConstantsAssumption
    <3> QED
      BY <3>3, <3>4, <3>5, <3>6 DEF GaugeSet, vars
  <2>3. CASE HandlerCalls(r)[i] # "inclusionHeight"
    <3>1. inclusionHeight' = inclusionHeight
      BY <2>1, <2>3 DEF Update
    <3>2. CountedFor("inclusionHeight")' = CountedFor("inclusionHeight")
      BY <2>1, <2>3 DEF CountedFor
    <3> QED
      BY <3>1, <3>2, GaugeKept
  <2> QED
    BY <2>2, <2>3
<1>2. ASSUME NEW r \in Req, WriterRecords(r) PROVE GaugeSet'
  <2>1. PICK i \in DOMAIN WriterCalls(r) :
            /\ WriterCalls(r)[i] \in OfWriters
            /\ counted'[r] = counted[r] \cup {WriterCalls(r)[i]}
            /\ \A q \in Req \ {r} : counted'[q] = counted[q]
            /\ Update(r, WriterCalls(r)[i])
    BY <1>2, CallsAreDistinct, RecordStep, WriterSetsNoGauge DEF WriterRecords
  <2>2. inclusionHeight' = inclusionHeight
    BY <2>1, WriterSetsNoGauge DEF Update
  <2>3. CountedFor("inclusionHeight")' = CountedFor("inclusionHeight")
    BY <2>1, WriterSetsNoGauge DEF CountedFor
  <2> QED
    BY <2>2, <2>3, GaugeKept
<1>3. CASE DataStep \/ UNCHANGED allVars
  <2>1. inclusionHeight' = inclusionHeight /\ counted' = counted
    BY <1>3 DEF DataStep, HandlerGoesOn, WriterGoesOn, OutsideStep, allVars, metricsVars
  <2>2. CountedFor("inclusionHeight")' = CountedFor("inclusionHeight")
    BY <2>1 DEF CountedFor
  <2> QED
    BY <2>1, <2>2, GaugeKept
<1> QED
  BY <1>1, <1>2, <1>3 DEF MetricsNext, DataStep

-----------------------------------------------------------------------------
(***************************************************************************)
(* The invariant.                                                          *)
(***************************************************************************)

LEMMA MetricsInitInv == MetricsInit => MetricsInv
<1> SUFFICES ASSUME MetricsInit PROVE MetricsInv
  OBVIOUS
<1>1. MetricsTypeOK
  BY ConstantsAssumption DEF MetricsInit, MetricsTypeOK, Calls
<1>2. CountsRequests
  BY FS_EmptySet DEF MetricsInit, CountsRequests, CountedFor
<1>3. \A r \in Req : HandlerCounted(r) /\ WriterCounted(r)
  BY DEF MetricsInit, Init, HandlerCounted, WriterCounted, InOrder, HandlerCalls,
     WriterCalls
<1>4. GaugeSet
  BY DEF MetricsInit, GaugeSet, CountedFor
<1> QED
  BY <1>1, <1>2, <1>3, <1>4 DEF MetricsInv

\* A process that has died is not spoken of again.
LEMMA CrashEndsLife ==
  ASSUME ServerInv, CrashStep
  PROVE  ~Lives'
BY ConstantsAssumption DEF ServerInv, TypeOK, CrashStep, Crash, Lives

\* Nothing else changes the configuration or the number of crashes.
LEMMA LifeGoesOn ==
  ASSUME ServerInv, [MetricsNext]_allVars, ~CrashStep
  PROVE  crashes' = crashes /\ config' = config
<1>1. ASSUME NEW r \in Req, HandlerRecords(r) \/ WriterRecords(r)
      PROVE  crashes' = crashes /\ config' = config
  BY <1>1 DEF HandlerRecords, WriterRecords, Record, vars
<1>2. ASSUME NEW r \in Req, HandlerGoesOn(r)
      PROVE  crashes' = crashes /\ config' = config
  BY <1>2, HandlerStepLocal
<1>3. ASSUME NEW r \in Req, WriterGoesOn(r)
      PROVE  crashes' = crashes /\ config' = config
  BY <1>3 DEF WriterGoesOn, WriterStep, WriterStored, WriterFailed, WriterEnd
<1>4. CASE OutsideStep \/ UNCHANGED allVars
  BY <1>4 DEF OutsideStep, Accept, PutReject, GetReject, PutAccept, GetAccept,
     Broadcast, BucketApply, NewBlock, Terminated, vars, allVars
<1> QED
  BY <1>1, <1>2, <1>3, <1>4 DEF MetricsNext

\* MetricsInv holds in every reachable state: a handler makes its calls in their
\* order and before it answers, a writer before its Done, each call is counted
\* once, and the gauge holds the height of a PUT that was counted.
THEOREM MetricsInvariance == MetricsSpec => []MetricsInv
<1>1. ServerInv /\ MetricsInv /\ [MetricsNext]_allVars => MetricsInv'
  <2> SUFFICES ASSUME ServerInv, MetricsInv, [MetricsNext]_allVars PROVE MetricsInv'
    OBVIOUS
  <2>1. MetricsTypeOK' /\ CountsRequests'
    BY MetricsTypeStep, CountsStep DEF MetricsInv
  <2>2. ASSUME Lives'
        PROVE  (\A r \in Req : HandlerCounted(r)' /\ WriterCounted(r)') /\ GaugeSet'
    <3>1. ~CrashStep /\ Lives
      BY <2>2, CrashEndsLife, LifeGoesOn DEF Lives
    <3>2. /\ MetricsTypeOK /\ GaugeSet
          /\ \A r \in Req : HandlerCounted(r) /\ WriterCounted(r)
      BY <3>1 DEF MetricsInv
    <3>3. \A r \in Req : HandlerCounted(r)' /\ WriterCounted(r)'
      BY <3>1, <3>2, HandlerRecordCounted, WriterRecordCounted, HandlerGoesOnCounted,
         WriterGoesOnCounted, OutsideCounted DEF MetricsNext
    <3> QED
      BY <3>1, <3>2, <3>3, GaugeStep
  <2> QED
    BY <2>1, <2>2 DEF MetricsInv
<1> QED
  BY <1>1, MetricsInitInv, ServerInvariance, PTL DEF MetricsSpec

-----------------------------------------------------------------------------
(***************************************************************************)
(* From the calls to the counters.                                         *)
(***************************************************************************)

\* What the first few calls of a submission, of a retrieval and of their errors
\* have in common.
LEMMA CallsInOrder ==
  ASSUME NEW made
  PROVE  /\ InOrder(SubmissionCalls, made) =>
              /\ "putDurations" \in made => "submissions" \in made
              /\ "blobSizes" \in made => "submissions" \in made
              /\ "submissions" \in made => "submissionDurations" \in made
              /\ "getDurations" \notin made
         /\ InOrder(SubmissionErrorCalls, made) =>
              /\ "putDurations" \in made => "submissionErrors" \in made
              /\ made \cap {"getDurations", "submissions", "blobSizes"} = {}
         /\ InOrder(RetrievalCalls, made) =>
              /\ "getDurations" \in made => "retrievals" \in made
              /\ made \cap {"putDurations", "submissions", "blobSizes"} = {}
         /\ InOrder(RetrievalErrorCalls, made) =>
              /\ "getDurations" \in made => "retrievalErrors" \in made
              /\ made \cap {"putDurations", "submissions", "blobSizes"} = {}
<1>1. ASSUME InOrder(SubmissionCalls, made)
      PROVE  /\ "putDurations" \in made => "submissions" \in made
             /\ "blobSizes" \in made => "submissions" \in made
             /\ "submissions" \in made => "submissionDurations" \in made
             /\ "getDurations" \notin made
  <2>1. /\ DOMAIN SubmissionCalls = 1..5
        /\ SubmissionCalls[1] = "submissionDurations" /\ SubmissionCalls[2] = "submissions"
        /\ SubmissionCalls[3] = "blobSizes" /\ SubmissionCalls[4] = "putDurations"
        /\ \A i \in 1..5 : SubmissionCalls[i] # "getDurations"
    BY DEF SubmissionCalls
  <2> QED
    BY <1>1, <2>1 DEF InOrder, All
<1>2. ASSUME InOrder(SubmissionErrorCalls, made)
      PROVE  /\ "putDurations" \in made => "submissionErrors" \in made
             /\ made \cap {"getDurations", "submissions", "blobSizes"} = {}
  <2>1. /\ DOMAIN SubmissionErrorCalls = 1..2
        /\ SubmissionErrorCalls[1] = "submissionErrors"
        /\ SubmissionErrorCalls[2] = "putDurations"
    BY DEF SubmissionErrorCalls
  <2> QED
    BY <1>2, <2>1 DEF InOrder, All
<1>3. ASSUME InOrder(RetrievalCalls, made)
      PROVE  /\ "getDurations" \in made => "retrievals" \in made
             /\ made \cap {"putDurations", "submissions", "blobSizes"} = {}
  <2>1. /\ DOMAIN RetrievalCalls = 1..3 /\ RetrievalCalls[1] = "retrievalDurations"
        /\ RetrievalCalls[2] = "retrievals" /\ RetrievalCalls[3] = "getDurations"
    BY DEF RetrievalCalls
  <2> QED
    BY <1>3, <2>1 DEF InOrder, All
<1>4. ASSUME InOrder(RetrievalErrorCalls, made)
      PROVE  /\ "getDurations" \in made => "retrievalErrors" \in made
             /\ made \cap {"putDurations", "submissions", "blobSizes"} = {}
  <2>1. /\ DOMAIN RetrievalErrorCalls = 1..2
        /\ RetrievalErrorCalls[1] = "retrievalErrors"
        /\ RetrievalErrorCalls[2] = "getDurations"
    BY DEF RetrievalErrorCalls
  <2> QED
    BY <1>4, <2>1 DEF InOrder, All
<1> QED
  BY <1>1, <1>2, <1>3, <1>4

\* All the calls of one place are in order.
LEMMA AllInOrder == \A calls : InOrder(calls, All(calls))
BY DEF InOrder, All

\* What the handler of r has called, wherever it is, is the beginning of one of
\* the four sequences of calls.
LEMMA OneOfTheFour ==
  ASSUME NEW r \in Req, RequestOK(r), TypeOK, HandlerCounted(r)
  PROVE  \/ InOrder(SubmissionCalls, Mine(r)) \/ InOrder(SubmissionErrorCalls, Mine(r))
         \/ InOrder(RetrievalCalls, Mine(r)) \/ InOrder(RetrievalErrorCalls, Mine(r))
<1>1. CASE pc[r] \notin {"respond", "done"}
  <2>1. InOrder(HandlerCalls(r), Mine(r))
    BY <1>1 DEF HandlerCounted, Mine
  <2>2. HandlerCalls(r) \in {SubmissionCalls, RetrievalCalls, SubmissionErrorCalls,
                             RetrievalErrorCalls, <<>>}
    BY DEF HandlerCalls
  <2>3. HandlerCalls(r) = <<>> => Mine(r) = {}
    BY <2>1, InOrderOfNone
  <2> QED
    BY <2>1, <2>2, <2>3, NothingInOrder
<1>2. CASE pc[r] \in {"respond", "done"}
  <2>1. Mine(r) \in {{}, All(SubmissionCalls), All(SubmissionErrorCalls),
                     All(RetrievalCalls), All(RetrievalErrorCalls)}
    BY <1>2 DEF HandlerCounted, Mine, RequestOK, TypeOK
  <2> QED
    BY <2>1, AllInOrder, NothingInOrder
<1> QED
  BY <1>1, <1>2

\* Calls of handlers are those in Mine.
LEMMA MineCounted ==
  ASSUME NEW r \in Req, NEW c \in OfHandlers
  PROVE  c \in counted[r] <=> c \in Mine(r)
BY DEF Mine, OfHandlers

\* Calls that are made together, whatever the handler of r is doing.
LEMMA CallsTogether ==
  ASSUME NEW r \in Req, RequestOK(r), TypeOK, HandlerCounted(r)
  PROVE  /\ "putDurations" \in counted[r] =>
                "submissions" \in counted[r] \/ "submissionErrors" \in counted[r]
         /\ "getDurations" \in counted[r] =>
                "retrievals" \in counted[r] \/ "retrievalErrors" \in counted[r]
         /\ "blobSizes" \in counted[r] => "submissions" \in counted[r]
         /\ "submissions" \in counted[r] => "submissionDurations" \in counted[r]
<1>1. /\ "putDurations" \in Mine(r) =>
             "submissions" \in Mine(r) \/ "submissionErrors" \in Mine(r)
      /\ "getDurations" \in Mine(r) =>
             "retrievals" \in Mine(r) \/ "retrievalErrors" \in Mine(r)
      /\ "blobSizes" \in Mine(r) => "submissions" \in Mine(r)
      /\ "submissions" \in Mine(r) => "submissionDurations" \in Mine(r)
  BY OneOfTheFour, CallsInOrder
<1> QED
  BY <1>1 DEF Mine, OfWriters

\* CountedFor sets are finite and their sizes the counters.
LEMMA CounterSizes ==
  ASSUME MetricsInv, NEW c \in Counters
  PROVE  /\ IsFiniteSet(CountedFor(c)) /\ metrics[c] = Cardinality(CountedFor(c))
         /\ metrics[c] \in Nat
BY ConstantsAssumption, FS_Subset DEF MetricsInv, MetricsTypeOK, CountsRequests, CountedFor

\* More requests, larger counter.
LEMMA FewerThan ==
  ASSUME MetricsInv, NEW c \in Counters, NEW S \in SUBSET CountedFor(c)
  PROVE  Cardinality(S) <= metrics[c]
BY CounterSizes, FS_Subset

LEMMA MoreThan ==
  ASSUME MetricsInv, NEW c \in Counters, NEW S \in SUBSET Req, CountedFor(c) \subseteq S
  PROVE  metrics[c] <= Cardinality(S)
BY CounterSizes, FS_Subset, ConstantsAssumption

\* A union is at most as large as its parts together.
LEMMA AtMostBoth ==
  ASSUME NEW S \in SUBSET Req, NEW T \in SUBSET Req, NEW U \in SUBSET (S \cup T)
  PROVE  /\ Cardinality(U) <= Cardinality(S) + Cardinality(T)
         /\ U = S \cup T /\ S \cap T = {} => Cardinality(U) = Cardinality(S) + Cardinality(T)
<1>1. IsFiniteSet(S) /\ IsFiniteSet(T) /\ IsFiniteSet(U) /\ IsFiniteSet(S \cap T)
  BY ConstantsAssumption, FS_Subset
<1>2. /\ Cardinality(S) \in Nat /\ Cardinality(T) \in Nat /\ Cardinality(U) \in Nat
      /\ Cardinality(S \cap T) \in Nat
  BY <1>1, FS_CardinalityType
<1>3. /\ IsFiniteSet(S \cup T)
      /\ Cardinality(S \cup T) = Cardinality(S) + Cardinality(T) - Cardinality(S \cap T)
  BY <1>1, FS_Union
<1>4. Cardinality(U) <= Cardinality(S \cup T) /\ Cardinality(S \cup T) \in Nat
  BY <1>3, FS_Subset, FS_CardinalityType
<1>5. ASSUME U = S \cup T, S \cap T = {}
      PROVE  Cardinality(U) = Cardinality(S) + Cardinality(T)
  <2>1. Cardinality(S \cap T) = 0
    BY <1>5, FS_EmptySet
  <2> QED
    BY <1>2, <1>3, <1>5, <2>1
<1>6. Cardinality(U) <= Cardinality(S) + Cardinality(T)
  BY <1>2, <1>3, <1>4
<1> QED
  BY <1>5, <1>6

\* A counter of what two others count between them.
LEMMA SumOfCounters ==
  ASSUME MetricsInv, NEW c \in Counters, NEW d \in Counters, NEW e \in Counters,
         CountedFor(c) \subseteq CountedFor(d) \cup CountedFor(e)
  PROVE  /\ metrics[c] <= metrics[d] + metrics[e]
         /\ /\ CountedFor(c) = CountedFor(d) \cup CountedFor(e)
            /\ CountedFor(d) \cap CountedFor(e) = {}
            => metrics[c] = metrics[d] + metrics[e]
<1>1. CountedFor(d) \in SUBSET Req /\ CountedFor(e) \in SUBSET Req
  BY DEF CountedFor
<1>2. CountedFor(c) \in SUBSET (CountedFor(d) \cup CountedFor(e))
  OBVIOUS
<1>3. /\ metrics[c] = Cardinality(CountedFor(c)) /\ metrics[d] = Cardinality(CountedFor(d))
      /\ metrics[e] = Cardinality(CountedFor(e))
  BY CounterSizes
<1> HIDE DEF CountedFor
<1> QED
  BY <1>1, <1>2, <1>3, AtMostBoth

\* A write is counted only where a writer was started, and an error only where
\* one failed.
LEMMA NoneWritten ==
  ASSUME NEW r \in Req, TypeOK, WriterCounted(r)
  PROVE  /\ "fallbackWrites" \in counted[r] => writer[r] # "none"
         /\ "fallbackWriteErrors" \in counted[r] => writer[r] \in {"error", "failed"}
<1>1. InOrder(<<"fallbackWrites">>, counted[r] \cap OfWriters)
          => "fallbackWriteErrors" \notin counted[r]
  BY DEF InOrder, All, OfWriters
<1>2. writer[r] \in {"none", "running"} => counted[r] \cap OfWriters = {}
  BY InOrderOfNone DEF WriterCounted, WriterCalls
<1>3. writer[r] = "success" => InOrder(<<"fallbackWrites">>, counted[r] \cap OfWriters)
  BY DEF WriterCounted, WriterCalls
<1> QED
  BY <1>1, <1>2, <1>3 DEF WriterCounted, TypeOK, OfWriters

\* An error is counted after the write it belongs to.
LEMMA ErrorsAreWrites ==
  ASSUME NEW r \in Req, TypeOK, WriterCounted(r), "fallbackWriteErrors" \in counted[r]
  PROVE  "fallbackWrites" \in counted[r]
<1>1. CASE writer[r] = "error"
  <2> DEFINE calls == <<"fallbackWrites", "fallbackWriteErrors">>
  <2>1. InOrder(calls, counted[r] \cap OfWriters)
    BY <1>1 DEF WriterCounted, WriterCalls
  <2>2. DOMAIN calls = 1..2 /\ calls[1] = "fallbackWrites" /\ calls[2] = "fallbackWriteErrors"
    OBVIOUS
  <2> QED
    BY <2>1, <2>2 DEF InOrder, OfWriters
<1>2. CASE writer[r] = "failed"
  BY <1>2 DEF WriterCounted, OfWriters
<1> QED
  BY <1>1, <1>2, NoneWritten

\* A writer that ended in a process that lives has its write in the counters.
LEMMA EndedWriter ==
  ASSUME NEW r \in Req, TypeOK, WriterCounted(r), writer[r] # "none", ~WriterRuns(r)
  PROVE  /\ "fallbackWrites" \in counted[r]
         /\ writer[r] = "failed" => "fallbackWriteErrors" \in counted[r]
<1>1. writer[r] \in {"stored", "failed"}
  BY DEF TypeOK, WriterCounted, WriterRuns
<1> QED
  BY <1>1 DEF WriterCounted, OfWriters

\* The calls made for r once its handler has ended, or before it begins.
QuietCalls(r) ==
    /\ "putDurations" \in counted[r] <=>
           "submissions" \in counted[r] \/ "submissionErrors" \in counted[r]
    /\ ~("submissions" \in counted[r] /\ "submissionErrors" \in counted[r])
    /\ "getDurations" \in counted[r] <=>
           "retrievals" \in counted[r] \/ "retrievalErrors" \in counted[r]
    /\ ~("retrievals" \in counted[r] /\ "retrievalErrors" \in counted[r])
    /\ "putDurations" \in counted[r] => op[r] = "put" /\ data[r] # None
    /\ config.compact /\ op[r] = "put" /\ data[r] # None => "putDurations" \in counted[r]
    /\ "getDurations" \in counted[r] <=> op[r] = "get" /\ comm[r] # None
    /\ "submissions" \in counted[r] <=> "blobSizes" \in counted[r]
    /\ "submissions" \in counted[r] <=> "submissionDurations" \in counted[r]
    /\ "submissions" \in counted[r] <=> "inclusionHeight" \in counted[r]
    /\ "retrievals" \in counted[r] <=> "retrievalDurations" \in counted[r]

LEMMA QuietHandler ==
  ASSUME NEW r \in Req, TypeOK, RequestOK(r), HandlerCounted(r), pc[r] \in {"idle", "done"}
  PROVE  QuietCalls(r)
<1>1. /\ All(SubmissionCalls) = {"submissionDurations", "submissions", "blobSizes",
                                 "putDurations", "inclusionHeight"}
      /\ All(SubmissionErrorCalls) = {"submissionErrors", "putDurations"}
      /\ All(RetrievalCalls) = {"retrievalDurations", "retrievals", "getDurations"}
      /\ All(RetrievalErrorCalls) = {"retrievalErrors", "getDurations"}
  BY DEF All, SubmissionCalls, SubmissionErrorCalls, RetrievalCalls, RetrievalErrorCalls
<1>2. \A c \in OfHandlers : c \in counted[r] <=> c \in Mine(r)
  BY MineCounted
<1>3. {"submissionDurations", "submissions", "submissionErrors", "blobSizes",
       "retrievalDurations", "retrievals", "retrievalErrors", "putDurations",
       "getDurations", "inclusionHeight"} \subseteq OfHandlers
  BY DEF OfHandlers, OfWriters, Calls, Counters
<1>4. CASE pc[r] = "idle"
  <2>1. Mine(r) = {}
    BY <1>4, NoCallsYet DEF Recording
  <2>2. op[r] = "none"
    BY <1>4 DEF RequestOK
  <2> QED
    BY <1>2, <1>3, <2>1, <2>2 DEF QuietCalls
<1>5. CASE pc[r] = "done" /\ op[r] = "put"
  <2>1. /\ Mine(r) \in {{}, All(SubmissionCalls), All(SubmissionErrorCalls)}
        /\ data[r] = None => Mine(r) = {}
        /\ Mine(r) = {} /\ config.compact => data[r] = None
    BY <1>5 DEF HandlerCounted, Mine
  <2> QED
    BY <1>1, <1>2, <1>3, <1>5, <2>1 DEF QuietCalls
<1>6. CASE pc[r] = "done" /\ op[r] = "get"
  <2>1. /\ Mine(r) \in {{}, All(RetrievalCalls), All(RetrievalErrorCalls)}
        /\ Mine(r) = {} <=> comm[r] = None
    BY <1>6 DEF HandlerCounted, Mine
  <2> QED
    BY <1>1, <1>2, <1>3, <1>6, <2>1 DEF QuietCalls
<1> QED
  BY <1>4, <1>5, <1>6 DEF RequestOK, TypeOK

\* CountersAgree holds in every reachable state: whenever the metrics are read,
\* between any two calls of any goroutines.
THEOREM CountersAgreeAlways == MetricsSpec => []CountersAgree
<1>1. ServerInv /\ MetricsInv => CountersAgree
  <2> SUFFICES ASSUME ServerInv, MetricsInv, Lives PROVE CountersAgree
    BY DEF CountersAgree
  <2>0. /\ TypeOK /\ \A r \in Req : RequestOK(r)
        /\ \A r \in Req : HandlerCounted(r) /\ WriterCounted(r)
    BY DEF ServerInv, MetricsInv
  <2> USE DEF Counters
  <2>1. /\ Cardinality(Answered("put", {"200"})) <= metrics["submissions"]
        /\ Cardinality(Answered("get", {"200"})) <= metrics["retrievals"]
        /\ Cardinality(Answered("get", {"404", "500"})) <= metrics["retrievalErrors"]
    <3>1. \A r \in Req : resp[r] # "none" => pc[r] = "done"
      BY <2>0 DEF RequestOK
    <3>2. /\ "submissions" \in All(SubmissionCalls) /\ "retrievals" \in All(RetrievalCalls)
          /\ "retrievalErrors" \in All(RetrievalErrorCalls)
      <4>1. /\ 2 \in DOMAIN SubmissionCalls /\ SubmissionCalls[2] = "submissions"
            /\ 2 \in DOMAIN RetrievalCalls /\ RetrievalCalls[2] = "retrievals"
            /\ 1 \in DOMAIN RetrievalErrorCalls
            /\ RetrievalErrorCalls[1] = "retrievalErrors"
        BY DEF SubmissionCalls, RetrievalCalls, RetrievalErrorCalls
      <4> QED
        BY <4>1 DEF All
    <3>3. /\ Answered("put", {"200"}) \subseteq CountedFor("submissions")
          /\ Answered("get", {"200"}) \subseteq CountedFor("retrievals")
          /\ Answered("get", {"404", "500"}) \subseteq CountedFor("retrievalErrors")
      BY <2>0, <3>1, <3>2 DEF Answered, CountedFor, HandlerCounted
    <3> QED
      BY <3>3, FewerThan
  <2>2. /\ metrics["putDurations"] <= metrics["submissions"] + metrics["submissionErrors"]
        /\ metrics["getDurations"] <= metrics["retrievals"] + metrics["retrievalErrors"]
    <3>1. /\ CountedFor("putDurations")
                \subseteq CountedFor("submissions") \cup CountedFor("submissionErrors")
          /\ CountedFor("getDurations")
                \subseteq CountedFor("retrievals") \cup CountedFor("retrievalErrors")
      BY <2>0, CallsTogether DEF CountedFor
    <3> QED
      BY <3>1, SumOfCounters
  <2>3. /\ metrics["blobSizes"] <= metrics["submissions"]
        /\ metrics["submissions"] <= metrics["submissionDurations"]
    <3>1. /\ CountedFor("blobSizes") \subseteq CountedFor("submissions")
          /\ CountedFor("submissions") \subseteq CountedFor("submissionDurations")
      BY <2>0, CallsTogether DEF CountedFor
    <3> QED
      BY <3>1, FewerThan, CounterSizes
  <2>4. /\ Cardinality(Started) <= metrics["fallbackWrites"] + wg
        /\ metrics["fallbackWrites"] <= Cardinality(Started)
    <3> DEFINE Running == {r \in Req : WriterRuns(r)}
    <3>1. Started \subseteq CountedFor("fallbackWrites") \cup Running
      BY <2>0, EndedWriter DEF Started, CountedFor
    <3>2. wg = Cardinality(Running)
      BY DEF ServerInv, WaitGroupCountsWriters
    <3>3. CountedFor("fallbackWrites") \in SUBSET Req /\ Running \in SUBSET Req
      BY DEF CountedFor
    <3>4. Cardinality(Started) <= metrics["fallbackWrites"] + wg
      BY <3>1, <3>2, <3>3, AtMostBoth, CounterSizes
    <3>5. CountedFor("fallbackWrites") \subseteq Started /\ Started \in SUBSET Req
      BY <2>0, NoneWritten DEF Started, CountedFor
    <3> QED
      BY <3>4, <3>5, MoreThan
  <2>5. /\ Cardinality(Failed) <= metrics["fallbackWriteErrors"]
        /\ metrics["fallbackWriteErrors"] <= metrics["fallbackWrites"]
    <3>1. /\ Failed \subseteq CountedFor("fallbackWriteErrors")
          /\ CountedFor("fallbackWriteErrors") \subseteq CountedFor("fallbackWrites")
      BY <2>0, ErrorsAreWrites DEF Failed, CountedFor, WriterCounted, OfWriters
    <3> QED
      BY <3>1, FewerThan, CounterSizes
  <2>6. inclusionHeight # 0 =>
            \E r \in Req : /\ op[r] = "put" /\ included[r] = inclusionHeight
                           /\ "submissions" \in counted[r]
    BY DEF MetricsInv, GaugeSet
  <2> QED
    BY <2>1, <2>2, <2>3, <2>4, <2>5, <2>6 DEF CountersAgree
<1> QED
  BY <1>1, ServerInvariance, MetricsInvariance, PTL

\* WritesCounted holds in every reachable state: when the wait group is drained
\* no write is missing from the counters.
THEOREM WritesCountedAlways == MetricsSpec => []WritesCounted
<1>1. ServerInv /\ MetricsInv => WritesCounted
  <2> SUFFICES ASSUME ServerInv, MetricsInv, Lives, wg = 0
               PROVE  /\ metrics["fallbackWrites"] = Cardinality(Started)
                      /\ metrics["fallbackWriteErrors"] = Cardinality(Failed)
    BY DEF WritesCounted
  <2>0. TypeOK /\ \A r \in Req : WriterCounted(r)
    BY DEF ServerInv, MetricsInv
  <2>1. \A r \in Req : ~WriterRuns(r)
    BY RunningCounted
  <2>2. CountedFor("fallbackWrites") = Started
    BY <2>0, <2>1, NoneWritten, EndedWriter DEF Started, CountedFor
  <2>3. CountedFor("fallbackWriteErrors") = Failed
    BY <2>0, <2>1, NoneWritten, EndedWriter DEF Failed, CountedFor, WriterRuns
  <2> QED
    BY <2>2, <2>3, CounterSizes DEF Counters
<1> QED
  BY <1>1, ServerInvariance, MetricsInvariance, PTL

\* RequestsCounted holds in every reachable state: when no handler runs every
\* accepted request but a panicked one is in exactly one of its two counters.
THEOREM RequestsCountedAlways == MetricsSpec => []RequestsCounted
<1>1. ServerInv /\ MetricsInv => RequestsCounted
  <2> SUFFICES ASSUME ServerInv, MetricsInv, Lives, Quiet PROVE RequestsCounted
    BY DEF RequestsCounted
  <2> USE DEF Counters
  <2>0. /\ TypeOK /\ \A r \in Req : RequestOK(r) /\ HandlerCounted(r)
    BY DEF ServerInv, MetricsInv
  <2>1. \A r \in Req : QuietCalls(r)
    BY <2>0, QuietHandler DEF Quiet
  <2>3. metrics["putDurations"] = metrics["submissions"] + metrics["submissionErrors"]
    <3>1. /\ CountedFor("putDurations")
                = CountedFor("submissions") \cup CountedFor("submissionErrors")
          /\ CountedFor("submissions") \cap CountedFor("submissionErrors") = {}
      BY <2>1 DEF QuietCalls, CountedFor
    <3> QED
      BY <3>1, SumOfCounters
  <2>4. metrics["getDurations"] = metrics["retrievals"] + metrics["retrievalErrors"]
    <3>1. /\ CountedFor("getDurations")
                = CountedFor("retrievals") \cup CountedFor("retrievalErrors")
          /\ CountedFor("retrievals") \cap CountedFor("retrievalErrors") = {}
      BY <2>1 DEF QuietCalls, CountedFor
    <3> QED
      BY <3>1, SumOfCounters
  <2>5. /\ metrics["putDurations"] <= Cardinality(Accepted("put"))
        /\ config.compact => metrics["putDurations"] = Cardinality(Accepted("put"))
        /\ metrics["getDurations"] = Cardinality(Accepted("get"))
    <3>1. /\ CountedFor("putDurations") \subseteq Accepted("put")
          /\ config.compact => CountedFor("putDurations") = Accepted("put")
          /\ CountedFor("getDurations") = Accepted("get")
          /\ Accepted("put") \in SUBSET Req
      BY <2>1 DEF QuietCalls, CountedFor, Accepted
    <3> QED
      BY <3>1, MoreThan, CounterSizes
  <2>6. /\ metrics["submissions"] = metrics["blobSizes"]
        /\ metrics["submissions"] = metrics["submissionDurations"]
        /\ metrics["retrievals"] = metrics["retrievalDurations"]
    <3>1. /\ CountedFor("submissions") = CountedFor("blobSizes")
          /\ CountedFor("submissions") = CountedFor("submissionDurations")
          /\ CountedFor("retrievals") = CountedFor("retrievalDurations")
      BY <2>1 DEF QuietCalls, CountedFor
    <3> QED
      BY <3>1, CounterSizes
  <2>7. metrics["submissions"] # 0 => inclusionHeight # 0
    <3>1. metrics["submissions"] # 0 => CountedFor("submissions") # {}
      BY CounterSizes, FS_EmptySet
    <3>2. CountedFor("submissions") \subseteq CountedFor("inclusionHeight")
      BY <2>1 DEF QuietCalls, CountedFor
    <3> QED
      BY <3>1, <3>2 DEF MetricsInv, GaugeSet
  <2> QED
    BY <2>3, <2>4, <2>5, <2>6, <2>7 DEF RequestsCounted
<1> QED
  BY <1>1, ServerInvariance, MetricsInvariance, PTL
=============================================================================
