----------------------- MODULE ServerLifecycleProofs -----------------------
(***************************************************************************)
(* Proofs about ServerLifecycle: StopInv is an invariant, for any finite   *)
(* set of connections and any configuration, and with it TypeOK and        *)
(* StopNilMeansDrained; NoAddAfterCleanShutdown follows for every step.    *)
(***************************************************************************)
EXTENDS ServerLifecycle, FiniteSetTheorems, TLAPS

USE DEF Running, MainPcs, StopErrs, MainFrom, Alive, procVars, connVars, stopVars

RunningWriters == {c \in Conn : writer[c] = "running"}

-----------------------------------------------------------------------------
(***************************************************************************)
(* The wait group.                                                         *)
(***************************************************************************)

\* The running writers are finitely many.
LEMMA RunningFinite == IsFiniteSet(RunningWriters) /\ Cardinality(RunningWriters) \in Nat
<1>1. RunningWriters \subseteq Conn
  BY DEF RunningWriters
<1> QED
  BY <1>1, LifecycleAssumption, FS_Subset, FS_CardinalityType

\* Add in a handler: one more writer, one more in the group.
LEMMA CountUp ==
  ASSUME TypeOK, WaitGroupCountsWriters, NEW c \in Conn, HandlerSpawn(c)
  PROVE  WaitGroupCountsWriters'
<1>1. RunningWriters' = RunningWriters \cup {c}
  BY DEF RunningWriters, HandlerSpawn, TypeOK
<1>2. c \notin RunningWriters
  BY DEF RunningWriters, HandlerSpawn
<1> QED
  BY <1>1, <1>2, RunningFinite, FS_AddElement
     DEF RunningWriters, HandlerSpawn, WaitGroupCountsWriters

\* Done in a writer: one writer fewer, and the group was not empty.
LEMMA CountDown ==
  ASSUME TypeOK, WaitGroupCountsWriters, NEW c \in Conn, WriterEnd(c)
  PROVE  WaitGroupCountsWriters' /\ wg' \in Nat /\ wg' < wg /\ wg # 0
<1>1. RunningWriters' = RunningWriters \ {c}
  BY DEF RunningWriters, WriterEnd, TypeOK
<1>2. c \in RunningWriters
  BY DEF RunningWriters, WriterEnd
<1>3. Cardinality(RunningWriters \ {c}) = Cardinality(RunningWriters) - 1
  BY <1>2, RunningFinite, FS_RemoveElement
<1>4. Cardinality(RunningWriters) # 0
  BY <1>2, RunningFinite, FS_EmptySet
<1>5. wg = Cardinality(RunningWriters) /\ wg' = wg - 1
  BY DEF WriterEnd, WaitGroupCountsWriters, RunningWriters
<1>6. WaitGroupCountsWriters'
  BY <1>1, <1>3, <1>5 DEF RunningWriters, WaitGroupCountsWriters
<1> QED
  BY <1>4, <1>5, <1>6, RunningFinite

\* Every other step leaves writers and wait group alone.
LEMMA CountSame ==
  ASSUME WaitGroupCountsWriters, UNCHANGED <<writer, wg>>
  PROVE  WaitGroupCountsWriters'
BY DEF WaitGroupCountsWriters

-----------------------------------------------------------------------------
(***************************************************************************)
(* StopInv is inductive.                                                   *)
(***************************************************************************)

LEMMA InitInv == Init => StopInv
<1> SUFFICES ASSUME Init PROVE StopInv
  OBVIOUS
<1>1. RunningWriters = {}
  BY DEF RunningWriters, Init
<1>2. WaitGroupCountsWriters
  BY <1>1, FS_EmptySet DEF WaitGroupCountsWriters, RunningWriters, Init
<1> QED
  BY <1>2 DEF Init, StopInv, TypeOK, ShutdownClean, Stopped

\* The goroutine that runs StartDAServer: nothing it does touches connections,
\* writers or the wait group.
LEMMA MainKeeps == StopInv /\ MainStep => StopInv'
<1> SUFFICES ASSUME StopInv, MainStep PROVE StopInv'
  OBVIOUS
<1> USE DEF StopInv, TypeOK, WaitGroupCountsWriters, ShutdownClean, Stopped,
            NoConnections
<1>1. CASE StartListen \/ StartListenFails
  BY <1>1 DEF StartListen, StartListenFails
<1>2. CASE StartServeError \/ StartCancelled \/ StartOk
  BY <1>2 DEF StartServeError, StartCancelled, StartOk
<1>3. CASE StopBegin
  BY <1>3 DEF StopBegin
<1>4. CASE ShutdownReturns
  BY <1>4 DEF ShutdownReturns, AfterHTTP, WaiterFor
<1>5. CASE ShutdownTimeout
  BY <1>5 DEF ShutdownTimeout, AfterHTTP, WaiterFor
<1>6. CASE MetricsShutdownReturns \/ MetricsShutdownTimeout
  BY <1>6 DEF MetricsShutdownReturns, MetricsShutdownTimeout, WaiterFor
<1>7. CASE DrainDone
  BY <1>7 DEF DrainDone
<1>8. CASE DrainTimeout
  BY <1>8 DEF DrainTimeout
<1> QED
  BY <1>1, <1>2, <1>3, <1>4, <1>5, <1>6, <1>7, <1>8 DEF MainStep

\* Connections, handlers and writers.
LEMMA ConnKeeps ==
  ASSUME StopInv, NEW c \in Conn, ConnStep(c)
  PROVE  StopInv'
<1> USE DEF StopInv, TypeOK, ShutdownClean, Stopped, NoConnections
<1>1. CASE Accept(c)
  <2>1. WaitGroupCountsWriters' /\ ~ShutdownClean
    BY <1>1, CountSame DEF Accept
  <2> QED
    BY <1>1, <2>1 DEF Accept
<1>2. CASE HandlerStart(c)
  <2>1. WaitGroupCountsWriters' /\ ~ShutdownClean
    BY <1>2, CountSame DEF HandlerStart
  <2> QED
    BY <1>2, <2>1 DEF HandlerStart
<1>6. CASE HandlerEnd(c)
  <2>1. WaitGroupCountsWriters' /\ ~ShutdownClean
    BY <1>6, CountSame DEF HandlerEnd
  <2> QED
    BY <1>6, <2>1 DEF HandlerEnd
<1>5. CASE CloseIdle(c)
  <2>1. WaitGroupCountsWriters'
    BY <1>5, CountSame DEF CloseIdle
  <2> QED
    BY <1>5, <2>1 DEF CloseIdle
<1>3. CASE HandlerSpawn(c)
  <2>1. WaitGroupCountsWriters'
    BY <1>3, CountUp
  <2>2. ~ShutdownClean
    BY <1>3 DEF HandlerSpawn
  <2> QED
    BY <1>3, <2>1, <2>2 DEF HandlerSpawn
<1>4. CASE WriterEnd(c)
  <2>1. WaitGroupCountsWriters' /\ wg' \in Nat /\ wg # 0
    BY <1>4, CountDown
  <2> QED
    BY <1>4, <2>1 DEF WriterEnd
<1> QED
  BY <1>1, <1>2, <1>3, <1>4, <1>5, <1>6 DEF ConnStep

\* The servers' goroutines, signals, scrapes and the waiter.
LEMMA OthersKeep ==
  ASSUME StopInv,
         \/ ServeFails \/ MetricsServeFails \/ Interrupt \/ Scrape \/ WaiterDone
         \/ Exited \/ UNCHANGED vars
  PROVE  StopInv'
<1>1. WaitGroupCountsWriters'
  BY CountSame DEF StopInv, ServeFails, MetricsServeFails, Interrupt, Scrape,
     WaiterDone, Exited, vars
<1> USE DEF StopInv, TypeOK, ShutdownClean, Stopped, NoConnections
<1>2. CASE ServeFails \/ MetricsServeFails
  BY <1>1, <1>2 DEF ServeFails, MetricsServeFails
<1>3. CASE Interrupt
  BY <1>1, <1>3 DEF Interrupt
<1>6. CASE Scrape
  BY <1>1, <1>6 DEF Scrape
<1>4. CASE WaiterDone
  BY <1>1, <1>4 DEF WaiterDone
<1>5. CASE Exited \/ UNCHANGED vars
  <2>1. UNCHANGED vars
    BY <1>5 DEF Exited
  <2> QED
    BY <1>1, <2>1 DEF vars
<1> QED
  BY <1>2, <1>3, <1>4, <1>5, <1>6

-----------------------------------------------------------------------------
(***************************************************************************)
(* The theorems.                                                           *)
(***************************************************************************)

\* StopInv holds in every state the process can reach.
THEOREM Invariance == Spec => []StopInv
<1>1. Init => StopInv
  BY InitInv
<1>2. StopInv /\ [Next]_vars => StopInv'
  BY MainKeeps, ConnKeeps, OthersKeep DEF Next
<1> QED
  BY <1>1, <1>2, PTL DEF Spec

\* The process's state stays well typed, its wait group included.
THEOREM TypeCorrect == Spec => []TypeOK
<1>1. StopInv => TypeOK
  BY DEF StopInv
<1> QED
  BY <1>1, Invariance, PTL

\* A nil result of Stop means that no handler was cut off and that no fallback
\* write is lost, however many connections there were.
THEOREM NilMeansDrained == Spec => []StopNilMeansDrained
<1>1. StopInv => StopNilMeansDrained
  <2> SUFFICES ASSUME StopInv, Stopped, errs = {}, NEW c \in Conn
               PROVE  conn[c] \notin {"accepted", "active"} /\ writer[c] # "running"
    BY DEF StopNilMeansDrained
  <2>1. wg = 0 /\ NoConnections
    BY DEF StopInv, ShutdownClean
  <2>2. RunningWriters = {}
    BY <2>1, RunningFinite, FS_EmptySet
       DEF StopInv, WaitGroupCountsWriters, RunningWriters
  <2> QED
    BY <2>1, <2>2 DEF NoConnections, RunningWriters
<1> QED
  BY <1>1, Invariance, PTL

\* After a clean Shutdown the wait group only goes down.
THEOREM NothingAdded == Spec => NoAddAfterCleanShutdown
<1> DEFINE Calm == (main \in {"metrics", "drain"} /\ "http" \notin errs)
                       => (wg' <= wg)
<1>1. StopInv /\ [Next]_vars => Calm
  <2> SUFFICES ASSUME StopInv, [Next]_vars,
                      main \in {"metrics", "drain"}, "http" \notin errs
               PROVE  wg' <= wg
    OBVIOUS
  <2>1. ASSUME NEW c \in Conn, HandlerSpawn(c) PROVE FALSE
    BY <2>1 DEF StopInv, ShutdownClean, NoConnections, HandlerSpawn
  <2>2. ASSUME NEW c \in Conn, WriterEnd(c) PROVE wg' <= wg
    BY <2>2 DEF StopInv, TypeOK, WriterEnd
  <2>3. ASSUME NEW c \in Conn, ConnStep(c) PROVE wg' <= wg
    BY <2>1, <2>2, <2>3 DEF ConnStep, Accept, HandlerStart, HandlerEnd, CloseIdle,
       StopInv, TypeOK
  <2>4. CASE MainStep
    BY <2>4 DEF MainStep, StartListen, StartListenFails, StartServeError,
       StartCancelled, StartOk, StopBegin, ShutdownReturns, ShutdownTimeout,
       MetricsShutdownReturns, MetricsShutdownTimeout, DrainDone, DrainTimeout,
       StopInv, TypeOK
  <2>5. CASE \/ ServeFails \/ MetricsServeFails \/ Interrupt \/ Scrape
             \/ WaiterDone \/ Exited \/ UNCHANGED vars
    BY <2>5 DEF ServeFails, MetricsServeFails, Interrupt, Scrape, WaiterDone,
       Exited, vars, StopInv, TypeOK
  <2> QED
    BY <2>3, <2>4, <2>5 DEF Next
<1>2. StopInv /\ [Next]_vars => [Calm]_vars
  BY <1>1
<1> QED
  BY <1>2, Invariance, PTL DEF Spec, NoAddAfterCleanShutdown
=============================================================================
