-------------------------- MODULE ServerLifecycle --------------------------
(***************************************************************************)
(* Start and stop of the DA server process: StartDAServer, Start and Stop, *)
(* with the goroutines that run beside them - the HTTP server's Serve, the *)
(* handlers and the fallback writers they leave behind, the metrics        *)
(* server, and the goroutine that waits for the wait group.                *)
(*                                                                         *)
(* net/http is external.  Serve accepts connections; the handler of a      *)
(* connection starts when its request has been read.  Shutdown stops       *)
(* accepting, closes connections without a running handler, and returns    *)
(* nil once no connection is left, or the context's error; a handler of a  *)
(* connection accepted earlier may start as long as it was not closed.     *)
(***************************************************************************)
EXTENDS Integers, FiniteSets

CONSTANTS
    Conn,               \* connections, one request each
    MetricsEnabled,     \* d.metricsEnabled
    WritesFallback,     \* handlers start fallback writers
    StartCancellable    \* Start's context may end; main's never does

ASSUME LifecycleAssumption ==
    /\ IsFiniteSet(Conn)
    /\ MetricsEnabled \in BOOLEAN /\ WritesFallback \in BOOLEAN
    /\ StartCancellable \in BOOLEAN

VARIABLES
    main,           \* where StartDAServer is
    serve,          \* the goroutine that runs httpServer.Serve
    errCh,          \* the error Serve left for Start
    metricsServer,  \* the goroutine that runs the metrics server
    scraping,       \* the metrics server answers a request
    interrupted,    \* a signal came
    conn,           \* state of each connection
    writer,         \* the putFallback goroutine of each connection's handler
    wg,             \* CelestiaServer.wg
    waiter,         \* the goroutine that waits for wg and closes done
    errs,           \* errs of Stop
    completed       \* "All pending fallback operations completed" was logged

procVars == <<main, serve, errCh, metricsServer, interrupted>>
connVars == <<conn, writer, wg>>
stopVars == <<waiter, errs, completed>>
vars == <<procVars, scraping, connVars, stopVars>>

Running  == {"starting", "waiting", "shutdown", "metrics", "drain"}
MainPcs  == {"init", "exited"} \cup Running
StopErrs == {"http", "metrics", "timeout"}

Init ==
    /\ main          = "init"
    /\ serve         = "off"
    /\ errCh         = FALSE
    /\ metricsServer = "off"
    /\ scraping      = FALSE
    /\ interrupted   = FALSE
    /\ conn          = [c \in Conn |-> "none"]
    /\ writer        = [c \in Conn |-> "none"]
    /\ wg            = 0
    /\ waiter        = "off"
    /\ errs          = {}
    /\ completed     = FALSE

MainFrom(from, to) == main = from /\ main' = to

Alive == main \in Running
-----------------------------------------------------------------------------
(***************************************************************************)
(* Start.                                                                  *)
(***************************************************************************)

\* net.Listen succeeds; the servers' goroutines are started.
StartListen ==
    /\ MainFrom("init", "starting")
    /\ serve' = "serving"
    /\ metricsServer' = IF MetricsEnabled THEN "serving" ELSE "off"
    /\ UNCHANGED <<errCh, scraping, interrupted, connVars, stopVars>>

StartListenFails ==
    /\ MainFrom("init", "exited")
    /\ UNCHANGED <<serve, errCh, metricsServer, scraping, interrupted, connVars,
                   stopVars>>

\* Serve gave up within the 10 ms: StartDAServer returns without Stop.
StartServeError ==
    /\ MainFrom("starting", "exited")
    /\ errCh /\ errCh' = FALSE
    /\ UNCHANGED <<serve, metricsServer, scraping, interrupted, connVars, stopVars>>

StartCancelled ==
    /\ MainFrom("starting", "exited")
    /\ StartCancellable
    /\ UNCHANGED <<serve, errCh, metricsServer, scraping, interrupted, connVars,
                   stopVars>>

\* 10 ms passed.  The select may choose this even when the error is there.
StartOk ==
    /\ MainFrom("starting", "waiting")
    /\ UNCHANGED <<serve, errCh, metricsServer, scraping, interrupted, connVars,
                   stopVars>>

\* Serve ends with an error; nobody reads errCh after Start returned.
ServeFails ==
    /\ Alive /\ serve = "serving"
    /\ serve' = "failed" /\ errCh' = TRUE
    /\ UNCHANGED <<main, metricsServer, scraping, interrupted, connVars, stopVars>>

\* ListenAndServe of the metrics server fails: only logged.
MetricsServeFails ==
    /\ Alive /\ metricsServer = "serving" /\ ~scraping
    /\ metricsServer' = "failed"
    /\ UNCHANGED <<main, serve, errCh, scraping, interrupted, connVars, stopVars>>

\* SIGINT or SIGTERM.
Interrupt ==
    /\ main # "exited" /\ ~interrupted
    /\ interrupted' = TRUE
    /\ UNCHANGED <<main, serve, errCh, metricsServer, scraping, connVars, stopVars>>
-----------------------------------------------------------------------------
(***************************************************************************)
(* Connections, handlers, writers, scrapes.                                *)
(***************************************************************************)
Accept(c) ==
    /\ Alive /\ serve = "serving" /\ conn[c] = "none"
    /\ conn' = [conn EXCEPT ![c] = "accepted"]
    /\ UNCHANGED <<procVars, scraping, writer, wg, stopVars>>

HandlerStart(c) ==
    /\ Alive /\ conn[c] = "accepted"
    /\ conn' = [conn EXCEPT ![c] = "active"]
    /\ UNCHANGED <<procVars, scraping, writer, wg, stopVars>>

\* d.wg.Add(1); go d.putFallback(...)
HandlerSpawn(c) ==
    /\ Alive /\ conn[c] = "active" /\ writer[c] = "none" /\ WritesFallback
    /\ writer' = [writer EXCEPT ![c] = "running"]
    /\ wg'     = wg + 1
    /\ UNCHANGED <<procVars, scraping, conn, stopVars>>

HandlerEnd(c) ==
    /\ Alive /\ conn[c] = "active"
    /\ conn' = [conn EXCEPT ![c] = "closed"]
    /\ UNCHANGED <<procVars, scraping, writer, wg, stopVars>>

\* Mutant: Done is called on return and once more on the error path.
WriterEndTwice(c) ==
    /\ Alive /\ writer[c] = "running"
    /\ writer' = [writer EXCEPT ![c] = "ended"]
    /\ wg'     = wg - 2
    /\ UNCHANGED <<procVars, scraping, conn, stopVars>>

WriterEnd(c) ==
    /\ Alive /\ writer[c] = "running"
    /\ writer' = [writer EXCEPT ![c] = "ended"]
    /\ wg'     = wg - 1
    /\ UNCHANGED <<procVars, scraping, conn, stopVars>>

Scrape ==
    /\ Alive /\ (scraping \/ metricsServer = "serving")
    /\ scraping' = ~scraping
    /\ UNCHANGED <<procVars, connVars, stopVars>>
-----------------------------------------------------------------------------
(***************************************************************************)
(* ctxinterrupt.Wait returns and the deferred Stop runs.                   *)
(***************************************************************************)

\* Mutant: connections are drained, but the listener stays open.
StopBeginListening ==
    /\ MainFrom("waiting", "shutdown")
    /\ interrupted
    /\ UNCHANGED <<serve, errCh, metricsServer, scraping, interrupted, connVars,
                   stopVars>>

\* httpServer.Shutdown closes the listener; Serve returns ErrServerClosed.
StopBegin ==
    /\ MainFrom("waiting", "shutdown")
    /\ interrupted
    /\ serve' = IF serve = "serving" THEN "closed" ELSE serve
    /\ UNCHANGED <<errCh, metricsServer, scraping, interrupted, connVars, stopVars>>

CloseIdle(c) ==
    /\ main = "shutdown" /\ conn[c] = "accepted"
    /\ conn' = [conn EXCEPT ![c] = "closed"]
    /\ UNCHANGED <<procVars, scraping, writer, wg, stopVars>>

AfterHTTP == IF MetricsEnabled THEN "metrics" ELSE "drain"

\* The goroutine over wg.Wait is started before Stop starts to wait for it.
WaiterFor(next) == waiter' = IF next = "drain" THEN "waiting" ELSE waiter

NoConnections == \A c \in Conn : conn[c] \in {"none", "closed"}

ShutdownReturns ==
    /\ MainFrom("shutdown", AfterHTTP)
    /\ NoConnections
    /\ metricsServer' = IF metricsServer = "serving" THEN "closed" ELSE metricsServer
    /\ WaiterFor(AfterHTTP)
    /\ UNCHANGED <<serve, errCh, scraping, interrupted, connVars, errs, completed>>

\* Mutant: the error of Shutdown is logged and not returned.
ShutdownTimeoutLogged ==
    /\ MainFrom("shutdown", AfterHTTP)
    /\ metricsServer' = IF metricsServer = "serving" THEN "closed" ELSE metricsServer
    /\ WaiterFor(AfterHTTP)
    /\ UNCHANGED <<serve, errCh, scraping, interrupted, connVars, errs, completed>>

\* The 5 s are over, whatever still runs.
ShutdownTimeout ==
    /\ MainFrom("shutdown", AfterHTTP)
    /\ errs' = errs \cup {"http"}
    /\ metricsServer' = IF metricsServer = "serving" THEN "closed" ELSE metricsServer
    /\ WaiterFor(AfterHTTP)
    /\ UNCHANGED <<serve, errCh, scraping, interrupted, connVars, completed>>

\* metricsServer.Shutdown, on what is left of the same 5 s.
MetricsShutdownReturns ==
    /\ MainFrom("metrics", "drain")
    /\ ~scraping
    /\ WaiterFor("drain")
    /\ UNCHANGED <<serve, errCh, metricsServer, scraping, interrupted, connVars,
                   errs, completed>>

MetricsShutdownTimeout ==
    /\ MainFrom("metrics", "drain")
    /\ scraping
    /\ errs' = errs \cup {"metrics"}
    /\ WaiterFor("drain")
    /\ UNCHANGED <<serve, errCh, metricsServer, scraping, interrupted, connVars,
                   completed>>

\* wg.Wait returns, done is closed.  Not undone by a later Add.
WaiterDone ==
    /\ Alive /\ waiter = "waiting" /\ wg = 0
    /\ waiter' = "done"
    /\ UNCHANGED <<procVars, scraping, connVars, errs, completed>>

DrainDone ==
    /\ MainFrom("drain", "exited")
    /\ waiter = "done"
    /\ completed' = TRUE
    /\ UNCHANGED <<serve, errCh, metricsServer, scraping, interrupted, connVars,
                   waiter, errs>>

\* Mutant: Stop waits for the wait group without a timer.
DrainUntimed ==
    /\ waiter = "done"
    /\ MainFrom("drain", "exited")
    /\ errs' = errs \cup {"timeout"}
    /\ UNCHANGED <<serve, errCh, metricsServer, scraping, interrupted, connVars,
                   waiter, completed>>

\* The 10 s are over; the select may choose this even when done is closed.
DrainTimeout ==
    /\ MainFrom("drain", "exited")
    /\ errs' = errs \cup {"timeout"}
    /\ UNCHANGED <<serve, errCh, metricsServer, scraping, interrupted, connVars,
                   waiter, completed>>

\* The process is gone, and every goroutine with it.
Exited == main = "exited" /\ UNCHANGED vars
-----------------------------------------------------------------------------
MainStep ==
    \/ StartListen \/ StartListenFails \/ StartServeError \/ StartCancelled \/ StartOk
    \/ StopBegin \/ ShutdownReturns \/ ShutdownTimeout
    \/ MetricsShutdownReturns \/ MetricsShutdownTimeout
    \/ DrainDone \/ DrainTimeout

ConnStep(c) ==
    \/ Accept(c) \/ HandlerStart(c) \/ HandlerSpawn(c) \/ HandlerEnd(c)
    \/ WriterEnd(c) \/ CloseIdle(c)

Next ==
    \/ MainStep
    \/ \E c \in Conn : ConnStep(c)
    \/ ServeFails \/ MetricsServeFails \/ Interrupt \/ Scrape \/ WaiterDone
    \/ Exited

Spec == Init /\ [][Next]_vars

(***************************************************************************)
(* Every wait of the main goroutine but the one for a signal has a timer:  *)
(* 10 ms in Start, 5 s in Shutdown, 10 s for the wait group.  Handlers,    *)
(* writers and scrapes may hang forever.                                   *)
(***************************************************************************)
FairSpec == Spec /\ WF_vars(MainStep)
-----------------------------------------------------------------------------
(***************************************************************************)
(* Properties.                                                             *)
(***************************************************************************)

\* The type invariant of the process's state.
TypeOK ==
    /\ main          \in MainPcs
    /\ serve         \in {"off", "serving", "failed", "closed"}
    /\ errCh         \in BOOLEAN
    /\ metricsServer \in {"off", "serving", "failed", "closed"}
    /\ scraping      \in BOOLEAN
    /\ interrupted   \in BOOLEAN
    /\ conn          \in [Conn -> {"none", "accepted", "active", "closed"}]
    /\ writer        \in [Conn -> {"none", "running", "ended"}]
    /\ wg            \in Nat
    /\ waiter        \in {"off", "waiting", "done"}
    /\ errs          \in SUBSET StopErrs
    /\ completed     \in BOOLEAN

Stopped == main = "exited" /\ waiter # "off"

\* When Stop returns nil, no handler was cut off and no fallback write is lost:
\* everything the server had taken on is finished, though Wait may have
\* returned before or while handlers were still adding writers.
StopNilMeansDrained ==
    Stopped /\ errs = {} =>
        \A c \in Conn : conn[c] \notin {"accepted", "active"} /\ writer[c] # "running"

\* After Shutdown returned nil no handler starts and no writer is added, so the
\* wait group only goes down while Stop waits for it.
NoAddAfterCleanShutdown ==
    [][(main \in {"metrics", "drain"} /\ "http" \notin errs) => (wg' <= wg)]_vars

(***************************************************************************)
(* The strengthening that makes the two inductive.  Stop depends on three  *)
(* facts in turn: no connection is accepted once it began, so none is left *)
(* after a clean Shutdown, so nothing adds to the wait group any more and  *)
(* the waiter's "done" is not overtaken.                                   *)
(***************************************************************************)
WaitGroupCountsWriters == wg = Cardinality({c \in Conn : writer[c] = "running"})

\* Shutdown returned nil and Stop went on.
ShutdownClean ==
    (main \in {"metrics", "drain"} \/ Stopped) /\ "http" \notin errs

\* What the process's goroutines may rely on in each phase of the stop.
StopInv ==
    /\ TypeOK
    /\ WaitGroupCountsWriters
    /\ main \in {"init", "shutdown", "metrics", "drain"} => serve # "serving"
    /\ main \in {"init", "starting", "waiting", "shutdown", "metrics"}
           => waiter = "off"
    /\ main \in {"init", "starting", "waiting", "shutdown"} => errs = {}
    /\ main = "drain" => waiter # "off"
    /\ ShutdownClean => NoConnections
    /\ ShutdownClean /\ waiter = "done" => wg = 0
    /\ Stopped /\ errs = {} => waiter = "done"

\* A signal stops the process, even when handlers, writers and scrapes hang.
InterruptStops == interrupted ~> main = "exited"

\* The log line of Stop, "All pending fallback operations completed", and the
\* comment on wg, "Track pending async operations for graceful shutdown": when
\* the line was written, the exit cuts off no fallback write.  A run refutes it.
CompletedMeansDrained ==
    completed => \A c \in Conn : writer[c] # "running"
=============================================================================
