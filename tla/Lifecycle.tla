------------------------------ MODULE Lifecycle ------------------------------
(***************************************************************************)
(* The life of the backend process: startApplication in index.mjs, the     *)
(* shutdown controller and the process handlers of lifecycle.mjs, the      *)
(* availability gate and the readiness probe, around the connections of    *)
(* the HTTP server and the MySQL pool that they open and close.            *)
(*                                                                         *)
(* The controller only sets process.exitCode: the process ends when        *)
(* nothing is left to wait for.  Node's http.Server, the pool and the      *)
(* delivery of signals are external, modelled from how they are used.      *)
(***************************************************************************)
EXTENDS Naturals, FiniteSets

CONSTANTS
    Clients,        \* HTTP connections
    Signals,        \* the signals handled: SIGTERM, SIGINT
    Errors          \* uncaughtException, unhandledRejection

NoReason == "no reason"

ASSUME LifecycleAssumption ==
    /\ Signals \cap Errors = {}
    /\ NoReason \notin Signals \cup Errors

VARIABLES
    stage,          \* how far startApplication has come
    databaseReady,  \* runtimeState.databaseReady
    shuttingDown,   \* runtimeState.shuttingDown
    reason,         \* runtimeState.shutdownReason
    handlers,       \* the process.once handlers still installed
    server,         \* the HTTP server
    pool,           \* the MySQL pool
    conn,           \* what a connection is being used for
    graceful,       \* how far gracefulWork has come
    race,           \* Promise.race of gracefulWork and the timeout
    exitCode,       \* process.exitCode
    process         \* the process itself

lifecycleVars == <<stage, databaseReady, shuttingDown, reason, handlers, server, pool,
          conn, graceful, race, exitCode, process>>

Reasons == Signals \cup Errors

\* A connection is "idle" between two requests, in "work" for a request that
\* was let through, in "probe" for one that awaits checkDatabase; "cut": its
\* handler is still running, its socket is gone.
LifecycleTypeOK ==
    /\ stage \in {"database", "rag", "up", "failed"}
    /\ databaseReady \in BOOLEAN
    /\ shuttingDown \in BOOLEAN
    /\ reason \in Reasons \cup {NoReason}
    /\ handlers \subseteq Reasons
    /\ server \in {"none", "listening", "closing", "closed"}
    /\ pool \in {"unused", "open", "closing", "closed"}
    /\ conn \in [Clients -> {"closed", "idle", "work", "probe", "cut"}]
    /\ graceful \in {"none", "server", "database", "done", "rejected"}
    /\ race \in {"none", "racing", "completed", "failed"}
    /\ exitCode \in {"unset", "ok", "error"}
    /\ process \in {"running", "ended", "killed"}

LifecycleInit ==
    /\ stage = "database"
    /\ databaseReady = FALSE
    /\ shuttingDown = FALSE
    /\ reason = NoReason
    /\ handlers = {}
    /\ server = "none"
    /\ pool = "unused"
    /\ conn = [c \in Clients |-> "closed"]
    /\ graceful = "none"
    /\ race = "none"
    /\ exitCode = "unset"
    /\ process = "running"

startVars == <<stage, databaseReady>>
stopVars == <<shuttingDown, reason, handlers, graceful, race, exitCode>>
Running == process = "running"
-----------------------------------------------------------------------------
(***************************************************************************)
(* Starting.                                                               *)
(***************************************************************************)
DatabaseInitialised ==
    /\ Running
    /\ stage = "database"
    /\ stage' = "rag"
    /\ databaseReady' = TRUE
    /\ pool' = "open"
    /\ UNCHANGED <<stopVars, server, conn, process>>

\* initDatabase throws, before or after the pool got a connection.  The pool
\* is only closed when databaseReady.
StartFails ==
    /\ Running
    /\ stage = "database"
    /\ stage' = "failed"
    /\ exitCode' = "error"
    /\ pool' \in {"unused", "open"}
    /\ UNCHANGED <<databaseReady, shuttingDown, reason, handlers, graceful,
                   race, server, conn, process>>

\* initRAG is over, well or not; listen, then install the handlers.  When the
\* port is taken the callback of app.listen gets the error and drops it.
Listen ==
    /\ Running
    /\ stage = "rag"
    /\ stage' = "up"
    /\ server' \in {"listening", "none"}
    /\ handlers' = Reasons
    /\ UNCHANGED <<databaseReady, shuttingDown, reason, graceful, race,
                   exitCode, pool, conn, process>>
-----------------------------------------------------------------------------
(***************************************************************************)
(* Serving.                                                                *)
(***************************************************************************)
SetConn(c, s) == conn' = [conn EXCEPT ![c] = s]
Serving == UNCHANGED <<startVars, stopVars, server, pool, process>>

Connect(c) ==
    /\ Running
    /\ server = "listening"
    /\ conn[c] = "closed"
    /\ SetConn(c, "idle")
    /\ Serving

\* A request that is not for /health: let through, or, once shutting down,
\* answered with 503 and Connection: close.
AvailabilityGate(c) ==
    /\ Running
    /\ conn[c] = "idle"
    /\ SetConn(c, IF shuttingDown THEN "closed" ELSE "work")
    /\ Serving

\* GET /health/ready when there is something to check; otherwise it answers
\* at once and nothing changes.
Probe(c) ==
    /\ Running
    /\ conn[c] = "idle"
    /\ databaseReady /\ ~shuttingDown
    /\ SetConn(c, "probe")
    /\ Serving

Answer(c) == SetConn(c, "idle") \/ SetConn(c, "closed")

\* The handler of a request is over; the connection is kept or not.
HandlerEnds(c) ==
    /\ Running
    /\ conn[c] = "work"
    /\ Answer(c)
    /\ Serving

\* Mutant: the answer is decided before checkDatabase is awaited.
ReadyWhenAsked(checked) == checked

ReadyAnswer(checked) == checked /\ ~shuttingDown

\* checkDatabase succeeded (only an open pool can), the answer is ready.
ProbeReady(c) ==
    /\ Running
    /\ conn[c] = "probe"
    /\ pool = "open"
    /\ ReadyAnswer(TRUE)
    /\ Answer(c)
    /\ Serving

\* It failed or timed out, or the server began to shut down meanwhile.
ProbeNotReady(c) ==
    /\ Running
    /\ conn[c] = "probe"
    /\ Answer(c)
    /\ Serving

\* The client leaves, or keeps the connection idle for too long.
Leave(c) ==
    /\ Running
    /\ conn[c] \in {"idle", "work", "probe"}
    /\ SetConn(c, IF conn[c] = "idle" THEN "closed" ELSE "cut")
    /\ Serving

\* The handler of a connection that is gone is over.
CutHandlerEnds(c) ==
    /\ Running
    /\ conn[c] = "cut"
    /\ SetConn(c, "closed")
    /\ Serving
-----------------------------------------------------------------------------
(***************************************************************************)
(* Stopping.                                                               *)
(***************************************************************************)
CloseIdle == [c \in Clients |-> IF conn[c] = "idle" THEN "closed" ELSE conn[c]]

\* The shutdown function: the first reason counts, a later one joins the
\* shutdown that is under way.  A server that does not listen cannot be
\* closed: gracefulWork is rejected.
Shutdown(r) ==
    IF race # "none"
    THEN UNCHANGED <<startVars, shuttingDown, reason, race, graceful, server,
                     pool, conn, exitCode, process>>
    ELSE /\ shuttingDown' = TRUE
         /\ reason' = r
         /\ race' = "racing"
         /\ conn' = CloseIdle
         /\ IF server = "listening"
            THEN graceful' = "server" /\ server' = "closing"
            ELSE graceful' = "rejected" /\ UNCHANGED server
         /\ UNCHANGED <<startVars, pool, exitCode, process>>

\* A reason with a handler, which is called once.
Deliver(r) ==
    /\ Running
    /\ r \in handlers
    /\ handlers' = handlers \ {r}
    /\ Shutdown(r)

\* The default: before the handlers are installed, or the second time.
Kill(r) ==
    /\ Running
    /\ r \in Reasons \ handlers
    /\ process' = "killed"
    /\ conn' = [c \in Clients |-> "closed"]
    /\ UNCHANGED <<startVars, stopVars, server, pool>>

Connected == {c \in Clients : conn[c] \in {"idle", "work", "probe"}}

\* Mutant: the pool is closed while the server waits for its connections.
ServerClosesWithPool ==
    /\ Running
    /\ graceful = "server"
    /\ graceful' = "database"
    /\ server' = IF Connected = {} THEN "closed" ELSE server
    /\ pool' = "closing"
    /\ UNCHANGED <<startVars, shuttingDown, reason, handlers, race, exitCode,
                   conn, process>>

\* server.close calls back when the last connection is gone, early or late;
\* closeDatabase follows.
ServerCloses ==
    /\ Running
    /\ graceful = "server"
    /\ Connected = {}
    /\ server' = "closed"
    /\ graceful' = "database"
    /\ pool' = "closing"
    /\ UNCHANGED <<startVars, shuttingDown, reason, handlers, race, exitCode,
                   conn, process>>

PoolCloses ==
    /\ Running
    /\ graceful = "database"
    /\ pool' = "closed"
    /\ graceful' \in {"done", "rejected"}
    /\ UNCHANGED <<startVars, shuttingDown, reason, handlers, race, exitCode,
                   server, conn, process>>

\* gracefulWork was rejected, or the timeout has fired.
Exceeded == graceful # "done"

\* Mutant: an error exits like a signal.
CleanExit(r) == "ok"

ExitCodeOf(r) == IF r \in Errors THEN "error" ELSE "ok"

ShutdownCompletes ==
    /\ Running
    /\ race = "racing"
    /\ graceful = "done"
    /\ race' = "completed"
    /\ exitCode' = ExitCodeOf(reason)
    /\ UNCHANGED <<startVars, shuttingDown, reason, handlers, graceful, server,
                   pool, conn, process>>

\* Mutant: the timeout ends the wait, and no connection.
LeaveConnections == conn

CloseAllConnections ==
    [c \in Clients |-> IF conn[c] = "idle" THEN "closed"
                       ELSE IF conn[c] \in {"work", "probe"} THEN "cut"
                       ELSE conn[c]]

ShutdownFails ==
    /\ Running
    /\ race = "racing"
    /\ Exceeded
    /\ race' = "failed"
    /\ exitCode' = "error"
    /\ conn' = CloseAllConnections
    /\ UNCHANGED <<startVars, shuttingDown, reason, handlers, graceful, server,
                   pool, process>>

\* Nothing keeps the event loop alive any more.
ProcessEnds ==
    /\ Running
    /\ stage \in {"up", "failed"}
    /\ server \in {"none", "closed"}
    /\ pool \in {"unused", "closed"}
    /\ race # "racing"
    /\ \A c \in Clients : conn[c] = "closed"
    /\ process' = "ended"
    /\ UNCHANGED <<startVars, stopVars, server, pool, conn>>
-----------------------------------------------------------------------------
LifecycleNext ==
    \/ DatabaseInitialised \/ StartFails \/ Listen
    \/ \E c \in Clients :
        \/ Connect(c) \/ AvailabilityGate(c) \/ Probe(c) \/ HandlerEnds(c)
        \/ ProbeReady(c) \/ ProbeNotReady(c) \/ Leave(c) \/ CutHandlerEnds(c)
    \/ \E r \in Reasons : Deliver(r) \/ Kill(r)
    \/ ServerCloses \/ PoolCloses \/ ShutdownCompletes \/ ShutdownFails
    \/ ProcessEnds

LifecycleSpec == LifecycleInit /\ [][LifecycleNext]_lifecycleVars

\* Timers fire and settled promises run; a handler ends because everything it
\* awaits has a timeout or is a query; the pool ends when its queries have.
\* Nothing is assumed of clients: one may hold its connection for ever.
LifecycleFairness ==
    /\ WF_lifecycleVars(ServerCloses) /\ WF_lifecycleVars(PoolCloses)
    /\ WF_lifecycleVars(ShutdownCompletes) /\ WF_lifecycleVars(ShutdownFails)
    /\ WF_lifecycleVars(ProcessEnds)
    /\ \A c \in Clients : WF_lifecycleVars(CutHandlerEnds(c))
-----------------------------------------------------------------------------
\* The pool outlives the requests: while a handler with a client waiting for
\* its answer runs, the pool is open; it is never closed under it, neither by
\* the order of the shutdown nor by a request that arrives during it.
PoolOutlivesRequests ==
    Running =>
        \A c \in Clients : conn[c] \in {"work", "probe"} =>
            databaseReady /\ pool = "open"

\* The exit code tells what happened: 0 is only reported for a shutdown that
\* a signal asked for first, that closed server and pool, and that left no
\* client with its connection cut; every other end of a shutdown is 1.
ExitCodeIsTrue ==
    /\ exitCode = "ok" =>
        /\ reason \in Signals
        /\ server = "closed" /\ pool = "closed"
        /\ graceful = "done" /\ Connected = {}
    /\ (race \in {"completed", "failed"}) => exitCode # "unset"
    /\ (race = "failed" \/ (race = "completed" /\ reason \in Errors))
            => exitCode = "error"

\* A probe is told "ready" only by a server that takes requests at that
\* moment, not by one that took them when the probe arrived
\* (docs/toy-chat-architecture.txt:26).
ReadyIsStillTrue ==
    [][\A c \in Clients : ProbeReady(c) =>
            databaseReady /\ ~shuttingDown /\ server # "closing"]_lifecycleVars

\* There is one shutdown: its reason and the exit code it chose stay, however
\* many signals and errors follow, and nothing is taken back.
OneShutdown ==
    [][/\ shuttingDown => shuttingDown' /\ reason' = reason
       /\ race \in {"completed", "failed"} => race' = race
       /\ exitCode # "unset" => exitCode' = exitCode
       /\ pool \in {"closing", "closed"} => pool' \in {"closing", "closed"}]_lifecycleVars

\* A shutdown always comes to a decision, with clients that hold their
\* connections and a server that never listened; and the process then really
\* ends, if it was listening: without a server, closeDatabase is never reached.
ShutdownEnds ==
    /\ shuttingDown ~> (exitCode # "unset" \/ ~Running)
    /\ shuttingDown /\ server # "none" ~> ~Running
=============================================================================
