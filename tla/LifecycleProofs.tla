--------------------------- MODULE LifecycleProofs ---------------------------
(***************************************************************************)
(* Proofs about Lifecycle, for any number of connections and any signals   *)
(* and errors.  The invariant says, for every point of the start and of    *)
(* the shutdown, what has become of server, pool and connections.          *)
(***************************************************************************)
EXTENDS Lifecycle, TLAPS

\* Until it listens, the process has nothing to shut down.
Started ==
    /\ stage \in {"database", "failed"} => ~databaseReady
    /\ stage \in {"rag", "up"} => databaseReady
    /\ stage = "rag" => pool = "open"
    /\ stage # "up" =>
        handlers = {} /\ server = "none" /\ graceful = "none"
    /\ stage \in {"database", "rag"} => exitCode = "unset"

\* What the state and the promises of a shutdown have in common.
Stopping ==
    /\ shuttingDown <=> race # "none"
    /\ shuttingDown <=> graceful # "none"
    /\ shuttingDown => reason \in Reasons

\* How far the shutdown has come is what has become of server and pool.
Resources ==
    /\ graceful = "none" => pool \in {"unused", "open"} /\ server \in {"none", "listening"}
    /\ stage = "up" /\ graceful \in {"none", "server"} => pool = "open"
    /\ graceful = "server" => server = "closing"
    /\ graceful = "database" => pool = "closing" /\ server = "closed"
    /\ graceful = "done" => pool = "closed" /\ server = "closed"
    /\ graceful = "rejected" =>
        \/ server = "none" /\ pool = "open"
        \/ server = "closed" /\ pool = "closed"

\* Only a server that has been listening, and has not closed, has clients.
NoStrangers == server \in {"none", "closed"} => Connected = {}

\* The exit code and the outcome of the race.
Decision ==
    /\ exitCode # "unset" => race \in {"completed", "failed"} \/ stage = "failed"
    /\ race = "completed" => graceful = "done" /\ exitCode = ExitCodeOf(reason)
    /\ race = "failed" => exitCode = "error"
    /\ stage = "failed" => exitCode = "error"

LifecycleInv ==
    LifecycleTypeOK /\ Started /\ Stopping /\ Resources /\ NoStrangers /\ Decision
-----------------------------------------------------------------------------
\* The process starts with the invariant.
THEOREM LifecycleInvInitially == LifecycleInit => LifecycleInv
<1> SUFFICES ASSUME LifecycleInit PROVE LifecycleInv
  OBVIOUS
<1> USE LifecycleAssumption DEF LifecycleInit, LifecycleAssumption
<1>1. LifecycleTypeOK
  BY DEF LifecycleTypeOK, Reasons
<1>2. Started /\ Stopping /\ Resources /\ NoStrangers /\ Decision
  BY DEF Started, Stopping, Resources, NoStrangers, Connected, Decision
<1> QED
  BY <1>1, <1>2 DEF LifecycleInv

\* A step that only touches a connection keeps everything but NoStrangers,
\* for which the connection must not be one of a server that is closed.
LEMMA ServingKeeps ==
    ASSUME LifecycleInv, Serving, NEW c \in Clients,
           NEW s \in {"closed", "idle", "work", "probe", "cut"}, SetConn(c, s),
           s \in {"idle", "work", "probe"} => server \notin {"none", "closed"}
    PROVE  LifecycleInv'
<1> USE DEF LifecycleInv, Serving, startVars, stopVars, SetConn
<1>1. LifecycleTypeOK'
  BY DEF LifecycleTypeOK
<1>2. Started' /\ Stopping' /\ Resources' /\ Decision'
  BY DEF Started, Stopping, Resources, Decision, ExitCodeOf
<1>3. NoStrangers'
  BY DEF NoStrangers, Connected, LifecycleTypeOK
<1> QED
  BY <1>1, <1>2, <1>3

\* A connection in use belongs to a server that is not closed.
LEMMA InUse ==
    ASSUME LifecycleInv, NEW c \in Clients, conn[c] \in {"idle", "work", "probe"}
    PROVE  server \notin {"none", "closed"}
BY DEF LifecycleInv, NoStrangers, Connected

\* Closing idle connections, or cutting them all off, leaves fewer in use.
LEMMA FewerConnected ==
    ASSUME LifecycleTypeOK, conn' \in {CloseIdle, CloseAllConnections}
    PROVE  /\ conn' \in [Clients -> {"closed", "idle", "work", "probe", "cut"}]
           /\ Connected' \subseteq Connected
<1>1. CASE conn' = CloseIdle
  BY <1>1 DEF CloseIdle, Connected, LifecycleTypeOK
<1>2. CASE conn' = CloseAllConnections
  BY <1>2 DEF CloseAllConnections, Connected, LifecycleTypeOK
<1> QED
  BY <1>1, <1>2

\* Every step of start, service and shutdown keeps the invariant.
THEOREM LifecycleInvPreserved == LifecycleInv /\ [LifecycleNext]_lifecycleVars => LifecycleInv'
<1> SUFFICES ASSUME LifecycleInv, [LifecycleNext]_lifecycleVars PROVE LifecycleInv'
  OBVIOUS
<1> USE LifecycleAssumption DEF LifecycleAssumption, LifecycleInv
<1>1. CASE DatabaseInitialised
  <2> USE <1>1 DEF DatabaseInitialised, stopVars
  <2>1. LifecycleTypeOK'
    BY DEF LifecycleTypeOK
  <2>2. Started' /\ Stopping' /\ Resources' /\ NoStrangers' /\ Decision'
    BY DEF Started, Stopping, Resources, NoStrangers, Connected, Decision, ExitCodeOf
  <2> QED
    BY <2>1, <2>2
<1>2. CASE StartFails
  <2> USE <1>2 DEF StartFails
  <2>1. LifecycleTypeOK'
    BY DEF LifecycleTypeOK
  <2>2. Started' /\ Stopping' /\ Resources' /\ NoStrangers'
    BY DEF Started, Stopping, Resources, NoStrangers, Connected
  <2>3. Decision'
    BY DEF Started, Stopping, Decision, LifecycleTypeOK
  <2> QED
    BY <2>1, <2>2, <2>3
<1>3. CASE Listen
  <2> USE <1>3 DEF Listen
  <2>1. LifecycleTypeOK'
    BY DEF LifecycleTypeOK
  <2>2. Started' /\ Stopping' /\ Resources' /\ Decision'
    BY DEF Started, Stopping, Resources, Decision, ExitCodeOf
  <2>3. NoStrangers'
    BY DEF NoStrangers, Connected, Started
  <2> QED
    BY <2>1, <2>2, <2>3
<1>4. ASSUME NEW c \in Clients,
             \/ Connect(c) \/ AvailabilityGate(c) \/ Probe(c) \/ HandlerEnds(c)
             \/ ProbeReady(c) \/ ProbeNotReady(c) \/ Leave(c) \/ CutHandlerEnds(c)
      PROVE  LifecycleInv'
  <2>1. CASE Connect(c)
    BY <2>1, ServingKeeps DEF Connect
  <2>2. CASE AvailabilityGate(c)
    BY <2>2, InUse, ServingKeeps DEF AvailabilityGate
  <2>3. CASE Probe(c)
    BY <2>3, InUse, ServingKeeps DEF Probe
  <2>4. CASE HandlerEnds(c)
    BY <2>4, InUse, ServingKeeps DEF HandlerEnds, Answer
  <2>5. CASE ProbeReady(c)
    BY <2>5, InUse, ServingKeeps DEF ProbeReady, Answer
  <2>6. CASE ProbeNotReady(c)
    BY <2>6, InUse, ServingKeeps DEF ProbeNotReady, Answer
  <2>7. CASE Leave(c)
    BY <2>7, ServingKeeps DEF Leave
  <2>8. CASE CutHandlerEnds(c)
    BY <2>8, ServingKeeps DEF CutHandlerEnds
  <2> QED
    BY <1>4, <2>1, <2>2, <2>3, <2>4, <2>5, <2>6, <2>7, <2>8
<1>5. ASSUME NEW r \in Reasons, Deliver(r) PROVE LifecycleInv'
  <2> USE <1>5 DEF Deliver
  <2>1. CASE race # "none"
    <3> USE <2>1 DEF Shutdown, startVars
    <3>1. LifecycleTypeOK' /\ NoStrangers'
      BY DEF LifecycleTypeOK, NoStrangers, Connected
    <3>2. Started' /\ Stopping' /\ Resources' /\ Decision'
      BY DEF Started, Stopping, Resources, Decision, ExitCodeOf
    <3> QED
      BY <3>1, <3>2
  <2>2. CASE race = "none"
    <3> USE <2>2 DEF Shutdown, startVars
    <3>1. stage = "up" /\ graceful = "none" /\ exitCode = "unset"
      BY DEF Started, Stopping, Decision, LifecycleTypeOK
    <3>2. LifecycleTypeOK'
      BY FewerConnected DEF LifecycleTypeOK
    <3>3. Started' /\ Stopping' /\ Decision'
      BY <3>1 DEF Started, Stopping, Decision
    <3>4. Resources'
      BY <3>1 DEF Resources
    <3>5. NoStrangers'
      BY <3>1, FewerConnected DEF NoStrangers, LifecycleTypeOK, Resources
    <3> QED
      BY <3>2, <3>3, <3>4, <3>5
  <2> QED
    BY <2>1, <2>2
<1>6. ASSUME NEW r \in Reasons, Kill(r) PROVE LifecycleInv'
  <2> USE <1>6 DEF Kill, startVars, stopVars
  <2>1. LifecycleTypeOK' /\ NoStrangers'
    BY DEF LifecycleTypeOK, NoStrangers, Connected
  <2>2. Started' /\ Stopping' /\ Resources' /\ Decision'
    BY DEF Started, Stopping, Resources, Decision, ExitCodeOf
  <2> QED
    BY <2>1, <2>2
<1>7. CASE ServerCloses
  <2> USE <1>7 DEF ServerCloses, startVars
  <2>1. LifecycleTypeOK' /\ NoStrangers'
    BY DEF LifecycleTypeOK, NoStrangers, Connected
  <2>2. Started' /\ Stopping' /\ Resources' /\ Decision'
    BY DEF Started, Stopping, Resources, Decision, ExitCodeOf
  <2> QED
    BY <2>1, <2>2
<1>8. CASE PoolCloses
  <2> USE <1>8 DEF PoolCloses, startVars
  <2>1. LifecycleTypeOK' /\ NoStrangers'
    BY DEF LifecycleTypeOK, NoStrangers, Connected
  <2>2. Started' /\ Stopping' /\ Resources' /\ Decision'
    BY DEF Started, Stopping, Resources, Decision, ExitCodeOf
  <2> QED
    BY <2>1, <2>2
<1>9. CASE ShutdownCompletes
  <2> USE <1>9 DEF ShutdownCompletes, startVars
  <2>1. LifecycleTypeOK' /\ NoStrangers'
    BY DEF LifecycleTypeOK, NoStrangers, Connected, ExitCodeOf
  <2>2. Started' /\ Stopping' /\ Resources' /\ Decision'
    BY DEF Started, Stopping, Resources, Decision, ExitCodeOf
  <2> QED
    BY <2>1, <2>2
<1>10. CASE ShutdownFails
  <2> USE <1>10 DEF ShutdownFails, startVars
  <2>1. LifecycleTypeOK' /\ NoStrangers'
    BY FewerConnected DEF LifecycleTypeOK, NoStrangers
  <2>2. Started' /\ Stopping' /\ Resources' /\ Decision'
    BY DEF Started, Stopping, Resources, Decision, ExitCodeOf
  <2> QED
    BY <2>1, <2>2
<1>11. CASE ProcessEnds
  <2> USE <1>11 DEF ProcessEnds, startVars, stopVars
  <2>1. LifecycleTypeOK' /\ NoStrangers'
    BY DEF LifecycleTypeOK, NoStrangers, Connected
  <2>2. Started' /\ Stopping' /\ Resources' /\ Decision'
    BY DEF Started, Stopping, Resources, Decision, ExitCodeOf
  <2> QED
    BY <2>1, <2>2
<1>12. CASE UNCHANGED lifecycleVars
  <2> USE <1>12 DEF lifecycleVars
  <2>1. LifecycleTypeOK' /\ NoStrangers'
    BY DEF LifecycleTypeOK, NoStrangers, Connected
  <2>2. Started' /\ Stopping' /\ Resources' /\ Decision'
    BY DEF Started, Stopping, Resources, Decision, ExitCodeOf
  <2> QED
    BY <2>1, <2>2
<1> QED
  BY <1>1, <1>2, <1>3, <1>4, <1>5, <1>6, <1>7, <1>8, <1>9, <1>10, <1>11, <1>12
  DEF LifecycleNext

\* The invariant holds throughout.
THEOREM LifecycleInvariant == LifecycleSpec => []LifecycleInv
BY LifecycleInvInitially, LifecycleInvPreserved, PTL DEF LifecycleSpec
-----------------------------------------------------------------------------
\* The state of the process is always well typed.
THEOREM LifecycleTypeCorrect == LifecycleSpec => []LifecycleTypeOK
<1>1. LifecycleInv => LifecycleTypeOK
  BY DEF LifecycleInv
<1> QED
  BY <1>1, LifecycleInvariant, PTL

\* No handler with a client waiting ever finds the pool closed: the pool is
\* closed by closeDatabase only, which runs when no connection is in use.
THEOREM PoolIsKept == LifecycleSpec => []PoolOutlivesRequests
<1>1. LifecycleInv => PoolOutlivesRequests
  <2> SUFFICES ASSUME LifecycleInv, NEW c \in Clients, conn[c] \in {"work", "probe"}
               PROVE  databaseReady /\ pool = "open"
    BY DEF PoolOutlivesRequests
  <2>1. server \in {"listening", "closing"}
    BY InUse DEF LifecycleInv, LifecycleTypeOK
  <2>2. stage = "up" /\ databaseReady
    BY <2>1 DEF LifecycleInv, LifecycleTypeOK, Started
  <2>3. graceful \in {"none", "server"}
    BY <2>1 DEF LifecycleInv, LifecycleTypeOK, Resources
  <2> QED
    BY <2>2, <2>3 DEF LifecycleInv, Resources
<1> QED
  BY <1>1, LifecycleInvariant, PTL

\* The exit code of a shutdown tells whether it was asked for and clean.
THEOREM ExitCodeTells == LifecycleSpec => []ExitCodeIsTrue
<1>1. LifecycleInv => ExitCodeIsTrue
  <2> SUFFICES ASSUME LifecycleInv PROVE ExitCodeIsTrue
    OBVIOUS
  <2> USE DEF LifecycleInv
  <2>1. ASSUME exitCode = "ok"
        PROVE  /\ reason \in Signals
               /\ server = "closed" /\ pool = "closed"
               /\ graceful = "done" /\ Connected = {}
    <3>1. race = "completed"
      BY <2>1 DEF Decision
    <3>2. graceful = "done" /\ ExitCodeOf(reason) = "ok"
      BY <2>1, <3>1 DEF Decision
    <3>3. reason \in Signals
      BY <3>1, <3>2 DEF Stopping, ExitCodeOf, Reasons
    <3> QED
      BY <3>2, <3>3 DEF Resources, NoStrangers
  <2>2. race \in {"completed", "failed"} => exitCode # "unset"
    BY DEF Decision, ExitCodeOf
  <2>3. race = "failed" \/ (race = "completed" /\ reason \in Errors) => exitCode = "error"
    BY DEF Decision, ExitCodeOf
  <2> QED
    BY <2>1, <2>2, <2>3 DEF ExitCodeIsTrue
<1> QED
  BY <1>1, LifecycleInvariant, PTL

\* A probe that is answered "ready" is answered so by a server that takes
\* requests.
THEOREM ReadyMeansReady == LifecycleSpec => ReadyIsStillTrue
<1>1. LifecycleInv /\ [LifecycleNext]_lifecycleVars =>
        [\A c \in Clients : ProbeReady(c) =>
            databaseReady /\ ~shuttingDown /\ server # "closing"]_lifecycleVars
  <2> SUFFICES ASSUME LifecycleInv, NEW c \in Clients, ProbeReady(c)
               PROVE  databaseReady /\ ~shuttingDown /\ server # "closing"
    OBVIOUS
  <2>1. ~shuttingDown /\ conn[c] = "probe"
    BY DEF ProbeReady, ReadyAnswer
  <2>2. graceful = "none"
    BY <2>1 DEF LifecycleInv, Stopping
  <2>3. server = "listening"
    BY <2>1, <2>2, InUse DEF LifecycleInv, Resources
  <2> QED
    BY <2>1, <2>3 DEF LifecycleInv, LifecycleTypeOK, Started
<1> QED
  BY <1>1, LifecycleInvariant, PTL DEF LifecycleSpec, ReadyIsStillTrue

\* Whatever follows the first reason, its shutdown, its decision and the
\* closing of the pool are not taken back.
THEOREM ShutdownIsOne == LifecycleSpec => OneShutdown
<1> DEFINE Kept ==
        /\ shuttingDown => shuttingDown' /\ reason' = reason
        /\ race \in {"completed", "failed"} => race' = race
        /\ exitCode # "unset" => exitCode' = exitCode
        /\ pool \in {"closing", "closed"} => pool' \in {"closing", "closed"}
<1>1. LifecycleInv /\ [LifecycleNext]_lifecycleVars => [Kept]_lifecycleVars
  <2> SUFFICES ASSUME LifecycleInv, LifecycleNext PROVE Kept
    OBVIOUS
  <2> USE DEF LifecycleInv
  <2>1. CASE DatabaseInitialised \/ StartFails \/ Listen
    BY <2>1 DEF DatabaseInitialised, StartFails, Listen, stopVars, Started, Resources
  <2>2. CASE \E c \in Clients : Serving
    BY <2>2 DEF Serving, stopVars
  <2>3. CASE \E r \in Reasons : Deliver(r)
    BY <2>3 DEF Deliver, Shutdown, startVars, Stopping
  <2>4. CASE \E r \in Reasons : Kill(r)
    BY <2>4 DEF Kill, stopVars
  <2>5. CASE ServerCloses \/ PoolCloses
    BY <2>5 DEF ServerCloses, PoolCloses, startVars
  <2>6. CASE ShutdownCompletes \/ ShutdownFails
    BY <2>6 DEF ShutdownCompletes, ShutdownFails, startVars, Decision, Started, Stopping
  <2>7. CASE ProcessEnds
    BY <2>7 DEF ProcessEnds, stopVars
  <2> QED
    BY <2>1, <2>2, <2>3, <2>4, <2>5, <2>6, <2>7
    DEF LifecycleNext, Connect, AvailabilityGate, Probe, HandlerEnds, ProbeReady,
        ProbeNotReady, Leave, CutHandlerEnds
<1> QED
  BY <1>1, LifecycleInvariant, PTL DEF LifecycleSpec, OneShutdown
=============================================================================
