--------------------------- MODULE SessionRuntime ---------------------------
(***************************************************************************)
(* The process life cycle of one session: SessionRuntime.start, stop,      *)
(* dispose and the refresh that follows a settled run, driven by the       *)
(* SessionRegistry functions that call them for this session (startRuntime *)
(* with its serial start queue, restartRuntime, ensureRunning,             *)
(* closeSession).                                                          *)
(*                                                                         *)
(* Every async function is a coroutine whose program counter names the     *)
(* await it is suspended at; other code runs in between. A PiRpcConnection *)
(* is seen from above: the phases of PiRpcConnection.tla that a caller can *)
(* tell apart, with stop() ending the child in the end (SIGKILL).          *)
(*                                                                         *)
(* Left out: the transcript, history loading, models and commands, queue   *)
(* recovery, extension UI beyond the await in stop(), the other sessions   *)
(* in the start queue (they only delay it).                                *)
(***************************************************************************)
EXTENDS Integers, FiniteSets

CONSTANTS
  Restarters,      \* concurrent calls of restartRuntime (each may be made once)
  Closers,         \* calls of closeSession: {} or one call
  MaxRequests,     \* bound: starts asked for by other operations
  MaxRefreshes,    \* bound: refreshes after agent_settled
  SlowCleanup      \* may the removal of the bridges' directories at the end of a
                   \*   stop() outlast the preparation of a start() begun meanwhile?

ASSUME CallersAssumption == IsFiniteSet(Restarters) /\ Restarters \cap Closers = {}
ASSUME BoundsAssumption == /\ MaxRequests \in Nat \ {0}
                           /\ MaxRefreshes \in Nat
                           /\ SlowCleanup \in BOOLEAN

\* Every call of startRuntime leads to one connection at most.
Connections == 1..(MaxRequests + Cardinality(Restarters))
None == 0
Callers == Restarters \union Closers

VARIABLES
  status,     \* SessionViewModel.status
  disposed,   \* #disposed
  version,    \* #lifecycleVersion
  prepared,   \* the extension bridges have their directories
  current,    \* #connection and #api (set and cleared together); None = null
  conn,       \* phase of every connection object
  startPc,    \* where startInternal awaits; "none" when #starting is null
  startVersion, startConn,   \* its lifecycleVersion and its connection
  startResult,               \* what connection.start() came to, or "unprepared"
  stopPc, stopConn,          \* each caller's runtime.stop(): its await, its connection
  queue,      \* jobs of this session in #startQueue that have not begun
  job,        \* the running job: "none", "start" (awaits runtime.start())
  checking,   \* a startRuntime call that awaits the check of the working directory
  requests,   \* calls of RequestStart
  removed,    \* the registry has dropped the runtime
  refresh,    \* refreshAfterSettled: the api it captured, the state it was told
  refreshes   \* refreshes begun

startVars == <<prepared, startPc, startVersion, startConn, startResult>>
stopVars == <<stopPc, stopConn>>
jobVars == <<queue, job, checking, requests, removed>>
refreshVars == <<refresh, refreshes>>
vars == <<status, disposed, version, current, conn, startVars, stopVars, jobVars, refreshVars>>

Statuses == {"stopped", "queued", "starting", "ready", "running", "stopping", "failed"}
\* "handshake": start() runs; "up": it succeeded; "broken": a failure was reported
\* and the child is still there; "stopping": stop() was called; "gone": no child.
Phases == {"unborn", "handshake", "up", "broken", "stopping", "gone"}
HasChild(c) == conn[c] \in {"handshake", "up", "broken", "stopping"}

TypeOK ==
  /\ status \in Statuses
  /\ disposed \in BOOLEAN /\ removed \in BOOLEAN /\ checking \in BOOLEAN
  /\ version \in Nat /\ startVersion \in Nat
  /\ current \in Connections \union {None}
  /\ conn \in [Connections -> Phases]
  /\ prepared \in BOOLEAN
  /\ startPc \in {"none", "prepare", "launch", "handshake", "abandon"}
  /\ startConn \in Connections \union {None}
  /\ startResult \in {"pending", "ok", "thrown", "unprepared"}
  /\ stopPc \in [Callers -> {"idle", "cancelUi", "connection", "bridges",
                         "removing", "done"}]
  /\ stopConn \in [Callers -> Connections \union {None}]
  /\ queue \in Nat /\ job \in {"none", "start"}
  /\ refresh \in [api : Connections \union {None}, state : {"waiting", "none", "ready", "running"}]
  /\ refreshes \in 0..MaxRefreshes /\ requests \in 0..MaxRequests

-----------------------------------------------------------------------------
(* SessionRegistry.startRuntime and its queue                              *)

Pending == queue > 0 \/ job # "none"       \* #startJobs has this session
Started == current # None /\ HasChild(current)   \* #connection?.started

\* The part of startRuntime after the working directory was checked: the session is
\* shown as waiting unless it is disposed, running or starting, and a job is queued.
Enqueue ==
  /\ queue' = queue + 1
  /\ status' = IF disposed \/ Started \/ startPc # "none" THEN status ELSE "queued"

\* ensureRunning before an operation, or the activation of a stopped session. The
\* check of the working directory is awaited and nothing is looked at again after it.
RequestStart ==
  /\ ~removed /\ ~checking /\ ~Pending
  /\ status \in {"queued", "stopped", "failed"}
  /\ requests < MaxRequests /\ requests' = requests + 1
  /\ checking' = TRUE
  /\ UNCHANGED <<status, disposed, version, current, conn, startVars, stopVars,
                 queue, job, removed, refreshVars>>

DirectoryChecked ==
  /\ checking
  /\ checking' = FALSE
  /\ Enqueue
  /\ UNCHANGED <<disposed, version, current, conn, startVars, stopVars, job, requests,
                 removed, refreshVars>>

Joins_OnlyStarts == startPc # "none"       \* mistake: a running child is overlooked

\* A start under way is joined; with a child there is nothing to start.
Joins == startPc # "none" \/ Started

\* runtime.start(): unless it joins, a new life begins.
RuntimeStart ==
  IF Joins
  THEN UNCHANGED <<status, version, startVars>>
  ELSE /\ version' = version + 1
       /\ startPc' = "prepare" /\ startVersion' = version + 1
       /\ startConn' = None /\ startResult' = "pending"
       /\ status' = "starting"
       /\ UNCHANGED prepared

\* The queue reaches a job of this session.
JobRuns ==
  /\ queue > 0 /\ job = "none"
  /\ queue' = queue - 1
  /\ IF removed \/ disposed
     THEN UNCHANGED <<status, version, startVars, job>>
     ELSE RuntimeStart /\ job' = "start"
  /\ UNCHANGED <<disposed, current, conn, stopVars, checking, requests, removed,
                 refreshVars>>

\* runtime.start() has settled.
JobEnds ==
  /\ job = "start" /\ startPc = "none"
  /\ job' = "none"
  /\ UNCHANGED <<status, disposed, version, current, conn, startVars, stopVars,
                 queue, checking, requests, removed, refreshVars>>

-----------------------------------------------------------------------------
(* SessionRuntime.startInternal                                            *)

Superseded_Never == FALSE         \* mistake: a start never looks back

Superseded == disposed \/ startVersion # version

\* A stop() without a child awaits nothing but settled promises until it removes the
\* directories, so it gets there before any file operation of a start completes.
StopsWereQuick == \A c \in Callers : stopPc[c] \in {"idle", "removing", "done"}

\* The bridges get their directories, unless they still have them.
StartPrepares ==
  /\ startPc = "prepare" /\ StopsWereQuick
  /\ startPc' = "launch" /\ prepared' = TRUE
  /\ UNCHANGED <<status, disposed, version, current, conn, startVersion, startConn,
                 startResult, stopVars, jobVars, refreshVars>>

\* A bridge has no directory, or the proxy credentials cannot be read: the start
\* throws before its try block, and nobody changes the status.
StartUnprepared ==
  /\ startPc = "launch" \/ (startPc = "prepare" /\ StopsWereQuick)
  /\ startPc' = "none" /\ startResult' = "unprepared"
  /\ UNCHANGED <<status, disposed, version, current, conn, prepared, startVersion, startConn,
                 stopVars, jobVars, refreshVars>>

\* A start that was overtaken while it prepared the launch gives up.
StartAborts ==
  /\ startPc = "launch" /\ Superseded
  /\ startPc' = "none"
  /\ UNCHANGED <<status, disposed, version, current, conn, prepared, startVersion, startConn,
                 startResult, stopVars, jobVars, refreshVars>>

\* The launch is prepared: the connection, its api and the helpers that belong to
\* them replace the old ones, and connection.start() spawns the child.
StartSpawns ==
  /\ startPc = "launch" /\ ~Superseded /\ StopsWereQuick
  /\ SlowCleanup \/ \A c \in Callers : stopPc[c] # "removing"
  /\ \E c \in Connections :
       /\ conn[c] = "unborn" /\ \A d \in Connections : d < c => conn[d] # "unborn"
       /\ conn' = [conn EXCEPT ![c] = "handshake"]
       /\ current' = c /\ startConn' = c
  /\ startPc' = "handshake"
  /\ UNCHANGED <<status, disposed, version, prepared, startVersion, startResult, stopVars,
                 jobVars, refreshVars>>

\* connection.start() returned the state of Pi. An overtaken start stops its child,
\* the current one publishes the state.
StartSucceeds ==
  /\ startPc = "handshake" /\ startResult = "ok"
  /\ IF Superseded
     THEN /\ startPc' = "abandon"
          /\ conn' = IF HasChild(startConn) THEN [conn EXCEPT ![startConn] = "stopping"] ELSE conn
          /\ UNCHANGED status
     ELSE /\ startPc' = "none"
          /\ status' \in {"ready", "running"}
          /\ UNCHANGED conn
  /\ UNCHANGED <<disposed, version, current, prepared, startVersion, startConn, startResult,
                 stopVars, jobVars, refreshVars>>

StartAbandons ==
  /\ startPc = "abandon" /\ conn[startConn] = "gone"
  /\ startPc' = "none"
  /\ UNCHANGED <<status, disposed, version, current, conn, prepared, startVersion, startConn,
                 startResult, stopVars, jobVars, refreshVars>>

\* Mistakes: an overtaken start reports its failure; no start reports it.
FailureStatus_Loud == "failed"
FailureStatus_Silent == status
FailureStatus == IF Superseded THEN status ELSE "failed"

\* connection.start() threw; only the current start reports it.
StartFails ==
  /\ startPc = "handshake" /\ startResult = "thrown"
  /\ startPc' = "none"
  /\ status' = FailureStatus
  /\ UNCHANGED <<disposed, version, current, conn, prepared, startVersion, startConn, startResult,
                 stopVars, jobVars, refreshVars>>

-----------------------------------------------------------------------------
(* SessionRuntime.stop and its callers                                     *)

\* restartRuntime or closeSession calls stop() or dispose(): everything up to the
\* first await. A restart that waited for a confirmation may come after the close.
Stop(c) ==
  /\ stopPc[c] = "idle"
  /\ disposed' = (disposed \/ c \in Closers)
  /\ version' = version + 1
  /\ status' = "stopping"
  /\ stopPc' = [stopPc EXCEPT ![c] = "cancelUi"]
  /\ UNCHANGED <<current, conn, startVars, stopConn, jobVars, refreshVars>>

\* Mistake: stop() looks only for a connection that works.
MustStop_OnlyUp == current # None /\ conn[current] = "up"
MustStop == Started

\* Pending extension input is cancelled; now the connection of this moment is stopped.
StopConnection(c) ==
  /\ stopPc[c] = "cancelUi"
  /\ stopPc' = [stopPc EXCEPT ![c] = "connection"]
  /\ stopConn' = [stopConn EXCEPT ![c] = IF MustStop THEN current ELSE None]
  /\ conn' = IF MustStop THEN [conn EXCEPT ![current] = "stopping"] ELSE conn
  /\ UNCHANGED <<status, disposed, version, current, startVars, jobVars, refreshVars>>

\* connection.stop() returned (or there was nothing to stop): the bridges forget their
\* directories and remove them.
StopBridges(c) ==
  /\ stopPc[c] = "connection"
  /\ stopConn[c] # None => conn[stopConn[c]] = "gone"
  /\ stopPc' = [stopPc EXCEPT ![c] = IF prepared THEN "removing" ELSE "bridges"]
  /\ prepared' = FALSE
  /\ UNCHANGED <<status, disposed, version, current, conn, startPc, startVersion, startConn,
                 startResult, stopConn, jobVars, refreshVars>>

\* The rest of stop(), then what the caller does after it: a restart asks for a start
\* unless one is pending, a close drops the session.
StopReturns(c) ==
  /\ stopPc[c] \in {"bridges", "removing"}
  /\ stopPc' = [stopPc EXCEPT ![c] = "done"]
  /\ current' = None
  /\ removed' = (removed \/ c \in Closers)
  /\ IF c \in Restarters /\ ~Pending
     THEN /\ queue' = queue + 1
          /\ status' = IF disposed \/ startPc # "none" THEN "stopped" ELSE "queued"
     ELSE status' = "stopped" /\ UNCHANGED queue
  /\ UNCHANGED <<disposed, version, conn, startVars, stopConn, job, checking, requests,
                 refreshVars>>

-----------------------------------------------------------------------------
(* The connection, seen from above                                         *)

\* Pi answered the initial get_state.
HandshakeSucceeds(c) ==
  /\ conn[c] = "handshake"
  /\ conn' = [conn EXCEPT ![c] = "up"]
  /\ startResult' = "ok"
  /\ UNCHANGED <<status, disposed, version, current, prepared, startPc, startVersion, startConn,
                 stopVars, jobVars, refreshVars>>

\* The handshake was refused, timed out or the connection broke during it: start()
\* stops the child first.
HandshakeFails(c) ==
  /\ conn[c] = "handshake" \/ (conn[c] = "broken" /\ startConn = c /\ startResult = "pending")
  /\ conn' = [conn EXCEPT ![c] = "stopping"]
  /\ UNCHANGED <<status, disposed, version, current, startVars, stopVars, jobVars, refreshVars>>

\* connection.start() has its answer and its caller runs before any later "close"; but
\* a malformed record in the same chunk of stdout as the answer comes first.
Resuming(c) == startPc = "handshake" /\ startConn = c /\ startResult = "ok"

\* The onFailure listener: a process, pipe or protocol failure nobody asked for. The
\* child may be gone or may still have to be stopped.
ConnectionFails(c) ==
  /\ conn[c] \in {"handshake", "up"}
  /\ \/ conn' = [conn EXCEPT ![c] = "broken"]
     \/ conn' = [conn EXCEPT ![c] = "gone"] /\ ~Resuming(c)
  /\ status' = "failed"
  /\ startResult' = IF startConn = c /\ startResult = "pending" /\ conn'[c] = "gone"
                    THEN "thrown" ELSE startResult
  /\ UNCHANGED <<disposed, version, current, prepared, startPc, startVersion, startConn, stopVars,
                 jobVars, refreshVars>>

\* The child of a stopped or broken connection has ended; connection.start() throws
\* if it was still waiting.
ChildGone(c) ==
  /\ conn[c] \in {"broken", "stopping"}
  /\ conn' = [conn EXCEPT ![c] = "gone"]
  /\ startResult' = IF startConn = c /\ startResult = "pending" THEN "thrown" ELSE startResult
  /\ UNCHANGED <<status, disposed, version, current, prepared, startPc, startVersion, startConn,
                 stopVars, jobVars, refreshVars>>

-----------------------------------------------------------------------------
(* Events of the child and the refresh after a settled run                 *)

AgentStarts(c) ==
  /\ HasChild(c)
  /\ status' = "running"
  /\ UNCHANGED <<disposed, version, current, conn, startVars, stopVars, jobVars, refreshVars>>

\* agent_settled: the run is over, and three requests go out to refresh the view.
AgentSettles(c) ==
  /\ HasChild(c)
  /\ refreshes < MaxRefreshes /\ refresh.api = None
  /\ status' = "ready"
  /\ IF current = None THEN UNCHANGED refreshVars
     ELSE /\ refresh' = [api |-> current, state |-> "waiting"]
          /\ refreshes' = refreshes + 1
  /\ UNCHANGED <<disposed, version, current, conn, startVars, stopVars, jobVars>>

\* get_state is answered, or rejected with everything else that is pending.
RefreshAnswered ==
  /\ refresh.api # None /\ refresh.state = "waiting"
  /\ \/ /\ conn[refresh.api] = "up"
        /\ \E s \in {"ready", "running"} : refresh' = [refresh EXCEPT !.state = s]
     \/ /\ conn[refresh.api] # "up"
        /\ refresh' = [refresh EXCEPT !.state = "none"]
  /\ UNCHANGED <<status, disposed, version, current, conn, startVars, stopVars, jobVars, refreshes>>

RefreshDone_Early == refresh.api # None    \* mistake: applied before it is answered
RefreshDone == refresh.api # None /\ refresh.state # "waiting"

\* The statistics and the commands are answered or rejected too: Promise.all settles
\* and the state is applied.
RefreshApplies ==
  /\ RefreshDone
  /\ status' = IF refresh.state = "none" THEN status ELSE refresh.state
  /\ refresh' = [api |-> None, state |-> "none"]
  /\ UNCHANGED <<disposed, version, current, conn, startVars, stopVars, jobVars, refreshes>>

-----------------------------------------------------------------------------
Init ==
  /\ status = "stopped" /\ disposed = FALSE /\ version = 0 /\ current = None
  /\ conn = [c \in Connections |-> "unborn"]
  /\ prepared = FALSE
  /\ startPc = "none" /\ startVersion = 0 /\ startConn = None /\ startResult = "pending"
  /\ stopPc = [c \in Callers |-> "idle"] /\ stopConn = [c \in Callers |-> None]
  /\ queue = 0 /\ job = "none" /\ checking = FALSE
  /\ requests = 0 /\ removed = FALSE
  /\ refresh = [api |-> None, state |-> "none"] /\ refreshes = 0

RegistrySteps == DirectoryChecked \/ JobRuns \/ JobEnds
StartSteps ==
  \/ StartPrepares \/ StartUnprepared \/ StartAborts \/ StartSpawns
  \/ StartSucceeds \/ StartAbandons \/ StartFails
StopSteps(c) == StopConnection(c) \/ StopBridges(c) \/ StopReturns(c)

Next ==
  \/ RequestStart \/ DirectoryChecked \/ JobRuns \/ JobEnds
  \/ StartPrepares \/ StartUnprepared \/ StartAborts \/ StartSpawns
  \/ StartSucceeds \/ StartAbandons \/ StartFails
  \/ \E c \in Callers : Stop(c) \/ StopConnection(c) \/ StopBridges(c) \/ StopReturns(c)
  \/ \E c \in Connections : \/ HandshakeSucceeds(c) \/ HandshakeFails(c)
                            \/ ConnectionFails(c) \/ ChildGone(c)
                            \/ AgentStarts(c) \/ AgentSettles(c)
  \/ RefreshAnswered \/ RefreshApplies

(* Fairness: continuations run, the queue moves on, a handshake has a       *)
(* deadline and a stopped child ends (StartSettles, StopReturns and         *)
(* StoppedChildEnds of PiRpcConnection). Users and Pi's events are not fair.*)
Fairness ==
  /\ WF_vars(RegistrySteps) /\ WF_vars(StartSteps)
  /\ \A c \in Callers : WF_vars(StopSteps(c))
  /\ \A c \in Connections :
       /\ WF_vars(HandshakeSucceeds(c) \/ HandshakeFails(c))
       /\ WF_vars(conn[c] = "stopping" /\ ChildGone(c))

Spec == Init /\ [][Next]_vars /\ Fairness

-----------------------------------------------------------------------------
(* Properties                                                              *)

\* A child nobody has asked to end.
Live(c) == conn[c] \in {"handshake", "up", "broken"}

\* "A Runtime may have no child while stopped, but cannot own multiple live children"
\* (session-lifecycle.SPEC.md), in every interleaving of starts, stops and failures.
OneLiveChild == Cardinality({c \in Connections : Live(c)}) <= 1

\* A live child can be reached: it is the runtime's connection, or the running start
\* still answers for it. Otherwise no stop() could ever end it.
NoLeakedChild == \A c \in Connections :
  Live(c) => c = current \/ (startPc # "none" /\ startConn = c)

\* Once a close has run to its end no child is left, and none appears later ("stale
\* lifecycle completions must not create work after shutdown").
ClosedForGood == removed => \A c \in Connections : ~Live(c)

\* The runtime answers for its children: one at most lives, a stop reaches it, and none
\* outlives the runtime.
ChildOwned == OneLiveChild /\ NoLeakedChild /\ ClosedForGood

\* A start that was overtaken by a stop never reports: the status it would publish
\* belongs to a life that is over.
OvertakenStartIsSilent ==
  [][startPc # "none" /\ startPc' = "none" /\ Superseded => status' = status]_vars

\* The transitional statuses do not last: every start, stop and queued job ends in a
\* status that tells the user so. The exception is a start that could not even be
\* prepared (StartUnprepared), which leaves the session "starting".
StatusSettles ==
  status \in {"queued", "starting", "stopping"}
    ~> \/ removed \/ startResult = "unprepared"
       \/ status \in {"stopped", "ready", "running", "failed"}

\* Tolerance "must not turn malformed JSONL, a startup failure, or an unexpected
\* process exit into a quiet success" (pi-rpc-compatibility.md): a session that is
\* shown as ready or running has a process, unless it is about to stop or to start.
ReadyMeansProcess ==
  /\ status \in {"ready", "running"}
  /\ startPc = "none" /\ \A c \in Callers : stopPc[c] \in {"idle", "done"}
  => Started
=============================================================================
