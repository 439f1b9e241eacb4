----------------------- MODULE SessionRuntime_proofs -----------------------
(***************************************************************************)
(* Proofs about SessionRuntime for any number of restarts, starts and      *)
(* refreshes.                                                              *)
(*                                                                         *)
(* The argument for ChildOwned: as long as every child that nobody has     *)
(* asked to end belongs to the current connection, a stop() reaches it. A  *)
(* start looks for a child before it begins and another start joins it, so *)
(* none appears until it spawns its own; a stop asks the current one to end *)
(* before it awaits anything that a start may overtake. What is left is the *)
(* last step of a restart's stop(), after the removal of the directories,  *)
(* and ChildrenOwned names it.                                             *)
(***************************************************************************)
EXTENDS SessionRuntime, FiniteSetTheorems, TLAPS

\* The connections are numbered from 1, so that None is none of them.
LEMMA ConnectionNumbers == Connections \subseteq Nat \ {None}
  BY CallersAssumption, BoundsAssumption, FS_CardinalityType DEF Connections, None

-----------------------------------------------------------------------------
(* Types                                                                   *)

\* Every step leaves every variable of the runtime in its type, for every number of
\* callers: the queue never goes below zero and a refresh never applies an answer that
\* has not come.
THEOREM TypeCorrect == Spec => []TypeOK
<1>1. ASSUME Init PROVE TypeOK
  <2>1. refreshes \in 0..MaxRefreshes /\ requests \in 0..MaxRequests /\ queue \in Nat
    BY <1>1, BoundsAssumption DEF Init
  <2>2. refresh \in [api : Connections \union {None}, state : {"waiting", "none", "ready", "running"}]
    BY <1>1 DEF Init
  <2>3. stopPc \in [Callers -> {"idle", "cancelUi", "connection", "bridges", "removing", "done"}]
        /\ stopConn \in [Callers -> Connections \union {None}] /\ conn \in [Connections -> Phases]
    BY <1>1 DEF Init, Phases
  <2>. QED
    BY <1>1, <2>1, <2>2, <2>3 DEF Init, TypeOK, Statuses
<1>2. TypeOK /\ [Next]_vars => TypeOK'
  <2> SUFFICES ASSUME TypeOK, [Next]_vars PROVE TypeOK'
    OBVIOUS
  <2> USE DEF TypeOK, Statuses, startVars, stopVars, jobVars, refreshVars
  <2>1. CASE RequestStart
    BY <2>1, BoundsAssumption DEF RequestStart
  <2>2. CASE DirectoryChecked
    <3>1. checking' \in BOOLEAN
      BY <2>2, Zenon DEF DirectoryChecked
    <3>2. queue' \in Nat
      BY <2>2 DEF DirectoryChecked, Enqueue
    <3>3. status' \in Statuses
      BY <2>2 DEF DirectoryChecked, Enqueue
    <3>4. UNCHANGED <<disposed, version, current, conn, prepared, startPc, startVersion, startConn,
                      startResult, stopPc, stopConn, job, requests, removed, refresh, refreshes>>
      BY <2>2 DEF DirectoryChecked
    <3>. QED
      BY <3>1, <3>2, <3>3, <3>4
  <2>3. CASE JobRuns
    BY <2>3 DEF JobRuns, RuntimeStart
  <2>4. CASE JobEnds
    BY <2>4 DEF JobEnds
  <2>5. CASE StartPrepares \/ StartUnprepared
    BY <2>5 DEF StartPrepares, StartUnprepared
  <2>19. CASE StartAborts \/ StartAbandons
    BY <2>19 DEF StartAborts, StartAbandons
  <2>6. CASE StartSpawns
    BY <2>6 DEF StartSpawns, Phases
  <2>7. CASE StartSucceeds
    BY <2>7 DEF StartSucceeds, Phases
  <2>8. CASE StartFails
    BY <2>8 DEF StartFails, FailureStatus
  <2>9. ASSUME NEW c \in Callers, Stop(c) PROVE TypeOK'
    BY <2>9 DEF Stop
  <2>10. ASSUME NEW c \in Callers, StopConnection(c) PROVE TypeOK'
    BY <2>10 DEF StopConnection, MustStop, Started, Phases
  <2>11. ASSUME NEW c \in Callers, StopBridges(c) PROVE TypeOK'
    <3>1. stopPc' \in [Callers -> {"idle", "cancelUi", "connection", "bridges", "removing", "done"}]
      BY <2>11 DEF StopBridges
    <3>2. prepared' \in BOOLEAN
      BY <2>11, Zenon DEF StopBridges
    <3>3. UNCHANGED <<status, disposed, version, current, conn, startPc, startVersion, startConn,
                      startResult, stopConn, queue, job, checking, requests, removed, refresh, refreshes>>
      BY <2>11 DEF StopBridges
    <3>. QED
      BY <3>1, <3>2, <3>3
  <2>12. ASSUME NEW c \in Callers, StopReturns(c) PROVE TypeOK'
    BY <2>12 DEF StopReturns
  <2>13. ASSUME NEW c \in Connections, HandshakeSucceeds(c) \/ HandshakeFails(c) \/ ChildGone(c)
         PROVE TypeOK'
    BY <2>13 DEF HandshakeSucceeds, HandshakeFails, ChildGone, Phases
  <2>14. ASSUME NEW c \in Connections, ConnectionFails(c) PROVE TypeOK'
    BY <2>14 DEF ConnectionFails, Phases
  <2>15. ASSUME NEW c \in Connections, AgentStarts(c) PROVE TypeOK'
    BY <2>15 DEF AgentStarts
  <2>20. ASSUME NEW c \in Connections, AgentSettles(c) PROVE TypeOK'
    <3>1. refresh' \in [api : Connections \union {None}, state : {"waiting", "none", "ready", "running"}]
      BY <2>20 DEF AgentSettles
    <3>2. refreshes' \in 0..MaxRefreshes
      BY <2>20, BoundsAssumption DEF AgentSettles
    <3>. QED
      BY <2>20, <3>1, <3>2 DEF AgentSettles
  <2>16. CASE RefreshAnswered
    BY <2>16 DEF RefreshAnswered
  <2>17. CASE RefreshApplies
    BY <2>17 DEF RefreshApplies, RefreshDone
  <2>18. CASE UNCHANGED vars
    BY <2>18 DEF vars
  <2>. QED
    BY <2>1, <2>2, <2>3, <2>4, <2>5, <2>6, <2>7, <2>8, <2>9, <2>10, <2>11, <2>12, <2>13, <2>14,
       <2>15, <2>16, <2>17, <2>18, <2>19, <2>20 DEF Next
<1>. QED
  BY <1>1, <1>2, PTL DEF Spec

-----------------------------------------------------------------------------
(* The children                                                            *)

NoneLive == \A d \in Connections : ~Live(d)
CurrentQuiet == current # None => ~Live(current)

\* A stop() can end every child there is: it belongs to the current connection.
ReachedByStop == \A d \in Connections : Live(d) => d = current

\* The current connection has no child that nobody asked to end while a start prepares
\* its launch, while a stop waits for what it has stopped, from the moment a close has
\* asked for the end, and once the session is dropped. The removal of the bridges'
\* directories is no such moment in a restart: a start may spawn meanwhile.
QuietInv ==
  /\ startPc \in {"prepare", "launch"} => CurrentQuiet
  /\ \A c \in Callers : stopPc[c] \in {"connection", "bridges"} => CurrentQuiet
  /\ \A c \in Closers : stopPc[c] # "idle" => disposed
  /\ \A c \in Closers : stopPc[c] \notin {"idle", "cancelUi"} => CurrentQuiet
  /\ removed => disposed /\ CurrentQuiet

\* The last lines of a stop() whose removal of the directories a start has overtaken:
\* they forget the connection of that start, whose child lives.
ForgetsOvertaker(c) ==
  stopPc[c] = "removing" /\ current # None /\ Live(current) /\ StopReturns(c)

\* What keeps the invariants in most steps: no child appears, the current connection stays,
\* no start begins to prepare, no stop moves on and no session is closed.
Uneventful ==
  /\ \A d \in Connections : Live(d)' => Live(d)
  /\ UNCHANGED <<current, disposed, stopPc, removed>>
  /\ startPc' \in {"prepare", "launch"} => startPc \in {"prepare", "launch"}

LEMMA UneventfulKeeps ==
  ASSUME TypeOK, QuietInv, Uneventful
  PROVE  QuietInv' /\ (ReachedByStop => ReachedByStop')
<1>1. CurrentQuiet => CurrentQuiet'
  BY DEF Uneventful, CurrentQuiet, TypeOK
<1>2. ReachedByStop => ReachedByStop'
  BY DEF Uneventful, ReachedByStop
<1>. QED
  BY <1>1, <1>2 DEF QuietInv, Uneventful

LEMMA LifeStep ==
  ASSUME TypeOK, [Next]_vars
  PROVE  \/ Uneventful
         \/ JobRuns \/ StartSpawns
         \/ \E c \in Callers : Stop(c) \/ StopConnection(c) \/ StopBridges(c) \/ StopReturns(c)
<1> USE DEF Uneventful, Live, startVars, stopVars, jobVars, refreshVars
<1>1. CASE RequestStart \/ DirectoryChecked \/ JobEnds
  BY <1>1 DEF RequestStart, DirectoryChecked, JobEnds
<1>2. CASE StartPrepares \/ StartUnprepared \/ StartAborts \/ StartAbandons \/ StartFails
  BY <1>2 DEF StartPrepares, StartUnprepared, StartAborts, StartAbandons, StartFails
<1>3. CASE StartSucceeds
  BY <1>3 DEF StartSucceeds, TypeOK
<1>4. ASSUME NEW c \in Connections, HandshakeSucceeds(c) \/ HandshakeFails(c) \/ ChildGone(c)
      PROVE Uneventful
  BY <1>4 DEF HandshakeSucceeds, HandshakeFails, ChildGone, TypeOK
<1>5. ASSUME NEW c \in Connections, ConnectionFails(c) PROVE Uneventful
  BY <1>5 DEF ConnectionFails, TypeOK
<1>6. ASSUME NEW c \in Connections, AgentStarts(c) \/ AgentSettles(c) PROVE Uneventful
  BY <1>6 DEF AgentStarts, AgentSettles
<1>7. CASE RefreshAnswered \/ RefreshApplies
  BY <1>7 DEF RefreshAnswered, RefreshApplies
<1>8. CASE UNCHANGED vars
  BY <1>8 DEF vars
<1>. QED
  BY <1>1, <1>2, <1>3, <1>4, <1>5, <1>6, <1>7, <1>8 DEF Next

\* A start that begins finds no child: it would have been joined otherwise.
LEMMA JobRunsKeeps ==
  ASSUME TypeOK, QuietInv, JobRuns
  PROVE  QuietInv' /\ (ReachedByStop => ReachedByStop')
<1>1. UNCHANGED <<current, conn, disposed, stopPc, removed>>
  BY DEF JobRuns, stopVars
<1>2. startPc' = startPc \/ ~Started
  BY DEF JobRuns, RuntimeStart, Joins, startVars
<1>3. ~Started => CurrentQuiet
  BY DEF Started, HasChild, Live, CurrentQuiet
<1>. QED
  BY <1>1, <1>2, <1>3 DEF QuietInv, CurrentQuiet, ReachedByStop, Live

\* A start spawns when the current connection has no child and no stop is between its
\* request and the removal of the directories: the child of its own is current then.
LEMMA StartSpawnsKeeps ==
  ASSUME TypeOK, QuietInv, StartSpawns
  PROVE  QuietInv' /\ (ReachedByStop => ReachedByStop')
<1>1. CurrentQuiet
  BY DEF StartSpawns, QuietInv
<1>2. PICK c \in Connections : conn' = [conn EXCEPT ![c] = "handshake"] /\ current' = c
  BY DEF StartSpawns
<1>3. UNCHANGED <<disposed, stopPc, removed>> /\ startPc' = "handshake"
  BY DEF StartSpawns, stopVars, jobVars
<1>4. ReachedByStop => ReachedByStop'
  <2>1. ReachedByStop => NoneLive
    BY <1>1, ConnectionNumbers DEF ReachedByStop, CurrentQuiet, NoneLive
  <2>. QED
    BY <2>1, <1>2 DEF ReachedByStop, NoneLive, Live, TypeOK
<1>5. \A d \in Callers : stopPc[d] \notin {"connection", "bridges"}
  BY DEF StartSpawns, StopsWereQuick
<1>6. ~disposed
  BY DEF StartSpawns, Superseded
<1>7. \A d \in Closers : stopPc[d] = "idle"
  BY <1>6 DEF QuietInv
<1>. QED
  BY <1>3, <1>4, <1>5, <1>6, <1>7 DEF QuietInv

\* A stop disposes the runtime when a close makes it, and asks the child of the current
\* connection to end before it goes on.
LEMMA StopKeeps ==
  ASSUME TypeOK, QuietInv, NEW c \in Callers, Stop(c) \/ StopConnection(c)
  PROVE  QuietInv' /\ (ReachedByStop => ReachedByStop')
<1> USE DEF Callers
<1>1. CASE Stop(c)
  <2>1. UNCHANGED <<current, conn, startPc, removed>> /\ disposed' = (disposed \/ c \in Closers)
    BY <1>1 DEF Stop, startVars, jobVars
  <2>2. \A d \in Callers : stopPc'[d] = IF d = c THEN "cancelUi" ELSE stopPc[d]
    BY <1>1 DEF Stop, TypeOK
  <2>. QED
    BY <2>1, <2>2 DEF QuietInv, CurrentQuiet, ReachedByStop, Live
<1>2. CASE StopConnection(c)
  <2>1. UNCHANGED <<current, startPc, removed, disposed>>
    BY <1>2 DEF StopConnection, startVars, jobVars
  <2>2. \A d \in Callers : stopPc'[d] = IF d = c THEN "connection" ELSE stopPc[d]
    BY <1>2 DEF StopConnection, TypeOK
  <2>3. CurrentQuiet'
    <3>1. CASE MustStop
      BY <1>2, <2>1, <3>1 DEF StopConnection, CurrentQuiet, MustStop, Started, Live, TypeOK
    <3>2. CASE ~MustStop
      BY <1>2, <2>1, <3>2 DEF StopConnection, CurrentQuiet, Live, MustStop, Started, HasChild
    <3>. QED
      BY <3>1, <3>2
  <2>4. ReachedByStop => ReachedByStop'
    BY <1>2, <2>1 DEF StopConnection, ReachedByStop, Live, TypeOK
  <2>5. stopPc[c] # "idle"
    BY <1>2 DEF StopConnection
  <2>. QED
    BY <2>1, <2>2, <2>3, <2>4, <2>5 DEF QuietInv
<1>. QED
  BY <1>1, <1>2

LEMMA StopBridgesKeeps ==
  ASSUME TypeOK, QuietInv, NEW c \in Callers, StopBridges(c)
  PROVE  QuietInv' /\ (ReachedByStop => ReachedByStop')
<1>1. CurrentQuiet
  BY DEF StopBridges, QuietInv
<1>2. UNCHANGED <<current, conn, startPc, disposed, removed>>
  BY DEF StopBridges, jobVars
<1>3. stopPc[c] # "idle" /\ \A d \in Callers : d # c => stopPc'[d] = stopPc[d]
  BY DEF StopBridges, TypeOK
<1>. QED
  BY <1>1, <1>2, <1>3 DEF QuietInv, CurrentQuiet, ReachedByStop, Live, Callers

\* The end of a stop forgets the current connection. Its child may live only when a
\* restart was removing the directories: a close has disposed the runtime, so nothing
\* has spawned since it asked for the end.
LEMMA StopReturnsKeeps ==
  ASSUME TypeOK, QuietInv, NEW c \in Callers, StopReturns(c)
  PROVE  /\ QuietInv'
         /\ ReachedByStop => ReachedByStop' \/ (c \in Restarters /\ ForgetsOvertaker(c))
<1> USE DEF Callers
<1>1. current' = None /\ UNCHANGED <<conn, disposed>>
  BY DEF StopReturns
<1>2. removed' => removed \/ (c \in Closers /\ stopPc[c] # "idle")
  BY DEF StopReturns
<1>3. \A d \in Callers : stopPc'[d] # "idle" => stopPc[d] # "idle"
  BY DEF StopReturns, TypeOK
<1>4. QuietInv'
  BY <1>1, <1>2, <1>3 DEF QuietInv, CurrentQuiet
<1>5. CASE current # None /\ Live(current)
  <2>1. stopPc[c] = "removing" /\ c \notin Closers
    BY <1>5 DEF StopReturns, QuietInv, CurrentQuiet
  <2>. QED
    BY <1>4, <1>5, <2>1 DEF ForgetsOvertaker
<1>6. CASE ~(current # None /\ Live(current))
  <2>1. ReachedByStop => NoneLive
    BY <1>6, ConnectionNumbers DEF ReachedByStop, NoneLive
  <2>. QED
    BY <1>1, <1>4, <2>1 DEF ReachedByStop, NoneLive, Live
<1>. QED
  BY <1>5, <1>6

\* Every step keeps the invariant, and every child within reach of a stop, but for the
\* one step that forgets a connection.
LEMMA QuietStep ==
  ASSUME TypeOK, QuietInv, [Next]_vars
  PROVE  /\ QuietInv'
         /\ ReachedByStop => ReachedByStop' \/ \E c \in Restarters : ForgetsOvertaker(c)
  BY LifeStep, UneventfulKeeps, JobRunsKeeps, StartSpawnsKeeps, StopKeeps, StopBridgesKeeps,
     StopReturnsKeeps

LEMMA QuietInvariant == Spec => []QuietInv
<1>1. Init => QuietInv
  BY DEF Init, QuietInv, CurrentQuiet, Callers
<1>2. TypeOK /\ QuietInv /\ [Next]_vars => QuietInv'
  BY QuietStep
<1>. QED
  BY <1>1, <1>2, TypeCorrect, PTL DEF Spec

\* While a stop() reaches every child, ChildOwned holds.
LEMMA ReachedMeansOwned == QuietInv /\ ReachedByStop => ChildOwned
<1> SUFFICES ASSUME QuietInv, ReachedByStop PROVE ChildOwned
  OBVIOUS
<1>1. NoLeakedChild /\ ClosedForGood
  BY ConnectionNumbers DEF QuietInv, CurrentQuiet, ReachedByStop, NoLeakedChild, ClosedForGood
<1>2. OneLiveChild
  <2> DEFINE Alive == {c \in Connections : Live(c)}
  <2>1. Alive = {} \/ Alive = {current}
    BY DEF ReachedByStop
  <2>2. Cardinality({}) = 0 /\ Cardinality({current}) = 1
    BY FS_EmptySet, FS_Singleton
  <2>. QED
    BY <2>1, <2>2 DEF OneLiveChild
<1>. QED
  BY <1>1, <1>2 DEF ChildOwned

\* The runtime answers for its children, whatever the removal of the directories takes: a
\* stop() reaches every child at the start; while it does, one child at most lives and
\* none once closeSession has run to its end; and only one step ends this, the return of
\* a restart's stop() that forgets a connection spawned while it removed the directories
\* (SessionRuntime.ts, stop). No close loses a child, nor does any start, failure or
\* earlier part of a stop, in any order.
THEOREM ChildrenOwned ==
  Spec => /\ ReachedByStop
          /\ [](ReachedByStop => ChildOwned)
          /\ [][ReachedByStop => ReachedByStop' \/ \E c \in Restarters : ForgetsOvertaker(c)]_vars
<1>1. Init => ReachedByStop
  BY DEF Init, ReachedByStop, Live
<1>. QED
  BY <1>1, QuietStep, ReachedMeansOwned, QuietInvariant, TypeCorrect, PTL DEF Spec

\* When no start spawns while the directories are removed, as the runs assume, that step
\* never comes and the runtime answers for its children at all times.
LEMMA QuickCleanupOwns == ASSUME ~SlowCleanup PROVE Spec => []ChildOwned
<1> DEFINE Removal == \A c \in Callers : stopPc[c] = "removing" => CurrentQuiet
<1>1. Init => Removal /\ ReachedByStop
  BY DEF Init, ReachedByStop, Live
<1>2. TypeOK /\ QuietInv /\ Removal /\ [Next]_vars => Removal'
  <2> SUFFICES ASSUME TypeOK, QuietInv, Removal, [Next]_vars PROVE Removal'
    OBVIOUS
  <2>1. CASE Uneventful
    BY <2>1 DEF Uneventful, CurrentQuiet, TypeOK
  <2>2. CASE JobRuns
    BY <2>2 DEF JobRuns, stopVars, CurrentQuiet, Live
  <2>3. CASE StartSpawns
    BY <2>3 DEF StartSpawns, stopVars
  <2>4. ASSUME NEW c \in Callers, Stop(c) PROVE Removal'
    BY <2>4 DEF Stop, TypeOK, CurrentQuiet, Live
  <2>5. ASSUME NEW c \in Callers, StopConnection(c) PROVE Removal'
    <3>1. CurrentQuiet => CurrentQuiet'
      BY <2>5 DEF StopConnection, CurrentQuiet, Live, TypeOK
    <3>2. \A d \in Callers : stopPc'[d] = "removing" => stopPc[d] = "removing"
      BY <2>5 DEF StopConnection, TypeOK
    <3>. QED
      BY <3>1, <3>2
  <2>6. ASSUME NEW c \in Callers, StopBridges(c) PROVE Removal'
    BY <2>6 DEF StopBridges, QuietInv, CurrentQuiet, Live
  <2>7. ASSUME NEW c \in Callers, StopReturns(c) PROVE Removal'
    BY <2>7 DEF StopReturns, CurrentQuiet
  <2>. QED
    BY LifeStep, <2>1, <2>2, <2>3, <2>4, <2>5, <2>6, <2>7
<1>3. TypeOK /\ QuietInv /\ Removal /\ ReachedByStop /\ [Next]_vars => ReachedByStop'
  BY QuietStep DEF ForgetsOvertaker, CurrentQuiet, Callers
<1>. QED
  BY <1>1, <1>2, <1>3, ReachedMeansOwned, QuietInvariant, TypeCorrect, PTL DEF Spec

-----------------------------------------------------------------------------
(* Overtaken starts                                                        *)

\* A start that a stop has overtaken ends without a word, whatever it came to: the status
\* it would publish belongs to a life that is over (SessionRuntime.ts, startInternal).
THEOREM OvertakenSilent == Spec => OvertakenStartIsSilent
<1>1. [Next]_vars => (startPc # "none" /\ startPc' = "none" /\ Superseded => status' = status)
  <2> SUFFICES ASSUME [Next]_vars, startPc # "none", startPc' = "none", Superseded
               PROVE  status' = status
    OBVIOUS
  <2> USE DEF startVars, stopVars, jobVars, refreshVars
  <2>1. CASE RequestStart \/ DirectoryChecked \/ JobRuns \/ JobEnds
    BY <2>1 DEF RequestStart, DirectoryChecked, JobRuns, JobEnds, RuntimeStart, Joins
  <2>2. CASE StartPrepares \/ StartUnprepared \/ StartAborts \/ StartAbandons \/ StartSpawns
    BY <2>2 DEF StartPrepares, StartUnprepared, StartAborts, StartAbandons, StartSpawns
  <2>3. CASE StartSucceeds \/ StartFails
    BY <2>3 DEF StartSucceeds, StartFails, FailureStatus
  <2>4. ASSUME NEW c \in Callers, Stop(c) \/ StopConnection(c) \/ StopBridges(c) \/ StopReturns(c)
        PROVE startPc' = startPc
    BY <2>4 DEF Stop, StopConnection, StopBridges, StopReturns
  <2>5. ASSUME NEW c \in Connections, \/ HandshakeSucceeds(c) \/ HandshakeFails(c)
                                      \/ ConnectionFails(c) \/ ChildGone(c)
                                      \/ AgentStarts(c) \/ AgentSettles(c)
        PROVE startPc' = startPc
    BY <2>5 DEF HandshakeSucceeds, HandshakeFails, ConnectionFails, ChildGone, AgentStarts, AgentSettles
  <2>6. CASE RefreshAnswered \/ RefreshApplies \/ UNCHANGED vars
    BY <2>6 DEF RefreshAnswered, RefreshApplies, vars
  <2>. QED
    BY <2>1, <2>2, <2>3, <2>4, <2>5, <2>6 DEF Next
<1>. QED
  BY <1>1, PTL DEF Spec, OvertakenStartIsSilent
=============================================================================
