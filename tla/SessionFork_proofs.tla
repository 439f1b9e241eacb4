------------------------- MODULE SessionFork_proofs -------------------------
(***************************************************************************)
(* Proofs about SessionFork for any number of forks of a session, asked    *)
(* for by one page after the other, next to its close and the creation of  *)
(* other sessions.                                                         *)
(*                                                                         *)
(* The argument: an operation excludes every other fork (TurnInv), so that *)
(* what a fork saw before an await is still so after it: its runtime is    *)
(* the original's until Pi answers and its own from then on (PhaseInv). So *)
(* the ids can change hands in one step without two ids meaning the same   *)
(* runtime (SessionsInv), and a runtime leaves the collection only when    *)
(* its process has been asked to end and has ended (ProcessInv).           *)
(***************************************************************************)
EXTENDS SessionFork, TLAPS

\* No name stands for two things.
LEMMA Names ==
  /\ None \notin Ids /\ None \notin Runtimes /\ Source \notin Forks /\ First \notin Forks
  /\ Source \in Ids /\ Forks \subseteq Ids /\ Forks \subseteq Runtimes /\ Source \notin Runtimes
  /\ "no" \notin Runtimes /\ "closed" \notin Runtimes /\ None \notin Forks
  BY ForksAssumption DEF Ids, Runtimes, Source, First, None

-----------------------------------------------------------------------------
(* Types                                                                   *)

\* A fork under way has a runtime, which the recovery disposes.
RuntimeKnown ==
  \A f \in Forks : pc[f] \notin {"idle", "start", "done"} => runtime[f] \in Runtimes
TypeInv == TypeOK /\ RuntimeKnown

\* Every variable of the registry keeps its type at every await of a fork, its recovery,
\* a close and a creation.
LEMMA TypeInvariant == Spec => []TypeInv
<1>1. ASSUME Init PROVE TypeInv
  <2>1. runtimes \in [Ids -> Runtimes \union {None}] /\ records \subseteq Ids /\ temporary \subseteq Ids
    BY <1>1, Names DEF Init, Runtimes
  <2>2. ownId \in [Runtimes -> Ids] /\ process \in [Runtimes -> Processes] /\ disposed \subseteq Runtimes
    BY <1>1, Names DEF Init, Processes
  <2>3. pc \in [Forks -> Pcs] /\ runtime \in [Forks -> Runtimes \union {None}]
    BY <1>1 DEF Init, Pcs
  <2>. QED
    BY <1>1, <2>1, <2>2, <2>3, Names DEF Init, TypeInv, TypeOK, RuntimeKnown
<1>2. TypeInv /\ [Next]_vars => TypeInv'
  <2> SUFFICES ASSUME TypeInv, [Next]_vars PROVE TypeInv'
    OBVIOUS
  <2> USE Names DEF TypeInv, RuntimeKnown, TypeOK, Processes, Pcs, registry, runtimeVars, operationVars, forkVars
  <2>1. ASSUME NEW f \in Forks, Fork(f) PROVE TypeInv'
    BY <2>1 DEF Fork, Goto
  <2>2. ASSUME NEW f \in Forks, ForkRefused(f) PROVE TypeInv'
    BY <2>2 DEF ForkRefused, End, Goto
  <2>3. ASSUME NEW f \in Forks, ForkBegins(f) PROVE TypeInv'
    BY <2>3 DEF ForkBegins, Send, Goto
  <2>4. ASSUME NEW f \in Forks, PiAnswers(f) PROVE TypeInv'
    BY <2>4 DEF PiAnswers
  <2>5. ASSUME NEW f \in Forks, RequestFails(f) PROVE TypeInv'
    BY <2>5 DEF RequestFails
  <2>6. ASSUME NEW f \in Forks, ForkCommits(f) PROVE TypeInv'
    BY <2>6 DEF ForkCommits, Rekey, RebindIds, Send, Goto, Selectable, Existing
  <2>7. ASSUME NEW f \in Forks, ForkDeclined(f) PROVE TypeInv'
    BY <2>7 DEF ForkDeclined, FinishOperation, End, Goto
  <2>8. ASSUME NEW f \in Forks, Reconciles(f) PROVE TypeInv'
    BY <2>8 DEF Reconciles, Send, Goto
  <2>9. ASSUME NEW f \in Forks, ForkSucceeds(f) PROVE TypeInv'
    BY <2>9 DEF ForkSucceeds, FinishOperation, End, Goto
  <2>10. ASSUME NEW f \in Forks, ForkFails(f) PROVE TypeInv'
    BY <2>10 DEF ForkFails, Goto
  <2>11. ASSUME NEW f \in Forks, RestoreStops(f) PROVE TypeInv'
    BY <2>11 DEF RestoreStops, Goto, StopRuntime, RejectRequests
  <2>12. ASSUME NEW f \in Forks, RestoreRecovers(f) PROVE TypeInv'
    <3>1. runtimes' \in [Ids -> Runtimes \union {None}] /\ records' \subseteq Ids
          /\ temporary' \subseteq Ids /\ disposed' \subseteq Runtimes
      BY <2>12 DEF RestoreRecovers
    <3>2. active' \in Ids \union {None}
      BY <2>12 DEF RestoreRecovers, Selectable, Existing
    <3>3. process' \in [Runtimes -> Processes] /\ pc' \in [Forks -> Pcs]
          /\ outcome' \in [Forks -> {"none", "forked", "cancelled", "threw"}]
      BY <2>12 DEF RestoreRecovers, Goto, End
    <3>4. RuntimeKnown'
      BY <2>12 DEF RestoreRecovers, Goto, End
    <3>5. UNCHANGED <<operation, creating, ownId, runtime, phase, cancelled, stopPromise, request, closing>>
      BY <2>12 DEF RestoreRecovers
    <3>. QED
      BY <3>1, <3>2, <3>3, <3>4, <3>5 DEF TypeInv
  <2>13. ASSUME NEW f \in Forks, RestoreEnds(f) PROVE TypeInv'
    BY <2>13 DEF RestoreEnds, FinishOperation, End, Goto
  <2>14. ASSUME NEW f \in Forks, CancelFork(f) PROVE TypeInv'
    BY <2>14 DEF CancelFork, StopRuntime, RejectRequests
  <2>15. ASSUME NEW r \in Runtimes, ProcessEnds(r) PROVE TypeInv'
    BY <2>15 DEF ProcessEnds
  <2>16. ASSUME NEW r \in Runtimes, ProcessStarts(r) PROVE TypeInv'
    BY <2>16 DEF ProcessStarts
  <2>17. ASSUME NEW r \in Runtimes, ProcessFails(r) PROVE TypeInv'
    BY <2>17 DEF ProcessFails, RejectRequests
  <2>18. CASE OriginalStarts
    BY <2>18 DEF OriginalStarts, Restartable
  <2>19. CASE Close
    BY <2>19 DEF Close, StopRuntime, RejectRequests
  <2>20. CASE CloseRemoves
    BY <2>20 DEF CloseRemoves, Selectable, Existing, Remains
  <2>21. CASE CreateBegins
    BY <2>21 DEF CreateBegins
  <2>22. CASE CreateEnds
    BY <2>22 DEF CreateEnds
  <2>23. CASE UNCHANGED vars
    BY <2>23 DEF vars
  <2>. QED
    BY <2>1, <2>2, <2>3, <2>4, <2>5, <2>6, <2>7, <2>8, <2>9, <2>10, <2>11, <2>12, <2>13,
       <2>14, <2>15, <2>16, <2>17, <2>18, <2>19, <2>20, <2>21, <2>22, <2>23 DEF Next
<1>. QED
  BY <1>1, <1>2, PTL DEF Spec

-----------------------------------------------------------------------------
(* The invariant                                                           *)

\* The awaits of a fork whose operation is under way, and those before the recovery has
\* removed what is to be removed.
Unsettled == {"execute", "name", "state", "entries", "rest", "restore", "recover"}
Busy == Unsettled \union {"start"}
Ended == {"stopping", "stopped", "failed"}

\* Whose turn it is: one fork at most is between the guards and its end.
TurnInv ==
  /\ \A f \in Forks : pc[f] = "access" => operation = None /\ \A g \in Forks : pc[g] = "access" => g = f
  /\ \A f \in Forks : pc[f] \in Busy => operation = f
  /\ \A f \in Forks : operation = f => pc[f] \in Busy \/ (pc[f] = "done" /\ closing = "closed" /\ stopPromise[f])
  /\ \A f \in Forks : outcome[f] # "none" => pc[f] = "done"

\* Which sessions there are, and under which runtimes.
SessionsInv ==
  /\ IdentitiesMatch /\ MapsAgree /\ SelectionExists
  /\ runtimes[Source] = None <=> closing = "closed"
  /\ \A i \in Ids, f \in Forks : runtimes[i] = f => phase[f] = "reconciling"
  /\ \A f \in Forks : f \in temporary <=> runtimes[f] # None
  /\ \A f \in Forks : phase[f] = "waiting-for-pi" => runtimes[f] = None
  /\ \A f \in Forks : outcome[f] \in {"cancelled", "threw"} \/ pc[f] = "start" => runtimes[f] = None
  /\ \A f \in Forks : outcome[f] = "forked" => runtimes[f] = runtime[f] /\ runtime[f] # None

\* What a fork under way relies on: before Pi's answer its runtime is the original's, after
\* it the fork's own, and the original waits under a runtime of its own.
PhaseInv ==
  /\ \A f \in Forks : pc[f] \in {"idle", "access", "execute"} => phase[f] = "waiting-for-pi"
  /\ \A f \in Forks : pc[f] \in {"name", "state", "entries", "rest"} => phase[f] = "reconciling"
  /\ \A f \in Forks : pc[f] \in Unsettled \union {"access"} => process[runtime[f]] # "absent"
  /\ \A f \in Forks : pc[f] \in Unsettled \union {"access"} /\ phase[f] = "waiting-for-pi" =>
       ownId[runtime[f]] = Source /\ (runtimes[Source] # None => runtimes[Source] = runtime[f])
  /\ \A f \in Forks : pc[f] \in Unsettled /\ phase[f] = "reconciling" =>
       runtimes[f] = runtime[f] /\ process[f] = "stopped"
  /\ \A f \in Forks : pc[f] \in Busy /\ phase[f] = "reconciling" => runtimes[Source] = f /\ closing = "no"
  /\ \A f \in Forks : pc[f] = "execute" => closing = "no"
  /\ \A f \in Forks : phase[f] = "waiting-for-pi" => f \notin disposed
  /\ \A f \in Forks : pc[f] = "start" /\ phase[f] = "reconciling" => process[f] \in {"starting", "ready", "failed"}

\* What becomes of the processes.
ProcessInv ==
  /\ \A i \in Ids : runtimes[i] # None => process[runtimes[i]] # "absent"
  /\ closing \in Runtimes => closing = runtimes[Source] /\ process[closing] \in Ended /\ closing \in disposed
  /\ \A i \in Ids : runtimes[i] \in disposed => i = Source /\ closing = runtimes[i]
  /\ \A f \in Forks : pc[f] \in Unsettled /\ stopPromise[f] => process[runtime[f]] \in Ended
  /\ \A f \in Forks : pc[f] \in {"recover", "start"} => stopPromise[f]
  /\ \A f \in Forks : pc[f] \in {"idle", "access"} => ~stopPromise[f]

ForkInv ==
  /\ TurnInv /\ SessionsInv /\ PhaseInv
  /\ ProcessInv /\ NoProcessLeftBehind /\ OriginalRecovered

LEMMA ForkKeeps ==
  ASSUME TypeInv, ForkInv, ~Overlap, NEW f \in Forks, Fork(f)
  PROVE  ForkInv'
<1> USE Names DEF TypeInv, TypeOK, RuntimeKnown, ForkInv, registry, runtimeVars, operationVars, forkVars, Unsettled, Busy, Ended
<1>1. TurnInv'
  BY DEF Fork, Goto, TurnInv, SessionsInv, ProcessInv
<1>2. SessionsInv'
  BY DEF Fork, Goto, SessionsInv, TurnInv, PhaseInv, IdentitiesMatch, MapsAgree,
         SelectionExists
<1>3. PhaseInv'
  BY DEF Fork, Goto, PhaseInv, TurnInv, SessionsInv, ProcessInv, IdentitiesMatch,
         NoProcessLeftBehind
<1>4. ProcessInv'
  BY DEF Fork, Goto, ProcessInv, TurnInv, PhaseInv, SessionsInv, IdentitiesMatch,
         NoProcessLeftBehind
<1>5. NoProcessLeftBehind'
  BY DEF Fork, Goto, NoProcessLeftBehind
<1>6. OriginalRecovered'
  BY DEF Fork, Goto, OriginalRecovered, TurnInv, SessionsInv, PhaseInv, ProcessInv
<1>. QED
  BY <1>1, <1>2, <1>3, <1>4, <1>5, <1>6

LEMMA ForkRefusedKeeps ==
  ASSUME TypeInv, ForkInv, NEW f \in Forks, ForkRefused(f)
  PROVE  ForkInv'
<1> USE Names DEF TypeInv, TypeOK, RuntimeKnown, ForkInv, registry, runtimeVars, operationVars, forkVars, Unsettled, Busy, Ended
<1>1. TurnInv'
  BY DEF ForkRefused, End, Goto, TurnInv, SessionsInv, ProcessInv
<1>2. SessionsInv'
  BY DEF ForkRefused, End, Goto, SessionsInv, TurnInv, PhaseInv, IdentitiesMatch, MapsAgree,
         SelectionExists
<1>3. PhaseInv'
  BY DEF ForkRefused, End, Goto, PhaseInv, TurnInv, SessionsInv, ProcessInv,
         IdentitiesMatch, NoProcessLeftBehind
<1>4. ProcessInv'
  BY DEF ForkRefused, End, Goto, ProcessInv, TurnInv, PhaseInv, SessionsInv,
         IdentitiesMatch, NoProcessLeftBehind
<1>5. NoProcessLeftBehind'
  BY DEF ForkRefused, End, Goto, NoProcessLeftBehind
<1>6. OriginalRecovered'
  BY DEF ForkRefused, End, Goto, OriginalRecovered, TurnInv, SessionsInv, PhaseInv,
         ProcessInv
<1>. QED
  BY <1>1, <1>2, <1>3, <1>4, <1>5, <1>6

LEMMA ForkBeginsKeeps ==
  ASSUME TypeInv, ForkInv, NEW f \in Forks, ForkBegins(f)
  PROVE  ForkInv'
<1> USE Names DEF TypeInv, TypeOK, RuntimeKnown, ForkInv, registry, runtimeVars, operationVars, forkVars, Unsettled, Busy, Ended
<1>1. TurnInv'
  BY DEF ForkBegins, Send, Goto, TurnInv, SessionsInv, ProcessInv
<1>2. SessionsInv'
  BY DEF ForkBegins, Send, Goto, SessionsInv, TurnInv, PhaseInv, IdentitiesMatch, MapsAgree,
         SelectionExists
<1>3. PhaseInv'
  BY DEF ForkBegins, Send, Goto, PhaseInv, TurnInv, SessionsInv, ProcessInv,
         IdentitiesMatch, NoProcessLeftBehind
<1>4. ProcessInv'
  BY DEF ForkBegins, Send, Goto, ProcessInv, TurnInv, PhaseInv, SessionsInv,
         IdentitiesMatch, NoProcessLeftBehind
<1>5. NoProcessLeftBehind'
  BY DEF ForkBegins, Send, Goto, NoProcessLeftBehind, ProcessInv, PhaseInv, SessionsInv,
         TurnInv, IdentitiesMatch
<1>6. OriginalRecovered'
  BY DEF ForkBegins, Send, Goto, OriginalRecovered, TurnInv, SessionsInv, PhaseInv,
         ProcessInv
<1>. QED
  BY <1>1, <1>2, <1>3, <1>4, <1>5, <1>6

LEMMA PiAnswersKeeps ==
  ASSUME TypeInv, ForkInv, NEW f \in Forks, PiAnswers(f)
  PROVE  ForkInv'
<1> USE Names DEF TypeInv, TypeOK, RuntimeKnown, ForkInv, registry, runtimeVars, operationVars, forkVars, Unsettled, Busy, Ended
<1>1. TurnInv'
  BY DEF PiAnswers, TurnInv, SessionsInv, ProcessInv
<1>2. SessionsInv'
  BY DEF PiAnswers, SessionsInv, TurnInv, PhaseInv, IdentitiesMatch, MapsAgree,
         SelectionExists
<1>3. PhaseInv'
  BY DEF PiAnswers, PhaseInv, TurnInv, SessionsInv, ProcessInv, IdentitiesMatch,
         NoProcessLeftBehind
<1>4. ProcessInv'
  BY DEF PiAnswers, ProcessInv, TurnInv, PhaseInv, SessionsInv, IdentitiesMatch,
         NoProcessLeftBehind
<1>5. NoProcessLeftBehind'
  BY DEF PiAnswers, NoProcessLeftBehind
<1>6. OriginalRecovered'
  BY DEF PiAnswers, OriginalRecovered, TurnInv, SessionsInv, PhaseInv, ProcessInv
<1>. QED
  BY <1>1, <1>2, <1>3, <1>4, <1>5, <1>6

LEMMA RequestFailsKeeps ==
  ASSUME TypeInv, ForkInv, NEW f \in Forks, RequestFails(f)
  PROVE  ForkInv'
<1> USE Names DEF TypeInv, TypeOK, RuntimeKnown, ForkInv, registry, runtimeVars, operationVars, forkVars, Unsettled, Busy, Ended
<1>1. TurnInv'
  BY DEF RequestFails, TurnInv, SessionsInv, ProcessInv
<1>2. SessionsInv'
  BY DEF RequestFails, SessionsInv, TurnInv, PhaseInv, IdentitiesMatch, MapsAgree,
         SelectionExists
<1>3. PhaseInv'
  BY DEF RequestFails, PhaseInv, TurnInv, SessionsInv, ProcessInv, IdentitiesMatch,
         NoProcessLeftBehind
<1>4. ProcessInv'
  BY DEF RequestFails, ProcessInv, TurnInv, PhaseInv, SessionsInv, IdentitiesMatch,
         NoProcessLeftBehind
<1>5. NoProcessLeftBehind'
  BY DEF RequestFails, NoProcessLeftBehind
<1>6. OriginalRecovered'
  BY DEF RequestFails, OriginalRecovered, TurnInv, SessionsInv, PhaseInv, ProcessInv
<1>. QED
  BY <1>1, <1>2, <1>3, <1>4, <1>5, <1>6

LEMMA ForkCommitsKeeps ==
  ASSUME TypeInv, ForkInv, NEW f \in Forks, ForkCommits(f)
  PROVE  ForkInv'
<1> USE Names DEF TypeInv, TypeOK, RuntimeKnown, ForkInv, registry, runtimeVars, operationVars, forkVars, Unsettled, Busy, Ended
<1>1. TurnInv'
  BY DEF ForkCommits, Rekey, RebindIds, Send, Goto, Selectable, Existing, TurnInv,
         SessionsInv, ProcessInv
<1>2. SessionsInv'
  <2>1. /\ phase[f] = "waiting-for-pi" /\ runtime[f] \in Runtimes /\ ownId[runtime[f]] = Source
        /\ runtimes[Source] = runtime[f] /\ runtimes[f] = None /\ runtime[f] # f
        /\ \A i \in Ids : runtimes[i] # f
    BY DEF ForkCommits, PhaseInv, SessionsInv
  <2>2. /\ \A i \in Ids : runtimes'[i] = IF i = Source THEN f ELSE IF i = f THEN runtime[f] ELSE runtimes[i]
        /\ \A r \in Runtimes : ownId'[r] = IF r = f THEN Source ELSE IF r = runtime[f] THEN f ELSE ownId[r]
        /\ records' = records \union {f} /\ temporary' = temporary \union {f}
        /\ \A g \in Forks : phase'[g] = IF g = f THEN "reconciling" ELSE phase[g]
        /\ \A g \in Forks : pc'[g] = IF g = f THEN "name" ELSE pc[g]
        /\ UNCHANGED <<closing, runtime, outcome>>
    BY <2>1 DEF ForkCommits, Rekey, RebindIds, Send, Goto
  <2>3. IdentitiesMatch'
    BY <2>1, <2>2 DEF SessionsInv, IdentitiesMatch
  <2>4. MapsAgree'
    BY <2>1, <2>2 DEF SessionsInv, MapsAgree
  <2>5. SelectionExists'
    BY <2>1, <2>2 DEF SessionsInv, SelectionExists, ForkCommits, Rekey, Selectable, Existing
  <2>6. outcome[f] = "none"
    BY DEF ForkCommits, TurnInv
  <2>. QED
    BY <2>1, <2>2, <2>3, <2>4, <2>5, <2>6 DEF SessionsInv, TurnInv
<1>3. PhaseInv'
  BY DEF ForkCommits, Rekey, RebindIds, Send, Goto, Selectable, Existing, PhaseInv, TurnInv,
         SessionsInv, ProcessInv, IdentitiesMatch, NoProcessLeftBehind
<1>4. ProcessInv'
  BY DEF ForkCommits, Rekey, RebindIds, Send, Goto, Selectable, Existing, ProcessInv,
         TurnInv, PhaseInv, SessionsInv, IdentitiesMatch, NoProcessLeftBehind
<1>5. NoProcessLeftBehind'
  BY DEF ForkCommits, Rekey, RebindIds, Send, Goto, Selectable, Existing,
         NoProcessLeftBehind, ProcessInv, PhaseInv, SessionsInv, TurnInv, IdentitiesMatch
<1>6. OriginalRecovered'
  BY DEF ForkCommits, Rekey, RebindIds, Send, Goto, Selectable, Existing, OriginalRecovered,
         TurnInv, SessionsInv, PhaseInv, ProcessInv
<1>. QED
  BY <1>1, <1>2, <1>3, <1>4, <1>5, <1>6

LEMMA ForkDeclinedKeeps ==
  ASSUME TypeInv, ForkInv, NEW f \in Forks, ForkDeclined(f)
  PROVE  ForkInv'
<1> USE Names DEF TypeInv, TypeOK, RuntimeKnown, ForkInv, registry, runtimeVars, operationVars, forkVars, Unsettled, Busy, Ended
<1>1. TurnInv'
  BY DEF ForkDeclined, FinishOperation, End, Goto, TurnInv, SessionsInv, ProcessInv
<1>2. SessionsInv'
  BY DEF ForkDeclined, FinishOperation, End, Goto, SessionsInv, TurnInv, PhaseInv,
         IdentitiesMatch, MapsAgree, SelectionExists
<1>3. PhaseInv'
  BY DEF ForkDeclined, FinishOperation, End, Goto, PhaseInv, TurnInv, SessionsInv,
         ProcessInv, IdentitiesMatch, NoProcessLeftBehind
<1>4. ProcessInv'
  BY DEF ForkDeclined, FinishOperation, End, Goto, ProcessInv, TurnInv, PhaseInv,
         SessionsInv, IdentitiesMatch, NoProcessLeftBehind
<1>5. NoProcessLeftBehind'
  BY DEF ForkDeclined, FinishOperation, End, Goto, NoProcessLeftBehind
<1>6. OriginalRecovered'
  BY DEF ForkDeclined, FinishOperation, End, Goto, OriginalRecovered, TurnInv, SessionsInv,
         PhaseInv, ProcessInv
<1>. QED
  BY <1>1, <1>2, <1>3, <1>4, <1>5, <1>6

LEMMA ReconcilesKeeps ==
  ASSUME TypeInv, ForkInv, NEW f \in Forks, Reconciles(f)
  PROVE  ForkInv'
<1> USE Names DEF TypeInv, TypeOK, RuntimeKnown, ForkInv, registry, runtimeVars, operationVars, forkVars, Unsettled, Busy, Ended
<1>1. TurnInv'
  BY DEF Reconciles, Send, Goto, TurnInv, SessionsInv, ProcessInv
<1>2. SessionsInv'
  BY DEF Reconciles, Send, Goto, SessionsInv, TurnInv, PhaseInv, IdentitiesMatch, MapsAgree,
         SelectionExists
<1>3. PhaseInv'
  BY DEF Reconciles, Send, Goto, PhaseInv, TurnInv, SessionsInv, ProcessInv,
         IdentitiesMatch, NoProcessLeftBehind
<1>4. ProcessInv'
  BY DEF Reconciles, Send, Goto, ProcessInv, TurnInv, PhaseInv, SessionsInv,
         IdentitiesMatch, NoProcessLeftBehind
<1>5. NoProcessLeftBehind'
  BY DEF Reconciles, Send, Goto, NoProcessLeftBehind
<1>6. OriginalRecovered'
  BY DEF Reconciles, Send, Goto, OriginalRecovered, TurnInv, SessionsInv, PhaseInv,
         ProcessInv
<1>. QED
  BY <1>1, <1>2, <1>3, <1>4, <1>5, <1>6

LEMMA ForkSucceedsKeeps ==
  ASSUME TypeInv, ForkInv, NEW f \in Forks, ForkSucceeds(f)
  PROVE  ForkInv'
<1> USE Names DEF TypeInv, TypeOK, RuntimeKnown, ForkInv, registry, runtimeVars, operationVars, forkVars, Unsettled, Busy, Ended
<1>1. TurnInv'
  BY DEF ForkSucceeds, FinishOperation, End, Goto, TurnInv, SessionsInv, ProcessInv
<1>2. SessionsInv'
  BY DEF ForkSucceeds, FinishOperation, End, Goto, SessionsInv, TurnInv, PhaseInv,
         IdentitiesMatch, MapsAgree, SelectionExists
<1>3. PhaseInv'
  BY DEF ForkSucceeds, FinishOperation, End, Goto, PhaseInv, TurnInv, SessionsInv,
         ProcessInv, IdentitiesMatch, NoProcessLeftBehind
<1>4. ProcessInv'
  BY DEF ForkSucceeds, FinishOperation, End, Goto, ProcessInv, TurnInv, PhaseInv,
         SessionsInv, IdentitiesMatch, NoProcessLeftBehind
<1>5. NoProcessLeftBehind'
  BY DEF ForkSucceeds, FinishOperation, End, Goto, NoProcessLeftBehind, ProcessInv,
         PhaseInv, SessionsInv, TurnInv, IdentitiesMatch
<1>6. OriginalRecovered'
  BY DEF ForkSucceeds, FinishOperation, End, Goto, OriginalRecovered, TurnInv, SessionsInv,
         PhaseInv, ProcessInv
<1>. QED
  BY <1>1, <1>2, <1>3, <1>4, <1>5, <1>6

LEMMA ForkFailsKeeps ==
  ASSUME TypeInv, ForkInv, NEW f \in Forks, ForkFails(f)
  PROVE  ForkInv'
<1> USE Names DEF TypeInv, TypeOK, RuntimeKnown, ForkInv, registry, runtimeVars, operationVars, forkVars, Unsettled, Busy, Ended
<1>1. TurnInv'
  BY DEF ForkFails, Goto, TurnInv, SessionsInv, ProcessInv
<1>2. SessionsInv'
  BY DEF ForkFails, Goto, SessionsInv, TurnInv, PhaseInv, IdentitiesMatch, MapsAgree,
         SelectionExists
<1>3. PhaseInv'
  BY DEF ForkFails, Goto, PhaseInv, TurnInv, SessionsInv, ProcessInv, IdentitiesMatch,
         NoProcessLeftBehind
<1>4. ProcessInv'
  BY DEF ForkFails, Goto, ProcessInv, TurnInv, PhaseInv, SessionsInv, IdentitiesMatch,
         NoProcessLeftBehind
<1>5. NoProcessLeftBehind'
  BY DEF ForkFails, Goto, NoProcessLeftBehind
<1>6. OriginalRecovered'
  BY DEF ForkFails, Goto, OriginalRecovered, TurnInv, SessionsInv, PhaseInv, ProcessInv
<1>. QED
  BY <1>1, <1>2, <1>3, <1>4, <1>5, <1>6

LEMMA RestoreStopsKeeps ==
  ASSUME TypeInv, ForkInv, NEW f \in Forks, RestoreStops(f)
  PROVE  ForkInv'
<1> USE Names DEF TypeInv, TypeOK, RuntimeKnown, ForkInv, registry, runtimeVars, operationVars, forkVars, Unsettled, Busy, Ended
<1>1. TurnInv'
  BY DEF RestoreStops, Goto, StopRuntime, RejectRequests, TurnInv, SessionsInv, ProcessInv
<1>2. SessionsInv'
  BY DEF RestoreStops, Goto, StopRuntime, RejectRequests, SessionsInv, TurnInv, PhaseInv,
         IdentitiesMatch, MapsAgree, SelectionExists
<1>3. PhaseInv'
  BY DEF RestoreStops, Goto, StopRuntime, RejectRequests, PhaseInv, TurnInv, SessionsInv,
         ProcessInv, IdentitiesMatch, NoProcessLeftBehind
<1>4. ProcessInv'
  <2>1. \A r \in Runtimes : process'[r] = process[r] \/ process'[r] = "stopping"
    BY DEF RestoreStops, StopRuntime
  <2>2. process'[runtime[f]] \in Ended
    <3>1. runtime[f] \in Runtimes /\ process[runtime[f]] \in Processes \ {"absent"}
      BY DEF RestoreStops, PhaseInv
    <3>2. CASE stopPromise[f]
      BY <3>2 DEF RestoreStops, ProcessInv
    <3>3. CASE ~stopPromise[f]
      BY <3>1, <3>3 DEF RestoreStops, StopRuntime, Processes
    <3>. QED
      BY <3>2, <3>3
  <2>3. /\ \A g \in Forks : stopPromise'[g] = IF g = f THEN TRUE ELSE stopPromise[g]
        /\ \A g \in Forks : pc'[g] = IF g = f THEN "recover" ELSE pc[g]
        /\ UNCHANGED <<runtimes, runtime, closing, disposed>>
    BY DEF RestoreStops, Goto
  <2>4. \A g \in Forks : pc[g] \in Unsettled => g = f
    BY DEF RestoreStops, TurnInv
  <2>5. /\ \A i \in Ids : runtimes[i] # None => process'[runtimes[i]] # "absent"
        /\ closing \in Runtimes => closing = runtimes[Source] /\ process'[closing] \in Ended /\ closing \in disposed
    BY <2>1 DEF ProcessInv
  <2>6. \A g \in Forks : pc'[g] \in Unsettled => g = f
    BY <2>3, <2>4
  <2>7. \A g \in Forks : pc'[g] \in Unsettled /\ stopPromise'[g] => process'[runtime'[g]] \in Ended
    BY <2>2, <2>3, <2>6
  <2>8. \A g \in Forks : /\ pc'[g] \in {"recover", "start"} => stopPromise'[g]
                         /\ pc'[g] \in {"idle", "access"} => ~stopPromise'[g]
    BY <2>3 DEF ProcessInv
  <2>. QED
    BY <2>3, <2>5, <2>7, <2>8 DEF ProcessInv
<1>5. NoProcessLeftBehind'
  BY DEF RestoreStops, Goto, StopRuntime, RejectRequests, NoProcessLeftBehind, ProcessInv,
         PhaseInv, SessionsInv, TurnInv, IdentitiesMatch
<1>6. OriginalRecovered'
  BY DEF RestoreStops, Goto, StopRuntime, RejectRequests, OriginalRecovered, TurnInv,
         SessionsInv, PhaseInv, ProcessInv
<1>. QED
  BY <1>1, <1>2, <1>3, <1>4, <1>5, <1>6

LEMMA RestoreRecoversKeeps ==
  ASSUME TypeInv, ForkInv, NEW f \in Forks, RestoreRecovers(f)
  PROVE  ForkInv'
<1> USE Names DEF TypeInv, TypeOK, RuntimeKnown, ForkInv, registry, runtimeVars, operationVars, forkVars, Unsettled, Busy, Ended
<1>1. TurnInv'
  BY DEF RestoreRecovers, Goto, Stopped, Undo, Selectable, Existing, Restartable, End,
         TurnInv, SessionsInv, ProcessInv
<1>2. SessionsInv'
  BY DEF RestoreRecovers, Goto, Stopped, Undo, Selectable, Existing, Restartable, End,
         SessionsInv, TurnInv, PhaseInv, IdentitiesMatch, MapsAgree, SelectionExists
<1>3. PhaseInv'
  BY DEF RestoreRecovers, Goto, Stopped, Undo, Selectable, Existing, Restartable, End,
         PhaseInv, TurnInv, SessionsInv, ProcessInv, IdentitiesMatch, NoProcessLeftBehind
<1>4. ProcessInv'
  BY DEF RestoreRecovers, Goto, Stopped, Undo, Selectable, Existing, Restartable, End,
         ProcessInv, TurnInv, PhaseInv, SessionsInv, IdentitiesMatch, NoProcessLeftBehind
<1>5. NoProcessLeftBehind'
  BY DEF RestoreRecovers, Goto, Stopped, Undo, Selectable, Existing, Restartable, End,
         NoProcessLeftBehind, ProcessInv, PhaseInv, SessionsInv, TurnInv, IdentitiesMatch
<1>6. OriginalRecovered'
  BY DEF RestoreRecovers, Goto, Stopped, Undo, Selectable, Existing, Restartable, End,
         OriginalRecovered, TurnInv, SessionsInv, PhaseInv, ProcessInv
<1>. QED
  BY <1>1, <1>2, <1>3, <1>4, <1>5, <1>6

LEMMA RestoreEndsKeeps ==
  ASSUME TypeInv, ForkInv, NEW f \in Forks, RestoreEnds(f)
  PROVE  ForkInv'
<1> USE Names DEF TypeInv, TypeOK, RuntimeKnown, ForkInv, registry, runtimeVars, operationVars, forkVars, Unsettled, Busy, Ended
<1>1. TurnInv'
  BY DEF RestoreEnds, FinishOperation, End, Goto, TurnInv, SessionsInv, ProcessInv
<1>2. SessionsInv'
  BY DEF RestoreEnds, FinishOperation, End, Goto, SessionsInv, TurnInv, PhaseInv,
         IdentitiesMatch, MapsAgree, SelectionExists
<1>3. PhaseInv'
  BY DEF RestoreEnds, FinishOperation, End, Goto, PhaseInv, TurnInv, SessionsInv,
         ProcessInv, IdentitiesMatch, NoProcessLeftBehind
<1>4. ProcessInv'
  BY DEF RestoreEnds, FinishOperation, End, Goto, ProcessInv, TurnInv, PhaseInv,
         SessionsInv, IdentitiesMatch, NoProcessLeftBehind
<1>5. NoProcessLeftBehind'
  BY DEF RestoreEnds, FinishOperation, End, Goto, NoProcessLeftBehind, ProcessInv, PhaseInv,
         SessionsInv, TurnInv, IdentitiesMatch
<1>6. OriginalRecovered'
  BY DEF RestoreEnds, FinishOperation, End, Goto, OriginalRecovered, TurnInv, SessionsInv,
         PhaseInv, ProcessInv
<1>. QED
  BY <1>1, <1>2, <1>3, <1>4, <1>5, <1>6

LEMMA CancelForkKeeps ==
  ASSUME TypeInv, ForkInv, NEW f \in Forks, CancelFork(f)
  PROVE  ForkInv'
<1> USE Names DEF TypeInv, TypeOK, RuntimeKnown, ForkInv, registry, runtimeVars, operationVars, forkVars, Unsettled, Busy, Ended
<1>1. TurnInv'
  BY DEF CancelFork, StopRuntime, RejectRequests, TurnInv, SessionsInv, ProcessInv
<1>2. SessionsInv'
  BY DEF CancelFork, StopRuntime, RejectRequests, SessionsInv, TurnInv, PhaseInv,
         IdentitiesMatch, MapsAgree, SelectionExists
<1>3. PhaseInv'
  BY DEF CancelFork, StopRuntime, RejectRequests, PhaseInv, TurnInv, SessionsInv,
         ProcessInv, IdentitiesMatch, NoProcessLeftBehind
<1>4. ProcessInv'
  <2>1. \A r \in Runtimes : process'[r] = process[r] \/ process'[r] = "stopping"
    BY DEF CancelFork, StopRuntime
  <2>2. pc[f] \in Unsettled => process'[runtime[f]] \in Ended
    <3>1. pc[f] \in Unsettled => runtime[f] \in Runtimes /\ process[runtime[f]] \in Processes \ {"absent"}
      BY DEF PhaseInv
    <3>2. CASE stopPromise[f]
      BY <3>2 DEF CancelFork, ProcessInv
    <3>3. CASE ~stopPromise[f]
      BY <3>1, <3>3 DEF CancelFork, StopRuntime, Processes
    <3>. QED
      BY <3>2, <3>3
  <2>3. /\ \A g \in Forks : stopPromise'[g] = IF g = f THEN TRUE ELSE stopPromise[g]
        /\ UNCHANGED <<pc, runtimes, runtime, closing, disposed>>
    BY DEF CancelFork
  <2>4. \A g \in Forks : pc[g] \in Unsettled => g = f
    BY DEF CancelFork, TurnInv
  <2>5. pc[f] \notin {"idle", "access"}
    BY DEF CancelFork, TurnInv
  <2>6. /\ \A i \in Ids : runtimes[i] # None => process'[runtimes[i]] # "absent"
        /\ closing \in Runtimes => closing = runtimes[Source] /\ process'[closing] \in Ended /\ closing \in disposed
    BY <2>1 DEF ProcessInv
  <2>7. \A g \in Forks : pc'[g] \in Unsettled => g = f
    BY <2>3, <2>4
  <2>8. \A g \in Forks : pc'[g] \in Unsettled /\ stopPromise'[g] => process'[runtime'[g]] \in Ended
    BY <2>2, <2>3, <2>7
  <2>9. \A g \in Forks : /\ pc'[g] \in {"recover", "start"} => stopPromise'[g]
                         /\ pc'[g] \in {"idle", "access"} => ~stopPromise'[g]
    BY <2>3, <2>5 DEF ProcessInv
  <2>. QED
    BY <2>3, <2>6, <2>8, <2>9 DEF ProcessInv
<1>5. NoProcessLeftBehind'
  BY DEF CancelFork, StopRuntime, RejectRequests, NoProcessLeftBehind, ProcessInv, PhaseInv,
         SessionsInv, TurnInv, IdentitiesMatch
<1>6. OriginalRecovered'
  BY DEF CancelFork, StopRuntime, RejectRequests, OriginalRecovered, TurnInv, SessionsInv,
         PhaseInv, ProcessInv
<1>. QED
  BY <1>1, <1>2, <1>3, <1>4, <1>5, <1>6

LEMMA ProcessEndsKeeps ==
  ASSUME TypeInv, ForkInv, NEW r \in Runtimes, ProcessEnds(r)
  PROVE  ForkInv'
<1> USE Names DEF TypeInv, TypeOK, RuntimeKnown, ForkInv, registry, runtimeVars, operationVars, forkVars, Unsettled, Busy, Ended
<1>1. TurnInv'
  BY DEF ProcessEnds, TurnInv, SessionsInv, ProcessInv
<1>2. SessionsInv'
  BY DEF ProcessEnds, SessionsInv, TurnInv, PhaseInv, IdentitiesMatch, MapsAgree,
         SelectionExists
<1>3. PhaseInv'
  BY DEF ProcessEnds, PhaseInv, TurnInv, SessionsInv, ProcessInv, IdentitiesMatch,
         NoProcessLeftBehind
<1>4. ProcessInv'
  BY DEF ProcessEnds, ProcessInv, TurnInv, PhaseInv, SessionsInv, IdentitiesMatch,
         NoProcessLeftBehind
<1>5. NoProcessLeftBehind'
  BY DEF ProcessEnds, NoProcessLeftBehind, ProcessInv, PhaseInv, SessionsInv, TurnInv,
         IdentitiesMatch
<1>6. OriginalRecovered'
  BY DEF ProcessEnds, OriginalRecovered, TurnInv, SessionsInv, PhaseInv, ProcessInv
<1>. QED
  BY <1>1, <1>2, <1>3, <1>4, <1>5, <1>6

LEMMA ProcessStartsKeeps ==
  ASSUME TypeInv, ForkInv, NEW r \in Runtimes, ProcessStarts(r)
  PROVE  ForkInv'
<1> USE Names DEF TypeInv, TypeOK, RuntimeKnown, ForkInv, registry, runtimeVars, operationVars, forkVars, Unsettled, Busy, Ended
<1>1. TurnInv'
  BY DEF ProcessStarts, TurnInv, SessionsInv, ProcessInv
<1>2. SessionsInv'
  BY DEF ProcessStarts, SessionsInv, TurnInv, PhaseInv, IdentitiesMatch, MapsAgree,
         SelectionExists
<1>3. PhaseInv'
  BY DEF ProcessStarts, PhaseInv, TurnInv, SessionsInv, ProcessInv, IdentitiesMatch,
         NoProcessLeftBehind
<1>4. ProcessInv'
  BY DEF ProcessStarts, ProcessInv, TurnInv, PhaseInv, SessionsInv, IdentitiesMatch,
         NoProcessLeftBehind
<1>5. NoProcessLeftBehind'
  BY DEF ProcessStarts, NoProcessLeftBehind, ProcessInv, PhaseInv, SessionsInv, TurnInv,
         IdentitiesMatch
<1>6. OriginalRecovered'
  BY DEF ProcessStarts, OriginalRecovered, TurnInv, SessionsInv, PhaseInv, ProcessInv
<1>. QED
  BY <1>1, <1>2, <1>3, <1>4, <1>5, <1>6

LEMMA ProcessFailsKeeps ==
  ASSUME TypeInv, ForkInv, NEW r \in Runtimes, ProcessFails(r)
  PROVE  ForkInv'
<1> USE Names DEF TypeInv, TypeOK, RuntimeKnown, ForkInv, registry, runtimeVars, operationVars, forkVars, Unsettled, Busy, Ended
<1>1. TurnInv'
  BY DEF ProcessFails, RejectRequests, TurnInv, SessionsInv, ProcessInv
<1>2. SessionsInv'
  BY DEF ProcessFails, RejectRequests, SessionsInv, TurnInv, PhaseInv, IdentitiesMatch,
         MapsAgree, SelectionExists
<1>3. PhaseInv'
  BY DEF ProcessFails, RejectRequests, PhaseInv, TurnInv, SessionsInv, ProcessInv,
         IdentitiesMatch, NoProcessLeftBehind
<1>4. ProcessInv'
  BY DEF ProcessFails, RejectRequests, ProcessInv, TurnInv, PhaseInv, SessionsInv,
         IdentitiesMatch, NoProcessLeftBehind
<1>5. NoProcessLeftBehind'
  BY DEF ProcessFails, RejectRequests, NoProcessLeftBehind, ProcessInv, PhaseInv,
         SessionsInv, TurnInv, IdentitiesMatch
<1>6. OriginalRecovered'
  BY DEF ProcessFails, RejectRequests, OriginalRecovered, TurnInv, SessionsInv, PhaseInv,
         ProcessInv
<1>. QED
  BY <1>1, <1>2, <1>3, <1>4, <1>5, <1>6

LEMMA OriginalStartsKeeps ==
  ASSUME TypeInv, ForkInv, OriginalStarts
  PROVE  ForkInv'
<1> USE Names DEF TypeInv, TypeOK, RuntimeKnown, ForkInv, registry, runtimeVars, operationVars, forkVars, Unsettled, Busy, Ended
<1>1. TurnInv'
  BY DEF OriginalStarts, Restartable, TurnInv, SessionsInv, ProcessInv
<1>2. SessionsInv'
  BY DEF OriginalStarts, Restartable, SessionsInv, TurnInv, PhaseInv, IdentitiesMatch,
         MapsAgree, SelectionExists
<1>3. PhaseInv'
  BY DEF OriginalStarts, Restartable, PhaseInv, TurnInv, SessionsInv, ProcessInv,
         IdentitiesMatch, NoProcessLeftBehind
<1>4. ProcessInv'
  BY DEF OriginalStarts, Restartable, ProcessInv, TurnInv, PhaseInv, SessionsInv,
         IdentitiesMatch, NoProcessLeftBehind
<1>5. NoProcessLeftBehind'
  BY DEF OriginalStarts, Restartable, NoProcessLeftBehind, ProcessInv, PhaseInv,
         SessionsInv, TurnInv, IdentitiesMatch
<1>6. OriginalRecovered'
  BY DEF OriginalStarts, Restartable, OriginalRecovered, TurnInv, SessionsInv, PhaseInv,
         ProcessInv
<1>. QED
  BY <1>1, <1>2, <1>3, <1>4, <1>5, <1>6

LEMMA CloseKeeps ==
  ASSUME TypeInv, ForkInv, Close
  PROVE  ForkInv'
<1> USE Names DEF TypeInv, TypeOK, RuntimeKnown, ForkInv, registry, runtimeVars, operationVars, forkVars, Unsettled, Busy, Ended
<1>1. TurnInv'
  BY DEF Close, StopRuntime, RejectRequests, TurnInv, SessionsInv, ProcessInv
<1>2. SessionsInv'
  BY DEF Close, StopRuntime, RejectRequests, SessionsInv, TurnInv, PhaseInv,
         IdentitiesMatch, MapsAgree, SelectionExists
<1>3. PhaseInv'
  BY DEF Close, StopRuntime, RejectRequests, PhaseInv, TurnInv, SessionsInv, ProcessInv,
         IdentitiesMatch, NoProcessLeftBehind
<1>4. ProcessInv'
  <2> DEFINE r == runtimes[Source]
  <2>1. r \in Runtimes /\ process[r] \in Processes \ {"absent"} /\ ownId[r] = Source
    BY DEF Close, ProcessInv, SessionsInv, IdentitiesMatch
  <2>2. \A p \in Runtimes : process'[p] = process[p] \/ process'[p] = "stopping"
    BY DEF Close, StopRuntime
  <2>3. process'[r] \in Ended
    BY <2>1 DEF Close, StopRuntime, Processes
  <2>4. closing' = r /\ disposed' = disposed \union {r} /\ UNCHANGED <<runtimes, pc, runtime, stopPromise>>
    BY DEF Close
  <2>5. \A i \in Ids : runtimes[i] = r => i = Source
    BY <2>1 DEF SessionsInv, IdentitiesMatch
  <2>6. closing = "no" /\ \A g \in Forks : pc[g] \notin Unsettled
    BY DEF Close, TurnInv
  <2>. QED
    BY <2>1, <2>2, <2>3, <2>4, <2>5, <2>6 DEF ProcessInv
<1>5. NoProcessLeftBehind'
  BY DEF Close, StopRuntime, RejectRequests, NoProcessLeftBehind, ProcessInv, PhaseInv,
         SessionsInv, TurnInv, IdentitiesMatch
<1>6. OriginalRecovered'
  BY DEF Close, StopRuntime, RejectRequests, OriginalRecovered, TurnInv, SessionsInv,
         PhaseInv, ProcessInv
<1>. QED
  BY <1>1, <1>2, <1>3, <1>4, <1>5, <1>6

LEMMA CloseRemovesKeeps ==
  ASSUME TypeInv, ForkInv, CloseRemoves
  PROVE  ForkInv'
<1> USE Names DEF TypeInv, TypeOK, RuntimeKnown, ForkInv, registry, runtimeVars, operationVars, forkVars, Unsettled, Busy, Ended
<1>1. TurnInv'
  BY DEF CloseRemoves, Selectable, Existing, Remains, TurnInv, SessionsInv, ProcessInv
<1>2. SessionsInv'
  BY DEF CloseRemoves, Selectable, Existing, Remains, SessionsInv, TurnInv, PhaseInv,
         IdentitiesMatch, MapsAgree, SelectionExists
<1>3. PhaseInv'
  BY DEF CloseRemoves, Selectable, Existing, Remains, PhaseInv, TurnInv, SessionsInv,
         ProcessInv, IdentitiesMatch, NoProcessLeftBehind
<1>4. ProcessInv'
  BY DEF CloseRemoves, Selectable, Existing, Remains, ProcessInv, TurnInv, PhaseInv,
         SessionsInv, IdentitiesMatch, NoProcessLeftBehind
<1>5. NoProcessLeftBehind'
  BY DEF CloseRemoves, Selectable, Existing, Remains, NoProcessLeftBehind, ProcessInv,
         PhaseInv, SessionsInv, TurnInv, IdentitiesMatch
<1>6. OriginalRecovered'
  BY DEF CloseRemoves, Selectable, Existing, Remains, OriginalRecovered, TurnInv,
         SessionsInv, PhaseInv, ProcessInv
<1>. QED
  BY <1>1, <1>2, <1>3, <1>4, <1>5, <1>6

LEMMA CreateBeginsKeeps ==
  ASSUME TypeInv, ForkInv, CreateBegins
  PROVE  ForkInv'
<1> USE Names DEF TypeInv, TypeOK, RuntimeKnown, ForkInv, registry, runtimeVars, operationVars, forkVars, Unsettled, Busy, Ended
<1>1. TurnInv'
  BY DEF CreateBegins, TurnInv, SessionsInv, ProcessInv
<1>2. SessionsInv'
  BY DEF CreateBegins, SessionsInv, TurnInv, PhaseInv, IdentitiesMatch, MapsAgree,
         SelectionExists
<1>3. PhaseInv'
  BY DEF CreateBegins, PhaseInv, TurnInv, SessionsInv, ProcessInv, IdentitiesMatch,
         NoProcessLeftBehind
<1>4. ProcessInv'
  BY DEF CreateBegins, ProcessInv, TurnInv, PhaseInv, SessionsInv, IdentitiesMatch,
         NoProcessLeftBehind
<1>5. NoProcessLeftBehind'
  BY DEF CreateBegins, NoProcessLeftBehind
<1>6. OriginalRecovered'
  BY DEF CreateBegins, OriginalRecovered, TurnInv, SessionsInv, PhaseInv, ProcessInv
<1>. QED
  BY <1>1, <1>2, <1>3, <1>4, <1>5, <1>6

LEMMA CreateEndsKeeps ==
  ASSUME TypeInv, ForkInv, CreateEnds
  PROVE  ForkInv'
<1> USE Names DEF TypeInv, TypeOK, RuntimeKnown, ForkInv, registry, runtimeVars, operationVars, forkVars, Unsettled, Busy, Ended
<1>1. TurnInv'
  BY DEF CreateEnds, TurnInv, SessionsInv, ProcessInv
<1>2. SessionsInv'
  BY DEF CreateEnds, SessionsInv, TurnInv, PhaseInv, IdentitiesMatch, MapsAgree,
         SelectionExists
<1>3. PhaseInv'
  BY DEF CreateEnds, PhaseInv, TurnInv, SessionsInv, ProcessInv, IdentitiesMatch,
         NoProcessLeftBehind
<1>4. ProcessInv'
  BY DEF CreateEnds, ProcessInv, TurnInv, PhaseInv, SessionsInv, IdentitiesMatch,
         NoProcessLeftBehind
<1>5. NoProcessLeftBehind'
  BY DEF CreateEnds, NoProcessLeftBehind
<1>6. OriginalRecovered'
  BY DEF CreateEnds, OriginalRecovered, TurnInv, SessionsInv, PhaseInv, ProcessInv
<1>. QED
  BY <1>1, <1>2, <1>3, <1>4, <1>5, <1>6

LEMMA ForkInvariant == ASSUME ~Overlap PROVE Spec => []ForkInv
<1>1. ASSUME Init PROVE ForkInv
  <2> USE <1>1, Names DEF Init
  <2>1. TurnInv
    BY DEF TurnInv, Busy, Unsettled
  <2>2. IdentitiesMatch /\ MapsAgree /\ SelectionExists
    BY DEF IdentitiesMatch, MapsAgree, SelectionExists, Ids, Runtimes
  <2>3. SessionsInv
    BY <2>2 DEF SessionsInv, First, Source, None
  <2>4. PhaseInv
    BY DEF PhaseInv, Unsettled, Busy
  <2>5. ProcessInv
    BY DEF ProcessInv, Unsettled, Ended, Runtimes
  <2>6. NoProcessLeftBehind /\ OriginalRecovered
    BY DEF NoProcessLeftBehind, OriginalRecovered
  <2>. QED
    BY <2>1, <2>3, <2>4, <2>5, <2>6 DEF ForkInv
<1>2. TypeInv /\ ForkInv /\ [Next]_vars => ForkInv'
  <2> SUFFICES ASSUME TypeInv, ForkInv, [Next]_vars PROVE ForkInv'
    OBVIOUS
  <2>1. CASE Next
    BY <2>1, ForkKeeps, ForkRefusedKeeps, ForkBeginsKeeps, PiAnswersKeeps, RequestFailsKeeps,
       ForkCommitsKeeps, ForkDeclinedKeeps, ReconcilesKeeps, ForkSucceedsKeeps,
       ForkFailsKeeps, RestoreStopsKeeps, RestoreRecoversKeeps, RestoreEndsKeeps,
       CancelForkKeeps, ProcessEndsKeeps, ProcessStartsKeeps, ProcessFailsKeeps,
       OriginalStartsKeeps, CloseKeeps, CloseRemovesKeeps, CreateBeginsKeeps,
       CreateEndsKeeps DEF Next
  <2>2. CASE UNCHANGED vars
    BY <2>2 DEF vars, registry, runtimeVars, operationVars, forkVars, ForkInv, TurnInv, SessionsInv,
       PhaseInv, ProcessInv, NoProcessLeftBehind, OriginalRecovered, IdentitiesMatch, MapsAgree,
       SelectionExists
  <2>. QED
    BY <2>1, <2>2
<1>. QED
  BY <1>1, <1>2, TypeInvariant, PTL DEF Spec

-----------------------------------------------------------------------------
(* What follows                                                            *)

\* Every variable of the registry keeps its type at every await of a fork, its recovery,
\* a close and a creation; that a fork under way has a runtime is part of the induction,
\* because the recovery disposes it.
THEOREM TypeCorrect == Spec => []TypeOK
<1>1. TypeInv => TypeOK
  BY DEF TypeInv
<1>. QED
  BY <1>1, TypeInvariant, PTL

\* At every await, an id leads to the runtime that carries it, the maps agree on which
\* sessions exist and the selection is one of them, for any number of forks of a session
\* that follow each other (replaceRuntimeWithFork, restoreOriginalAfterFork).
THEOREM Consistent == ASSUME ~Overlap PROVE Spec => []CollectionConsistent
<1>1. ForkInv => CollectionConsistent
  BY DEF ForkInv, SessionsInv, CollectionConsistent
<1>. QED
  BY <1>1, ForkInvariant, PTL

\* However each fork ends, the sessions that are left are the ones its outcome says, the
\* original is back after a recovery, and no process is left without a session
\* (forkMessage, restoreOriginalAfterFork, cancelFork).
THEOREM OutcomesTrue == ASSUME ~Overlap PROVE Spec => []ForkOutcomeTrue
<1>1. TypeInv /\ ForkInv => ForkExistsIffCommitted
  BY Names DEF ForkInv, TurnInv, SessionsInv, PhaseInv, ProcessInv, ForkExistsIffCommitted, TypeInv, TypeOK
<1>2. TypeInv /\ ForkInv => ForkOutcomeTrue
  BY <1>1 DEF ForkInv, ForkOutcomeTrue
<1>. QED
  BY <1>2, ForkInvariant, TypeInvariant, PTL

\* A fork and the creation of a session exclude each other, even if several pages ask for
\* forks at once: both look at the other's guard in the step that sets their own
\* (forkMessage, withSessionCreation).
THEOREM ForkOrCreation == Spec => []ForkExcludesCreation
<1>1. Init => ForkExcludesCreation
  BY DEF Init, ForkExcludesCreation
<1>2. ForkExcludesCreation /\ [Next]_vars => ForkExcludesCreation'
  <2> SUFFICES ASSUME ForkExcludesCreation, [Next]_vars PROVE ForkExcludesCreation'
    OBVIOUS
  <2>1. ASSUME NEW f \in Forks, ForkBegins(f) PROVE ~creating'
    BY <2>1 DEF ForkBegins, MayBegin
  <2>2. CASE CreateBegins
    BY <2>2 DEF CreateBegins, ForkExcludesCreation
  <2>3. \/ operation' \in {operation, None} /\ (creating' => creating)
        \/ CreateBegins \/ \E f \in Forks : ForkBegins(f)
    <3>1. ASSUME NEW f \in Forks, \/ ForkDeclined(f) \/ ForkSucceeds(f) \/ RestoreEnds(f)
          PROVE operation' \in {operation, None} /\ creating' = creating
      BY <3>1 DEF ForkDeclined, ForkSucceeds, RestoreEnds, FinishOperation
    <3>2. ASSUME NEW f \in Forks, \/ Fork(f) \/ ForkRefused(f) \/ PiAnswers(f) \/ RequestFails(f)
                                 \/ ForkCommits(f) \/ Reconciles(f) \/ ForkFails(f) \/ RestoreStops(f)
                                 \/ RestoreRecovers(f) \/ CancelFork(f)
          PROVE operation' = operation /\ creating' = creating
      BY <3>2 DEF Fork, ForkRefused, PiAnswers, RequestFails, ForkCommits, Reconciles, ForkFails,
         RestoreStops, RestoreRecovers, CancelFork
    <3>3. ASSUME NEW r \in Runtimes, ProcessEnds(r) \/ ProcessStarts(r) \/ ProcessFails(r)
          PROVE operation' = operation /\ creating' = creating
      BY <3>3 DEF ProcessEnds, ProcessStarts, ProcessFails
    <3>4. CASE OriginalStarts \/ Close \/ CloseRemoves \/ CreateEnds \/ UNCHANGED vars
      BY <3>4 DEF OriginalStarts, Close, CloseRemoves, CreateEnds, vars
    <3>. QED
      BY <3>1, <3>2, <3>3, <3>4 DEF Next
  <2>. QED
    BY <2>1, <2>2, <2>3 DEF ForkExcludesCreation
<1>. QED
  BY <1>1, <1>2, PTL DEF Spec
=============================================================================
