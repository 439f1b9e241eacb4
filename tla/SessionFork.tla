---------------------------- MODULE SessionFork -----------------------------
(***************************************************************************)
(* Forking a message of a session: SessionRegistry.forkMessage with the    *)
(* parts of SessionRuntime it awaits (executeFork, reconcileFork, stop,    *)
(* start), next to cancelFork, closeSession and the creation of sessions.  *)
(*                                                                         *)
(* A fork asks Pi to branch its conversation; the moment Pi answers, the   *)
(* runtime object that is connected to Pi moves to the id of the new       *)
(* session and the original id gets a fresh, stopped runtime. Any failure  *)
(* or cancellation has to bring the original session back.                 *)
(*                                                                         *)
(* Left out: images and text of the seed, ephemeral sessions (which cannot *)
(* fork), titles, toasts, the persistence of the index, the start and      *)
(* history jobs (idle when a session is ready and loaded), and the modal   *)
(* question that may precede a close.                                      *)
(***************************************************************************)
EXTENDS Integers, FiniteSets

CONSTANTS
  Forks,       \* calls of forkMessage for the session; each names the id of its
               \*   new session and the runtime that takes over the original id
  Kept,        \* those of them asked for in a Session Tab: the sidebar keeps its selection
  Overlap,     \* BOOLEAN: may a second page ask while a fork looks at the session file?
               \*   One page waits for the result of its fork (forkMessageClient.ts:16).
  Closes,      \* BOOLEAN: is closeSession called for the session
  Creates      \* BOOLEAN: is another session created meanwhile

Source == "source"     \* the id of the session that is forked
First == "first"       \* its runtime
None == "none"
ASSUME ForksAssumption == Forks \cap {Source, First, None, "no", "closed"} = {} /\ Kept \subseteq Forks
ASSUME SwitchesAssumption == Overlap \in BOOLEAN /\ Closes \in BOOLEAN /\ Creates \in BOOLEAN

Ids == {Source} \union Forks
Runtimes == {First} \union Forks

VARIABLES
  runtimes,    \* #runtimes: id -> runtime or None
  records,     \* the ids in #records
  temporary,   \* #temporarySessionIds
  active,      \* #activeSessionId
  operation,   \* #forkOperation
  creating,    \* #sessionCreationInProgress
  ownId,       \* SessionRuntime.id of each runtime
  process,     \* SessionRuntime status of each runtime
  disposed,    \* the runtimes that were disposed
  pc,          \* where each forkMessage awaits
  runtime,     \* ForkOperation.runtime
  phase,       \* ForkOperation.phase
  cancelled,   \* ForkOperation.cancelRequested
  stopPromise, \* ForkOperation.stopPromise is set
  request,     \* the answer to the request a fork awaits
  outcome,     \* how forkMessage came to an end
  closing      \* "no", the runtime whose disposal closeSession awaits, or "closed"

registry == <<runtimes, records, temporary, active>>
runtimeVars == <<ownId, process, disposed>>
operationVars == <<runtime, phase, cancelled, stopPromise>>
forkVars == <<pc, operationVars, request, outcome>>
vars == <<registry, operation, creating, runtimeVars, forkVars, closing>>

\* "absent" is an object that was never created; "failed" a process that did not start
\* or died.
Processes == {"absent", "stopped", "starting", "ready", "stopping", "failed"}
Pcs == {"idle", "access", "execute", "name", "state", "entries", "rest",
        "restore", "recover", "start", "done"}

TypeOK ==
  /\ runtimes \in [Ids -> Runtimes \union {None}]
  /\ records \subseteq Ids /\ temporary \subseteq Ids
  /\ active \in Ids \union {None}
  /\ operation \in Forks \union {None}
  /\ creating \in BOOLEAN
  /\ ownId \in [Runtimes -> Ids]
  /\ process \in [Runtimes -> Processes]
  /\ disposed \subseteq Runtimes
  /\ pc \in [Forks -> Pcs]
  /\ runtime \in [Forks -> Runtimes \union {None}]
  /\ phase \in [Forks -> {"waiting-for-pi", "reconciling"}]
  /\ cancelled \in [Forks -> BOOLEAN] /\ stopPromise \in [Forks -> BOOLEAN]
  /\ request \in [Forks -> {"waiting", "answered", "declined", "rejected"}]
  /\ outcome \in [Forks -> {"none", "forked", "cancelled", "threw"}]
  /\ closing \in {"no", "closed"} \union Runtimes

Goto(f, next) == pc' = [pc EXCEPT ![f] = next]
Send(f, next) == Goto(f, next) /\ request' = [request EXCEPT ![f] = "waiting"]
End(f, how) == Goto(f, "done") /\ outcome' = [outcome EXCEPT ![f] = how]

\* ensureValidActiveSelection: a selection that exists stays, any other gives way to a
\* session that is left.
Existing(collection) == {i \in Ids : collection[i] # None}
Selectable(collection) ==
  IF active \in Existing(collection) THEN {active}
  ELSE IF Existing(collection) = {} THEN {None} ELSE Existing(collection)

-----------------------------------------------------------------------------
(* The processes: SessionRuntime.stop, start and onFailure from above      *)

Awaits(f) == pc[f] \in {"execute", "name", "state", "entries", "rest"}

\* Everything that is pending on the connection of r is rejected.
RejectRequests(r) ==
  request' = [f \in Forks |->
    IF Awaits(f) /\ runtime[f] = r /\ request[f] = "waiting" THEN "rejected" ELSE request[f]]

\* stop() of runtime r: its process, if any, is asked to end.
StopRuntime(r) ==
  /\ process' = IF process[r] \in {"starting", "ready"}
                THEN [process EXCEPT ![r] = "stopping"] ELSE process
  /\ RejectRequests(r)

ProcessEnds(r) ==
  /\ process[r] = "stopping"
  /\ process' = [process EXCEPT ![r] = "stopped"]
  /\ UNCHANGED <<registry, operation, creating, ownId, disposed, forkVars, closing>>

\* The job of startRuntime(original) comes to its end.
ProcessStarts(r) ==
  /\ process[r] = "starting"
  /\ \E s \in {"ready", "failed"} : process' = [process EXCEPT ![r] = s]
  /\ UNCHANGED <<registry, operation, creating, ownId, disposed, forkVars, closing>>

\* Pi dies, or writes something that is not its protocol.
ProcessFails(r) ==
  /\ process[r] = "ready"
  /\ process' = [process EXCEPT ![r] = "failed"]
  /\ RejectRequests(r)
  /\ UNCHANGED <<registry, operation, creating, ownId, disposed, pc, operationVars, outcome,
                 closing>>

-----------------------------------------------------------------------------
(* forkMessage: the way forward                                            *)

\* The guards; then the session file is looked at.
Fork(f) ==
  /\ pc[f] = "idle" /\ (Overlap \/ \A g \in Forks : pc[g] # "access")
  /\ operation = None /\ ~creating
  /\ f \in Kept \/ active = Source
  /\ runtimes[Source] # None /\ Source \in records
  /\ runtime' = [runtime EXCEPT ![f] = runtimes[Source]]
  /\ Goto(f, "access")
  /\ UNCHANGED <<registry, operation, creating, runtimeVars, phase, cancelled, stopPromise,
                 request, outcome, closing>>

\* The file is missing, or a session is being created by now: forkMessage throws.
ForkRefused(f) ==
  /\ pc[f] = "access"
  /\ End(f, "threw")
  /\ UNCHANGED <<registry, operation, creating, runtimeVars, operationVars, request, closing>>

MayBegin_Unchecked == TRUE        \* mistake: the creations are not looked at again
MayBegin == ~creating

\* The operation begins: executeFork sends the request unless the runtime is not ready,
\* in which case it throws and the original is restored.
ForkBegins(f) ==
  /\ pc[f] = "access" /\ MayBegin
  /\ operation' = f
  /\ IF process[runtime[f]] = "ready" THEN Send(f, "execute")
     ELSE Goto(f, "restore") /\ UNCHANGED request
  /\ UNCHANGED <<registry, creating, runtimeVars, operationVars, outcome, closing>>

\* Pi answers (a fork may be declined by a hook of an extension).
PiAnswers(f) ==
  /\ Awaits(f) /\ request[f] = "waiting" /\ process[runtime[f]] = "ready"
  /\ \E a \in {"answered", "rejected"} \union (IF pc[f] = "execute" THEN {"declined"} ELSE {}) :
       request' = [request EXCEPT ![f] = a]
  /\ UNCHANGED <<registry, operation, creating, runtimeVars, pc, operationVars, outcome, closing>>

\* A request without a process throws at once; one sent while the process ends has
\* missed the rejection by stop(), and its deadline ends it.
RequestFails(f) ==
  /\ Awaits(f) /\ request[f] = "waiting" /\ process[runtime[f]] # "ready"
  /\ request' = [request EXCEPT ![f] = "rejected"]
  /\ UNCHANGED <<registry, operation, creating, runtimeVars, pc, operationVars, outcome, closing>>

\* Mistakes: the runtime keeps the id of the original; it is given no id of a session.
RebindIds_Keeps(f) == UNCHANGED ownId
RebindIds_Swapped(f) == ownId' = [ownId EXCEPT ![runtime[f]] = runtime[f], ![f] = Source]
RebindIds(f) == ownId' = [ownId EXCEPT ![runtime[f]] = f, ![f] = Source]

\* replaceRuntimeWithFork: the runtime that is connected to Pi follows the fork under
\* the new id; the original id gets a new runtime without a process.
Rekey(f) ==
  /\ runtimes' = [runtimes EXCEPT ![f] = runtime[f], ![Source] = f]
  /\ RebindIds(f)
  /\ process' = [process EXCEPT ![f] = "stopped"]
  /\ records' = records \union {f}
  /\ temporary' = temporary \union {f}
  /\ active' \in IF f \in Kept THEN Selectable(runtimes') ELSE {f}

\* Pi has forked, and the first of the reconciling requests goes out.
ForkCommits(f) ==
  /\ pc[f] = "execute" /\ request[f] = "answered" /\ ~cancelled[f]
  /\ phase' = [phase EXCEPT ![f] = "reconciling"]
  /\ Rekey(f)
  /\ Send(f, "name")
  /\ UNCHANGED <<operation, creating, disposed, runtime, cancelled, stopPromise, outcome, closing>>

FinishOperation_Keeps(f) == UNCHANGED operation     \* mistake: the operation stays

\* finishForkOperation
FinishOperation(f) == operation' = IF operation = f THEN None ELSE operation

\* An extension declined the fork: nothing has changed.
ForkDeclined(f) ==
  /\ pc[f] = "execute" /\ request[f] = "declined" /\ ~cancelled[f]
  /\ FinishOperation(f)
  /\ End(f, "cancelled")
  /\ UNCHANGED <<registry, creating, runtimeVars, operationVars, request, closing>>

\* reconcileFork, one awaited request after the other: the name, the state, the
\* entries together with the statistics and commands.
Reconciles(f) ==
  /\ request[f] = "answered"
  /\ \/ pc[f] = "name" /\ Send(f, "state")
     \/ pc[f] = "state" /\ Send(f, "entries")
     \/ pc[f] = "entries" /\ Send(f, "rest")
  /\ UNCHANGED <<registry, operation, creating, runtimeVars, operationVars, outcome, closing>>

\* Statistics and commands are optional, answered or not: reconcileFork returns and
\* the fork is entered in the index.
ForkSucceeds(f) ==
  /\ pc[f] = "rest" /\ request[f] # "waiting"
  /\ records' = records \union {f}
  /\ FinishOperation(f)
  /\ End(f, "forked")
  /\ UNCHANGED <<runtimes, temporary, active, creating, runtimeVars, operationVars, request,
                 closing>>

-----------------------------------------------------------------------------
(* forkMessage: the way back (restoreOriginalAfterFork)                    *)

\* executeFork or reconcileFork threw, or Pi's answer came after a cancellation.
ForkFails(f) ==
  /\ \/ pc[f] \in {"execute", "name", "state", "entries"} /\ request[f] = "rejected"
     \/ pc[f] = "execute" /\ request[f] \in {"answered", "declined"} /\ cancelled[f]
  /\ Goto(f, "restore")
  /\ UNCHANGED <<registry, operation, creating, runtimeVars, operationVars, request, outcome,
                 closing>>

\* The runtime is stopped, unless cancelFork already does that.
RestoreStops(f) ==
  /\ pc[f] = "restore"
  /\ stopPromise' = [stopPromise EXCEPT ![f] = TRUE]
  /\ Goto(f, "recover")
  /\ IF stopPromise[f] THEN UNCHANGED <<process, request>> ELSE StopRuntime(runtime[f])
  /\ UNCHANGED <<registry, operation, creating, ownId, disposed, runtime, phase, cancelled,
                 outcome, closing>>

Undo_Never(f) == FALSE            \* mistake: an unfinished fork stays
Undo(f) == phase[f] = "reconciling"

\* Mistake: the removal does not wait for the process to end.
Stopped_Assumed(f) == TRUE
Stopped(f) == process[runtime[f]] # "stopping"

Restartable_Never(r) == FALSE     \* mistake: the original is selected but not started
Restartable(r) == process[r] \in {"stopped", "failed"} /\ r \notin disposed

\* Once it has ended, the unfinished fork is removed, the original is selected (unless the
\* fork kept the selection) and started again. Without an original requireRuntime throws out of forkMessage.
RestoreRecovers(f) ==
  /\ pc[f] = "recover" /\ Stopped(f)
  /\ IF Undo(f)
     THEN /\ disposed' = disposed \union {runtime[f]}
          /\ records' = records \ {f} /\ temporary' = temporary \ {f}
          /\ runtimes' = [runtimes EXCEPT ![f] = None]
     ELSE UNCHANGED <<disposed, records, temporary, runtimes>>
  /\ active' \in IF f \in Kept THEN Selectable(runtimes') ELSE {Source}
  /\ LET r == runtimes[Source] IN
       IF r = None
       THEN End(f, "threw") /\ UNCHANGED process
       ELSE /\ Goto(f, "start") /\ UNCHANGED outcome
            /\ process' = IF Restartable(r) THEN [process EXCEPT ![r] = "starting"] ELSE process
  /\ UNCHANGED <<operation, creating, ownId, operationVars, request, closing>>

\* The start has settled, whatever it came to, and the operation is over.
RestoreEnds(f) ==
  /\ pc[f] = "start"
  /\ runtimes[Source] # None => process[runtimes[Source]] # "starting"
  /\ FinishOperation(f)
  /\ End(f, IF cancelled[f] THEN "cancelled" ELSE "threw")
  /\ UNCHANGED <<registry, creating, runtimeVars, operationVars, request, closing>>

-----------------------------------------------------------------------------
(* What happens next to a fork                                             *)

\* cancelFork: the request of the operation is cancelled by stopping its process.
CancelFork(f) ==
  /\ operation = f /\ ~cancelled[f]
  /\ cancelled' = [cancelled EXCEPT ![f] = TRUE]
  /\ stopPromise' = [stopPromise EXCEPT ![f] = TRUE]
  /\ IF stopPromise[f] THEN UNCHANGED <<process, request>> ELSE StopRuntime(runtime[f])
  /\ UNCHANGED <<registry, operation, creating, ownId, disposed, pc, runtime, phase, outcome,
                 closing>>

\* ensureRunning before an operation, or the activation of the stopped original.
OriginalStarts ==
  /\ operation = None /\ runtimes[Source] # None
  /\ Restartable(runtimes[Source])
  /\ process' = [process EXCEPT ![runtimes[Source]] = "starting"]
  /\ UNCHANGED <<registry, operation, creating, ownId, disposed, forkVars, closing>>

\* closeSession of the original: guarded, then its runtime is disposed and awaited.
Close ==
  /\ Closes /\ closing = "no"
  /\ operation = None /\ runtimes[Source] # None
  /\ closing' = runtimes[Source]
  /\ disposed' = disposed \union {runtimes[Source]}
  /\ StopRuntime(runtimes[Source])
  /\ UNCHANGED <<registry, operation, creating, ownId, pc, operationVars, outcome>>

\* Mistake: the record of a closed session stays in the index.
Remains_Record == records
Remains == records \ {Source}

\* The runtime has stopped: the session goes, and another one is selected.
CloseRemoves ==
  /\ closing \in Runtimes /\ process[closing] # "stopping"
  /\ closing' = "closed"
  /\ runtimes' = [runtimes EXCEPT ![Source] = None]
  /\ records' = Remains /\ temporary' = temporary \ {Source}
  /\ IF active = Source
     THEN active' \in Selectable(runtimes')
     ELSE UNCHANGED active
  /\ UNCHANGED <<operation, creating, runtimeVars, forkVars>>

\* The creation of another session begins (withSessionCreation) and ends.
CreateBegins ==
  /\ Creates /\ operation = None /\ ~creating
  /\ creating' = TRUE
  /\ UNCHANGED <<registry, operation, runtimeVars, forkVars, closing>>

CreateEnds ==
  /\ creating
  /\ creating' = FALSE
  /\ UNCHANGED <<registry, operation, runtimeVars, forkVars, closing>>

-----------------------------------------------------------------------------
Init ==
  /\ runtimes = [i \in Ids |-> IF i = Source THEN First ELSE None]
  /\ records = {Source} /\ temporary = {} /\ active = Source
  /\ operation = None /\ creating = FALSE
  /\ ownId = [r \in Runtimes |-> Source]
  /\ process = [r \in Runtimes |-> IF r = First THEN "ready" ELSE "absent"]
  /\ disposed = {}
  /\ pc = [f \in Forks |-> "idle"]
  /\ runtime = [f \in Forks |-> None]
  /\ phase = [f \in Forks |-> "waiting-for-pi"]
  /\ cancelled = [f \in Forks |-> FALSE] /\ stopPromise = [f \in Forks |-> FALSE]
  /\ request = [f \in Forks |-> "waiting"]
  /\ outcome = [f \in Forks |-> "none"]
  /\ closing = "no"

ForkSteps(f) ==
  \/ ForkRefused(f) \/ ForkBegins(f) \/ PiAnswers(f) \/ RequestFails(f) \/ ForkCommits(f)
  \/ ForkDeclined(f) \/ Reconciles(f) \/ ForkSucceeds(f) \/ ForkFails(f)
  \/ RestoreStops(f) \/ RestoreRecovers(f) \/ RestoreEnds(f)

Next ==
  \/ \E f \in Forks :
       \/ Fork(f) \/ ForkRefused(f) \/ ForkBegins(f) \/ PiAnswers(f) \/ RequestFails(f)
       \/ ForkCommits(f) \/ ForkDeclined(f) \/ Reconciles(f) \/ ForkSucceeds(f) \/ ForkFails(f)
       \/ RestoreStops(f) \/ RestoreRecovers(f) \/ RestoreEnds(f) \/ CancelFork(f)
  \/ \E r \in Runtimes : ProcessEnds(r) \/ ProcessStarts(r) \/ ProcessFails(r)
  \/ OriginalStarts \/ Close \/ CloseRemoves \/ CreateBegins \/ CreateEnds

(* Fairness: continuations run and processes end or start in bounded time   *)
(* (SIGKILL, startup deadline). A fork request has no deadline, but Pi's     *)
(* answers here include a rejection; users act when they like.               *)
Fairness ==
  /\ \A f \in Forks : WF_vars(ForkSteps(f))
  /\ \A r \in Runtimes : WF_vars(ProcessEnds(r)) /\ WF_vars(ProcessStarts(r))
  /\ WF_vars(CloseRemoves) /\ WF_vars(CreateEnds)

Spec == Init /\ [][Next]_vars /\ Fairness

-----------------------------------------------------------------------------
(* Properties                                                              *)

\* "Rekeying Registry maps and Runtime identity must not publish a mismatched
\* intermediate view" (session-lifecycle.SPEC.md): an id leads to the runtime that
\* carries it (replaceRuntimeWithFork, rebindSessionId).
IdentitiesMatch == \A i \in Ids : runtimes[i] # None => ownId[runtimes[i]] = i

\* The maps of the registry agree on which sessions exist, at every await of a fork,
\* a recovery and a close.
MapsAgree == \A i \in Ids : runtimes[i] # None <=> i \in records

\* The selection leads to a session, also when the fork in front is taken back; only the
\* recovery of a session that was closed meanwhile selects what is gone (ForkEnds).
SelectionExists == active = None \/ runtimes[active] # None \/ closing = "closed"

\* What the registry publishes holds together at every await.
CollectionConsistent == IdentitiesMatch /\ MapsAgree /\ SelectionExists

\* A fork exists in the collection if it was committed and is not taken back: never
\* before Pi's answer, and no longer once forkMessage has recovered the original.
ForkExistsIffCommitted == \A f \in Forks :
  /\ pc[f] \in {"idle", "access", "execute"} => runtimes[f] = None
  /\ outcome[f] = "forked" => runtimes[f] = runtime[f] /\ f \in temporary
                              /\ runtime[f] \notin disposed
  /\ outcome[f] \in {"cancelled", "threw"} => runtimes[f] = None /\ f \notin temporary

\* A runtime that left the collection has no process any more: nothing could stop it.
NoProcessLeftBehind == \A r \in Runtimes :
  (\A i \in Ids : runtimes[i] # r) => process[r] \in {"absent", "stopped", "failed"}

\* A fork never runs while a session is being created, nor the reverse, although the
\* fork awaits the session file between the first guard and the operation.
ForkExcludesCreation == ~(operation # None /\ creating)

\* After a recovery the original session is there, and it runs again, is started once
\* more or has reported why not, until it is forked again.
OriginalRecovered == \A f \in Forks :
  phase[f] = "reconciling" /\ outcome[f] \in {"cancelled", "threw"} /\ closing = "no"
    => /\ runtimes[Source] # None
       /\ \/ process[runtimes[Source]] \in {"starting", "ready", "failed"}
          \/ \E g \in Forks \ {f} : pc[g] \notin {"idle", "access"}

\* However a fork ends, the sessions that are left are the ones its outcome says, each
\* with its process.
ForkOutcomeTrue == ForkExistsIffCommitted /\ NoProcessLeftBehind /\ OriginalRecovered

\* The registry leaves the fork operation again, unless the session was closed: Pi's
\* refusal, its death and every cancellation lead out of it.
OperationEnds == operation # None ~> operation = None \/ closing # "no"

\* Every fork operation comes to its end: "Wait for the current session Fork to finish
\* or cancel it first" (assertNoForkOperation) is a promise that it can be waited for.
ForkEnds == operation # None ~> operation = None

\* "Cancel Fork stops that child and restarts the original so a late response cannot
\* replace recovery" (session-lifecycle.SPEC.md).
CancelRecovers == \A f \in Forks : cancelled[f] => outcome[f] # "forked"
=============================================================================
