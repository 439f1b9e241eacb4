------------------------- MODULE SessionCollection -------------------------
(***************************************************************************)
(* The collection of sessions that SessionRegistry keeps in memory and the *)
(* index of it that SessionPersistence keeps in the host's storage: create,*)
(* resume, activate, clear, close, retain, the first prompt of a session   *)
(* (or its rename), the serial queues of starts and of saves, shutdown,    *)
(* crash and restoration.                                                  *)
(*                                                                         *)
(* Every call of an async method is a slot whose pc names its await. The   *)
(* saves are snapshots taken when they are asked for and written one after *)
(* the other. A runtime is seen from above: SessionRuntime.tla has its     *)
(* details. Storage is external: a write takes effect at once or fails.    *)
(*                                                                         *)
(* Left out: Fork (SessionFork.tla), restart, titles, worktrees (all       *)
(* sessions run in an open workspace folder), the files of new sessions.   *)
(***************************************************************************)
EXTENDS Integers, SequencesExt

CONSTANTS
  Slots,           \* calls that may be under way together
  Files,           \* Pi session files the catalog offers
  MaxSessions,     \* bound: application entries ever made
  MaxCalls,        \* bound: calls ever made
  MaxFailures,     \* bound: writes that fail
  MaxLives,        \* bound: lives of the host, one more than its restarts
  SavedOnly        \* restoreSelection = "saved-only" (Desktop)

Ids == 1..MaxSessions         \* randomUUID(): never used twice
None == 0
NoFile == "none"

ASSUME CollectionBounds == /\ MaxSessions \in Nat \ {0} /\ MaxCalls \in Nat
                           /\ MaxFailures \in Nat /\ MaxLives \in Nat \ {0}
                           /\ SavedOnly \in BOOLEAN /\ None \notin Slots

VARIABLES
  sessions,     \* the keys of #runtimes and #records in the order of the Maps
  temporary,    \* #temporarySessionIds: the provisional ones
  retained,     \* #retainedProvisionalSessionIds
  active,       \* #activeSessionId
  closed,       \* #disposed of the registry
  file,         \* records: the sessionFile a resumed session was opened with
  ephemeral,    \* records: the ephemeral ones
  status,       \* view.status of every runtime
  disposed,     \* #disposed of every runtime
  startQueue,   \* #startQueue and #startJobs: jobs not settled
  begun,        \* the first of them runs
  saveQueue,    \* #persistenceQueue: snapshots not written, with the call that waits
  stored,       \* the index in the host's storage
  calls,        \* the call of every slot
  used, made, failures, life,   \* counters of the bounds
  lastSave,     \* ghost: how the last save of this life ended
  halfway,      \* ghost: a call of this life threw after it discarded a session
  gone,         \* ghost: sessions whose closeSession() returned
  kept          \* ghost: sessions to be kept whose call returned

collection == <<sessions, temporary, retained, active>>
runtimes == <<status, disposed>>
starts == <<startQueue, begun>>
saves == <<saveQueue, stored, lastSave, failures>>
ids == <<file, ephemeral, used>>
ghosts == <<gone, kept>>
vars == <<collection, closed, ids, runtimes, starts, saves, calls, made, life,
          halfway, ghosts>>

Ops == {"none", "create", "open", "reopen", "activate", "clear", "close", "prompt"}
Pcs == {"idle", "picking", "discarding", "confirming", "disposing", "saving", "saved",
        "starting", "ensuring", "prompting", "polling"}
Idle == [op |-> "none", pc |-> "idle", id |-> None, victim |-> None]
Index == [active : Ids \union {None}, ids : Seq(Ids)]

TypeOK ==
  /\ sessions \in Seq(Ids) /\ temporary \subseteq Ids /\ retained \subseteq Ids
  /\ active \in Ids \union {None} /\ closed \in BOOLEAN
  /\ file \in [Ids -> Files \union {NoFile}] /\ ephemeral \subseteq Ids
  /\ status \in [Ids -> {"stopped", "queued", "starting", "ready", "failed", "stopping"}]
  /\ disposed \subseteq Ids
  /\ startQueue \in Seq(Ids) /\ begun \in BOOLEAN
  /\ saveQueue \in Seq([owner : Slots \union {None}, index : Index])
  /\ stored \in Index
  /\ calls \in [Slots -> [op : Ops, pc : Pcs, id : Ids \union {None},
                          victim : Ids \union {None}]]
  /\ used \in 0..MaxSessions /\ made \in 0..MaxCalls
  /\ failures \in 0..MaxFailures /\ life \in 1..MaxLives
  /\ lastSave \in {"none", "ok", "failed"} /\ halfway \in BOOLEAN
  /\ gone \subseteq Ids /\ kept \subseteq Ids

-----------------------------------------------------------------------------
(* What the operations share                                               *)

Known(id) == Contains(sessions, id)

\* The entries of ss that are in S, in their order.
Only(ss, S) ==
  LET upTo[n \in 0..Len(ss)] ==
        IF n = 0 THEN <<>>
        ELSE IF ss[n] \in S THEN Append(upTo[n - 1], ss[n]) ELSE upTo[n - 1]
  IN  upTo[Len(ss)]

Without(ss, id) == Only(ss, Ids \ {id})

\* What #persist writes: no ephemeral and no provisional entry; a selection without a
\* record is written as it is.
Snapshot(ss, provisional, selected) ==
  LET hidden == provisional \union (ephemeral \cap ToSet(ss))
  IN  [active |-> IF selected \in hidden THEN None ELSE selected,
       ids |-> Only(ss, Ids \ hidden)]

Save(owner, ss, provisional, selected) ==
  Append(saveQueue, [owner |-> owner, index |-> Snapshot(ss, provisional, selected)])

\* A settled run of a session on record is saved in the background.
SaveInBackground(id) ==
  saveQueue' = IF Known(id) /\ ~closed THEN Save(None, sessions, temporary, active)
                                      ELSE saveQueue

Return(s) == calls' = [calls EXCEPT ![s] = Idle]
Await(s, pc) == calls' = [calls EXCEPT ![s].pc = pc]

Stopped(id) == status[id] = "stopped"

\* What a call awaits is there: it goes on in the same turn of the event loop, before
\* any message, timer, process or file is heard of.
Due(c) == \/ c.pc = "discarding" /\ Stopped(c.victim)
          \/ c.pc = "disposing" /\ Stopped(c.id)
          \/ c.pc = "saved"
          \/ c.pc \in {"starting", "ensuring"} /\ ~Contains(startQueue, c.id)
Quiet == \A s \in Slots : ~Due(calls[s])

\* A call begins.
Free(s) == calls[s].pc = "idle" /\ made < MaxCalls /\ made' = made + 1 /\ ~closed /\ Quiet

\* runtime.dispose() up to its await.
Dispose(S) ==
  /\ disposed' = disposed \union S
  /\ status' = [id \in Ids |-> IF id \in S THEN "stopping" ELSE status[id]]

\* runtime.dispose() ends.
StopEnds(id) ==
  /\ status[id] = "stopping" /\ Quiet
  /\ status' = [status EXCEPT ![id] = "stopped"]
  /\ SaveInBackground(id)
  /\ UNCHANGED <<collection, closed, ids, disposed, starts, stored, lastSave, failures,
                 calls, made, life, halfway, ghosts>>

\* mistake: .at(-1) of an empty list without "?? null"
LastOrNone_Undefined(ss) == IF ss = <<>> THEN -1 ELSE Last(ss)

LastOrNone(ss) == IF ss = <<>> THEN None ELSE Last(ss)

-----------------------------------------------------------------------------
(* Starts                                                                  *)

\* startRuntime: a pending job is joined, otherwise one is queued; a runtime that is
\* disposed or has a child is not shown as waiting.
RequestStart(id) ==
  IF Contains(startQueue, id) THEN UNCHANGED <<startQueue, status>>
  ELSE /\ startQueue' = Append(startQueue, id)
       /\ status' = IF id \in disposed \/ status[id] \in {"starting", "ready"} THEN status
                    ELSE [status EXCEPT ![id] = "queued"]

\* The next job: it settles at once for a session that is gone or need not start.
JobBegins ==
  /\ startQueue # <<>> /\ ~begun /\ Quiet
  /\ LET id == Head(startQueue)
         starts_ == ~closed /\ Known(id) /\ id \notin disposed
                    /\ status[id] \notin {"starting", "ready"}
     IN  /\ begun' = starts_
         /\ startQueue' = IF starts_ THEN startQueue ELSE Tail(startQueue)
         /\ status' = IF starts_ THEN [status EXCEPT ![id] = "starting"] ELSE status
  /\ UNCHANGED <<collection, closed, ids, disposed, saves, calls, made, life, halfway, ghosts>>

\* mistake: a start that was overtaken publishes its process
JobEnds_Overtaken ==
  /\ begun /\ begun' = FALSE /\ Quiet
  /\ startQueue' = Tail(startQueue)
  /\ status' = [status EXCEPT ![Head(startQueue)] = "ready"]
  /\ SaveInBackground(Head(startQueue))
  /\ UNCHANGED <<collection, closed, ids, disposed, stored, lastSave, failures, calls, made,
                 life, halfway, ghosts>>

\* runtime.start() ends: a runtime disposed meanwhile has no new status.
JobEnds ==
  /\ begun /\ begun' = FALSE /\ Quiet
  /\ startQueue' = Tail(startQueue)
  /\ LET id == Head(startQueue)
     IN  IF id \in disposed THEN UNCHANGED <<status, saveQueue>>
         ELSE /\ \E result \in {"ready", "failed"} : status' = [status EXCEPT ![id] = result]
              /\ SaveInBackground(id)
  /\ UNCHANGED <<collection, closed, ids, disposed, stored, lastSave, failures, calls, made,
                 life, halfway, ghosts>>

\* The call goes on after its save: the runtime is started unless the session is one
\* that was selected and does not stand still.
Launch(s) ==
  LET id == calls[s].id
      wanted == calls[s].op \in {"create", "open"} \/ (Stopped(id) /\ id \notin ephemeral)
  IN  /\ calls[s].pc = "saved"
      /\ IF wanted /\ ~closed THEN RequestStart(id) /\ Await(s, "starting")
         ELSE Return(s) /\ UNCHANGED <<startQueue, status>>
      /\ UNCHANGED <<collection, closed, ids, disposed, begun, saves, made, life, halfway,
                     ghosts>>

Launched(s) ==
  /\ calls[s].pc = "starting" /\ ~Contains(startQueue, calls[s].id)
  /\ Return(s)
  /\ UNCHANGED <<collection, closed, ids, runtimes, starts, saves, made, life, halfway, ghosts>>

-----------------------------------------------------------------------------
(* Create, resume, activate                                                *)

\* The rest of such a call once nothing is left to discard: the entry is registered
\* (create, open) and selected, and the collection is saved. It throws when the
\* registry was disposed or the entry to select was closed in between.
Proceed(s, c, ss, provisional, kept_, selected) ==
  LET new == c.op \in {"create", "open"}
      throws == closed \/ (c.op = "reopen" /\ ~Contains(ss, c.id))
      ss2 == IF new THEN Append(ss, c.id) ELSE ss
      provisional2 == IF c.op = "create" /\ c.id \notin ephemeral
                        THEN provisional \union {c.id} ELSE provisional
  IN  /\ retained' = kept_
      /\ IF throws
           THEN /\ sessions' = ss /\ temporary' = provisional /\ active' = selected
                /\ Return(s)
                /\ UNCHANGED saveQueue
           ELSE /\ sessions' = ss2 /\ temporary' = provisional2 /\ active' = c.id
                /\ saveQueue' = Save(s, ss2, provisional2, c.id)
                /\ calls' = [calls EXCEPT ![s] = [c EXCEPT !.pc = "saving", !.victim = None]]
      /\ halfway' = (halfway \/ (throws /\ c.victim # None))
      /\ UNCHANGED <<closed, starts, stored, lastSave, failures, life, ghosts>>

Discardable(id) == id \in temporary \ retained

\* discardActiveTemporarySession: a provisional selection nobody retained is disposed.
Enter(s, c) ==
  IF c.id # active /\ Discardable(active)
    THEN /\ Dispose({active})
         /\ calls' = [calls EXCEPT ![s] = [c EXCEPT !.pc = "discarding", !.victim = active]]
         /\ UNCHANGED <<collection, closed, starts, saves, life, halfway, ghosts>>
    ELSE /\ Proceed(s, c, sessions, temporary, retained, active)
         /\ UNCHANGED runtimes

\* mistake: the selection is read again after the await
Discarded_Current(s) ==
  LET c == calls[s] IN
  /\ c.pc = "discarding" /\ Stopped(c.victim)
  /\ Proceed(s, c, Without(sessions, active), temporary \ {active}, retained \ {active}, None)
  /\ UNCHANGED <<ids, runtimes, made>>

\* The runtime is disposed: its entry goes, whatever became of it meanwhile, and with
\* it the selection, whatever that is now.
Discarded(s) ==
  LET c == calls[s] IN
  /\ c.pc = "discarding" /\ Stopped(c.victim)
  /\ Proceed(s, c, Without(sessions, c.victim), temporary \ {c.victim},
             retained \ {c.victim}, None)
  /\ UNCHANGED <<ids, runtimes, made>>

Creating == \E s \in Slots : calls[s].op = "create"

\* createSession(ephemeral): a creation under way excludes another one, until it has
\* returned. (The id is drawn later in the code; nobody sees it before the entry is
\* registered.)
BeginCreate(s) ==
  /\ Free(s) /\ ~Creating
  /\ used < MaxSessions /\ used' = used + 1
  /\ \E temporary_ \in BOOLEAN :
       ephemeral' = IF temporary_ THEN ephemeral \union {used'} ELSE ephemeral
  /\ calls' = [calls EXCEPT ![s] = [Idle EXCEPT !.op = "create", !.pc = "picking", !.id = used']]
  /\ UNCHANGED <<collection, closed, file, runtimes, starts, saves, life, halfway, ghosts>>

\* resumeSession
BeginResume(s) ==
  /\ Free(s)
  /\ calls' = [calls EXCEPT ![s] = [Idle EXCEPT !.op = "open", !.pc = "picking"]]
  /\ UNCHANGED <<collection, closed, ids, runtimes, starts, saves, life, halfway, ghosts>>

PickNothing(s) ==
  /\ calls[s].pc = "picking" /\ Quiet
  /\ Return(s)
  /\ UNCHANGED <<collection, closed, ids, runtimes, starts, saves, made, life, halfway, ghosts>>

\* A directory was picked for the new entry.
PickDirectory(s) ==
  /\ calls[s].pc = "picking" /\ calls[s].op = "create" /\ ~closed /\ Quiet
  /\ Enter(s, calls[s])
  /\ UNCHANGED <<ids, made>>

\* A saved session was picked: one on record is selected, another one gets an entry.
PickFile(s) ==
  /\ calls[s].pc = "picking" /\ calls[s].op = "open" /\ ~closed /\ Quiet
  /\ \E f \in Files :
       LET first == SelectInSeq(sessions, LAMBDA id : file[id] = f)
       IN  IF first # 0
             THEN /\ Enter(s, [calls[s] EXCEPT !.op = "reopen", !.id = sessions[first]])
                  /\ UNCHANGED ids
             ELSE /\ used < MaxSessions /\ used' = used + 1
                  /\ file' = [file EXCEPT ![used'] = f]
                  /\ UNCHANGED ephemeral
                  /\ Enter(s, [calls[s] EXCEPT !.id = used'])
  /\ UNCHANGED made

\* activateSession
Activate(s, id) ==
  /\ Free(s) /\ Known(id)
  /\ Enter(s, [Idle EXCEPT !.op = "activate", !.id = id])
  /\ UNCHANGED ids

-----------------------------------------------------------------------------
(* Clear, close, retain, prompt                                            *)

\* A call changes the collection and saves it; the save is what it waits for.
Commit(s, c, ss, provisional, kept_, selected) ==
  /\ sessions' = ss /\ temporary' = provisional /\ retained' = kept_ /\ active' = selected
  /\ IF closed THEN Return(s) /\ UNCHANGED saveQueue
     ELSE /\ saveQueue' = Save(s, ss, provisional, selected)
          /\ calls' = [calls EXCEPT ![s] = [c EXCEPT !.pc = "saving"]]
  /\ UNCHANGED <<stored, lastSave, failures>>

\* clearActiveSession
Clear(s) ==
  /\ Free(s) /\ active # None
  /\ Commit(s, [Idle EXCEPT !.op = "clear"], sessions, temporary, retained, None)
  /\ UNCHANGED <<closed, ids, runtimes, starts, life, halfway, ghosts>>

\* closeSession: the user may be asked first.
BeginClose(s, id) ==
  /\ Free(s) /\ Known(id)
  /\ calls' = [calls EXCEPT ![s] = [Idle EXCEPT !.op = "close", !.pc = "confirming", !.id = id]]
  /\ UNCHANGED <<collection, closed, ids, runtimes, starts, saves, life, halfway, ghosts>>

Decline(s) ==
  /\ calls[s].pc = "confirming" /\ Quiet
  /\ Return(s)
  /\ UNCHANGED <<collection, closed, ids, runtimes, starts, saves, made, life, halfway, ghosts>>

Confirm(s) ==
  /\ calls[s].pc = "confirming" /\ Quiet
  /\ Dispose({calls[s].id})
  /\ kept' = kept \ {calls[s].id}
  /\ Await(s, "disposing")
  /\ UNCHANGED <<collection, closed, ids, starts, saves, made, life, halfway, gone>>

\* The entry goes; the selection moves on if it was selected.
CloseEnds(s) ==
  LET id == calls[s].id
      rest == Without(sessions, id)
  IN  /\ calls[s].pc = "disposing" /\ Stopped(id)
      /\ Commit(s, calls[s], rest, temporary \ {id}, retained \ {id},
                IF active = id THEN LastOrNone(rest) ELSE active)
      /\ UNCHANGED <<closed, ids, runtimes, starts, made, life, halfway, ghosts>>

\* retainProvisionalSession: opened in a tab.
Retain(id) ==
  /\ ~closed /\ id \in temporary \ retained /\ Quiet
  /\ retained' = retained \union {id}
  /\ UNCHANGED <<sessions, temporary, active, closed, ids, runtimes, starts, saves, calls,
                 made, life, halfway, ghosts>>

\* The prompt goes to the session's process: if that is ready, and also if it is starting
\* and was spawned already. Otherwise there is no api and the call throws.
Submit(s, c) ==
  \/ /\ status[c.id] \in {"starting", "ready"}
     /\ calls' = [calls EXCEPT ![s] = [c EXCEPT !.pc = "prompting"]]
  \/ status[c.id] # "ready" /\ Return(s)

\* sendPrompt (and rename): ensureRunning first.
BeginPrompt(s, id) ==
  LET c == [Idle EXCEPT !.op = "prompt", !.id = id]
      down == status[id] \in {"stopped", "failed"}
  IN  /\ Free(s) /\ Known(id)
      /\ ~(id \in ephemeral /\ down)
      /\ IF down \/ status[id] = "queued"
           THEN /\ RequestStart(id)
                /\ calls' = [calls EXCEPT ![s] = [c EXCEPT !.pc = "ensuring"]]
           ELSE Submit(s, c) /\ UNCHANGED <<startQueue, status>>
      /\ UNCHANGED <<collection, closed, ids, disposed, begun, saves, life, halfway, ghosts>>

Ensured(s) ==
  LET c == calls[s] IN
  /\ c.pc = "ensuring" /\ ~Contains(startQueue, c.id)
  /\ IF Known(c.id) THEN Submit(s, c) ELSE Return(s)
  /\ UNCHANGED <<collection, closed, ids, runtimes, starts, saves, made, life, halfway, ghosts>>

\* Pi refuses the prompt, or the process stops before it answers.
PromptFails(s) ==
  /\ calls[s].pc = "prompting" /\ Quiet
  /\ Return(s)
  /\ UNCHANGED <<collection, closed, ids, runtimes, starts, saves, made, life, halfway, ghosts>>

\* mistake: the entry is kept but not saved
Promote_Unsaved(s, c) ==
  /\ temporary' = temporary \ {c.id} /\ retained' = retained \ {c.id}
  /\ Return(s)
  /\ UNCHANGED <<sessions, active, saves, closed, ids, runtimes, starts, made, life, halfway,
                 ghosts>>

\* The session stays: its first prompt was accepted.
Promote(s, c) ==
  /\ IF c.id \in temporary
       THEN Commit(s, c, sessions, temporary \ {c.id}, retained \ {c.id}, active)
       ELSE Return(s) /\ UNCHANGED <<collection, saves>>
  /\ UNCHANGED <<closed, ids, runtimes, starts, made, life, halfway, ghosts>>

Answers(id) == status[id] \in {"starting", "ready", "stopping"}

\* Pi's answer, which a process that is being stopped may still give while its pending
\* dialogs are cancelled.
PromptAccepted(s) ==
  /\ calls[s].pc = "prompting" /\ Answers(calls[s].id) /\ Quiet
  /\ Promote(s, calls[s])

\* For an extension command the runtime then polls until Pi is idle.
CommandAccepted(s) ==
  /\ calls[s].pc = "prompting" /\ Answers(calls[s].id) /\ Quiet
  /\ Await(s, "polling")
  /\ UNCHANGED <<collection, closed, ids, runtimes, starts, saves, made, life, halfway, ghosts>>

PollingEnds(s) == calls[s].pc = "polling" /\ Quiet /\ Promote(s, calls[s])

-----------------------------------------------------------------------------
(* The queue of saves, shutdown, crash and restoration                     *)

Ending(id) == \E s \in Slots : \/ calls[s].victim = id
                               \/ calls[s].id = id /\ calls[s].pc = "disposing"

\* mistake: the writes are not queued; any of them may end first
Write_Unordered ==
  \E i \in DOMAIN saveQueue :
     /\ Quiet
     /\ stored' = saveQueue[i].index
     /\ LET c == calls[saveQueue[i].owner] IN
        IF saveQueue[i].owner = None THEN UNCHANGED <<calls, ghosts>>
        ELSE /\ IF c.op \in {"clear", "close", "prompt"} THEN Return(saveQueue[i].owner)
                                  ELSE Await(saveQueue[i].owner, "saved")
             /\ gone' = IF c.op = "close" THEN gone \union {c.id} ELSE gone
             /\ UNCHANGED kept
     /\ saveQueue' = RemoveAt(saveQueue, i)
     /\ lastSave' = "ok"
     /\ UNCHANGED <<collection, closed, ids, runtimes, starts, failures, made, life, halfway>>

\* A write ends well: the call that waits for it goes on to the start, or returns.
Write ==
  /\ saveQueue # <<>> /\ Quiet
  /\ LET head == Head(saveQueue) IN
     /\ stored' = head.index
     /\ IF head.owner = None THEN UNCHANGED <<calls, ghosts>>
        ELSE LET c == calls[head.owner]
                 goesOn == c.op \in {"create", "open", "reopen", "activate"}
             IN  /\ IF goesOn THEN Await(head.owner, "saved") ELSE Return(head.owner)
                 /\ gone' = IF c.op = "close" THEN gone \union {c.id} ELSE gone
                 /\ kept' = IF c.op \in {"open", "prompt"} /\ Known(c.id) /\ ~Ending(c.id)
                              THEN kept \union {c.id} ELSE kept
  /\ saveQueue' = Tail(saveQueue)
  /\ lastSave' = "ok"
  /\ UNCHANGED <<collection, closed, ids, runtimes, starts, failures, made, life, halfway>>

\* A write fails: so does the call; the queue goes on.
WriteFails ==
  /\ saveQueue # <<>> /\ failures < MaxFailures /\ Quiet
  /\ failures' = failures + 1
  /\ IF Head(saveQueue).owner = None THEN UNCHANGED calls ELSE Return(Head(saveQueue).owner)
  /\ saveQueue' = Tail(saveQueue)
  /\ lastSave' = "failed"
  /\ UNCHANGED <<collection, closed, ids, runtimes, starts, stored, made, life, halfway, ghosts>>

\* dispose(): every runtime is disposed; whoever goes on meets #assertOpen.
Shutdown ==
  /\ ~closed /\ closed' = TRUE /\ Quiet
  /\ Dispose(ToSet(sessions))
  /\ UNCHANGED <<collection, ids, starts, saves, calls, made, life, halfway, ghosts>>

\* mistake: the saved selection is taken on trust
Restored_Unchecked(index) ==
  IF index.active # None THEN index.active
  ELSE IF SavedOnly \/ index.ids = <<>> THEN None
  ELSE Head(index.ids)

\* The constructor: what the index holds, the selection only if its entry is there.
Restored(index) ==
  IF index.active # None /\ Contains(index.ids, index.active) THEN index.active
  ELSE IF SavedOnly \/ index.ids = <<>> THEN None
  ELSE Head(index.ids)

\* The host ends, at any time or after a shutdown, and another one begins.
Reopen ==
  /\ life < MaxLives /\ life' = life + 1
  /\ sessions' = stored.ids /\ active' = Restored(stored)
  /\ temporary' = {} /\ retained' = {} /\ closed' = FALSE
  /\ status' = [id \in Ids |-> "stopped"] /\ disposed' = {}
  /\ startQueue' = <<>> /\ begun' = FALSE
  /\ saveQueue' = <<>> /\ lastSave' = "none" /\ halfway' = FALSE
  /\ calls' = [s \in Slots |-> Idle]
  /\ UNCHANGED <<ids, stored, failures, made, ghosts>>

-----------------------------------------------------------------------------
\* The first life finds an index without a session or with one.
Init ==
  /\ used \in {0, 1}
  /\ stored = [active |-> used, ids |-> IF used = 1 THEN <<1>> ELSE <<>>]
  /\ sessions = stored.ids /\ active = Restored(stored)
  /\ temporary = {} /\ retained = {} /\ closed = FALSE
  /\ file = [id \in Ids |-> NoFile] /\ ephemeral = {}
  /\ status = [id \in Ids |-> "stopped"] /\ disposed = {}
  /\ startQueue = <<>> /\ begun = FALSE
  /\ saveQueue = <<>> /\ lastSave = "none" /\ halfway = FALSE
  /\ calls = [s \in Slots |-> Idle]
  /\ made = 0 /\ failures = 0 /\ life = 1
  /\ gone = {} /\ kept = ToSet(stored.ids)

\* Calls that go on, and what the user, Pi, the processes and the storage do.
Next ==
  \/ \E s \in Slots :
       \/ Discarded(s) \/ CloseEnds(s) \/ Launch(s) \/ Launched(s) \/ Ensured(s)
       \/ BeginCreate(s) \/ BeginResume(s) \/ PickNothing(s) \/ PickDirectory(s) \/ PickFile(s)
       \/ Clear(s) \/ Decline(s) \/ Confirm(s)
       \/ PromptFails(s) \/ PromptAccepted(s) \/ CommandAccepted(s) \/ PollingEnds(s)
       \/ \E id \in Ids : Activate(s, id) \/ BeginClose(s, id) \/ BeginPrompt(s, id)
  \/ \E id \in Ids : StopEnds(id) \/ Retain(id)
  \/ JobBegins \/ JobEnds \/ Write \/ WriteFails \/ Shutdown \/ Reopen

Spec == Init /\ [][Next]_vars

-----------------------------------------------------------------------------
(* Properties                                                              *)

\* Whenever no save is waiting and the last one succeeded, the index says what the
\* collection is: nothing changes it without a save, and saves end in the order of the
\* changes. (A registry that was disposed saves no more; a call that throws after it
\* discarded the selection leaves that unsaved.)
StoredMatches ==
  saveQueue = <<>> /\ lastSave = "ok" /\ ~closed /\ ~halfway
    => stored = Snapshot(sessions, temporary, active)

\* A session whose closeSession() has returned is never in the index again, whatever
\* other calls, callbacks of its stopping runtime or restarts do.
ClosedStaysClosed == \A id \in gone : ~Known(id) /\ ~Contains(stored.ids, id)

\* A session that was resumed, or whose first prompt was accepted, is in the index once
\* its call has returned, until the user closes it: no later save, discard or crash
\* loses it.
KeptSurvives == kept \subseteq ToSet(stored.ids)

\* The index remembers what the user kept and forgets what the user closed.
IndexRemembers == ClosedStaysClosed /\ KeptSurvives

\* No process without an entry, and none after the shutdown: neither a queued start nor
\* a call that goes on late makes one.
NoStrayProcess == \A id \in Ids : status[id] \in {"starting", "ready"} =>
                    Known(id) /\ ~closed

Restorable(selected, ss) == selected = None \/ Contains(ss, selected)

\* The selection a new life begins with exists, though the index may name a session that
\* is gone.
RestoredSelectionExists == [][life' # life => Restorable(active', sessions')]_vars

\* session-catalog.SPEC.md: selecting a session already represented activates it
\* instead of spawning a duplicate.
OneEntryPerFile == \A i, j \in ToSet(sessions) : file[i] = file[j] /\ file[i] # NoFile => i = j
=============================================================================
