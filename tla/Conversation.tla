------------------------------ MODULE Conversation ------------------------------
(***************************************************************************)
(* A session's conversation while Pi runs: SessionRuntime feeds Pi's       *)
(* events to the projection, loads the history and reconciles the view     *)
(* with Pi's entries after each run, all over one ordered pipe.            *)
(* Pi itself is external: its log of entries, its leaf and its run.        *)
(***************************************************************************)
EXTENDS ConversationProjection

CONSTANT
  Scenarios   \* what may happen in a behaviour: the bounds, and two liberties

\* twins: two messages may carry one correlation key.  hasty: the user
\* does not wait for an earlier prompt, abort or run to be answered and uses
\* both queues at once; Pi may end a run that fails with prompts still queued.
ASSUME ScenariosAssumption ==
  Scenarios \subseteq
    [{"prompts", "messages", "customs", "compactions", "loads", "moves", "aborts",
      "failures", "crashes", "commands", "recoveries"} -> Nat]
    \X [twins : BOOLEAN, hasty : BOOLEAN, old : BOOLEAN]

VARIABLES
  log, leaf,      \* Pi's session entries, in append order, and its leaf (0: none)
  pi,             \* Pi's run: what it does, the message it makes and its key
  piSteers, piFollows,   \* prompts queued in Pi
  stdin, stdout,  \* commands to Pi; events and answers from Pi
  conv,           \* the projection
  streaming,      \* SessionViewState.isStreaming
  history,        \* SessionViewState.historyStatus
  entries,        \* SessionEntryState: initialised, cursor, leaf
  buffer, seen,   \* events that wait for the history; how many there were when it
                  \* was last asked for (NotLoading: no load is under way)
  up,             \* the connection is started
  nav,            \* tree navigation: "none", "checking", "moving" or "reading"
  command,        \* an extension command whose end is polled for: its turn, polls left
  taken,          \* the bubbles a queue recovery will remove
  sent,           \* prompts sent
  left, may       \* what is left of the bounds; the liberties

piVars == <<log, leaf, pi, piSteers, piFollows>>
viewVars == <<conv, streaming, history, entries, buffer, seen, up>>
taskVars == <<nav, command, taken>>
hostVars == <<viewVars, taskVars, sent, may>>
vars == <<piVars, viewVars, taskVars, stdin, stdout, sent, left, may>>

NotLoading == -1

Spend(what) == left[what] > 0 /\ left' = [left EXCEPT ![what] = @ - 1]

(***************************************************************************)
(* Pi                                                                      *)
(***************************************************************************)
Entry(kind, key, m, stop) ==
  [id |-> Len(log) + 1, parent |-> leaf, kind |-> kind, key |-> key, m |-> m, stop |-> stop]

Persist(e) == log' = Append(log, e) /\ leaf' = e.id

Emit(events) == stdout' = stdout \o events

Event(t) == [t |-> t]
UserStart(p) == [t |-> "user_start", key |-> p]
Ended(willRetry) == [t |-> "agent_end", willRetry |-> willRetry]
MessageEnd(stop) == [t |-> "assistant_end", m |-> pi.m, key |-> pi.key, stop |-> stop]
Settled == <<Ended(FALSE), Event("agent_settled")>>

PiRun(st) == pi' = [pi EXCEPT !.st = st]

Idle == pi.st = "idle"

\* The user's message goes in before the model answers.
PiDelivers1(p, before) ==
  /\ Emit(Append(before, UserStart(p)))
  /\ Persist(Entry("user", p, 0, ""))
  /\ PiRun("model")

Takes(t) == stdin # <<>> /\ pi.st # "down" /\ Head(stdin).t = t /\ stdin' = Tail(stdin)

PiTakesPrompt ==
  /\ Takes("prompt") /\ (may.hasty \/ pi.st # "failed")
  /\ LET x == Head(stdin) IN
       \/ /\ Idle
          /\ PiDelivers1(x.p, <<Event("agent_start")>>)
          /\ UNCHANGED <<piSteers, piFollows>>
       \/ /\ ~Idle /\ x.mode = "idle"
          /\ Emit(<<[t |-> "rejected", p |-> x.p]>>)
          /\ UNCHANGED piVars
       \/ /\ ~Idle /\ x.mode # "idle"
          /\ piSteers' = IF x.mode = "steer" THEN Append(piSteers, x.p) ELSE piSteers
          /\ piFollows' = IF x.mode = "follow" THEN Append(piFollows, x.p) ELSE piFollows
          /\ UNCHANGED <<log, leaf, pi, stdout>>
  /\ UNCHANGED <<hostVars, left>>

\* An extension command runs at once and ends without a word about a run.
PiTakesCommand ==
  /\ Takes("command")
  /\ Emit(<<[t |-> "ran", p |-> Head(stdin).p]>>)
  /\ UNCHANGED <<piVars, hostVars, left>>

PiAnswersEntries ==
  /\ Takes("get_entries")
  /\ LET x == Head(stdin) IN
       \/ /\ Emit(<<[t |-> "entries", use |-> x.use, leaf |-> leaf,
                     list |-> SubSeq(log, x.since + 1, Len(log))]>>)
          /\ UNCHANGED left
       \/ /\ Emit(<<[t |-> "failed", use |-> x.use]>>)
          /\ Spend("failures")
  /\ UNCHANGED <<piVars, hostVars>>

PiAnswersState ==
  /\ Takes("get_state")
  /\ \/ /\ Emit(<<[t |-> "state", idle |-> Idle]>>)
        /\ UNCHANGED left
     \/ /\ Emit(<<[t |-> "failed", use |-> "state"]>>)
        /\ Spend("failures")
  /\ UNCHANGED <<piVars, hostVars>>

PiClearsQueue ==
  /\ Takes("clear_queue")
  /\ Emit(<<Event("cleared")>>)
  /\ piSteers' = <<>> /\ piFollows' = <<>>
  /\ UNCHANGED <<log, leaf, pi, hostVars, left>>

\* FrostPi's tree extension moves the leaf once the agent is idle.
PiNavigates ==
  /\ Takes("navigate") /\ Idle
  /\ \/ /\ \E i \in DOMAIN log : log[i].kind = "user" /\ leaf' = log[i].parent
        /\ Emit(<<[t |-> "navigated", ok |-> TRUE]>>)
     \/ /\ Emit(<<[t |-> "navigated", ok |-> FALSE]>>)
        /\ UNCHANGED leaf
  /\ UNCHANGED <<log, pi, piSteers, piFollows, hostVars, left>>

PiSpeaks ==
  /\ pi.st = "model" /\ Spend("messages")
  /\ \E key \in {pi.m + 1} \cup (IF may.twins /\ pi.key # 0 THEN {pi.key} ELSE {}) :
       /\ pi' = [st |-> "stream", m |-> pi.m + 1, key |-> key]
       /\ Emit(<<[t |-> "assistant_start", m |-> pi.m + 1, key |-> key]>>)
  /\ UNCHANGED <<log, leaf, piSteers, piFollows, hostVars, stdin>>

PiStops(stop) ==
  /\ pi.st = "stream"
  /\ stop = "error" => may.hasty \/ piSteers \o piFollows = <<>>
  /\ Persist(Entry("assistant", pi.key, pi.m, stop))
  /\ Emit(<<MessageEnd(stop)>>)
  /\ PiRun(CASE stop = "toolUse" -> "call" [] stop = "error" -> "failed" [] OTHER -> "done")
  /\ UNCHANGED <<piSteers, piFollows, hostVars, stdin, left>>

PiCalls ==
  /\ pi.st = "call"
  /\ Emit(<<[t |-> "tool_start", m |-> pi.m]>>)
  /\ PiRun("tooling")
  /\ UNCHANGED <<log, leaf, piSteers, piFollows, hostVars, stdin, left>>

PiReturns ==
  /\ pi.st = "tooling"
  /\ Emit(<<[t |-> "tool_end", m |-> pi.m]>>)
  /\ Persist(Entry("tool", pi.key, pi.m, ""))
  /\ PiRun("turn")
  /\ UNCHANGED <<piSteers, piFollows, hostVars, stdin, left>>

\* Steering goes in at every turn, follow-ups when the run would end; at the
\* bound on messages a run takes what is queued and ends.
AtBound == pi.st = "model" /\ left.messages = 0

PiDelivers ==
  /\ \/ /\ pi.st \in {"turn", "done"} \/ AtBound
        /\ piSteers # <<>>
        /\ PiDelivers1(Head(piSteers), <<>>)
        /\ piSteers' = Tail(piSteers)
        /\ UNCHANGED piFollows
     \/ /\ pi.st = "done" \/ AtBound
        /\ piSteers = <<>> /\ piFollows # <<>>
        /\ PiDelivers1(Head(piFollows), <<>>)
        /\ piFollows' = Tail(piFollows)
        /\ UNCHANGED piSteers
  /\ UNCHANGED <<hostVars, stdin, left>>

PiContinues ==
  /\ pi.st = "turn" /\ piSteers = <<>>
  /\ PiRun("model")
  /\ UNCHANGED <<log, leaf, piSteers, piFollows, hostVars, stdin, stdout, left>>

PiSettles ==
  /\ \/ (pi.st = "done" \/ AtBound) /\ piSteers \o piFollows = <<>>
     \/ pi.st = "failed"
  /\ Emit(Settled)
  /\ PiRun("idle")
  /\ UNCHANGED <<log, leaf, piSteers, piFollows, hostVars, stdin, left>>

PiRetries ==
  /\ pi.st = "failed" /\ left.messages > 0
  /\ Emit(<<Ended(TRUE), Event("auto_retry_start"), Event("agent_start")>>)
  /\ PiRun("model")
  /\ UNCHANGED <<log, leaf, piSteers, piFollows, hostVars, stdin, left>>

Compacted(willRetry) ==
  [t |-> "compaction_end", key |-> leaf, m |-> 100 + Len(log), willRetry |-> willRetry]

\* Compaction: of a run that overflowed, which then goes on, or between runs.
PiCompacts ==
  /\ leaf # 0 /\ Spend("compactions")
  /\ \/ /\ pi.st = "failed" /\ left.messages > 0
        /\ Emit(<<Ended(TRUE), Compacted(TRUE), Event("agent_start")>>)
        /\ PiRun("model")
     \/ /\ Idle
        /\ Emit(<<Compacted(FALSE)>>)
        /\ UNCHANGED pi
  /\ Persist(Entry("compaction", leaf, 100 + Len(log), ""))
  /\ UNCHANGED <<piSteers, piFollows, hostVars, stdin>>

\* An extension's message: delivered, or announced with its entry.
PiSendsCustom ==
  /\ pi.st \in {"idle", "turn", "done"} /\ Spend("customs")
  /\ LET e == Entry("custom", 0, 200 + Len(log), "") IN
       /\ Persist(e)
       /\ \/ Emit(<<[t |-> "custom_end", m |-> e.m]>>)
          \/ Emit(<<[t |-> "entry_appended", id |-> e.id, m |-> e.m]>>)
  /\ UNCHANGED <<pi, piSteers, piFollows, hostVars, stdin>>

\* Abort: what runs is cut short, and what is queued is dropped.
PiAborts ==
  /\ Takes("abort")
  /\ LET close == IF Idle THEN <<Event("aborted")>> ELSE Append(Settled, Event("aborted")) IN
       \/ /\ pi.st = "stream"
          /\ Persist(Entry("assistant", pi.key, pi.m, "aborted"))
          /\ Emit(<<MessageEnd("aborted")>> \o close)
       \/ /\ pi.st = "tooling"
          /\ Persist(Entry("tool", pi.key, pi.m, ""))
          /\ Emit(<<[t |-> "tool_end", m |-> pi.m]>> \o close)
       \/ /\ pi.st \notin {"stream", "tooling"}
          /\ Emit(close)
          /\ UNCHANGED <<log, leaf>>
  /\ PiRun("idle")
  /\ piSteers' = <<>> /\ piFollows' = <<>>
  /\ UNCHANGED <<hostVars, left>>

\* The process dies: what it was told is lost, and the end of what it said.
PiDies ==
  /\ pi.st # "down" /\ Spend("crashes")
  /\ \E n \in {0, Len(stdout)} :
       stdout' = Append(SubSeq(stdout, 1, n),
                   [t |-> "exited", lost |-> {stdout[i] : i \in n + 1 .. Len(stdout)}])
  /\ PiRun("down")
  /\ piSteers' = <<>> /\ piFollows' = <<>>
  /\ UNCHANGED <<log, leaf, hostVars, stdin>>

PiSteps ==
  \/ PiTakesPrompt \/ PiTakesCommand \/ PiAnswersEntries \/ PiAnswersState
  \/ PiClearsQueue \/ PiNavigates \/ PiAborts
  \/ PiSpeaks \/ PiCalls \/ PiReturns \/ PiDelivers \/ PiContinues
  \/ \E stop \in {"stop", "toolUse", "error"} : PiStops(stop)
  \/ PiSettles \/ PiRetries \/ PiCompacts \/ PiSendsCustom \/ PiDies

(***************************************************************************)
(* SessionRuntime                                                          *)
(***************************************************************************)
Ask(since, use) == [t |-> "get_entries", since |-> since, use |-> use]

Tell(requests) == stdin' = stdin \o requests

Hears(t) == stdout # <<>> /\ Head(stdout).t = t /\ stdout' = Tail(stdout)

HearsFor(t, use) == Hears(t) /\ Head(stdout).use = use

\* After a change of the log: entries are asked for once they are known.
Refresh == IF entries.init THEN <<Ask(entries.cursor, "increment")>> ELSE <<>>

Outstanding == AwaitsUserMessage(conv, ActiveTurn(conv)) \/ HasQueued(conv)

Aborting == \E q \in {stdin, stdout} : \E i \in DOMAIN q : q[i].t \in {"abort", "aborted"}

CanSend == up /\ history \notin {"queued", "loading"} /\ nav \in {"none", "checking"}
           /\ (may.hasty \/ (~Aborting /\ seen = NotLoading))

OpensTurn(request) ==
  /\ may.hasty \/ ~Outstanding
  /\ conv' = AppendUserPrompt(conv, sent + 1)
  /\ Tell(<<request>>)
  /\ sent' = sent + 1
  /\ UNCHANGED <<piVars, streaming, history, entries, buffer, seen, up, taskVars, stdout, may>>

\* A prompt opens a turn when the session is idle and is queued otherwise.
SendPrompt ==
  /\ CanSend /\ ~streaming /\ ~HasQueued(conv) /\ Spend("prompts")
  /\ OpensTurn([t |-> "prompt", p |-> sent + 1, mode |-> "idle"])

QueuePrompt ==
  /\ CanSend /\ (streaming \/ HasQueued(conv)) /\ taken = {} /\ Spend("prompts")
  /\ \E mode \in {"steer", "follow"} :
       /\ may.hasty \/ (IF mode = "steer" THEN conv.follows ELSE conv.steers) = <<>>
       /\ conv' = IF mode = "steer" THEN [conv EXCEPT !.steers = Append(@, sent + 1)]
                  ELSE [conv EXCEPT !.follows = Append(@, sent + 1)]
       /\ Tell(<<[t |-> "prompt", p |-> sent + 1, mode |-> mode]>>)
  /\ sent' = sent + 1
  /\ UNCHANGED <<piVars, streaming, history, entries, buffer, seen, up, taskVars, stdout, may>>

\* An extension command is never queued.
SendCommand ==
  /\ CanSend /\ (may.hasty \/ ~streaming) /\ Spend("commands")
  /\ OpensTurn([t |-> "command", p |-> sent + 1])

Abort ==
  /\ streaming /\ up /\ Spend("aborts")
  /\ Tell(<<Event("abort")>>)
  /\ UNCHANGED <<piVars, hostVars, stdout>>

\* Pending prompts are taken back, all at once, into the message box.
RestoreQueued ==
  /\ up /\ history = "loaded" /\ nav = "none" /\ taken = {} /\ HasQueued(conv)
  /\ \A i \in DOMAIN stdin : stdin[i].t # "prompt"
  /\ Spend("recoveries")
  /\ taken' = {q \in 1 .. sent : Contains(conv.steers \o conv.follows, q)}
  /\ conv' = [conv EXCEPT !.recovering = TRUE]
  /\ Tell(<<Event("clear_queue")>>)
  /\ UNCHANGED <<piVars, streaming, history, entries, buffer, seen, up, nav, command,
                 stdout, sent, may>>

LoadHistory ==
  /\ up /\ ~streaming /\ seen = NotLoading
  /\ \/ history = "queued" /\ UNCHANGED left
     \/ history \in {"deferred", "failed"} /\ Spend("loads")
  /\ may.hasty \/ (~Outstanding /\ nav = "none")
  /\ history' = "loading"
  /\ buffer' = <<>> /\ seen' = 0
  /\ Tell(<<Ask(0, "load")>>)
  /\ UNCHANGED <<piVars, conv, streaming, entries, up, taskVars, stdout, sent, may>>

\* A long history waits until the user asks for it.
DeferHistory ==
  /\ up /\ history = "queued"
  /\ history' = "deferred"
  /\ UNCHANGED <<piVars, conv, streaming, entries, buffer, seen, up, taskVars, stdin, stdout,
                 sent, left, may>>

NavigateTree ==
  /\ up /\ ~streaming /\ history = "loaded" /\ ~HasQueued(conv) /\ nav = "none"
  /\ may.hasty \/ seen = NotLoading
  /\ Spend("moves")
  /\ nav' = "checking"
  /\ Tell(<<Ask(0, "check")>>)
  /\ UNCHANGED <<piVars, viewVars, command, taken, stdout, sent, may>>

\* A dead process is started again on the session's file.
Restart ==
  /\ ~up /\ pi.st = "down"
  /\ PiRun("idle")
  /\ up' = TRUE /\ streaming' = FALSE
  /\ history' = "queued"
  /\ entries' = [init |-> FALSE, cursor |-> 0, leaf |-> 0]
  /\ UNCHANGED <<log, leaf, piSteers, piFollows, conv, buffer, seen, taskVars, stdin, stdout,
                 sent, left, may>>

(***************************************************************************)
(* Events                                                                  *)
(***************************************************************************)
\* The state one event after another leaves; a settled run asks for entries.
Applied(h, e) ==
  [conv |-> ApplyEvent(h.conv, e),
   streaming |-> e.t # "agent_settled" /\ (e.t = "agent_start" \/ h.streaming),
   asks |-> IF e.t \in {"agent_settled", "compaction_end"} THEN h.asks + 1 ELSE h.asks]

Replay(c, events) ==
  FoldLeft(Applied, [conv |-> c, streaming |-> streaming, asks |-> 0], events)

Becomes(h, known) ==
  /\ conv' = h.conv
  /\ streaming' = h.streaming
  /\ Tell([i \in 1 .. (IF known.init THEN h.asks ELSE 0) |-> Ask(known.cursor, "increment")])

Answers == {"entries", "failed", "rejected", "aborted", "ran", "state", "cleared", "navigated", "exited"}

ReceiveEvent ==
  /\ stdout # <<>> /\ Head(stdout).t \notin Answers
  /\ stdout' = Tail(stdout)
  /\ IF seen # NotLoading
     THEN /\ buffer' = Append(buffer, Head(stdout))
          /\ UNCHANGED <<conv, streaming, stdin>>
     ELSE /\ Becomes(Replay(conv, <<Head(stdout)>>), entries)
          /\ UNCHANGED buffer
  /\ UNCHANGED <<piVars, history, entries, seen, up, taskVars, sent, left, may>>

\* Commands that fail: a prompt that opened a turn ends it unless a run is on, one that
\* was queued gives up its bubble only, also when it has become a turn meanwhile.
Rejected(c, commands) ==
  LET Fail(d, x) == IF x.t = "prompt" /\ x.mode # "idle" THEN RemoveQueued(d, x.p)
                    ELSE IF streaming THEN d ELSE CompleteTurn(d, <<"prompt", x.p>>, "error")
  IN FoldLeft(Fail, c, SetToSortSeq(commands, LAMBDA x, y : x.p < y.p))

ReceiveRejection ==
  /\ Hears("rejected")
  /\ conv' = Rejected(conv, {Head(stdout)})
  /\ UNCHANGED <<piVars, streaming, history, entries, buffer, seen, up, taskVars, stdin,
                 sent, left, may>>

ReceiveAborted ==
  /\ Hears("aborted")
  /\ conv' = ClearQueued(conv)
  /\ UNCHANGED <<piVars, streaming, history, entries, buffer, seen, up, taskVars, stdin,
                 sent, left, may>>

ReceiveCleared ==
  /\ Hears("cleared")
  /\ conv' = FoldLeft(RemoveQueued, conv, SetToSortSeq(taken, <))
  /\ taken' = {}
  /\ UNCHANGED <<piVars, streaming, history, entries, buffer, seen, up, nav, command, stdin,
                 sent, left, may>>

(***************************************************************************)
(* The end of an extension command: asked for, up to three times.          *)
(***************************************************************************)
NoCommand == [turn |-> None, polls |-> 0]

Ends(t) == ~streaming /\ IsRunning(conv, t)

ReceiveRan ==
  /\ Hears("ran")
  /\ LET t == <<"prompt", Head(stdout).p>> IN
       IF ~streaming /\ HasTurn(conv, t) /\ Ends(t)
       THEN /\ command' = [turn |-> t, polls |-> 2]
            /\ Tell(<<Event("get_state")>>)
       ELSE UNCHANGED <<command, stdin>>
  /\ UNCHANGED <<piVars, viewVars, nav, taken, sent, left, may>>

CompleteCommand ==
  /\ conv' = CompleteTurn(conv, command.turn, "completed")
  /\ command' = NoCommand
  /\ Tell(Refresh)

Polling == HasTurn(conv, command.turn) /\ Ends(command.turn)

ReceiveState ==
  /\ Hears("state")
  /\ IF Polling /\ Head(stdout).idle THEN CompleteCommand
     ELSE command' = NoCommand /\ UNCHANGED <<conv, stdin>>
  /\ UNCHANGED <<piVars, streaming, history, entries, buffer, seen, up, nav, taken, sent,
                 left, may>>

ReceiveNoState ==
  /\ HearsFor("failed", "state")
  /\ \/ ~Polling /\ command' = NoCommand /\ UNCHANGED <<conv, stdin>>
     \/ /\ Polling /\ command.polls > 0
        /\ command' = [command EXCEPT !.polls = @ - 1]
        /\ Tell(<<Event("get_state")>>)
        /\ UNCHANGED conv
     \/ Polling /\ command.polls = 0 /\ CompleteCommand
  /\ UNCHANGED <<piVars, streaming, history, entries, buffer, seen, up, nav, taken, sent,
                 left, may>>

(***************************************************************************)
(* Entries                                                                 *)
(***************************************************************************)
\* The chain of parents from a leaf back to another, over these entries only;
\* an entry's place in the log is its id.
ChainFrom(list, from, to) ==
  LET byId(i) == {j \in DOMAIN list : list[j].id = i}
      up1[i \in 0 .. Len(log)] ==
        IF i \in {0, to} \/ byId(i) = {} THEN <<>>
        ELSE LET e == list[CHOOSE j \in byId(i) : TRUE] IN Append(up1[e.parent], e)
  IN up1[from]

Connects(list, from, to) ==
  LET chain == ChainFrom(list, from, to)
  IN to = IF chain = <<>> THEN from ELSE Head(chain).parent

Known(x) ==
  [init |-> TRUE, leaf |-> x.leaf,
   cursor |-> IF x.list = <<>> THEN entries.cursor ELSE Last(x.list).id]

\* refreshPersistedEntries: append what connects, else ask for everything.
ReceiveIncrement ==
  /\ HearsFor("entries", "increment")
  /\ LET x == Head(stdout)
         chain == ChainFrom(x.list, x.leaf, entries.leaf)
         connects == Connects(x.list, x.leaf, entries.leaf)
     IN /\ entries' = IF connects THEN Known(x) ELSE entries
        /\ IF connects /\ ~MustReload(conv, chain)
           THEN conv' = ReconcileEntries(conv, chain) /\ UNCHANGED stdin
           ELSE Tell(<<Ask(0, "complete")>>) /\ UNCHANGED conv
  /\ UNCHANGED <<piVars, streaming, history, buffer, seen, up, taskVars, sent, left, may>>

Replaces(x) ==
  /\ entries' = Known(x)
  /\ history' = "loaded"

Path(x) == ChainFrom(x.list, x.leaf, 0)

\* All entries, after an increment that does not fit or a navigation.
ReceiveComplete ==
  /\ \E use \in {"complete", "navigate"} :
       /\ HearsFor("entries", use)
       /\ nav' = IF use = "navigate" THEN "none" ELSE nav
  /\ Replaces(Head(stdout))
  /\ conv' = ReplaceEntries(conv, Path(Head(stdout)))
  /\ UNCHANGED <<piVars, streaming, buffer, seen, up, command, taken, stdin, sent, left, may>>

IsCustomEnd(e) == e.t = "custom_end"

\* A snapshot counts when no custom message came while it was taken.
ReceiveHistory ==
  /\ HearsFor("entries", "load")
  /\ LET x == Head(stdout)
         noisy == \E i \in seen + 1 .. Len(buffer) : IsCustomEnd(buffer[i])
         rest == SelectSeq(buffer, LAMBDA e : ~IsCustomEnd(e))
     IN IF noisy
        THEN /\ seen' = Len(buffer)
             /\ Tell(<<Ask(0, "load")>>)
             /\ UNCHANGED <<conv, streaming, history, entries, buffer>>
        ELSE /\ Replaces(x)
             /\ Becomes(Replay(ReplaceEntries(conv, Path(x)), rest), Known(x))
             /\ buffer' = <<>> /\ seen' = NotLoading
  /\ UNCHANGED <<piVars, up, taskVars, sent, left, may>>

\* A failed load shows what was held back.
ReceiveNoHistory ==
  /\ HearsFor("failed", "load")
  /\ Becomes(Replay(conv, buffer), entries)
  /\ history' = "failed"
  /\ buffer' = <<>> /\ seen' = NotLoading
  /\ UNCHANGED <<piVars, entries, up, taskVars, sent, left, may>>

ReceiveNoEntries ==
  /\ \E use \in {"increment", "complete", "navigate", "check"} :
       /\ HearsFor("failed", use)
       /\ history' = IF use = "check" THEN history ELSE "failed"
       /\ nav' = IF use \in {"navigate", "check"} THEN "none" ELSE nav
  /\ UNCHANGED <<piVars, conv, streaming, entries, buffer, seen, up, command, taken, stdin,
                 sent, left, may>>

ReceiveChecked ==
  /\ HearsFor("entries", "check")
  /\ nav' = "moving"
  /\ Tell(<<Event("navigate")>>)
  /\ UNCHANGED <<piVars, viewVars, command, taken, sent, left, may>>

ReceiveNavigated ==
  /\ Hears("navigated")
  /\ IF Head(stdout).ok THEN nav' = "reading" /\ Tell(<<Ask(0, "navigate")>>)
     ELSE nav' = "none" /\ UNCHANGED stdin
  /\ UNCHANGED <<piVars, viewVars, command, taken, sent, left, may>>

\* The connection fails: live work is over, and so is all that was asked.
ReceiveExit ==
  /\ Hears("exited")
  /\ LET lost == Head(stdout).lost \cup {stdin[i] : i \in DOMAIN stdin}
         commands == {x \in lost : x.t \in {"prompt", "command", "ran"}}
         asked == \E x \in lost : x.t \in {"get_entries", "entries"}
         over == ClearQueued([FinalizeTools(conv) EXCEPT !.stream = 0])
         replayed == Replay(over, buffer)
         rejected == Rejected(replayed.conv, commands)
     IN /\ conv' = IF command.turn = None THEN rejected
                   ELSE CompleteTurn(rejected, command.turn, "completed")
        /\ streaming' = replayed.streaming
        /\ history' = IF asked \/ nav = "reading" \/ seen # NotLoading \/ command.turn # None
                      THEN "failed" ELSE history
  /\ up' = FALSE
  /\ buffer' = <<>> /\ seen' = NotLoading
  /\ nav' = "none" /\ command' = NoCommand /\ taken' = {}
  /\ stdin' = <<>>
  /\ UNCHANGED <<piVars, entries, sent, left, may>>

(***************************************************************************)
(* A new session, or one with a history whose last call has no result.     *)
(***************************************************************************)
OldLog ==
  <<[id |-> 1, parent |-> 0, kind |-> "user", key |-> 90, m |-> 0, stop |-> ""],
    [id |-> 2, parent |-> 1, kind |-> "assistant", key |-> 90, m |-> 90, stop |-> "toolUse"]>>

Init ==
  /\ \E x \in Scenarios : left = x[1] /\ may = x[2]
  /\ log = IF may.old THEN OldLog ELSE <<>>
  /\ leaf = Len(log)
  /\ pi = [st |-> "idle", m |-> 0, key |-> 0]
  /\ piSteers = <<>> /\ piFollows = <<>>
  /\ stdin = <<>> /\ stdout = <<>>
  /\ conv = EmptyConversation
  /\ streaming = FALSE /\ up = TRUE
  /\ history = IF may.old THEN "queued" ELSE "loaded"
  /\ entries = [init |-> ~may.old, cursor |-> 0, leaf |-> 0]
  /\ buffer = <<>> /\ seen = NotLoading
  /\ nav = "none" /\ command = NoCommand /\ taken = {}
  /\ sent = 0

HostSteps ==
  \/ SendPrompt \/ QueuePrompt \/ SendCommand \/ Abort \/ RestoreQueued
  \/ LoadHistory \/ DeferHistory \/ NavigateTree \/ Restart
  \/ ReceiveEvent \/ ReceiveRejection \/ ReceiveAborted \/ ReceiveCleared
  \/ ReceiveRan \/ ReceiveState \/ ReceiveNoState
  \/ ReceiveIncrement \/ ReceiveComplete \/ ReceiveHistory \/ ReceiveNoHistory
  \/ ReceiveNoEntries \/ ReceiveChecked \/ ReceiveNavigated \/ ReceiveExit

Next == PiSteps \/ HostSteps

Spec == Init /\ [][Next]_vars

(***************************************************************************)
(* Properties                                                              *)
(***************************************************************************)
\* What a reader sees of a conversation: turns with something in them.
Seen(c) ==
  LET full == SelectSeq(c.items, LAMBDA x : x.items # <<>> \/ x.source # 0)
  IN [i \in DOMAIN full |->
        [turn |-> full[i].turn, user |-> full[i].user, source |-> full[i].source,
         st |-> full[i].st,
         items |-> [j \in DOMAIN full[i].items |->
                      LET y == full[i].items[j] IN [kind |-> y.kind, m |-> y.m, st |-> y.st]]]]

\* Every turn the projection names is in the conversation: else an event
\* handler throws "Unknown projected turn" and the event is lost.
NamedTurnsExist ==
  \A t \in {conv.pt, conv.failing, conv.active} \ {None} : HasTurn(conv, t)

\* The types, and the references of the conversation.
TypeOK ==
  /\ pi.st \in {"idle", "model", "stream", "call", "tooling", "turn", "done", "failed", "down"}
  /\ leaf \in 0 .. Len(log)
  /\ entries.cursor \in 0 .. Len(log) /\ entries.leaf \in 0 .. Len(log)
  /\ streaming \in BOOLEAN /\ up \in BOOLEAN
  /\ history \in {"queued", "deferred", "loading", "loaded", "failed"}
  /\ seen \in NotLoading .. Len(buffer)
  /\ seen = NotLoading => buffer = <<>>
  /\ nav \in {"none", "checking", "moving", "reading"}
  /\ command.polls \in 0 .. 2 /\ taken \subseteq 1 .. sent
  /\ conv.known \subseteq DOMAIN log
  /\ NamedTurnsExist

\* No message of Pi, no tool call and no user entry is shown twice.  (Of a
\* live twin of a persisted message only the calls are shown, apart from it.)
ShownOnce ==
  /\ \A p, q \in Places(conv) :
       p.item.kind = q.item.kind /\ p.item.m = q.item.m =>
         p = q \/ (may.twins /\ p.item.kind = "tool")
  /\ \A i, j \in DOMAIN conv.items :
       conv.items[i].source # 0 /\ conv.items[i].source = conv.items[j].source => i = j

\* A turn shows the prompt of the entry it stands for.
RightPrompts ==
  \A i \in DOMAIN conv.items :
    conv.items[i].source # 0 => conv.items[i].user = log[conv.items[i].source].key

\* ... when the history is loaded and nothing was sent ahead of an answer.
RightPrompt == history = "loaded" /\ ~may.hasty => RightPrompts

Quiet ==
  /\ Idle /\ up /\ stdin = <<>> /\ stdout = <<>>
  /\ seen = NotLoading /\ nav = "none"

UpToDate == history = "loaded" /\ entries.cursor = Len(log) /\ entries.leaf = leaf

Reloaded == ReplaceEntries(EmptyConversation, ChainFrom(log, leaf, 0))

\* The turns with what Pi and the user said in them, and the rest as a set:
\* where an extension's message goes depends on when it is shown.
TurnsSeen(c) ==
  LET turns == SelectSeq(Seen(c), LAMBDA x : x.turn)
  IN [i \in DOMAIN turns |->
        [turns[i] EXCEPT !.items = SelectSeq(@, LAMBDA y : y.kind \in {"text", "tool"})]]

RestSeen(c) == {p.item.m : p \in {q \in Places(c) : q.item.kind \in {"custom", "compaction"}}}

\* Once all is quiet, events and increments have built the turns that a reload
\* of the session shows, and every message and compaction between them.  (A
\* live twin of a message already persisted is dropped until it is persisted.)
SameAsReload ==
  Quiet /\ UpToDate /\ ~may.hasty /\ ~may.twins =>
    /\ TurnsSeen(conv) = TurnsSeen(Reloaded)
    /\ RestSeen(conv) = RestSeen(Reloaded)

\* What is shown is what the session says: nothing twice, and in the end what a
\* reload shows.
ViewTrue == ShownOnce /\ SameAsReload

\* Between runs nothing is shown as running, and a bubble shown as pending is
\* a prompt Pi still has to deliver.
NothingRuns ==
  UpToDate /\ ~may.twins =>
    \A i \in DOMAIN conv.items :
      /\ conv.items[i].st # "running"
      /\ \A j \in DOMAIN conv.items[i].items :
           conv.items[i].items[j].st \notin {"running", "streaming"}

BubblesTrue ==
  /\ ToSet(conv.steers) \subseteq ToSet(piSteers)
  /\ ToSet(conv.follows) \subseteq ToSet(piFollows)

QuietMeansDone == Quiet /\ ~may.hasty => NothingRuns /\ BubblesTrue
================================================================================
