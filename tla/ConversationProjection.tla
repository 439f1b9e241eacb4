------------------------- MODULE ConversationProjection -------------------------
(***************************************************************************)
(* ConversationProjection: how Pi's events and session entries become the  *)
(* turns of a conversation.  Every operator maps a conversation c, a store *)
(* of ConversationItems with the fields                                    *)
(*   active    the turn live events go to                                  *)
(*   pt        the turn persisted entries go to; awaiting: it ended in an  *)
(*             error that may still be continued                           *)
(*   failing   the turn whose error agent_end has not decided yet          *)
(*   eligible  live turns whose user message Pi has emitted, in order      *)
(*   known     entries projected already                                   *)
(*   steers, follows   prompts queued while the agent runs                 *)
(*   recovering        queued prompts were taken back: trust only events   *)
(*   stream    the assistant message being assembled (0: none)             *)
(* to the conversation after it.  A prompt is its number; an entry carries *)
(* its id, kind, correlation key, message m and stop reason.               *)
(***************************************************************************)
EXTENDS ConversationItems

EmptyConversation ==
  EmptyStore @@
  [active |-> None, pt |-> None, awaiting |-> FALSE, failing |-> None,
   eligible |-> <<>>, known |-> {}, steers |-> <<>>, follows |-> <<>>,
   recovering |-> FALSE, stream |-> 0]

ActiveTurn(c) == IF c.active # None /\ HasTurn(c, c.active) THEN c.active ELSE None

IsRunning(c, t) == t # None /\ TurnOf(c, t).st = "running"

MessageStatus(stop) ==
  IF stop \in {"error", "aborted"} THEN stop ELSE "complete"

\* A message shows its text and, stopped by a tool call, the call.
Activities(view, m, stop, st) ==
  LET text == Item(Append(view, "text"), "text", m, st)
  IN IF stop = "toolUse"
     THEN <<text, Item(Append(view, "tool"), "tool", m, "running")>>
     ELSE <<text>>

(***************************************************************************)
(* Prompts and the local display of Pi's queues                            *)
(***************************************************************************)
StartTurn(c, turn) == [Append1(c, turn) EXCEPT !.active = turn.id]

AppendUserPrompt(c, p) == StartTurn(c, NewTurn(<<"prompt", p>>, p, 0))

HasQueued(c) == c.steers # <<>> \/ c.follows # <<>>

NextQueued(c) == Head(c.steers \o c.follows)

TakeQueued(c) ==
  IF c.steers # <<>> THEN [c EXCEPT !.steers = Tail(@)]
  ELSE [c EXCEPT !.follows = IF @ = <<>> THEN @ ELSE Tail(@)]

RemoveQueued(c, p) ==
  [c EXCEPT !.steers = SelectSeq(@, LAMBDA q : q # p),
            !.follows = SelectSeq(@, LAMBDA q : q # p)]

\* (Mutant) The bubbles outlive an abort.
ClearQueued_Keeps(c) == [c EXCEPT !.recovering = FALSE]

ClearQueued(c) == [c EXCEPT !.steers = <<>>, !.follows = <<>>, !.recovering = FALSE]

CompleteTurn(c, t, st) ==
  IF ~HasTurn(c, t) \/ ~IsRunning(c, t) THEN c
  ELSE LET d == SetTurnStatus(c, t, st)
       IN IF c.active = t THEN [d EXCEPT !.active = None, !.stream = 0] ELSE d

(***************************************************************************)
(* Live events                                                             *)
(***************************************************************************)
StartAgentTurn(c) ==
  LET a == ActiveTurn(c)
      idle == HasQueued(c) /\ IsRunning(c, a) /\ TurnOf(c, a).items = <<>>
      d == IF idle THEN [Without(c, a) EXCEPT !.active = None] ELSE c
      b == ActiveTurn(d)
  IN IF c.recovering THEN IF a = None THEN c ELSE SetTurnStatus(c, a, "running")
     ELSE IF ~IsRunning(d, b) /\ HasQueued(d)
          THEN AppendUserPrompt(TakeQueued(d), NextQueued(d))
     ELSE IF b = None THEN [d EXCEPT !.active = None]
     ELSE SetTurnStatus(d, b, "running")

EndAgentAttempt(c, willRetry) ==
  IF c.failing = None THEN c
  ELSE IF willRetry THEN SetTurnStatus(FinalizeTools(c), c.failing, "running")
  ELSE [SetTurnStatus(FinalizeTools(c), c.failing, "error") EXCEPT !.failing = None]

SettleAgentTurn(c) ==
  LET d == FinalizeTools(c)
      ended == IF c.active = None \/ ~IsRunning(c, c.active) THEN d
               ELSE SetTurnStatus(d, c.active,
                      IF c.failing = c.active THEN "error" ELSE "completed")
  IN [ended EXCEPT !.recovering = FALSE, !.failing = None, !.active = None, !.stream = 0]

MarkEligible(c, t) ==
  IF Contains(c.eligible, t) THEN c ELSE [c EXCEPT !.eligible = Append(@, t)]

\* The turn shows a prompt whose message Pi has not emitted yet.
AwaitsUserMessage(c, t) ==
  /\ t # None
  /\ TurnOf(c, t).user # 0
  /\ TurnOf(c, t).source = 0
  /\ ~Contains(c.eligible, t)

\* The turn of a message out of Pi's queue closes the one before it.
Deliver(c, turn) ==
  LET d == IF IsRunning(c, ActiveTurn(c)) THEN SetTurnStatus(c, c.active, "completed") ELSE c
  IN MarkEligible([StartTurn(d, turn) EXCEPT !.stream = 0], turn.id)

\* message_start of user message p: the four rules, in the order they apply.
UserMessage(c, p) ==
  LET a == ActiveTurn(c)
  IN IF c.recovering
     THEN IF AwaitsUserMessage(c, a)
          THEN MarkEligible(ReplaceTurn(c, [TurnOf(c, a) EXCEPT !.user = p]), a)
          ELSE Deliver(TakeQueued(c), NewTurn(<<"delivered", p>>, p, 0))
     ELSE IF AwaitsUserMessage(c, a) THEN MarkEligible(c, a)
     ELSE IF HasQueued(c)
          THEN Deliver(TakeQueued(c), NewTurn(<<"prompt", NextQueued(c)>>, NextQueued(c), 0))
     ELSE IF a = None \/ TurnOf(c, a).user = 0 THEN c
     ELSE MarkEligible(c, a)

\* The turn live work goes to; work of no turn opens one without a prompt.
EnsureLiveTurn(c, m) ==
  IF ActiveTurn(c) # None THEN c ELSE StartTurn(c, NewTurn(<<"orphan", m>>, 0, 0))

\* The status of the turn after an assistant message in it.
AfterMessage(c, t, phase, stop) ==
  CASE phase = "start"   -> SetTurnStatus(c, t, "running")
    [] stop = "error"    -> [SetTurnStatus(c, t, "running") EXCEPT !.failing = t]
    [] stop = "aborted"  -> [SetTurnStatus(c, t, "aborted") EXCEPT !.failing = None]
    [] stop = "toolUse"  -> c
    [] OTHER             -> [SetTurnStatus(c, t, "completed") EXCEPT !.failing = None]

\* An end that is not the end of the message being assembled is ignored.
AssistantMessage(c, phase, e) ==
  LET adapted == [c EXCEPT !.stream = IF phase = "start" THEN e.key ELSE 0]
      d == EnsureLiveTurn(adapted, e.m)
      st == IF phase = "start" THEN "streaming" ELSE MessageStatus(e.stop)
      acts == Activities(LiveView("text", e.key), e.m,
                         IF phase = "start" THEN "" ELSE e.stop, st)
  IN IF phase = "end" /\ c.stream \notin {0, e.key} THEN c
     ELSE IF Claimed(c, "text", e.key) # {} THEN adapted
     ELSE AfterMessage(PlaceLiveAssistant(d, e.key, d.active, acts), d.active, phase, e.stop)

ToolEvent(c, m, st) ==
  LET d == IF HasTool(c, m) THEN c ELSE EnsureLiveTurn(c, m)
      t == ActiveTurn(d)
  IN UpsertTool([d EXCEPT !.active = IF st = "running" /\ t # None THEN t ELSE @],
                "live", t, m, st)

LiveCompaction(c, e) ==
  LET d == IF e.willRetry /\ c.active # None THEN SetTurnStatus(c, c.active, "running") ELSE c
  IN PlaceLiveCompaction(d, e.key, c.active, e.m)

ApplyEvent(c, e) ==
  CASE e.t = "agent_start"      -> StartAgentTurn(c)
    [] e.t = "agent_end"        -> EndAgentAttempt(c, e.willRetry)
    [] e.t = "agent_settled"    -> SettleAgentTurn(c)
    [] e.t = "user_start"       -> UserMessage(c, e.key)
    [] e.t = "assistant_start"  -> AssistantMessage(c, "start", e)
    [] e.t = "assistant_end"    -> AssistantMessage(c, "end", e)
    [] e.t = "tool_start"       -> ToolEvent(c, e.m, "running")
    [] e.t = "tool_end"         -> ToolEvent(c, e.m, "complete")
    [] e.t = "custom_end"       -> PlaceLiveCustom(c, c.active, e.m)
    [] e.t = "entry_appended"   -> IF e.id \in c.known THEN c
                                   ELSE PlaceAppendedCustom(c, e.id, c.active, e.m)
    [] e.t = "auto_retry_start" -> IF c.active = None THEN c
                                   ELSE SetTurnStatus(c, c.active, "running")
    [] e.t = "compaction_end"   -> LiveCompaction(c, e)

(***************************************************************************)
(* Session entries                                                         *)
(***************************************************************************)
\* (Mutant) A turn that may be continued is closed by any reconciliation.
CompletePersistedTurn_Eager(c, force) ==
  LET d == IF HasTurn(c, c.pt) /\ IsRunning(c, c.pt)
           THEN SetTurnStatus(c, c.pt, IF c.awaiting THEN "error" ELSE "completed") ELSE c
  IN IF c.pt = None THEN c ELSE [d EXCEPT !.pt = None, !.awaiting = FALSE]

\* Unless forced, a turn that still runs, or may be continued, stays open.
CompletePersistedTurn(c, force) ==
  LET open == \/ c.pt = None
              \/ ~force /\ IsRunning(c, ActiveTurn(c))
              \/ ~force /\ c.awaiting /\ HasTurn(c, c.pt) /\ TurnOf(c, c.pt).st # "error"
      d == IF HasTurn(c, c.pt) /\ IsRunning(c, c.pt)
           THEN SetTurnStatus(c, c.pt, IF c.awaiting THEN "error" ELSE "completed") ELSE c
  IN IF open THEN c ELSE [d EXCEPT !.pt = None, !.awaiting = FALSE]

\* Live turns waiting for their entry; those replaced meanwhile are skipped.
Adoptable(c, t) == HasTurn(c, t) /\ TurnOf(c, t).user # 0 /\ TurnOf(c, t).source = 0

\* (Mutant) Entries pair with live turns from the last one back.
PersistUser_Newest(c, e) ==
  LET i == SelectLastInSeq(c.eligible, LAMBDA t : Adoptable(c, t))
      t == c.eligible[i]
      own == [NewTurn(<<"entry", e.id>>, e.key, e.id) EXCEPT !.source = e.id]
  IN IF i = 0 THEN [Append1(c, own) EXCEPT !.pt = own.id, !.awaiting = FALSE]
     ELSE [MoveToEnd([c EXCEPT !.eligible = SubSeq(@, 1, i - 1)],
                     [TurnOf(c, t) EXCEPT !.source = e.id])
             EXCEPT !.pt = t, !.awaiting = FALSE]

PersistUser(c, e) ==
  LET i == SelectInSeq(c.eligible, LAMBDA t : Adoptable(c, t))
      t == c.eligible[i]
      rest == [c EXCEPT !.eligible = IF i = 0 THEN <<>> ELSE SubSeq(@, i + 1, Len(@))]
      own == [NewTurn(<<"entry", e.id>>, e.key, e.id) EXCEPT !.source = e.id]
  IN IF i = 0 THEN [Append1(rest, own) EXCEPT !.pt = own.id, !.awaiting = FALSE]
     ELSE [MoveToEnd(rest, [TurnOf(c, t) EXCEPT !.source = e.id])
             EXCEPT !.pt = t, !.awaiting = FALSE]

WithPersistedTurn(c, e) ==
  IF c.pt # None THEN c
  ELSE [Append1(c, NewTurn(<<"entry", e.id>>, 0, 0)) EXCEPT
          !.pt = <<"entry", e.id>>, !.awaiting = FALSE]

PersistAssistant(c, e) ==
  LET d == WithPersistedTurn(c, e)
      st == MessageStatus(e.stop)
      view == PersistedView(d, "text", e.key, e.id)
      placed == PlacePersistedAssistant(d, e.key, e.id, d.pt, Activities(view, e.m, e.stop, st))
  IN CASE e.stop = "error"   -> [placed EXCEPT !.awaiting = TRUE]
       [] e.stop = "toolUse" -> placed
       [] OTHER -> [SetTurnStatus(placed, d.pt, IF st = "complete" THEN "completed" ELSE st)
                      EXCEPT !.pt = None, !.awaiting = FALSE]

PersistTool(c, e) ==
  LET d == WithPersistedTurn(c, e) IN UpsertTool(d, "persisted", d.pt, e.m, "complete")

ProjectEntry(c, e) ==
  CASE e.kind = "user"       -> PersistUser(CompletePersistedTurn(c, TRUE), e)
    [] e.kind = "assistant"  -> PersistAssistant(c, e)
    [] e.kind = "tool"       -> PersistTool(c, e)
    [] e.kind = "compaction" ->
         PlacePersistedCompaction(c, e.key, e.id, IF c.awaiting THEN c.pt ELSE None, e.m)
    [] e.kind = "custom"     -> PlacePersistedCustom(c, e.id, c.pt, e.m)

ProjectEntries(c, entries) ==
  FoldLeft(LAMBDA d, e : IF e.id \in d.known THEN d
                         ELSE [ProjectEntry(d, e) EXCEPT !.known = @ \cup {e.id}],
           c, entries)

\* (Mutant) A reload forgets to leave the live turn.
ReplaceEntries_KeepsLive(c, entries) ==
  LET fresh == [EmptyConversation EXCEPT !.steers = c.steers, !.follows = c.follows,
                                         !.recovering = c.recovering, !.active = c.active]
  IN FinalizeTools(CompletePersistedTurn(ProjectEntries(fresh, entries), TRUE))

\* The whole active path, shown afresh; only the local queues live on.
ReplaceEntries(c, entries) ==
  LET fresh == [EmptyConversation EXCEPT !.steers = c.steers, !.follows = c.follows,
                                         !.recovering = c.recovering]
  IN FinalizeTools(CompletePersistedTurn(ProjectEntries(fresh, entries), TRUE))

NewEntries(c, entries) == SelectSeq(entries, LAMBDA e : e.id \notin c.known)

MustReload(c, entries) == Ambiguous(c, NewEntries(c, entries))

ReconcileEntries(c, entries) == CompletePersistedTurn(ProjectEntries(c, entries), FALSE)
================================================================================
