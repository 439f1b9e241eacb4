----------------------------- MODULE ResumeFlow -----------------------------
(* Resuming a saved session in the Desktop: the one flow and what its overlay *)
(* shows (DesktopResume.ts, ResumeOverlay.svelte), the one dialog of the host *)
(* that is open at a time (dialogs.ts), and the picker between them           *)
(* (SessionCatalogPicker.ts).                                                 *)
EXTENDS Naturals, FiniteSets

CONSTANTS MaxFlows,       \* bounds the flows that are begun
          MaxQuestions,   \* bounds the dialogs that are opened
          SavedSessions   \* the sessions that can be chosen
ASSUME ResumeAssumption ==
    /\ MaxFlows \in Nat /\ MaxQuestions \in Nat /\ IsFiniteSet(SavedSessions)
    /\ SavedSessions \cap {"none", "new", "finding", "picking", "browsing", "confirming", "done",
                          "cancel", "browse", "unreadable", "elsewhere"} = {}

VARIABLES
    overlay,    \* the view of the flow, the same for the host and the page
    flows,      \* the work of each flow
    dialogOpen, \* the pending dialog and the flow it belongs to
    savedSessions, \* what the registry says of each session
    resumeShut  \* whether the window is closed

resumeVars == <<overlay, flows, dialogOpen, savedSessions, resumeShut>>

FlowIds == 1..MaxFlows
NoFlow == 0
NoDialog == 0
Hidden0 == [id |-> NoFlow, phase |-> "none", visible |-> FALSE, selection |-> "none",
            picker |-> NoDialog, session |-> "none"]
FlowsPending == {id \in FlowIds : flows[id] \notin {"new", "done"}}
NothingOpen == [id |-> NoDialog, flow |-> NoFlow, asked |-> dialogOpen.asked]

-----------------------------------------------------------------------------
(* The view.                                                                   *)
SetView(view) == overlay' = IF resumeShut THEN overlay ELSE view

Lost_Alive(session) == session.status \in {"gone", "failed"} \/ session.history = "failed"
Lost(session) == session.status \in {"gone", "failed", "stopped"} \/ session.history = "failed"

\* What the registry says of the session decides once the flow has named it.
RefreshView(view, sessions) ==
    IF view.session = "none" \/ view.phase = "failed" THEN view
    ELSE LET session == sessions[view.session] IN
         IF Lost(session) THEN [view EXCEPT !.phase = "failed"]
         ELSE IF session.status = "starting" THEN [view EXCEPT !.phase = "opening"]
         ELSE IF session.history \in {"loaded", "deferred"} THEN Hidden0
         ELSE [view EXCEPT !.phase = "loading"]

\* The flow waits for the user; only what it chose ends the wait.
Choosing(view, selection) == [view EXCEPT !.phase = "choosing", !.selection = selection, !.picker = NoDialog]
FlowChosen(view) == [view EXCEPT !.phase = "opening", !.selection = "none", !.picker = NoDialog]
DialogShown(view, flow, id) ==
    IF flow = view.id /\ view.phase = "choosing" /\ view.selection = "session" THEN [view EXCEPT !.picker = id] ELSE view

\* The work of a flow is over: with a session, with none, or with an error.
FlowEnds(id, view) == flows' = [flows EXCEPT ![id] = "done"] /\ SetView(IF overlay.id = id THEN view ELSE overlay)
EndsWithout(id) == FlowEnds(id, Hidden0)
Fails(id) == FlowEnds(id, [overlay EXCEPT !.phase = "failed"])

-----------------------------------------------------------------------------
(* The user.                                                                   *)
\* A flow that has not failed is shown again; otherwise a new one begins.
ResumeSession(id) ==
    /\ ~resumeShut
    /\ IF overlay.id # NoFlow /\ overlay.phase # "failed"
       THEN SetView([overlay EXCEPT !.visible = TRUE]) /\ UNCHANGED flows
       ELSE /\ flows[id] = "new" /\ \A other \in 1..(id - 1) : flows[other] # "new"
            /\ SetView([Hidden0 EXCEPT !.id = id, !.phase = "finding", !.visible = TRUE])
            /\ flows' = [flows EXCEPT ![id] = "finding"]
    /\ UNCHANGED <<dialogOpen, savedSessions, resumeShut>>

\* The flow is still under way while another Project or session is in front.
HideOverlay ==
    /\ overlay.visible
    /\ SetView([overlay EXCEPT !.visible = FALSE])
    /\ UNCHANGED <<flows, dialogOpen, savedSessions, resumeShut>>
ShowOverlay(id) ==
    /\ overlay.id = id /\ id # NoFlow
    /\ SetView([overlay EXCEPT !.visible = TRUE])
    /\ UNCHANGED <<flows, dialogOpen, savedSessions, resumeShut>>
DismissOverlay(id) ==
    /\ overlay.id = id /\ overlay.phase = "failed"
    /\ SetView(Hidden0)
    /\ UNCHANGED <<flows, dialogOpen, savedSessions, resumeShut>>

\* Which dialog the page shows, and where.
InOverlay == dialogOpen.id # NoDialog /\ dialogOpen.id = overlay.picker
OverPage == dialogOpen.id # NoDialog /\ dialogOpen.id # overlay.picker
CanAnswer == OverPage \/ (InOverlay /\ overlay.visible)

-----------------------------------------------------------------------------
(* Dialogs.                                                                    *)
\* One at a time: the second that is asked for is refused.
AskDialog(flow) == dialogOpen' = [id |-> dialogOpen.asked + 1, flow |-> flow, asked |-> dialogOpen.asked + 1]

\* A question of something else than this flow.
AskElsewhere ==
    /\ ~resumeShut /\ dialogOpen.id = NoDialog /\ dialogOpen.asked < MaxQuestions
    /\ AskDialog(NoFlow)
    /\ SetView(DialogShown(overlay, NoFlow, dialogOpen.asked + 1))
    /\ UNCHANGED <<flows, savedSessions, resumeShut>>
AnswerElsewhere ==
    /\ CanAnswer /\ dialogOpen.flow = NoFlow
    /\ dialogOpen' = NothingOpen
    /\ UNCHANGED <<overlay, flows, savedSessions, resumeShut>>

-----------------------------------------------------------------------------
(* The work of a flow: find, pick, browse, confirm, open.                      *)
\* The list is offered, with a file to browse for even when it is empty.
FlowDiscovered(id, found) ==
    /\ flows[id] = "finding" /\ ~resumeShut
    /\ dialogOpen.asked < MaxQuestions
    /\ IF ~found \/ dialogOpen.id # NoDialog
       THEN Fails(id) /\ UNCHANGED dialogOpen
       ELSE /\ flows' = [flows EXCEPT ![id] = "picking"]
            /\ AskDialog(id)
            /\ SetView(DialogShown(Choosing(overlay, "session"), id, dialogOpen.asked + 1))
    /\ UNCHANGED <<savedSessions, resumeShut>>

\* A session that is closed or has stopped starts; one that has failed does not.
OpenChosen(id, s) ==
    /\ flows' = [flows EXCEPT ![id] = s]
    /\ IF savedSessions[s].status \in {"gone", "stopped"}
       THEN \E history \in {"loading", "loaded"} :
                savedSessions' = [savedSessions EXCEPT ![s] = [status |-> "starting", history |-> history]]
       ELSE UNCHANGED savedSessions

\* What is picked counts for the dialog it was picked in.
Picked(id, choice) ==
    /\ flows[id] = "picking" /\ dialogOpen.flow = id /\ CanAnswer
    /\ dialogOpen' = NothingOpen
    /\ CASE choice = "cancel" -> EndsWithout(id) /\ UNCHANGED savedSessions
         [] choice = "browse" -> /\ flows' = [flows EXCEPT ![id] = "browsing"]
                                 /\ SetView(Choosing(FlowChosen(overlay), "file"))
                                 /\ UNCHANGED savedSessions
         [] OTHER -> OpenChosen(id, choice) /\ SetView(FlowChosen(overlay))
    /\ UNCHANGED resumeShut

\* The file dialog of the system: no file, one that is no session, one of
\* another worktree, or one that can be opened.
Browsed(id, file) ==
    /\ flows[id] = "browsing" /\ ~resumeShut
    /\ CASE file = "cancel" -> EndsWithout(id) /\ UNCHANGED savedSessions
         [] file = "unreadable" -> Fails(id) /\ UNCHANGED savedSessions
         [] file = "elsewhere" -> /\ flows' = [flows EXCEPT ![id] = "confirming"]
                                  /\ SetView(Choosing(FlowChosen(overlay), "confirmation"))
                                  /\ UNCHANGED savedSessions
         [] OTHER -> OpenChosen(id, file) /\ SetView(FlowChosen(overlay))
    /\ UNCHANGED <<dialogOpen, resumeShut>>

\* Either way nothing is resumed; the folder may be opened instead, or fail to be.
FlowConfirmed(id, opened) ==
    /\ flows[id] = "confirming" /\ ~resumeShut
    /\ IF opened THEN EndsWithout(id) ELSE Fails(id)
    /\ UNCHANGED <<dialogOpen, savedSessions, resumeShut>>

FlowOpened(id) ==
    /\ flows[id] \in SavedSessions /\ ~resumeShut
    /\ LET s == flows[id] IN
       \/ savedSessions[s].status # "starting" /\ FlowEnds(id, RefreshView([overlay EXCEPT !.phase = "opening", !.session = s], savedSessions))
       \/ Fails(id)
    /\ UNCHANGED <<dialogOpen, savedSessions, resumeShut>>

-----------------------------------------------------------------------------
(* The registry.                                                               *)
Changes(session) ==
    CASE session.status = "starting" -> {[session EXCEPT !.status = s] : s \in {"ready", "failed", "gone"}}
      [] session.status = "ready" ->
           {[session EXCEPT !.status = s] : s \in {"failed", "stopped", "gone"}}
           \cup (IF session.history \in {"loading", "deferred"}
                  THEN {[session EXCEPT !.history = h] : h \in {"loaded", "deferred", "failed"}} ELSE {})
      [] OTHER -> {}

\* Every change of the registry refreshes the view.
RegistryChanged(s) ==
    /\ ~resumeShut
    /\ \E session \in Changes(savedSessions[s]) :
        /\ savedSessions' = [savedSessions EXCEPT ![s] = session]
        /\ SetView(RefreshView(overlay, savedSessions'))
    /\ UNCHANGED <<flows, dialogOpen, resumeShut>>

\* The window closes: the view goes first, then the dialog is cancelled.
DisposeResume ==
    /\ ~resumeShut /\ resumeShut' = TRUE
    /\ overlay' = Hidden0 /\ dialogOpen' = NothingOpen
    /\ UNCHANGED <<flows, savedSessions>>

-----------------------------------------------------------------------------
ResumeStarts ==
    /\ overlay = Hidden0 /\ flows = [id \in FlowIds |-> "new"]
    /\ dialogOpen = [id |-> NoDialog, flow |-> NoFlow, asked |-> 0]
    /\ savedSessions \in [SavedSessions -> {[status |-> "gone", history |-> "loading"], [status |-> "ready", history |-> "loaded"]}]
    /\ resumeShut = FALSE

ResumeSteps ==
    \/ \E id \in FlowIds : ResumeSession(id) \/ ShowOverlay(id) \/ DismissOverlay(id) \/ FlowOpened(id)
    \/ \E id \in FlowIds, yes \in BOOLEAN : FlowDiscovered(id, yes) \/ FlowConfirmed(id, yes)
    \/ \E id \in FlowIds, choice \in SavedSessions \cup {"cancel", "browse"} : Picked(id, choice)
    \/ \E id \in FlowIds, file \in SavedSessions \cup {"cancel", "unreadable", "elsewhere"} : Browsed(id, file)
    \/ HideOverlay \/ AskElsewhere \/ AnswerElsewhere \/ DisposeResume
    \/ \E s \in SavedSessions : RegistryChanged(s)

ResumeTypes ==
    /\ overlay.id \in FlowIds \cup {NoFlow}
    /\ overlay.phase \in {"none", "finding", "choosing", "opening", "loading", "failed"}
    /\ overlay.selection \in {"none", "session", "file", "confirmation"}
    /\ flows \in [FlowIds -> {"new", "finding", "picking", "browsing", "confirming", "done"} \cup SavedSessions]
    /\ dialogOpen.asked \in 0..MaxQuestions

\* The work that is under way is the shown flow's, and there is one such work at
\* most: a second Resume joins it (DesktopResume.ts:30).
OneFlow == ~resumeShut => \A id \in FlowsPending : overlay.id = id /\ overlay.phase # "failed"

\* The overlay never waits for something that cannot come: its work goes on, or
\* the session it names is starting or loads its history (DesktopResume.ts:89).
NeverStuck ==
    overlay.phase \in {"finding", "choosing", "opening", "loading"} =>
        \/ overlay.id \in FlowsPending
        \/ /\ overlay.session # "none"
           /\ LET session == savedSessions[overlay.session] IN
              \/ session.status = "starting" /\ overlay.phase = "opening"
              \/ session.status = "ready" /\ session.history = "loading" /\ overlay.phase = "loading"

\* The flow's own list is in the overlay, and nothing else is: a question of
\* something else stays a dialog of its own (DesktopResume.ts:16).
OwnPicker ==
    dialogOpen.id # NoDialog => (InOverlay <=> dialogOpen.flow \in FlowsPending)

\* One flow, whose overlay says what it waits for until that has come.
ResumeHonest == OneFlow /\ NeverStuck /\ OwnPicker
=============================================================================
