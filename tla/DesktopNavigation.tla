-------------------------- MODULE DesktopNavigation --------------------------
(***************************************************************************)
(* Projects and sessions of FrostPi Desktop: DesktopProjects, Desktop-     *)
(* ProjectNavigation and the admission of session openings in create-      *)
(* DesktopBackend, over the collection of SessionRegistry they share.      *)
(*                                                                         *)
(* desk is the synchronous state of the backend; calls are the user's      *)
(* operations suspended at an await, echoes the restorations refresh()     *)
(* started in the background. An action is what runs between two awaits.   *)
(***************************************************************************)
EXTENDS Naturals, Sequences, FiniteSets, SequencesExt

CONSTANTS Roots,        \* the Projects that may ever be registered
          DeskSessions, \* the session ids that may ever be created
          Callers,      \* bound: user operations under way at once
          Wishes,       \* bound: how often the user asks for what, in one run or another
          NoOne         \* no Project, no session

ASSUME NavigationAssumption == /\ NoOne \notin Roots \cup DeskSessions
                               /\ IsFiniteSet(Roots) /\ IsFiniteSet(DeskSessions)

VARIABLES desk, calls, echoes, deskOrigin, dropped, asked

deskVars == <<desk, calls, echoes, deskOrigin, dropped, asked>>

Free == [at |-> "free", kind |-> "none", project |-> NoOne, session |-> NoOne,
         victim |-> NoOne, ids |-> {}, fresh |-> TRUE]

Has(d, s) == s \in ToSet(d.open)
Listed(d, p) == p \in ToSet(d.roots)
OwnerOf(d, s) == IF s = NoOne THEN NoOne ELSE d.owner[s]

(* What the backend does in one synchronous step. *)

\* #rememberActive: the foreground of the selected Project is its last
\* session, and is no longer discarded when another takes its place.
Remember(d) ==
    IF d.front # NoOne /\ d.selected # NoOne /\ OwnerOf(d, d.front) = d.selected
    THEN [d EXCEPT !.last[d.selected] = d.front,
                   !.kept = IF d.front \in d.temps THEN @ \cup {d.front} ELSE @]
    ELSE d

Claim(d, s, p) ==
    LET previous == d.owner[s]
        freed == IF previous \notin {NoOne, p} /\ d.last[previous] = s
                 THEN [d.last EXCEPT ![previous] = NoOne] ELSE d.last IN
    IF Listed(d, p) THEN [d EXCEPT !.owner[s] = p, !.last = [freed EXCEPT ![p] = s]] ELSE d

Prune(d) ==
    LET owner == [s \in DeskSessions |->
                    IF Has(d, s) /\ Listed(d, d.owner[s]) THEN d.owner[s] ELSE NoOne] IN
    [d EXCEPT !.owner = owner,
              !.last = [p \in Roots |->
                          IF d.last[p] # NoOne /\ owner[d.last[p]] = p THEN d.last[p] ELSE NoOne]]

\* clearActiveSession and activateSession refuse while a fork is under way.
Forking(d) == d.fork # NoOne

\* Mutant: what finished late is remembered only.
Refresh_Stays(d) == Remember([Prune(d) EXCEPT !.failed = FALSE])

\* refresh(): a foreground of another Project is cleared at once; what the
\* selected Project showed last is restored behind the awaits.
Refresh(d) ==
    LET p == [Prune(d) EXCEPT !.failed = FALSE] IN
    IF p.front # NoOne /\ OwnerOf(p, p.front) # p.selected
    THEN IF Forking(p) THEN p
         ELSE [p EXCEPT !.front = NoOne,
                        !.echo = {[target |-> IF p.selected = NoOne THEN NoOne ELSE p.last[p.selected]]}]
    ELSE Remember(p)

\* The step leaves desk as d; an echo refresh() asked for starts.
Becomes(d, known) ==
    /\ desk' = [d EXCEPT !.echo = {}]
    /\ echoes' = known \cup {[target |-> e.target, at |-> "clearing", fresh |-> TRUE, victim |-> NoOne] :
                               e \in d.echo}

\* ++#selectionRevision
Stale(c) == IF c.at = "clearing" THEN [c EXCEPT !.fresh = FALSE] ELSE c
NewRevision == {Stale(e) : e \in echoes}
OldCalls(known) == [c \in Callers |-> Stale(known[c])]

\* #removeSession, and closeSession's choice of another foreground.
Drop(d, s) == [d EXCEPT !.open = Remove(@, s), !.temps = @ \ {s}, !.kept = @ \ {s}]
Fallback(d, s) == IF d.front = s THEN [d EXCEPT !.front = IF d.open = <<>> THEN NoOne ELSE Last(d.open)] ELSE d

\* #discardActiveTemporarySession: what it would dispose of.
Victim(d) == IF d.front \in d.temps \ d.kept THEN d.front ELSE NoOne
\* ... and what it does after that await, whatever the foreground is by then.
Discard(d, v) == IF v = NoOne THEN d ELSE [Drop(d, v) EXCEPT !.front = NoOne]
\* A new session that came to the front and is not saved so is not kept yet:
\* it may be discarded still.
Unsaved == \/ \E c \in Callers : calls[c].at \in {"saving", "announcing"}
           \/ \E e \in echoes : e.at = "saving"
Discards(v) == dropped' = IF v = NoOne \/ Unsaved THEN dropped ELSE dropped \cup {v}

(* Operations of the user. *)

Go(c, call) == calls' = [calls EXCEPT ![c] = call]
Done(c) == Go(c, Free)

Removing == {calls[c].project : c \in {x \in Callers : calls[x].kind = "remove"}}

\* One opening has ended: run()'s finally, and the count of runSessionOpening.
EndOpening(d, p) == Refresh([d EXCEPT !.opening[p] = @ - 1, !.openings = @ - 1])

\* New or Resume in the selected Project.
StartOpening(c, kind) ==
    LET p == desk.selected IN
    /\ calls[c] = Free /\ ~desk.closedForUpdate
    /\ p # NoOne /\ p \notin Removing /\ ~Forking(desk)
    /\ ~\E x \in Callers : calls[x].kind = kind
    /\ Becomes([Remember(desk) EXCEPT !.opening[p] = @ + 1, !.openings = @ + 1], echoes)
    /\ Go(c, [Free EXCEPT !.at = "choosing", !.kind = kind, !.project = p])
    /\ UNCHANGED <<deskOrigin, dropped>>

GiveUp(c) ==
    /\ calls[c].at \in {"choosing", "starting"}
    /\ Becomes(EndOpening(desk, calls[c].project), echoes) /\ Done(c)
    /\ UNCHANGED <<deskOrigin, dropped>>

\* Mutant: a session opened now belongs to the Project selected now.
Create_Selected(d, c, s) ==
    LET call == calls[c]
        d1 == [d EXCEPT !.open = Append(@, s), !.born = @ \cup {s}, !.front = s,
                        !.temps = IF call.kind = "new" THEN @ \cup {s} ELSE @] IN
    /\ Becomes(Refresh(Claim(d1, s, d.selected)), echoes)
    /\ Go(c, [call EXCEPT !.at = "saving", !.session = s, !.victim = NoOne])
    /\ deskOrigin' = [deskOrigin EXCEPT ![s] = call.project]

\* #createSessionInDirectory, and #openSession of a file not open yet.
Create(d, c, s) ==
    LET call == calls[c]
        d1 == [d EXCEPT !.open = Append(@, s), !.born = @ \cup {s}, !.front = s,
                        !.temps = IF call.kind = "new" THEN @ \cup {s} ELSE @] IN
    /\ Becomes(Refresh(Claim(d1, s, call.project)), echoes)
    /\ Go(c, [call EXCEPT !.at = "saving", !.session = s, !.victim = NoOne])
    /\ deskOrigin' = [deskOrigin EXCEPT ![s] = call.project]

Chosen(c, s) ==
    LET v == Victim(desk) IN
    /\ calls[c].at = "choosing" /\ s \notin desk.born
    /\ calls[c].kind = "resume" => ~Forking(desk)
    /\ IF v = NoOne
         THEN Create(desk, c, s)
         ELSE /\ Go(c, [calls[c] EXCEPT !.at = "discarding", !.victim = v, !.session = s])
              /\ UNCHANGED <<desk, echoes, deskOrigin>>
    /\ Discards(v)

Discarded(c) ==
    LET v == calls[c].victim
        s == calls[c].session IN
    /\ calls[c].at = "discarding" /\ s \notin desk.born
    /\ Create(Discard(desk, v), c, s)
    /\ UNCHANGED dropped

\* Resume of a session that is open already: it moves to this Project. A new
\* one has no file to be found by before its start has ended.
ChosenOpen(c, s) ==
    LET call == calls[c]
        d == Refresh(Claim(desk, s, call.project))
        v == IF s = d.front THEN NoOne ELSE Victim(d) IN
    /\ call.at = "choosing" /\ call.kind = "resume" /\ ~Forking(desk)
    /\ Has(desk, s) /\ s \notin desk.temps
    /\ ~\E x \in Callers : calls[x].kind = "new" /\ calls[x].session = s
    /\ Becomes(d, echoes)
    /\ Go(c, [call EXCEPT !.at = "activating", !.session = s, !.victim = v])
    /\ deskOrigin' = [deskOrigin EXCEPT ![s] = call.project]
    /\ Discards(v)

\* activateSession after its discard; it fails when the session is gone or a
\* fork began.
Activated(c) ==
    LET call == calls[c]
        d == Discard(desk, call.victim) IN
    /\ call.at = "activating"
    /\ IF Has(d, call.session) /\ ~Forking(d)
         THEN /\ Becomes([d EXCEPT !.front = call.session], echoes)
              /\ Go(c, [call EXCEPT !.at = "saving", !.victim = NoOne])
         ELSE IF call.kind = "resume"
           THEN Becomes(EndOpening(d, call.project), echoes) /\ Done(c)
           ELSE Becomes(d, echoes) /\ Done(c)
    /\ UNCHANGED <<deskOrigin, dropped>>

\* The collection is saved: the change is announced, and the session starts.
Saved(c) ==
    LET call == calls[c] IN
    /\ call.at = "saving" /\ Becomes(Refresh(desk), echoes)
    /\ IF call.kind \in {"new", "resume"} THEN Go(c, [call EXCEPT !.at = "starting"]) ELSE Done(c)
    /\ UNCHANGED <<deskOrigin, dropped>>

\* run() claims what was opened once more.
Opened(c) ==
    LET call == calls[c] IN
    /\ call.at = "starting" /\ Done(c)
    /\ Becomes(EndOpening(Claim(desk, call.session, call.project), call.project), echoes)
    /\ UNCHANGED <<deskOrigin, dropped>>

\* selectProject, of a Project or of one of its sessions.
Select(c, p, s) ==
    LET d == Remember(desk) IN
    /\ calls[c] = Free /\ Listed(desk, p) /\ p \notin Removing
    /\ s # NoOne => desk.owner[s] = p /\ Has(desk, s)
    /\ ~(desk.selected = p /\ desk.front # NoOne /\ desk.owner[desk.front] = p /\ s \in {NoOne, desk.front})
    /\ IF Forking(desk)
         THEN calls' = OldCalls(calls)
         ELSE calls' = [OldCalls(calls) EXCEPT ![c] =
                          [Free EXCEPT !.at = "clearing", !.kind = "select", !.project = p, !.session = s]]
    /\ Becomes(IF Forking(d) THEN d ELSE [d EXCEPT !.front = NoOne], NewRevision)
    /\ UNCHANGED <<deskOrigin, dropped>>

FirstOf(d, p) ==
    LET of == SelectSeq(d.open, LAMBDA s : d.owner[s] = p) IN IF of = <<>> THEN NoOne ELSE of[1]

\* clearActiveSession has saved and announced; only the newest selection goes
\* on. One whose session is gone by now fails with the anchor moved already.
Cleared(c) ==
    LET call == calls[c]
        p == call.project
        d == Refresh(desk)
        chosen == [d EXCEPT !.selected = p]
        target == CASE call.session # NoOne -> call.session
                    [] d.last[p] # NoOne -> d.last[p]
                    [] OTHER -> FirstOf(d, p)
        v == IF target = d.front THEN NoOne ELSE Victim(d) IN
    /\ call.at = "clearing"
    /\ UNCHANGED deskOrigin
    /\ IF ~call.fresh \/ ~Listed(d, p)
         THEN Becomes(d, echoes) /\ Done(c) /\ UNCHANGED dropped
         ELSE IF target = NoOne \/ Forking(d) \/ ~Has(d, target)
           THEN Becomes(IF target = NoOne THEN Refresh(chosen) ELSE [chosen EXCEPT !.failed = TRUE], echoes)
                /\ Done(c) /\ UNCHANGED dropped
           ELSE /\ Becomes(chosen, echoes)
                /\ Go(c, [call EXCEPT !.at = "activating", !.session = target, !.victim = v])
                /\ Discards(v)

\* The background continuation of refresh().
EchoCleared(e) ==
    LET d == Refresh(desk)
        rest == echoes \ {e}
        v == IF e.target = d.front THEN NoOne ELSE Victim(d) IN
    /\ e.at = "clearing"
    /\ IF e.fresh /\ e.target # NoOne /\ Has(d, e.target) /\ ~Forking(d)
         THEN Becomes(d, rest \cup {[e EXCEPT !.at = "activating", !.victim = v]}) /\ Discards(v)
         ELSE Becomes(d, rest) /\ UNCHANGED dropped
    /\ UNCHANGED <<calls, deskOrigin>>

EchoActivated(e) ==
    LET d == Discard(desk, e.victim) IN
    /\ e.at = "activating"
    /\ IF Has(d, e.target)
         THEN Becomes([d EXCEPT !.front = e.target], (echoes \ {e}) \cup {[e EXCEPT !.at = "saving", !.victim = NoOne]})
         ELSE Becomes(d, echoes \ {e})
    /\ UNCHANGED <<calls, deskOrigin, dropped>>

EchoSaved(e) ==
    /\ e.at = "saving" /\ Becomes(Refresh(desk), echoes \ {e})
    /\ UNCHANGED <<calls, deskOrigin, dropped>>

\* closeSession: confirmation and disposal, then the removal.
Close(c, s) ==
    /\ calls[c] = Free /\ Has(desk, s) /\ s \notin {desk.fork, desk.forked}
    /\ Go(c, [Free EXCEPT !.at = "closing", !.kind = "close", !.session = s])
    /\ UNCHANGED <<desk, echoes, deskOrigin, dropped>>

Closed(c) ==
    LET call == calls[c] IN
    /\ call.at = "closing" /\ Becomes(Fallback(Drop(desk, call.session), call.session), echoes)
    /\ Go(c, [call EXCEPT !.at = IF call.kind = "close" THEN "saving" ELSE "announcing"])
    /\ UNCHANGED <<deskOrigin, dropped>>

KeepOpen(c) ==
    /\ calls[c].at = "closing" /\ Done(c)
    /\ UNCHANGED <<desk, echoes, deskOrigin, dropped>>

\* The loop of removeProject up to its next await: the next of the sessions it
\* found after the confirmation, then the foreground and the list.
Emptying(c, call, d, base, known) ==
    LET p == call.project
        left == {s \in call.ids : d.owner[s] = p /\ Has(d, s)}
        next(at, s) == calls' = [base EXCEPT ![c] = [call EXCEPT !.at = at, !.session = s]]
        leave == calls' = [base EXCEPT ![c] = Free] IN
    \/ /\ Becomes(d, known)
       /\ \E s \in left : IF s \in {d.fork, d.forked} THEN leave ELSE next("closing", s)
    \/ /\ left = {} /\ d.selected = p /\ Forking(d)
       /\ leave /\ Becomes(d, known)
    \/ /\ left = {} /\ (d.selected = p => ~Forking(d))
       /\ next("unlisting", NoOne)
       /\ Becomes(IF d.selected = p THEN [d EXCEPT !.front = NoOne] ELSE d, known)

Mine(p) == {s \in DeskSessions : desk.owner[s] = p}
Confirmed(c, p) ==
    Emptying(c, [Free EXCEPT !.kind = "remove", !.project = p, !.ids = Mine(p)],
             desk, OldCalls(calls), NewRevision)

RemoveProject(c, p) ==
    /\ calls[c] = Free /\ Listed(desk, p) /\ p \notin Removing /\ desk.opening[p] = 0
    /\ IF Mine(p) = {} THEN Confirmed(c, p)
       ELSE /\ Go(c, [Free EXCEPT !.at = "confirming", !.kind = "remove", !.project = p])
            /\ UNCHANGED <<desk, echoes>>
    /\ UNCHANGED <<deskOrigin, dropped>>

RemoveDeclined(c) ==
    /\ calls[c].at = "confirming" /\ Done(c)
    /\ UNCHANGED <<desk, echoes, deskOrigin, dropped>>

RemoveConfirmed(c) ==
    /\ calls[c].at = "confirming" /\ Confirmed(c, calls[c].project)
    /\ UNCHANGED <<deskOrigin, dropped>>

Announced(c) ==
    /\ calls[c].at = "announcing"
    /\ Emptying(c, calls[c], Refresh(desk), calls, echoes)
    /\ UNCHANGED <<deskOrigin, dropped>>

Unlisted(c) ==
    LET p == calls[c].project
        d == IF desk.selected = p THEN Refresh(desk) ELSE desk IN
    /\ calls[c].at = "unlisting" /\ Done(c)
    /\ Becomes(Refresh([d EXCEPT !.roots = Remove(@, p), !.selected = IF @ = p THEN NoOne ELSE @]), echoes)
    /\ UNCHANGED <<deskOrigin, dropped>>

\* projects:add: a new Project, the first of which becomes the anchor; it is
\* selected then.
AddProject(p) ==
    /\ p \notin desk.known
    /\ desk' = [desk EXCEPT !.known = @ \cup {p}, !.roots = Append(@, p),
                            !.selected = IF @ = NoOne THEN p ELSE @]
    /\ UNCHANGED <<calls, echoes, deskOrigin, dropped>>

MoveProject(p, i) ==
    /\ Listed(desk, p) /\ i \in 1 .. Len(desk.roots) /\ desk.roots[i] # p
    /\ desk' = [desk EXCEPT !.roots = InsertAt(Remove(@, p), i, p)]
    /\ UNCHANGED <<calls, echoes, deskOrigin, dropped>>

\* Pi accepts the first prompt: the session is kept from now on.
FirstPrompt ==
    /\ desk.front \in desk.temps /\ desk.front # desk.forked
    /\ desk' = [desk EXCEPT !.temps = @ \ {desk.front}, !.kept = @ \ {desk.front}]
    /\ UNCHANGED <<calls, echoes, deskOrigin, dropped>>

(* A fork of the foreground session. *)

\* Closing and forking one session is the subject of SessionFork.
StartFork ==
    /\ desk.front # NoOne /\ desk.front \notin desk.temps /\ ~Forking(desk)
    /\ ~\E c \in Callers : calls[c].kind = "new" \/ (calls[c].at = "closing" /\ calls[c].session = desk.front)
    /\ desk' = [desk EXCEPT !.fork = desk.front]
    /\ UNCHANGED <<calls, echoes, deskOrigin, dropped>>

\* #replaceRuntimeWithFork: the runtime takes a new id, the original is
\* opened again behind it. removeProject does not look for one that comes
\* while it closes the sessions it found: strays.
CommitFork(s) ==
    LET from == desk.fork
        owner == OwnerOf(desk, from)
        d == [desk EXCEPT !.open = Remove(@, from) \o <<s, from>>, !.born = @ \cup {s},
                          !.temps = @ \cup {s}, !.forked = s, !.front = s,
                          !.strays = IF owner \in Removing THEN @ \cup {s} ELSE @] IN
    /\ Forking(desk) /\ desk.forked = NoOne /\ s \notin desk.born
    /\ Becomes(IF owner = NoOne THEN d
               ELSE Refresh([d EXCEPT !.owner[s] = owner, !.last[owner] = s]), echoes)
    /\ deskOrigin' = [deskOrigin EXCEPT ![s] = deskOrigin[from]]
    /\ UNCHANGED <<calls, dropped>>

EndFork ==
    /\ Forking(desk)
    /\ Becomes(Refresh([desk EXCEPT !.fork = NoOne, !.forked = NoOne]), echoes)
    /\ UNCHANGED <<calls, deskOrigin, dropped>>

\* #restoreOriginalAfterFork
UndoFork ==
    /\ desk.forked # NoOne
    /\ Becomes(Refresh([Drop(desk, desk.forked) EXCEPT !.front = desk.fork, !.fork = NoOne, !.forked = NoOne]), echoes)
    /\ UNCHANGED <<calls, deskOrigin, dropped>>

\* prepareUpdate: the check and the closing of admission are one step.
UpdateBlocked == desk.open # <<>> \/ desk.openings > 0

PrepareUpdate ==
    /\ ~UpdateBlocked /\ ~desk.closedForUpdate
    /\ desk' = [desk EXCEPT !.closedForUpdate = TRUE]
    /\ UNCHANGED <<calls, echoes, deskOrigin, dropped>>

(* Start. *)

\* initialize(): sessions saved without a Project go to the Project of their
\* directory, else to the selected one.
Initialize(d, cwdOf, restored) ==
    LET fallback == CASE d.selected # NoOne -> d.selected
                      [] d.roots # <<>> -> d.roots[1]
                      [] OTHER -> NoOne
        owner == [s \in DeskSessions |->
                    CASE ~Has(d, s) -> NoOne
                      [] Listed(d, d.owner[s]) -> d.owner[s]
                      [] Listed(d, cwdOf[s]) -> cwdOf[s]
                      [] OTHER -> fallback]
        p == Prune([d EXCEPT !.owner = owner])
        mine == OwnerOf(p, p.front) IN
    IF mine = NoOne THEN p
    ELSE LET q == [p EXCEPT !.last[mine] = p.front] IN
         IF ~restored THEN [q EXCEPT !.selected = mine]
         ELSE IF mine # p.selected THEN [q EXCEPT !.front = NoOne] ELSE q

NewDesk == [roots |-> <<>>, known |-> {}, selected |-> NoOne, owner |-> [s \in DeskSessions |-> NoOne],
            last |-> [p \in Roots |-> NoOne], open |-> <<>>, born |-> {}, temps |-> {}, kept |-> {},
            front |-> NoOne, opening |-> [p \in Roots |-> 0], openings |-> 0, echo |-> {},
            fork |-> NoOne, forked |-> NoOne, closedForUpdate |-> FALSE, failed |-> FALSE,
            strays |-> {}]

\* An orderly exit saves the sessions Pi knows, their Projects and the last of
\* each; the next start restores them.
Restart ==
    LET keep == {s \in ToSet(desk.open) : s \notin desk.temps}
        saved == [NewDesk EXCEPT !.roots = desk.roots, !.known = desk.known, !.selected = desk.selected,
                    !.born = desk.born, !.open = SelectSeq(desk.open, LAMBDA s : s \in keep),
                    !.owner = [s \in DeskSessions |-> IF s \in keep THEN desk.owner[s] ELSE NoOne],
                    !.last = [p \in Roots |-> IF desk.last[p] \in keep THEN desk.last[p] ELSE NoOne],
                    !.front = IF desk.front \in keep THEN desk.front ELSE NoOne] IN
    /\ ~Forking(desk)
    /\ desk' = Initialize(saved, [s \in DeskSessions |-> NoOne], TRUE)
    /\ calls' = [c \in Callers |-> Free] /\ echoes' = {}
    /\ deskOrigin' = [s \in DeskSessions |-> IF s \in keep /\ deskOrigin[s] = NoOne THEN desk'.owner[s] ELSE deskOrigin[s]]
    /\ UNCHANGED dropped

\* The first start over saved sessions that have no Project yet.
NavigationStarts ==
    \E roots \in {<<p>> : p \in Roots} \cup {<<p, q>> : p \in Roots, q \in Roots},
       s \in DeskSessions, cwd \in Roots, front, selected \in BOOLEAN :
        LET d == [NewDesk EXCEPT !.roots = roots, !.known = ToSet(roots),
                    !.selected = IF selected THEN roots[1] ELSE NoOne,
                    !.open = <<s>>, !.born = {s}, !.front = IF front THEN s ELSE NoOne] IN
        /\ IsInjective(roots) /\ s = 1 /\ roots[1] = 1
        /\ desk = Initialize(d, [x \in DeskSessions |-> cwd], FALSE)
        /\ calls = [c \in Callers |-> Free] /\ echoes = {} /\ dropped = {} /\ asked \in Wishes
        /\ deskOrigin = [x \in DeskSessions |-> desk.owner[x]]

\* Either this operation is on the list, or any is.
AskDesk(operation) ==
    \E wish \in DOMAIN asked \cap {operation, "any"} :
        asked[wish] > 0 /\ asked' = [asked EXCEPT ![wish] = @ - 1]

UserAsks ==
    \/ \E c \in Callers :
         \/ \E kind \in {"new", "resume"} : AskDesk(kind) /\ StartOpening(c, kind)
         \/ AskDesk("select") /\ \E p \in Roots, s \in DeskSessions \cup {NoOne} : Select(c, p, s)
         \/ AskDesk("close") /\ \E s \in DeskSessions : Close(c, s)
         \/ AskDesk("remove") /\ \E p \in Roots : RemoveProject(c, p)
    \/ AskDesk("add") /\ \E p \in Roots : AddProject(p)
    \/ AskDesk("move") /\ \E p \in Roots, i \in 1 .. Cardinality(Roots) : MoveProject(p, i)
    \/ AskDesk("prompt") /\ FirstPrompt
    \/ AskDesk("fork") /\ StartFork
    \/ AskDesk("update") /\ PrepareUpdate
    \/ AskDesk("restart") /\ Restart

BackendGoesOn ==
    \/ \E c \in Callers :
         \/ \E s \in DeskSessions : Chosen(c, s) \/ ChosenOpen(c, s)
         \/ GiveUp(c) \/ Discarded(c) \/ Activated(c) \/ Saved(c) \/ Opened(c)
         \/ Cleared(c) \/ Closed(c) \/ KeepOpen(c) \/ Announced(c)
         \/ RemoveDeclined(c) \/ RemoveConfirmed(c) \/ Unlisted(c)
    \/ \E e \in echoes : EchoCleared(e) \/ EchoActivated(e) \/ EchoSaved(e)
    \/ EndFork \/ UndoFork \/ \E s \in DeskSessions : CommitFork(s)

NavigationSteps ==
    \/ UserAsks
    \/ BackendGoesOn /\ UNCHANGED asked

(* Properties. *)

NavigationTypes ==
    /\ ToSet(desk.open) \subseteq desk.born /\ desk.kept \subseteq desk.temps
    /\ desk.front \in ToSet(desk.open) \cup {NoOne}
    /\ desk.selected \in ToSet(desk.roots) \cup {NoOne}
    /\ \A c \in Callers : DOMAIN calls[c] = DOMAIN Free
    /\ dropped \subseteq DeskSessions

SettledDesk == echoes = {} /\ ~Forking(desk) /\ \A c \in Callers : calls[c] = Free

\* After a selection completes the active session belongs to the selected
\* Project or there is none (desktop SPEC.md, Session and presentation); every
\* open session has a Project; and none went without its user closing it.
SelectionHonest ==
    /\ SettledDesk /\ ~desk.failed => OwnerOf(desk, desk.front) \in {NoOne, desk.selected}
    /\ SettledDesk => \A s \in ToSet(desk.open) \ desk.strays : desk.owner[s] # NoOne
    /\ dropped = {}

\* A New or Resume ends up in the Project it was started in, wherever the user
\* is by then; and an update is installed over no session, open or opening.
OpeningsAttributed ==
    /\ \A s \in ToSet(desk.open) : desk.owner[s] \in {NoOne, deskOrigin[s]}
    /\ desk.closedForUpdate => desk.open = <<>> /\ desk.openings = 0
    /\ SettledDesk => desk.openings = 0 /\ \A p \in Roots : desk.opening[p] = 0
=============================================================================
