----------------------------- MODULE DesktopLife -----------------------------
(***************************************************************************)
(* The two processes of FrostPi Desktop and the end of their lives: the    *)
(* native shell (main.rs, tray.rs, updates/), the Node backend (backend.ts,*)
(* the dispose of createDesktopBackend) and the files that outlive both:   *)
(* state.json (DesktopStateStore) and the update cache (cache.rs).         *)
(*                                                                         *)
(* An instance may end by Exit, by an update, by a failure or by a crash   *)
(* at any step; the user starts the next over the same profile.            *)
(***************************************************************************)
EXTENDS Naturals, Sequences, FiniteSets

CONSTANTS Versions,     \* releases the update server may name; 0 is the first installed
          MaxLaunches,  \* bound: instances over the profile
          MaxChanges,   \* bound: changes of the metadata in one instance
          MaxWaiting    \* bound: messages between the processes

ASSUME LifeAssumption == Versions \subseteq Nat \ {0} /\ IsFiniteSet(Versions)
                         /\ MaxLaunches \in Nat /\ MaxChanges \in Nat /\ MaxWaiting \in Nat

VARIABLES shell, backend, wire, store, cache, launches

lifeVars == <<shell, backend, wire, store, cache, launches>>

NoRelease == 0

\* busy is TrayState.busy; asking what request_exit waits for; draining who
\* waits for the last save; update the operation of Updates, offered the
\* release the last check found, shown the download the page shows, held the
\* one Install has read; end how the process ended.
NewShell(version) ==
    [closing |-> FALSE, busy |-> FALSE, asking |-> "no", draining |-> "no", closed |-> "none",
     update |-> "idle", offered |-> NoRelease, shown |-> NoRelease, held |-> NoRelease,
     version |-> version, end |-> "none"]

\* work is the busiest session, opening a New or Resume not yet done;
\* admitted the negation of updateAdmissionClosed.
NewBackend == [life |-> "starting", work |-> "none", opening |-> FALSE, admitted |-> TRUE]
NewWire == [down |-> <<>>, up |-> <<>>]
NewStore(blocked) == [want |-> 0, disk |-> 0, queue |-> <<>>, blocked |-> blocked]

Running == shell.end = "none"
Serving == backend.life = "ready"

\* The process is over and its job takes the backend with it; what the next
\* launch finds is in the files.
Ends(how) ==
    /\ shell' = [NewShell(shell.version) EXCEPT !.held = shell.held, !.shown = shell.shown, !.end = how]
    /\ backend' = [NewBackend EXCEPT !.life = "gone", !.admitted = backend.admitted]
    /\ wire' = NewWire

\* A message the shell sends; awaited while the shell still wants its answer.
Tell(w, kind) == [w EXCEPT !.down = Append(@, [kind |-> kind, awaited |-> TRUE])]
NextDown(kind) == wire.down # <<>> /\ wire.down[1].kind = kind
NextUp(kind) == wire.up # <<>> /\ wire.up[1].kind = kind
Taken == [wire EXCEPT !.up = Tail(@)]

\* The answer under the message's id; a backend that is closing gives none.
AnswerShell(value) ==
    [down |-> Tail(wire.down),
     up |-> IF Serving THEN Append(wire.up, [kind |-> wire.down[1].kind, awaited |-> wire.down[1].awaited,
                                             value |-> value])
            ELSE wire.up]

\* A timeout: the id is not waited for any more.
Abandon(kind) ==
    LET gone(q) == [i \in DOMAIN q |-> IF q[i].kind = kind THEN [q[i] EXCEPT !.awaited = FALSE] ELSE q[i]] IN
    [down |-> gone(wire.down), up |-> gone(wire.up)]

(* The state file. disk is the revision on it; "bad" could not be read. *)

\* accept(): desired memory takes it and a write is queued, unless loading
\* failed.
Change ==
    /\ Running /\ Serving /\ store.want < MaxChanges /\ ~store.blocked
    /\ store' = [store EXCEPT !.want = @ + 1, !.queue = Append(@, store.want + 1)]
    /\ UNCHANGED <<shell, backend, wire, cache, launches>>

\* enqueueWrite: the file is replaced as a whole, or the write fails.
WriteState(ok) ==
    /\ store.queue # <<>> /\ backend.life \in {"ready", "closing"}
    /\ store' = [store EXCEPT !.queue = Tail(@), !.disk = IF ok THEN store.queue[1] ELSE @]
    /\ UNCHANGED <<shell, backend, wire, cache, launches>>

(* The backend. *)

\* init: state.json is read, and a session may open with the window.
BackendReady ==
    /\ Running /\ backend.life = "starting"
    /\ \E w \in {"none", "open"} : backend' = [backend EXCEPT !.life = "ready", !.work = w]
    /\ UNCHANGED <<shell, wire, store, cache, launches>>

\* runSessionOpening: a New or Resume begins, and ends with a session or not.
Open ==
    /\ Running /\ Serving
    /\ \/ /\ ~backend.opening /\ backend.admitted
          /\ backend' = [backend EXCEPT !.opening = TRUE]
       \/ /\ backend.opening
          /\ \E w \in {backend.work, "open"} : backend' = [backend EXCEPT !.opening = FALSE, !.work = w]
    /\ UNCHANGED <<shell, wire, store, cache, launches>>

\* Sessions work, wait and are closed.
Work ==
    /\ Running /\ Serving /\ backend.work # "none"
    /\ \E w \in {"none", "open", "working"} : backend' = [backend EXCEPT !.work = w]
    /\ UNCHANGED <<shell, wire, store, cache, launches>>

AnswerExitCheck ==
    /\ NextDown("exitCheck") /\ backend.life \in {"ready", "closing"}
    /\ wire' = AnswerShell(backend.work = "working")
    /\ UNCHANGED <<shell, backend, store, cache, launches>>

\* prepareUpdate: the empty-set check closes admission in the same step.
AnswerPrepare ==
    LET ok == ~backend.admitted \/ (backend.work = "none" /\ ~backend.opening) IN
    /\ NextDown("prepareUpdate") /\ backend.life \in {"ready", "closing"}
    /\ backend' = IF Serving /\ ok THEN [backend EXCEPT !.admitted = FALSE] ELSE backend
    /\ wire' = AnswerShell(ok)
    /\ UNCHANGED <<shell, store, cache, launches>>

\* shutdown(): nothing new is served, sessions stop, the metadata is captured.
BackendCloses ==
    /\ NextDown("close") /\ backend.life \in {"ready", "closing"}
    /\ wire' = [wire EXCEPT !.down = Tail(@)]
    /\ backend' = [backend EXCEPT !.life = "closing", !.work = "none", !.opening = FALSE]
    /\ UNCHANGED <<shell, store, cache, launches>>

\* Mutant: closed is reported with the last write unchecked.
Flushed_Unchecked(ok) ==
    /\ backend.life = "closing" /\ store.queue = <<>>
    /\ store' = store
    /\ backend' = [backend EXCEPT !.life = "gone"]
    /\ wire' = [wire EXCEPT !.up = Append(@, [kind |-> "closed", awaited |-> TRUE, value |-> TRUE])]
    /\ UNCHANGED <<shell, cache, launches>>

\* DesktopStateStore.flush: a failed last write is tried once more.
Flushed(ok) ==
    /\ backend.life = "closing" /\ store.queue = <<>>
    /\ LET again == ~store.blocked /\ store.disk # store.want
           saved == ~store.blocked /\ (again => ok) IN
       /\ store' = IF again /\ ok THEN [store EXCEPT !.disk = store.want] ELSE store
       /\ wire' = [wire EXCEPT !.up = Append(@, [kind |-> "closed", awaited |-> TRUE, value |-> saved])]
    /\ backend' = [backend EXCEPT !.life = "gone"]
    /\ UNCHANGED <<shell, cache, launches>>

BackendFails ==
    /\ Running /\ backend.life # "gone"
    /\ backend' = [backend EXCEPT !.life = "gone"]
    /\ UNCHANGED <<shell, wire, store, cache, launches>>

(* The shell: exit. *)

RequestExit ==
    /\ Running /\ ~shell.closing /\ ~shell.busy /\ Len(wire.down) + Len(wire.up) < MaxWaiting
    /\ shell' = [shell EXCEPT !.busy = TRUE, !.asking = "check"]
    /\ wire' = Tell(wire, "exitCheck")
    /\ UNCHANGED <<backend, store, cache, launches>>

\* close(): the first to set closing saves and leaves.
CloseNow(s, w) ==
    /\ shell' = IF s.closing THEN s ELSE [s EXCEPT !.closing = TRUE, !.draining = "exit"]
    /\ wire' = IF s.closing THEN w ELSE Tell(w, "close")

Idle(s) == [s EXCEPT !.busy = FALSE, !.asking = "no"]

\* The answer, and the question to the user when work would be interrupted.
ExitAnswered ==
    /\ Running /\ NextUp("exitCheck")
    /\ CASE ~wire.up[1].awaited -> shell' = shell /\ wire' = Taken
         [] shell.closing -> shell' = Idle(shell) /\ wire' = Taken
         [] wire.up[1].value -> shell' = [shell EXCEPT !.asking = "dialog"] /\ wire' = Taken
         [] OTHER -> CloseNow(Idle(shell), Taken)
    /\ UNCHANGED <<backend, store, cache, launches>>

\* No answer in fifteen seconds: FrostPi has not exited.
ExitUnanswered ==
    /\ Running /\ shell.asking = "check"
    /\ shell' = Idle(shell) /\ wire' = Abandon("exitCheck")
    /\ UNCHANGED <<backend, store, cache, launches>>

UserAnswersExit ==
    /\ Running /\ shell.asking = "dialog"
    /\ \/ CloseNow(Idle(shell), wire)
       \/ shell' = Idle(shell) /\ UNCHANGED wire
    /\ UNCHANGED <<backend, store, cache, launches>>

\* The web view lost its process.
BrowserFails ==
    /\ Running /\ ~shell.closing /\ CloseNow(shell, wire)
    /\ UNCHANGED <<backend, store, cache, launches>>

ClosedReported ==
    /\ Running /\ NextUp("closed")
    /\ shell' = [shell EXCEPT !.closed = IF wire.up[1].value THEN "saved" ELSE "lost"]
    /\ wire' = Taken
    /\ UNCHANGED <<backend, store, cache, launches>>

\* drain(): the acknowledgement or fifteen seconds, and the child is killed.
Drained ==
    LET saved == shell.closed = "saved"
        install == shell.draining = "install" IN
    /\ Running /\ shell.draining # "no"
    /\ \/ ~install /\ Ends(IF saved THEN "saved" ELSE "unsaved")
       \/ install /\ saved /\ Ends("msi")
       \/ install /\ Ends("unsaved")
    /\ UNCHANGED <<store, cache, launches>>

\* The reader's end of file: the backend is gone though nobody is closing.
BackendLost ==
    /\ Running /\ backend.life = "gone" /\ wire.up = <<>> /\ ~shell.closing
    /\ Ends("unsaved")
    /\ UNCHANGED <<store, cache, launches>>

(* The shell: updates. *)

\* restore_cached: the release the metadata names, when newer than this one.
Newer(version) == IF cache.whole /\ cache.release > version THEN cache.release ELSE NoRelease

\* accept(): one operation at a time, whoever asks.
AcceptUpdate(action) ==
    /\ Running /\ Serving /\ shell.update = "idle"
    /\ action = "downloading" => shell.offered # NoRelease
    /\ shell' = [shell EXCEPT !.update = action]
    /\ UNCHANGED <<backend, wire, store, cache, launches>>

Checked(v) ==
    /\ Running /\ shell.update = "checking"
    /\ shell' = [shell EXCEPT !.update = "idle", !.offered = IF v > shell.version THEN v ELSE NoRelease]
    /\ UNCHANGED <<backend, wire, store, cache, launches>>

\* cache.rs store(): a payload of its own, then the metadata that names it.
StoreStep ==
    /\ Running /\ shell.update = "downloading"
    /\ \/ cache.writing = "no" /\ cache' = [cache EXCEPT !.writing = "part"] /\ UNCHANGED shell
       \/ cache.writing = "part" /\ cache' = [cache EXCEPT !.writing = "whole"] /\ UNCHANGED shell
       \/ /\ cache.writing = "whole"
          /\ cache' = [release |-> shell.offered, whole |-> TRUE, writing |-> "no"]
          /\ shell' = [shell EXCEPT !.update = "idle", !.shown = shell.offered]
    /\ UNCHANGED <<backend, wire, store, launches>>

\* Install reads the committed download and asks for admission.
InstallBegins ==
    /\ Running /\ shell.update = "installing" /\ Newer(shell.version) # NoRelease
    /\ Len(wire.down) + Len(wire.up) < MaxWaiting
    /\ shell' = [shell EXCEPT !.update = "preparing", !.held = Newer(shell.version)]
    /\ wire' = Tell(wire, "prepareUpdate")
    /\ UNCHANGED <<backend, store, cache, launches>>

\* Mutant: the preparation's answer is not looked at.
Prepared_Unasked ==
    /\ Running /\ NextUp("prepareUpdate")
    /\ IF wire.up[1].awaited /\ ~shell.closing
         THEN /\ shell' = [shell EXCEPT !.update = "draining", !.closing = TRUE, !.draining = "install"]
              /\ wire' = Tell(Taken, "close")
         ELSE shell' = shell /\ wire' = Taken
    /\ UNCHANGED <<backend, store, cache, launches>>

\* Only the first to claim closing goes on; the loser leaves with an error.
Prepared ==
    /\ Running /\ NextUp("prepareUpdate")
    /\ CASE ~wire.up[1].awaited -> shell' = shell /\ wire' = Taken /\ UNCHANGED backend
         [] wire.up[1].awaited /\ ~wire.up[1].value /\ ~shell.closing ->
              shell' = [shell EXCEPT !.update = "idle"] /\ wire' = Taken /\ UNCHANGED backend
         [] wire.up[1].awaited /\ shell.closing -> Ends("unsaved")
         [] OTHER -> /\ shell' = [shell EXCEPT !.update = "draining", !.closing = TRUE, !.draining = "install"]
                     /\ wire' = Tell(Taken, "close") /\ UNCHANGED backend
    /\ UNCHANGED <<store, cache, launches>>

\* An operation fails, or its answer is late: while closing, the shell leaves
\* at once (installation_error).
UpdateFails ==
    /\ Running /\ shell.update \in {"checking", "downloading", "installing", "preparing"}
    /\ IF shell.closing THEN Ends("unsaved")
       ELSE /\ shell' = [shell EXCEPT !.update = "idle"]
            /\ wire' = Abandon("prepareUpdate") /\ UNCHANGED backend
    /\ cache' = [cache EXCEPT !.writing = "no"]
    /\ UNCHANGED <<store, launches>>

(* The computer, and the next launch. *)

PowerFails ==
    /\ Running /\ Ends("crash")
    /\ UNCHANGED <<store, cache, launches>>

\* single_instance: the profile is free when its owner is gone. DesktopState-
\* Store.open may find the file unreadable.
Launch ==
    /\ ~Running /\ launches < MaxLaunches /\ launches' = launches + 1
    /\ LET installed == IF shell.end = "msi" THEN shell.held ELSE shell.version IN
       shell' = [NewShell(installed) EXCEPT !.shown = Newer(installed)]
    /\ backend' = NewBackend /\ wire' = NewWire
    /\ \E bad \in BOOLEAN : store' = NewStore(bad)
    /\ cache' = [cache EXCEPT !.writing = "no"]

LifeStarts ==
    /\ shell = NewShell(0) /\ backend = NewBackend /\ wire = NewWire
    /\ \E bad \in BOOLEAN : store = NewStore(bad)
    /\ cache = [release |-> NoRelease, whole |-> TRUE, writing |-> "no"]
    /\ launches = 1

LifeSteps ==
    \/ BackendReady \/ Open \/ Work \/ Change \/ AnswerExitCheck \/ AnswerPrepare \/ BackendCloses \/ BackendFails
    \/ \E ok \in BOOLEAN : WriteState(ok) \/ Flushed(ok)
    \/ RequestExit \/ ExitAnswered \/ ExitUnanswered \/ UserAnswersExit \/ BrowserFails
    \/ ClosedReported \/ Drained \/ BackendLost
    \/ \E a \in {"checking", "downloading", "installing"} : AcceptUpdate(a)
    \/ \E v \in Versions \cup {NoRelease} : Checked(v)
    \/ StoreStep \/ InstallBegins \/ Prepared \/ UpdateFails \/ PowerFails \/ Launch

(* Properties. *)

LifeTypes ==
    /\ shell.end \in {"none", "saved", "unsaved", "msi", "crash"}
    /\ backend.life \in {"starting", "ready", "closing", "gone"}
    /\ store.disk <= store.want /\ cache.writing \in {"no", "part", "whole"}

\* A shutdown reported as saved, or an installer started, has the last state
\* on disk (SPEC.md, Persistence; Application updates); a file that could not
\* be read is not written.
SavedWhenSaid ==
    /\ shell.end \in {"saved", "msi"} => store.disk = store.want /\ backend.life = "gone"
    /\ store.blocked => store.disk = 0

\* What is installed is the newer version the user was shown, and from the
\* moment installing was admitted no session is open or can be opened.
InstallsWhatWasShown ==
    /\ shell.end = "msi" => shell.held = shell.shown /\ shell.held > shell.version /\ ~backend.admitted
    /\ ~backend.admitted => backend.work = "none" /\ ~backend.opening
=============================================================================
