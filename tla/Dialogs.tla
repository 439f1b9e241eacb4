------------------------------- MODULE Dialogs -------------------------------
(***************************************************************************)
(* The blocking requests of one session's extensions: ExtensionUiCoord-    *)
(* inator and the question tool (QuestionToolExtensionBridge in the host,  *)
(* question-tool.ts in Pi, QuestionForm and ExtensionUiRequestCard in the  *)
(* page), across restarts of the Pi process.                               *)
(*                                                                         *)
(* dialog[d] is what Pi knows of a request and how often it was answered;  *)
(* pending is the coordinator's map, resolving the questions whose file is *)
(* being read, cards what the view shows, posts the page's messages.       *)
(***************************************************************************)
EXTENDS Naturals, FiniteSets

CONSTANTS Dialogs,      \* the requests Pi may make, in any process
          KindsOf,      \* bound: the kinds of each request
          Questions,    \* the questions of one form
          MaxRuns,      \* bound: processes of the session
          MaxPosts      \* bound: messages under way from the page

ASSUME DialogAssumption == MaxRuns \in Nat \ {0} /\ MaxPosts \in Nat /\ IsFiniteSet(Questions)
                           /\ \A d \in Dialogs : KindsOf[d] \subseteq {"confirm", "input", "timed", "question", "forged"}

VARIABLES dialog, pending, resolving, cards, forms, posts, run, life, child

dialogVars == <<dialog, pending, resolving, cards, forms, posts, run, life, child>>

\* A timed one is an input with a timeout.
DialogKinds == {"confirm", "input", "timed", "question", "forged"}
Unasked == [kind |-> "none", run |-> 0, pi |-> "none", heard |-> FALSE,
            answers |-> 0, late |-> FALSE, tried |-> FALSE]

Recognized(d) == dialog[d].kind \in {"question", "forged"}
Waits(d) == dialog[d].pi = "waiting"
Alive(d) == dialog[d].run = run /\ child

\* The coordinator's onChange: the view follows its map.
Sync(ids) == pending' = ids /\ cards' = ids

\* A request that comes after cancelAll of its process is never cancelled: late
\* notes it.
AddPending(d, known) ==
    /\ Sync(pending \cup {d})
    /\ dialog' = [known EXCEPT ![d].late = life = "stopping"]

\* sendExtensionUiResponse writes to the process of the request; a dead one
\* takes nothing.
SendTo(known, ids) ==
    [d \in Dialogs |->
        IF d \in ids /\ Alive(d) THEN [known[d] EXCEPT !.answers = @ + 1]
        ELSE known[d]]

(* Pi and its extensions. *)

\* An extension asks: a standard method, the question tool after it has put
\* its file in place, or an input whose title only looks like a marker.
PiAsks(d, kind) ==
    /\ child /\ dialog[d] = Unasked
    /\ dialog' = [dialog EXCEPT ![d] = [Unasked EXCEPT !.kind = kind, !.run = run, !.pi = "waiting"]]
    /\ UNCHANGED <<pending, resolving, cards, forms, posts, run, life, child>>

\* Its timeout, or the signal of an aborted tool: the tool removes its file.
PiWithdraws(d) ==
    /\ Alive(d) /\ Waits(d)
    /\ dialog' = [dialog EXCEPT ![d].pi = "withdrawn"]
    /\ UNCHANGED <<pending, resolving, cards, forms, posts, run, life, child>>

PiHears(d) ==
    /\ Alive(d) /\ Waits(d) /\ dialog[d].answers > 0
    /\ dialog' = [dialog EXCEPT ![d].pi = "answered"]
    /\ UNCHANGED <<pending, resolving, cards, forms, posts, run, life, child>>

(* The host. *)

ReceiveDialog(d) ==
    /\ Alive(d) /\ dialog[d].kind # "none" /\ ~dialog[d].heard
    /\ LET heard == [dialog EXCEPT ![d].heard = TRUE] IN
       IF Recognized(d)
         THEN resolving' = resolving \cup {d} /\ dialog' = heard /\ UNCHANGED <<pending, cards>>
         ELSE AddPending(d, heard) /\ UNCHANGED resolving
    /\ UNCHANGED <<forms, posts, run, life, child>>

\* bridge.resolve has read the file and compared the identities.  The file goes
\* when the tool ends, its directory when the process has been stopped; the
\* read may have come before that.
SameRuntime(d) == dialog[d].run = run /\ life # "down"
Readable(d) == dialog[d].kind = "question"
Unreadable(d) == dialog[d].kind = "forged" \/ ~Waits(d) \/ ~SameRuntime(d)

QuestionResolved(d) ==
    /\ d \in resolving
    /\ resolving' = resolving \ {d}
    /\ \/ /\ Readable(d) /\ SameRuntime(d) /\ AddPending(d, dialog)
       \/ /\ Readable(d) /\ ~SameRuntime(d) /\ UNCHANGED <<dialog, pending, cards>>
       \/ /\ Unreadable(d) /\ dialog' = SendTo(dialog, {d})
          /\ UNCHANGED <<pending, cards>>
    /\ UNCHANGED <<forms, posts, run, life, child>>

\* Pi owns the default answer: the host only takes the card away.
DialogExpires(d) ==
    /\ d \in pending /\ dialog[d].kind = "timed" /\ life # "down"
    /\ Sync(pending \ {d})
    /\ dialog' = [dialog EXCEPT ![d].tried = TRUE]
    /\ UNCHANGED <<resolving, forms, posts, run, life, child>>

\* validateCompleteQuestionSubmission, on the answers of a form.
CompleteSubmission(replies) == replies = Questions

Respond(d) ==
    /\ d \in pending
    /\ Sync(pending \ {d})
    /\ dialog' = SendTo(dialog, {d})

\* respondExtensionUi and respondQuestion: without the request they throw, or
\* do nothing without a coordinator; an incomplete answer leaves it pending.
Answerable(p) ==
    /\ life # "down" /\ p.dialog \in pending
    /\ \/ p.value = "cancelled"
       \/ dialog[p.dialog].kind = "question" => CompleteSubmission(p.answers)

ReceivePost(p) ==
    /\ p \in posts /\ posts' = posts \ {p}
    /\ \/ Answerable(p) /\ Respond(p.dialog)
       \/ ~Answerable(p) /\ UNCHANGED <<dialog, pending, cards>>
    /\ UNCHANGED <<resolving, forms, run, life, child>>

\* A mutant: the map is cleared before its requests are collected.
CancelAll_Silent == dialog' = SendTo(dialog, {}) /\ Sync({})
CancelAll == dialog' = SendTo(dialog, pending) /\ Sync({})

\* The user aborts the run: Pi ends its tools on their signal.
AbortDialogs ==
    /\ life = "up" /\ pending # {} /\ CancelAll
    /\ UNCHANGED <<resolving, forms, posts, run, life, child>>

StopDialogs ==
    /\ life \in {"up", "failed"} /\ life' = "stopping" /\ CancelAll
    /\ UNCHANGED <<resolving, forms, posts, run, child>>

\* connection.stop() and the disposal of the bridges are over: #extensionUi is
\* null, the view keeps what it showed last.
StopEnds ==
    /\ life = "stopping" /\ life' = "down" /\ pending' = {} /\ child' = FALSE
    /\ UNCHANGED <<dialog, resolving, cards, forms, posts, run>>

\* onFailure leaves the coordinator and its cards alone.
ProcessDies ==
    /\ child /\ child' = FALSE
    /\ life' = IF life = "up" THEN "failed" ELSE life
    /\ UNCHANGED <<dialog, pending, resolving, cards, forms, posts, run>>

StartAgain ==
    /\ life = "down" /\ run < MaxRuns /\ run' = run + 1 /\ life' = "up" /\ child' = TRUE
    /\ UNCHANGED <<dialog, pending, resolving, cards, forms, posts>>

(* The page. *)

\* selectQuestionOption and saveCustomQuestionAnswer.
Fill(d, q) ==
    /\ d \in cards /\ dialog[d].kind = "question" /\ q \notin forms[d]
    /\ forms' = [forms EXCEPT ![d] = @ \cup {q}]
    /\ UNCHANGED <<dialog, pending, resolving, cards, posts, run, life, child>>

\* questionSubmission and the buttons of a card; a confirmation has no cancel.
Offers(d, value) ==
    \/ value = "cancelled" /\ dialog[d].kind # "confirm"
    \/ value = "answered" /\ (dialog[d].kind = "question" => CompleteSubmission(forms[d]))

PostAnswer(d, value) ==
    /\ d \in cards /\ Offers(d, value) /\ Cardinality(posts) < MaxPosts
    /\ posts' = posts \cup {[dialog |-> d, value |-> value, answers |-> forms[d]]}
    /\ UNCHANGED <<dialog, pending, resolving, cards, forms, run, life, child>>

\* The page is mounted again: what was not submitted is forgotten.
RemountForms ==
    /\ \E d \in Dialogs : forms[d] # {}
    /\ forms' = [d \in Dialogs |-> {}]
    /\ UNCHANGED <<dialog, pending, resolving, cards, posts, run, life, child>>

DialogStarts ==
    /\ dialog = [d \in Dialogs |-> Unasked]
    /\ pending = {} /\ resolving = {} /\ cards = {} /\ posts = {}
    /\ forms = [d \in Dialogs |-> {}]
    /\ run = 1 /\ life = "up" /\ child = TRUE

DialogSteps ==
    \/ \E d \in Dialogs :
          \/ \E kind \in KindsOf[d] : PiAsks(d, kind)
          \/ PiWithdraws(d) \/ PiHears(d)
          \/ ReceiveDialog(d) \/ QuestionResolved(d) \/ DialogExpires(d)
          \/ \E q \in Questions : Fill(d, q)
          \/ \E value \in {"answered", "cancelled"} : PostAnswer(d, value)
    \/ \E p \in posts : ReceivePost(p)
    \/ AbortDialogs \/ StopDialogs \/ StopEnds \/ ProcessDies \/ StartAgain \/ RemountForms

-----------------------------------------------------------------------------
DialogTypes ==
    /\ pending \subseteq Dialogs /\ cards \subseteq Dialogs /\ resolving \subseteq Dialogs
    /\ run \in 1..MaxRuns /\ life \in {"up", "stopping", "failed", "down"}
    /\ \A d \in Dialogs : dialog[d].kind \in DialogKinds \cup {"none"} /\ forms[d] \subseteq Questions

\* What a user or a stop decides reaches Pi once: at most one response is sent
\* for a request, whatever timeouts, repeated clicks, aborts and restarts do.
AnsweredOnce == \A d \in Dialogs : dialog[d].answers <= 1

\* No request that a living process waits for is forgotten: it is on its way to
\* the host, being resolved, on a card, answered, or expired by its own timeout.
NotForgotten ==
    \A d \in Dialogs : Waits(d) /\ Alive(d) =>
        \/ ~dialog[d].heard \/ d \in resolving \/ d \in pending
        \/ dialog[d].answers > 0 \/ dialog[d].tried

\* The cards are the requests that can be answered, one for each, until stop() is
\* over. It leaves behind the cards of the requests that reached the coordinator
\* after it had cancelled the others, and no other card: nothing answers these, they
\* stay until the next process has something to show. extension-ui.SPEC.md:19
\* promises more, that stop() cancels every pending request; that does not hold.
CardsTrue == cards = pending \/ (pending = {} /\ \A d \in cards : dialog[d].late)

DialogsHandled == AnsweredOnce /\ NotForgotten /\ CardsTrue
=============================================================================
