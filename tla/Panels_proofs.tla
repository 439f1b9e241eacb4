---------------------------- MODULE Panels_proofs ----------------------------
(***************************************************************************)
(* Proofs about what opens beside the conversation, and about the desktop  *)
(* around it: the requests of extensions (Dialogs), the resume flow of the *)
(* desktop (ResumeFlow), the suggestions of workspace files                *)
(* (FileSuggestions), moving in the tree of entries (TreeNavigation), the  *)
(* shell and the backend of the desktop (DesktopLife) and its settings     *)
(* (DesktopSettings), for any number of requests, questions, processes,    *)
(* flows, searches, moves, entries, releases, edits and changes from       *)
(* outside.                                                                *)
(*                                                                         *)
(* The requests: whatever Pi, the host, the page, timeouts, aborts and     *)
(* restarts do, a request is answered once at most, none is forgotten and  *)
(* no card stays that nothing answers, but those the model names.          *)
(*                                                                         *)
(* The flow: the work under way is that of the overlay, which names no     *)
(* session before the work is over and afterwards waits for the registry   *)
(* alone (FlowInv); the dialog that is open for a flow is the one the flow *)
(* picks in and the overlay shows (PickInv).                               *)
(*                                                                         *)
(* The search: the host gets the requests in the order they were asked in  *)
(* (AskedInOrder), so the versions it gives them rise and what it has      *)
(* superseded is not what the composer waits for (VersionsRise); the       *)
(* process that runs is the newest search's (FdKnown), and what an answer  *)
(* says is what its search has found (AnswersTrue, ShownTrue).             *)
(*                                                                         *)
(* The move: Pi's extension works exactly while the registry waits         *)
(* (CommandInv), a path that Pi has committed and the page has not yet     *)
(* read is the only one that may differ from Pi's (PathInv), and a seed    *)
(* that waits for its session was agreed to, or has been shown (PageOk).   *)
(*                                                                         *)
(* The shell: what is reported as saved is on disk, what is installed is   *)
(* what the user was shown, and an admitted installation finds no session. *)
(*                                                                         *)
(* The settings: what the panel compares its draft with is what it was     *)
(* told last, and the last telling on its way is what the store holds      *)
(* (NewsInv), an import apart, of which there is one and which the panel   *)
(* is waiting for (ImportInv); the store holds what the file holds unless  *)
(* another program wrote it (FileInv); and a Save that was sent with       *)
(* nothing on its way is the first operation the store comes to (SaveInv). *)
(***************************************************************************)
EXTENDS Dialogs, ResumeFlow, FileSuggestions, TreeNavigation, DesktopLife, DesktopSettings,
        SequenceTheorems, FiniteSetTheorems, NaturalsInduction, WellFoundedInduction, TLAPS

-----------------------------------------------------------------------------
(* The requests of extensions.                                               *)

DialogRecords == [kind : DialogKinds \cup {"none"}, run : 0..MaxRuns,
                  pi : {"none", "waiting", "withdrawn", "answered"}, heard : BOOLEAN,
                  answers : Nat, late : BOOLEAN, tried : BOOLEAN]

DialogShape ==
    /\ dialog \in [Dialogs -> DialogRecords] /\ forms \in [Dialogs -> SUBSET Questions]
    /\ pending \subseteq Dialogs /\ cards \subseteq Dialogs /\ resolving \subseteq Dialogs
    /\ run \in 1..MaxRuns /\ life \in {"up", "stopping", "failed", "down"} /\ child \in BOOLEAN

\* A request is on its way to the host, being resolved or on a card, one after
\* the other, and in none of these places twice; until then nothing answers it.
Unanswered(d) ==
    /\ (~dialog[d].heard \/ d \in pending \/ d \in resolving) => dialog[d].answers = 0
    /\ ~dialog[d].heard => d \notin pending /\ d \notin resolving
    /\ ~(d \in pending /\ d \in resolving)
    /\ dialog[d].run <= run

\* What the properties say of one request.
HandledOne(d) ==
    /\ dialog[d].answers <= 1
    /\ Waits(d) /\ Alive(d) => \/ ~dialog[d].heard \/ d \in resolving \/ d \in pending
                               \/ dialog[d].answers > 0 \/ dialog[d].tried

\* The coordinator is there as long as its process is.
Served == child => life # "down"

\* What stop() finds nobody to cancel for any more came after its cancelAll.
LateOnes == life = "stopping" => \A d \in pending : dialog[d].late

DialogInv ==
    /\ DialogShape /\ Served /\ LateOnes /\ CardsTrue
    /\ \A d \in Dialogs : Unanswered(d) /\ HandledOne(d)

-----------------------------------------------------------------------------
\* What is sent to a process changes the count of answers and nothing else.
LEMMA Sending ==
  ASSUME DialogShape, NEW ids
  PROVE  /\ SendTo(dialog, ids) \in [Dialogs -> DialogRecords]
         /\ \A d \in Dialogs :
              /\ SendTo(dialog, ids)[d].kind = dialog[d].kind
              /\ SendTo(dialog, ids)[d].run = dialog[d].run
              /\ SendTo(dialog, ids)[d].pi = dialog[d].pi
              /\ SendTo(dialog, ids)[d].heard = dialog[d].heard
              /\ SendTo(dialog, ids)[d].late = dialog[d].late
              /\ SendTo(dialog, ids)[d].tried = dialog[d].tried
              /\ SendTo(dialog, ids)[d].answers =
                    IF d \in ids /\ Alive(d) THEN dialog[d].answers + 1 ELSE dialog[d].answers
<1>1. ASSUME NEW d \in Dialogs
      PROVE  /\ SendTo(dialog, ids)[d] \in DialogRecords
             /\ SendTo(dialog, ids)[d] =
                  IF d \in ids /\ Alive(d) THEN [dialog[d] EXCEPT !.answers = @ + 1] ELSE dialog[d]
  <2>1. dialog[d] \in DialogRecords
    BY DEF DialogShape
  <2>2. SendTo(dialog, ids)[d] =
           IF d \in ids /\ Alive(d) THEN [dialog[d] EXCEPT !.answers = @ + 1] ELSE dialog[d]
    BY DEF SendTo
  <2>3. [dialog[d] EXCEPT !.answers = @ + 1] \in DialogRecords
    BY <2>1 DEF DialogRecords
  <2>. QED
    BY <2>1, <2>2, <2>3
<1>2. SendTo(dialog, ids) \in [Dialogs -> DialogRecords]
  <2>1. SendTo(dialog, ids) = [d \in Dialogs |-> SendTo(dialog, ids)[d]]
    BY DEF SendTo
  <2>. QED
    BY <1>1, <2>1
<1>3. ASSUME NEW d \in Dialogs
      PROVE  /\ SendTo(dialog, ids)[d].kind = dialog[d].kind
             /\ SendTo(dialog, ids)[d].run = dialog[d].run
             /\ SendTo(dialog, ids)[d].pi = dialog[d].pi
             /\ SendTo(dialog, ids)[d].heard = dialog[d].heard
             /\ SendTo(dialog, ids)[d].late = dialog[d].late
             /\ SendTo(dialog, ids)[d].tried = dialog[d].tried
             /\ SendTo(dialog, ids)[d].answers =
                    IF d \in ids /\ Alive(d) THEN dialog[d].answers + 1 ELSE dialog[d].answers
  <2>1. dialog[d] \in DialogRecords
    BY DEF DialogShape
  <2>. QED
    BY <1>1, <2>1, Zenon DEF DialogRecords
<1>. QED
  BY <1>2, <1>3

\* A change of one request leaves the records of the others alone.
LEMMA OneDialog ==
  ASSUME DialogShape, NEW d \in Dialogs, NEW new \in DialogRecords,
         dialog' = [dialog EXCEPT ![d] = new]
  PROVE  /\ dialog' \in [Dialogs -> DialogRecords] /\ dialog'[d] = new
         /\ \A other \in Dialogs \ {d} : dialog'[other] = dialog[other]
BY DEF DialogShape

-----------------------------------------------------------------------------
LEMMA DialogStartInv == DialogStarts => DialogInv
<1>. SUFFICES ASSUME DialogStarts PROVE DialogInv
  OBVIOUS
<1>1. Unasked \in DialogRecords
  BY DialogAssumption DEF Unasked, DialogRecords
<1>2. DialogShape
  BY <1>1, DialogAssumption DEF DialogStarts, DialogShape
<1>3. \A d \in Dialogs : Unanswered(d) /\ HandledOne(d)
  BY DEF DialogStarts, Unanswered, HandledOne, Unasked, Waits, Alive
<1>. QED
  BY <1>2, <1>3 DEF DialogInv, Served, LateOnes, CardsTrue, DialogStarts

\* The steps of Pi: asking, giving up and hearing the answer.
LEMMA PiKeeps ==
  ASSUME DialogInv, NEW d \in Dialogs,
         \/ \E kind \in KindsOf[d] : PiAsks(d, kind)
         \/ PiWithdraws(d) \/ PiHears(d)
  PROVE  DialogInv'
<1>1. PICK new \in DialogRecords :
        /\ dialog' = [dialog EXCEPT ![d] = new]
        /\ new.heard = dialog[d].heard /\ new.answers = dialog[d].answers
        /\ new.late = dialog[d].late /\ new.tried = dialog[d].tried /\ new.run <= run
        /\ new.pi = "waiting" => ~new.heard
  <2>0. dialog[d] \in DialogRecords /\ DialogShape /\ Unanswered(d)
    BY DEF DialogInv, DialogShape
  <2>1. CASE \E kind \in KindsOf[d] : PiAsks(d, kind)
    <3>1. PICK kind \in KindsOf[d] : PiAsks(d, kind)
      BY <2>1
    <3>2. kind \in DialogKinds /\ run \in 1..MaxRuns
      BY <2>0, DialogAssumption DEF DialogKinds, DialogShape
    <3>. DEFINE asked == [Unasked EXCEPT !.kind = kind, !.run = run, !.pi = "waiting"]
    <3>3. asked \in DialogRecords
      <4>1. run \in 0..MaxRuns
        BY <3>2, DialogAssumption
      <4>2. kind \in DialogKinds \cup {"none"}
        BY <3>2
      <4>3. Unasked \in DialogRecords
        BY DialogAssumption DEF Unasked, DialogRecords
      <4>4. \A u \in DialogRecords :
              [u EXCEPT !.kind = kind, !.run = run, !.pi = "waiting"] \in DialogRecords
        BY <4>1, <4>2, Zenon DEF DialogRecords
      <4>. QED
        BY <4>3, <4>4, Zenon
    <3>4. /\ asked.heard = FALSE /\ asked.answers = 0 /\ asked.late = FALSE /\ asked.tried = FALSE
          /\ asked.run = run
      BY DEF Unasked
    <3>5. dialog[d].heard = FALSE /\ dialog[d].answers = 0 /\ dialog[d].late = FALSE
          /\ dialog[d].tried = FALSE
      <4>1. dialog[d] = Unasked
        BY <3>1, Zenon DEF PiAsks
      <4>. QED
        BY <4>1 DEF Unasked
    <3>6. dialog' = [dialog EXCEPT ![d] = asked]
      BY <3>1, Zenon DEF PiAsks
    <3>7. asked.run <= run
      BY <3>2, <3>4
    <3>. HIDE DEF asked
    <3>. QED
      BY <3>3, <3>4, <3>5, <3>6, <3>7, Zenon
  <2>2. CASE PiWithdraws(d)
    <3>1. [dialog[d] EXCEPT !.pi = "withdrawn"] \in DialogRecords
      BY <2>0 DEF DialogRecords
    <3>2. dialog' = [dialog EXCEPT ![d] = [dialog[d] EXCEPT !.pi = "withdrawn"]]
      BY <2>2 DEF PiWithdraws
    <3>. QED
      BY <2>0, <3>1, <3>2, Zenon DEF Unanswered, DialogRecords
  <2>3. CASE PiHears(d)
    <3>1. [dialog[d] EXCEPT !.pi = "answered"] \in DialogRecords
      BY <2>0 DEF DialogRecords
    <3>2. dialog' = [dialog EXCEPT ![d] = [dialog[d] EXCEPT !.pi = "answered"]]
      BY <2>3 DEF PiHears
    <3>. QED
      BY <2>0, <3>1, <3>2, Zenon DEF Unanswered, DialogRecords
  <2>. QED
    BY <2>1, <2>2, <2>3
<1>2. UNCHANGED <<pending, resolving, cards, forms, run, life, child>>
  BY Zenon DEF PiAsks, PiWithdraws, PiHears
<1>3. /\ dialog' \in [Dialogs -> DialogRecords] /\ dialog'[d] = new
      /\ \A other \in Dialogs \ {d} : dialog'[other] = dialog[other]
  BY <1>1, OneDialog, Zenon DEF DialogInv
<1>4. DialogShape'
  BY <1>2, <1>3 DEF DialogInv, DialogShape
<1>5. (Unanswered(d) /\ HandledOne(d))'
  BY <1>1, <1>2, <1>3 DEF DialogInv, Unanswered, HandledOne, Waits, Alive
<1>6. ASSUME NEW other \in Dialogs \ {d} PROVE (Unanswered(other) /\ HandledOne(other))'
  BY <1>2, <1>3 DEF DialogInv, Unanswered, HandledOne, Waits, Alive
<1>7. LateOnes' /\ Served' /\ CardsTrue'
  BY <1>1, <1>2, <1>3 DEF DialogInv, DialogShape, LateOnes, Served, CardsTrue
<1>. QED
  BY <1>4, <1>5, <1>6, <1>7 DEF DialogInv
-----------------------------------------------------------------------------
\* A request that came becomes pending: it has its card.
LEMMA Adding ==
  ASSUME DialogInv, NEW d \in Dialogs, NEW known \in [Dialogs -> DialogRecords],
         \A other \in Dialogs \ {d} : known[other] = dialog[other],
         /\ known[d].heard /\ known[d].answers = 0 /\ known[d].run = dialog[d].run
         /\ known[d].pi = dialog[d].pi /\ known[d].tried = dialog[d].tried,
         AddPending(d, known), resolving' = resolving \ {d},
         UNCHANGED <<forms, run, life, child>>
  PROVE  DialogInv'
<1>1. [known[d] EXCEPT !.late = (life = "stopping")] \in DialogRecords
  BY ZenonT(30) DEF DialogRecords
<1>2. /\ dialog' \in [Dialogs -> DialogRecords]
      /\ dialog'[d] = [known[d] EXCEPT !.late = (life = "stopping")]
      /\ \A other \in Dialogs \ {d} : dialog'[other] = dialog[other]
  BY <1>1 DEF AddPending
<1>3. /\ dialog'[d].heard /\ dialog'[d].answers = 0 /\ dialog'[d].run = dialog[d].run
      /\ life = "stopping" => dialog'[d].late
  <2>1. known[d] \in DialogRecords
    OBVIOUS
  <2>. QED
    BY <1>2, <2>1 DEF DialogRecords
<1>4. pending' = pending \cup {d} /\ cards' = pending \cup {d}
  BY DEF AddPending, Sync
<1>5. DialogShape'
  BY <1>2, <1>4 DEF DialogInv, DialogShape
<1>6. (Unanswered(d) /\ HandledOne(d))'
  BY <1>3, <1>4 DEF DialogInv, Unanswered, HandledOne
<1>7. ASSUME NEW other \in Dialogs \ {d} PROVE (Unanswered(other) /\ HandledOne(other))'
  BY <1>2, <1>4 DEF DialogInv, Unanswered, HandledOne, Waits, Alive
<1>8. LateOnes' /\ Served' /\ CardsTrue'
  BY <1>2, <1>3, <1>4, Zenon DEF DialogInv, DialogShape, LateOnes, Served, CardsTrue
<1>. QED
  BY <1>5, <1>6, <1>7, <1>8 DEF DialogInv

\* Those in ids, among them everything whose card goes, are sent an answer.
LEMMA Answering ==
  ASSUME DialogInv, NEW ids, ids \subseteq pending \cup resolving,
         dialog' = SendTo(dialog, ids), pending' = pending \ ids,
         resolving' = resolving \ ids,
         \/ cards' = pending'
         \/ cards' = cards /\ ids \cap pending = {},
         UNCHANGED <<forms, run, child>>,
         life' \in {"up", "stopping", "failed", "down"},
         life' = "down" => life = "down",
         life' = "stopping" /\ life # "stopping" => pending' = {}
  PROVE  DialogInv'
<1>1. /\ dialog' \in [Dialogs -> DialogRecords]
      /\ \A d \in Dialogs :
           /\ dialog'[d].run = dialog[d].run /\ dialog'[d].pi = dialog[d].pi
           /\ dialog'[d].heard = dialog[d].heard /\ dialog'[d].late = dialog[d].late
           /\ dialog'[d].tried = dialog[d].tried
           /\ dialog'[d].answers =
                 IF d \in ids /\ Alive(d) THEN dialog[d].answers + 1 ELSE dialog[d].answers
  BY Sending DEF DialogInv
<1>2. DialogShape'
  BY <1>1 DEF DialogInv, DialogShape
<1>3. ASSUME NEW d \in Dialogs PROVE Unanswered(d)' /\ HandledOne(d)'
  <2>1. Unanswered(d) /\ HandledOne(d)
    BY DEF DialogInv
  <2>2. d \in ids => dialog[d].heard /\ dialog[d].answers = 0
    BY <2>1 DEF Unanswered
  <2>3. dialog[d].answers \in Nat
    BY DEF DialogInv, DialogShape, DialogRecords
  <2>4. Alive(d)' = Alive(d) /\ Waits(d)' = Waits(d)
    BY <1>1 DEF Alive, Waits
  <2>5. Unanswered(d)'
    BY <1>1, <2>1, <2>2 DEF Unanswered
  <2>6. dialog'[d].answers <= 1
    BY <1>1, <2>1, <2>2, <2>3 DEF HandledOne
  <2>8. CASE d \in ids
    BY <1>1, <2>2, <2>4, <2>5, <2>6, <2>8 DEF HandledOne
  <2>9. CASE d \notin ids
    BY <1>1, <2>1, <2>4, <2>5, <2>6, <2>9 DEF HandledOne
  <2>. QED
    BY <2>8, <2>9, <2>5
<1>4. LateOnes' /\ Served' /\ CardsTrue'
  BY <1>1 DEF DialogInv, DialogShape, LateOnes, Served, CardsTrue
<1>. QED
  BY <1>2, <1>3, <1>4 DEF DialogInv

-----------------------------------------------------------------------------
\* The host reads a request: a question's file is read first.
LEMMA ReceiveKeeps ==
  ASSUME DialogInv, NEW d \in Dialogs, ReceiveDialog(d)
  PROVE  DialogInv'
<1>. DEFINE heard == [dialog EXCEPT ![d].heard = TRUE]
<1>1. dialog[d] \in DialogRecords /\ ~dialog[d].heard /\ Unanswered(d) /\ HandledOne(d)
  BY DEF ReceiveDialog, DialogInv, DialogShape
<1>2. /\ heard \in [Dialogs -> DialogRecords]
      /\ \A other \in Dialogs \ {d} : heard[other] = dialog[other]
      /\ heard[d].heard /\ heard[d].answers = 0 /\ heard[d].run = dialog[d].run
      /\ heard[d].late = dialog[d].late
      /\ heard[d].pi = dialog[d].pi /\ heard[d].tried = dialog[d].tried
  <2>1. [dialog[d] EXCEPT !.heard = TRUE] \in DialogRecords
    BY <1>1, Zenon DEF DialogRecords
  <2>2. heard = [dialog EXCEPT ![d] = [dialog[d] EXCEPT !.heard = TRUE]]
    BY DEF DialogInv, DialogShape
  <2>. QED
    BY <1>1, <2>1, <2>2 DEF DialogInv, DialogShape, Unanswered, DialogRecords
<1>. HIDE DEF heard
<1>3. CASE Recognized(d)
  <2>1. /\ dialog' = heard /\ resolving' = resolving \cup {d}
        /\ UNCHANGED <<pending, cards, forms, run, life, child>>
    BY <1>3 DEF ReceiveDialog, heard
  <2>2. DialogShape'
    BY <1>2, <2>1 DEF DialogInv, DialogShape
  <2>3. (Unanswered(d) /\ HandledOne(d))'
    BY <1>1, <1>2, <2>1 DEF Unanswered, HandledOne, Waits, Alive
  <2>4. ASSUME NEW other \in Dialogs \ {d} PROVE (Unanswered(other) /\ HandledOne(other))'
    BY <1>2, <2>1 DEF DialogInv, Unanswered, HandledOne, Waits, Alive
  <2>5. LateOnes' /\ Served' /\ CardsTrue'
    BY <1>2, <2>1 DEF DialogInv, DialogShape, LateOnes, Served, CardsTrue
  <2>. QED
    BY <2>2, <2>3, <2>4, <2>5 DEF DialogInv
<1>4. CASE ~Recognized(d)
  <2>1. AddPending(d, heard) /\ UNCHANGED <<resolving, forms, run, life, child>>
    BY <1>4 DEF ReceiveDialog, heard
  <2>2. resolving' = resolving \ {d}
    BY <1>1, <2>1 DEF Unanswered
  <2>. QED
    BY <1>2, <2>1, <2>2, Adding
<1>. QED
  BY <1>3, <1>4

\* The file has been read: a card, an answer at once, or nothing any more.
LEMMA ResolveKeeps ==
  ASSUME DialogInv, NEW d \in Dialogs, QuestionResolved(d)
  PROVE  DialogInv'
<1>1. /\ d \in resolving /\ resolving' = resolving \ {d}
      /\ UNCHANGED <<forms, run, life, child>>
  BY DEF QuestionResolved
<1>2. dialog \in [Dialogs -> DialogRecords] /\ Unanswered(d) /\ HandledOne(d)
  BY DEF DialogInv, DialogShape
<1>3. dialog[d].heard /\ dialog[d].answers = 0 /\ d \notin pending
  BY <1>1, <1>2 DEF Unanswered, DialogRecords
<1>4. CASE AddPending(d, dialog)
  BY <1>1, <1>2, <1>3, <1>4, Adding
<1>5. CASE ~SameRuntime(d) /\ UNCHANGED <<dialog, pending, cards>>
  <2>1. DialogShape'
    BY <1>1, <1>5 DEF DialogInv, DialogShape
  <2>2. ~Alive(d)
    BY <1>5 DEF SameRuntime, Alive, DialogInv, Served
  <2>3. (Unanswered(d) /\ HandledOne(d))'
    BY <1>1, <1>2, <1>5, <2>2 DEF Unanswered, HandledOne, Waits, Alive
  <2>4. ASSUME NEW other \in Dialogs \ {d} PROVE (Unanswered(other) /\ HandledOne(other))'
    BY <1>1, <1>5 DEF DialogInv, Unanswered, HandledOne, Waits, Alive
  <2>5. LateOnes' /\ Served' /\ CardsTrue'
    BY <1>1, <1>5 DEF DialogInv, LateOnes, Served, CardsTrue
  <2>. QED
    BY <2>1, <2>3, <2>4, <2>5 DEF DialogInv
<1>6. CASE dialog' = SendTo(dialog, {d}) /\ UNCHANGED <<pending, cards>>
  <2>1. {d} \subseteq pending \cup resolving /\ {d} \cap pending = {}
    BY <1>1, <1>3
  <2>2. pending' = pending \ {d}
    BY <1>3, <1>6
  <2>3. life' \in {"up", "stopping", "failed", "down"}
    BY <1>1 DEF DialogInv, DialogShape
  <2>. QED
    BY <1>1, <1>6, <2>1, <2>2, <2>3, Answering
<1>. QED
  BY <1>4, <1>5, <1>6 DEF QuestionResolved

\* The host's timer takes the card of a request that Pi answers itself.
LEMMA ExpireKeeps ==
  ASSUME DialogInv, NEW d \in Dialogs, DialogExpires(d)
  PROVE  DialogInv'
<1>1. dialog[d] \in DialogRecords /\ Unanswered(d) /\ HandledOne(d) /\ DialogShape
  BY DEF DialogInv, DialogShape
<1>. DEFINE new == [dialog[d] EXCEPT !.tried = TRUE]
<1>2. /\ new \in DialogRecords /\ new.tried /\ new.heard = dialog[d].heard
      /\ new.answers = dialog[d].answers /\ new.late = dialog[d].late /\ new.run = dialog[d].run
  BY <1>1, Zenon DEF DialogRecords
<1>3. dialog' = [dialog EXCEPT ![d] = new]
  BY DEF DialogExpires
<1>. HIDE DEF new
<1>4. /\ dialog' \in [Dialogs -> DialogRecords] /\ dialog'[d] = new
      /\ \A other \in Dialogs \ {d} : dialog'[other] = dialog[other]
  BY <1>1, <1>2, <1>3, OneDialog, Zenon
<1>5. /\ d \in pending /\ pending' = pending \ {d} /\ cards' = pending \ {d}
      /\ UNCHANGED <<resolving, forms, run, life, child>>
  BY DEF DialogExpires, Sync
<1>6. DialogShape'
  BY <1>1, <1>4, <1>5 DEF DialogShape
<1>7. (Unanswered(d) /\ HandledOne(d))'
  BY <1>1, <1>2, <1>4, <1>5 DEF Unanswered, HandledOne
<1>8. ASSUME NEW other \in Dialogs \ {d} PROVE (Unanswered(other) /\ HandledOne(other))'
  BY <1>4, <1>5 DEF DialogInv, Unanswered, HandledOne, Waits, Alive
<1>9. LateOnes' /\ Served' /\ CardsTrue'
  BY <1>1, <1>4, <1>5 DEF DialogInv, DialogShape, LateOnes, Served, CardsTrue
<1>. QED
  BY <1>6, <1>7, <1>8, <1>9 DEF DialogInv

\* A message of the page: it answers what is pending, or comes too late.
LEMMA PostKeeps ==
  ASSUME DialogInv, NEW p \in posts, ReceivePost(p)
  PROVE  DialogInv'
<1>1. UNCHANGED <<resolving, forms, run, life, child>>
  BY DEF ReceivePost
<1>2. CASE Respond(p.dialog)
  <2>. DEFINE d == p.dialog
  <2>1. /\ d \in pending /\ dialog' = SendTo(dialog, {d})
        /\ pending' = pending \ {d} /\ cards' = pending'
    BY <1>2 DEF Respond, Sync
  <2>2. d \in Dialogs /\ life' \in {"up", "stopping", "failed", "down"}
    BY <1>1, <2>1 DEF DialogInv, DialogShape
  <2>3. d \notin resolving
    BY <2>1, <2>2 DEF DialogInv, Unanswered
  <2>4. resolving' = resolving \ {d} /\ {d} \subseteq pending \cup resolving
    BY <1>1, <2>1, <2>3
  <2>. HIDE DEF d
  <2>. QED
    BY <1>1, <2>1, <2>2, <2>4, Answering
<1>3. CASE UNCHANGED <<dialog, pending, cards>>
  BY <1>1, <1>3 DEF DialogInv, DialogShape, Unanswered, HandledOne, Waits, Alive, LateOnes, Served, CardsTrue
<1>. QED
  BY <1>2, <1>3 DEF ReceivePost

\* Everything pending is cancelled, by an abort or at the beginning of stop().
LEMMA CancelKeeps ==
  ASSUME DialogInv, AbortDialogs \/ StopDialogs
  PROVE  DialogInv'
<1>1. /\ dialog' = SendTo(dialog, pending) /\ pending' = {} /\ cards' = {}
      /\ UNCHANGED <<resolving, forms, run, child>>
  BY DEF AbortDialogs, StopDialogs, CancelAll, Sync
<1>2. life' \in {"up", "stopping"} /\ life # "stopping"
  BY DEF AbortDialogs, StopDialogs
<1>3. resolving' = resolving \ pending
  BY <1>1 DEF DialogInv, DialogShape, Unanswered
<1>4. pending' = pending \ pending /\ pending \subseteq pending \cup resolving
  BY <1>1
<1>. QED
  BY <1>1, <1>2, <1>3, <1>4, Answering

\* Where nothing is asked or answered: the page's forms and its messages.
LEMMA PageKeeps ==
  ASSUME DialogInv,
         \/ \E d \in Dialogs, q \in Questions : Fill(d, q)
         \/ \E d \in Dialogs, value \in {"answered", "cancelled"} : PostAnswer(d, value)
         \/ RemountForms \/ UNCHANGED dialogVars
  PROVE  DialogInv'
<1>1. UNCHANGED <<dialog, pending, resolving, cards, run, life, child>>
  BY DEF Fill, PostAnswer, RemountForms, dialogVars
<1>2. forms' \in [Dialogs -> SUBSET Questions]
  BY DEF Fill, PostAnswer, RemountForms, dialogVars, DialogInv, DialogShape
<1>. QED
  BY <1>1, <1>2 DEF DialogInv, DialogShape, Unanswered, HandledOne, Waits, Alive, LateOnes, Served, CardsTrue

\* The end of a process and the start of the next.
LEMMA ProcessKeeps ==
  ASSUME DialogInv, StopEnds \/ ProcessDies \/ StartAgain
  PROVE  DialogInv'
<1>0. DialogShape /\ run \in Nat /\ (\A d \in Dialogs : dialog[d].run \in Nat)
  BY DialogAssumption DEF DialogInv, DialogShape, DialogRecords
<1>1. CASE StopEnds
  <2>1. /\ life = "stopping" /\ life' = "down" /\ pending' = {} /\ child' = FALSE
        /\ UNCHANGED <<dialog, resolving, cards, forms, run>>
    BY <1>1 DEF StopEnds
  <2>2. DialogShape'
    BY <1>0, <2>1, Zenon DEF DialogShape
  <2>3. ASSUME NEW d \in Dialogs PROVE (Unanswered(d) /\ HandledOne(d))'
    BY <2>1 DEF DialogInv, LateOnes, Unanswered, HandledOne, Waits, Alive
  <2>. QED
    BY <2>1, <2>2, <2>3 DEF DialogInv, LateOnes, Served, CardsTrue
<1>2. CASE ProcessDies
  <2>1. /\ child' = FALSE /\ life' = (IF life = "up" THEN "failed" ELSE life)
        /\ UNCHANGED <<dialog, pending, resolving, cards, forms, run>>
    BY <1>2 DEF ProcessDies
  <2>2. DialogShape'
    BY <1>0, <2>1, Zenon DEF DialogShape
  <2>3. ASSUME NEW d \in Dialogs PROVE (Unanswered(d) /\ HandledOne(d))'
    BY <2>1 DEF DialogInv, Unanswered, HandledOne, Waits, Alive
  <2>. QED
    BY <2>1, <2>2, <2>3 DEF DialogInv, LateOnes, Served, CardsTrue
<1>3. CASE StartAgain
  <2>1. /\ run < MaxRuns /\ run' = run + 1 /\ life' = "up" /\ child' = TRUE
        /\ UNCHANGED <<dialog, pending, resolving, cards, forms>>
    BY <1>3 DEF StartAgain
  <2>2. DialogShape'
    BY <1>0, <2>1, DialogAssumption DEF DialogShape
  <2>3. ASSUME NEW d \in Dialogs PROVE (Unanswered(d) /\ HandledOne(d))'
    BY <1>0, <2>1 DEF DialogInv, Unanswered, HandledOne, Waits, Alive
  <2>. QED
    BY <2>1, <2>2, <2>3 DEF DialogInv, LateOnes, Served, CardsTrue
<1>. QED
  BY <1>1, <1>2, <1>3

\* DialogInv is inductive.
LEMMA DialogStepKeeps ==
  ASSUME DialogInv, DialogSteps \/ UNCHANGED dialogVars
  PROVE  DialogInv'
<1>1. ASSUME NEW d \in Dialogs,
             \/ \E kind \in KindsOf[d] : PiAsks(d, kind)
             \/ PiWithdraws(d) \/ PiHears(d)
      PROVE  DialogInv'
  BY <1>1, PiKeeps
<1>2. ASSUME NEW d \in Dialogs, ReceiveDialog(d) \/ QuestionResolved(d) \/ DialogExpires(d)
      PROVE  DialogInv'
  BY <1>2, ReceiveKeeps, ResolveKeeps, ExpireKeeps
<1>. QED
  BY <1>1, <1>2, PostKeeps, CancelKeeps, PageKeeps, ProcessKeeps DEF DialogSteps

\* What the invariant says is what the properties ask for.
LEMMA DialogInvSays == DialogInv => DialogTypes /\ DialogsHandled
BY DEF DialogInv, DialogShape, DialogRecords, HandledOne, DialogTypes, DialogsHandled,
       AnsweredOnce, NotForgotten

\* The requests of one session: whatever timeouts, repeated clicks, aborts, crashes
\* and restarts do, at most one response is sent for a request, none that Pi waits for
\* is forgotten while its process lives, and the cards are what can be answered. This
\* is not the promise of extension-ui.SPEC.md:19 that stop() leaves nothing open: the
\* requests that reach the coordinator after its cancelAll keep their cards (CardsTrue).
THEOREM RequestsHandled ==
  DialogStarts /\ [][DialogSteps]_dialogVars => [](DialogTypes /\ DialogsHandled)
BY DialogStartInv, DialogStepKeeps, DialogInvSays, PTL

-----------------------------------------------------------------------------
(* The resume flow.                                                          *)

FlowSteps == {"new", "finding", "picking", "browsing", "confirming", "done"}
ResumeViews ==
    [id : FlowIds \cup {NoFlow}, phase : {"none", "finding", "choosing", "opening", "loading", "failed"}, visible : BOOLEAN,
     selection : {"none", "session", "file", "confirmation"}, picker : Nat, session : SavedSessions \cup {"none"}]
SessionStates ==
    [status : {"gone", "starting", "ready", "failed", "stopped"}, history : {"loading", "loaded", "deferred", "failed"}]
ResumeShape ==
    /\ overlay \in ResumeViews
    /\ flows \in [FlowIds -> FlowSteps \cup SavedSessions]
    /\ dialogOpen \in [id : Nat, flow : FlowIds \cup {NoFlow}, asked : 0..MaxQuestions]
    /\ savedSessions \in [SavedSessions -> SessionStates]
    /\ resumeShut \in BOOLEAN

\* A view waits for the work of its flow, or for the session it names.
Awaits(view, sessions, underWay) ==
    view.phase \in {"finding", "choosing", "opening", "loading"} =>
        \/ view.id \in underWay
        \/ /\ view.session # "none"
           /\ \/ sessions[view.session].status = "starting" /\ view.phase = "opening"
              \/ /\ sessions[view.session].status = "ready" /\ sessions[view.session].history = "loading"
                 /\ view.phase = "loading"
           /\ view.picker = NoDialog

\* The work under way is the overlay's, which names no session yet.
FlowInv ==
    /\ \A id \in FlowsPending : /\ overlay.id = id /\ overlay.phase \in {"finding", "choosing", "opening"}
                                /\ overlay.session = "none"
    /\ Awaits(overlay, savedSessions, FlowsPending)

\* A flow picks in the dialog that is open for it, and the overlay shows that one.
PickInv ==
    /\ dialogOpen.id = NoDialog => dialogOpen.flow = NoFlow
    /\ \A id \in FlowIds : flows[id] = "picking" <=> dialogOpen.flow = id
    /\ overlay.picker # NoDialog \/ dialogOpen.flow # NoFlow => overlay.picker = dialogOpen.id /\ dialogOpen.flow # NoFlow

ResumeInv ==
    /\ ResumeShape
    /\ IF resumeShut THEN overlay = Hidden0 /\ dialogOpen.id = NoDialog /\ dialogOpen.flow = NoFlow
                     ELSE FlowInv /\ PickInv

\* The values that stand for no session are none.
LEMMA ResumeFacts ==
  /\ NoFlow \notin FlowIds /\ FlowIds \subseteq Nat
  /\ "none" \notin SavedSessions
  /\ \A s \in SavedSessions : s \notin FlowSteps /\ s \notin {"cancel", "browse", "unreadable", "elsewhere"}
  /\ Hidden0 \in ResumeViews /\ Hidden0.id = NoFlow /\ Hidden0.phase = "none" /\ Hidden0.picker = NoDialog /\ Hidden0.session = "none"
<1>1. NoFlow \notin FlowIds /\ FlowIds \subseteq Nat
  BY ResumeAssumption DEF NoFlow, FlowIds
<1>2. \A s \in SavedSessions : s \notin FlowSteps /\ s \notin {"cancel", "browse", "unreadable", "elsewhere"} /\ s # "none"
  BY ResumeAssumption DEF FlowSteps
<1>. QED
  BY <1>1, <1>2 DEF Hidden0, ResumeViews, NoDialog

\* What the registry says of a session is a state of its own.
LEMMA ResumeChanges ==
  ASSUME NEW session \in SessionStates
  PROVE  Changes(session) \subseteq SessionStates
  BY DEF Changes, SessionStates

\* The view after a look at the registry waits for what still comes.
LEMMA Refreshed ==
  ASSUME NEW view \in ResumeViews, NEW sessions \in [SavedSessions -> SessionStates], NEW underWay,
         view.session = "none" => Awaits(view, sessions, underWay), view.session # "none" => view.picker = NoDialog
  PROVE  /\ RefreshView(view, sessions) \in ResumeViews
         /\ Awaits(RefreshView(view, sessions), sessions, underWay)
         /\ view.session = "none" => RefreshView(view, sessions) = view
         /\ view.session # "none" => RefreshView(view, sessions).picker = NoDialog
<1>1. CASE view.session = "none" \/ view.phase = "failed"
  BY <1>1 DEF RefreshView, Awaits
<1>2. CASE view.session # "none" /\ view.phase # "failed"
  <2>. DEFINE session == sessions[view.session]
  <2>1. session \in SessionStates /\ view.session \in SavedSessions
    BY <1>2 DEF ResumeViews
  <2>2. \A phase \in {"opening", "loading", "failed"} :
          /\ [view EXCEPT !.phase = phase] \in ResumeViews /\ [view EXCEPT !.phase = phase].session = view.session
          /\ [view EXCEPT !.phase = phase].phase = phase /\ [view EXCEPT !.phase = phase].picker = view.picker
    BY DEF ResumeViews
  <2>. HIDE DEF session
  <2>3. RefreshView(view, sessions) =
          IF Lost(session) THEN [view EXCEPT !.phase = "failed"]
          ELSE IF session.status = "starting" THEN [view EXCEPT !.phase = "opening"]
          ELSE IF session.history \in {"loaded", "deferred"} THEN Hidden0
          ELSE [view EXCEPT !.phase = "loading"]
    BY <1>2 DEF RefreshView, session
  <2>4. CASE Lost(session)
    BY <1>2, <2>2, <2>3, <2>4 DEF Awaits
  <2>5. CASE ~Lost(session) /\ session.status = "starting"
    BY <1>2, <2>2, <2>3, <2>5 DEF Awaits, session
  <2>6. CASE ~Lost(session) /\ session.status # "starting" /\ session.history \in {"loaded", "deferred"}
    BY <1>2, <2>3, <2>6, ResumeFacts DEF Awaits
  <2>7. CASE ~Lost(session) /\ session.status # "starting" /\ session.history \notin {"loaded", "deferred"}
    <3>1. session.status = "ready" /\ session.history = "loading"
      BY <2>1, <2>7 DEF Lost, SessionStates
    <3>. QED
      BY <1>2, <2>2, <2>3, <2>7, <3>1 DEF Awaits, session
  <2>. QED
    BY <2>4, <2>5, <2>6, <2>7
<1>. QED
  BY <1>1, <1>2

\* One flow moves on or ends; there is no other.
LEMMA FlowMoves ==
  ASSUME ResumeShape, NEW id \in FlowIds, FlowsPending \subseteq {id}, NEW step \in FlowSteps \cup SavedSessions,
         flows' = [flows EXCEPT ![id] = step]
  PROVE  /\ flows' \in [FlowIds -> FlowSteps \cup SavedSessions] /\ flows'[id] = step
         /\ \A other \in FlowIds : other # id => flows'[other] = flows[other]
         /\ FlowsPending' = IF step \in {"new", "done"} THEN {} ELSE {id}
<1>1. /\ flows' \in [FlowIds -> FlowSteps \cup SavedSessions] /\ flows'[id] = step
      /\ \A other \in FlowIds : other # id => flows'[other] = flows[other]
  BY DEF ResumeShape
<1>. QED
  BY <1>1 DEF FlowsPending

\* No dialog is a flow's unless the flow picks in it.
LEMMA NoList ==
  ASSUME ResumeShape, FlowInv, PickInv
  PROVE  /\ FlowsPending \subseteq FlowIds /\ FlowsPending \subseteq {overlay.id}
         /\ (\A id \in FlowsPending : flows[id] # "picking") => overlay.picker = NoDialog /\ dialogOpen.flow = NoFlow
         /\ overlay.session # "none" => FlowsPending = {}
<1>1. FlowsPending \subseteq FlowIds /\ FlowsPending \subseteq {overlay.id} /\ (overlay.session # "none" => FlowsPending = {})
  BY DEF FlowInv, FlowsPending
<1>2. ASSUME \A id \in FlowsPending : flows[id] # "picking" PROVE overlay.picker = NoDialog /\ dialogOpen.flow = NoFlow
  <2>1. dialogOpen.flow \in FlowIds \cup {NoFlow}
    BY DEF ResumeShape
  <2>2. ASSUME dialogOpen.flow # NoFlow PROVE FALSE
    <3>1. dialogOpen.flow \in FlowIds /\ flows[dialogOpen.flow] = "picking"
      BY <2>1, <2>2 DEF PickInv
    <3>2. dialogOpen.flow \in FlowsPending
      BY <3>1 DEF FlowsPending
    <3>. QED
      BY <1>2, <3>1, <3>2
  <2>. QED
    BY <2>2 DEF PickInv
<1>. QED
  BY <1>1, <1>2

\* A flow that does not pick in a dialog moves on without one, or ends.
LEMMA FlowGoesOn ==
  ASSUME ResumeShape, FlowInv, PickInv, NEW id \in FlowIds, id \in FlowsPending,
         NEW step \in (FlowSteps \cup SavedSessions) \ {"picking", "new"}, flows' = [flows EXCEPT ![id] = step],
         (dialogOpen' = dialogOpen /\ flows[id] # "picking") \/ (dialogOpen' = NothingOpen /\ dialogOpen.flow = id),
         savedSessions' \in [SavedSessions -> SessionStates],
         overlay' \in ResumeViews, overlay'.picker = NoDialog,
         step = "done" => Awaits(overlay', savedSessions', {}),
         step # "done" => overlay'.id = id /\ overlay'.phase \in {"finding", "choosing", "opening"} /\ overlay'.session = "none",
         resumeShut' = resumeShut
  PROVE  ResumeShape' /\ FlowInv' /\ PickInv'
<1>1. FlowsPending \subseteq {id}
  BY NoList DEF FlowInv
<1>2. /\ flows' \in [FlowIds -> FlowSteps \cup SavedSessions] /\ flows'[id] = step
      /\ \A other \in FlowIds : other # id => flows'[other] = flows[other]
      /\ FlowsPending' = IF step \in {"new", "done"} THEN {} ELSE {id}
  BY <1>1, FlowMoves, Zenon
<1>3. dialogOpen' \in [id : Nat, flow : FlowIds \cup {NoFlow}, asked : 0..MaxQuestions] /\ dialogOpen'.flow = NoFlow
      /\ (dialogOpen'.id # NoDialog => dialogOpen' = dialogOpen)
  <2>1. CASE dialogOpen' = dialogOpen /\ flows[id] # "picking"
    <3>1. \A other \in FlowsPending : flows[other] # "picking"
      BY <1>1, <2>1
    <3>. QED
      BY <2>1, <3>1, NoList DEF ResumeShape
  <2>2. CASE dialogOpen' = NothingOpen
    BY <2>2 DEF NothingOpen, ResumeShape, NoDialog
  <2>. QED
    BY <2>1, <2>2
<1>4. ResumeShape'
  BY <1>2, <1>3 DEF ResumeShape
<1>5. FlowInv'
  <2>1. CASE step = "done"
    BY <1>2, <2>1 DEF FlowInv
  <2>2. CASE step # "done"
    BY <1>2, <2>2 DEF FlowInv, Awaits
  <2>. QED
    BY <2>1, <2>2
<1>6. \A other \in FlowIds : flows'[other] # "picking"
  <2>1. ASSUME NEW other \in FlowIds, other # id PROVE flows'[other] # "picking"
    <3>1. flows[other] = "picking" => other \in FlowsPending
      BY DEF FlowsPending
    <3>. QED
      BY <1>1, <1>2, <2>1, <3>1
  <2>. QED
    BY <1>2, <2>1
<1>7. PickInv'
  BY <1>3, <1>6, ResumeFacts DEF PickInv
<1>. QED
  BY <1>4, <1>5, <1>7

\* What an opening makes of the registry are states of sessions.
LEMMA OpeningStarts ==
  ASSUME ResumeShape, NEW id \in FlowIds, NEW s \in SavedSessions, OpenChosen(id, s)
  PROVE  flows' = [flows EXCEPT ![id] = s] /\ savedSessions' \in [SavedSessions -> SessionStates]
<1>1. \A state \in SessionStates : [savedSessions EXCEPT ![s] = state] \in [SavedSessions -> SessionStates]
  BY DEF ResumeShape
<1>2. \A history \in {"loading", "loaded"} : [status |-> "starting", history |-> history] \in SessionStates
  BY DEF SessionStates
<1>. QED
  BY <1>1, <1>2 DEF OpenChosen, ResumeShape

\* The views a flow shows.
LEMMA FlowViews ==
  ASSUME NEW view \in ResumeViews
  PROVE  /\ FlowChosen(view) \in ResumeViews /\ FlowChosen(view).phase = "opening" /\ FlowChosen(view).picker = NoDialog
         /\ FlowChosen(view).id = view.id /\ FlowChosen(view).session = view.session
         /\ \A selection \in {"session", "file", "confirmation"} :
              /\ Choosing(view, selection) \in ResumeViews /\ Choosing(view, selection).phase = "choosing"
              /\ Choosing(view, selection).picker = NoDialog /\ Choosing(view, selection).selection = selection
              /\ Choosing(view, selection).id = view.id /\ Choosing(view, selection).session = view.session
         /\ [view EXCEPT !.phase = "failed"] \in ResumeViews /\ [view EXCEPT !.phase = "failed"].phase = "failed"
         /\ [view EXCEPT !.phase = "failed"].picker = view.picker
  BY Zenon DEF FlowChosen, Choosing, ResumeViews, NoDialog

\* A view that names a session.
LEMMA NamedView ==
  ASSUME NEW view \in ResumeViews, NEW s \in SavedSessions
  PROVE  /\ [view EXCEPT !.phase = "opening", !.session = s] \in ResumeViews
         /\ [view EXCEPT !.phase = "opening", !.session = s].session = s
         /\ [view EXCEPT !.phase = "opening", !.session = s].picker = view.picker
  BY Zenon DEF ResumeViews
\* A view that shows a list.
LEMMA ListView ==
  ASSUME NEW view \in ResumeViews, NEW n \in Nat
  PROVE  /\ [view EXCEPT !.picker = n] \in ResumeViews /\ [view EXCEPT !.picker = n].picker = n
         /\ [view EXCEPT !.picker = n].id = view.id /\ [view EXCEPT !.picker = n].phase = view.phase
         /\ [view EXCEPT !.picker = n].session = view.session
  BY DEF ResumeViews

\* Only the overlay's visibility changes.
LEMMA OnlyShown ==
  ASSUME ResumeInv, ~resumeShut, NEW shown \in BOOLEAN, overlay' = [overlay EXCEPT !.visible = shown],
         UNCHANGED <<flows, dialogOpen, savedSessions, resumeShut>>
  PROVE  ResumeInv'
<1>1. overlay' \in ResumeViews /\ overlay'.id = overlay.id /\ overlay'.phase = overlay.phase
      /\ overlay'.picker = overlay.picker /\ overlay'.session = overlay.session
  BY DEF ResumeInv, ResumeShape, ResumeViews
<1>2. FlowsPending' = FlowsPending
  BY DEF FlowsPending
<1>. QED
  BY <1>1, <1>2 DEF ResumeInv, ResumeShape, FlowInv, PickInv, Awaits

\* A flow ends without a session, or fails.
LEMMA FlowFails ==
  ASSUME ResumeShape, FlowInv, PickInv, ~resumeShut, NEW id \in FlowIds, id \in FlowsPending,
         (flows[id] # "picking" /\ Fails(id)) \/ EndsWithout(id),
         (dialogOpen' = dialogOpen /\ flows[id] # "picking") \/ (dialogOpen' = NothingOpen /\ dialogOpen.flow = id),
         savedSessions' = savedSessions, resumeShut' = resumeShut
  PROVE  ResumeShape' /\ FlowInv' /\ PickInv'
<1>1. overlay \in ResumeViews /\ overlay.id = id /\ (flows[id] # "picking" => overlay.picker = NoDialog)
  <2>1. FlowsPending \subseteq {id} /\ overlay.id = id
    BY NoList DEF FlowInv
  <2>. QED
    BY <2>1, NoList DEF ResumeShape
<1>2. /\ flows' = [flows EXCEPT ![id] = "done"]
      /\ overlay' = Hidden0 \/ (overlay' = [overlay EXCEPT !.phase = "failed"] /\ flows[id] # "picking")
  BY <1>1 DEF Fails, EndsWithout, FlowEnds, SetView
<1>3. overlay' \in ResumeViews /\ overlay'.picker = NoDialog /\ overlay'.phase \in {"none", "failed"}
  <2>1. CASE overlay' = Hidden0
    BY <2>1, ResumeFacts
  <2>2. CASE overlay' = [overlay EXCEPT !.phase = "failed"] /\ flows[id] # "picking"
    BY <1>1, <2>2, FlowViews
  <2>. QED
    BY <1>2, <2>1, <2>2
<1>4. "done" \in (FlowSteps \cup SavedSessions) \ {"picking", "new"}
  BY DEF FlowSteps
<1>5. Awaits(overlay', savedSessions', {}) /\ savedSessions' \in [SavedSessions -> SessionStates]
  BY <1>3 DEF Awaits, ResumeShape
<1>. DEFINE step == "done"
<1>6. step \in (FlowSteps \cup SavedSessions) \ {"picking", "new"} /\ flows' = [flows EXCEPT ![id] = step] /\ step = "done"
  BY <1>2, <1>4
<1>7. (dialogOpen' = dialogOpen /\ flows[id] # "picking") \/ (dialogOpen' = NothingOpen /\ dialogOpen.flow = id)
  OBVIOUS
<1>8. /\ step = "done" => Awaits(overlay', savedSessions', {})
      /\ step # "done" => overlay'.id = id /\ overlay'.phase \in {"finding", "choosing", "opening"} /\ overlay'.session = "none"
  BY <1>5
<1>. HIDE DEF step
<1>. QED
  BY <1>3, <1>5, <1>6, <1>7, <1>8, FlowGoesOn, Zenon

\* The user has chosen, and the flow goes on or asks again.
LEMMA FlowTurns ==
  ASSUME ResumeShape, FlowInv, PickInv, NEW id \in FlowIds, id \in FlowsPending,
         NEW step \in (FlowSteps \cup SavedSessions) \ {"picking", "new", "done"}, flows' = [flows EXCEPT ![id] = step],
         (dialogOpen' = dialogOpen /\ flows[id] # "picking") \/ (dialogOpen' = NothingOpen /\ dialogOpen.flow = id),
         savedSessions' \in [SavedSessions -> SessionStates],
         NEW selection \in {"file", "confirmation"},
         overlay' = FlowChosen(overlay) \/ overlay' = Choosing(FlowChosen(overlay), selection),
         resumeShut' = resumeShut
  PROVE  ResumeShape' /\ FlowInv' /\ PickInv'
<1>. DEFINE chosen == FlowChosen(overlay)
<1>1. overlay \in ResumeViews /\ overlay.id = id /\ overlay.session = "none"
  BY DEF ResumeShape, FlowInv
<1>2. chosen \in ResumeViews /\ chosen.phase = "opening" /\ chosen.picker = NoDialog /\ chosen.id = id /\ chosen.session = "none"
  BY <1>1, FlowViews, Zenon
<1>3. overlay' = chosen \/ overlay' = Choosing(chosen, selection)
  OBVIOUS
<1>. HIDE DEF chosen
<1>4. overlay' \in ResumeViews /\ overlay'.picker = NoDialog
      /\ overlay'.id = id /\ overlay'.phase \in {"finding", "choosing", "opening"} /\ overlay'.session = "none"
  <2>1. CASE overlay' = chosen
    BY <1>2, <2>1
  <2>2. CASE overlay' = Choosing(chosen, selection)
    <3>1. selection \in {"session", "file", "confirmation"}
      OBVIOUS
    <3>2. Choosing(chosen, selection) \in ResumeViews /\ Choosing(chosen, selection).phase = "choosing"
          /\ Choosing(chosen, selection).picker = NoDialog
          /\ Choosing(chosen, selection).id = chosen.id /\ Choosing(chosen, selection).session = chosen.session
      BY <1>2, <3>1, FlowViews, ZenonT(30)
    <3>. QED
      BY <1>2, <2>2, <3>2
  <2>. QED
    BY <1>3, <2>1, <2>2
<1>. QED
  BY <1>4, FlowGoesOn, Zenon

\* Every step keeps the invariant of the flow.
LEMMA ResumeStepKeeps ==
  ASSUME ResumeInv, ResumeSteps \/ UNCHANGED resumeVars
  PROVE  ResumeInv'
<1>0. ResumeShape /\ overlay \in ResumeViews /\ dialogOpen.id \in Nat /\ dialogOpen.asked \in Nat /\ resumeShut \in BOOLEAN
      /\ dialogOpen.flow \in FlowIds \cup {NoFlow}
  BY ResumeAssumption DEF ResumeInv, ResumeShape
<1>1. CASE UNCHANGED resumeVars
  BY <1>1 DEF resumeVars, ResumeInv, ResumeShape, FlowInv, PickInv, Awaits, FlowsPending
\* A window that is closed is not answered, nor does a flow go on.
<1>2. CASE ~resumeShut
  <2>0. FlowInv /\ PickInv /\ FlowsPending \subseteq FlowIds /\ FlowsPending \subseteq {overlay.id}
    BY <1>2, NoList DEF ResumeInv
  <2>. USE <1>2
  <2>a. ASSUME ResumeShape', FlowInv', PickInv', resumeShut' = resumeShut PROVE ResumeInv'
    BY <2>a DEF ResumeInv
  <2>1. ASSUME NEW id \in FlowIds, ResumeSession(id) PROVE ResumeInv'
    <3>1. CASE overlay.id # NoFlow /\ overlay.phase # "failed"
      <4>1. overlay' = [overlay EXCEPT !.visible = TRUE] /\ UNCHANGED <<flows, dialogOpen, savedSessions, resumeShut>>
        BY <2>1, <3>1 DEF ResumeSession, SetView
      <4>. QED
        BY <4>1, OnlyShown, Zenon
    <3>2. CASE ~(overlay.id # NoFlow /\ overlay.phase # "failed")
      <4>1. /\ flows[id] = "new" /\ flows' = [flows EXCEPT ![id] = "finding"]
            /\ overlay' = [Hidden0 EXCEPT !.id = id, !.phase = "finding", !.visible = TRUE]
            /\ UNCHANGED <<dialogOpen, savedSessions, resumeShut>>
        BY <2>1, <3>2 DEF ResumeSession, SetView
      <4>2. FlowsPending = {}
        BY <2>0, <3>2, ResumeFacts DEF FlowInv
      <4>3. /\ overlay' \in ResumeViews /\ overlay'.id = id /\ overlay'.phase = "finding" /\ overlay'.picker = NoDialog
            /\ overlay'.session = "none"
        BY <4>1, ResumeFacts, Zenon DEF Hidden0, ResumeViews
      <4>4. /\ flows' \in [FlowIds -> FlowSteps \cup SavedSessions] /\ flows'[id] = "finding"
            /\ \A other \in FlowIds : other # id => flows'[other] = flows[other]
            /\ FlowsPending' = {id}
        <5>. DEFINE step == "finding"
        <5>1. step \in FlowSteps \cup SavedSessions /\ step \notin {"new", "done"} /\ flows' = [flows EXCEPT ![id] = step]
          BY <4>1 DEF FlowSteps
        <5>2. FlowsPending \subseteq {id}
          BY <4>2
        <5>. HIDE DEF step
        <5>3. /\ flows' \in [FlowIds -> FlowSteps \cup SavedSessions] /\ flows'[id] = step
              /\ \A other \in FlowIds : other # id => flows'[other] = flows[other]
              /\ FlowsPending' = {id}
          BY <1>0, <5>1, <5>2, FlowMoves, Zenon
        <5>. QED
          BY <5>3 DEF step
      <4>5. dialogOpen.flow = NoFlow /\ \A other \in FlowIds : flows[other] # "picking"
        BY <1>0, <2>0, <4>2, NoList DEF FlowsPending
      <4>6. ResumeShape' /\ FlowInv' /\ PickInv'
        BY <1>0, <4>1, <4>3, <4>4, <4>5, ResumeFacts DEF ResumeShape, FlowInv, Awaits, PickInv
      <4>. QED
        BY <2>a, <4>1, <4>6
    <3>. QED
      BY <3>1, <3>2
  <2>2. ASSUME NEW id \in FlowIds, ShowOverlay(id) PROVE ResumeInv'
    BY <2>2, OnlyShown, Zenon DEF ShowOverlay, SetView
  <2>3. CASE HideOverlay
    BY <2>3, OnlyShown, Zenon DEF HideOverlay, SetView
  <2>4. ASSUME NEW id \in FlowIds, DismissOverlay(id) PROVE ResumeInv'
    <3>1. overlay' = Hidden0 /\ UNCHANGED <<flows, dialogOpen, savedSessions, resumeShut>> /\ overlay.phase = "failed"
      BY <2>4 DEF DismissOverlay, SetView
    <3>2. FlowsPending = {} /\ FlowsPending' = FlowsPending
      BY <2>0, <3>1 DEF FlowInv, FlowsPending
    <3>3. overlay.picker = NoDialog /\ dialogOpen.flow = NoFlow
      BY <1>0, <2>0, <3>2, NoList
    <3>. QED
      BY <1>0, <2>0, <2>a, <3>1, <3>2, <3>3, ResumeFacts DEF ResumeShape, FlowInv, Awaits, PickInv
  <2>5. ASSUME NEW id \in FlowIds, FlowOpened(id) PROVE ResumeInv'
    <3>1. flows[id] \in SavedSessions /\ UNCHANGED <<dialogOpen, savedSessions, resumeShut>>
      BY <2>5 DEF FlowOpened
    <3>2. id \in FlowsPending /\ flows[id] # "picking" /\ overlay.id = id
      BY <2>0, <3>1, ResumeFacts DEF FlowsPending, FlowSteps
    <3>3. CASE Fails(id)
      BY <1>0, <2>0, <2>a, <3>1, <3>2, <3>3, FlowFails
    <3>4. CASE FlowEnds(id, RefreshView([overlay EXCEPT !.phase = "opening", !.session = flows[id]], savedSessions))
      <4>. DEFINE view == [overlay EXCEPT !.phase = "opening", !.session = flows[id]]
                  step == "done"
      <4>1. overlay.picker = NoDialog
        BY <1>0, <2>0, <3>2, NoList
      <4>2. view \in ResumeViews /\ view.session # "none" /\ view.picker = NoDialog
        BY <1>0, <3>1, <4>1, NamedView, ResumeFacts, Zenon
      <4>3. flows' = [flows EXCEPT ![id] = step] /\ overlay' = RefreshView(view, savedSessions)
            /\ step \in (FlowSteps \cup SavedSessions) \ {"picking", "new"} /\ step = "done"
        BY <3>2, <3>4 DEF FlowEnds, SetView, FlowSteps
      <4>. HIDE DEF view, step
      <4>4. savedSessions \in [SavedSessions -> SessionStates]
        BY <1>0 DEF ResumeShape
      <4>5. overlay' \in ResumeViews /\ overlay'.picker = NoDialog /\ Awaits(overlay', savedSessions', {})
        BY <3>1, <4>2, <4>3, <4>4, Refreshed
      <4>6. (dialogOpen' = dialogOpen /\ flows[id] # "picking") \/ (dialogOpen' = NothingOpen /\ dialogOpen.flow = id)
        BY <3>1, <3>2
      <4>7. ResumeShape' /\ FlowInv' /\ PickInv'
        BY <1>0, <2>0, <3>1, <3>2, <4>3, <4>4, <4>5, <4>6, FlowGoesOn, Zenon
      <4>. QED
        BY <2>a, <3>1, <4>7
    <3>. QED
      BY <2>5, <3>3, <3>4 DEF FlowOpened
  <2>6. ASSUME NEW id \in FlowIds, NEW found \in BOOLEAN, FlowDiscovered(id, found) PROVE ResumeInv'
    <3>1. /\ flows[id] = "finding" /\ UNCHANGED <<savedSessions, resumeShut>> /\ dialogOpen.asked < MaxQuestions
      BY <2>6 DEF FlowDiscovered
    <3>2. id \in FlowsPending /\ overlay.id = id /\ overlay.session = "none" /\ FlowsPending \subseteq {id}
      BY <2>0, <3>1 DEF FlowsPending, FlowInv
    <3>3. CASE Fails(id) /\ UNCHANGED dialogOpen
      BY <1>0, <2>0, <2>a, <3>1, <3>2, <3>3, FlowFails
    <3>4. CASE ~(~found \/ dialogOpen.id # NoDialog)
      <4>. DEFINE step == "picking"
                  n == dialogOpen.asked + 1
                  chosen == Choosing(overlay, "session")
      <4>1. /\ flows' = [flows EXCEPT ![id] = step] /\ dialogOpen' = [id |-> n, flow |-> id, asked |-> n]
            /\ overlay' = DialogShown(chosen, id, n)
        BY <2>6, <3>4 DEF FlowDiscovered, AskDialog, SetView
      <4>2. n \in 0..MaxQuestions /\ n # NoDialog /\ n \in Nat /\ step \in FlowSteps \cup SavedSessions /\ step \notin {"new", "done"}
        BY <1>0, <3>1, ResumeAssumption DEF NoDialog, FlowSteps
      <4>3. chosen \in ResumeViews /\ chosen.phase = "choosing" /\ chosen.selection = "session" /\ chosen.id = id /\ chosen.session = "none"
        BY <1>0, <3>2, FlowViews, Zenon
      <4>. HIDE DEF step, n, chosen
      <4>4. overlay' = [chosen EXCEPT !.picker = n]
        BY <4>1, <4>3 DEF DialogShown
      <4>5. overlay' \in ResumeViews /\ overlay'.picker = n /\ overlay'.phase = "choosing" /\ overlay'.id = id /\ overlay'.session = "none"
        BY <4>2, <4>3, <4>4, ListView
      <4>6. /\ flows' \in [FlowIds -> FlowSteps \cup SavedSessions] /\ flows'[id] = step
            /\ \A other \in FlowIds : other # id => flows'[other] = flows[other]
            /\ FlowsPending' = {id}
        BY <1>0, <3>2, <4>1, <4>2, FlowMoves, Zenon
      <4>7. \A other \in FlowIds : other # id => flows[other] # "picking"
        BY <3>2 DEF FlowsPending
      <4>8. ResumeShape'
        BY <1>0, <3>1, <4>1, <4>2, <4>5, <4>6 DEF ResumeShape
      <4>9. FlowInv'
        BY <4>5, <4>6 DEF FlowInv, Awaits
      <4>10. PickInv'
        BY <4>1, <4>2, <4>5, <4>6, <4>7, ResumeFacts DEF PickInv, step
      <4>. QED
        BY <2>a, <3>1, <4>8, <4>9, <4>10
    <3>. QED
      BY <2>6, <3>3, <3>4 DEF FlowDiscovered
  <2>7. ASSUME NEW id \in FlowIds, NEW opened \in BOOLEAN, FlowConfirmed(id, opened) PROVE ResumeInv'
    <3>1. /\ flows[id] = "confirming" /\ UNCHANGED <<dialogOpen, savedSessions, resumeShut>>
          /\ Fails(id) \/ EndsWithout(id)
      BY <2>7 DEF FlowConfirmed
    <3>2. id \in FlowsPending /\ flows[id] # "picking"
      BY <3>1 DEF FlowsPending
    <3>. QED
      BY <1>0, <2>0, <2>a, <3>1, <3>2, FlowFails
  <2>8. ASSUME NEW id \in FlowIds, NEW choice \in SavedSessions \cup {"cancel", "browse"}, Picked(id, choice) PROVE ResumeInv'
    <3>1. flows[id] = "picking" /\ dialogOpen.flow = id /\ dialogOpen' = NothingOpen /\ resumeShut' = resumeShut
      BY <2>8 DEF Picked
    <3>2. id \in FlowsPending
      BY <3>1 DEF FlowsPending
    <3>3. savedSessions \in [SavedSessions -> SessionStates]
      BY <1>0 DEF ResumeShape
    <3>4. CASE choice = "cancel"
      <4>1. EndsWithout(id) /\ savedSessions' = savedSessions
        BY <2>8, <3>4 DEF Picked
      <4>. QED
        BY <1>0, <2>0, <2>a, <3>1, <3>2, <4>1, FlowFails
    <3>5. CASE choice = "browse"
      <4>1. flows' = [flows EXCEPT ![id] = "browsing"] /\ overlay' = Choosing(FlowChosen(overlay), "file") /\ savedSessions' = savedSessions
        BY <2>8, <3>5 DEF Picked, SetView
      <4>. DEFINE step == "browsing"
                  selection == "file"
      <4>2. /\ step \in (FlowSteps \cup SavedSessions) \ {"picking", "new", "done"} /\ flows' = [flows EXCEPT ![id] = step]
            /\ selection \in {"file", "confirmation"} /\ overlay' = Choosing(FlowChosen(overlay), selection)
        BY <4>1 DEF FlowSteps
      <4>. HIDE DEF step, selection
      <4>. QED
        BY <1>0, <2>0, <2>a, <3>1, <3>2, <3>3, <4>1, <4>2, FlowTurns, Zenon
    <3>6. CASE choice \in SavedSessions
      <4>1. OpenChosen(id, choice) /\ overlay' = FlowChosen(overlay) /\ choice \in (FlowSteps \cup SavedSessions) \ {"picking", "new", "done"}
        BY <2>8, <3>6, ResumeFacts DEF Picked, SetView, FlowSteps
      <4>2. flows' = [flows EXCEPT ![id] = choice] /\ savedSessions' \in [SavedSessions -> SessionStates]
        BY <1>0, <3>6, <4>1, OpeningStarts
      <4>. QED
        BY <1>0, <2>0, <2>a, <3>1, <3>2, <4>1, <4>2, FlowTurns, Zenon
    <3>. QED
      BY <3>4, <3>5, <3>6
  <2>9. ASSUME NEW id \in FlowIds, NEW file \in SavedSessions \cup {"cancel", "unreadable", "elsewhere"}, Browsed(id, file) PROVE ResumeInv'
    <3>1. flows[id] = "browsing" /\ UNCHANGED <<dialogOpen, resumeShut>>
      BY <2>9 DEF Browsed
    <3>2. id \in FlowsPending /\ flows[id] # "picking"
      BY <3>1 DEF FlowsPending
    <3>3. savedSessions \in [SavedSessions -> SessionStates]
      BY <1>0 DEF ResumeShape
    <3>4. CASE file \in {"cancel", "unreadable"}
      <4>1. (EndsWithout(id) \/ Fails(id)) /\ savedSessions' = savedSessions
        BY <2>9, <3>4 DEF Browsed
      <4>. QED
        BY <1>0, <2>0, <2>a, <3>1, <3>2, <4>1, FlowFails
    <3>5. CASE file = "elsewhere"
      <4>1. flows' = [flows EXCEPT ![id] = "confirming"] /\ overlay' = Choosing(FlowChosen(overlay), "confirmation") /\ savedSessions' = savedSessions
        BY <2>9, <3>5 DEF Browsed, SetView
      <4>. DEFINE step == "confirming"
                  selection == "confirmation"
      <4>2. /\ step \in (FlowSteps \cup SavedSessions) \ {"picking", "new", "done"} /\ flows' = [flows EXCEPT ![id] = step]
            /\ selection \in {"file", "confirmation"} /\ overlay' = Choosing(FlowChosen(overlay), selection)
        BY <4>1 DEF FlowSteps
      <4>. HIDE DEF step, selection
      <4>. QED
        BY <1>0, <2>0, <2>a, <3>1, <3>2, <3>3, <4>1, <4>2, FlowTurns, Zenon
    <3>6. CASE file \in SavedSessions
      <4>1. OpenChosen(id, file) /\ overlay' = FlowChosen(overlay) /\ file \in (FlowSteps \cup SavedSessions) \ {"picking", "new", "done"}
        BY <2>9, <3>6, ResumeFacts DEF Browsed, SetView, FlowSteps
      <4>2. flows' = [flows EXCEPT ![id] = file] /\ savedSessions' \in [SavedSessions -> SessionStates]
        BY <1>0, <3>6, <4>1, OpeningStarts
      <4>. QED
        BY <1>0, <2>0, <2>a, <3>1, <3>2, <4>1, <4>2, FlowTurns, Zenon
    <3>. QED
      BY <3>4, <3>5, <3>6
  <2>10. CASE AskElsewhere
    <3>1. /\ dialogOpen.id = NoDialog /\ dialogOpen.asked < MaxQuestions /\ UNCHANGED <<flows, savedSessions, resumeShut>>
          /\ dialogOpen' = [id |-> dialogOpen.asked + 1, flow |-> NoFlow, asked |-> dialogOpen.asked + 1]
          /\ overlay' = DialogShown(overlay, NoFlow, dialogOpen.asked + 1)
      BY <2>10 DEF AskElsewhere, AskDialog, SetView
    <3>2. overlay' = overlay
      <4>1. overlay.phase = "choosing" => overlay.id # NoFlow
        BY <2>0, ResumeFacts DEF FlowInv, Awaits
      <4>. QED
        BY <3>1, <4>1 DEF DialogShown
    <3>3. dialogOpen'.flow = NoFlow /\ dialogOpen'.id \in Nat /\ dialogOpen'.id # NoDialog /\ dialogOpen'.asked \in 0..MaxQuestions
          /\ dialogOpen' \in [id : Nat, flow : FlowIds \cup {NoFlow}, asked : 0..MaxQuestions]
      BY <1>0, <3>1, ResumeAssumption DEF NoDialog
    <3>4. dialogOpen.flow = NoFlow /\ overlay.picker = NoDialog /\ FlowsPending' = FlowsPending
      BY <2>0, <3>1 DEF PickInv, FlowsPending
    <3>5. ResumeShape' /\ FlowInv' /\ PickInv'
      BY <1>0, <2>0, <3>1, <3>2, <3>3, <3>4 DEF ResumeShape, FlowInv, PickInv, Awaits
    <3>. QED
      BY <2>a, <3>1, <3>5
  <2>11. CASE AnswerElsewhere
    <3>1. dialogOpen.flow = NoFlow /\ dialogOpen' = NothingOpen /\ UNCHANGED <<overlay, flows, savedSessions, resumeShut>>
      BY <2>11 DEF AnswerElsewhere
    <3>2. dialogOpen'.id = NoDialog /\ dialogOpen'.flow = NoFlow /\ dialogOpen' \in [id : Nat, flow : FlowIds \cup {NoFlow}, asked : 0..MaxQuestions]
          /\ FlowsPending' = FlowsPending
      BY <1>0, <3>1 DEF NothingOpen, NoDialog, ResumeShape, FlowsPending
    <3>3. ResumeShape' /\ FlowInv' /\ PickInv'
      BY <1>0, <2>0, <3>1, <3>2 DEF ResumeShape, FlowInv, PickInv, Awaits
    <3>. QED
      BY <2>a, <3>1, <3>3
  <2>12. CASE DisposeResume
    <3>1. /\ overlay' = Hidden0 /\ dialogOpen' = NothingOpen /\ resumeShut' = TRUE /\ UNCHANGED <<flows, savedSessions>>
      BY <2>12 DEF DisposeResume
    <3>2. dialogOpen'.id = NoDialog /\ dialogOpen'.flow = NoFlow /\ dialogOpen' \in [id : Nat, flow : FlowIds \cup {NoFlow}, asked : 0..MaxQuestions]
      BY <1>0, <3>1 DEF NothingOpen, NoDialog, ResumeShape
    <3>. QED
      BY <1>0, <3>1, <3>2, ResumeFacts DEF ResumeInv, ResumeShape
  <2>13. ASSUME NEW s \in SavedSessions, RegistryChanged(s) PROVE ResumeInv'
    <3>1. PICK session \in Changes(savedSessions[s]) :
            /\ savedSessions' = [savedSessions EXCEPT ![s] = session]
            /\ overlay' = RefreshView(overlay, savedSessions')
      BY <2>13, Zenon DEF RegistryChanged, SetView
    <3>2. UNCHANGED <<flows, dialogOpen, resumeShut>> /\ FlowsPending' = FlowsPending
      BY <2>13 DEF RegistryChanged, FlowsPending
    <3>3. savedSessions' \in [SavedSessions -> SessionStates]
      <4>1. savedSessions \in [SavedSessions -> SessionStates]
        BY <1>0 DEF ResumeShape
      <4>2. session \in SessionStates
        BY <3>1, <4>1, ResumeChanges
      <4>. QED
        BY <3>1, <4>1, <4>2
    <3>. DEFINE sessions == savedSessions'
                underWay == FlowsPending
    <3>4. overlay.session # "none" => underWay = {} /\ overlay.picker = NoDialog
      BY <1>0, <2>0, NoList
    <3>5. overlay.session = "none" => Awaits(overlay, sessions, underWay)
      BY <2>0 DEF FlowInv, Awaits
    <3>6. sessions \in [SavedSessions -> SessionStates] /\ overlay' = RefreshView(overlay, sessions)
      BY <3>1, <3>3
    <3>. HIDE DEF sessions, underWay
    <3>7. /\ overlay' \in ResumeViews /\ Awaits(overlay', sessions, underWay)
          /\ overlay.session = "none" => overlay' = overlay
          /\ overlay.session # "none" => overlay'.picker = NoDialog
      BY <1>0, <3>4, <3>5, <3>6, Refreshed
    <3>8. ResumeShape' /\ FlowInv'
      <4>1. ResumeShape'
        BY <1>0, <3>2, <3>3, <3>7 DEF ResumeShape
      <4>2. Awaits(overlay, savedSessions, FlowsPending)'
        BY <3>2, <3>7 DEF Awaits, sessions, underWay
      <4>3. \A id \in FlowsPending : /\ overlay'.id = id /\ overlay'.phase \in {"finding", "choosing", "opening"}
                                     /\ overlay'.session = "none"
        BY <2>0, <3>4, <3>7 DEF FlowInv, underWay
      <4>. QED
        BY <3>2, <4>1, <4>2, <4>3 DEF FlowInv
    <3>9. PickInv'
      <4>1. CASE overlay.session = "none"
        BY <2>0, <3>2, <3>7, <4>1 DEF PickInv
      <4>2. CASE overlay.session # "none"
        <5>1. dialogOpen.flow = NoFlow
          BY <1>0, <2>0, <3>4, <4>2, NoList DEF underWay
        <5>. QED
          BY <2>0, <3>2, <3>7, <4>2, <5>1 DEF PickInv
      <4>. QED
        BY <4>1, <4>2
    <3>. QED
      BY <2>a, <3>2, <3>8, <3>9
  <2>. QED
    BY <1>1, <2>1, <2>2, <2>3, <2>4, <2>5, <2>6, <2>7, <2>8, <2>9, <2>10, <2>11, <2>12, <2>13 DEF ResumeSteps
\* The registry still changes behind a closed window, and a dialog is not there to answer.
<1>3. CASE resumeShut
  <2>1. overlay = Hidden0 /\ dialogOpen.id = NoDialog /\ dialogOpen.flow = NoFlow
    BY <1>3 DEF ResumeInv
  <2>2. ASSUME ResumeSteps PROVE FALSE
    <3>1. /\ ~CanAnswer /\ ~overlay.visible /\ overlay.phase = "none" /\ overlay.id = NoFlow
      BY <2>1 DEF CanAnswer, OverPage, InOverlay, Hidden0
    <3>2. \A id \in FlowIds : id # overlay.id
      BY <3>1, ResumeFacts
    <3>. QED
      BY <1>3, <2>2, <3>1, <3>2, Zenon DEF ResumeSteps, ResumeSession, ShowOverlay, DismissOverlay, FlowOpened, FlowDiscovered,
         FlowConfirmed, Picked, Browsed, HideOverlay, AskElsewhere, AnswerElsewhere, DisposeResume, RegistryChanged
  <2>. QED
    BY <1>1, <2>2
<1>. QED
  BY <1>0, <1>2, <1>3

\* The invariant of the flow holds at the start.
LEMMA ResumeStartsRight ==
  ASSUME ResumeStarts
  PROVE  ResumeInv
<1>1. /\ overlay = Hidden0 /\ flows = [id \in FlowIds |-> "new"] /\ dialogOpen = [id |-> NoDialog, flow |-> NoFlow, asked |-> 0]
      /\ resumeShut = FALSE
  BY DEF ResumeStarts
<1>2. savedSessions \in [SavedSessions -> SessionStates]
  BY DEF ResumeStarts, SessionStates
<1>3. FlowsPending = {}
  BY <1>1 DEF FlowsPending
<1>4. ResumeShape
  <2>1. flows \in [FlowIds -> FlowSteps \cup SavedSessions]
    BY <1>1 DEF FlowSteps
  <2>2. dialogOpen \in [id : Nat, flow : FlowIds \cup {NoFlow}, asked : 0..MaxQuestions]
    BY <1>1, ResumeAssumption DEF NoDialog
  <2>. QED
    BY <1>1, <1>2, <2>1, <2>2, ResumeFacts, Zenon DEF ResumeShape
<1>. QED
  BY <1>1, <1>3, <1>4, ResumeFacts DEF ResumeInv, FlowInv, Awaits, PickInv

\* The invariant of the flow is stronger than what is promised of it.
LEMMA ResumeHonestNow ==
  ASSUME ResumeInv
  PROVE  ResumeTypes /\ ResumeHonest
<1>1. ResumeTypes
  BY DEF ResumeInv, ResumeShape, ResumeViews, FlowSteps, ResumeTypes
<1>2. OneFlow
  BY DEF ResumeInv, FlowInv, OneFlow
<1>3. NeverStuck
  <2>1. CASE resumeShut
    BY <2>1, ResumeFacts DEF ResumeInv, NeverStuck
  <2>2. CASE ~resumeShut
    BY <2>2 DEF ResumeInv, FlowInv, Awaits, NeverStuck
  <2>. QED
    BY <2>1, <2>2
<1>4. OwnPicker
  <2>1. CASE resumeShut
    BY <2>1 DEF ResumeInv, OwnPicker
  <2>2. ASSUME ~resumeShut, dialogOpen.id # NoDialog PROVE InOverlay <=> dialogOpen.flow \in FlowsPending
    <3>1. PickInv /\ dialogOpen.flow \in FlowIds \cup {NoFlow}
      BY <2>2 DEF ResumeInv, ResumeShape
    <3>2. dialogOpen.flow # NoFlow => dialogOpen.flow \in FlowsPending
      BY <3>1 DEF PickInv, FlowsPending
    <3>3. dialogOpen.flow \in FlowsPending => dialogOpen.flow # NoFlow
      BY ResumeFacts DEF FlowsPending
    <3>. QED
      BY <2>2, <3>1, <3>2, <3>3 DEF PickInv, InOverlay
  <2>. QED
    BY <2>1, <2>2 DEF OwnPicker
<1>. QED
  BY <1>1, <1>2, <1>3, <1>4 DEF ResumeHonest

\* One flow is under way at most, its overlay says what it waits for until that has come,
\* and the list the flow picks from, and nothing else, is in the overlay.
THEOREM ResumeStaysHonest ==
  ResumeStarts /\ [][ResumeSteps]_resumeVars => [](ResumeTypes /\ ResumeHonest)
<1>1. ResumeStarts => ResumeInv
  BY ResumeStartsRight
<1>2. ResumeInv /\ [ResumeSteps]_resumeVars => ResumeInv'
  BY ResumeStepKeeps
<1>3. ResumeInv => ResumeTypes /\ ResumeHonest
  BY ResumeHonestNow
<1>. QED
  BY <1>1, <1>2, <1>3, PTL

-----------------------------------------------------------------------------
(* The suggestions.                                                          *)

SearchStates ==
    [pc : {"new", "asked", "discovering", "searching", "done"}, version : 0..MaxSearches,
     end : SearchEnds \cup {"none", "superseded"}, fd : {"none", "running", "killed", "closing", "gone"}]
Finders ==
    [version : Nat, active : SearchIds \cup {NoSearch}, found : {"unknown", "looking", "modern", "legacy"}, disposed : BOOLEAN]

SuggestionShape ==
    /\ query \in [id : SearchIds \cup {NoSearch}, shows : SuggestionShows]
    /\ asking \in Seq(SearchIds)
    /\ \E S : answers \in Seq(S)
    /\ search \in [SearchIds -> SearchStates]
    /\ finderFd \in Finders

\* Searches are asked for one after the other and reach the host in that order, and
\* the composer waits for the last of them or for none.
AskedInOrder ==
    /\ \E n \in 0..MaxSearches : \A id \in SearchIds : search[id].pc # "new" <=> id <= n
    /\ \A i, j \in DOMAIN asking : i < j => asking[i] < asking[j]
    /\ \A i \in DOMAIN asking :
         /\ search[asking[i]].pc = "asked"
         /\ \A id \in SearchIds : search[id].pc \notin {"new", "asked"} => id < asking[i]
    /\ query.id # NoSearch => \A id \in SearchIds : search[id].pc # "new" => id <= query.id

\* Every search that was begun has a version of its own; what the composer waits for
\* is of the newest.
VersionsRise ==
    /\ \A id \in SearchIds :
         /\ search[id].version <= finderFd.version
         /\ search[id].pc \in {"new", "asked"} => search[id].version = 0 /\ search[id].end = "none"
         /\ search[id].pc \in {"discovering", "searching"} => search[id].version # 0
         /\ search[id].pc \in {"new", "asked", "discovering"} => search[id].fd = "none"
    /\ \A id, other \in SearchIds : search[id].version = search[other].version /\ search[id].version # 0 => id = other
    /\ finderFd.disposed => \A id \in SearchIds : search[id].version < finderFd.version
    /\ ~finderFd.disposed =>
         /\ finderFd.version <= MaxSearches
         /\ \A id \in SearchIds : search[id].pc = "new" => finderFd.version < id
         /\ \A i \in DOMAIN asking : finderFd.version < asking[i]
         /\ \A id \in SearchIds : (search[id].version # 0 /\ search[id].version < finderFd.version) \/ search[id].end = "superseded"
                                     => query.id # id

\* The fd that runs is of the newest search, and the host holds it.
FdKnown == \A id \in SearchIds : search[id].fd = "running" => Current(id) /\ finderFd.active = id /\ ~finderFd.disposed

\* What an answer says is what its search found, unless it was superseded.
AnswerTrue(answer) ==
    /\ answer.end \in SearchEnds
    /\ answer.end # "error" =>
         /\ answer.id \in SearchIds /\ search[answer.id].pc = "done"
         /\ search[answer.id].end \in {answer.end, "superseded"}
         /\ answer.end = "files" => search[answer.id].end = "files"
AnswersTrue == \A i \in DOMAIN answers : AnswerTrue(answers[i])
ShownTrue ==
    query.shows \in {"files", "no files"} =>
        query.id # NoSearch /\ search[query.id].pc = "done" /\ search[query.id].end = query.shows

SuggestionInv == SuggestionShape /\ AskedInOrder /\ VersionsRise /\ FdKnown /\ AnswersTrue /\ ShownTrue

\* Searches are numbered.
LEMMA SearchFacts ==
  /\ NoSearch \notin SearchIds /\ SearchIds \subseteq Nat /\ IsFiniteSet(SearchIds) /\ MaxSearches \in Nat
  /\ \A n \in 0..MaxSearches : Cardinality(1..n) = n
  /\ SearchEnds \subseteq SuggestionShows
<1>1. MaxSearches \in Nat /\ NoSearch \notin SearchIds /\ SearchIds \subseteq Nat /\ SearchEnds \subseteq SuggestionShows
  BY SuggestionAssumption DEF SearchIds, NoSearch, SearchEnds, SuggestionShows
<1>2. IsFiniteSet(SearchIds)
  BY <1>1, FS_Interval DEF SearchIds
<1>3. \A n \in 0..MaxSearches : Cardinality(1..n) = n
  BY <1>1, FS_Interval
<1>. QED
  BY <1>1, <1>2, <1>3

\* The next search to ask for is the least that was not begun.
LEMMA NextSearch ==
  ASSUME AskedInOrder, SuggestionShape
  PROVE  LET n == Cardinality({i \in SearchIds : search[i].pc # "new"}) IN
         n \in 0..MaxSearches /\ \A id \in SearchIds : search[id].pc # "new" <=> id <= n
<1>1. PICK n \in 0..MaxSearches : \A id \in SearchIds : search[id].pc # "new" <=> id <= n
  BY DEF AskedInOrder
<1>2. {i \in SearchIds : search[i].pc # "new"} = 1..n
  BY <1>1, SearchFacts DEF SearchIds
<1>. QED
  BY <1>1, <1>2, SearchFacts, Zenon

\* Answers stay a sequence.
LEMMA OneMoreAnswer ==
  ASSUME NEW S, NEW s \in Seq(S), NEW x
  PROVE  /\ \E T : Append(s, x) \in Seq(T)
         /\ \A i \in DOMAIN Append(s, x) : Append(s, x)[i] = x \/ (i \in DOMAIN s /\ Append(s, x)[i] = s[i])
<1>1. s \in Seq(S \cup {x})
  OBVIOUS
<1>2. Append(s, x) \in Seq(S \cup {x}) /\ \A i \in DOMAIN Append(s, x) : Append(s, x)[i] = x \/ (i \in DOMAIN s /\ Append(s, x)[i] = s[i])
  BY <1>1
<1>. QED
  BY <1>2
\* Answers that join others stay a sequence.
LEMMA MoreAnswers ==
  ASSUME NEW S, NEW s \in Seq(S), NEW T, NEW t \in Seq(T)
  PROVE  /\ \E U : s \o t \in Seq(U)
         /\ \A i \in DOMAIN (s \o t) : (i \in DOMAIN s /\ (s \o t)[i] = s[i]) \/ \E j \in DOMAIN t : (s \o t)[i] = t[j]
<1>1. s \in Seq(S \cup T) /\ t \in Seq(S \cup T)
  OBVIOUS
<1>2. s \o t \in Seq(S \cup T)
  BY <1>1
<1>3. ASSUME NEW i \in DOMAIN (s \o t) PROVE (i \in DOMAIN s /\ (s \o t)[i] = s[i]) \/ \E j \in DOMAIN t : (s \o t)[i] = t[j]
  <2>1. CASE i <= Len(s)
    BY <1>1, <2>1
  <2>2. CASE i > Len(s)
    <3>1. i - Len(s) \in DOMAIN t /\ (s \o t)[i] = t[i - Len(s)]
      BY <1>1, <2>2
    <3>. QED
      BY <3>1
  <2>. QED
    BY <1>1, <2>1, <2>2
<1>. QED
  BY <1>2, <1>3
\* The first answer and the others.
LEMMA FewerAnswers ==
  ASSUME NEW S, NEW s \in Seq(S), s # <<>>
  PROVE  /\ Tail(s) \in Seq(S) /\ Head(s) = s[1] /\ 1 \in DOMAIN s
         /\ \A i \in DOMAIN Tail(s) : i + 1 \in DOMAIN s /\ Tail(s)[i] = s[i + 1] /\ i \in Nat
  OBVIOUS

\* A search that the host has begun goes on, ends, or its fd does.
LEMMA SearchGoesOn ==
  ASSUME SuggestionInv, NEW id \in SearchIds, NEW s \in SearchStates, NEW said \in SearchEnds,
         search[id].pc \notin {"new", "asked"},
         search' = [search EXCEPT ![id] = s], UNCHANGED <<query, asking>>,
         finderFd' \in Finders, finderFd'.version = finderFd.version, finderFd'.disposed = finderFd.disposed,
         s.version = search[id].version, s.pc \in {"searching", "done"},
         search[id].pc = "done" => s.pc = "done" /\ s.end = search[id].end,
         s.pc = "searching" => s.version # 0,
         s.end = "superseded" => search[id].end = "superseded" \/ (~Current(id) /\ s.version # 0),
         s.fd = "running" => finderFd'.active = id /\ Current(id) /\ ~finderFd.disposed,
         \A other \in SearchIds : other # id /\ search[other].fd = "running" => finderFd'.active = other,
         answers' = answers \/ answers' = Append(answers, [id |-> id, end |-> said]),
         said # "error" => s.pc = "done" /\ s.end \in {said, "superseded"} /\ (said = "files" => s.end = "files")
  PROVE  SuggestionInv'
<1>1. /\ search' \in [SearchIds -> SearchStates] /\ search'[id] = s /\ \A other \in SearchIds : other # id => search'[other] = search[other]
      /\ search \in [SearchIds -> SearchStates]
  BY DEF SuggestionInv, SuggestionShape
<1>2. /\ finderFd' \in Finders /\ finderFd'.version = finderFd.version /\ finderFd'.disposed = finderFd.disposed
      /\ finderFd \in Finders
  BY DEF SuggestionInv, SuggestionShape
<1>3. \A other \in SearchIds :
        /\ search'[other].version = search[other].version
        /\ search'[other].pc # "new" <=> search[other].pc # "new"
        /\ search'[other].pc \notin {"new", "asked"} <=> search[other].pc \notin {"new", "asked"}
        /\ search[other].pc = "asked" => search'[other].pc = "asked"
        /\ search[other].pc = "done" => search'[other].pc = "done" /\ search'[other].end = search[other].end
  BY <1>1
<1>4. \E S : answers' \in Seq(S)
  <2>1. PICK S : answers \in Seq(S)
    BY DEF SuggestionInv, SuggestionShape
  <2>2. \A x : \E T : Append(answers, x) \in Seq(T)
    BY <2>1, OneMoreAnswer, Zenon
  <2>. QED
    BY <2>1, <2>2, Zenon
<1>5. SuggestionShape'
  BY <1>1, <1>2, <1>4 DEF SuggestionInv, SuggestionShape
<1>6. AskedInOrder'
  <2>1. \A i \in DOMAIN asking : asking[i] \in SearchIds
    BY DEF SuggestionInv, SuggestionShape
  <2>. QED
    BY <1>3, <2>1 DEF SuggestionInv, AskedInOrder
<1>7. VersionsRise'
  <2>1. ASSUME NEW other \in SearchIds, search'[other].end = "superseded", ~finderFd.disposed PROVE query.id # other
    <3>1. CASE other # id
      BY <1>1, <2>1, <3>1 DEF SuggestionInv, VersionsRise
    <3>2. CASE other = id
      <4>1. search[id].end = "superseded" \/ (search[id].version # 0 /\ search[id].version < finderFd.version)
        <5>1. search[id].version <= finderFd.version /\ search[id].version \in Nat /\ finderFd.version \in Nat
          BY <1>1, <1>2 DEF SuggestionInv, VersionsRise, SearchStates, Finders
        <5>. QED
          BY <1>1, <2>1, <3>2, <5>1 DEF Current, Version
      <4>. QED
        BY <2>1, <3>2, <4>1 DEF SuggestionInv, VersionsRise
    <3>. QED
      BY <3>1, <3>2
  <2>2. \A other \in SearchIds :
         /\ search'[other].version <= finderFd'.version
         /\ search'[other].pc \in {"new", "asked"} => search'[other].version = 0 /\ search'[other].end = "none"
         /\ search'[other].pc \in {"discovering", "searching"} => search'[other].version # 0
         /\ search'[other].pc \in {"new", "asked", "discovering"} => search'[other].fd = "none"
    BY <1>1, <1>2 DEF SuggestionInv, VersionsRise
  <2>. QED
    BY <1>2, <1>3, <2>1, <2>2 DEF SuggestionInv, VersionsRise
<1>8. FdKnown'
  BY <1>1, <1>2, <1>3 DEF SuggestionInv, FdKnown, Current, Version
<1>9. AnswersTrue'
  <2>1. ASSUME NEW answer, AnswerTrue(answer) PROVE AnswerTrue(answer)'
    BY <1>3, <2>1 DEF AnswerTrue
  <2>2. CASE answers' = answers
    BY <2>1, <2>2 DEF SuggestionInv, AnswersTrue, AnswerTrue
  <2>3. CASE answers' = Append(answers, [id |-> id, end |-> said])
    <3>. DEFINE x == [id |-> id, end |-> said]
    <3>1. AnswerTrue(x)'
      BY <1>1, <2>3 DEF AnswerTrue
    <3>2. answers' = Append(answers, x)
      BY <2>3
    <3>. HIDE DEF x
    <3>3. \A i \in DOMAIN answers' : answers'[i] = x \/ (i \in DOMAIN answers /\ answers'[i] = answers[i])
      BY <3>2, OneMoreAnswer DEF SuggestionInv, SuggestionShape
    <3>. QED
      BY <2>1, <3>1, <3>3 DEF SuggestionInv, AnswersTrue
  <2>. QED
    BY <2>2, <2>3
<1>10. ShownTrue'
  BY <1>3, Zenon DEF SuggestionInv, SuggestionShape, ShownTrue
<1>. QED
  BY <1>5, <1>6, <1>7, <1>8, <1>9, <1>10 DEF SuggestionInv

\* Of a search that is superseded only the process changes.
LEMMA KillStops ==
  ASSUME SuggestionInv, NEW s, s = KillActive(search)
  PROVE  /\ s \in [SearchIds -> SearchStates]
         /\ \A id \in SearchIds : /\ s[id].pc = search[id].pc /\ s[id].version = search[id].version /\ s[id].end = search[id].end
                                 /\ s[id].fd # "running" /\ (search[id].fd = "none" => s[id].fd = "none")
<1>1. search \in [SearchIds -> SearchStates] /\ finderFd.active \in SearchIds \cup {NoSearch}
  BY DEF SuggestionInv, SuggestionShape, Finders
<1>2. CASE finderFd.active = NoSearch
  <2>1. s = search
    BY <1>2 DEF KillActive
  <2>. QED
    BY <1>1, <1>2, <2>1, SearchFacts DEF SuggestionInv, FdKnown
<1>3. CASE finderFd.active # NoSearch
  <2>. DEFINE a == finderFd.active
              killed == [search[a] EXCEPT !.fd = IF @ = "running" THEN "killed" ELSE @]
  <2>1. a \in SearchIds /\ s = [search EXCEPT ![a] = killed]
    BY <1>1, <1>3 DEF KillActive
  <2>2. killed \in SearchStates /\ killed.pc = search[a].pc /\ killed.version = search[a].version /\ killed.end = search[a].end
        /\ killed.fd # "running" /\ (search[a].fd = "none" => killed.fd = "none")
    BY <1>1, <2>1 DEF SearchStates
  <2>3. \A id \in SearchIds : id # a => search[id].fd # "running"
    BY DEF SuggestionInv, FdKnown
  <2>. HIDE DEF a, killed
  <2>. QED
    BY <1>1, <2>1, <2>2, <2>3
<1>. QED
  BY <1>2, <1>3

\* The composer asks for the next search or gives up the one it waits for.
LEMMA CompleteKeeps ==
  ASSUME SuggestionInv, NEW ask \in BOOLEAN, Complete(ask)
  PROVE  SuggestionInv'
<1>. DEFINE n == Cardinality({i \in SearchIds : search[i].pc # "new"})
<1>1. n \in 0..MaxSearches /\ (\A id \in SearchIds : search[id].pc # "new" <=> id <= n) /\ n \in Nat
  BY NextSearch, SearchFacts DEF SuggestionInv
<1>2. UNCHANGED <<answers, finderFd>>
  BY DEF Complete
<1>a. ASSUME ask PROVE n + 1 <= MaxSearches /\ query' = [id |-> n + 1, shows |-> "waiting"] /\ asking' = Append(asking, n + 1)
                       /\ search' = [search EXCEPT ![n + 1].pc = "asked"]
  BY <1>a DEF Complete
<1>. HIDE DEF n
<1>3. CASE ~ask
  <2>1. query' = [id |-> NoSearch, shows |-> "nothing"] /\ asking' = asking /\ search' = search
    BY <1>3 DEF Complete
  <2>2. query'.id = NoSearch /\ query'.shows = "nothing" /\ query' \in [id : SearchIds \cup {NoSearch}, shows : SuggestionShows]
        /\ (\A id \in SearchIds : query'.id # id)
    BY <2>1, SearchFacts, Zenon DEF SuggestionShows
  <2>3. SuggestionShape' /\ AskedInOrder'
    BY <1>2, <2>1, <2>2 DEF SuggestionInv, SuggestionShape, AskedInOrder
  <2>4. VersionsRise'
    BY <1>2, <2>1, <2>2 DEF SuggestionInv, VersionsRise
  <2>5. FdKnown' /\ AnswersTrue' /\ ShownTrue'
    BY <1>2, <2>1, <2>2, Zenon DEF SuggestionInv, FdKnown, Current, Version, AnswersTrue, AnswerTrue, ShownTrue
  <2>. QED
    BY <2>3, <2>4, <2>5 DEF SuggestionInv
<1>4. CASE ask
  <2>. DEFINE new == n + 1
              s == [search[new] EXCEPT !.pc = "asked"]
  <2>1. /\ new \in SearchIds /\ query' = [id |-> new, shows |-> "waiting"] /\ asking' = Append(asking, new)
        /\ search' = [search EXCEPT ![new] = s]
    <3>1. n + 1 <= MaxSearches /\ n + 1 \in SearchIds
      BY <1>1, <1>a, <1>4, SearchFacts DEF SearchIds
    <3>. QED
      BY <1>a, <1>4, <3>1
  <2>2. search[new].pc = "new" /\ search \in [SearchIds -> SearchStates]
    BY <1>1, <2>1 DEF SuggestionInv, SuggestionShape
  <2>3. s \in SearchStates /\ s.pc = "asked" /\ s.version = search[new].version /\ s.end = search[new].end /\ s.fd = search[new].fd
    BY <2>1, <2>2, Zenon DEF SearchStates
  <2>4. \A id \in SearchIds : search[id].pc # "new" => id < new
    BY <1>1, SearchFacts
  <2>5. \A id \in SearchIds : (search[id].pc # "new" \/ id = new) <=> id <= new
    BY <1>1, <2>1, <2>2, SearchFacts
  <2>6. search[new].fd = "none" /\ search[new].version = 0 /\ search[new].end = "none" /\ (~finderFd.disposed => finderFd.version < new)
    BY <2>1, <2>2 DEF SuggestionInv, VersionsRise
  <2>. HIDE DEF s, new
  <2>7. /\ search' \in [SearchIds -> SearchStates] /\ search'[new] = s
        /\ \A other \in SearchIds : other # new => search'[other] = search[other]
    BY <2>1, <2>2, <2>3
  <2>8. /\ asking' \in Seq(SearchIds) /\ asking \in Seq(SearchIds)
        /\ \A i \in DOMAIN asking : i \in DOMAIN asking' /\ asking'[i] = asking[i] /\ asking[i] \in SearchIds
        /\ \A i \in DOMAIN asking' : (i \in DOMAIN asking /\ asking'[i] = asking[i])
                                     \/ (asking'[i] = new /\ \A j \in DOMAIN asking' : j <= i)
        /\ DOMAIN asking' \subseteq Nat
    BY <2>1 DEF SuggestionInv, SuggestionShape
  <2>9. SuggestionShape'
    BY <1>2, <2>1, <2>7, <2>8, Zenon DEF SuggestionInv, SuggestionShape, SuggestionShows
  <2>10. \A i \in DOMAIN asking : asking[i] < new
    BY <2>4, <2>8 DEF SuggestionInv, AskedInOrder
  <2>11. AskedInOrder'
    <3>1. \E m \in 0..MaxSearches : \A id \in SearchIds : search'[id].pc # "new" <=> id <= m
      <4>1. new \in 0..MaxSearches
        BY <2>1 DEF SearchIds
      <4>2. \A id \in SearchIds : search'[id].pc # "new" <=> id <= new
        BY <2>3, <2>5, <2>7
      <4>. QED
        BY <4>1, <4>2
    <3>2. \A i, j \in DOMAIN asking' : i < j => asking'[i] < asking'[j]
      <4>1. ASSUME NEW i \in DOMAIN asking', NEW j \in DOMAIN asking', i < j PROVE asking'[i] < asking'[j]
        <5>1. i \in Nat /\ j \in Nat
          BY <2>8
        <5>2. i \in DOMAIN asking /\ asking'[i] = asking[i]
          BY <2>8, <4>1, <5>1
        <5>. QED
          BY <2>8, <2>10, <4>1, <5>2 DEF SuggestionInv, AskedInOrder
      <4>. QED
        BY <4>1
    <3>3. \A i \in DOMAIN asking' :
            /\ search'[asking'[i]].pc = "asked"
            /\ \A id \in SearchIds : search'[id].pc \notin {"new", "asked"} => id < asking'[i]
      BY <2>3, <2>4, <2>7, <2>8 DEF SuggestionInv, AskedInOrder
    <3>4. query'.id = new /\ \A id \in SearchIds : search'[id].pc # "new" => id <= new
      BY <2>1, <2>5, <2>7
    <3>. QED
      BY <3>1, <3>2, <3>3, <3>4 DEF AskedInOrder
  <2>12. VersionsRise'
    <3>1. \A id \in SearchIds :
            /\ search'[id].version = search[id].version /\ search'[id].end = search[id].end /\ search'[id].fd = search[id].fd
            /\ search'[id].pc = search[id].pc \/ (id = new /\ search'[id].pc = "asked" /\ search[id].pc = "new")
      BY <2>2, <2>3, <2>7
    <3>2. query'.id = new
      BY <2>1
    <3>. QED
      BY <1>2, <2>6, <2>8, <3>1, <3>2 DEF SuggestionInv, VersionsRise
  <2>13. FdKnown'
    BY <1>2, <2>3, <2>6, <2>7 DEF SuggestionInv, FdKnown, Current, Version
  <2>14. AnswersTrue'
    BY <1>2, <2>2, <2>7 DEF SuggestionInv, AnswersTrue, AnswerTrue
  <2>15. ShownTrue'
    BY <2>1 DEF ShownTrue
  <2>. QED
    BY <2>9, <2>11, <2>12, <2>13, <2>14, <2>15 DEF SuggestionInv
<1>. QED
  BY <1>3, <1>4

\* The composer takes what came back for the search it waits for.
LEMMA ShowsKeep ==
  ASSUME SuggestionInv, UNCHANGED <<asking, search, finderFd>>, \E S : answers' \in Seq(S),
         query' \in [id : SearchIds \cup {NoSearch}, shows : SuggestionShows], query'.id = query.id,
         \A i \in DOMAIN answers' : AnswerTrue(answers'[i]),
         query' # query => ShownTrue'
  PROVE  SuggestionInv'
<1>1. SuggestionShape' /\ AskedInOrder' /\ VersionsRise' /\ FdKnown'
  BY DEF SuggestionInv, SuggestionShape, AskedInOrder, VersionsRise, FdKnown, Current, Version
<1>2. AnswersTrue'
  BY DEF AnswersTrue, AnswerTrue
<1>3. ShownTrue'
  BY Zenon DEF SuggestionInv, ShownTrue
<1>. QED
  BY <1>1, <1>2, <1>3 DEF SuggestionInv

\* An answer that comes, or none in time, keeps the invariant of the search.
LEMMA AnswersKeep ==
  ASSUME SuggestionInv, ClientTimesOut \/ Deliver
  PROVE  SuggestionInv'
<1>1. CASE ClientTimesOut
  <2>1. UNCHANGED <<asking, answers, search, finderFd>> /\ (query' = query \/ query' = [query EXCEPT !.shows = "error"])
    BY <1>1 DEF ClientTimesOut, FinishSearch
  <2>2. query' \in [id : SearchIds \cup {NoSearch}, shows : SuggestionShows] /\ query'.id = query.id
        /\ (query' # query => query'.shows = "error")
    BY <2>1, Zenon DEF SuggestionInv, SuggestionShape, SuggestionShows
  <2>3. (query' # query => ShownTrue') /\ (\E S : answers' \in Seq(S)) /\ \A i \in DOMAIN answers' : AnswerTrue(answers'[i])
    BY <2>1, <2>2, Zenon DEF ShownTrue, SuggestionInv, SuggestionShape, AnswersTrue
  <2>. QED
    BY <2>1, <2>2, <2>3, ShowsKeep
<1>2. CASE Deliver
  <2>. DEFINE first == answers[1]
  <2>1. PICK S : answers \in Seq(S)
    BY DEF SuggestionInv, SuggestionShape
  <2>2. answers' = Tail(answers) /\ answers # <<>> /\ ~finderFd.disposed /\ UNCHANGED <<asking, search, finderFd>>
    BY <1>2 DEF Deliver
  <2>3. /\ answers' \in Seq(S) /\ Head(answers) = first /\ 1 \in DOMAIN answers
        /\ \A i \in DOMAIN answers' : i + 1 \in DOMAIN answers /\ answers'[i] = answers[i + 1]
    BY <2>1, <2>2, FewerAnswers
  <2>4. AnswerTrue(first) /\ \A i \in DOMAIN answers' : AnswerTrue(answers'[i])
    BY <2>3 DEF SuggestionInv, AnswersTrue
  <2>5. query' = IF query = [id |-> first.id, shows |-> "waiting"] THEN [query EXCEPT !.shows = first.end] ELSE query
    BY <1>2, <2>3 DEF Deliver, FinishSearch
  <2>. HIDE DEF first
  <2>6. query \in [id : SearchIds \cup {NoSearch}, shows : SuggestionShows] /\ first.end \in SuggestionShows
    BY <2>4, SearchFacts DEF SuggestionInv, SuggestionShape, AnswerTrue
  <2>7. /\ query' \in [id : SearchIds \cup {NoSearch}, shows : SuggestionShows] /\ query'.id = query.id
        /\ query' # query => query.id = first.id /\ query'.shows = first.end
    BY <2>5, <2>6
  <2>8. ASSUME query' # query PROVE ShownTrue'
    <3>1. query'.id = first.id /\ query'.shows = first.end
      BY <2>7, <2>8
    <3>2. first.end \in {"files", "no files"} => first.id \in SearchIds /\ search[first.id].pc = "done" /\ search[first.id].end = first.end
      BY <2>2, <2>4, <2>7, <2>8, Zenon DEF AnswerTrue, SuggestionInv, VersionsRise
    <3>. QED
      BY <2>2, <3>1, <3>2, SearchFacts, Zenon DEF ShownTrue
  <2>. QED
    BY <2>2, <2>3, <2>4, <2>7, <2>8, ShowsKeep
<1>. QED
  BY <1>1, <1>2

\* The host takes the first request, whose search gets a version of its own or none.
LEMMA RequestTaken ==
  ASSUME SuggestionInv, asking # <<>>, asking' = Tail(asking), query' = query, ~finderFd.disposed,
         NEW id, id = asking[1], NEW s \in SearchStates, NEW k \in [SearchIds -> SearchStates], search' = [k EXCEPT ![id] = s],
         \A other \in SearchIds :
             /\ k[other].pc = search[other].pc /\ k[other].version = search[other].version /\ k[other].end = search[other].end
             /\ search[other].fd = "none" => k[other].fd = "none",
         s.pc \in {"discovering", "done"}, s.fd = "none", s.end \in {"none", "error"}, s.pc = "discovering" => s.version # 0,
         finderFd' \in Finders, finderFd'.disposed = finderFd.disposed,
         finderFd'.version = finderFd.version \/ finderFd'.version = finderFd.version + 1,
         s.version = 0 \/ (s.version = finderFd'.version /\ finderFd'.version = finderFd.version + 1),
         FdKnown', \E S : answers' \in Seq(S),
         \A i \in DOMAIN answers' : (i \in DOMAIN answers /\ answers'[i] = answers[i]) \/ answers'[i].end = "error"
  PROVE  SuggestionInv'
<1>1. /\ asking' \in Seq(SearchIds) /\ asking \in Seq(SearchIds) /\ 1 \in DOMAIN asking /\ id \in SearchIds /\ id \in Nat
      /\ \A i \in DOMAIN asking' : i + 1 \in DOMAIN asking /\ asking'[i] = asking[i + 1] /\ i \in Nat /\ i >= 1 /\ asking'[i] \in SearchIds
  <2>1. asking \in Seq(SearchIds)
    BY DEF SuggestionInv, SuggestionShape
  <2>2. \A i \in DOMAIN Tail(asking) : i + 1 \in DOMAIN asking /\ Tail(asking)[i] = asking[i + 1] /\ i \in Nat /\ i >= 1
    BY <2>1
  <2>3. 1 \in DOMAIN asking /\ Tail(asking) \in Seq(SearchIds)
    BY <2>1
  <2>4. \A i \in DOMAIN asking : asking[i] \in SearchIds
    BY <2>1
  <2>. QED
    BY <2>1, <2>2, <2>3, <2>4, SearchFacts, Zenon
<1>2. search[id].pc = "asked" /\ search[id].version = 0 /\ search[id].fd = "none" /\ finderFd.version < id
      /\ \A other \in SearchIds : search[other].pc \notin {"new", "asked"} => other < id
  BY <1>1 DEF SuggestionInv, AskedInOrder, VersionsRise
<1>3. \A i \in DOMAIN asking' : id < asking'[i] /\ search[asking'[i]].pc = "asked"
  BY <1>1 DEF SuggestionInv, AskedInOrder
<1>4. search \in [SearchIds -> SearchStates] /\ finderFd \in Finders /\ finderFd.version \in Nat /\ finderFd'.version \in Nat
  BY DEF SuggestionInv, SuggestionShape, Finders
<1>5. /\ search' \in [SearchIds -> SearchStates] /\ search'[id] = s
      /\ \A other \in SearchIds : other # id =>
           /\ search'[other].pc = search[other].pc /\ search'[other].version = search[other].version /\ search'[other].end = search[other].end
           /\ search[other].fd = "none" => search'[other].fd = "none"
  BY <1>1
<1>6. finderFd'.version <= id /\ id <= MaxSearches /\ s.version <= finderFd'.version /\ finderFd.version <= finderFd'.version
  BY <1>1, <1>2, <1>4, SearchFacts DEF SearchIds
<1>7. SuggestionShape'
  BY <1>1, <1>5 DEF SuggestionInv, SuggestionShape
<1>8. AskedInOrder'
  <2>1. \E n \in 0..MaxSearches : \A other \in SearchIds : search'[other].pc # "new" <=> other <= n
    <3>1. \A other \in SearchIds : search'[other].pc # "new" <=> search[other].pc # "new"
      BY <1>2, <1>5
    <3>. QED
      BY <3>1 DEF SuggestionInv, AskedInOrder
  <2>2. \A i, j \in DOMAIN asking' : i < j => asking'[i] < asking'[j]
    BY <1>1 DEF SuggestionInv, AskedInOrder
  <2>3. ASSUME NEW i \in DOMAIN asking'
        PROVE  /\ search'[asking'[i]].pc = "asked"
               /\ \A other \in SearchIds : search'[other].pc \notin {"new", "asked"} => other < asking'[i]
    <3>. DEFINE next == asking'[i]
    <3>1. next \in SearchIds /\ next \in Nat /\ id < next /\ search[next].pc = "asked"
      BY <1>1, <1>3, SearchFacts, Zenon
    <3>. HIDE DEF next
    <3>2. ASSUME NEW other \in SearchIds, search'[other].pc \notin {"new", "asked"} PROVE other < next
      <4>1. other = id \/ other < id
        BY <1>2, <1>5, <3>2
      <4>. QED
        BY <1>1, <3>1, <4>1, SearchFacts
    <3>3. search'[next].pc = "asked"
      BY <1>1, <1>5, <3>1
    <3>. QED
      BY <3>2, <3>3 DEF next
  <2>4. query'.id # NoSearch => \A other \in SearchIds : search'[other].pc # "new" => other <= query'.id
    BY <1>2, <1>5 DEF SuggestionInv, AskedInOrder
  <2>. QED
    BY <2>1, <2>2, <2>3, <2>4 DEF AskedInOrder
<1>9. VersionsRise'
  <2>1. \A other \in SearchIds : search[other].version <= finderFd.version /\ search[other].version \in Nat
    BY <1>4, SearchFacts DEF SuggestionInv, VersionsRise, SearchStates
  <2>2. ASSUME NEW other \in SearchIds
        PROVE  /\ search'[other].version <= finderFd'.version
               /\ search'[other].pc \in {"new", "asked"} => search'[other].version = 0 /\ search'[other].end = "none"
               /\ search'[other].pc \in {"discovering", "searching"} => search'[other].version # 0
               /\ search'[other].pc \in {"new", "asked", "discovering"} => search'[other].fd = "none"
    <3>1. CASE other = id
      BY <1>5, <1>6, <3>1
    <3>2. CASE other # id
      BY <1>4, <1>5, <1>6, <2>1, <3>2 DEF SuggestionInv, VersionsRise
    <3>. QED
      BY <3>1, <3>2
  <2>3. \A one, other \in SearchIds : search'[one].version = search'[other].version /\ search'[one].version # 0 => one = other
    <3>1. \A other \in SearchIds : other # id /\ s.version # 0 => search'[other].version # s.version
      BY <1>4, <1>5, <2>1
    <3>. QED
      BY <1>5, <3>1 DEF SuggestionInv, VersionsRise
  <2>4. finderFd'.version <= MaxSearches /\ ~finderFd'.disposed
    BY <1>1, <1>4, <1>6, SearchFacts
  <2>5. ASSUME NEW other \in SearchIds, search'[other].pc = "new" PROVE finderFd'.version < other
    <3>1. search[other].pc = "new" /\ other \in Nat
      BY <1>5, <2>5, SearchFacts
    <3>2. id < other
      BY <1>1, <1>2, <3>1, SearchFacts DEF SuggestionInv, AskedInOrder
    <3>. QED
      BY <1>1, <1>4, <1>6, <3>1, <3>2
  <2>6. ASSUME NEW i \in DOMAIN asking' PROVE finderFd'.version < asking'[i]
    <3>1. asking'[i] \in Nat /\ id < asking'[i]
      BY <1>1, <1>3, SearchFacts, Zenon
    <3>. QED
      BY <1>1, <1>4, <1>6, <3>1
  <2>7. ASSUME NEW other \in SearchIds,
               (search'[other].version # 0 /\ search'[other].version < finderFd'.version) \/ search'[other].end = "superseded"
        PROVE  query.id # other
    <3>1. other # id
      BY <1>4, <1>5, <2>7
    <3>2. search[other].pc \notin {"new", "asked"}
      BY <1>5, <2>7, <3>1 DEF SuggestionInv, VersionsRise
    <3>3. other < id
      BY <1>2, <3>2
    <3>4. query.id # NoSearch => id <= query.id
      BY <1>1, <1>2 DEF SuggestionInv, AskedInOrder
    <3>. QED
      BY <1>1, <3>3, <3>4, SearchFacts
  <2>. QED
    BY <2>2, <2>3, <2>4, <2>5, <2>6, <2>7 DEF VersionsRise
<1>10. AnswersTrue'
  <2>1. ASSUME NEW answer, AnswerTrue(answer) PROVE AnswerTrue(answer)'
    BY <1>2, <1>5, <2>1 DEF AnswerTrue
  <2>2. \A answer : answer.end = "error" => AnswerTrue(answer)'
    BY DEF AnswerTrue, SearchEnds
  <2>. QED
    BY <2>1, <2>2 DEF SuggestionInv, AnswersTrue
<1>11. ShownTrue'
  BY <1>2, <1>5, Zenon DEF SuggestionInv, SuggestionShape, ShownTrue
<1>. QED
  BY <1>7, <1>8, <1>9, <1>10, <1>11 DEF SuggestionInv

\* A new search begins and the one before it is killed, or it fails at once.
LEMMA RequestKeeps ==
  ASSUME SuggestionInv, ReceiveSearch
  PROVE  SuggestionInv'
<1>. DEFINE id == asking[1]
<1>1. asking # <<>> /\ asking' = Tail(asking) /\ query' = query /\ ~finderFd.disposed /\ Head(asking) = id /\ id \in SearchIds
      /\ asking \in Seq(SearchIds)
  BY DEF ReceiveSearch, SuggestionInv, SuggestionShape
<1>2. 1 \in DOMAIN asking /\ search[id].pc = "asked" /\ search[id].version = 0 /\ search[id].fd = "none" /\ search[id].end = "none"
      /\ finderFd.version < id
  BY <1>1 DEF SuggestionInv, AskedInOrder, VersionsRise
<1>3. search \in [SearchIds -> SearchStates] /\ finderFd \in Finders /\ finderFd.version \in Nat /\ search[id] \in SearchStates
      /\ (\E S : answers \in Seq(S))
  BY <1>1 DEF SuggestionInv, SuggestionShape, Finders
<1>4. \/ /\ search' = [KillActive(search) EXCEPT ![id].pc = "discovering", ![id].version = finderFd.version + 1]
         /\ finderFd' = [finderFd EXCEPT !.version = @ + 1, !.found = IF @ = "unknown" THEN "looking" ELSE @]
         /\ answers' = answers
      \/ /\ answers' = Append(answers, [id |-> id, end |-> "error"])
         /\ search' = [search EXCEPT ![id].pc = "done", ![id].end = "error"]
         /\ finderFd' = finderFd
  BY <1>1 DEF ReceiveSearch, AnswerSearch
<1>. HIDE DEF id
<1>5. CASE /\ search' = [KillActive(search) EXCEPT ![id].pc = "discovering", ![id].version = finderFd.version + 1]
           /\ finderFd' = [finderFd EXCEPT !.version = @ + 1, !.found = IF @ = "unknown" THEN "looking" ELSE @]
           /\ answers' = answers
  <2>. DEFINE k == KillActive(search)
              s == [k[id] EXCEPT !.pc = "discovering", !.version = finderFd.version + 1]
  <2>1. k \in [SearchIds -> SearchStates]
        /\ \A other \in SearchIds :
             /\ k[other].pc = search[other].pc /\ k[other].version = search[other].version /\ k[other].end = search[other].end
             /\ k[other].fd # "running" /\ (search[other].fd = "none" => k[other].fd = "none")
    BY KillStops
  <2>2. search' = [k EXCEPT ![id].pc = "discovering", ![id].version = finderFd.version + 1]
    BY <1>5
  <2>. HIDE DEF k
  <2>3. search' = [k EXCEPT ![id] = s]
    BY <1>1, <2>1, <2>2, Zenon
  <2>4. finderFd.version + 1 \in 0..MaxSearches /\ finderFd.version + 1 # 0
    BY <1>1, <1>2, <1>3, SearchFacts DEF SearchIds
  <2>5. k[id] \in SearchStates /\ k[id].fd = "none" /\ k[id].end = "none"
    BY <1>1, <1>2, <2>1
  <2>6. s \in SearchStates /\ s.pc = "discovering" /\ s.version = finderFd.version + 1 /\ s.fd = "none" /\ s.end = "none"
    BY <2>4, <2>5, Zenon DEF SearchStates
  <2>7. finderFd' \in Finders /\ finderFd'.version = finderFd.version + 1 /\ finderFd'.disposed = finderFd.disposed
    <3>. DEFINE found == IF finderFd.found = "unknown" THEN "looking" ELSE finderFd.found
    <3>1. finderFd' = [finderFd EXCEPT !.version = finderFd.version + 1, !.found = found]
      BY <1>5
    <3>2. found \in {"unknown", "looking", "modern", "legacy"} /\ finderFd.version + 1 \in Nat
      BY <1>3 DEF Finders
    <3>. HIDE DEF found
    <3>. QED
      BY <1>3, <3>1, <3>2, Zenon DEF Finders
  <2>. HIDE DEF s
  <2>8. \A other \in SearchIds : search'[other].fd # "running"
    BY <1>1, <2>1, <2>3, <2>6
  <2>9. FdKnown'
    BY <2>8 DEF FdKnown
  <2>10. \A other \in SearchIds :
             /\ k[other].pc = search[other].pc /\ k[other].version = search[other].version /\ k[other].end = search[other].end
             /\ search[other].fd = "none" => k[other].fd = "none"
    BY <2>1
  <2>11. /\ s.pc \in {"discovering", "done"} /\ s.end \in {"none", "error"} /\ (s.pc = "discovering" => s.version # 0)
         /\ s.version = 0 \/ (s.version = finderFd'.version /\ finderFd'.version = finderFd.version + 1)
         /\ finderFd'.version = finderFd.version \/ finderFd'.version = finderFd.version + 1
    BY <2>4, <2>6, <2>7
  <2>12. /\ \E S : answers' \in Seq(S)
         /\ \A i \in DOMAIN answers' : (i \in DOMAIN answers /\ answers'[i] = answers[i]) \/ answers'[i].end = "error"
    BY <1>3, <1>5
  <2>. QED
    BY <1>1, <2>1, <2>3, <2>6, <2>7, <2>9, <2>10, <2>11, <2>12, RequestTaken, Zenon DEF id
<1>6. CASE /\ answers' = Append(answers, [id |-> id, end |-> "error"])
           /\ search' = [search EXCEPT ![id].pc = "done", ![id].end = "error"]
           /\ finderFd' = finderFd
  <2>. DEFINE s == [search[id] EXCEPT !.pc = "done", !.end = "error"]
              x == [id |-> id, end |-> "error"]
  <2>1. search' = [search EXCEPT ![id] = s]
    BY <1>1, <1>3, <1>6, Zenon
  <2>2. s \in SearchStates /\ s.pc = "done" /\ s.version = 0 /\ s.fd = "none" /\ s.end = "error"
    BY <1>2, <1>3, Zenon DEF SearchStates, SearchEnds
  <2>3. answers' = Append(answers, x) /\ x.end = "error"
    BY <1>6
  <2>. HIDE DEF s, x
  <2>4. /\ \E S : answers' \in Seq(S)
        /\ \A i \in DOMAIN answers' : (i \in DOMAIN answers /\ answers'[i] = answers[i]) \/ answers'[i].end = "error"
    <3>1. PICK S : answers \in Seq(S)
      BY <1>3
    <3>. QED
      BY <2>3, <3>1, OneMoreAnswer
  <2>5. FdKnown'
    <3>1. \A other \in SearchIds : search'[other].fd = search[other].fd /\ (search[other].fd = "running" => search'[other].version = search[other].version)
      BY <1>1, <1>2, <1>3, <2>1, <2>2
    <3>. QED
      BY <1>6, <3>1, Zenon DEF SuggestionInv, FdKnown, Current, Version
  <2>6. \A other \in SearchIds :
             /\ search[other].pc = search[other].pc /\ search[other].version = search[other].version /\ search[other].end = search[other].end
             /\ search[other].fd = "none" => search[other].fd = "none"
    OBVIOUS
  <2>7. /\ s.pc \in {"discovering", "done"} /\ s.end \in {"none", "error"} /\ (s.pc = "discovering" => s.version # 0)
        /\ s.version = 0 \/ (s.version = finderFd'.version /\ finderFd'.version = finderFd.version + 1)
        /\ finderFd'.version = finderFd.version \/ finderFd'.version = finderFd.version + 1
        /\ finderFd' \in Finders /\ finderFd'.disposed = finderFd.disposed
    BY <1>3, <1>6, <2>2
  <2>. QED
    BY <1>1, <1>3, <2>1, <2>2, <2>4, <2>5, <2>6, <2>7, RequestTaken, Zenon DEF id
<1>. QED
  BY <1>4, <1>5, <1>6

\* The look for fd ends: without one every search that waits for it fails.
LEMMA DiscoveredKeeps ==
  ASSUME SuggestionInv, NEW probes, Discovered(probes),
         probes \in {<<"absent", "legacy", "modern">>, <<"absent", "legacy">>, <<"absent">>}
  PROVE  SuggestionInv'
<1>. DEFINE found == SelectFdExecutable(probes)
            waiting == {id \in SearchIds : search[id].pc = "discovering"}
<1>1. found \in {"unknown", "looking", "modern", "legacy"}
  BY DEF SelectFdExecutable
<1>2. /\ finderFd' = [finderFd EXCEPT !.found = found] /\ UNCHANGED <<query, asking>>
      /\ \/ UNCHANGED <<search, answers>>
         \/ /\ search' = [id \in SearchIds |-> IF id \in waiting THEN [search[id] EXCEPT !.pc = "done", !.end = "error"] ELSE search[id]]
            /\ answers' = answers \o [i \in 1..Cardinality(waiting) |-> [id |-> SetToSortSeq(waiting, <)[i], end |-> "error"]]
  BY Zenon DEF Discovered
<1>. HIDE DEF found
<1>3. finderFd' \in Finders /\ finderFd'.version = finderFd.version /\ finderFd'.disposed = finderFd.disposed /\ finderFd'.active = finderFd.active
  BY <1>1, <1>2, Zenon DEF SuggestionInv, SuggestionShape, Finders
<1>4. CASE UNCHANGED <<search, answers>>
  <2>1. SuggestionShape' /\ AskedInOrder' /\ VersionsRise'
    BY <1>2, <1>3, <1>4 DEF SuggestionInv, SuggestionShape, AskedInOrder, VersionsRise, Version
  <2>2. FdKnown'
    BY <1>2, <1>3, <1>4 DEF SuggestionInv, FdKnown, Current, Version
  <2>3. AnswersTrue' /\ ShownTrue'
    BY <1>2, <1>4, Zenon DEF SuggestionInv, AnswersTrue, AnswerTrue, ShownTrue
  <2>. QED
    BY <2>1, <2>2, <2>3 DEF SuggestionInv
<1>5. CASE /\ search' = [id \in SearchIds |-> IF id \in waiting THEN [search[id] EXCEPT !.pc = "done", !.end = "error"] ELSE search[id]]
           /\ answers' = answers \o [i \in 1..Cardinality(waiting) |-> [id |-> SetToSortSeq(waiting, <)[i], end |-> "error"]]
  <2>. DEFINE t == [i \in 1..Cardinality(waiting) |-> [id |-> SetToSortSeq(waiting, <)[i], end |-> "error"]]
  <2>1. Cardinality(waiting) \in Nat
    <3>1. IsFiniteSet(waiting)
      BY SearchFacts, FS_Subset
    <3>. QED
      BY <3>1, FS_CardinalityType
  <2>. DEFINE size == Cardinality(waiting)
              T == {t[i] : i \in 1..size}
  <2>2. t \in Seq(T) /\ \A i \in DOMAIN t : t[i].end = "error"
    <3>1. DOMAIN t = 1..size /\ t = [i \in 1..size |-> t[i]] /\ size \in Nat
      BY <2>1
    <3>2. \A i \in DOMAIN t : t[i].end = "error"
      BY Zenon
    <3>. HIDE DEF t, size
    <3>3. t \in Seq(T)
      BY <3>1
    <3>. QED
      BY <3>2, <3>3
  <2>3. answers' = answers \o t
    BY <1>5, Zenon
  <2>. HIDE DEF t, T
  <2>4. /\ \E S : answers' \in Seq(S)
        /\ \A i \in DOMAIN answers' : (i \in DOMAIN answers /\ answers'[i] = answers[i]) \/ answers'[i].end = "error"
    <3>1. PICK S : answers \in Seq(S)
      BY DEF SuggestionInv, SuggestionShape
    <3>2. /\ \E U : answers \o t \in Seq(U)
          /\ \A i \in DOMAIN (answers \o t) : (i \in DOMAIN answers /\ (answers \o t)[i] = answers[i]) \/ \E j \in DOMAIN t : (answers \o t)[i] = t[j]
      BY <2>2, <3>1, MoreAnswers
    <3>. QED
      BY <2>2, <2>3, <3>2
  <2>5. /\ search' \in [SearchIds -> SearchStates]
        /\ \A id \in SearchIds :
             /\ search'[id].version = search[id].version /\ search'[id].fd = search[id].fd
             /\ (search'[id].pc = search[id].pc /\ search'[id].end = search[id].end)
                \/ (search[id].pc = "discovering" /\ search'[id].pc = "done" /\ search'[id].end = "error")
    <3>1. search \in [SearchIds -> SearchStates]
      BY DEF SuggestionInv, SuggestionShape
    <3>2. ASSUME NEW state \in SearchStates
          PROVE  LET ended == [state EXCEPT !.pc = "done", !.end = "error"] IN
                 ended \in SearchStates /\ ended.version = state.version /\ ended.fd = state.fd /\ ended.pc = "done" /\ ended.end = "error"
      BY Zenon DEF SearchStates, SearchEnds
    <3>. QED
      BY <1>5, <3>1, <3>2, Zenon
  <2>6. SuggestionShape'
    BY <1>2, <1>3, <2>4, <2>5, Zenon DEF SuggestionInv, SuggestionShape
  <2>7. AskedInOrder'
    <3>1. \A i \in DOMAIN asking : asking[i] \in SearchIds
      BY DEF SuggestionInv, SuggestionShape
    <3>2. \A id \in SearchIds : (search'[id].pc # "new" <=> search[id].pc # "new") /\ (search[id].pc = "asked" => search'[id].pc = "asked")
                               /\ (search'[id].pc \notin {"new", "asked"} <=> search[id].pc \notin {"new", "asked"})
      BY <2>5
    <3>. QED
      BY <1>2, <3>1, <3>2, Zenon DEF SuggestionInv, AskedInOrder
  <2>8. VersionsRise'
    <3>1. \A id \in SearchIds :
            /\ search'[id].version = search[id].version
            /\ search'[id].end = "superseded" => search[id].end = "superseded"
            /\ search'[id].pc = "new" <=> search[id].pc = "new"
      BY <2>5
    <3>2. \A id \in SearchIds :
         /\ search'[id].version <= finderFd'.version
         /\ search'[id].pc \in {"new", "asked"} => search'[id].version = 0 /\ search'[id].end = "none"
         /\ search'[id].pc \in {"discovering", "searching"} => search'[id].version # 0
         /\ search'[id].pc \in {"new", "asked", "discovering"} => search'[id].fd = "none"
      BY <1>3, <2>5 DEF SuggestionInv, VersionsRise
    <3>3. \A id, other \in SearchIds : search'[id].version = search'[other].version /\ search'[id].version # 0 => id = other
      BY <3>1 DEF SuggestionInv, VersionsRise
    <3>4. finderFd'.disposed => \A id \in SearchIds : search'[id].version < finderFd'.version
      BY <1>3, <3>1 DEF SuggestionInv, VersionsRise
    <3>5. ~finderFd'.disposed =>
         /\ finderFd'.version <= MaxSearches
         /\ \A id \in SearchIds : search'[id].pc = "new" => finderFd'.version < id
         /\ \A i \in DOMAIN asking' : finderFd'.version < asking'[i]
         /\ \A id \in SearchIds : (search'[id].version # 0 /\ search'[id].version < finderFd'.version) \/ search'[id].end = "superseded"
                                     => query'.id # id
      BY <1>2, <1>3, <3>1, Zenon DEF SuggestionInv, VersionsRise
    <3>. QED
      BY <3>2, <3>3, <3>4, <3>5 DEF VersionsRise
  <2>9. FdKnown'
    BY <1>3, <2>5 DEF SuggestionInv, FdKnown, Current, Version
  <2>10. AnswersTrue'
    <3>1. ASSUME NEW answer, AnswerTrue(answer) PROVE AnswerTrue(answer)'
      BY <2>5, <3>1 DEF AnswerTrue
    <3>2. \A answer : answer.end = "error" => AnswerTrue(answer)'
      BY DEF AnswerTrue, SearchEnds
    <3>. QED
      BY <2>4, <3>1, <3>2 DEF SuggestionInv, AnswersTrue
  <2>11. ShownTrue'
    BY <1>2, <2>5, Zenon DEF SuggestionInv, SuggestionShape, ShownTrue
  <2>. QED
    BY <2>6, <2>7, <2>8, <2>9, <2>10, <2>11 DEF SuggestionInv
<1>. QED
  BY <1>2, <1>4, <1>5, Zenon

\* The page is gone: what runs for it is killed, and what is begun is of no version any more.
LEMMA DisposeKeeps ==
  ASSUME SuggestionInv, DisposeSearch
  PROVE  SuggestionInv'
<1>1. /\ finderFd' = [finderFd EXCEPT !.disposed = TRUE, !.version = @ + 1, !.active = NoSearch]
      /\ search' = KillActive(search) /\ UNCHANGED <<query, asking, answers>>
  BY DEF DisposeSearch
<1>2. /\ search' \in [SearchIds -> SearchStates]
      /\ \A id \in SearchIds :
           /\ search'[id].pc = search[id].pc /\ search'[id].version = search[id].version /\ search'[id].end = search[id].end
           /\ search'[id].fd # "running" /\ (search[id].fd = "none" => search'[id].fd = "none")
  BY <1>1, KillStops
<1>3. finderFd' \in Finders /\ finderFd'.version = finderFd.version + 1 /\ finderFd'.disposed = TRUE /\ finderFd.version \in Nat
  <2>1. finderFd \in Finders /\ finderFd.version + 1 \in Nat /\ finderFd.version \in Nat
    BY DEF SuggestionInv, SuggestionShape, Finders
  <2>2. finderFd' = [finderFd EXCEPT !.disposed = TRUE, !.version = finderFd.version + 1, !.active = NoSearch]
    BY <1>1
  <2>3. finderFd' \in Finders
    BY <2>1, <2>2, Zenon DEF Finders
  <2>4. finderFd'.version = finderFd.version + 1 /\ finderFd'.disposed = TRUE
    BY <2>1, <2>2 DEF Finders
  <2>. QED
    BY <2>1, <2>3, <2>4
<1>4. SuggestionShape' /\ FdKnown'
  BY <1>1, <1>2, <1>3 DEF SuggestionInv, SuggestionShape, FdKnown
<1>5. AskedInOrder'
  <2>1. \A i \in DOMAIN asking : asking[i] \in SearchIds
    BY DEF SuggestionInv, SuggestionShape
  <2>. QED
    BY <1>1, <1>2, <2>1 DEF SuggestionInv, AskedInOrder
<1>6. VersionsRise'
  <2>1. \A id \in SearchIds : search'[id].version <= finderFd.version /\ search'[id].version \in Nat
    BY <1>2, SearchFacts DEF SuggestionInv, VersionsRise, SearchStates
  <2>2. \A id \in SearchIds : search'[id].version < finderFd'.version /\ search'[id].version <= finderFd'.version
    BY <1>3, <2>1
  <2>. QED
    BY <1>2, <1>3, <2>2 DEF SuggestionInv, VersionsRise
<1>7. AnswersTrue'
  <2>1. ASSUME NEW answer, AnswerTrue(answer) PROVE AnswerTrue(answer)'
    BY <1>2, <2>1 DEF AnswerTrue
  <2>. QED
    BY <1>1, <2>1 DEF SuggestionInv, AnswersTrue
<1>8. ShownTrue'
  BY <1>1, <1>2, Zenon DEF SuggestionInv, SuggestionShape, ShownTrue
<1>. QED
  BY <1>4, <1>5, <1>6, <1>7, <1>8 DEF SuggestionInv

\* A process that is started, fails, ends or is given up is of a search the host has begun.
LEMMA FdKeeps ==
  ASSUME SuggestionInv, NEW id \in SearchIds, NEW end \in SearchEnds,
         StartFd(id) \/ FdFails(id) \/ FdTimesOut(id) \/ FdCloses(id, end)
  PROVE  SuggestionInv'
<1>0. /\ search \in [SearchIds -> SearchStates] /\ search[id] \in SearchStates /\ finderFd \in Finders
      /\ finderFd.active \in SearchIds \cup {NoSearch} /\ Release(id) \in SearchIds \cup {NoSearch}
  BY DEF SuggestionInv, SuggestionShape, Finders, Release, NoSearch
<1>1. \A other \in SearchIds : other # id /\ search[other].fd = "running" => finderFd.active = other /\ Release(id) = other
  BY DEF SuggestionInv, FdKnown, Release
<1>a. ASSUME NEW a \in SearchIds \cup {NoSearch}, finderFd' = [finderFd EXCEPT !.active = a]
      PROVE  finderFd' \in Finders /\ finderFd'.version = finderFd.version /\ finderFd'.disposed = finderFd.disposed /\ finderFd'.active = a
  BY <1>0, <1>a DEF Finders
<1>2. search[id].fd = "running" => Current(id) /\ finderFd.active = id /\ ~finderFd.disposed
  BY DEF SuggestionInv, FdKnown
<1>3. CASE StartFd(id)
  <2>0. search[id].pc = "discovering" /\ search[id].version # 0 /\ search[id].fd = "none" /\ UNCHANGED <<query, asking>>
    BY <1>3, Zenon DEF StartFd, SuggestionInv, VersionsRise
  <2>1. CASE Current(id)
    <3>. DEFINE s == [search[id] EXCEPT !.pc = "searching", !.fd = "running"]
    <3>1. search' = [search EXCEPT ![id] = s] /\ finderFd' = [finderFd EXCEPT !.active = id] /\ answers' = answers
      BY <1>0, <1>3, <2>1, Zenon DEF StartFd
    <3>a. finderFd' \in Finders /\ finderFd'.version = finderFd.version /\ finderFd'.disposed = finderFd.disposed /\ finderFd'.active = id
      BY <1>a, <3>1
    <3>b. "error" \in SearchEnds
      BY Zenon DEF SearchEnds
    <3>2. s \in SearchStates /\ s.pc = "searching" /\ s.fd = "running" /\ s.version = search[id].version /\ s.end = search[id].end
      BY <1>0, Zenon DEF SearchStates
    <3>. HIDE DEF s
    <3>3. ~finderFd.disposed
      BY <1>0, <2>1 DEF SuggestionInv, VersionsRise, Current, Version, Finders
    <3>4. \A other \in SearchIds : other # id /\ search[other].fd = "running" => id = other
      BY <2>0, <2>1 DEF SuggestionInv, FdKnown, VersionsRise, Current, Version
    <3>5. /\ s.pc \in {"searching", "done"} /\ search[id].pc \notin {"new", "asked"}
          /\ search[id].pc = "done" => s.pc = "done" /\ s.end = search[id].end
          /\ s.pc = "searching" => s.version # 0
          /\ s.end = "superseded" => search[id].end = "superseded" \/ (~Current(id) /\ s.version # 0)
      BY <2>0, <3>2
    <3>. QED
      BY <2>0, <2>1, <3>a, <3>b, <3>1, <3>2, <3>3, <3>4, <3>5, SearchGoesOn, Zenon
  <2>2. CASE ~Current(id)
    <3>. DEFINE s == [search[id] EXCEPT !.pc = "done", !.end = "superseded"]
                said == "no files"
    <3>1. search' = [search EXCEPT ![id] = s] /\ finderFd' = finderFd
          /\ answers' = Append(answers, [id |-> id, end |-> said])
      BY <1>0, <1>3, <2>2, Zenon DEF StartFd, AnswerSearch
    <3>2. s \in SearchStates /\ s.pc = "done" /\ s.fd = "none" /\ s.version = search[id].version /\ s.end = "superseded"
          /\ said \in SearchEnds /\ said # "files"
      BY <1>0, <2>0, Zenon DEF SearchStates, SearchEnds
    <3>. HIDE DEF s, said
    <3>3. /\ s.pc \in {"searching", "done"} /\ search[id].pc \notin {"new", "asked"}
          /\ search[id].pc = "done" => s.pc = "done" /\ s.end = search[id].end
          /\ s.pc = "searching" => s.version # 0
          /\ s.end = "superseded" => search[id].end = "superseded" \/ (~Current(id) /\ s.version # 0)
          /\ said # "error" => s.pc = "done" /\ s.end \in {said, "superseded"} /\ (said = "files" => s.end = "files")
          /\ s.fd # "running"
      BY <2>0, <2>2, <3>2
    <3>. QED
      BY <1>0, <1>1, <2>0, <3>1, <3>2, <3>3, SearchGoesOn, Zenon
  <2>. QED
    BY <2>1, <2>2
<1>4. CASE FdFails(id)
  <2>. DEFINE s == [search[id] EXCEPT !.pc = "done", !.end = "error", !.fd = "closing"]
              said == "error"
  <2>1. search' = [search EXCEPT ![id] = s] /\ finderFd' = finderFd
        /\ answers' = Append(answers, [id |-> id, end |-> said]) /\ search[id].pc = "searching" /\ UNCHANGED <<query, asking>>
    BY <1>0, <1>4, Zenon DEF FdFails, AnswerSearch
  <2>2. s \in SearchStates /\ s.pc = "done" /\ s.fd = "closing" /\ s.version = search[id].version /\ s.end = "error"
        /\ said \in SearchEnds /\ said = "error"
    BY <1>0, Zenon DEF SearchStates, SearchEnds
  <2>. HIDE DEF s, said
  <2>3. /\ s.pc \in {"searching", "done"} /\ search[id].pc \notin {"new", "asked"}
        /\ search[id].pc = "done" => s.pc = "done" /\ s.end = search[id].end
        /\ s.pc = "searching" => s.version # 0
        /\ s.end = "superseded" => search[id].end = "superseded" \/ (~Current(id) /\ s.version # 0)
        /\ said # "error" => s.pc = "done" /\ s.end \in {said, "superseded"} /\ (said = "files" => s.end = "files")
        /\ s.fd # "running"
    BY <2>1, <2>2
  <2>. QED
    BY <1>0, <1>1, <2>1, <2>2, <2>3, SearchGoesOn, Zenon
<1>5. CASE FdTimesOut(id)
  <2>. DEFINE fd == IF search[id].fd = "running" THEN "killed" ELSE search[id].fd
              outcome == IF Current(id) THEN "error" ELSE "superseded"
              said == IF Current(id) THEN "error" ELSE "no files"
              s == [search[id] EXCEPT !.pc = "done", !.end = outcome, !.fd = fd]
  <2>0. search[id].pc = "searching" /\ search[id].version # 0
    BY <1>5, Zenon DEF FdTimesOut, SuggestionInv, VersionsRise
  <2>1. search' = [search EXCEPT ![id] = s] /\ finderFd' = [finderFd EXCEPT !.active = Release(id)]
        /\ answers' = Append(answers, [id |-> id, end |-> said]) /\ UNCHANGED <<query, asking>>
    BY <1>0, <1>5, Zenon DEF FdTimesOut, AnswerSearch
  <2>a. finderFd' \in Finders /\ finderFd'.version = finderFd.version /\ finderFd'.disposed = finderFd.disposed /\ finderFd'.active = Release(id)
    BY <1>0, <1>a, <2>1, Zenon
  <2>2. /\ fd # "running" /\ fd \in {"none", "running", "killed", "closing", "gone"}
        /\ (Current(id) /\ outcome = "error" /\ said = "error") \/ (~Current(id) /\ outcome = "superseded" /\ said = "no files")
    BY <1>0 DEF SearchStates
  <2>. HIDE DEF fd, outcome, said
  <2>3. s \in SearchStates /\ s.pc = "done" /\ s.fd = fd /\ s.version = search[id].version /\ s.end = outcome /\ said \in SearchEnds
    BY <1>0, <2>2, Zenon DEF SearchStates, SearchEnds
  <2>. HIDE DEF s
  <2>4. /\ s.pc \in {"searching", "done"} /\ search[id].pc \notin {"new", "asked"}
        /\ search[id].pc = "done" => s.pc = "done" /\ s.end = search[id].end
        /\ s.pc = "searching" => s.version # 0
        /\ s.end = "superseded" => search[id].end = "superseded" \/ (~Current(id) /\ s.version # 0)
        /\ said # "error" => s.pc = "done" /\ s.end \in {said, "superseded"} /\ (said = "files" => s.end = "files")
        /\ s.fd # "running"
    BY <2>0, <2>2, <2>3, Zenon
  <2>. QED
    BY <1>1, <2>a, <2>1, <2>3, <2>4, SearchGoesOn, Zenon
<1>6. CASE FdCloses(id, end)
  <2>0. /\ search[id].pc \in {"searching", "done"} /\ (search[id].pc = "searching" => search[id].version # 0)
        /\ finderFd' = [finderFd EXCEPT !.active = Release(id)] /\ UNCHANGED <<query, asking>>
    <3>1. search[id].fd \in {"running", "killed", "closing"} /\ finderFd' = [finderFd EXCEPT !.active = Release(id)] /\ UNCHANGED <<query, asking>>
      BY <1>6, Zenon DEF FdCloses
    <3>2. search[id].pc \in {"new", "asked", "discovering", "searching", "done"}
      BY <1>0 DEF SearchStates
    <3>. QED
      BY <3>1, <3>2 DEF SuggestionInv, VersionsRise
  <2>a. finderFd' \in Finders /\ finderFd'.version = finderFd.version /\ finderFd'.disposed = finderFd.disposed /\ finderFd'.active = Release(id)
    BY <1>0, <1>a, <2>0
  <2>b. "error" \in SearchEnds
    BY Zenon DEF SearchEnds
  <2>1. CASE search[id].pc = "searching"
    <3>. DEFINE outcome == IF Current(id) THEN end ELSE "superseded"
                said == IF Current(id) THEN end ELSE "no files"
                s == [search[id] EXCEPT !.fd = "gone", !.pc = "done", !.end = outcome]
    <3>1. search' = [search EXCEPT ![id] = s] /\ answers' = Append(answers, [id |-> id, end |-> said])
      BY <1>0, <1>6, <2>1, Zenon DEF FdCloses, AnswerSearch
    <3>2. (Current(id) /\ outcome = end /\ said = end) \/ (~Current(id) /\ outcome = "superseded" /\ said = "no files")
      BY Zenon
    <3>. HIDE DEF outcome, said
    <3>3. s \in SearchStates /\ s.pc = "done" /\ s.fd = "gone" /\ s.version = search[id].version /\ s.end = outcome /\ said \in SearchEnds
      BY <1>0, <3>2, Zenon DEF SearchStates, SearchEnds
    <3>. HIDE DEF s
    <3>4. /\ s.pc \in {"searching", "done"} /\ search[id].pc \notin {"new", "asked"}
          /\ search[id].pc = "done" => s.pc = "done" /\ s.end = search[id].end
          /\ s.pc = "searching" => s.version # 0
          /\ s.end = "superseded" => search[id].end = "superseded" \/ (~Current(id) /\ s.version # 0)
          /\ said # "error" => s.pc = "done" /\ s.end \in {said, "superseded"} /\ (said = "files" => s.end = "files")
          /\ s.fd # "running"
      BY <2>0, <2>1, <3>2, <3>3, Zenon DEF SearchEnds
    <3>. QED
      BY <1>1, <2>a, <2>0, <3>1, <3>3, <3>4, SearchGoesOn, Zenon
  <2>2. CASE search[id].pc # "searching"
    <3>. DEFINE s == [search[id] EXCEPT !.fd = "gone"]
    <3>1. search' = [search EXCEPT ![id] = s] /\ answers' = answers
      BY <1>0, <1>6, <2>2 DEF FdCloses
    <3>2. s \in SearchStates /\ s.pc = search[id].pc /\ s.fd = "gone" /\ s.version = search[id].version /\ s.end = search[id].end
      BY <1>0 DEF SearchStates
    <3>. HIDE DEF s
    <3>3. /\ s.pc \in {"searching", "done"} /\ search[id].pc \notin {"new", "asked"}
          /\ search[id].pc = "done" => s.pc = "done" /\ s.end = search[id].end
          /\ s.pc = "searching" => s.version # 0
          /\ s.end = "superseded" => search[id].end = "superseded" \/ (~Current(id) /\ s.version # 0)
          /\ s.fd # "running"
      BY <2>0, <2>2, <3>2
    <3>. QED
      BY <1>1, <2>a, <2>b, <2>0, <3>1, <3>2, <3>3, SearchGoesOn, Zenon
  <2>. QED
    BY <2>1, <2>2
<1>. QED
  BY <1>3, <1>4, <1>5, <1>6

\* Every step keeps the invariant of the search.
LEMMA SuggestionStepKeeps ==
  ASSUME SuggestionInv, SuggestionSteps \/ UNCHANGED suggestionVars
  PROVE  SuggestionInv'
<1>1. CASE UNCHANGED suggestionVars
  <2>1. UNCHANGED <<query, asking, answers, search, finderFd>>
    BY <1>1 DEF suggestionVars
  <2>2. SuggestionShape' /\ AskedInOrder'
    BY <2>1 DEF SuggestionInv, SuggestionShape, AskedInOrder
  <2>3. VersionsRise'
    BY <2>1 DEF SuggestionInv, VersionsRise
  <2>4. FdKnown' /\ AnswersTrue' /\ ShownTrue'
    BY <2>1, Zenon DEF SuggestionInv, FdKnown, Current, Version, AnswersTrue, AnswerTrue, ShownTrue
  <2>. QED
    BY <2>2, <2>3, <2>4 DEF SuggestionInv
<1>2. CASE SuggestionSteps
  <2>1. "error" \in SearchEnds
    BY DEF SearchEnds
  <2>2. ASSUME NEW ask \in BOOLEAN, Complete(ask) PROVE SuggestionInv'
    BY <2>2, CompleteKeeps
  <2>3. ASSUME NEW id \in SearchIds, StartFd(id) \/ FdFails(id) \/ FdTimesOut(id) PROVE SuggestionInv'
    BY <2>1, <2>3, FdKeeps
  <2>4. ASSUME NEW id \in SearchIds, NEW end \in SearchEnds, FdCloses(id, end) PROVE SuggestionInv'
    BY <2>4, FdKeeps
  <2>5. ASSUME NEW probes \in {<<"absent", "legacy", "modern">>, <<"absent", "legacy">>, <<"absent">>}, Discovered(probes) PROVE SuggestionInv'
    BY <2>5, DiscoveredKeeps
  <2>. QED
    BY <1>2, <2>2, <2>3, <2>4, <2>5, AnswersKeep, RequestKeeps, DisposeKeeps DEF SuggestionSteps
<1>. QED
  BY <1>1, <1>2

\* The invariant of the search holds at the start.
LEMMA SuggestionsStartRight ==
  ASSUME SuggestionStarts
  PROVE  SuggestionInv
<1>1. /\ query = [id |-> NoSearch, shows |-> "nothing"] /\ asking = <<>> /\ answers = <<>>
      /\ search = [id \in SearchIds |-> [pc |-> "new", version |-> 0, end |-> "none", fd |-> "none"]]
      /\ finderFd = [version |-> 0, active |-> NoSearch, found |-> "unknown", disposed |-> FALSE]
  BY DEF SuggestionStarts
<1>2. SuggestionShape
  <2>1. search \in [SearchIds -> SearchStates] /\ finderFd \in Finders
    BY <1>1, SearchFacts DEF SearchStates, Finders
  <2>2. query \in [id : SearchIds \cup {NoSearch}, shows : SuggestionShows] /\ asking \in Seq(SearchIds) /\ answers \in Seq(SearchIds)
    BY <1>1 DEF SuggestionShows
  <2>. QED
    BY <2>1, <2>2 DEF SuggestionShape
<1>3. AskedInOrder
  <2>1. 0 \in 0..MaxSearches /\ \A id \in SearchIds : search[id].pc # "new" <=> id <= 0
    BY <1>1, SearchFacts DEF SearchIds
  <2>2. DOMAIN asking = {} /\ query.id = NoSearch
    BY <1>1
  <2>. QED
    BY <2>1, <2>2 DEF AskedInOrder
<1>4. VersionsRise
  <2>1. \A id \in SearchIds : search[id].version = 0 /\ search[id].pc = "new" /\ search[id].end = "none" /\ search[id].fd = "none" /\ 0 < id
    BY <1>1, SearchFacts DEF SearchIds
  <2>2. DOMAIN asking = {} /\ finderFd.version = 0 /\ ~finderFd.disposed
    BY <1>1
  <2>3. 0 <= MaxSearches /\ \A id \in SearchIds : finderFd.version < id /\ search[id].version <= finderFd.version
    BY <2>1, <2>2, SearchFacts
  <2>4. \A id, other \in SearchIds : search[id].version = search[other].version /\ search[id].version # 0 => id = other
    BY <2>1
  <2>5. \A i \in DOMAIN asking : finderFd.version < asking[i]
    BY <2>2
  <2>6. \A id \in SearchIds : ~((search[id].version # 0 /\ search[id].version < finderFd.version) \/ search[id].end = "superseded")
    BY <2>1
  <2>. QED
    BY <2>1, <2>2, <2>3, <2>4, <2>5, <2>6 DEF VersionsRise
<1>5. FdKnown /\ AnswersTrue /\ ShownTrue
  BY <1>1 DEF FdKnown, AnswersTrue, ShownTrue
<1>. QED
  BY <1>2, <1>3, <1>4, <1>5 DEF SuggestionInv

\* The invariant of the search is stronger than what is promised of it.
LEMMA SuggestionsHonestNow ==
  ASSUME SuggestionInv
  PROVE  SuggestionTypes /\ SuggestionsHonest
<1>1. SuggestionTypes
  BY DEF SuggestionInv, SuggestionShape, SearchStates, Finders, SuggestionTypes
<1>2. OneFd
  BY DEF SuggestionInv, FdKnown, OneFd, RunningSearches
<1>3. EmptyMeansNone /\ FilesAreItsOwn
  BY Zenon DEF SuggestionInv, ShownTrue, EmptyMeansNone, FilesAreItsOwn
<1>. QED
  BY <1>1, <1>2, <1>3 DEF SuggestionsHonest

\* One fd runs at most, that of the newest search; the composer shows the files of the
\* search it waits for, and says that there are none when that search has found none.
THEOREM SuggestionsStayHonest ==
  SuggestionStarts /\ [][SuggestionSteps]_suggestionVars => [](SuggestionTypes /\ SuggestionsHonest)
<1>1. SuggestionStarts => SuggestionInv
  BY SuggestionsStartRight
<1>2. SuggestionInv /\ [SuggestionSteps]_suggestionVars => SuggestionInv'
  BY SuggestionStepKeeps
<1>3. SuggestionInv => SuggestionTypes /\ SuggestionsHonest
  BY SuggestionsHonestNow
<1>. QED
  BY <1>1, <1>2, <1>3, PTL
-----------------------------------------------------------------------------
(* Moving in the tree.                                                       *)

MovePhases == {"idle", "choose", "confirm", "summary", "checking", "navigating", "reloading"}
Seeds == Targets \cup {"forked"}
PiTrees == [leaf : Leaves, up : BOOLEAN, busy : BOOLEAN, command : {"none", "waiting", "ended"}, before : Leaves \cup {NoTarget},
            adrift : BOOLEAN, upsets : Nat]
TreeCalls == [pc : MovePhases, target : Targets \cup {NoTarget}, hadDraft : BOOLEAN, confirmed : BOOLEAN, wrote : BOOLEAN,
              moved : BOOLEAN, raced : BOOLEAN, ended : {"none", "cancelled", "error", "moved"}, count : Nat]
TreeViews == [leaf : Leaves, history : {"loaded", "failed"}]
TreePages == [shows : TreeSessions, applied : Seeds \cup {NoSeed}, replaced : SUBSET {"again", "confirmed", "meanwhile", "twice", "unasked"},
              forked : BOOLEAN, drafts : [TreeSessions -> {"empty", "text", "seed"}],
              seeds : [TreeSessions -> Seeds \cup {NoSeed}], shown : SUBSET Seeds, latest : Seeds \cup {NoSeed}]
MoveShape ==
    /\ piTree \in PiTrees /\ treeCall \in TreeCalls /\ treeView \in TreeViews /\ treePage \in TreePages
    /\ resultFile \in {"none", "cancelled", "committed", "failed"}

\* Pi's extension works while the registry waits for its result, and what it has written
\* says what it did; a target has been chosen before the questions about it.
CommandInv ==
    /\ piTree.command # "none" <=> treeCall.pc = "navigating"
    /\ treeCall.pc \in MovePhases \ {"idle", "choose"} => treeCall.target \in Targets
    /\ treeCall.pc \in {"choose", "confirm", "summary", "checking"} => ~treeCall.moved /\ resultFile = "none" /\ ~treeCall.raced
    /\ treeCall.pc # "idle" => treeCall.ended = "none"
    /\ piTree.command = "waiting" => resultFile = "none" /\ ~treeCall.moved /\ (treeCall.raced \/ piTree.before = piTree.leaf)
    /\ treeCall.pc = "navigating" /\ resultFile = "cancelled" => ~treeCall.moved

\* A path that Pi has said it has moved to, and that is not on the screen yet.
Committed == treeCall.pc = "reloading" \/ (treeCall.pc = "navigating" /\ resultFile = "committed")

\* Otherwise the path on the screen is Pi's, and what was said of the last move is so.
PathInv ==
    /\ piTree.up /\ treeView.history = "loaded" /\ ~Committed => treeView.leaf = piTree.leaf \/ piTree.adrift
    /\ Committed \/ treeCall.ended = "moved" => treeCall.raced \/ treeCall.moved \/ piTree.before = treeCall.target
    /\ treeCall.ended = "cancelled" => ~treeCall.moved

\* A seed that waits for its session to be shown was agreed to, or what it will replace
\* was written after the question; it has not waited if the page has shown it before. The
\* page knows which seed it has put there last.
PageOk(p, call) ==
    /\ p.applied \in p.shown \cup {NoSeed} /\ p.latest = p.applied
    /\ p.seeds["this"] \in Targets \cup {NoSeed} /\ p.seeds["fork"] \in {"forked", NoSeed}
    /\ p.drafts["fork"] = "text" /\ p.seeds["fork"] = "forked" => "forked" \in p.shown
    /\ ~p.forked => p.shows = "this" /\ p.drafts["fork"] = "empty"
    /\ call.pc # "idle" /\ p.drafts["this"] = "text" => call.hadDraft \/ call.wrote
    /\ p.drafts["this"] = "text" /\ p.seeds["this"] \notin p.shown \cup {NoSeed} => call.confirmed \/ call.wrote
    /\ "unasked" \notin p.replaced /\ "twice" \notin p.replaced
\* The seed of the session on the page has been applied.
PageCurrent(p) == p.seeds[p.shows] \in {NoSeed, p.applied}
SeedInv ==
    /\ PageOk(treePage, treeCall) /\ PageCurrent(treePage)
    /\ treeCall.pc \in MovePhases \ {"idle", "choose", "confirm"} /\ treeCall.target \in Prompts /\ treeCall.hadDraft => treeCall.confirmed

MoveInv == MoveShape /\ CommandInv /\ PathInv /\ SeedInv

\* A page stays a page when its fields stay in their sets.
LEMMA PresentedIs ==
  ASSUME NEW p \in TreePages, NEW s, s = p.shows, treeCall \in TreeCalls
  PROVE  /\ Presented(p) \in TreePages
         /\ p.seeds[s] \in {NoSeed, p.applied} => Presented(p) = p
         /\ p.seeds[s] \notin {NoSeed, p.applied} =>
               /\ Presented(p).applied = p.seeds[s] /\ Presented(p).latest = p.seeds[s] /\ Presented(p).shown = p.shown \cup {p.seeds[s]}
               /\ Presented(p).replaced = p.replaced \cup Reason(p, s)
               /\ \A x \in TreeSessions : Presented(p).drafts[x] = IF x = s THEN "seed" ELSE p.drafts[x]
         /\ Presented(p).shows = s /\ Presented(p).seeds = p.seeds /\ Presented(p).forked = p.forked
<1>1. CASE p.seeds[s] \in {NoSeed, p.applied}
  BY <1>1 DEF Presented
<1>2. CASE p.seeds[s] \notin {NoSeed, p.applied}
  <2>. DEFINE seed == p.seeds[s]
              drafts == [p.drafts EXCEPT ![s] = "seed"]
              shown == p.shown \cup {seed}
              replaced == p.replaced \cup Reason(p, s)
              q == [p EXCEPT !.applied = seed, !.drafts = drafts, !.shown = shown, !.latest = seed, !.replaced = replaced]
  <2>1. Presented(p) = q
    BY <1>2 DEF Presented
  <2>2. s \in TreeSessions /\ seed \in Seeds /\ drafts \in [TreeSessions -> {"empty", "text", "seed"}]
        /\ \A x \in TreeSessions : drafts[x] = IF x = s THEN "seed" ELSE p.drafts[x]
    BY <1>2 DEF TreePages
  <2>3. Reason(p, s) \subseteq {"again", "confirmed", "meanwhile", "twice", "unasked"}
    BY DEF Reason
  <2>4. shown \in SUBSET Seeds /\ replaced \in SUBSET {"again", "confirmed", "meanwhile", "twice", "unasked"}
    BY <2>2, <2>3 DEF TreePages
  <2>. HIDE DEF seed, drafts, shown, replaced
  <2>5. q \in TreePages /\ q.applied = seed /\ q.latest = seed /\ q.shown = shown /\ q.replaced = replaced /\ q.drafts = drafts
        /\ q.shows = p.shows /\ q.seeds = p.seeds /\ q.forked = p.forked
    BY <2>2, <2>4, Zenon DEF TreePages
  <2>. QED
    BY <1>2, <2>1, <2>2, <2>5 DEF seed, shown, replaced
<1>. QED
  BY <1>1, <1>2

\* What a page shows of a seed keeps it in order and up to date.
LEMMA PresentedOk ==
  ASSUME NEW p \in TreePages, treeCall \in TreeCalls, PageOk(p, treeCall)
  PROVE  Presented(p) \in TreePages /\ PageOk(Presented(p), treeCall) /\ PageCurrent(Presented(p))
<1>. DEFINE s == p.shows
            q == Presented(p)
<1>0. s \in {"this", "fork"} /\ TreeSessions = {"this", "fork"} /\ p.shown \subseteq Seeds /\ "forked" \notin Targets /\ NoSeed \notin Seeds
  BY MoveAssumption DEF TreePages, TreeSessions, Seeds, NoSeed
<1>1. CASE p.seeds[s] \in {NoSeed, p.applied}
  BY <1>1, PresentedIs DEF PageCurrent
<1>2. CASE p.seeds[s] \notin {NoSeed, p.applied}
  <2>1. /\ q \in TreePages /\ q.shows = s /\ q.seeds = p.seeds /\ q.forked = p.forked
        /\ q.applied = p.seeds[s] /\ q.latest = p.seeds[s] /\ q.shown = p.shown \cup {p.seeds[s]} /\ q.replaced = p.replaced \cup Reason(p, s)
        /\ \A x \in TreeSessions : q.drafts[x] = IF x = s THEN "seed" ELSE p.drafts[x]
    BY <1>2, PresentedIs
  <2>. HIDE DEF q
  <2>2. "unasked" \notin Reason(p, s) /\ "twice" \notin Reason(p, s)
    <3>1. CASE s = "this"
      BY <1>0, <1>2, <3>1 DEF PageOk, Reason
    <3>2. CASE s = "fork"
      BY <1>0, <1>2, <3>2 DEF PageOk, Reason
    <3>. QED
      BY <1>0, <3>1, <3>2
  <2>3. q.drafts["fork"] # "text" \/ q.drafts["fork"] = p.drafts["fork"]
    BY <1>0, <2>1
  <2>4. q.drafts["this"] # "text" \/ q.drafts["this"] = p.drafts["this"]
    BY <1>0, <2>1
  <2>5. ~p.forked => q.drafts["fork"] = "empty"
    BY <1>0, <2>1 DEF PageOk
  <2>6. PageCurrent(q)
    BY <2>1 DEF PageCurrent
  <2>7. /\ q.applied \in q.shown \cup {NoSeed} /\ q.latest = q.applied /\ "unasked" \notin q.replaced /\ "twice" \notin q.replaced
        /\ q.seeds["this"] \in Targets \cup {NoSeed} /\ q.seeds["fork"] \in {"forked", NoSeed}
        /\ ~q.forked => q.shows = "this" /\ q.drafts["fork"] = "empty"
    BY <1>2, <2>1, <2>2, <2>5 DEF PageOk
  <2>8. q.drafts["fork"] = "text" /\ q.seeds["fork"] = "forked" => "forked" \in q.shown
    BY <2>1, <2>3 DEF PageOk
  <2>9. /\ treeCall.pc # "idle" /\ q.drafts["this"] = "text" => treeCall.hadDraft \/ treeCall.wrote
        /\ q.drafts["this"] = "text" /\ q.seeds["this"] \notin q.shown \cup {NoSeed} => treeCall.confirmed \/ treeCall.wrote
    BY <2>1, <2>4 DEF PageOk
  <2>10. PageOk(q, treeCall)
    BY <2>7, <2>8, <2>9 DEF PageOk
  <2>. QED
    BY <2>1, <2>6, <2>10 DEF q
<1>. QED
  BY <1>1, <1>2

\* What Pi and the registry do without the page leaves the page in order.
LEMMA PageRests ==
  ASSUME MoveInv, treePage' = treePage, treeCall' \in TreeCalls,
         treeCall'.hadDraft = treeCall.hadDraft, treeCall'.confirmed = treeCall.confirmed, treeCall'.wrote = treeCall.wrote,
         treeCall'.target = treeCall.target,
         \/ treeCall'.pc \in {treeCall.pc, "idle"}
         \/ treeCall'.pc \in MovePhases /\ treeCall.pc \in MovePhases \ {"idle", "choose", "confirm"}
  PROVE  SeedInv'
<1>1. PageOk(treePage, treeCall)' /\ PageCurrent(treePage)'
  BY DEF MoveInv, SeedInv, PageOk, PageCurrent
<1>. QED
  BY <1>1 DEF MoveInv, SeedInv

\* What the page does alone leaves the registry and Pi as they were.
LEMMA PageMoves ==
  ASSUME MoveInv, treePage' \in TreePages, PageOk(treePage', treeCall), PageCurrent(treePage'),
         UNCHANGED <<piTree, resultFile, treeCall, treeView>>
  PROVE  MoveInv'
<1>1. MoveShape' /\ CommandInv' /\ PathInv'
  BY DEF MoveInv, MoveShape, CommandInv, PathInv, Committed
<1>2. SeedInv'
  BY DEF MoveInv, SeedInv
<1>. QED
  BY <1>1, <1>2 DEF MoveInv

\* A page that shows another session, or has been loaded again, shows that session's seed.
LEMMA DisplayKeeps ==
  ASSUME MoveInv, ReloadPage \/ \E s \in TreeSessions : Display(s)
  PROVE  MoveInv'
<1>0. treePage \in TreePages /\ treeCall \in TreeCalls /\ PageOk(treePage, treeCall)
  BY DEF MoveInv, MoveShape, SeedInv
<1>1. CASE ReloadPage
  <2>. DEFINE p == [treePage EXCEPT !.applied = NoSeed, !.latest = NoSeed]
  <2>1. p \in TreePages /\ p.applied = NoSeed /\ p.seeds = treePage.seeds /\ p.shows = treePage.shows /\ p.drafts = treePage.drafts
        /\ p.forked = treePage.forked /\ p.shown = treePage.shown /\ p.latest = NoSeed /\ p.replaced = treePage.replaced
    BY <1>0 DEF TreePages
  <2>2. treePage' = Presented(p) /\ UNCHANGED <<piTree, resultFile, treeCall, treeView>>
    BY <1>1 DEF ReloadPage
  <2>. HIDE DEF p
  <2>3. PageOk(p, treeCall)
    BY <1>0, <2>1 DEF PageOk
  <2>. QED
    BY <1>0, <2>1, <2>2, <2>3, PresentedOk, PageMoves
<1>2. ASSUME NEW s \in TreeSessions, Display(s) PROVE MoveInv'
  <2>. DEFINE p == [treePage EXCEPT !.shows = s]
  <2>1. p \in TreePages /\ p.applied = treePage.applied /\ p.seeds = treePage.seeds /\ p.shows = s /\ p.drafts = treePage.drafts
        /\ p.forked = treePage.forked /\ p.shown = treePage.shown /\ p.latest = treePage.latest /\ p.replaced = treePage.replaced
    BY <1>0 DEF TreePages
  <2>2. treePage' = Presented(p) /\ treePage.forked /\ UNCHANGED <<piTree, resultFile, treeCall, treeView>>
    BY <1>2 DEF Display
  <2>. HIDE DEF p
  <2>3. PageOk(p, treeCall)
    BY <1>0, <2>1, <2>2 DEF PageOk
  <2>. QED
    BY <1>0, <2>1, <2>2, <2>3, PresentedOk, PageMoves
<1>. QED
  BY <1>1, <1>2

\* The fork's seed is the only one it ever gets.
LEMMA ForkKeeps ==
  ASSUME MoveInv, ForkSeeded
  PROVE  MoveInv'
<1>0. treePage \in TreePages /\ treeCall \in TreeCalls /\ PageOk(treePage, treeCall)
  BY DEF MoveInv, MoveShape, SeedInv
<1>. DEFINE seeds == [treePage.seeds EXCEPT !["fork"] = "forked"]
            p == [treePage EXCEPT !.shows = "fork", !.forked = TRUE, !.seeds = seeds]
<1>1. treePage' = Presented(p) /\ ~treePage.forked /\ UNCHANGED <<piTree, resultFile, treeCall, treeView>>
  BY DEF ForkSeeded, Seeded
<1>2. seeds \in [TreeSessions -> Seeds \cup {NoSeed}] /\ seeds["fork"] = "forked" /\ seeds["this"] = treePage.seeds["this"]
  BY <1>0 DEF TreePages, TreeSessions, Seeds
<1>. HIDE DEF seeds
<1>3. p \in TreePages /\ p.applied = treePage.applied /\ p.seeds = seeds /\ p.shows = "fork" /\ p.drafts = treePage.drafts
      /\ p.forked /\ p.shown = treePage.shown /\ p.latest = treePage.latest /\ p.replaced = treePage.replaced
  BY <1>0, <1>2, Zenon DEF TreePages, TreeSessions
<1>. HIDE DEF p
<1>4. PageOk(p, treeCall)
  BY <1>0, <1>1, <1>2, <1>3 DEF PageOk
<1>. QED
  BY <1>0, <1>1, <1>3, <1>4, PresentedOk, PageMoves

\* What is written while a move is under way is noted; it is the seed of no one.
LEMMA WriteKeepsMoves ==
  ASSUME MoveInv, WriteDraft
  PROVE  MoveInv'
<1>0. treePage \in TreePages /\ treeCall \in TreeCalls /\ PageOk(treePage, treeCall) /\ PageCurrent(treePage)
  BY DEF MoveInv, MoveShape, SeedInv
<1>. DEFINE s == treePage.shows
            drafts == [treePage.drafts EXCEPT ![s] = "text"]
            wrote == treeCall.wrote \/ s = "this"
<1>1. treePage' = [treePage EXCEPT !.drafts = drafts] /\ treeCall' = [treeCall EXCEPT !.wrote = wrote]
      /\ UNCHANGED <<piTree, resultFile, treeView>>
  BY DEF WriteDraft
<1>2. drafts \in [TreeSessions -> {"empty", "text", "seed"}] /\ s \in {"this", "fork"} /\ wrote \in BOOLEAN
      /\ (s = "this" => drafts["fork"] = treePage.drafts["fork"]) /\ (s = "fork" => drafts["this"] = treePage.drafts["this"])
  BY <1>0 DEF TreePages, TreeSessions, TreeCalls
<1>. HIDE DEF drafts, wrote
<1>3. treePage' \in TreePages /\ treePage'.drafts = drafts /\ treePage'.shows = s /\ treePage'.seeds = treePage.seeds
      /\ treePage'.applied = treePage.applied /\ treePage'.forked = treePage.forked /\ treePage'.shown = treePage.shown
      /\ treePage'.latest = treePage.latest
      /\ treePage'.replaced = treePage.replaced
  BY <1>0, <1>1, <1>2 DEF TreePages
<1>4. treeCall' \in TreeCalls /\ treeCall'.wrote = wrote /\ treeCall'.pc = treeCall.pc /\ treeCall'.hadDraft = treeCall.hadDraft
      /\ treeCall'.confirmed = treeCall.confirmed /\ treeCall'.target = treeCall.target /\ treeCall'.moved = treeCall.moved
      /\ treeCall'.raced = treeCall.raced /\ treeCall'.ended = treeCall.ended
  BY <1>0, <1>1, <1>2 DEF TreeCalls
<1>5. MoveShape' /\ CommandInv' /\ PathInv'
  BY <1>1, <1>3, <1>4 DEF MoveInv, MoveShape, CommandInv, PathInv, Committed
<1>6. PageCurrent(treePage')
  BY <1>0, <1>3 DEF PageCurrent
<1>7. PageOk(treePage', treeCall')
  <2>1. CASE s = "this"
    BY <1>0, <1>2, <1>3, <1>4, <2>1, Zenon DEF PageOk, wrote
  <2>2. CASE s = "fork"
    <3>1. treePage.seeds["fork"] = "forked" => "forked" \in treePage.shown
      BY <1>0, <2>2, MoveAssumption DEF PageCurrent, PageOk, NoSeed
    <3>2. treePage.forked
      BY <1>0, <2>2 DEF PageOk
    <3>. QED
      BY <1>0, <1>2, <1>3, <1>4, <2>2, <3>1, <3>2, Zenon DEF PageOk, wrote
  <2>. QED
    BY <1>2, <2>1, <2>2
<1>. QED
  BY <1>4, <1>5, <1>6, <1>7 DEF MoveInv, SeedInv

\* What is sent leaves no draft and no seed behind.
LEMMA SubmitKeeps ==
  ASSUME MoveInv, SubmitPrompt
  PROVE  MoveInv'
<1>0. treePage \in TreePages /\ treeCall \in TreeCalls /\ PageOk(treePage, treeCall) /\ PageCurrent(treePage) /\ piTree \in PiTrees
  BY DEF MoveInv, MoveShape, SeedInv
<1>. DEFINE s == treePage.shows
            drafts == [treePage.drafts EXCEPT ![s] = "empty"]
            seeds == [treePage.seeds EXCEPT ![s] = NoSeed]
<1>1. treePage' = [treePage EXCEPT !.drafts = drafts, !.seeds = seeds] /\ UNCHANGED <<resultFile, treeCall, treeView>>
  BY DEF SubmitPrompt
<1>2. /\ drafts \in [TreeSessions -> {"empty", "text", "seed"}] /\ s \in {"this", "fork"} /\ drafts[s] = "empty"
      /\ \A x \in {"this", "fork"} : x # s => drafts[x] = treePage.drafts[x]
      /\ seeds \in [TreeSessions -> Seeds \cup {NoSeed}] /\ seeds[s] = NoSeed
      /\ \A x \in {"this", "fork"} : x # s => seeds[x] = treePage.seeds[x]
  BY <1>0 DEF TreePages, TreeSessions
<1>. HIDE DEF drafts, seeds
<1>3. treePage' \in TreePages /\ treePage'.drafts = drafts /\ treePage'.shows = s /\ treePage'.seeds = seeds
      /\ treePage'.applied = treePage.applied /\ treePage'.forked = treePage.forked /\ treePage'.shown = treePage.shown
      /\ treePage'.latest = treePage.latest
      /\ treePage'.replaced = treePage.replaced
  BY <1>0, <1>1, <1>2, Zenon DEF TreePages
<1>4. /\ piTree' \in PiTrees /\ piTree'.leaf = piTree.leaf /\ piTree'.up = piTree.up /\ piTree'.adrift = piTree.adrift
      /\ piTree'.command = piTree.command /\ piTree'.before = piTree.before
  <2>1. CASE piTree' = piTree
    BY <1>0, <2>1
  <2>2. CASE piTree' = [piTree EXCEPT !.busy = TRUE, !.upsets = piTree.upsets + 1]
    <3>. DEFINE n == piTree.upsets + 1
    <3>1. n \in Nat
      BY <1>0 DEF PiTrees
    <3>. HIDE DEF n
    <3>2. piTree' = [piTree EXCEPT !.busy = TRUE, !.upsets = n]
      BY <2>2 DEF n
    <3>. QED
      BY <1>0, <3>1, <3>2, Zenon DEF PiTrees
  <2>. QED
    BY <2>1, <2>2 DEF SubmitPrompt
<1>5. MoveShape' /\ CommandInv' /\ PathInv'
  BY <1>1, <1>3, <1>4 DEF MoveInv, MoveShape, CommandInv, PathInv, Committed
<1>6. PageCurrent(treePage')
  BY <1>2, <1>3 DEF PageCurrent
<1>7. PageOk(treePage', treeCall')
  <2>1. CASE s = "this"
    BY <1>0, <1>1, <1>2, <1>3, <2>1 DEF PageOk
  <2>2. CASE s = "fork"
    BY <1>0, <1>1, <1>2, <1>3, <2>2, MoveAssumption DEF PageOk, NoSeed
  <2>. QED
    BY <1>2, <2>1, <2>2
<1>. QED
  BY <1>1, <1>5, <1>6, <1>7 DEF MoveInv, SeedInv

\* An interaction that ends with an answer or an error, and one that goes on.
LEMMA CallEnds ==
  ASSUME treeCall \in TreeCalls, NEW how \in {"none", "cancelled", "error", "moved"}, NEW pc \in MovePhases,
         treeCall' = [treeCall EXCEPT !.pc = pc, !.ended = how]
  PROVE  /\ treeCall' \in TreeCalls /\ treeCall'.pc = pc /\ treeCall'.ended = how
         /\ treeCall'.target = treeCall.target /\ treeCall'.hadDraft = treeCall.hadDraft /\ treeCall'.confirmed = treeCall.confirmed
         /\ treeCall'.wrote = treeCall.wrote /\ treeCall'.moved = treeCall.moved /\ treeCall'.raced = treeCall.raced
  BY Zenon DEF TreeCalls

LEMMA CallGoesOn ==
  ASSUME treeCall \in TreeCalls, NEW pc \in MovePhases, treeCall' = [treeCall EXCEPT !.pc = pc]
  PROVE  /\ treeCall' \in TreeCalls /\ treeCall'.pc = pc /\ treeCall'.ended = treeCall.ended
         /\ treeCall'.target = treeCall.target /\ treeCall'.hadDraft = treeCall.hadDraft /\ treeCall'.confirmed = treeCall.confirmed
         /\ treeCall'.wrote = treeCall.wrote /\ treeCall'.moved = treeCall.moved /\ treeCall'.raced = treeCall.raced
  BY DEF TreeCalls

\* A question that is declined, or an error before anything went out.
LEMMA DeclinedKeeps ==
  ASSUME MoveInv, NEW how \in {"cancelled", "error"}, Ended(how), treeCall.pc \in {"choose", "confirm", "summary", "checking"},
         UNCHANGED <<piTree, resultFile, treeView, treePage>>
  PROVE  MoveInv'
<1>1. /\ treeCall' \in TreeCalls /\ treeCall'.pc = "idle" /\ treeCall'.ended = how
      /\ treeCall'.target = treeCall.target /\ treeCall'.hadDraft = treeCall.hadDraft /\ treeCall'.confirmed = treeCall.confirmed
      /\ treeCall'.wrote = treeCall.wrote /\ treeCall'.moved = treeCall.moved /\ treeCall'.raced = treeCall.raced
  BY CallEnds, Zenon DEF Ended, MoveInv, MoveShape, MovePhases
<1>2. MoveShape' /\ CommandInv' /\ PathInv'
  BY <1>1 DEF MoveInv, MoveShape, CommandInv, PathInv, Committed
<1>3. SeedInv'
  BY <1>1, PageRests DEF MovePhases
<1>. QED
  BY <1>2, <1>3 DEF MoveInv

\* A request of the user, for a prompt or for a choice of branches.
LEMMA AskedKeeps ==
  ASSUME MoveInv, (\E target \in Targets : BranchHere(target)) \/ SwitchBranch
  PROVE  MoveInv'
<1>0. treePage \in TreePages /\ treeCall \in TreeCalls /\ PageOk(treePage, treeCall) /\ PageCurrent(treePage)
      /\ treeCall.pc = "idle" /\ treePage.shows = "this"
  BY DEF MoveInv, MoveShape, SeedInv, BranchHere, SwitchBranch
<1>. DEFINE hadDraft == treePage.drafts["this"] # "empty"
            n == treeCall.count + 1
<1>1. PICK pc \in {"confirm", "summary", "choose"}, target \in Targets \cup {NoTarget} :
        /\ Asked(pc, target) /\ (pc # "choose" => target \in Targets) /\ (pc = "summary" => ~hadDraft)
        /\ resultFile' = "none" /\ UNCHANGED <<piTree, treeView, treePage>>
  BY DEF BranchHere, SwitchBranch
<1>2. hadDraft \in BOOLEAN /\ n \in Nat
  BY <1>0 DEF TreeCalls
<1>3. treeCall' = [TreeIdle EXCEPT !.pc = pc, !.target = target, !.count = n, !.hadDraft = hadDraft]
  BY <1>1 DEF Asked
<1>. HIDE DEF hadDraft, n
<1>4. /\ treeCall' \in TreeCalls /\ treeCall'.pc = pc /\ treeCall'.ended = "none" /\ treeCall'.target = target /\ treeCall'.hadDraft = hadDraft
      /\ ~treeCall'.confirmed /\ ~treeCall'.wrote /\ ~treeCall'.moved /\ ~treeCall'.raced
  BY <1>1, <1>2, <1>3, Zenon DEF TreeCalls, TreeIdle, MovePhases
<1>5. MoveShape' /\ CommandInv' /\ PathInv'
  BY <1>1, <1>4, <1>0 DEF MoveInv, MoveShape, CommandInv, PathInv, Committed
<1>6. PageOk(treePage', treeCall')
  <2>1. treePage.seeds["this"] \in treePage.shown \cup {NoSeed}
    BY <1>0 DEF PageOk, PageCurrent
  <2>. QED
    BY <1>0, <1>1, <1>4, <2>1, Zenon DEF PageOk, hadDraft
<1>7. PageCurrent(treePage')
  BY <1>0, <1>1
<1>. QED
  BY <1>1, <1>4, <1>5, <1>6, <1>7 DEF MoveInv, SeedInv

\* The questions: which branch, may the draft be replaced, with or without a summary.
LEMMA QuestionsKeep ==
  ASSUME MoveInv, \/ \E target \in Targets \cup {NoTarget} : PickBranchEnd(target)
                  \/ \E yes \in BOOLEAN : ConfirmDraftReplacement(yes) \/ PickBranchSummary(yes)
  PROVE  MoveInv'
<1>0. treeCall \in TreeCalls /\ treeCall.pc \in {"choose", "confirm", "summary"} /\ UNCHANGED <<piTree, resultFile, treeView, treePage>>
      /\ PageOk(treePage, treeCall) /\ PageCurrent(treePage)
  BY Zenon DEF MoveInv, MoveShape, SeedInv, PickBranchEnd, ConfirmDraftReplacement, PickBranchSummary
<1>1. CASE Ended("cancelled") \/ Ended("error")
  BY <1>0, <1>1, DeclinedKeeps
<1>2. ASSUME NEW target \in Targets, treeCall.pc = "choose", NEW pc \in {"confirm", "summary"},
             pc = "summary" => ~NeedsConsent(target, treeCall.hadDraft),
             treeCall' = [treeCall EXCEPT !.target = target, !.pc = pc]
      PROVE  MoveInv'
  <2>1. /\ treeCall' \in TreeCalls /\ treeCall'.pc = pc /\ treeCall'.ended = treeCall.ended /\ treeCall'.target = target
        /\ treeCall'.hadDraft = treeCall.hadDraft /\ treeCall'.confirmed = treeCall.confirmed
        /\ treeCall'.wrote = treeCall.wrote /\ treeCall'.moved = treeCall.moved /\ treeCall'.raced = treeCall.raced
    BY <1>0, <1>2, Zenon DEF TreeCalls, MovePhases
  <2>2. MoveShape' /\ CommandInv' /\ PathInv'
    BY <1>0, <1>2, <2>1 DEF MoveInv, MoveShape, CommandInv, PathInv, Committed
  <2>3. PageOk(treePage', treeCall') /\ PageCurrent(treePage')
    BY <1>0, <1>2, <2>1 DEF PageOk
  <2>. QED
    BY <1>2, <2>1, <2>2, <2>3 DEF MoveInv, SeedInv, NeedsConsent
<1>3. ASSUME treeCall.pc = "confirm", treeCall' = [treeCall EXCEPT !.pc = "summary", !.confirmed = TRUE]
      PROVE  MoveInv'
  <2>1. /\ treeCall' \in TreeCalls /\ treeCall'.pc = "summary" /\ treeCall'.ended = treeCall.ended /\ treeCall'.target = treeCall.target
        /\ treeCall'.hadDraft = treeCall.hadDraft /\ treeCall'.confirmed
        /\ treeCall'.wrote = treeCall.wrote /\ treeCall'.moved = treeCall.moved /\ treeCall'.raced = treeCall.raced
    BY <1>0, <1>3, Zenon DEF TreeCalls, MovePhases
  <2>2. MoveShape' /\ CommandInv' /\ PathInv'
    BY <1>0, <1>3, <2>1 DEF MoveInv, MoveShape, CommandInv, PathInv, Committed, MovePhases
  <2>3. PageOk(treePage', treeCall') /\ PageCurrent(treePage')
    BY <1>0, <1>3, <2>1 DEF PageOk
  <2>. QED
    BY <2>1, <2>2, <2>3 DEF MoveInv, SeedInv
<1>4. ASSUME treeCall.pc = "summary", treeCall' = [treeCall EXCEPT !.pc = "checking"]
      PROVE  MoveInv'
  <2>1. /\ treeCall' \in TreeCalls /\ treeCall'.pc = "checking" /\ treeCall'.ended = treeCall.ended
        /\ treeCall'.target = treeCall.target /\ treeCall'.hadDraft = treeCall.hadDraft /\ treeCall'.confirmed = treeCall.confirmed
        /\ treeCall'.wrote = treeCall.wrote /\ treeCall'.moved = treeCall.moved /\ treeCall'.raced = treeCall.raced
    BY <1>0, <1>4, CallGoesOn DEF MovePhases
  <2>2. MoveShape' /\ CommandInv' /\ PathInv'
    BY <1>0, <1>4, <2>1 DEF MoveInv, MoveShape, CommandInv, PathInv, Committed, MovePhases
  <2>3. SeedInv'
    BY <1>0, <1>4, <2>1, PageRests DEF MovePhases
  <2>. QED
    BY <2>2, <2>3 DEF MoveInv
<1>5. ASSUME NEW target \in Targets \cup {NoTarget}, PickBranchEnd(target)
      PROVE  MoveInv'
  <2>1. CASE target \in {NoTarget, piTree.leaf}
    BY <1>1, <1>5, <2>1, Zenon DEF PickBranchEnd
  <2>2. CASE target \notin {NoTarget, piTree.leaf}
    BY <1>2, <1>5, <2>2, Zenon DEF PickBranchEnd
  <2>. QED
    BY <2>1, <2>2
<1>6. ASSUME NEW yes \in BOOLEAN, ConfirmDraftReplacement(yes)
      PROVE  MoveInv'
  BY <1>1, <1>3, <1>6 DEF ConfirmDraftReplacement
<1>7. ASSUME NEW yes \in BOOLEAN, PickBranchSummary(yes)
      PROVE  MoveInv'
  BY <1>1, <1>4, <1>7 DEF PickBranchSummary
<1>. QED
  BY <1>5, <1>6, <1>7

\* The command goes out: Pi's extension notes its leaf.
LEMMA NavigateKeeps ==
  ASSUME MoveInv, Navigate
  PROVE  MoveInv'
<1>0. treeCall \in TreeCalls /\ piTree \in PiTrees /\ treeCall.pc = "checking" /\ UNCHANGED <<resultFile, treeView, treePage>>
  BY DEF MoveInv, MoveShape, Navigate
<1>1. CASE Ended("error") /\ UNCHANGED piTree
  BY <1>0, <1>1, DeclinedKeeps
<1>2. CASE piTree.up /\ treeCall' = [treeCall EXCEPT !.pc = "navigating"] /\ piTree' = [piTree EXCEPT !.command = "waiting", !.before = piTree.leaf]
  <2>1. /\ treeCall' \in TreeCalls /\ treeCall'.pc = "navigating" /\ treeCall'.ended = treeCall.ended
        /\ treeCall'.target = treeCall.target /\ treeCall'.hadDraft = treeCall.hadDraft /\ treeCall'.confirmed = treeCall.confirmed
        /\ treeCall'.wrote = treeCall.wrote /\ treeCall'.moved = treeCall.moved /\ treeCall'.raced = treeCall.raced
    BY <1>0, <1>2, CallGoesOn DEF MovePhases
  <2>2. /\ piTree' \in PiTrees /\ piTree'.leaf = piTree.leaf /\ piTree'.up /\ piTree'.adrift = piTree.adrift
        /\ piTree'.command = "waiting" /\ piTree'.before = piTree.leaf
    BY <1>0, <1>2, Zenon DEF PiTrees
  <2>3. MoveShape' /\ CommandInv' /\ PathInv'
    BY <1>0, <1>2, <2>1, <2>2 DEF MoveInv, MoveShape, CommandInv, PathInv, Committed, MovePhases
  <2>4. SeedInv'
    BY <1>0, <2>1, PageRests DEF MovePhases
  <2>. QED
    BY <2>3, <2>4 DEF MoveInv
<1>. QED
  BY <1>1, <1>2 DEF Navigate

\* Pi's extension moves the leaf or not, and writes what it says of it.
LEMMA ExtensionKeeps ==
  ASSUME MoveInv, NEW outcome \in {"cancelled", "moved", "failed", "moved, then failed"}, NEW stored \in BOOLEAN,
         ExtensionMoves(outcome, stored)
  PROVE  MoveInv'
<1>. DEFINE leaf == IF outcome \in {"moved", "moved, then failed"} THEN treeCall.target ELSE piTree.leaf
            moved == leaf # piTree.leaf
            adrift == (piTree.adrift \/ ~stored \/ treeCall.raced) /\ leaf # treeView.leaf
            result == IF stored THEN Result(outcome, piTree.before, leaf) ELSE resultFile
<1>0. /\ treeCall \in TreeCalls /\ piTree \in PiTrees /\ piTree.command = "waiting" /\ treeCall.pc = "navigating"
      /\ treeCall.target \in Targets /\ resultFile = "none"
  BY Zenon DEF MoveInv, MoveShape, CommandInv, ExtensionMoves, MovePhases
<1>1. /\ piTree' = [piTree EXCEPT !.command = "ended", !.leaf = leaf, !.adrift = adrift]
      /\ resultFile' = result /\ treeCall' = [treeCall EXCEPT !.moved = moved] /\ UNCHANGED <<treeView, treePage>>
  BY Zenon DEF ExtensionMoves
<1>2. leaf \in Leaves /\ moved \in BOOLEAN /\ adrift \in BOOLEAN
  BY <1>0, Zenon DEF Leaves, PiTrees
<1>3. result \in {"none", "cancelled", "committed", "failed"}
  BY <1>0, Zenon DEF Result
<1>4. result = "cancelled" => ~moved
  BY <1>0, Zenon DEF Result
<1>5. result = "committed" => treeCall.raced \/ moved \/ piTree.before = treeCall.target
  <2>1. treeCall.raced \/ piTree.before = piTree.leaf
    BY <1>0, Zenon DEF MoveInv, CommandInv
  <2>. QED
    BY <1>0, <2>1, Zenon DEF Result
<1>6. piTree.up /\ treeView.history = "loaded" /\ result # "committed" => treeView.leaf = leaf \/ adrift
  <2>. SUFFICES ASSUME piTree.up, treeView.history = "loaded", result # "committed", stored, ~treeCall.raced, ~piTree.adrift
                PROVE  treeView.leaf = leaf
    BY <1>0, Zenon DEF PiTrees, TreeCalls
  <2>1. treeView.leaf = piTree.leaf /\ piTree.before = piTree.leaf
    BY <1>0, Zenon DEF MoveInv, PathInv, Committed, CommandInv
  <2>2. leaf = piTree.leaf
    BY <2>1, Zenon DEF Result
  <2>. QED
    BY <2>1, <2>2, Zenon
<1>. HIDE DEF leaf, moved, adrift, result
<1>7. /\ piTree' \in PiTrees /\ piTree'.leaf = leaf /\ piTree'.up = piTree.up /\ piTree'.adrift = adrift
      /\ piTree'.command = "ended" /\ piTree'.before = piTree.before
  BY <1>0, <1>1, <1>2, Zenon DEF PiTrees
<1>8. /\ treeCall' \in TreeCalls /\ treeCall'.moved = moved /\ treeCall'.pc = "navigating" /\ treeCall'.ended = treeCall.ended
      /\ treeCall'.target = treeCall.target /\ treeCall'.hadDraft = treeCall.hadDraft /\ treeCall'.confirmed = treeCall.confirmed
      /\ treeCall'.wrote = treeCall.wrote /\ treeCall'.raced = treeCall.raced
  BY <1>0, <1>1, <1>2, Zenon DEF TreeCalls
<1>9. MoveShape' /\ CommandInv'
  BY <1>0, <1>1, <1>3, <1>4, <1>7, <1>8, Zenon DEF MoveInv, MoveShape, CommandInv, MovePhases
<1>10. PathInv'
  <2>1. treeCall.ended = "none"
    BY <1>0, Zenon DEF MoveInv, CommandInv
  <2>. QED
    BY <1>1, <1>5, <1>6, <1>7, <1>8, <2>1, Zenon DEF PathInv, Committed
<1>11. SeedInv'
  BY <1>0, <1>1, <1>8, PageRests, Zenon DEF MovePhases
<1>. QED
  BY <1>9, <1>10, <1>11, Zenon DEF MoveInv

\* Pi's own doings: a run ends, it dies, it is started again.
LEMMA PiMovesKeep ==
  ASSUME MoveInv, RunSettles \/ PiDies \/ RestartPi
  PROVE  MoveInv'
<1>0. treeCall \in TreeCalls /\ piTree \in PiTrees /\ treeView \in TreeViews
  BY DEF MoveInv, MoveShape
<1>1. CASE RunSettles
  <2>. DEFINE raced == treeCall.raced \/ piTree.command = "waiting"
  <2>1. /\ piTree' = [piTree EXCEPT !.busy = FALSE, !.leaf = "new", !.adrift = FALSE] /\ treeView' = [treeView EXCEPT !.leaf = "new"]
        /\ treeCall' = [treeCall EXCEPT !.raced = raced] /\ UNCHANGED <<resultFile, treePage>>
    BY <1>1 DEF RunSettles
  <2>2. raced \in BOOLEAN /\ "new" \in Leaves
    BY <1>0 DEF TreeCalls, Leaves
  <2>3. (raced <=> treeCall.raced) \/ piTree.command = "waiting"
    OBVIOUS
  <2>4. treeCall.raced => raced
    OBVIOUS
  <2>5. piTree.command = "waiting" => raced
    OBVIOUS
  <2>. HIDE DEF raced
  <2>6. /\ piTree' \in PiTrees /\ piTree'.leaf = "new" /\ piTree'.up = piTree.up /\ ~piTree'.adrift
        /\ piTree'.command = piTree.command /\ piTree'.before = piTree.before
    BY <1>0, <2>1, <2>2, Zenon DEF PiTrees
  <2>7. /\ treeCall' \in TreeCalls /\ treeCall'.moved = treeCall.moved /\ treeCall'.pc = treeCall.pc /\ treeCall'.ended = treeCall.ended
        /\ treeCall'.target = treeCall.target /\ treeCall'.hadDraft = treeCall.hadDraft /\ treeCall'.confirmed = treeCall.confirmed
        /\ treeCall'.wrote = treeCall.wrote /\ treeCall'.raced = raced
    BY <1>0, <2>1, <2>2 DEF TreeCalls
  <2>8. treeView' \in TreeViews /\ treeView'.leaf = "new" /\ treeView'.history = treeView.history
    BY <1>0, <2>1, <2>2 DEF TreeViews
  <2>9. MoveShape'
    BY <2>1, <2>6, <2>7, <2>8 DEF MoveInv, MoveShape
  <2>10. CommandInv'
    BY <2>1, <2>3, <2>5, <2>6, <2>7 DEF MoveInv, CommandInv
  <2>11. PathInv'
    BY <2>1, <2>4, <2>6, <2>7, <2>8 DEF MoveInv, PathInv, Committed
  <2>12. SeedInv'
    BY <2>1, <2>7, PageRests
  <2>. QED
    BY <2>9, <2>10, <2>11, <2>12 DEF MoveInv
<1>2. CASE PiDies
  <2>. DEFINE command == IF piTree.command = "waiting" THEN "ended" ELSE piTree.command
              n == piTree.upsets + 1
  <2>1. piTree' = [piTree EXCEPT !.up = FALSE, !.busy = FALSE, !.upsets = n, !.command = command]
        /\ UNCHANGED <<resultFile, treeCall, treeView, treePage>>
    BY <1>2 DEF PiDies
  <2>2. n \in Nat /\ command \in {"none", "ended"} /\ (command = "none" <=> piTree.command = "none")
    BY <1>0 DEF PiTrees
  <2>. HIDE DEF command, n
  <2>3. /\ piTree' \in PiTrees /\ piTree'.leaf = piTree.leaf /\ ~piTree'.up /\ piTree'.adrift = piTree.adrift
        /\ piTree'.command = command /\ piTree'.before = piTree.before
    BY <1>0, <2>1, <2>2, Zenon DEF PiTrees
  <2>4. MoveShape' /\ CommandInv' /\ PathInv'
    BY <2>1, <2>2, <2>3 DEF MoveInv, MoveShape, CommandInv, PathInv, Committed
  <2>5. SeedInv'
    BY <1>0, <2>1, PageRests
  <2>. QED
    BY <2>4, <2>5 DEF MoveInv
<1>3. CASE RestartPi
  <2>1. PICK leaf \in Leaves : /\ piTree' = [piTree EXCEPT !.up = TRUE, !.leaf = leaf, !.command = "none", !.adrift = FALSE]
                               /\ treeView' = [leaf |-> leaf, history |-> "loaded"]
    BY <1>3, Zenon DEF RestartPi
  <2>2. treeCall.pc \notin {"navigating", "reloading"} /\ UNCHANGED <<resultFile, treeCall, treePage>>
    BY <1>3, Zenon DEF RestartPi
  <2>3. /\ piTree' \in PiTrees /\ piTree'.leaf = leaf /\ piTree'.up /\ ~piTree'.adrift
        /\ piTree'.command = "none" /\ piTree'.before = piTree.before
    BY <1>0, <2>1, Zenon DEF PiTrees
  <2>4. MoveShape' /\ CommandInv' /\ PathInv'
    BY <2>1, <2>2, <2>3 DEF MoveInv, MoveShape, CommandInv, PathInv, Committed, TreeViews
  <2>5. SeedInv'
    BY <1>0, <2>2, PageRests
  <2>. QED
    BY <2>4, <2>5 DEF MoveInv
<1>. QED
  BY <1>1, <1>2, <1>3

\* The registry reads the result, or the history is loaded once more.
LEMMA ResultKeeps ==
  ASSUME MoveInv, ReadResult \/ RetryHistory
  PROVE  MoveInv'
<1>0. treeCall \in TreeCalls /\ piTree \in PiTrees /\ treeView \in TreeViews
  BY DEF MoveInv, MoveShape
<1>1. CASE ReadResult
  <2>0. treeCall.pc = "navigating" /\ piTree' = [piTree EXCEPT !.command = "none"] /\ UNCHANGED <<resultFile, treeView, treePage>>
        /\ treeCall.ended = "none"
    BY <1>1 DEF ReadResult, MoveInv, CommandInv
  <2>1. /\ piTree' \in PiTrees /\ piTree'.leaf = piTree.leaf /\ piTree'.up = piTree.up /\ piTree'.adrift = piTree.adrift
        /\ piTree'.command = "none" /\ piTree'.before = piTree.before
    BY <1>0, <2>0 DEF PiTrees
  <2>2. PICK pc \in {"idle", "reloading"}, how \in {"none", "cancelled", "error"} :
          /\ treeCall' = [treeCall EXCEPT !.pc = pc, !.ended = how]
          /\ pc = "reloading" <=> resultFile = "committed"
          /\ pc = "reloading" => how = "none"
          /\ how = "cancelled" => resultFile = "cancelled"
    <3>1. CASE resultFile = "committed"
      <4>1. treeCall' = [treeCall EXCEPT !.pc = "reloading"]
        BY <1>1, <3>1 DEF ReadResult
      <4>2. treeCall' = [treeCall EXCEPT !.pc = "reloading", !.ended = "none"]
        BY <1>0, <2>0, <4>1, Zenon DEF TreeCalls
      <4>. QED
        BY <3>1, <4>2
    <3>2. CASE resultFile = "cancelled"
      <4>1. treeCall' = [treeCall EXCEPT !.pc = "idle", !.ended = "cancelled"]
        BY <1>1, <3>2 DEF ReadResult, Ended
      <4>. QED
        BY <3>2, <4>1
    <3>3. CASE resultFile \notin {"committed", "cancelled"}
      <4>1. treeCall' = [treeCall EXCEPT !.pc = "idle", !.ended = "error"]
        BY <1>1, <3>3 DEF ReadResult, Ended
      <4>. QED
        BY <3>3, <4>1
    <3>. QED
      BY <3>1, <3>2, <3>3
  <2>3. /\ treeCall' \in TreeCalls /\ treeCall'.pc = pc /\ treeCall'.ended = how
        /\ treeCall'.target = treeCall.target /\ treeCall'.hadDraft = treeCall.hadDraft /\ treeCall'.confirmed = treeCall.confirmed
        /\ treeCall'.wrote = treeCall.wrote /\ treeCall'.moved = treeCall.moved /\ treeCall'.raced = treeCall.raced
    BY <1>0, <2>2, CallEnds, Zenon DEF MovePhases
  <2>4. MoveShape' /\ CommandInv' /\ PathInv'
    BY <2>0, <2>1, <2>2, <2>3 DEF MoveInv, MoveShape, CommandInv, PathInv, Committed, MovePhases
  <2>5. SeedInv'
    BY <2>0, <2>3, PageRests DEF MovePhases
  <2>. QED
    BY <2>4, <2>5 DEF MoveInv
<1>2. CASE RetryHistory
  <2>0. /\ treeView' = [leaf |-> piTree.leaf, history |-> "loaded"] /\ piTree' = [piTree EXCEPT !.adrift = FALSE]
        /\ UNCHANGED <<resultFile, treeCall, treePage>> /\ treeCall.pc # "navigating"
    BY <1>2 DEF RetryHistory
  <2>1. /\ piTree' \in PiTrees /\ piTree'.leaf = piTree.leaf /\ piTree'.up = piTree.up /\ ~piTree'.adrift
        /\ piTree'.command = piTree.command /\ piTree'.before = piTree.before
    BY <1>0, <2>0, Zenon DEF PiTrees
  <2>2. piTree.leaf \in Leaves
    BY <1>0 DEF PiTrees
  <2>3. MoveShape' /\ CommandInv' /\ PathInv'
    BY <2>0, <2>1, <2>2 DEF MoveInv, MoveShape, CommandInv, PathInv, Committed, TreeViews
  <2>4. SeedInv'
    BY <1>0, <2>0, PageRests
  <2>. QED
    BY <2>3, <2>4 DEF MoveInv
<1>. QED
  BY <1>1, <1>2

\* The path is read again, and the seed is put into the composer.
LEMMA ReloadKeeps ==
  ASSUME MoveInv, ReloadPath
  PROVE  MoveInv'
<1>0. /\ treeCall \in TreeCalls /\ piTree \in PiTrees /\ treeView \in TreeViews /\ treePage \in TreePages
      /\ treeCall.pc = "reloading" /\ treeCall.target \in Targets /\ treeCall.ended = "none" /\ piTree.command = "none"
      /\ PageOk(treePage, treeCall) /\ PageCurrent(treePage) /\ UNCHANGED resultFile
  BY DEF MoveInv, MoveShape, CommandInv, SeedInv, ReloadPath, MovePhases, PiTrees
<1>1. CASE treeView' = [treeView EXCEPT !.history = "failed"] /\ Ended("error") /\ UNCHANGED <<piTree, treePage>>
  <2>1. /\ treeCall' \in TreeCalls /\ treeCall'.pc = "idle" /\ treeCall'.ended = "error"
        /\ treeCall'.target = treeCall.target /\ treeCall'.hadDraft = treeCall.hadDraft /\ treeCall'.confirmed = treeCall.confirmed
        /\ treeCall'.wrote = treeCall.wrote /\ treeCall'.moved = treeCall.moved /\ treeCall'.raced = treeCall.raced
    BY <1>0, <1>1, CallEnds DEF Ended, MovePhases
  <2>2. treeView' \in TreeViews /\ treeView'.history = "failed"
    BY <1>0, <1>1 DEF TreeViews
  <2>3. MoveShape' /\ CommandInv' /\ PathInv'
    BY <1>0, <1>1, <2>1, <2>2 DEF MoveInv, MoveShape, CommandInv, PathInv, Committed
  <2>4. SeedInv'
    BY <1>1, <2>1, PageRests
  <2>. QED
    BY <2>3, <2>4 DEF MoveInv
<1>2. CASE /\ piTree.up /\ treeView' = [treeView EXCEPT !.leaf = piTree.leaf] /\ piTree' = [piTree EXCEPT !.adrift = FALSE]
           /\ Ended("moved")
           /\ treePage' = IF treeCall.target \in Prompts THEN Presented(Seeded(treePage, "this", treeCall.target)) ELSE treePage
  <2>1. /\ treeCall' \in TreeCalls /\ treeCall'.pc = "idle" /\ treeCall'.ended = "moved"
        /\ treeCall'.target = treeCall.target /\ treeCall'.hadDraft = treeCall.hadDraft /\ treeCall'.confirmed = treeCall.confirmed
        /\ treeCall'.wrote = treeCall.wrote /\ treeCall'.moved = treeCall.moved /\ treeCall'.raced = treeCall.raced
    BY <1>0, <1>2, CallEnds DEF Ended, MovePhases
  <2>2. treeView' \in TreeViews /\ treeView'.leaf = piTree.leaf /\ piTree.leaf \in Leaves
    BY <1>0, <1>2 DEF TreeViews, PiTrees
  <2>3. /\ piTree' \in PiTrees /\ piTree'.leaf = piTree.leaf /\ piTree'.up = piTree.up /\ ~piTree'.adrift
        /\ piTree'.command = "none" /\ piTree'.before = piTree.before
    BY <1>0, <1>2, Zenon DEF PiTrees
  <2>4. treeCall.hadDraft /\ treeCall.target \in Prompts => treeCall.confirmed
    BY <1>0 DEF MoveInv, SeedInv, MovePhases
  <2>5. treePage' \in TreePages /\ PageOk(treePage', treeCall) /\ PageCurrent(treePage')
    <3>1. CASE treeCall.target \notin Prompts
      BY <1>0, <1>2, <3>1
    <3>2. CASE treeCall.target \in Prompts
      <4>. DEFINE seeds == [treePage.seeds EXCEPT !["this"] = treeCall.target]
                  p == [treePage EXCEPT !.seeds = seeds]
      <4>1. treePage' = Presented(p)
        BY <1>2, <3>2 DEF Seeded
      <4>2. seeds \in [TreeSessions -> Seeds \cup {NoSeed}] /\ seeds["fork"] = treePage.seeds["fork"] /\ seeds["this"] = treeCall.target
        BY <1>0 DEF TreePages, TreeSessions, Seeds
      <4>. HIDE DEF seeds
      <4>3. p \in TreePages /\ p.applied = treePage.applied /\ p.seeds = seeds /\ p.shows = treePage.shows /\ p.drafts = treePage.drafts
            /\ p.forked = treePage.forked /\ p.shown = treePage.shown /\ p.latest = treePage.latest /\ p.replaced = treePage.replaced
        BY <1>0, <4>2 DEF TreePages
      <4>. HIDE DEF p
      <4>4. PageOk(p, treeCall)
        BY <1>0, <2>4, <3>2, <4>2, <4>3 DEF PageOk
      <4>. QED
        BY <1>0, <4>1, <4>3, <4>4, PresentedOk
    <3>. QED
      BY <3>1, <3>2
  <2>6. MoveShape'
    BY <1>0, <2>1, <2>2, <2>3, <2>5 DEF MoveInv, MoveShape
  <2>7. CommandInv' /\ PathInv'
    BY <1>0, <2>1, <2>2, <2>3 DEF MoveInv, CommandInv, PathInv, Committed, MovePhases
  <2>8. SeedInv'
    BY <2>1, <2>5 DEF SeedInv, PageOk, MovePhases
  <2>. QED
    BY <2>6, <2>7, <2>8 DEF MoveInv
<1>. QED
  BY <1>1, <1>2 DEF ReloadPath

\* Every step of this part keeps the invariant,
LEMMA MoveStepKeeps ==
  ASSUME MoveInv, MoveSteps \/ UNCHANGED treeMoveVars
  PROVE  MoveInv'
<1>1. CASE UNCHANGED treeMoveVars
  BY <1>1 DEF treeMoveVars, MoveInv, MoveShape, CommandInv, PathInv, Committed, SeedInv, PageOk, PageCurrent
<1>2. CASE MoveSteps
  BY <1>2, DisplayKeeps, WriteKeepsMoves, ForkKeeps, SubmitKeeps, AskedKeeps, QuestionsKeep, NavigateKeeps, ExtensionKeeps,
     PiMovesKeep, ResultKeeps, ReloadKeeps, Zenon DEF MoveSteps
<1>. QED
  BY <1>1, <1>2

\* which holds before anything has moved
LEMMA MovesStartRight ==
  ASSUME MovesStart
  PROVE  MoveInv
<1>1. piTree \in PiTrees /\ piTree.command = "none" /\ ~piTree.adrift /\ piTree.leaf \in Leaves
  <2>1. PICK leaf \in Targets : piTree = [leaf |-> leaf, up |-> TRUE, busy |-> FALSE, command |-> "none", before |-> NoTarget,
                                          adrift |-> FALSE, upsets |-> 0]
    BY Zenon DEF MovesStart
  <2>. QED
    BY <2>1 DEF PiTrees, Leaves
<1>2. treeCall \in TreeCalls /\ treeCall.pc = "idle" /\ treeCall.ended = "none"
  BY DEF MovesStart, TreeIdle, TreeCalls, MovePhases
<1>3. treeView \in TreeViews /\ treeView.leaf = piTree.leaf
  BY <1>1 DEF MovesStart, TreeViews
<1>4. /\ treePage \in TreePages /\ treePage.shows = "this" /\ treePage.applied = NoSeed /\ treePage.replaced = {} /\ ~treePage.forked
      /\ treePage.shown = {} /\ treePage.latest = NoSeed /\ \A s \in TreeSessions : treePage.drafts[s] = "empty" /\ treePage.seeds[s] = NoSeed
  BY DEF MovesStart, TreePages, TreeSessions
<1>5. PageOk(treePage, treeCall) /\ PageCurrent(treePage)
  BY <1>4 DEF PageOk, PageCurrent, TreeSessions
<1>. QED
  BY <1>1, <1>2, <1>3, <1>4, <1>5 DEF MovesStart, MoveInv, MoveShape, CommandInv, PathInv, Committed, SeedInv

\* and which is stronger than what is promised.
LEMMA MovesHonestNow ==
  ASSUME MoveInv
  PROVE  MoveTypes /\ NavigationHonest
<1>1. MoveTypes
  BY DEF MoveInv, MoveShape, MoveTypes, PiTrees, TreeCalls, TreeViews, TreePages, MovePhases
<1>2. PathIsPis
  BY DEF MoveInv, PathInv, Committed, PathIsPis
<1>3. OutcomeTrue
  BY DEF MoveInv, PathInv, OutcomeTrue
<1>4. OldDraftAskedAbout /\ SeedNotRepeated
  BY DEF MoveInv, SeedInv, PageOk, OldDraftAskedAbout, SeedNotRepeated
<1>. QED
  BY <1>1, <1>2, <1>3, <1>4 DEF NavigationHonest

\* After a move the path on the screen is Pi's, but for the two kinds of moves that leave it
\* behind (PathIsPis); what is called a move or a cancellation was one, unless the extension
\* waited for a run (OutcomeTrue). A draft that was there when the user asked for the move
\* gives way only if the user agreed, and a page does not put a seed there twice in a row. It
\* is not proved, and does not hold, that every draft is asked about (composer.SPEC.md:22) nor
\* that a page applies a seed once (webview-bridge.SPEC.md:41).
THEOREM MovesStayHonest ==
  MovesStart /\ [][MoveSteps]_treeMoveVars => [](MoveTypes /\ NavigationHonest)
<1>1. MovesStart => MoveInv
  BY MovesStartRight
<1>2. MoveInv /\ [MoveSteps]_treeMoveVars => MoveInv'
  BY MoveStepKeeps
<1>3. MoveInv => MoveTypes /\ NavigationHonest
  BY MovesHonestNow
<1>. QED
  BY <1>1, <1>2, <1>3, PTL

-----------------------------------------------------------------------------
(* The shell and the backend.                                                *)

Releases == Versions \cup {NoRelease}
Calls0 == {"exitCheck", "prepareUpdate", "close"}
ShellAsks == [kind : Calls0, awaited : BOOLEAN]
BackendSays == [kind : {"exitCheck", "prepareUpdate", "closed"}, awaited : BOOLEAN, value : BOOLEAN]
Wires == [down : Seq(ShellAsks), up : Seq(BackendSays)]
Shells == [closing : BOOLEAN, busy : BOOLEAN, asking : {"no", "check", "dialog"},
           draining : {"no", "exit", "install"}, closed : {"none", "saved", "lost"},
           update : {"idle", "checking", "downloading", "installing", "preparing", "draining"},
           offered : Releases, shown : Releases, held : Releases, version : Releases,
           end : {"none", "saved", "unsaved", "msi", "crash"}]
Backends == [life : {"starting", "ready", "closing", "gone"}, work : {"none", "open", "working"},
             opening : BOOLEAN, admitted : BOOLEAN]
Stores == [want : Nat, disk : Nat, queue : Seq(Nat), blocked : BOOLEAN]
Caches == [release : Releases, whole : BOOLEAN, writing : {"no", "part", "whole"}]

LifeShape ==
    /\ wire \in Wires /\ shell \in Shells /\ backend \in Backends
    /\ store \in Stores /\ cache \in Caches

-----------------------------------------------------------------------------
\* A preparation the shell still waits for is on its way once, there or back.
Prepare(q, i) == q[i].kind = "prepareUpdate" /\ q[i].awaited
OneAwaits(w) ==
    /\ \A i, j \in DOMAIN w.down : Prepare(w.down, i) /\ Prepare(w.down, j) => i = j
    /\ \A i, j \in DOMAIN w.up : Prepare(w.up, i) /\ Prepare(w.up, j) => i = j
    /\ \A i \in DOMAIN w.down, j \in DOMAIN w.up : ~(Prepare(w.down, i) /\ Prepare(w.up, j))
NoneAwaits(w) ==
    /\ \A i \in DOMAIN w.down : ~Prepare(w.down, i)
    /\ \A i \in DOMAIN w.up : ~Prepare(w.up, i)

\* What the backend has reported and the shell has not heard yet.
SavedTold(w) == \E i \in DOMAIN w.up : w.up[i].kind = "closed" /\ w.up[i].value
Granted(w) == \E i \in DOMAIN w.up : w.up[i].kind = "prepareUpdate" /\ w.up[i].value

\* The file has what was wanted, and nobody is left who would want more.
AtRest == store.disk = store.want /\ backend.life = "gone"

StoreInv ==
    /\ store.disk <= store.want /\ \A i \in DOMAIN store.queue : store.queue[i] <= store.want
    /\ store.blocked => store.disk = 0 /\ store.queue = <<>>
    /\ (shell.end \in {"saved", "msi"} \/ shell.closed = "saved" \/ SavedTold(wire)) => AtRest

AdmissionInv ==
    /\ ~backend.admitted => backend.work = "none" /\ ~backend.opening
    /\ backend.life = "starting" => backend.admitted
    /\ (Granted(wire) \/ shell.draining = "install" \/ shell.end = "msi") => ~backend.admitted

UpdateInv ==
    /\ OneAwaits(wire) /\ (shell.update = "preparing" \/ NoneAwaits(wire))
    /\ shell.draining = "install" => shell.closing /\ shell.update = "draining"
    /\ Newer(shell.version) # NoRelease => shell.shown = Newer(shell.version)
    /\ (shell.update = "preparing" \/ shell.draining = "install" \/ shell.end = "msi")
         => shell.held = shell.shown /\ shell.held > shell.version

LifeInv == LifeShape /\ StoreInv /\ AdmissionInv /\ UpdateInv

-----------------------------------------------------------------------------
(* The wire.                                                                   *)
\* A message of the shell joins the others; only a preparation is awaited as one.
LEMMA TellWire ==
  ASSUME NEW w \in Wires, NEW kind \in Calls0
  PROVE  /\ Tell(w, kind) \in Wires
         /\ SavedTold(Tell(w, kind)) = SavedTold(w) /\ Granted(Tell(w, kind)) = Granted(w)
         /\ OneAwaits(w) /\ (kind # "prepareUpdate" \/ NoneAwaits(w)) => OneAwaits(Tell(w, kind))
         /\ NoneAwaits(w) /\ kind # "prepareUpdate" => NoneAwaits(Tell(w, kind))
<1>. DEFINE m == [kind |-> kind, awaited |-> TRUE]
            q == Append(w.down, m)
<1>1. m \in ShellAsks /\ m.kind = kind /\ m.awaited
  BY DEF ShellAsks
<1>2. w.down \in Seq(ShellAsks) /\ w.up \in Seq(BackendSays)
  BY DEF Wires
<1>. HIDE DEF m
<1>3. /\ q \in Seq(ShellAsks) /\ DOMAIN q = DOMAIN w.down \cup {Len(w.down) + 1}
      /\ \A i \in DOMAIN w.down : q[i] = w.down[i]
      /\ q[Len(w.down) + 1] = m /\ Len(w.down) + 1 \notin DOMAIN w.down
  BY <1>1, <1>2
<1>4. Tell(w, kind) = [w EXCEPT !.down = q]
  BY DEF Tell, m
<1>. HIDE DEF q
<1>5. Tell(w, kind) \in Wires /\ Tell(w, kind).down = q /\ Tell(w, kind).up = w.up
  BY <1>3, <1>4 DEF Wires
<1>6. SavedTold(Tell(w, kind)) = SavedTold(w) /\ Granted(Tell(w, kind)) = Granted(w)
  BY <1>5 DEF SavedTold, Granted
<1>7. ASSUME OneAwaits(w), kind # "prepareUpdate" \/ NoneAwaits(w)
      PROVE  OneAwaits(Tell(w, kind))
  BY <1>1, <1>3, <1>5, <1>7 DEF OneAwaits, NoneAwaits, Prepare
<1>8. ASSUME NoneAwaits(w), kind # "prepareUpdate" PROVE NoneAwaits(Tell(w, kind))
  BY <1>1, <1>3, <1>5, <1>8 DEF NoneAwaits, Prepare
<1>. QED
  BY <1>5, <1>6, <1>7, <1>8

\* What the shell takes is gone, and nothing new is there.
LEMMA TakenWire ==
  ASSUME wire \in Wires, wire.up # <<>>
  PROVE  /\ Taken \in Wires
         /\ SavedTold(Taken) => SavedTold(wire)
         /\ Granted(Taken) => Granted(wire)
         /\ OneAwaits(wire) => OneAwaits(Taken)
         /\ OneAwaits(wire) /\ Prepare(wire.up, 1) => NoneAwaits(Taken)
         /\ NoneAwaits(wire) => NoneAwaits(Taken)
<1>. DEFINE q == Tail(wire.up)
<1>1. wire.down \in Seq(ShellAsks) /\ wire.up \in Seq(BackendSays)
  BY DEF Wires
<1>2. /\ q \in Seq(BackendSays) /\ 1 \in DOMAIN wire.up
      /\ \A i \in DOMAIN q : /\ i + 1 \in DOMAIN wire.up /\ q[i] = wire.up[i + 1]
                             /\ i \in Nat /\ i + 1 # 1
  BY <1>1
<1>3. Taken = [wire EXCEPT !.up = q]
  BY DEF Taken
<1>. HIDE DEF q
<1>4. Taken \in Wires /\ Taken.up = q /\ Taken.down = wire.down
  BY <1>2, <1>3, Zenon DEF Wires
<1>5. (SavedTold(Taken) => SavedTold(wire)) /\ (Granted(Taken) => Granted(wire))
  BY <1>2, <1>4 DEF SavedTold, Granted
<1>6. OneAwaits(wire) => OneAwaits(Taken)
  BY <1>2, <1>4 DEF OneAwaits, Prepare
<1>7. OneAwaits(wire) /\ Prepare(wire.up, 1) => NoneAwaits(Taken)
  BY <1>2, <1>4 DEF OneAwaits, NoneAwaits, Prepare
<1>8. NoneAwaits(wire) => NoneAwaits(Taken)
  BY <1>2, <1>4 DEF NoneAwaits, Prepare
<1>. QED
  BY <1>4, <1>5, <1>6, <1>7, <1>8

\* The backend takes a message without an answer.
LEMMA DroppedWire ==
  ASSUME wire \in Wires, wire.down # <<>>, NEW w, w = [wire EXCEPT !.down = Tail(@)]
  PROVE  /\ w \in Wires /\ w.up = wire.up
         /\ SavedTold(w) = SavedTold(wire) /\ Granted(w) = Granted(wire)
         /\ OneAwaits(wire) => OneAwaits(w)
         /\ NoneAwaits(wire) => NoneAwaits(w)
<1>. DEFINE q == Tail(wire.down)
<1>1. wire.down \in Seq(ShellAsks) /\ wire.up \in Seq(BackendSays)
  BY DEF Wires
<1>2. /\ q \in Seq(ShellAsks)
      /\ \A i \in DOMAIN q : i + 1 \in DOMAIN wire.down /\ q[i] = wire.down[i + 1] /\ i \in Nat
  BY <1>1
<1>3. w = [wire EXCEPT !.down = q]
  OBVIOUS
<1>. HIDE DEF q
<1>4. w \in Wires /\ w.down = q /\ w.up = wire.up
  BY <1>2, <1>3, Zenon DEF Wires
<1>5. SavedTold(w) = SavedTold(wire) /\ Granted(w) = Granted(wire)
  BY <1>4 DEF SavedTold, Granted
<1>6. OneAwaits(wire) => OneAwaits(w)
  BY <1>2, <1>4, SMTT(30) DEF OneAwaits, Prepare
<1>7. NoneAwaits(wire) => NoneAwaits(w)
  BY <1>2, <1>4 DEF NoneAwaits, Prepare
<1>. QED
  BY <1>4, <1>5, <1>6, <1>7

\* The backend answers the message it takes under its id, or is closing and does not.
LEMMA AnsweredWire ==
  ASSUME wire \in Wires, wire.down # <<>>, wire.down[1].kind # "close", NEW value \in BOOLEAN
  PROVE  /\ AnswerShell(value) \in Wires
         /\ SavedTold(AnswerShell(value)) = SavedTold(wire)
         /\ Granted(AnswerShell(value)) => \/ Granted(wire)
                                           \/ Serving /\ wire.down[1].kind = "prepareUpdate" /\ value
         /\ OneAwaits(wire) => OneAwaits(AnswerShell(value))
         /\ NoneAwaits(wire) => NoneAwaits(AnswerShell(value))
<1>. DEFINE q == Tail(wire.down)
            h == wire.down[1]
            m == [kind |-> h.kind, awaited |-> h.awaited, value |-> value]
            a == IF Serving THEN Append(wire.up, m) ELSE wire.up
<1>1. wire.down \in Seq(ShellAsks) /\ wire.up \in Seq(BackendSays)
  BY DEF Wires
<1>2. /\ q \in Seq(ShellAsks) /\ h \in ShellAsks /\ 1 \in DOMAIN wire.down
      /\ \A i \in DOMAIN q : /\ i + 1 \in DOMAIN wire.down /\ q[i] = wire.down[i + 1]
                             /\ i \in Nat /\ i + 1 # 1
  BY <1>1
<1>3. m \in BackendSays /\ m.kind = h.kind /\ m.awaited = h.awaited /\ m.value = value
  BY <1>2 DEF BackendSays, ShellAsks, Calls0
<1>. HIDE DEF m
<1>4. /\ a \in Seq(BackendSays)
      /\ \A i \in DOMAIN wire.up : i \in DOMAIN a /\ a[i] = wire.up[i]
      /\ \A i \in DOMAIN a : i \in DOMAIN wire.up \/ (i = Len(wire.up) + 1 /\ a[i] = m /\ Serving)
  BY <1>1, <1>3
<1>5. AnswerShell(value) = [down |-> q, up |-> a]
  BY DEF AnswerShell, m
<1>. HIDE DEF q, a
<1>6. AnswerShell(value) \in Wires /\ AnswerShell(value).down = q /\ AnswerShell(value).up = a
  BY <1>2, <1>4, <1>5 DEF Wires
<1>7. h.kind \in {"exitCheck", "prepareUpdate"}
  BY <1>2 DEF ShellAsks, Calls0
<1>8. SavedTold(AnswerShell(value)) = SavedTold(wire)
  BY <1>3, <1>4, <1>6, <1>7 DEF SavedTold
<1>9. Granted(AnswerShell(value)) => \/ Granted(wire)
                                     \/ Serving /\ wire.down[1].kind = "prepareUpdate" /\ value
  BY <1>3, <1>4, <1>6 DEF Granted
<1>a. \A i \in DOMAIN q : Prepare(q, i) => Prepare(wire.down, i + 1)
  BY <1>2 DEF Prepare
<1>b. \A i \in DOMAIN a : Prepare(a, i) => \/ i \in DOMAIN wire.up /\ Prepare(wire.up, i)
                                           \/ i = Len(wire.up) + 1 /\ Prepare(wire.down, 1)
  <2>1. Prepare(wire.down, 1) <=> m.kind = "prepareUpdate" /\ m.awaited
    <3>1. Prepare(wire.down, 1) <=> h.kind = "prepareUpdate" /\ h.awaited
      BY DEF Prepare
    <3>2. h.awaited \in BOOLEAN /\ m.awaited \in BOOLEAN
      BY <1>2, <1>3 DEF ShellAsks, BackendSays
    <3>. QED
      BY <1>3, <3>1, <3>2, Zenon
  <2>2. \A i \in DOMAIN a : a[i] = m => (Prepare(a, i) <=> m.kind = "prepareUpdate" /\ m.awaited)
    BY Zenon DEF Prepare
  <2>3. \A i \in DOMAIN wire.up : Prepare(a, i) <=> Prepare(wire.up, i)
    BY <1>4 DEF Prepare
  <2>4. SUFFICES ASSUME NEW i \in DOMAIN a, Prepare(a, i)
                 PROVE  \/ i \in DOMAIN wire.up /\ Prepare(wire.up, i)
                        \/ i = Len(wire.up) + 1 /\ Prepare(wire.down, 1)
    OBVIOUS
  <2>5. CASE i \in DOMAIN wire.up
    BY <2>3, <2>4, <2>5
  <2>6. CASE i = Len(wire.up) + 1 /\ a[i] = m
    <3>1. Prepare(wire.down, 1)
      BY <2>1, <2>2, <2>4, <2>6, Zenon
    <3>. QED
      BY <2>6, <3>1
  <2>. QED
    BY <1>4, <2>5, <2>6
<1>10. ASSUME OneAwaits(wire) PROVE OneAwaits(AnswerShell(value))
  <2>1. \A i, j \in DOMAIN q : Prepare(q, i) /\ Prepare(q, j) => i = j
    BY <1>2, <1>10, <1>a DEF OneAwaits
  <2>2. \A i, j \in DOMAIN a : Prepare(a, i) /\ Prepare(a, j) => i = j
    BY <1>2, <1>10, <1>b DEF OneAwaits
  <2>3. \A i \in DOMAIN q, j \in DOMAIN a : ~(Prepare(q, i) /\ Prepare(a, j))
    BY <1>2, <1>10, <1>a, <1>b DEF OneAwaits
  <2>. QED
    BY <1>6, <2>1, <2>2, <2>3 DEF OneAwaits
<1>11. NoneAwaits(wire) => NoneAwaits(AnswerShell(value))
  BY <1>2, <1>3, <1>4, <1>6 DEF NoneAwaits, Prepare
<1>. QED
  BY <1>6, <1>8, <1>9, <1>10, <1>11

\* The backend's last word.
LEMMA ClosedWire ==
  ASSUME wire \in Wires, NEW value \in BOOLEAN, NEW w,
         w = [wire EXCEPT !.up = Append(@, [kind |-> "closed", awaited |-> TRUE, value |-> value])]
  PROVE  /\ w \in Wires
         /\ SavedTold(w) => SavedTold(wire) \/ value
         /\ Granted(w) = Granted(wire)
         /\ OneAwaits(wire) => OneAwaits(w)
         /\ NoneAwaits(wire) => NoneAwaits(w)
<1>. DEFINE m == [kind |-> "closed", awaited |-> TRUE, value |-> value]
            a == Append(wire.up, m)
<1>1. wire.down \in Seq(ShellAsks) /\ wire.up \in Seq(BackendSays)
  BY DEF Wires
<1>2. m \in BackendSays /\ m.kind = "closed" /\ m.value = value
  BY DEF BackendSays
<1>. HIDE DEF m
<1>3. /\ a \in Seq(BackendSays)
      /\ \A i \in DOMAIN wire.up : i \in DOMAIN a /\ a[i] = wire.up[i]
      /\ \A i \in DOMAIN a : i \in DOMAIN wire.up \/ (i = Len(wire.up) + 1 /\ a[i] = m)
  BY <1>1, <1>2
<1>4. w = [wire EXCEPT !.up = a]
  BY DEF m
<1>. HIDE DEF a
<1>5. w \in Wires /\ w.down = wire.down /\ w.up = a
  BY <1>3, <1>4, Zenon DEF Wires
<1>6. (SavedTold(w) => SavedTold(wire) \/ value) /\ Granted(w) = Granted(wire)
  BY <1>2, <1>3, <1>5 DEF SavedTold, Granted
<1>7. OneAwaits(wire) => OneAwaits(w)
  BY <1>2, <1>3, <1>5 DEF OneAwaits, Prepare
<1>8. NoneAwaits(wire) => NoneAwaits(w)
  BY <1>2, <1>3, <1>5 DEF NoneAwaits, Prepare
<1>. QED
  BY <1>5, <1>6, <1>7, <1>8

\* The shell does not wait any more; the messages stay on their way.
LEMMA AbandonWire ==
  ASSUME wire \in Wires, NEW kind
  PROVE  /\ Abandon(kind) \in Wires
         /\ SavedTold(Abandon(kind)) = SavedTold(wire) /\ Granted(Abandon(kind)) = Granted(wire)
         /\ OneAwaits(wire) => OneAwaits(Abandon(kind))
         /\ NoneAwaits(wire) => NoneAwaits(Abandon(kind))
         /\ kind = "prepareUpdate" => NoneAwaits(Abandon(kind))
<1>. DEFINE gone(q) == [i \in DOMAIN q |-> IF q[i].kind = kind THEN [q[i] EXCEPT !.awaited = FALSE] ELSE q[i]]
<1>1. wire.down \in Seq(ShellAsks) /\ wire.up \in Seq(BackendSays)
  BY DEF Wires
<1>2. ASSUME NEW i \in DOMAIN wire.down
      PROVE  /\ gone(wire.down)[i] \in ShellAsks /\ gone(wire.down)[i].kind = wire.down[i].kind
             /\ gone(wire.down)[i].awaited => wire.down[i].awaited /\ wire.down[i].kind # kind
  <2>1. wire.down[i] \in ShellAsks
    BY <1>1
  <2>2. gone(wire.down)[i] =
          IF wire.down[i].kind = kind THEN [wire.down[i] EXCEPT !.awaited = FALSE] ELSE wire.down[i]
    OBVIOUS
  <2>. HIDE DEF gone
  <2>. QED
    BY <2>1, <2>2, Zenon DEF ShellAsks
<1>3. ASSUME NEW i \in DOMAIN wire.up
      PROVE  /\ gone(wire.up)[i] \in BackendSays /\ gone(wire.up)[i].kind = wire.up[i].kind
             /\ gone(wire.up)[i].awaited => wire.up[i].awaited /\ wire.up[i].kind # kind
             /\ gone(wire.up)[i].value = wire.up[i].value
  <2>1. wire.up[i] \in BackendSays
    BY <1>1
  <2>2. gone(wire.up)[i] =
          IF wire.up[i].kind = kind THEN [wire.up[i] EXCEPT !.awaited = FALSE] ELSE wire.up[i]
    OBVIOUS
  <2>. HIDE DEF gone
  <2>. QED
    BY <2>1, <2>2, Zenon DEF BackendSays
<1>4. /\ DOMAIN gone(wire.down) = DOMAIN wire.down /\ DOMAIN gone(wire.up) = DOMAIN wire.up
      /\ gone(wire.down) = [i \in DOMAIN wire.down |-> gone(wire.down)[i]]
      /\ gone(wire.up) = [i \in DOMAIN wire.up |-> gone(wire.up)[i]]
  OBVIOUS
<1>5. Abandon(kind) = [down |-> gone(wire.down), up |-> gone(wire.up)]
  BY DEF Abandon
<1>. HIDE DEF gone
<1>6. gone(wire.down) \in Seq(ShellAsks) /\ gone(wire.up) \in Seq(BackendSays)
  <2>1. /\ Len(wire.down) \in Nat /\ DOMAIN wire.down = 1..Len(wire.down)
        /\ Len(wire.up) \in Nat /\ DOMAIN wire.up = 1..Len(wire.up)
    BY <1>1
  <2>2. gone(wire.down) \in [1..Len(wire.down) -> ShellAsks]
    BY <1>2, <1>4, <2>1, Zenon
  <2>3. gone(wire.up) \in [1..Len(wire.up) -> BackendSays]
    BY <1>3, <1>4, <2>1, Zenon
  <2>. QED
    BY <2>1, <2>2, <2>3, SeqDef
<1>7. /\ Abandon(kind) \in Wires /\ Abandon(kind).down = gone(wire.down)
      /\ Abandon(kind).up = gone(wire.up)
  BY <1>5, <1>6 DEF Wires
<1>8. SavedTold(Abandon(kind)) = SavedTold(wire) /\ Granted(Abandon(kind)) = Granted(wire)
  BY <1>3, <1>4, <1>7, ZenonT(30) DEF SavedTold, Granted
<1>a. \A i \in DOMAIN gone(wire.down) :
        i \in DOMAIN wire.down /\ (Prepare(gone(wire.down), i) => Prepare(wire.down, i))
  BY <1>2, <1>4 DEF Prepare
<1>b. \A i \in DOMAIN gone(wire.up) :
        i \in DOMAIN wire.up /\ (Prepare(gone(wire.up), i) => Prepare(wire.up, i))
  BY <1>3, <1>4 DEF Prepare
<1>9. OneAwaits(wire) => OneAwaits(Abandon(kind))
  BY <1>7, <1>a, <1>b DEF OneAwaits
<1>10. NoneAwaits(wire) => NoneAwaits(Abandon(kind))
  BY <1>7, <1>a, <1>b DEF NoneAwaits
<1>11. kind = "prepareUpdate" => NoneAwaits(Abandon(kind))
  BY <1>2, <1>3, <1>4, <1>7 DEF NoneAwaits, Prepare
<1>. QED
  BY <1>7, <1>8, <1>9, <1>10, <1>11

\* An empty wire says nothing.
LEMMA EmptyWire ==
  /\ NewWire \in Wires /\ ~SavedTold(NewWire) /\ ~Granted(NewWire)
  /\ OneAwaits(NewWire) /\ NoneAwaits(NewWire)
<1>1. NewWire.down = <<>> /\ NewWire.up = <<>>
  BY DEF NewWire
<1>2. NewWire \in Wires
  BY DEF NewWire, Wires
<1>. QED
  BY <1>1, <1>2 DEF SavedTold, Granted, OneAwaits, NoneAwaits
-----------------------------------------------------------------------------
LEMMA LifeStartInv == LifeStarts => LifeInv
<1>. SUFFICES ASSUME LifeStarts PROVE LifeInv
  OBVIOUS
<1>1. /\ NewShell(0) \in Shells /\ NewShell(0).end = "none" /\ NewShell(0).closed = "none"
      /\ NewShell(0).draining = "no" /\ NewShell(0).update = "idle"
  BY DEF NewShell, Shells, Releases, NoRelease
<1>2. NewBackend \in Backends /\ NewBackend.admitted
  BY DEF NewBackend, Backends
<1>3. /\ cache \in Caches /\ cache.release = NoRelease
  BY DEF LifeStarts, Caches, Releases
<1>4. PICK bad \in BOOLEAN : store = NewStore(bad)
  BY DEF LifeStarts
<1>5. /\ store \in Stores /\ store.disk = 0 /\ store.want = 0 /\ store.queue = <<>>
  BY <1>4 DEF NewStore, Stores
<1>6. Newer(shell.version) = NoRelease
  BY <1>3 DEF Newer
<1>7. LifeShape
  BY <1>1, <1>2, <1>3, <1>5, EmptyWire DEF LifeStarts, LifeShape
<1>8. StoreInv
  BY <1>1, <1>5, EmptyWire DEF LifeStarts, StoreInv
<1>9. AdmissionInv
  BY <1>1, <1>2, EmptyWire DEF LifeStarts, AdmissionInv
<1>10. UpdateInv
  BY <1>1, <1>6, EmptyWire DEF LifeStarts, UpdateInv
<1>. QED
  BY <1>7, <1>8, <1>9, <1>10 DEF LifeInv

-----------------------------------------------------------------------------
(* What a step may change, and what keeps the invariant then.                  *)
\* A wire that says nothing new.
QuietWire(old, new) ==
    /\ new \in Wires
    /\ SavedTold(new) => SavedTold(old)
    /\ Granted(new) => Granted(old)
    /\ OneAwaits(old) => OneAwaits(new)
    /\ NoneAwaits(old) => NoneAwaits(new)

\* The instance goes on, and neither installs nor prepares anything else.
ShellGoesOn ==
    /\ shell' \in Shells
    /\ shell'.end = shell.end /\ shell'.version = shell.version
    /\ shell'.held = shell.held /\ shell'.shown = shell.shown
    /\ \/ shell'.update = shell.update
       \/ /\ shell.update \notin {"preparing", "draining"}
          /\ shell'.update \notin {"preparing", "draining"}
    /\ shell'.draining \in {shell.draining, "exit"}
    /\ shell.closing => shell'.closing
    /\ shell'.closed = shell.closed \/ (shell'.closed = "saved" => AtRest)

LEMMA ShellKeeps ==
  ASSUME LifeInv, ShellGoesOn, QuietWire(wire, wire'), UNCHANGED <<backend, store, cache>>
  PROVE  LifeInv'
<1>1. LifeShape'
  BY DEF LifeInv, LifeShape, ShellGoesOn, QuietWire
<1>2. StoreInv'
  BY DEF LifeInv, StoreInv, AtRest, ShellGoesOn, QuietWire
<1>3. AdmissionInv'
  BY DEF LifeInv, AdmissionInv, ShellGoesOn, QuietWire
<1>4. Newer(shell.version)' = Newer(shell.version)
  BY DEF Newer, ShellGoesOn
<1>5. UpdateInv'
  BY <1>4 DEF LifeInv, UpdateInv, ShellGoesOn, QuietWire
<1>. QED
  BY <1>1, <1>2, <1>3, <1>5 DEF LifeInv

\* The backend never admits again, and never comes back.
ServiceGoesOn ==
    /\ backend' \in Backends
    /\ backend.life = "gone" => backend'.life = "gone"
    /\ ~backend.admitted => ~backend'.admitted
    /\ ~backend'.admitted => backend'.work = "none" /\ ~backend'.opening
    /\ backend'.life = "starting" => backend'.admitted

LEMMA BackendKeeps ==
  ASSUME LifeInv, ServiceGoesOn, wire' \in Wires,
         SavedTold(wire') => SavedTold(wire),
         Granted(wire') => Granted(wire) \/ ~backend'.admitted,
         OneAwaits(wire) => OneAwaits(wire'), NoneAwaits(wire) => NoneAwaits(wire'),
         UNCHANGED <<shell, store, cache>>
  PROVE  LifeInv'
<1>1. LifeShape'
  BY DEF LifeInv, LifeShape, ServiceGoesOn
<1>2. StoreInv'
  BY DEF LifeInv, StoreInv, AtRest, ServiceGoesOn
<1>3. AdmissionInv'
  BY DEF LifeInv, AdmissionInv, ServiceGoesOn
<1>4. Newer(shell.version)' = Newer(shell.version)
  BY DEF Newer
<1>5. UpdateInv'
  BY <1>4 DEF LifeInv, UpdateInv
<1>. QED
  BY <1>1, <1>2, <1>3, <1>5 DEF LifeInv

\* The instance ends, in one of four ways.
LEMMA EndKeeps ==
  ASSUME LifeInv, NEW how \in {"saved", "unsaved", "msi", "crash"}, Ends(how),
         how \in {"saved", "msi"} => store.disk = store.want,
         how = "msi" => /\ ~backend.admitted
                        /\ shell.held = shell.shown /\ shell.held > shell.version,
         UNCHANGED store, cache' \in Caches, cache'.release = cache.release, cache'.whole = cache.whole
  PROVE  LifeInv'
<1>1. shell \in Shells /\ backend \in Backends /\ wire' = NewWire
  BY DEF LifeInv, LifeShape, Ends
<1>2. /\ shell' \in Shells /\ shell'.end = how /\ shell'.held = shell.held
      /\ shell'.shown = shell.shown /\ shell'.version = shell.version
      /\ shell'.closed = "none" /\ shell'.draining = "no" /\ shell'.update = "idle"
  <2>1. shell' = [NewShell(shell.version) EXCEPT !.held = shell.held, !.shown = shell.shown, !.end = how]
    BY DEF Ends
  <2>2. NewShell(shell.version) \in Shells
    BY <1>1 DEF NewShell, Shells, Releases, NoRelease
  <2>3. /\ NewShell(shell.version).version = shell.version
        /\ NewShell(shell.version).closed = "none" /\ NewShell(shell.version).draining = "no"
        /\ NewShell(shell.version).update = "idle"
    BY DEF NewShell
  <2>4. \A s \in Shells : /\ [s EXCEPT !.held = shell.held, !.shown = shell.shown, !.end = how] \in Shells
    BY <1>1, ZenonT(30) DEF Shells
  <2>. QED
    BY <1>1, <2>1, <2>2, <2>3, <2>4, ZenonT(30) DEF Shells
<1>3. /\ backend' \in Backends /\ backend'.life = "gone" /\ backend'.work = "none"
      /\ backend'.opening = FALSE /\ backend'.admitted = backend.admitted
  <2>1. backend' = [life |-> "gone", work |-> "none", opening |-> FALSE, admitted |-> backend.admitted]
    BY Zenon DEF Ends, NewBackend
  <2>. QED
    BY <1>1, <2>1 DEF Backends
<1>4. LifeShape'
  BY <1>1, <1>2, <1>3, EmptyWire DEF LifeInv, LifeShape
<1>5. StoreInv'
  BY <1>1, <1>2, <1>3, EmptyWire DEF LifeInv, StoreInv, AtRest
<1>6. AdmissionInv'
  BY <1>1, <1>2, <1>3, EmptyWire DEF LifeInv, AdmissionInv
<1>7. Newer(shell.version)' = Newer(shell.version)
  BY <1>2 DEF Newer
<1>8. UpdateInv'
  BY <1>1, <1>2, <1>7, EmptyWire DEF LifeInv, UpdateInv
<1>. QED
  BY <1>4, <1>5, <1>6, <1>8 DEF LifeInv

-----------------------------------------------------------------------------
(* The steps of the backend and of its store.                                  *)
LEMMA BackendStepKeeps ==
  ASSUME LifeInv, BackendReady \/ Open \/ Work \/ BackendFails
  PROVE  LifeInv'
<1>1. UNCHANGED <<shell, wire, store, cache>> /\ wire \in Wires /\ backend \in Backends /\ AdmissionInv
  BY DEF BackendReady, Open, Work, BackendFails, LifeInv, LifeShape
<1>2. CASE BackendReady
  <2>1. PICK w \in {"none", "open"} : backend' = [backend EXCEPT !.life = "ready", !.work = w]
    BY <1>2, Zenon DEF BackendReady
  <2>2. /\ backend' \in Backends /\ backend'.life = "ready" /\ backend'.admitted = backend.admitted
        /\ backend.life = "starting"
    BY <1>1, <1>2, <2>1, Zenon DEF Backends, BackendReady
  <2>3. ServiceGoesOn
    BY <1>1, <2>2 DEF ServiceGoesOn, AdmissionInv
  <2>. QED
    BY <1>1, <2>3, BackendKeeps
<1>3. CASE Open
  <2>1. CASE ~backend.opening /\ backend.admitted /\ backend' = [backend EXCEPT !.opening = TRUE]
    <3>1. /\ backend' \in Backends /\ backend'.life = backend.life
          /\ backend'.admitted = backend.admitted /\ backend.admitted
      BY <1>1, <2>1, Zenon DEF Backends
    <3>2. ServiceGoesOn
      BY <1>1, <3>1 DEF ServiceGoesOn
    <3>. QED
      BY <1>1, <3>2, BackendKeeps
  <2>2. CASE /\ backend.opening
             /\ \E w \in {backend.work, "open"} : backend' = [backend EXCEPT !.opening = FALSE, !.work = w]
    <3>1. PICK w \in {backend.work, "open"} : backend' = [backend EXCEPT !.opening = FALSE, !.work = w]
      BY <2>2, Zenon
    <3>2. /\ backend' \in Backends /\ backend'.life = backend.life
          /\ backend'.admitted = backend.admitted
      BY <1>1, <3>1, Zenon DEF Backends
    <3>3. ServiceGoesOn
      BY <1>1, <2>2, <3>2 DEF ServiceGoesOn, AdmissionInv
    <3>. QED
      BY <1>1, <3>3, BackendKeeps
  <2>. QED
    BY <1>3, <2>1, <2>2 DEF Open
<1>4. CASE Work
  <2>1. PICK w \in {"none", "open", "working"} : backend' = [backend EXCEPT !.work = w]
    BY <1>4 DEF Work
  <2>2. /\ backend' \in Backends /\ backend'.life = backend.life
        /\ backend'.admitted = backend.admitted /\ backend.work # "none"
    BY <1>1, <1>4, <2>1 DEF Backends, Work
  <2>3. ServiceGoesOn
    BY <1>1, <2>2 DEF ServiceGoesOn, AdmissionInv
  <2>. QED
    BY <1>1, <2>3, BackendKeeps
<1>5. CASE BackendFails
  <2>1. backend' = [backend EXCEPT !.life = "gone"]
    BY <1>5 DEF BackendFails
  <2>2. /\ backend' \in Backends /\ backend'.life = "gone" /\ backend'.admitted = backend.admitted
        /\ backend'.work = backend.work /\ backend'.opening = backend.opening
    BY <1>1, <2>1 DEF Backends
  <2>3. ServiceGoesOn
    BY <1>1, <2>2 DEF ServiceGoesOn, AdmissionInv
  <2>. QED
    BY <1>1, <2>3, BackendKeeps
<1>. QED
  BY <1>2, <1>3, <1>4, <1>5

\* The backend takes a message: the question before an exit, the one before an
\* installation, which closes admission with its answer, and the order to close.
LEMMA AnswerKeeps ==
  ASSUME LifeInv, AnswerExitCheck \/ AnswerPrepare \/ BackendCloses
  PROVE  LifeInv'
<1>1. /\ UNCHANGED <<shell, store, cache>> /\ wire \in Wires /\ backend \in Backends /\ AdmissionInv
      /\ wire.down # <<>> /\ backend.life \in {"ready", "closing"}
  BY DEF AnswerExitCheck, AnswerPrepare, BackendCloses, NextDown, LifeInv, LifeShape
<1>2. CASE AnswerExitCheck
  <2>1. /\ wire.down[1].kind = "exitCheck" /\ wire' = AnswerShell(backend.work = "working")
        /\ backend' = backend
    BY <1>2 DEF AnswerExitCheck, NextDown
  <2>2. (backend.work = "working") \in BOOLEAN
    OBVIOUS
  <2>3. ServiceGoesOn
    BY <1>1, <2>1 DEF ServiceGoesOn, AdmissionInv
  <2>4. /\ wire' \in Wires /\ SavedTold(wire') = SavedTold(wire) /\ (Granted(wire') => Granted(wire))
        /\ OneAwaits(wire) => OneAwaits(wire')
        /\ NoneAwaits(wire) => NoneAwaits(wire')
    BY <1>1, <2>1, <2>2, AnsweredWire, Zenon
  <2>. QED
    BY <1>1, <2>3, <2>4, BackendKeeps
<1>3. CASE AnswerPrepare
  <2>. DEFINE ok == ~backend.admitted \/ (backend.work = "none" /\ ~backend.opening)
  <2>1. /\ wire.down[1].kind = "prepareUpdate" /\ wire' = AnswerShell(ok) /\ ok \in BOOLEAN
        /\ backend' = IF Serving /\ ok THEN [backend EXCEPT !.admitted = FALSE] ELSE backend
    BY <1>3 DEF AnswerPrepare, NextDown
  <2>2. /\ backend' \in Backends /\ backend'.life = backend.life /\ backend'.work = backend.work
        /\ backend'.opening = backend.opening
        /\ ~backend.admitted => ~backend'.admitted
        /\ Serving /\ ok => ~backend'.admitted
        /\ ~backend'.admitted => ~backend.admitted \/ ok
    BY <1>1, <2>1, Zenon DEF Backends
  <2>3. ServiceGoesOn
    BY <1>1, <2>2 DEF ServiceGoesOn, AdmissionInv
  <2>. HIDE DEF ok
  <2>4. /\ wire' \in Wires /\ SavedTold(wire') = SavedTold(wire)
        /\ Granted(wire') => Granted(wire) \/ (Serving /\ ok)
        /\ OneAwaits(wire) => OneAwaits(wire')
        /\ NoneAwaits(wire) => NoneAwaits(wire')
    BY <1>1, <2>1, AnsweredWire
  <2>. QED
    BY <1>1, <2>2, <2>3, <2>4, BackendKeeps
<1>4. CASE BackendCloses
  <2>1. /\ wire' = [wire EXCEPT !.down = Tail(@)]
        /\ backend' = [backend EXCEPT !.life = "closing", !.work = "none", !.opening = FALSE]
    BY <1>4 DEF BackendCloses
  <2>2. /\ backend' \in Backends /\ backend'.life = "closing" /\ backend'.work = "none"
        /\ backend'.opening = FALSE /\ backend'.admitted = backend.admitted
    BY <1>1, <2>1, Zenon DEF Backends
  <2>3. ServiceGoesOn
    BY <1>1, <2>2 DEF ServiceGoesOn
  <2>4. /\ wire' \in Wires /\ SavedTold(wire') = SavedTold(wire) /\ Granted(wire') = Granted(wire)
        /\ OneAwaits(wire) => OneAwaits(wire')
        /\ NoneAwaits(wire) => NoneAwaits(wire')
    BY <1>1, <2>1, DroppedWire
  <2>. QED
    BY <1>1, <2>3, <2>4, BackendKeeps
<1>. QED
  BY <1>2, <1>3, <1>4

\* While somebody serves, nothing has been reported as saved.
LEMMA NotYetSaved ==
  ASSUME LifeInv, backend.life # "gone"
  PROVE  shell.end \notin {"saved", "msi"} /\ shell.closed # "saved" /\ ~SavedTold(wire)
BY DEF LifeInv, StoreInv, AtRest

\* A change is wanted and queued; a write takes the first of the queue.
LEMMA WriteKeeps ==
  ASSUME LifeInv, Change \/ (\E ok \in BOOLEAN : WriteState(ok))
  PROVE  LifeInv'
<1>1. /\ UNCHANGED <<shell, backend, wire, cache>> /\ store \in Stores /\ StoreInv
      /\ backend.life # "gone"
  BY Zenon DEF Change, WriteState, Serving, LifeInv, LifeShape
<1>2. /\ store.want \in Nat /\ store.disk \in Nat /\ store.queue \in Seq(Nat) /\ store.blocked \in BOOLEAN
      /\ store.disk <= store.want /\ \A i \in DOMAIN store.queue : store.queue[i] <= store.want
  BY <1>1 DEF Stores, StoreInv
<1>3. /\ store' \in Stores /\ store'.disk <= store'.want
      /\ \A i \in DOMAIN store'.queue : store'.queue[i] <= store'.want
      /\ store'.blocked => store'.disk = 0 /\ store'.queue = <<>>
  <2>1. CASE Change
    <3>. DEFINE q == Append(store.queue, store.want + 1)
    <3>1. store' = [store EXCEPT !.want = @ + 1, !.queue = q] /\ ~store.blocked
      BY <2>1 DEF Change
    <3>2. q \in Seq(Nat) /\ \A i \in DOMAIN q : q[i] <= store.want + 1
      <4>1. store.want + 1 \in Nat
        BY <1>2
      <4>2. /\ q \in Seq(Nat) /\ \A i \in DOMAIN q : i \in DOMAIN store.queue \/ q[i] = store.want + 1
            /\ \A i \in DOMAIN store.queue : q[i] = store.queue[i] /\ store.queue[i] \in Nat
        BY <1>2, <4>1
      <4>. HIDE DEF q
      <4>3. ASSUME NEW i \in DOMAIN q PROVE q[i] <= store.want + 1
        <5>1. CASE q[i] = store.want + 1
          BY <1>2, <5>1
        <5>2. CASE i \in DOMAIN store.queue
          <6>1. q[i] = store.queue[i] /\ store.queue[i] \in Nat /\ store.queue[i] <= store.want
            BY <1>2, <4>2, <5>2
          <6>. QED
            BY <1>2, <6>1
        <5>. QED
          BY <4>2, <5>1, <5>2
      <4>. QED
        BY <4>2, <4>3
    <3>. HIDE DEF q
    <3>3. /\ store' \in Stores /\ store'.disk = store.disk /\ store'.want = store.want + 1
          /\ store'.queue = q /\ store'.blocked = store.blocked
      <4>1. store.want + 1 \in Nat
        BY <1>2
      <4>2. store' = [store EXCEPT !.want = store.want + 1, !.queue = q]
        BY <3>1
      <4>. QED
        BY <1>1, <3>2, <4>1, <4>2, Zenon DEF Stores
    <3>. QED
      BY <1>2, <3>1, <3>2, <3>3
  <2>2. CASE \E ok \in BOOLEAN : WriteState(ok)
    <3>1. PICK ok \in BOOLEAN : WriteState(ok)
      BY <2>2
    <3>. DEFINE q == Tail(store.queue)
                n == IF ok THEN store.queue[1] ELSE store.disk
    <3>2. store.queue # <<>> /\ store' = [store EXCEPT !.queue = q, !.disk = n]
      BY <1>1, <3>1, Zenon DEF WriteState
    <3>3. /\ q \in Seq(Nat) /\ 1 \in DOMAIN store.queue /\ store.queue[1] \in Nat
          /\ \A i \in DOMAIN q : i + 1 \in DOMAIN store.queue /\ q[i] = store.queue[i + 1]
      BY <1>2, <3>2
    <3>4. n \in Nat /\ n <= store.want
      BY <1>2, <3>3
    <3>. HIDE DEF q, n
    <3>5. /\ store' \in Stores /\ store'.disk = n /\ store'.want = store.want
          /\ store'.queue = q /\ store'.blocked = store.blocked
      BY <1>1, <3>2, <3>3, <3>4, Zenon DEF Stores
    <3>6. ~store.blocked
      BY <1>1, <3>2 DEF StoreInv
    <3>. QED
      BY <1>2, <3>3, <3>4, <3>5, <3>6
  <2>. QED
    BY <2>1, <2>2
<1>4. LifeShape'
  BY <1>1, <1>3 DEF LifeInv, LifeShape
<1>5. StoreInv'
  BY <1>1, <1>3, NotYetSaved DEF StoreInv
<1>6. AdmissionInv' /\ UpdateInv'
  BY <1>1 DEF LifeInv, AdmissionInv, UpdateInv, Newer
<1>. QED
  BY <1>4, <1>5, <1>6 DEF LifeInv

\* The last write, and the last word: saved only if the file has what was wanted.
LEMMA FlushKeeps ==
  ASSUME LifeInv, NEW ok \in BOOLEAN, Flushed(ok)
  PROVE  LifeInv'
<1>. DEFINE again == ~store.blocked /\ store.disk # store.want
            saved == ~store.blocked /\ (again => ok)
<1>1. /\ backend.life = "closing" /\ store.queue = <<>>
      /\ store' = (IF again /\ ok THEN [store EXCEPT !.disk = store.want] ELSE store)
      /\ wire' = [wire EXCEPT !.up = Append(@, [kind |-> "closed", awaited |-> TRUE, value |-> saved])]
      /\ backend' = [backend EXCEPT !.life = "gone"]
      /\ UNCHANGED <<shell, cache>> /\ saved \in BOOLEAN
  BY DEF Flushed
<1>2. store \in Stores /\ backend \in Backends /\ wire \in Wires /\ StoreInv /\ AdmissionInv
  BY DEF LifeInv, LifeShape
<1>3. /\ store' \in Stores /\ store'.want = store.want /\ store'.queue = store.queue
      /\ store'.blocked = store.blocked
      /\ store'.disk = store.disk \/ (store'.disk = store.want /\ ~store.blocked)
      /\ saved => store'.disk = store.want
  BY <1>1, <1>2 DEF Stores
<1>4. /\ backend' \in Backends /\ backend'.life = "gone" /\ backend'.work = backend.work
      /\ backend'.opening = backend.opening /\ backend'.admitted = backend.admitted
  BY <1>1, <1>2 DEF Backends
<1>. HIDE DEF saved, again
<1>5. /\ wire' \in Wires /\ (SavedTold(wire') => SavedTold(wire) \/ saved)
      /\ Granted(wire') = Granted(wire)
      /\ OneAwaits(wire) => OneAwaits(wire')
      /\ NoneAwaits(wire) => NoneAwaits(wire')
  BY <1>1, <1>2, ClosedWire
<1>6. LifeShape'
  BY <1>1, <1>3, <1>4, <1>5 DEF LifeInv, LifeShape
<1>7. StoreInv'
  <2>1. store.want \in Nat /\ store.disk \in Nat
    BY <1>2 DEF Stores
  <2>2. /\ store'.disk <= store'.want
        /\ \A i \in DOMAIN store'.queue : store'.queue[i] <= store'.want
        /\ store'.blocked => store'.disk = 0 /\ store'.queue = <<>>
    BY <1>2, <1>3, <2>1 DEF StoreInv
  <2>3. shell'.end \notin {"saved", "msi"} /\ shell'.closed # "saved" /\ ~SavedTold(wire)
    BY <1>1, NotYetSaved
  <2>. QED
    BY <1>3, <1>4, <1>5, <2>2, <2>3 DEF StoreInv, AtRest
<1>8. AdmissionInv'
  BY <1>1, <1>2, <1>4, <1>5 DEF AdmissionInv
<1>9. UpdateInv'
  BY <1>1, <1>5 DEF LifeInv, UpdateInv, Newer
<1>. QED
  BY <1>6, <1>7, <1>8, <1>9 DEF LifeInv
-----------------------------------------------------------------------------
(* The steps of the shell.                                                     *)
\* A shell whose tray is asking or not any more is the same shell.
SameShell(s) ==
    /\ s \in Shells /\ s.closing = shell.closing /\ s.draining = shell.draining
    /\ s.closed = shell.closed /\ s.update = shell.update /\ s.end = shell.end
    /\ s.version = shell.version /\ s.held = shell.held /\ s.shown = shell.shown

LEMMA SameShells ==
  ASSUME LifeInv
  PROVE  /\ SameShell(shell) /\ SameShell(Idle(shell))
         /\ SameShell([shell EXCEPT !.asking = "dialog"])
         /\ SameShell([shell EXCEPT !.busy = TRUE, !.asking = "check"])
<1>1. shell \in Shells
  BY DEF LifeInv, LifeShape
<1>2. SameShell(shell)
  BY <1>1 DEF SameShell
<1>3. SameShell(Idle(shell))
  BY <1>1, Zenon DEF SameShell, Idle, Shells
<1>4. SameShell([shell EXCEPT !.asking = "dialog"])
  BY <1>1 DEF SameShell, Shells
<1>5. SameShell([shell EXCEPT !.busy = TRUE, !.asking = "check"])
  BY <1>1, Zenon DEF SameShell, Shells
<1>. QED
  BY <1>2, <1>3, <1>4, <1>5

LEMMA SameGoesOn ==
  ASSUME SameShell(shell')
  PROVE  ShellGoesOn
BY DEF SameShell, ShellGoesOn

\* A wire with one order or question more says nothing new.
LEMMA TellQuiet ==
  ASSUME NEW w, QuietWire(wire, w), NEW kind \in {"exitCheck", "close"}
  PROVE  QuietWire(wire, Tell(w, kind))
<1>1. w \in Wires /\ kind \in Calls0 /\ kind # "prepareUpdate"
  BY DEF QuietWire, Calls0
<1>2. /\ Tell(w, kind) \in Wires
      /\ SavedTold(Tell(w, kind)) = SavedTold(w) /\ Granted(Tell(w, kind)) = Granted(w)
      /\ OneAwaits(w) => OneAwaits(Tell(w, kind))
      /\ NoneAwaits(w) => NoneAwaits(Tell(w, kind))
  BY <1>1, TellWire
<1>. QED
  BY <1>2 DEF QuietWire

LEMMA QuietWires ==
  ASSUME LifeInv
  PROVE  /\ QuietWire(wire, wire)
         /\ wire.up # <<>> => QuietWire(wire, Taken)
         /\ \A kind : QuietWire(wire, Abandon(kind))
<1>1. wire \in Wires
  BY DEF LifeInv, LifeShape
<1>2. QuietWire(wire, wire)
  BY <1>1 DEF QuietWire
<1>3. wire.up # <<>> => QuietWire(wire, Taken)
  BY <1>1, TakenWire DEF QuietWire
<1>4. ASSUME NEW kind PROVE QuietWire(wire, Abandon(kind))
  BY <1>1, AbandonWire DEF QuietWire
<1>. QED
  BY <1>2, <1>3, <1>4

\* close(): the first to set closing has the backend told.
LEMMA CloseNowKeeps ==
  ASSUME LifeInv, NEW s, SameShell(s), NEW w, QuietWire(wire, w), CloseNow(s, w),
         UNCHANGED <<backend, store, cache>>
  PROVE  LifeInv'
<1>1. CASE s.closing
  <2>1. shell' = s /\ wire' = w
    BY <1>1 DEF CloseNow
  <2>. QED
    BY <2>1, SameGoesOn, ShellKeeps
<1>2. CASE ~s.closing
  <2>1. shell' = [s EXCEPT !.closing = TRUE, !.draining = "exit"] /\ wire' = Tell(w, "close")
    BY <1>2 DEF CloseNow
  <2>2. ShellGoesOn
    BY <2>1, Zenon DEF SameShell, Shells, ShellGoesOn
  <2>3. QuietWire(wire, wire')
    BY <2>1, TellQuiet
  <2>. QED
    BY <2>2, <2>3, ShellKeeps
<1>. QED
  BY <1>1, <1>2

LEMMA ExitKeeps ==
  ASSUME LifeInv, RequestExit \/ ExitAnswered \/ ExitUnanswered \/ UserAnswersExit \/ BrowserFails
  PROVE  LifeInv'
<1>0. UNCHANGED <<backend, store, cache>>
  BY Zenon DEF RequestExit, ExitAnswered, ExitUnanswered, UserAnswersExit, BrowserFails
<1>1. CASE RequestExit
  <2>1. /\ shell' = [shell EXCEPT !.busy = TRUE, !.asking = "check"]
        /\ wire' = Tell(wire, "exitCheck")
    BY <1>1 DEF RequestExit
  <2>. QED
    BY <1>0, <2>1, SameShells, SameGoesOn, QuietWires, TellQuiet, ShellKeeps
<1>2. CASE ExitAnswered
  <2>1. wire.up # <<>>
    BY <1>2 DEF ExitAnswered, NextUp
  <2>2. \/ shell' = shell /\ wire' = Taken
        \/ shell' = Idle(shell) /\ wire' = Taken
        \/ shell' = [shell EXCEPT !.asking = "dialog"] /\ wire' = Taken
        \/ CloseNow(Idle(shell), Taken)
    BY <1>2 DEF ExitAnswered
  <2>3. CASE CloseNow(Idle(shell), Taken)
    BY <1>0, <2>1, <2>3, SameShells, QuietWires, CloseNowKeeps
  <2>4. CASE SameShell(shell') /\ wire' = Taken
    BY <1>0, <2>1, <2>4, SameGoesOn, QuietWires, ShellKeeps
  <2>. QED
    BY <2>2, <2>3, <2>4, SameShells
<1>3. CASE ExitUnanswered
  <2>1. shell' = Idle(shell) /\ wire' = Abandon("exitCheck")
    BY <1>3 DEF ExitUnanswered
  <2>. QED
    BY <1>0, <2>1, SameShells, SameGoesOn, QuietWires, ShellKeeps
<1>4. CASE UserAnswersExit
  <2>1. CASE CloseNow(Idle(shell), wire)
    BY <1>0, <2>1, SameShells, QuietWires, CloseNowKeeps
  <2>2. CASE shell' = Idle(shell) /\ UNCHANGED wire
    BY <1>0, <2>2, SameShells, SameGoesOn, QuietWires, ShellKeeps
  <2>. QED
    BY <1>4, <2>1, <2>2 DEF UserAnswersExit
<1>5. CASE BrowserFails
  BY <1>0, <1>5, SameShells, QuietWires, CloseNowKeeps DEF BrowserFails
<1>. QED
  BY <1>1, <1>2, <1>3, <1>4, <1>5

\* The acknowledgement of the last save is believed only if it says saved.
LEMMA ClosedReportedKeeps ==
  ASSUME LifeInv, ClosedReported
  PROVE  LifeInv'
<1>1. /\ wire.up # <<>> /\ wire.up[1].kind = "closed" /\ wire' = Taken
      /\ shell' = [shell EXCEPT !.closed = IF wire.up[1].value THEN "saved" ELSE "lost"]
      /\ UNCHANGED <<backend, store, cache>> /\ shell \in Shells /\ wire \in Wires
  BY DEF ClosedReported, NextUp, LifeInv, LifeShape
<1>2. wire.up[1].value => AtRest
  <2>1. 1 \in DOMAIN wire.up
    BY <1>1 DEF Wires
  <2>2. wire.up[1].value => SavedTold(wire)
    BY <1>1, <2>1 DEF SavedTold
  <2>. QED
    BY <2>2 DEF LifeInv, StoreInv
<1>3. ShellGoesOn
  BY <1>1, <1>2 DEF ShellGoesOn, Shells
<1>. QED
  BY <1>1, <1>3, QuietWires, ShellKeeps

\* The ends of an instance.
LEMMA EndingKeeps ==
  ASSUME LifeInv, Drained \/ BackendLost \/ PowerFails
  PROVE  LifeInv'
<1>0. /\ UNCHANGED <<store, cache>> /\ cache \in Caches
      /\ shell.closed = "saved" => store.disk = store.want
  BY DEF Drained, BackendLost, PowerFails, LifeInv, LifeShape, StoreInv, AtRest
<1>1. CASE Drained
  <2>1. \/ Ends("unsaved")
        \/ Ends("saved") /\ shell.closed = "saved"
        \/ Ends("msi") /\ shell.closed = "saved" /\ shell.draining = "install"
    BY <1>1 DEF Drained
  <2>2. shell.draining = "install" =>
          ~backend.admitted /\ shell.held = shell.shown /\ shell.held > shell.version
    BY DEF LifeInv, AdmissionInv, UpdateInv
  <2>3. CASE Ends("unsaved")
    BY <1>0, <2>3, EndKeeps
  <2>4. CASE Ends("saved") /\ shell.closed = "saved"
    BY <1>0, <2>4, EndKeeps
  <2>5. CASE Ends("msi") /\ shell.closed = "saved" /\ shell.draining = "install"
    BY <1>0, <2>2, <2>5, EndKeeps
  <2>. QED
    BY <2>1, <2>3, <2>4, <2>5
<1>2. CASE BackendLost
  BY <1>0, <1>2, EndKeeps DEF BackendLost
<1>3. CASE PowerFails
  BY <1>0, <1>3, EndKeeps DEF PowerFails
<1>. QED
  BY <1>1, <1>2, <1>3

-----------------------------------------------------------------------------
(* Updates, and the next launch.                                               *)
LEMMA CheckKeeps ==
  ASSUME LifeInv,
         \/ \E a \in {"checking", "downloading", "installing"} : AcceptUpdate(a)
         \/ \E v \in Versions \cup {NoRelease} : Checked(v)
  PROVE  LifeInv'
<1>0. UNCHANGED <<backend, wire, store, cache>> /\ shell \in Shells
  BY Zenon DEF AcceptUpdate, Checked, LifeInv, LifeShape
<1>1. CASE \E a \in {"checking", "downloading", "installing"} : AcceptUpdate(a)
  <2>1. PICK a \in {"checking", "downloading", "installing"} : AcceptUpdate(a)
    BY <1>1
  <2>2. shell.update = "idle" /\ shell' = [shell EXCEPT !.update = a]
    BY <2>1 DEF AcceptUpdate
  <2>3. ShellGoesOn
    BY <1>0, <2>2 DEF ShellGoesOn, Shells
  <2>. QED
    BY <1>0, <2>3, QuietWires, ShellKeeps
<1>2. CASE \E v \in Versions \cup {NoRelease} : Checked(v)
  <2>1. PICK v \in Versions \cup {NoRelease} : Checked(v)
    BY <1>2
  <2>. DEFINE new == IF v > shell.version THEN v ELSE NoRelease
  <2>2. shell.update = "checking" /\ shell' = [shell EXCEPT !.update = "idle", !.offered = new]
    BY <2>1, Zenon DEF Checked
  <2>3. new \in Releases
    BY DEF Releases
  <2>. HIDE DEF new
  <2>4. ShellGoesOn
    BY <1>0, <2>2, <2>3, Zenon DEF ShellGoesOn, Shells
  <2>. QED
    BY <1>0, <2>4, QuietWires, ShellKeeps
<1>. QED
  BY <1>1, <1>2

\* The payload and then its name: what the cache names from now on is shown.
LEMMA StoreStepKeeps ==
  ASSUME LifeInv, StoreStep
  PROVE  LifeInv'
<1>1. /\ UNCHANGED <<backend, wire, store>> /\ shell \in Shells /\ cache \in Caches
      /\ shell.update = "downloading" /\ LifeShape /\ UpdateInv /\ AdmissionInv /\ StoreInv
  BY DEF StoreStep, LifeInv, LifeShape
<1>2. CASE /\ UNCHANGED shell
           /\ \/ cache' = [cache EXCEPT !.writing = "part"]
              \/ cache' = [cache EXCEPT !.writing = "whole"]
  <2>1. cache' \in Caches /\ cache'.release = cache.release /\ cache'.whole = cache.whole
    BY <1>1, <1>2 DEF Caches
  <2>2. Newer(shell.version)' = Newer(shell.version)
    BY <1>2, <2>1 DEF Newer
  <2>. QED
    BY <1>1, <1>2, <2>1, <2>2 DEF LifeInv, LifeShape, StoreInv, AtRest, AdmissionInv, UpdateInv
<1>3. CASE /\ cache' = [release |-> shell.offered, whole |-> TRUE, writing |-> "no"]
           /\ shell' = [shell EXCEPT !.update = "idle", !.shown = shell.offered]
  <2>1. /\ shell' \in Shells /\ shell'.update = "idle" /\ shell'.shown = shell.offered
        /\ shell'.version = shell.version /\ shell'.end = shell.end /\ shell'.closed = shell.closed
        /\ shell'.draining = shell.draining /\ shell'.held = shell.held
    BY <1>1, <1>3, Zenon DEF Shells
  <2>2. cache' \in Caches /\ cache'.release = shell.offered
    BY <1>1, <1>3 DEF Caches, Shells
  <2>3. Newer(shell.version)' \in {shell'.shown, NoRelease}
    BY <2>1, <2>2 DEF Newer
  <2>4. shell.draining # "install" /\ shell.end = "none"
    BY <1>1 DEF UpdateInv, StoreStep, Running
  <2>5. UpdateInv'
    BY <1>1, <2>1, <2>3, <2>4 DEF UpdateInv
  <2>. QED
    BY <1>1, <2>1, <2>2, <2>4, <2>5 DEF LifeInv, LifeShape, StoreInv, AtRest, AdmissionInv
<1>. QED
  BY <1>2, <1>3 DEF StoreStep

\* Install holds the download that is shown, and asks for admission once.
LEMMA InstallKeeps ==
  ASSUME LifeInv, InstallBegins
  PROVE  LifeInv'
<1>. DEFINE new == Newer(shell.version)
<1>1. /\ UNCHANGED <<backend, store, cache>> /\ shell \in Shells /\ wire \in Wires /\ cache \in Caches
      /\ shell.update = "installing" /\ shell.end = "none" /\ new # NoRelease
      /\ shell' = [shell EXCEPT !.update = "preparing", !.held = new]
      /\ wire' = Tell(wire, "prepareUpdate")
      /\ LifeShape /\ UpdateInv /\ AdmissionInv /\ StoreInv
  BY DEF InstallBegins, Running, LifeInv, LifeShape
<1>2. new \in Releases /\ new > shell.version
  BY <1>1 DEF Newer, Caches
<1>3. new = shell.shown
  BY <1>1 DEF UpdateInv
<1>4. Newer(shell.version) = new
  OBVIOUS
<1>. HIDE DEF new
<1>5. /\ shell' \in Shells /\ shell'.update = "preparing" /\ shell'.held = new
      /\ shell'.shown = shell.shown /\ shell'.version = shell.version /\ shell'.end = shell.end
      /\ shell'.closed = shell.closed /\ shell'.draining = shell.draining
  BY <1>1, <1>2, Zenon DEF Shells
<1>6. NoneAwaits(wire) /\ shell.draining # "install" /\ OneAwaits(wire)
  BY <1>1 DEF UpdateInv
<1>7. /\ wire' \in Wires /\ SavedTold(wire') = SavedTold(wire) /\ Granted(wire') = Granted(wire)
      /\ OneAwaits(wire')
  BY <1>1, <1>6, TellWire DEF Calls0
<1>8. Newer(shell.version)' = new
  BY <1>1, <1>4, <1>5 DEF Newer
<1>9. UpdateInv'
  BY <1>1, <1>2, <1>3, <1>5, <1>6, <1>7, <1>8 DEF UpdateInv
<1>. QED
  BY <1>1, <1>5, <1>6, <1>7, <1>9 DEF LifeInv, LifeShape, StoreInv, AtRest, AdmissionInv

\* The answer to the preparation: installing goes on only when it was granted.
LEMMA PreparedKeeps ==
  ASSUME LifeInv, Prepared
  PROVE  LifeInv'
<1>. DEFINE h == wire.up[1]
<1>1. /\ UNCHANGED <<store, cache>> /\ wire.up # <<>> /\ h.kind = "prepareUpdate"
      /\ shell \in Shells /\ wire \in Wires /\ cache \in Caches /\ shell.end = "none"
      /\ LifeShape /\ UpdateInv /\ AdmissionInv /\ StoreInv
  BY DEF Prepared, NextUp, Running, LifeInv, LifeShape
<1>2. 1 \in DOMAIN wire.up /\ h \in BackendSays
  BY <1>1 DEF Wires
<1>3. h.awaited => Prepare(wire.up, 1)
  BY <1>1 DEF Prepare
<1>4. h.awaited => shell.update = "preparing" /\ shell.draining # "install"
  BY <1>1, <1>2, <1>3 DEF UpdateInv, NoneAwaits
<1>5. QuietWire(wire, Taken) /\ OneAwaits(wire)
  BY <1>1, QuietWires DEF UpdateInv
<1>6. h.awaited => NoneAwaits(Taken)
  BY <1>1, <1>3, <1>5, TakenWire
<1>7. h.awaited \in BOOLEAN /\ h.value \in BOOLEAN /\ shell.closing \in BOOLEAN
  BY <1>1, <1>2 DEF BackendSays, Shells
<1>8. \/ ~h.awaited /\ shell' = shell /\ wire' = Taken /\ UNCHANGED backend
      \/ h.awaited /\ shell' = [shell EXCEPT !.update = "idle"] /\ wire' = Taken /\ UNCHANGED backend
      \/ Ends("unsaved")
      \/ /\ h.awaited /\ h.value /\ ~shell.closing /\ UNCHANGED backend
         /\ shell' = [shell EXCEPT !.update = "draining", !.closing = TRUE, !.draining = "install"]
         /\ wire' = Tell(Taken, "close")
  BY <1>7 DEF Prepared
<1>9. h.value => Granted(wire)
  BY <1>1, <1>2 DEF Granted
<1>. HIDE DEF h
<1>10. CASE shell' = shell /\ wire' = Taken /\ UNCHANGED backend
  BY <1>1, <1>5, <1>10, SameShells, SameGoesOn, ShellKeeps
<1>11. CASE h.awaited /\ shell' = [shell EXCEPT !.update = "idle"] /\ wire' = Taken /\ UNCHANGED backend
  <2>1. /\ shell' \in Shells /\ shell'.update = "idle" /\ shell'.held = shell.held
        /\ shell'.shown = shell.shown /\ shell'.version = shell.version /\ shell'.end = shell.end
        /\ shell'.closed = shell.closed /\ shell'.draining = shell.draining
    BY <1>1, <1>11 DEF Shells
  <2>2. Newer(shell.version)' = Newer(shell.version)
    BY <1>1, <2>1 DEF Newer
  <2>3. UpdateInv'
    BY <1>1, <1>4, <1>5, <1>6, <1>11, <2>1, <2>2 DEF UpdateInv, QuietWire
  <2>. QED
    BY <1>1, <1>5, <1>11, <2>1, <2>3 DEF LifeInv, LifeShape, StoreInv, AtRest, AdmissionInv, QuietWire
<1>12. CASE Ends("unsaved")
  BY <1>1, <1>12, EndKeeps
<1>13. CASE /\ h.awaited /\ h.value /\ ~shell.closing /\ UNCHANGED backend
            /\ shell' = [shell EXCEPT !.update = "draining", !.closing = TRUE, !.draining = "install"]
            /\ wire' = Tell(Taken, "close")
  <2>1. /\ shell' \in Shells /\ shell'.update = "draining" /\ shell'.held = shell.held
        /\ shell'.shown = shell.shown /\ shell'.version = shell.version /\ shell'.end = shell.end
        /\ shell'.closed = shell.closed /\ shell'.draining = "install" /\ shell'.closing
    BY <1>1, <1>13, Zenon DEF Shells
  <2>2. QuietWire(wire, wire')
    BY <1>5, <1>13, TellQuiet
  <2>3. NoneAwaits(wire')
    BY <1>5, <1>6, <1>13, TellWire DEF QuietWire, Calls0
  <2>4. ~backend.admitted
    BY <1>1, <1>9, <1>13 DEF AdmissionInv
  <2>5. Newer(shell.version)' = Newer(shell.version)
    BY <1>1, <2>1 DEF Newer
  <2>6. shell.held = shell.shown /\ shell.held > shell.version
    BY <1>1, <1>4, <1>13 DEF UpdateInv
  <2>7. UpdateInv'
    BY <1>1, <1>5, <2>1, <2>2, <2>3, <2>5, <2>6 DEF UpdateInv, QuietWire
  <2>8. AdmissionInv'
    BY <1>1, <1>13, <2>1, <2>2, <2>4 DEF AdmissionInv, QuietWire
  <2>. QED
    BY <1>1, <1>13, <2>1, <2>2, <2>7, <2>8 DEF LifeInv, LifeShape, StoreInv, AtRest, QuietWire
<1>. QED
  BY <1>8, <1>10, <1>11, <1>12, <1>13

LEMMA UpdateFailsKeeps ==
  ASSUME LifeInv, UpdateFails
  PROVE  LifeInv'
<1>1. /\ UNCHANGED store /\ cache' = [cache EXCEPT !.writing = "no"]
      /\ shell \in Shells /\ wire \in Wires /\ cache \in Caches /\ shell.end = "none"
      /\ shell.update \in {"checking", "downloading", "installing", "preparing"}
      /\ LifeShape /\ UpdateInv /\ AdmissionInv /\ StoreInv
  BY DEF UpdateFails, Running, LifeInv, LifeShape
<1>2. cache' \in Caches /\ cache'.release = cache.release /\ cache'.whole = cache.whole
  BY <1>1 DEF Caches
<1>3. CASE shell.closing
  BY <1>1, <1>2, <1>3, EndKeeps DEF UpdateFails
<1>4. CASE ~shell.closing
  <2>1. /\ shell' = [shell EXCEPT !.update = "idle"] /\ wire' = Abandon("prepareUpdate")
        /\ UNCHANGED backend
    BY <1>4 DEF UpdateFails
  <2>2. /\ shell' \in Shells /\ shell'.update = "idle" /\ shell'.held = shell.held
        /\ shell'.shown = shell.shown /\ shell'.version = shell.version /\ shell'.end = shell.end
        /\ shell'.closed = shell.closed /\ shell'.draining = shell.draining
    BY <1>1, <2>1 DEF Shells
  <2>3. QuietWire(wire, wire') /\ NoneAwaits(wire')
    BY <1>1, <2>1, QuietWires, AbandonWire
  <2>4. Newer(shell.version)' = Newer(shell.version)
    BY <1>2, <2>2 DEF Newer
  <2>5. shell.draining # "install"
    BY <1>1 DEF UpdateInv
  <2>6. UpdateInv'
    BY <1>1, <2>2, <2>3, <2>4, <2>5 DEF UpdateInv, QuietWire
  <2>. QED
    BY <1>1, <1>2, <2>1, <2>2, <2>3, <2>6 DEF LifeInv, LifeShape, StoreInv, AtRest, AdmissionInv, QuietWire
<1>. QED
  BY <1>3, <1>4

\* The next instance finds the files, and shows the download they name.
LEMMA LaunchKeeps ==
  ASSUME LifeInv, Launch
  PROVE  LifeInv'
<1>. DEFINE installed == IF shell.end = "msi" THEN shell.held ELSE shell.version
            shown == Newer(installed)
<1>1. /\ shell \in Shells /\ cache \in Caches /\ cache' = [cache EXCEPT !.writing = "no"]
      /\ shell' = [NewShell(installed) EXCEPT !.shown = shown]
      /\ backend' = NewBackend /\ wire' = NewWire
  BY DEF Launch, LifeInv, LifeShape
<1>2. installed \in Releases /\ shown \in Releases
  BY <1>1 DEF Shells, Newer, Caches, Releases
<1>3. cache' \in Caches /\ cache'.release = cache.release /\ cache'.whole = cache.whole
  BY <1>1 DEF Caches
<1>4. Newer(installed) = shown
  OBVIOUS
<1>. HIDE DEF installed, shown
<1>5. /\ shell' \in Shells /\ shell'.version = installed /\ shell'.shown = shown
      /\ shell'.end = "none" /\ shell'.closed = "none" /\ shell'.draining = "no"
      /\ shell'.update = "idle"
  <2>1. /\ NewShell(installed) \in Shells /\ NewShell(installed).version = installed
        /\ NewShell(installed).end = "none" /\ NewShell(installed).closed = "none"
        /\ NewShell(installed).draining = "no" /\ NewShell(installed).update = "idle"
    BY <1>2 DEF NewShell, Shells, Releases, NoRelease
  <2>. HIDE DEF NewShell
  <2>2. \A s \in Shells : /\ [s EXCEPT !.shown = shown] \in Shells
    BY <1>2 DEF Shells
  <2>. QED
    BY <1>1, <2>1, <2>2 DEF Shells
<1>6. NewBackend \in Backends /\ NewBackend.admitted
  BY DEF NewBackend, Backends
<1>7. PICK bad \in BOOLEAN : store' = NewStore(bad)
  BY DEF Launch
<1>8. /\ store' \in Stores /\ store'.disk = 0 /\ store'.want = 0 /\ store'.queue = <<>>
  BY <1>7 DEF NewStore, Stores
<1>9. Newer(shell.version)' = shown
  BY <1>3, <1>4, <1>5 DEF Newer
<1>10. LifeShape'
  BY <1>1, <1>3, <1>5, <1>6, <1>8, EmptyWire DEF LifeShape
<1>11. StoreInv'
  BY <1>1, <1>5, <1>8, EmptyWire DEF StoreInv
<1>12. AdmissionInv'
  BY <1>1, <1>5, <1>6, EmptyWire DEF AdmissionInv
<1>13. UpdateInv'
  BY <1>1, <1>5, <1>9, EmptyWire DEF UpdateInv
<1>. QED
  BY <1>10, <1>11, <1>12, <1>13 DEF LifeInv

-----------------------------------------------------------------------------
\* LifeInv is inductive.
LEMMA LifeStepKeeps ==
  ASSUME LifeInv, LifeSteps \/ UNCHANGED lifeVars
  PROVE  LifeInv'
<1>1. CASE UNCHANGED lifeVars
  BY <1>1 DEF lifeVars, LifeInv, LifeShape, StoreInv, AtRest, AdmissionInv, UpdateInv, Newer
<1>2. CASE LifeSteps
  BY <1>2, BackendStepKeeps, AnswerKeeps, WriteKeeps, FlushKeeps, ExitKeeps, ClosedReportedKeeps,
     EndingKeeps, CheckKeeps, StoreStepKeeps, InstallKeeps, PreparedKeeps, UpdateFailsKeeps,
     LaunchKeeps DEF LifeSteps
<1>. QED
  BY <1>1, <1>2

LEMMA LifeInvSays == LifeInv => LifeTypes /\ SavedWhenSaid /\ InstallsWhatWasShown
<1>. SUFFICES ASSUME LifeInv PROVE LifeTypes /\ SavedWhenSaid /\ InstallsWhatWasShown
  OBVIOUS
<1>1. LifeTypes
  BY DEF LifeInv, LifeShape, StoreInv, Shells, Backends, Caches, LifeTypes
<1>2. SavedWhenSaid
  BY DEF LifeInv, StoreInv, AtRest, SavedWhenSaid
<1>3. InstallsWhatWasShown
  BY DEF LifeInv, AdmissionInv, UpdateInv, InstallsWhatWasShown
<1>. QED
  BY <1>1, <1>2, <1>3

\* The ends of the desktop's instances, over any number of launches: what was reported
\* as saved, or precedes an installation, is on disk; what is installed is the newer
\* version the user was shown, with admission closed and no session open.
THEOREM LifeKeepsWord ==
  LifeStarts /\ [][LifeSteps]_lifeVars => [](LifeTypes /\ SavedWhenSaid /\ InstallsWhatWasShown)
BY LifeStartInv, LifeStepKeeps, LifeInvSays, PTL

-----------------------------------------------------------------------------
(* The settings.                                                             *)

SettingTexts == {"unset", "custom", "vscode", "wrong", "good", "bad", "light", "dark"} \cup Nat
SettingRecords == [SettingKeys -> SettingTexts]
TypedFields == UNION {[K -> SettingTexts] : K \in SUBSET SettingKeys}

PanelOperations == {"save", "openFile", "reload", "importVscode", "useDefaults"}
MessageTypes == PanelOperations \cup {"read", "setTheme"}
Zooms == {"in", "out", "reset"}
HostMessages ==
    [type : MessageTypes, values : SettingRecords, leaves : SUBSET SettingKeys] \cup [type : {"zoom"}, zoom : Zooms]
PageEvents == [kind : {"event"}, values : SettingRecords, firstRun : BOOLEAN, error : BOOLEAN]
PageReplies == [kind : {"reply"}, type : MessageTypes, ok : BOOLEAN, values : SettingRecords,
                firstRun : BOOLEAN, error : BOOLEAN]
PageMessages == PageEvents \cup PageReplies
WriteTypes == {"save", "setTheme", "useDefaults", "reload"}
Operations == [op : {"reload", "update", "replace"}, type : WriteTypes \cup {"zoom"}, values : SettingRecords,
               leaves : SUBSET SettingKeys, key : {"theme", "zoom"}, value : SettingTexts]

SettingsFiles == [kind : {"absent", "broken", "sound"}, values : SettingRecords]
SettingsStores == [values : SettingRecords, firstRun : BOOLEAN, error : BOOLEAN, queue : Seq(Operations),
           stage : {"idle", "reading", "writing"}, target : SettingRecords, zooms : Seq(Zooms)]
SettingsWires == [toHost : Seq(HostMessages), toPage : Seq(PageMessages),
          outside : {"none", "openFile", "importVscode"}]
SettingsViews == [values : SettingRecords, firstRun : BOOLEAN, error : BOOLEAN]
SettingsPanels == [open : BOOLEAN, view : SettingsViews, saved : SettingRecords, draft : SettingRecords,
           operation : PanelOperations \cup {"none"}, busy : BOOLEAN,
           asking : {"none", "close", "reload", "importVscode", "useDefaults"},
           typed : TypedFields, late : SUBSET SettingKeys, missed : BOOLEAN]
SettingsUses == [zooms : Nat, edits : Nat, actions : Nat, changes : Nat, foreign : BOOLEAN, spoiled : BOOLEAN]

SettingsShape ==
    /\ settingsFile \in SettingsFiles /\ settingsStore \in SettingsStores /\ settingsWire \in SettingsWires
    /\ settingsPanel \in SettingsPanels /\ settingsUsed \in SettingsUses
    /\ settingsStore.stage # "idle" => settingsStore.queue # <<>>

-----------------------------------------------------------------------------
(* SettingValues and messages                                                       *)

LEMMA SettingValues ==
  /\ NoSettings \in SettingRecords
  /\ \A v \in SettingRecords, t \in SettingTexts, key \in SettingKeys : [v EXCEPT ![key] = t] \in SettingRecords
<1>1. NoSettings \in SettingRecords
  BY DEF NoSettings, SettingRecords, SettingKeys, SettingTexts, NoZoom
<1>2. \A v \in SettingRecords, t \in SettingTexts, key \in SettingKeys : [v EXCEPT ![key] = t] \in SettingRecords
  BY DEF SettingRecords
<1>. QED
  BY <1>1, <1>2

\* What an import yields is a set of settings.
LEMMA ImportedValues ==
  ASSUME NEW source \in ImportSources
  PROVE  ImportedSettings(source) \in SettingRecords
<1>1. source.mode \in SettingTexts /\ source.endpoint \in SettingTexts /\ {"custom", "good", "unset"} \subseteq SettingTexts
  BY DEF ImportSources, ProxyTexts, SettingTexts
<1>. DEFINE own == [NoSettings EXCEPT !.mode = IF source.mode = "wrong" THEN "unset" ELSE source.mode,
                                      !.endpoint = IF source.endpoint = "bad" THEN "unset" ELSE source.endpoint]
<1>2. own \in SettingRecords
  <2>1. \A v \in SettingRecords, a, b \in SettingTexts : [v EXCEPT !.mode = a, !.endpoint = b] \in SettingRecords
    BY Zenon DEF SettingRecords, SettingKeys
  <2>. QED
    BY <2>1, <1>1, SettingValues, Zenon
<1>3. \A v \in SettingRecords : [v EXCEPT !.endpoint = "good"] \in SettingRecords /\ [v EXCEPT !.mode = "custom", !.endpoint = "good"] \in SettingRecords
  BY <1>1, Zenon DEF SettingRecords, SettingKeys
<1>. HIDE DEF own
<1>. QED
  BY <1>2, <1>3, Zenon DEF ImportedSettings, own

\* No import brings a refused endpoint, nor VS Code's own mode unless VS Code has no proxy.
LEMMA Imports == ImportSound
<1>. SUFFICES ASSUME NEW source \in ImportSources
              PROVE  LET values == ImportedSettings(source) IN
                     /\ values.endpoint # "bad" /\ values.mode # "wrong"
                     /\ values.mode = "vscode" => source.http # "good" /\ SettingsIssue(values)
  BY DEF ImportSound
<1>. QED
  BY DEF ImportedSettings, NoSettings, SettingsIssue, ImportSources

\* What an operation writes, and the zoom it may write, are settings.
LEMMA TargetsAre ==
  ASSUME SettingsShape
  PROVE  /\ \A op \in Operations : TargetOf(op) \in SettingRecords
         /\ \A zoom \in Zooms : ZoomTo(zoom) \in SettingTexts
<1>1. settingsStore.values \in SettingRecords
  BY DEF SettingsShape, SettingsStores
<1>2. ASSUME NEW op \in Operations PROVE TargetOf(op) \in SettingRecords
  <2>1. op.key \in SettingKeys /\ op.value \in SettingTexts /\ op.values \in SettingRecords
    BY DEF Operations, SettingKeys
  <2>. QED
    BY <1>1, <2>1, SettingValues, Zenon DEF TargetOf
<1>3. ASSUME NEW zoom \in Zooms PROVE ZoomTo(zoom) \in SettingTexts
  <2>1. settingsStore.values.zoom \in SettingTexts
    BY <1>1 DEF SettingRecords, SettingKeys
  <2>2. ZoomLevel(settingsStore.values) \in SettingTexts
    BY <2>1 DEF ZoomLevel, SettingTexts
  <2>3. \A level \in ZoomRange : level \in SettingTexts
    BY DEF ZoomRange, SettingTexts
  <2>4. NoZoom \in SettingTexts
    BY DEF NoZoom, SettingTexts
  <2>. QED
    BY <2>2, <2>3, <2>4 DEF ZoomTo
<1>. QED
  BY <1>2, <1>3

\* The messages of a store.
LEMMA StoreMessages ==
  ASSUME NEW state \in SettingsStores
  PROVE  /\ EventOf(state) \in PageEvents /\ EventOf(state).values = state.values
         /\ \A type \in MessageTypes, ok \in BOOLEAN :
              /\ ReplyTo(type, ok, state) \in PageReplies
              /\ ReplyTo(type, ok, state).type = type /\ ReplyTo(type, ok, state).ok = ok
              /\ ReplyTo(type, ok, state).values = state.values
  BY DEF SettingsStores, EventOf, ReplyTo, PageEvents, PageReplies

-----------------------------------------------------------------------------
(* The panel                                                                 *)

\* What is typed differs from what is saved, and stands in the draft.
Edited(p) ==
    \A key \in DOMAIN p.typed : /\ p.typed[key] # p.saved[key]
                                /\ key \notin p.late => p.draft[key] = p.typed[key]
Modes(p) == (p.operation # "none" => p.open) /\ (p.asking # "none" => p.operation = "none")

LEMMA TypedAre ==
  /\ NothingTyped \in TypedFields /\ DOMAIN NothingTyped = {}
  /\ \A f \in TypedFields : DOMAIN f \subseteq SettingKeys /\ \A key \in DOMAIN f : f[key] \in SettingTexts
<1>1. \A K \in SUBSET SettingKeys : [K -> SettingTexts] \subseteq TypedFields
  BY DEF TypedFields
<1>2. NothingTyped \in [{} -> SettingTexts]
  BY DEF NothingTyped
<1>3. NothingTyped \in TypedFields
  BY <1>1, <1>2, Zenon
<1>4. ASSUME NEW f \in TypedFields
      PROVE  DOMAIN f \subseteq SettingKeys /\ \A key \in DOMAIN f : f[key] \in SettingTexts
  <2>1. PICK K \in SUBSET SettingKeys : f \in [K -> SettingTexts]
    BY DEF TypedFields
  <2>. QED
    BY <2>1
<1>. QED
  BY <1>3, <1>4 DEF NothingTyped

\* A function over fields with texts as values is a record of typed fields.
LEMMA TypedIs ==
  ASSUME NEW K \in SUBSET SettingKeys, NEW f \in [K -> SettingTexts]
  PROVE  f \in TypedFields
  BY DEF TypedFields

LEMMA StillTypedIs ==
  ASSUME NEW f \in TypedFields, NEW saved
  PROVE  /\ StillTyped(f, saved) \in TypedFields
         /\ \A key \in DOMAIN StillTyped(f, saved) :
              key \in DOMAIN f /\ StillTyped(f, saved)[key] = f[key] /\ f[key] # saved[key]
<1>. DEFINE K == {k \in DOMAIN f : f[k] # saved[k]}
<1>1. StillTyped(f, saved) = [key \in K |-> f[key]]
  BY DEF StillTyped
<1>2. K \in SUBSET SettingKeys /\ [key \in K |-> f[key]] \in [K -> SettingTexts]
  BY TypedAre
<1>3. StillTyped(f, saved) \in TypedFields
  BY <1>1, <1>2, TypedIs
<1>. QED
  BY <1>1, <1>3

LEMMA RestrictIs ==
  ASSUME NEW f \in TypedFields, NEW S
  PROVE  /\ Restrict(f, DOMAIN f \intersect S) \in TypedFields
         /\ DOMAIN Restrict(f, DOMAIN f \intersect S) = DOMAIN f \intersect S
         /\ \A key \in DOMAIN f \intersect S : Restrict(f, DOMAIN f \intersect S)[key] = f[key]
<1>1. Restrict(f, DOMAIN f \intersect S) = [key \in DOMAIN f \intersect S |-> f[key]]
  BY DEF Restrict
<1>2. DOMAIN f \intersect S \in SUBSET SettingKeys
      /\ [key \in DOMAIN f \intersect S |-> f[key]] \in [DOMAIN f \intersect S -> SettingTexts]
  BY TypedAre
<1>3. Restrict(f, DOMAIN f \intersect S) \in TypedFields
  BY <1>1, <1>2, TypedIs
<1>. QED
  BY <1>1, <1>3

\* The draft that replaces another: nothing typed is left but the late fields.
LEMMA DraftReplaced ==
  ASSUME NEW p \in SettingsPanels, NEW v \in SettingRecords
  PROVE  /\ ReplaceDraft(p, v) \in SettingsPanels /\ Edited(ReplaceDraft(p, v))
         /\ ReplaceDraft(p, v).saved = v /\ ~ReplaceDraft(p, v).missed
         /\ ReplaceDraft(p, v).open = p.open /\ ReplaceDraft(p, v).operation = p.operation
         /\ ReplaceDraft(p, v).asking = p.asking /\ ReplaceDraft(p, v).view = p.view
<1>. DEFINE r == Restrict(p.typed, DOMAIN p.typed \intersect p.late)
            t == StillTyped(r, v)
<1>1. p.typed \in TypedFields
  BY DEF SettingsPanels
<1>2. /\ r \in TypedFields /\ DOMAIN r = DOMAIN p.typed \intersect p.late
  BY <1>1, RestrictIs, Zenon
<1>3. t \in TypedFields /\ \A key \in DOMAIN t : key \in p.late /\ t[key] # v[key]
  <2>. HIDE DEF r
  <2>. QED
    BY <1>2, StillTypedIs
<1>4. ReplaceDraft(p, v) = [p EXCEPT !.saved = v, !.draft = v, !.missed = FALSE, !.typed = t]
  BY DEF ReplaceDraft, SettingsPanels
<1>. HIDE DEF t
<1>5. ReplaceDraft(p, v) \in SettingsPanels
  BY <1>3, <1>4, Zenon DEF SettingsPanels
<1>. QED
  BY <1>3, <1>4, <1>5 DEF SettingsPanels, Edited

LEMMA DraftUntouched ==
  ASSUME NEW p \in SettingsPanels
  PROVE  /\ UntouchedPanel(p) \in SettingsPanels /\ DOMAIN UntouchedPanel(p).typed = {}
         /\ UntouchedPanel(p).open = p.open /\ UntouchedPanel(p).operation = p.operation
         /\ UntouchedPanel(p).asking = p.asking /\ UntouchedPanel(p).saved = p.saved
         /\ UntouchedPanel(p).view = p.view
  BY TypedAre, Zenon DEF UntouchedPanel, SettingsPanels

\* The draft that takes over what changed elsewhere keeps what is typed.
LEMMA DraftMerged ==
  ASSUME NEW p \in SettingsPanels, NEW v \in SettingRecords, Edited(p)
  PROVE  /\ MergeDraft(p, v) \in SettingsPanels /\ Edited(MergeDraft(p, v))
         /\ MergeDraft(p, v).saved = v /\ ~MergeDraft(p, v).missed
         /\ MergeDraft(p, v).open = p.open /\ MergeDraft(p, v).operation = p.operation
         /\ MergeDraft(p, v).asking = p.asking /\ MergeDraft(p, v).view = p.view
<1>. DEFINE d == MergeSettingsDraft(p.saved, p.draft, v)
            t == StillTyped(p.typed, v)
<1>1. p.typed \in TypedFields /\ p.saved \in SettingRecords /\ p.draft \in SettingRecords
  BY DEF SettingsPanels
<1>2. t \in TypedFields /\ \A key \in DOMAIN t : key \in DOMAIN p.typed /\ t[key] = p.typed[key] /\ p.typed[key] # v[key]
  BY <1>1, StillTypedIs
<1>3. d \in SettingRecords /\ \A key \in SettingKeys : p.saved[key] # p.draft[key] => d[key] = p.draft[key]
  <2>1. d = [key \in SettingKeys |-> IF key \in ChangedSettingKeys(p.saved, p.draft) THEN p.draft[key] ELSE v[key]]
    BY DEF MergeSettingsDraft
  <2>. HIDE DEF d
  <2>. QED
    BY <1>1, <2>1 DEF ChangedSettingKeys, SettingRecords
<1>4. MergeDraft(p, v) = [p EXCEPT !.saved = v, !.draft = d, !.typed = t, !.missed = FALSE]
  BY DEF MergeDraft, SettingsPanels
<1>. HIDE DEF t, d
<1>5. MergeDraft(p, v) \in SettingsPanels
  BY <1>2, <1>3, <1>4, Zenon DEF SettingsPanels
<1>6. ASSUME NEW key \in DOMAIN t, key \notin p.late PROVE d[key] = t[key]
  <2>1. p.draft[key] = p.typed[key] /\ p.typed[key] # p.saved[key] /\ key \in SettingKeys
    BY <1>1, <1>2, <1>6, TypedAre DEF Edited
  <2>. QED
    BY <1>2, <1>3, <2>1
<1>. QED
  BY <1>2, <1>4, <1>5, <1>6 DEF SettingsPanels, Edited

\* A view is shown; an open panel compares with it from now on, or knows that it missed it.
LEMMA ViewAdopted ==
  ASSUME NEW p \in SettingsPanels, NEW v \in SettingsViews, Edited(p)
  PROVE  /\ AdoptView(p, v) \in SettingsPanels /\ Edited(AdoptView(p, v))
         /\ AdoptView(p, v).open = p.open /\ AdoptView(p, v).operation = p.operation
         /\ AdoptView(p, v).asking = p.asking
         /\ p.open /\ ~AdoptView(p, v).missed => AdoptView(p, v).saved = v.values
         /\ p.operation # "none" => AdoptView(p, v).saved = p.saved
<1>. DEFINE shown == [p EXCEPT !.view = v]
<1>1. /\ shown \in SettingsPanels /\ Edited(shown)
      /\ shown.open = p.open /\ shown.operation = p.operation /\ shown.asking = p.asking /\ shown.saved = p.saved
      /\ shown.missed = p.missed
  BY DEF SettingsPanels, Edited
<1>2. v.values \in SettingRecords
  BY DEF SettingsViews
<1>3. /\ [shown EXCEPT !.missed = @ \/ v.values # p.saved] \in SettingsPanels
      /\ Edited([shown EXCEPT !.missed = @ \/ v.values # p.saved])
      /\ ~[shown EXCEPT !.missed = @ \/ v.values # p.saved].missed => p.saved = v.values
      /\ [shown EXCEPT !.missed = @ \/ v.values # p.saved].open = p.open
      /\ [shown EXCEPT !.missed = @ \/ v.values # p.saved].operation = p.operation
      /\ [shown EXCEPT !.missed = @ \/ v.values # p.saved].asking = p.asking
      /\ [shown EXCEPT !.missed = @ \/ v.values # p.saved].saved = p.saved
  <2>. HIDE DEF shown
  <2>1. (shown.missed \/ v.values # p.saved) \in BOOLEAN
    OBVIOUS
  <2>. QED
    BY <1>1, <2>1, Zenon DEF SettingsPanels, Edited
<1>. HIDE DEF shown
<1>4. CASE ~p.open
  BY <1>1, <1>4 DEF AdoptView, shown
<1>5. CASE p.open /\ p.operation # "none"
  BY <1>1, <1>3, <1>5, Zenon DEF AdoptView, shown
<1>6. CASE p.open /\ p.operation = "none" /\ HasChanges(p)
  BY <1>1, <1>2, <1>6, DraftMerged, Zenon DEF AdoptView, shown
<1>7. CASE p.open /\ p.operation = "none" /\ ~HasChanges(p)
  BY <1>1, <1>2, <1>7, DraftReplaced, Zenon DEF AdoptView, shown
<1>. QED
  BY <1>4, <1>5, <1>6, <1>7

-----------------------------------------------------------------------------
(* Types and what is typed                                                   *)

FormInv == SettingsShape /\ Edited(settingsPanel) /\ Modes(settingsPanel)

\* A message joins those on their way.
LEMMA Joins ==
  ASSUME NEW w \in SettingsWires
  PROVE  /\ \A m \in HostMessages : [w EXCEPT !.toHost = Append(@, m)] \in SettingsWires
         /\ \A m \in PageMessages : [w EXCEPT !.toPage = Append(@, m)] \in SettingsWires
<1>1. w.toHost \in Seq(HostMessages) /\ w.toPage \in Seq(PageMessages)
  BY DEF SettingsWires
<1>2. \A m \in HostMessages : Append(w.toHost, m) \in Seq(HostMessages)
  BY <1>1
<1>3. \A m \in PageMessages : Append(w.toPage, m) \in Seq(PageMessages)
  BY <1>1
<1>4. \A q \in Seq(HostMessages) : [w EXCEPT !.toHost = q] \in SettingsWires
  BY DEF SettingsWires
<1>5. \A q \in Seq(PageMessages) : [w EXCEPT !.toPage = q] \in SettingsWires
  BY DEF SettingsWires
<1>. QED
  BY <1>1, <1>2, <1>3, <1>4, <1>5, Zenon

LEMMA PanelActs ==
  ASSUME NEW panel \in SettingsPanels, Edited(panel), panel.open, NEW type \in PanelOperations,
         NEW values \in SettingRecords, NEW leaves \in SUBSET SettingKeys, SettingsShape, Act(type, panel, values, leaves)
  PROVE  FormInv'
<1>1. settingsPanel' = [panel EXCEPT !.operation = type, !.busy = TRUE, !.asking = "none"]
  BY DEF Act
<1>2. settingsPanel' \in SettingsPanels /\ Edited(settingsPanel') /\ Modes(settingsPanel')
  BY <1>1, Zenon DEF SettingsPanels, Edited, Modes, PanelOperations
<1>3. settingsWire' \in SettingsWires
  <2>1. [type |-> type, values |-> values, leaves |-> leaves] \in HostMessages
    BY DEF HostMessages, MessageTypes
  <2>2. settingsWire' = [settingsWire EXCEPT !.toHost = Append(@, [type |-> type, values |-> values, leaves |-> leaves])]
    BY DEF Act, Send
  <2>. QED
    BY <2>1, <2>2, Joins DEF SettingsShape
<1>4. settingsUsed' \in SettingsUses
  BY DEF Act, Used, SettingsShape, SettingsUses
<1>. QED
  BY <1>2, <1>3, <1>4 DEF Act, FormInv, SettingsShape

LEMMA DraftDiscarded ==
  ASSUME NEW p \in SettingsPanels
  PROVE  /\ DiscardChanges(p) \in SettingsPanels /\ Edited(DiscardChanges(p))
         /\ DiscardChanges(p).open = p.open /\ DiscardChanges(p).operation = p.operation
         /\ DiscardChanges(p).asking = p.asking /\ DiscardChanges(p).saved = p.saved
         /\ DiscardChanges(p).missed = p.missed /\ DiscardChanges(p).draft = p.saved
  BY TypedAre, Zenon DEF DiscardChanges, SettingsPanels, Edited

LEMMA PanelPerforms ==
  ASSUME NEW panel \in SettingsPanels, Edited(panel), panel.open, SettingsShape, Modes(settingsPanel),
         panel.operation = settingsPanel.operation, panel.asking = settingsPanel.asking,
         NEW next \in {"close", "reload", "importVscode", "useDefaults"}, Perform(next, panel),
         panel.operation = "none"
  PROVE  FormInv'
<1>1. CASE next = "close"
  <2>1. settingsPanel' = [UntouchedPanel(panel) EXCEPT !.open = FALSE, !.asking = "none"]
    BY <1>1 DEF Perform
  <2>. DEFINE u == UntouchedPanel(panel)
  <2>3. u \in SettingsPanels /\ DOMAIN u.typed = {} /\ u.operation = "none"
    BY DraftUntouched
  <2>4. settingsPanel' = [u EXCEPT !.open = FALSE, !.asking = "none"]
    BY <2>1
  <2>. HIDE DEF u
  <2>2. settingsPanel' \in SettingsPanels /\ DOMAIN settingsPanel'.typed = {} /\ Modes(settingsPanel')
    BY <2>3, <2>4, Zenon DEF SettingsPanels, Modes
  <2>. QED
    BY <1>1, <2>2 DEF Perform, FormInv, SettingsShape, Edited
<1>2. CASE next # "close"
  <2>1. next \in PanelOperations /\ Act(next, panel, NoSettings, {})
    BY <1>2 DEF Perform, PanelOperations
  <2>2. {} \in SUBSET SettingKeys
    OBVIOUS
  <2>. QED
    BY <2>1, <2>2, SettingValues, PanelActs
<1>. QED
  BY <1>1, <1>2

\* What the panel makes of a reply.
AfterReply(p, m) ==
    LET own == m.type = p.operation
        seen == AdoptView(p, ViewOf(m))
        taken == IF ~own \/ ~seen.open THEN seen
                 ELSE IF m.type = "importVscode" THEN [UntouchedPanel(seen) EXCEPT !.draft = m.values, !.missed = p.missed]
                 ELSE IF m.type = "openFile" THEN MergeDraft(seen, m.values)
                 ELSE IF m.type = "useDefaults" THEN [UntouchedPanel(seen) EXCEPT !.open = FALSE]
                 ELSE ReplaceDraft(seen, m.values)
        panel == IF m.ok THEN taken ELSE p
    IN  [panel EXCEPT !.busy = FALSE, !.operation = IF own THEN "none" ELSE @]

LEMMA ReplyTaken ==
  ASSUME NEW p \in SettingsPanels, NEW m \in PageReplies, Edited(p), Modes(p)
  PROVE  /\ AfterReply(p, m) \in SettingsPanels /\ Edited(AfterReply(p, m)) /\ Modes(AfterReply(p, m))
         /\ AfterReply(p, m).operation = IF m.type = p.operation THEN "none" ELSE p.operation
         /\ AfterReply(p, m).open => p.open
         /\ ~m.ok => AfterReply(p, m).saved = p.saved /\ AfterReply(p, m).missed = p.missed
         /\ m.ok /\ m.type = "importVscode" /\ p.operation = "importVscode"
              => AfterReply(p, m).saved = p.saved /\ AfterReply(p, m).missed = p.missed
         /\ m.ok /\ m.type # "importVscode" /\ AfterReply(p, m).open /\ ~AfterReply(p, m).missed
              => AfterReply(p, m).saved = m.values
<1>. DEFINE own == m.type = p.operation
            seen == AdoptView(p, ViewOf(m))
            taken == IF ~own \/ ~seen.open THEN seen
                     ELSE IF m.type = "importVscode" THEN [UntouchedPanel(seen) EXCEPT !.draft = m.values, !.missed = p.missed]
                     ELSE IF m.type = "openFile" THEN MergeDraft(seen, m.values)
                     ELSE IF m.type = "useDefaults" THEN [UntouchedPanel(seen) EXCEPT !.open = FALSE]
                     ELSE ReplaceDraft(seen, m.values)
            panel == IF m.ok THEN taken ELSE p
<1>1. m.type \in MessageTypes /\ m.values \in SettingRecords /\ m.ok \in BOOLEAN
  BY DEF PageReplies
<1>2. ViewOf(m) \in SettingsViews /\ ViewOf(m).values = m.values
  BY DEF PageReplies, ViewOf, SettingsViews
<1>3. /\ seen \in SettingsPanels /\ Edited(seen)
      /\ seen.open = p.open /\ seen.operation = p.operation /\ seen.asking = p.asking
      /\ p.open /\ ~seen.missed => seen.saved = m.values
      /\ p.operation # "none" => seen.saved = p.saved
  BY <1>2, ViewAdopted
<1>. HIDE DEF seen
<1>4. /\ taken \in SettingsPanels /\ Edited(taken)
      /\ taken.open => p.open
      /\ taken.operation = p.operation /\ taken.asking = p.asking
      /\ ~own => taken.open = p.open
      /\ own /\ m.type = "importVscode" => taken.saved = p.saved /\ taken.missed = p.missed
      /\ m.type # "importVscode" /\ taken.open /\ ~taken.missed => taken.saved = m.values
  <2>0. own => p.open /\ p.operation # "none"
    BY <1>1 DEF Modes, MessageTypes, PanelOperations
  <2>1. CASE ~own \/ ~seen.open
    BY <2>0, <2>1, <1>3, Zenon
  <2>2. CASE own /\ seen.open /\ m.type = "importVscode"
    <3>. DEFINE u == UntouchedPanel(seen)
    <3>1. taken = [u EXCEPT !.draft = m.values, !.missed = p.missed]
      BY <2>2
    <3>4. /\ u \in SettingsPanels /\ DOMAIN u.typed = {} /\ u.saved = seen.saved
          /\ u.open = seen.open /\ u.operation = seen.operation /\ u.asking = seen.asking
      BY <1>3, DraftUntouched
    <3>. HIDE DEF u, taken
    <3>2. p.missed \in BOOLEAN
      BY DEF SettingsPanels
    <3>3. taken \in SettingsPanels /\ DOMAIN taken.typed = {} /\ taken.saved = seen.saved /\ taken.missed = p.missed
          /\ taken.open = seen.open /\ taken.operation = seen.operation /\ taken.asking = seen.asking
      BY <3>1, <3>2, <3>4, <1>1, Zenon DEF SettingsPanels
    <3>. QED
      BY <2>0, <2>2, <3>3, <1>3, Zenon DEF Edited
  <2>3. CASE own /\ seen.open /\ m.type = "openFile"
    <3>1. taken = MergeDraft(seen, m.values)
      BY <2>3
    <3>. HIDE DEF taken
    <3>. QED
      BY <2>0, <2>3, <3>1, <1>1, <1>3, DraftMerged
  <2>4. CASE own /\ seen.open /\ m.type = "useDefaults"
    <3>. DEFINE u == UntouchedPanel(seen)
    <3>1. taken = [u EXCEPT !.open = FALSE]
      BY <2>4
    <3>4. /\ u \in SettingsPanels /\ DOMAIN u.typed = {}
          /\ u.operation = seen.operation /\ u.asking = seen.asking
      BY <1>3, DraftUntouched
    <3>. HIDE DEF u, taken
    <3>2. taken \in SettingsPanels /\ DOMAIN taken.typed = {} /\ ~taken.open
          /\ taken.operation = seen.operation /\ taken.asking = seen.asking
      BY <3>1, <3>4, Zenon DEF SettingsPanels
    <3>. QED
      BY <2>0, <2>4, <3>2, <1>3, Zenon DEF Edited
  <2>5. CASE own /\ seen.open /\ m.type \notin {"importVscode", "openFile", "useDefaults"}
    <3>1. taken = ReplaceDraft(seen, m.values)
      BY <2>5
    <3>. HIDE DEF taken
    <3>. QED
      BY <2>0, <2>5, <3>1, <1>1, <1>3, DraftReplaced
  <2>. QED
    BY <2>1, <2>2, <2>3, <2>4, <2>5, Zenon
<1>5. AfterReply(p, m) = [panel EXCEPT !.busy = FALSE, !.operation = IF own THEN "none" ELSE @]
  BY DEF AfterReply, seen
<1>. HIDE DEF taken
<1>6. panel \in SettingsPanels /\ Edited(panel) /\ panel.operation = p.operation /\ panel.asking = p.asking
      /\ (panel.open => p.open) /\ (~own => panel.open = p.open)
  BY <1>1, <1>4
<1>7. /\ ~m.ok => panel.saved = p.saved /\ panel.missed = p.missed
      /\ m.ok => panel = taken
  BY <1>1
<1>. HIDE DEF panel
<1>8. /\ AfterReply(p, m) \in SettingsPanels /\ AfterReply(p, m).open = panel.open /\ AfterReply(p, m).saved = panel.saved
      /\ AfterReply(p, m).missed = panel.missed /\ AfterReply(p, m).asking = panel.asking
      /\ AfterReply(p, m).typed = panel.typed /\ AfterReply(p, m).late = panel.late /\ AfterReply(p, m).draft = panel.draft
      /\ AfterReply(p, m).operation = IF own THEN "none" ELSE panel.operation
  BY <1>5, <1>6, Zenon DEF SettingsPanels
<1>9. Edited(AfterReply(p, m))
  BY <1>6, <1>8 DEF Edited
<1>10. Modes(AfterReply(p, m))
  BY <1>6, <1>8 DEF Modes
<1>. QED
  BY <1>4, <1>6, <1>7, <1>8, <1>9, <1>10

-----------------------------------------------------------------------------
(* The wire between page and backend                                         *)

\* News are the messages that tell the page what the store holds; an import tells
\* what a draft may become.
IsNews(m) == m.kind = "event" \/ (m.ok /\ m.type # "importVscode")
IsImport(m) == m.kind = "reply" /\ m.type = "importVscode"

HasNews(q) == \E i \in DOMAIN q : IsNews(q[i])
Latest(q, v) == \A i \in DOMAIN q : IsNews(q[i]) => q[i].values = v \/ \E j \in DOMAIN q : j > i /\ IsNews(q[j])
ImportTold(q) == \E i \in DOMAIN q : IsImport(q[i])
ToldOnce(q) == \A i, j \in DOMAIN q : IsImport(q[i]) /\ IsImport(q[j]) => i = j

Asks(q, type) == \E i \in DOMAIN q : q[i].type = type
AskedOnce(q) == \A i, j \in DOMAIN q : q[i].type = "importVscode" /\ q[j].type = "importVscode" => i = j

\* The messages to the page after others joined that are no import and tell v.
Follows(q, r, v) ==
    /\ r \in Seq(PageMessages)
    /\ ImportTold(r) => ImportTold(q)
    /\ ToldOnce(q) => ToldOnce(r)
    /\ Latest(q, v) => Latest(r, v)
    /\ HasNews(q) => HasNews(r)
Informs(q, r, v) == Follows(q, r, v) /\ Latest(r, v) /\ HasNews(r)

LEMMA Appended ==
  ASSUME NEW q \in Seq(PageMessages), NEW m \in PageMessages
  PROVE  /\ Append(q, m) \in Seq(PageMessages) /\ Len(Append(q, m)) = Len(q) + 1
         /\ DOMAIN q = 1..Len(q) /\ DOMAIN Append(q, m) = 1..(Len(q) + 1) /\ Len(q) \in Nat
         /\ \A i \in 1..Len(q) : Append(q, m)[i] = q[i]
         /\ Append(q, m)[Len(q) + 1] = m
  OBVIOUS

LEMMA TellNews ==
  ASSUME NEW q \in Seq(PageMessages), NEW m \in PageMessages, NEW v, IsNews(m) => m.values = v
  PROVE  /\ Latest(q, v) \/ IsNews(m) => Latest(Append(q, m), v)
         /\ HasNews(q) \/ IsNews(m) => HasNews(Append(q, m))
<1>. DEFINE r == Append(q, m)
<1>1. /\ r \in Seq(PageMessages) /\ DOMAIN q = 1..Len(q) /\ DOMAIN r = 1..(Len(q) + 1) /\ Len(q) \in Nat
      /\ \A i \in 1..Len(q) : r[i] = q[i]
      /\ r[Len(q) + 1] = m
  BY Appended
<1>. HIDE DEF r
<1>2. HasNews(q) \/ IsNews(m) => HasNews(r)
  BY <1>1 DEF HasNews
<1>3. ASSUME Latest(q, v) \/ IsNews(m) PROVE Latest(r, v)
  <2>. SUFFICES ASSUME NEW i \in DOMAIN r, IsNews(r[i]), r[i].values # v
                PROVE  \E j \in DOMAIN r : j > i /\ IsNews(r[j])
    BY DEF Latest
  <2>1. i \in 1..Len(q)
    BY <1>1
  <2>2. CASE IsNews(m)
    BY <1>1, <2>1, <2>2
  <2>3. CASE Latest(q, v)
    <3>1. PICK j \in DOMAIN q : j > i /\ IsNews(q[j])
      BY <1>1, <2>1, <2>3 DEF Latest
    <3>. QED
      BY <1>1, <3>1
  <2>. QED
    BY <1>3, <2>2, <2>3
<1>. QED
  BY <1>2, <1>3 DEF r

LEMMA TellOne ==
  ASSUME NEW q \in Seq(PageMessages), NEW m \in PageMessages, NEW v,
         ~IsImport(m), IsNews(m) => m.values = v
  PROVE  /\ Follows(q, Append(q, m), v)
         /\ IsNews(m) => Informs(q, Append(q, m), v)
<1>. DEFINE r == Append(q, m)
<1>1. /\ r \in Seq(PageMessages) /\ DOMAIN q = 1..Len(q) /\ DOMAIN r = 1..(Len(q) + 1) /\ Len(q) \in Nat
      /\ \A i \in 1..Len(q) : r[i] = q[i]
      /\ r[Len(q) + 1] = m
  BY Appended
<1>2. (Latest(q, v) \/ IsNews(m) => Latest(r, v)) /\ (HasNews(q) \/ IsNews(m) => HasNews(r))
  BY TellNews
<1>. HIDE DEF r
<1>3. ImportTold(r) => ImportTold(q)
  BY <1>1 DEF ImportTold
<1>4. ToldOnce(q) => ToldOnce(r)
  BY <1>1 DEF ToldOnce
<1>. QED
  BY <1>1, <1>2, <1>3, <1>4 DEF Follows, Informs, r

LEMMA TellTwo ==
  ASSUME NEW q \in Seq(PageMessages), NEW r, NEW u, NEW v, Informs(q, r, v), Follows(r, u, v)
  PROVE  Informs(q, u, v)
  BY DEF Informs, Follows

LEMMA Joined ==
  ASSUME NEW q \in Seq(PageMessages), NEW e \in PageMessages, NEW m \in PageMessages
  PROVE  /\ q \o <<e>> = Append(q, e) /\ q \o <<>> = q
         /\ Append(q, e) \o <<>> = Append(q, e)
         /\ Append(q, e) \o <<m>> = Append(Append(q, e), m)
  OBVIOUS

\* The page takes the first message.
LEMMA Taking ==
  ASSUME NEW q \in Seq(PageMessages), q # <<>>, NEW v
  PROVE  /\ Head(q) \in PageMessages /\ Tail(q) \in Seq(PageMessages)
         /\ ImportTold(Tail(q)) => ImportTold(q)
         /\ IsImport(Head(q)) => ImportTold(q) /\ (ToldOnce(q) => ~ImportTold(Tail(q)))
         /\ ToldOnce(q) => ToldOnce(Tail(q))
         /\ Latest(q, v) => Latest(Tail(q), v)
         /\ HasNews(q) => IsNews(Head(q)) \/ HasNews(Tail(q))
         /\ Latest(q, v) /\ IsNews(Head(q)) => Head(q).values = v \/ HasNews(Tail(q))
<1>. DEFINE r == Tail(q)
<1>1. /\ r \in Seq(PageMessages) /\ Len(q) \in Nat \ {0} /\ DOMAIN q = 1..Len(q) /\ DOMAIN r = 1..(Len(q) - 1)
      /\ \A i \in 1..(Len(q) - 1) : r[i] = q[i + 1]
      /\ Head(q) = q[1] /\ Head(q) \in PageMessages
  OBVIOUS
<1>. HIDE DEF r
<1>9. \A i \in DOMAIN r : i + 1 \in DOMAIN q /\ r[i] = q[i + 1]
  BY <1>1
<1>2. ImportTold(r) => ImportTold(q)
  BY <1>9 DEF ImportTold
<1>3. IsImport(Head(q)) => ImportTold(q) /\ (ToldOnce(q) => ~ImportTold(r))
  BY <1>1, SMTT(30) DEF ImportTold, ToldOnce
<1>4. ASSUME ToldOnce(q), NEW i \in DOMAIN r, NEW j \in DOMAIN r, IsImport(r[i]), IsImport(r[j]) PROVE i = j
  <2>1. i + 1 = j + 1
    BY <1>4, <1>9 DEF ToldOnce
  <2>. QED
    BY <1>1, <2>1
<1>5. ASSUME Latest(q, v) PROVE Latest(r, v)
  <2>. SUFFICES ASSUME NEW i \in DOMAIN r, IsNews(r[i]), r[i].values # v
                PROVE  \E j \in DOMAIN r : j > i /\ IsNews(r[j])
    BY DEF Latest
  <2>1. PICK j \in DOMAIN q : j > i + 1 /\ IsNews(q[j])
    BY <1>1, <1>5 DEF Latest
  <2>2. j - 1 \in DOMAIN r /\ j - 1 > i /\ r[j - 1] = q[j]
    BY <1>1, <2>1
  <2>. QED
    BY <2>1, <2>2
<1>6. ASSUME HasNews(q), ~IsNews(Head(q)) PROVE HasNews(r)
  <2>1. PICK i \in DOMAIN q : IsNews(q[i])
    BY <1>6 DEF HasNews
  <2>2. i - 1 \in DOMAIN r /\ r[i - 1] = q[i]
    BY <1>1, <1>6, <2>1
  <2>. QED
    BY <2>1, <2>2 DEF HasNews
<1>7. ASSUME Latest(q, v), IsNews(Head(q)), Head(q).values # v PROVE HasNews(r)
  <2>1. PICK j \in DOMAIN q : j > 1 /\ IsNews(q[j])
    BY <1>1, <1>7 DEF Latest
  <2>2. j - 1 \in DOMAIN r /\ r[j - 1] = q[j]
    BY <1>1, <2>1
  <2>. QED
    BY <2>1, <2>2 DEF HasNews
<1>. QED
  BY <1>1, <1>2, <1>3, <1>4, <1>5, <1>6, <1>7 DEF r, ToldOnce

\* The backend takes the first message, and a message joins those to the backend.
LEMMA HostTakes ==
  ASSUME NEW q \in Seq(HostMessages), q # <<>>
  PROVE  /\ Head(q) \in HostMessages /\ Tail(q) \in Seq(HostMessages)
         /\ Asks(q, Head(q).type)
         /\ \A type : Asks(Tail(q), type) => Asks(q, type)
         /\ \A type : Asks(q, type) => Head(q).type = type \/ Asks(Tail(q), type)
         /\ AskedOnce(q) => AskedOnce(Tail(q))
         /\ AskedOnce(q) /\ Head(q).type = "importVscode" => ~Asks(Tail(q), "importVscode")
         /\ DOMAIN Tail(q) = 1..(Len(q) - 1) /\ DOMAIN q = 1..Len(q) /\ Len(q) \in Nat \ {0}
         /\ \A i \in DOMAIN Tail(q) : Tail(q)[i] = q[i + 1]
<1>. DEFINE r == Tail(q)
<1>1. /\ r \in Seq(HostMessages) /\ Len(q) \in Nat \ {0} /\ DOMAIN q = 1..Len(q) /\ DOMAIN r = 1..(Len(q) - 1)
      /\ \A i \in 1..(Len(q) - 1) : r[i] = q[i + 1]
      /\ Head(q) = q[1] /\ Head(q) \in HostMessages
  OBVIOUS
<1>. HIDE DEF r
<1>9. \A i \in DOMAIN r : i + 1 \in DOMAIN q /\ r[i] = q[i + 1]
  BY <1>1
<1>2. Asks(q, Head(q).type) /\ \A type : Asks(r, type) => Asks(q, type)
  BY <1>1, <1>9 DEF Asks
<1>3. ASSUME NEW type, Asks(q, type), Head(q).type # type PROVE Asks(r, type)
  <2>1. PICK i \in DOMAIN q : q[i].type = type
    BY <1>3 DEF Asks
  <2>2. i - 1 \in DOMAIN r /\ r[i - 1] = q[i]
    BY <1>1, <1>3, <2>1
  <2>. QED
    BY <2>1, <2>2 DEF Asks
<1>4. ASSUME AskedOnce(q), NEW i \in DOMAIN r, NEW j \in DOMAIN r,
             r[i].type = "importVscode", r[j].type = "importVscode"
      PROVE  i = j
  <2>1. i + 1 = j + 1
    BY <1>4, <1>9 DEF AskedOnce
  <2>. QED
    BY <1>1, <2>1
<1>5. AskedOnce(q) /\ Head(q).type = "importVscode" => ~Asks(r, "importVscode")
  BY <1>1 DEF AskedOnce, Asks
<1>. QED
  BY <1>1, <1>2, <1>3, <1>4, <1>5 DEF r, AskedOnce

LEMMA HostGets ==
  ASSUME NEW q \in Seq(HostMessages), NEW m \in HostMessages
  PROVE  /\ Append(q, m) \in Seq(HostMessages)
         /\ DOMAIN Append(q, m) = 1..(Len(q) + 1) /\ DOMAIN q = 1..Len(q) /\ Len(q) \in Nat
         /\ \A i \in 1..Len(q) : Append(q, m)[i] = q[i]
         /\ Append(q, m)[Len(q) + 1] = m
         /\ \A type : Asks(Append(q, m), type) <=> m.type = type \/ Asks(q, type)
         /\ AskedOnce(q) /\ (m.type = "importVscode" => ~Asks(q, "importVscode")) => AskedOnce(Append(q, m))
<1>. DEFINE r == Append(q, m)
<1>1. /\ r \in Seq(HostMessages) /\ DOMAIN q = 1..Len(q) /\ DOMAIN r = 1..(Len(q) + 1) /\ Len(q) \in Nat
      /\ \A i \in 1..Len(q) : r[i] = q[i]
      /\ r[Len(q) + 1] = m
  OBVIOUS
<1>. HIDE DEF r
<1>2. \A type : Asks(r, type) <=> m.type = type \/ Asks(q, type)
  BY <1>1 DEF Asks
<1>3. AskedOnce(q) /\ (m.type = "importVscode" => ~Asks(q, "importVscode")) => AskedOnce(r)
  BY <1>1 DEF AskedOnce, Asks
<1>. QED
  BY <1>1, <1>2, <1>3 DEF r

-----------------------------------------------------------------------------
(* What the steps of the store and of the backend do                         *)

\* The operation at hand.
LEMMA AtHand ==
  ASSUME SettingsShape, settingsStore.queue # <<>>
  PROVE  /\ Operation \in Operations /\ Operation = settingsStore.queue[1] /\ Operation.type # "importVscode"
         /\ Tail(settingsStore.queue) \in Seq(Operations)
         /\ Operation.type # "zoom" => Operation.type \in MessageTypes
         /\ settingsStore.queue \in Seq(Operations) /\ 1 \in DOMAIN settingsStore.queue
<1>1. settingsStore.queue \in Seq(Operations)
  BY DEF SettingsShape, SettingsStores
<1>2. Operation \in Operations /\ Operation = settingsStore.queue[1] /\ Tail(settingsStore.queue) \in Seq(Operations)
  BY <1>1 DEF Operation
<1>3. Operation.type \in WriteTypes \cup {"zoom"}
  BY <1>2 DEF Operations
<1>. QED
  BY <1>1, <1>2, <1>3 DEF WriteTypes, MessageTypes, PanelOperations

\* The page is told what the state holds, and an answer follows or not.
LEMMA Answers ==
  ASSUME NEW q \in Seq(PageMessages), NEW state \in SettingsStores, NEW ok \in BOOLEAN,
         NEW type, type # "zoom" => type \in MessageTypes, type # "importVscode"
  PROVE  /\ Follows(q, q \o AnswerTo(type, ok, state), state.values)
         /\ Informs(q, q \o <<EventOf(state)>> \o AnswerTo(type, ok, state), state.values)
<1>. DEFINE e == EventOf(state)
            m == ReplyTo(type, ok, state)
            v == state.values
<1>1. e \in PageMessages /\ e.values = v /\ IsNews(e) /\ ~IsImport(e)
  BY StoreMessages DEF PageMessages, PageEvents, EventOf, IsNews, IsImport
<1>2. type # "zoom" => m \in PageMessages /\ ~IsImport(m) /\ m.values = v
  BY StoreMessages DEF PageMessages, IsImport
<1>3. AnswerTo(type, ok, state) = IF type = "zoom" THEN <<>> ELSE <<m>>
  BY DEF AnswerTo
<1>. HIDE DEF e, m, v
<1>4. Append(q, e) \in Seq(PageMessages) /\ Informs(q, Append(q, e), v)
  BY <1>1, TellOne DEF Informs, Follows
<1>5. CASE type = "zoom"
  <2>1. Follows(q, q, v)
    BY DEF Follows
  <2>2. q \o <<e>> \o AnswerTo(type, ok, state) = Append(q, e) /\ q \o AnswerTo(type, ok, state) = q
    BY <1>1, <1>3, <1>4, <1>5, Joined
  <2>. QED
    BY <1>4, <2>1, <2>2, Zenon DEF e, v
<1>6. CASE type # "zoom"
  <2>1. /\ q \o <<e>> \o AnswerTo(type, ok, state) = Append(Append(q, e), m)
        /\ q \o AnswerTo(type, ok, state) = Append(q, m)
    BY <1>1, <1>2, <1>3, <1>4, <1>6, Joined
  <2>2. Follows(q, Append(q, m), v) /\ Follows(Append(q, e), Append(Append(q, e), m), v)
    BY <1>2, <1>4, <1>6, TellOne, Zenon
  <2>3. Informs(q, Append(Append(q, e), m), v)
    BY <1>4, <2>2, TellTwo
  <2>. QED
    BY <2>1, <2>2, <2>3, Zenon DEF e, v
<1>. QED
  BY <1>5, <1>6

\* Only what is on its way to the page changed.
ToPageOnly == /\ settingsWire' \in SettingsWires /\ settingsWire'.toHost = settingsWire.toHost
              /\ settingsWire'.outside = settingsWire.outside

LEMMA WireIs ==
  ASSUME SettingsShape
  PROVE  /\ settingsWire \in SettingsWires
         /\ settingsWire.toHost \in Seq(HostMessages) /\ settingsWire.toPage \in Seq(PageMessages)
         /\ \A q \in Seq(PageMessages) :
              /\ [settingsWire EXCEPT !.toPage = q] \in SettingsWires
              /\ [settingsWire EXCEPT !.toPage = q].toPage = q
              /\ [settingsWire EXCEPT !.toPage = q].toHost = settingsWire.toHost
              /\ [settingsWire EXCEPT !.toPage = q].outside = settingsWire.outside
         /\ \A q \in Seq(HostMessages) :
              /\ [settingsWire EXCEPT !.toHost = q] \in SettingsWires
              /\ [settingsWire EXCEPT !.toHost = q].toHost = q
              /\ [settingsWire EXCEPT !.toHost = q].toPage = settingsWire.toPage
              /\ [settingsWire EXCEPT !.toHost = q].outside = settingsWire.outside
  BY Zenon DEF SettingsShape, SettingsWires

LEMMA Reloads ==
  ASSUME SettingsShape, NEW readable \in BOOLEAN, EndReload(readable)
  PROVE  /\ SettingsShape' /\ ToPageOnly /\ Informs(settingsWire.toPage, settingsWire'.toPage, settingsStore'.values)
         /\ settingsStore'.stage = "idle" /\ settingsStore'.queue = Tail(settingsStore.queue)
         /\ settingsStore'.zooms = settingsStore.zooms
         /\ settingsUsed'.foreign = IF readable THEN FALSE ELSE settingsUsed.foreign
         /\ settingsUsed'.spoiled = settingsUsed.spoiled
         /\ settingsFile' = settingsFile /\ settingsPanel' = settingsPanel
         /\ readable /\ ~settingsStore'.error =>
              \/ settingsStore'.firstRun /\ settingsFile.kind = "absent"
              \/ settingsFile.kind = "sound" /\ settingsFile.values = settingsStore'.values
         /\ ~readable => settingsStore'.error
<1>1. settingsStore.stage = "reading" /\ settingsStore.queue # <<>> /\ settingsStore \in SettingsStores /\ settingsFile \in SettingsFiles
  BY DEF EndReload, SettingsShape
<1>. DEFINE ok == readable /\ settingsFile.kind = "sound"
            state == Loaded(readable)
<1>2. state = [settingsStore EXCEPT !.values = IF ok THEN settingsFile.values ELSE NoSettings,
                          !.firstRun = readable /\ settingsFile.kind = "absent",
                          !.error = ~ok /\ ~(readable /\ settingsFile.kind = "absent"),
                          !.stage = "idle", !.queue = Tail(@)]
  BY DEF Loaded
<1>3. /\ (IF ok THEN settingsFile.values ELSE NoSettings) \in SettingRecords
      /\ (readable /\ settingsFile.kind = "absent") \in BOOLEAN
      /\ (~ok /\ ~(readable /\ settingsFile.kind = "absent")) \in BOOLEAN
      /\ Tail(settingsStore.queue) \in Seq(Operations)
  BY <1>1, SettingValues, AtHand DEF SettingsFiles
<1>. HIDE DEF state
<1>4. /\ state \in SettingsStores /\ state.stage = "idle" /\ state.queue = Tail(settingsStore.queue)
      /\ state.zooms = settingsStore.zooms
      /\ state.values = IF ok THEN settingsFile.values ELSE NoSettings
      /\ state.firstRun = (readable /\ settingsFile.kind = "absent")
      /\ state.error = (~ok /\ ~(readable /\ settingsFile.kind = "absent"))
  BY <1>1, <1>2, <1>3, Zenon DEF SettingsStores
<1>5. settingsStore' = state /\ settingsFile' = settingsFile /\ settingsPanel' = settingsPanel
      /\ settingsWire' = [settingsWire EXCEPT !.toPage = @ \o <<EventOf(state)>> \o AnswerTo(Operation.type, TRUE, state)]
      /\ settingsUsed' = [settingsUsed EXCEPT !.foreign = IF readable THEN FALSE ELSE @]
  BY DEF EndReload, state
<1>6. Informs(settingsWire.toPage, settingsWire.toPage \o <<EventOf(state)>> \o AnswerTo(Operation.type, TRUE, state), state.values)
  BY <1>1, <1>4, AtHand, Answers, WireIs, Zenon
<1>7. ToPageOnly /\ Informs(settingsWire.toPage, settingsWire'.toPage, settingsStore'.values)
  BY <1>5, <1>6, WireIs, Zenon DEF Informs, Follows, ToPageOnly
<1>8. settingsUsed' \in SettingsUses /\ settingsUsed'.foreign = (IF readable THEN FALSE ELSE settingsUsed.foreign)
      /\ settingsUsed'.spoiled = settingsUsed.spoiled
  BY <1>5, Zenon DEF SettingsShape, SettingsUses
<1>9. SettingsShape'
  BY <1>4, <1>5, <1>7, <1>8 DEF SettingsShape, ToPageOnly
<1>. QED
  BY <1>4, <1>5, <1>7, <1>8, <1>9, Zenon

LEMMA Refuses ==
  ASSUME SettingsShape, RefuseWrite
  PROVE  /\ SettingsShape' /\ ToPageOnly /\ Follows(settingsWire.toPage, settingsWire'.toPage, settingsStore.values)
         /\ settingsStore'.stage = "idle" /\ settingsStore.stage = "idle"
         /\ settingsStore.queue # <<>> /\ settingsStore'.queue = Tail(settingsStore.queue)
         /\ settingsStore'.zooms = settingsStore.zooms /\ settingsStore'.values = settingsStore.values
         /\ settingsStore'.firstRun = settingsStore.firstRun /\ settingsStore'.error = settingsStore.error
         /\ UNCHANGED <<settingsFile, settingsPanel, settingsUsed>>
<1>1. settingsStore.queue # <<>> /\ settingsStore.stage = "idle" /\ settingsStore \in SettingsStores
  BY DEF RefuseWrite, SettingsShape, Working
<1>. DEFINE state == [settingsStore EXCEPT !.queue = Tail(@)]
<1>2. /\ state \in SettingsStores /\ state.stage = "idle" /\ state.queue = Tail(settingsStore.queue)
      /\ state.zooms = settingsStore.zooms /\ state.values = settingsStore.values
      /\ state.firstRun = settingsStore.firstRun /\ state.error = settingsStore.error
  BY <1>1, AtHand, Zenon DEF SettingsStores
<1>3. settingsStore' = state /\ UNCHANGED <<settingsFile, settingsPanel, settingsUsed>>
      /\ settingsWire' = [settingsWire EXCEPT !.toPage = @ \o AnswerTo(Operation.type, FALSE, state)]
  BY DEF RefuseWrite
<1>. HIDE DEF state
<1>4. Follows(settingsWire.toPage, settingsWire.toPage \o AnswerTo(Operation.type, FALSE, state), state.values)
  BY <1>1, <1>2, AtHand, Answers, WireIs, Zenon
<1>5. ToPageOnly /\ Follows(settingsWire.toPage, settingsWire'.toPage, settingsStore.values)
  BY <1>2, <1>3, <1>4, WireIs, Zenon DEF Follows, ToPageOnly
<1>6. SettingsShape'
  BY <1>2, <1>3, <1>5 DEF SettingsShape, ToPageOnly
<1>. QED
  BY <1>1, <1>2, <1>3, <1>5, <1>6, Zenon

LEMMA Writes ==
  ASSUME SettingsShape, NEW ok \in BOOLEAN, EndWrite(ok)
  PROVE  /\ SettingsShape' /\ ToPageOnly /\ Follows(settingsWire.toPage, settingsWire'.toPage, settingsStore'.values)
         /\ ok => Informs(settingsWire.toPage, settingsWire'.toPage, settingsStore'.values)
         /\ settingsStore'.stage = "idle" /\ settingsStore.stage = "writing"
         /\ settingsStore.queue # <<>> /\ settingsStore'.queue = Tail(settingsStore.queue)
         /\ settingsStore'.zooms = settingsStore.zooms /\ settingsStore'.error = settingsStore.error
         /\ settingsPanel' = settingsPanel
         /\ ok => settingsStore'.values = settingsStore.target /\ settingsFile'.kind = "sound"
                  /\ settingsFile'.values = settingsStore.target
         /\ ~ok => settingsStore'.values = settingsStore.values /\ settingsStore'.firstRun = settingsStore.firstRun
                   /\ settingsFile' = settingsFile /\ settingsUsed'.foreign = settingsUsed.foreign
         /\ settingsUsed'.spoiled => settingsUsed.spoiled \/ (/\ ~settingsUsed.foreign
               /\ \/ settingsFile.kind = "broken"
                  \/ \E key \in Operation.leaves : settingsStore.target[key] # settingsStore.values[key])
<1>1. /\ settingsStore.stage = "writing" /\ settingsStore.queue # <<>> /\ settingsStore \in SettingsStores
      /\ settingsFile \in SettingsFiles /\ settingsStore.target \in SettingRecords
  BY DEF EndWrite, SettingsShape, SettingsStores
<1>. DEFINE target == settingsStore.target
            kept == [settingsStore EXCEPT !.stage = "idle", !.target = NoSettings, !.queue = Tail(@)]
            stored == [kept EXCEPT !.values = target, !.firstRun = FALSE]
<1>2. /\ kept \in SettingsStores /\ kept.stage = "idle" /\ kept.queue = Tail(settingsStore.queue)
      /\ kept.zooms = settingsStore.zooms /\ kept.values = settingsStore.values
      /\ kept.firstRun = settingsStore.firstRun /\ kept.error = settingsStore.error
  BY <1>1, AtHand, SettingValues, Zenon DEF SettingsStores
<1>. HIDE DEF kept
<1>3. /\ stored \in SettingsStores /\ stored.stage = "idle" /\ stored.queue = kept.queue
      /\ stored.zooms = kept.zooms /\ stored.values = target /\ stored.error = kept.error
  BY <1>1, <1>2, Zenon DEF SettingsStores
<1>4. /\ settingsFile' = IF ok THEN [kind |-> "sound", values |-> target] ELSE settingsFile
      /\ settingsStore' = IF ok THEN stored ELSE kept
      /\ settingsPanel' = settingsPanel
      /\ settingsWire' = [settingsWire EXCEPT !.toPage =
               @ \o (IF ok THEN <<EventOf(stored)>> ELSE <<>>) \o AnswerTo(Operation.type, ok, IF ok THEN stored ELSE kept)]
  BY DEF EndWrite, kept
<1>. HIDE DEF stored
<1>5. /\ Informs(settingsWire.toPage, settingsWire.toPage \o <<EventOf(stored)>> \o AnswerTo(Operation.type, ok, stored), stored.values)
      /\ Follows(settingsWire.toPage, settingsWire.toPage \o AnswerTo(Operation.type, ok, kept), kept.values)
  BY <1>1, <1>2, <1>3, AtHand, Answers, WireIs, Zenon
<1>6. ToPageOnly /\ Follows(settingsWire.toPage, settingsWire'.toPage, settingsStore'.values)
      /\ (ok => Informs(settingsWire.toPage, settingsWire'.toPage, settingsStore'.values))
  <2>1. CASE ok
    <3>1. settingsWire' = [settingsWire EXCEPT !.toPage =
               settingsWire.toPage \o <<EventOf(stored)>> \o AnswerTo(Operation.type, ok, stored)]
      BY <1>4, <2>1
    <3>. DEFINE r == settingsWire.toPage \o <<EventOf(stored)>> \o AnswerTo(Operation.type, ok, stored)
    <3>2. Informs(settingsWire.toPage, r, stored.values) /\ settingsWire' = [settingsWire EXCEPT !.toPage = r]
      BY <1>5, <3>1
    <3>3. settingsStore' = stored
      BY <1>4, <2>1
    <3>. HIDE DEF r
    <3>4. r \in Seq(PageMessages)
      BY <3>2 DEF Informs, Follows
    <3>5. ToPageOnly /\ settingsWire'.toPage = r
      BY <3>2, <3>4, WireIs DEF ToPageOnly
    <3>. QED
      BY <2>1, <3>2, <3>3, <3>5 DEF Informs
  <2>2. CASE ~ok
    <3>1. settingsWire.toPage \o <<>> = settingsWire.toPage
      BY WireIs
    <3>2. settingsWire' = [settingsWire EXCEPT !.toPage = settingsWire.toPage \o AnswerTo(Operation.type, ok, kept)]
      BY <1>4, <2>2, <3>1
    <3>. DEFINE r == settingsWire.toPage \o AnswerTo(Operation.type, ok, kept)
    <3>3. Follows(settingsWire.toPage, r, kept.values) /\ settingsWire' = [settingsWire EXCEPT !.toPage = r]
      BY <1>5, <3>2
    <3>4. settingsStore' = kept
      BY <1>4, <2>2
    <3>. HIDE DEF r
    <3>5. r \in Seq(PageMessages)
      BY <3>3 DEF Follows
    <3>6. ToPageOnly /\ settingsWire'.toPage = r
      BY <3>3, <3>5, WireIs DEF ToPageOnly
    <3>. QED
      BY <2>2, <3>3, <3>4, <3>6
  <2>. QED
    BY <2>1, <2>2
<1>. DEFINE wrong == /\ ok /\ ~settingsUsed.foreign
                     /\ \/ settingsFile.kind = "broken"
                        \/ \E key \in Operation.leaves : target[key] # settingsStore.values[key]
<1>7. settingsUsed' = [settingsUsed EXCEPT !.foreign = IF ok THEN FALSE ELSE @, !.spoiled = @ \/ wrong]
  BY DEF EndWrite
<1>8. wrong \in BOOLEAN
  OBVIOUS
<1>9. wrong => /\ ~settingsUsed.foreign
               /\ \/ settingsFile.kind = "broken"
                  \/ \E key \in Operation.leaves : settingsStore.target[key] # settingsStore.values[key]
  OBVIOUS
<1>. HIDE DEF wrong
<1>10. settingsUsed.spoiled \in BOOLEAN /\ settingsUsed.foreign \in BOOLEAN /\ settingsUsed \in SettingsUses
  BY DEF SettingsShape, SettingsUses
<1>11. (settingsUsed.spoiled \/ wrong) \in BOOLEAN
  BY <1>8, <1>10, Zenon
<1>12. /\ settingsUsed' \in SettingsUses
       /\ settingsUsed'.foreign = (IF ok THEN FALSE ELSE settingsUsed.foreign)
       /\ settingsUsed'.spoiled = (settingsUsed.spoiled \/ wrong)
  BY <1>7, <1>10, <1>11, Zenon DEF SettingsUses
<1>13. settingsUsed'.spoiled => settingsUsed.spoiled \/ wrong
  BY <1>12, Zenon
<1>14. settingsFile' \in SettingsFiles /\ (ok => settingsFile'.kind = "sound" /\ settingsFile'.values = target)
  BY <1>1, <1>4 DEF SettingsFiles
<1>15. SettingsShape'
  BY <1>2, <1>3, <1>4, <1>6, <1>12, <1>14 DEF SettingsShape, ToPageOnly
<1>. QED
  BY <1>1, <1>2, <1>3, <1>4, <1>6, <1>9, <1>12, <1>13, <1>14, <1>15, Zenon

LEMMA Begins ==
  ASSUME SettingsShape, BeginReload \/ BeginWrite
  PROVE  /\ SettingsShape' /\ settingsStore.stage = "idle" /\ settingsStore'.queue = settingsStore.queue
         /\ settingsStore'.zooms = settingsStore.zooms /\ settingsStore.queue # <<>>
         /\ UNCHANGED <<settingsFile, settingsWire, settingsPanel, settingsUsed>>
         /\ \/ settingsStore'.stage = "reading" /\ Operation.op = "reload"
            \/ /\ settingsStore'.stage = "writing" /\ settingsStore'.values = settingsStore.values
               /\ settingsStore'.firstRun = settingsStore.firstRun /\ settingsStore'.error = settingsStore.error
               /\ ~settingsStore.error /\ Operation.op # "reload" /\ settingsStore'.target = TargetOf(Operation)
<1>1. settingsStore.stage = "idle" /\ settingsStore.queue # <<>> /\ settingsStore \in SettingsStores
  BY DEF BeginReload, BeginWrite, Working, SettingsShape
<1>2. CASE BeginReload
  <2>1. settingsStore' = [settingsStore EXCEPT !.values = NoSettings, !.firstRun = FALSE, !.error = FALSE, !.stage = "reading"]
    BY <1>2 DEF BeginReload
  <2>2. /\ settingsStore' \in SettingsStores /\ settingsStore'.stage = "reading"
        /\ settingsStore'.queue = settingsStore.queue /\ settingsStore'.zooms = settingsStore.zooms
    BY <1>1, <2>1, SettingValues, Zenon DEF SettingsStores
  <2>. QED
    BY <1>1, <1>2, <2>2 DEF BeginReload, SettingsShape
<1>3. CASE BeginWrite
  <2>1. settingsStore' = [settingsStore EXCEPT !.stage = "writing", !.target = TargetOf(Operation)]
    BY <1>3 DEF BeginWrite
  <2>2. TargetOf(Operation) \in SettingRecords
    BY <1>1, AtHand, TargetsAre
  <2>3. /\ settingsStore' \in SettingsStores /\ settingsStore'.stage = "writing"
        /\ settingsStore'.queue = settingsStore.queue /\ settingsStore'.zooms = settingsStore.zooms
        /\ settingsStore'.values = settingsStore.values /\ settingsStore'.firstRun = settingsStore.firstRun
        /\ settingsStore'.error = settingsStore.error /\ settingsStore'.target = TargetOf(Operation)
    BY <1>1, <2>1, <2>2, Zenon DEF SettingsStores
  <2>. QED
    BY <1>1, <1>3, <2>3 DEF BeginWrite, SettingsShape
<1>. QED
  BY <1>2, <1>3

\* The operations of the store after one joined.
QueueGets(operation) ==
    /\ operation \in Operations /\ SettingsShape'
    /\ settingsStore'.queue = Append(settingsStore.queue, operation)
    /\ settingsStore'.values = settingsStore.values /\ settingsStore'.stage = settingsStore.stage
    /\ settingsStore'.firstRun = settingsStore.firstRun /\ settingsStore'.error = settingsStore.error
    /\ settingsStore'.target = settingsStore.target

\* All but the zooms that wait.
StoreSame ==
    /\ settingsStore'.values = settingsStore.values /\ settingsStore'.stage = settingsStore.stage
    /\ settingsStore'.firstRun = settingsStore.firstRun /\ settingsStore'.error = settingsStore.error
    /\ settingsStore'.queue = settingsStore.queue /\ settingsStore'.target = settingsStore.target

LEMMA ZoomTurns ==
  ASSUME SettingsShape, ZoomTurn
  PROVE  /\ SettingsShape' /\ UNCHANGED <<settingsFile, settingsWire, settingsPanel, settingsUsed>>
         /\ settingsStore.zooms # <<>>
         /\ \/ StoreSame
            \/ \E operation \in Operations : QueueGets(operation) /\ operation.leaves = {}
<1>1. settingsStore \in SettingsStores /\ settingsStore.zooms # <<>> /\ settingsStore.zooms \in Seq(Zooms)
      /\ settingsStore.queue \in Seq(Operations)
  BY DEF ZoomTurn, SettingsShape, SettingsStores
<1>2. Tail(settingsStore.zooms) \in Seq(Zooms) /\ Head(settingsStore.zooms) \in Zooms
  BY <1>1
<1>. DEFINE op == [op |-> "update", type |-> "zoom", values |-> NoSettings, leaves |-> {},
                   key |-> "zoom", value |-> ZoomTo(Head(settingsStore.zooms))]
            q == IF settingsStore.firstRun \/ settingsStore.error THEN settingsStore.queue ELSE Append(settingsStore.queue, op)
<1>3. op \in Operations /\ op.leaves = {}
  <2>1. ZoomTo(Head(settingsStore.zooms)) \in SettingTexts
    BY <1>2, TargetsAre
  <2>2. {} \in SUBSET SettingKeys
    OBVIOUS
  <2>. QED
    BY <2>1, <2>2, SettingValues DEF Operations
<1>4. settingsStore' = [settingsStore EXCEPT !.zooms = Tail(@), !.queue = q]
      /\ UNCHANGED <<settingsFile, settingsWire, settingsPanel, settingsUsed>>
  BY DEF ZoomTurn
<1>5. q \in Seq(Operations) /\ (q = <<>> => settingsStore.queue = <<>>)
      /\ (q = settingsStore.queue \/ q = Append(settingsStore.queue, op))
  <2>. HIDE DEF op
  <2>. QED
    BY <1>1, <1>3
<1>. HIDE DEF q, op
<1>6. /\ settingsStore' \in SettingsStores /\ settingsStore'.queue = q
      /\ settingsStore'.values = settingsStore.values /\ settingsStore'.stage = settingsStore.stage
      /\ settingsStore'.firstRun = settingsStore.firstRun /\ settingsStore'.error = settingsStore.error
      /\ settingsStore'.target = settingsStore.target
  BY <1>1, <1>2, <1>4, <1>5, Zenon DEF SettingsStores
<1>7. SettingsShape'
  BY <1>4, <1>5, <1>6 DEF SettingsShape
<1>. QED
  BY <1>1, <1>3, <1>4, <1>5, <1>6, <1>7 DEF QueueGets, StoreSame

\* The backend takes a message: what it takes, and that the page may hear of it.
TakesMessage ==
    /\ settingsWire.toHost # <<>> /\ SettingsShape'
    /\ settingsWire'.toHost = Tail(settingsWire.toHost)
    /\ UNCHANGED <<settingsFile, settingsPanel, settingsUsed>>

LEMMA AnswersOne ==
  ASSUME SettingsShape, settingsWire.toHost # <<>>, NEW ok \in BOOLEAN, Answered(ok), Received.type \in MessageTypes
  PROVE  /\ settingsWire' \in SettingsWires /\ settingsWire'.toHost = Tail(settingsWire.toHost)
         /\ settingsWire'.outside = settingsWire.outside
         /\ settingsWire'.toPage = Append(settingsWire.toPage, ReplyTo(Received.type, ok, settingsStore))
<1>. DEFINE m == ReplyTo(Received.type, ok, settingsStore)
            p == Append(settingsWire.toPage, m)
            h == Tail(settingsWire.toHost)
<1>1. m \in PageMessages
  BY StoreMessages DEF SettingsShape, PageMessages
<1>. HIDE DEF m
<1>2. p \in Seq(PageMessages) /\ h \in Seq(HostMessages)
  BY <1>1, WireIs
<1>3. settingsWire' = [settingsWire EXCEPT !.toHost = h, !.toPage = p]
  BY DEF Answered, TakenMessage, m
<1>. HIDE DEF p, h
<1>4. settingsWire' \in SettingsWires /\ settingsWire'.toHost = h /\ settingsWire'.toPage = p
      /\ settingsWire'.outside = settingsWire.outside
  BY <1>2, <1>3, WireIs, Zenon DEF SettingsWires
<1>. QED
  BY <1>4 DEF m, p, h

LEMMA TakesOne ==
  ASSUME SettingsShape, settingsWire.toHost # <<>>
  PROVE  /\ TakenMessage \in SettingsWires /\ TakenMessage.toHost = Tail(settingsWire.toHost)
         /\ TakenMessage.toPage = settingsWire.toPage /\ TakenMessage.outside = settingsWire.outside
         /\ Received \in HostMessages /\ Received = settingsWire.toHost[1]
<1>1. Tail(settingsWire.toHost) \in Seq(HostMessages) /\ Received \in HostMessages /\ Received = settingsWire.toHost[1]
  BY WireIs DEF Received
<1>. QED
  BY <1>1, WireIs, Zenon DEF TakenMessage

LEMMA HostReads ==
  ASSUME SettingsShape, HandleRead
  PROVE  /\ TakesMessage /\ settingsStore' = settingsStore /\ settingsWire'.outside = settingsWire.outside
         /\ Received.type = "read"
         /\ Informs(settingsWire.toPage, settingsWire'.toPage, settingsStore.values)
<1>1. settingsWire.toHost # <<>> /\ Received.type = "read" /\ Answered(TRUE) /\ Received.type \in MessageTypes
      /\ UNCHANGED <<settingsFile, settingsStore, settingsPanel, settingsUsed>>
  BY Zenon DEF HandleRead, MessageTypes
<1>2. /\ settingsWire' \in SettingsWires /\ settingsWire'.toHost = Tail(settingsWire.toHost)
      /\ settingsWire'.outside = settingsWire.outside
      /\ settingsWire'.toPage = Append(settingsWire.toPage, ReplyTo("read", TRUE, settingsStore))
  BY <1>1, AnswersOne, Zenon
<1>3. LET m == ReplyTo("read", TRUE, settingsStore) IN m \in PageMessages /\ IsNews(m) /\ ~IsImport(m) /\ m.values = settingsStore.values
  BY <1>1, StoreMessages, ZenonT(30) DEF SettingsShape, PageMessages, IsNews, IsImport
<1>4. Informs(settingsWire.toPage, settingsWire'.toPage, settingsStore.values)
  BY <1>2, <1>3, TellOne, WireIs, Zenon
<1>. QED
  BY <1>1, <1>2, <1>4, Zenon DEF TakesMessage, SettingsShape

LEMMA HostWrites ==
  ASSUME SettingsShape, HandleWrite
  PROVE  /\ TakesMessage /\ settingsWire'.outside = settingsWire.outside /\ Received.type \in WriteTypes
         /\ settingsStore'.zooms = settingsStore.zooms
         /\ \/ StoreSame /\ Follows(settingsWire.toPage, settingsWire'.toPage, settingsStore.values)
            \/ /\ settingsWire'.toPage = settingsWire.toPage
               /\ \E operation \in Operations :
                    /\ QueueGets(operation) /\ operation.leaves = Received.leaves /\ operation.values = Received.values
                    /\ Received.type = "save" => operation.op = "replace"
<1>1. settingsWire.toHost # <<>> /\ Received.type \in WriteTypes /\ Received.type \in MessageTypes
      /\ Received.type \notin {"importVscode", "zoom"}
      /\ UNCHANGED <<settingsFile, settingsPanel, settingsUsed>>
  BY DEF HandleWrite, WriteTypes, MessageTypes, PanelOperations
<1>2. Received \in HostMessages /\ Received.values \in SettingRecords /\ Received.leaves \in SUBSET SettingKeys
  <2>1. Received \in HostMessages
    BY <1>1, TakesOne
  <2>. QED
    BY <1>1, <2>1 DEF HostMessages
<1>. DEFINE operation == [op |-> IF Received.type = "reload" THEN "reload" ELSE IF Received.type = "setTheme" THEN "update" ELSE "replace",
                          type |-> Received.type, values |-> Received.values, leaves |-> Received.leaves,
                          key |-> "theme", value |-> Received.values.theme]
            refused == Received.type = "useDefaults" /\ (~settingsStore.firstRun \/ settingsStore.error)
<1>3. Received.values.theme \in SettingTexts
  BY <1>2 DEF SettingRecords, SettingKeys
<1>4. operation \in Operations /\ operation.leaves = Received.leaves /\ operation.values = Received.values
      /\ (Received.type = "save" => operation.op = "replace")
  BY <1>1, <1>2, <1>3 DEF Operations
<1>5. CASE refused
  <2>1. Answered(FALSE) /\ UNCHANGED settingsStore
    BY <1>5, Zenon DEF HandleWrite
  <2>2. /\ settingsWire' \in SettingsWires /\ settingsWire'.toHost = Tail(settingsWire.toHost)
        /\ settingsWire'.outside = settingsWire.outside
        /\ settingsWire'.toPage = Append(settingsWire.toPage, ReplyTo(Received.type, FALSE, settingsStore))
    BY <1>1, <2>1, AnswersOne, Zenon
  <2>3. LET m == ReplyTo(Received.type, FALSE, settingsStore) IN m \in PageMessages /\ ~IsImport(m) /\ m.values = settingsStore.values
    BY <1>1, StoreMessages, Zenon DEF SettingsShape, PageMessages, IsImport
  <2>4. Follows(settingsWire.toPage, settingsWire'.toPage, settingsStore.values)
    BY <2>2, <2>3, TellOne, WireIs, Zenon
  <2>. QED
    BY <1>1, <2>1, <2>2, <2>4, Zenon DEF TakesMessage, SettingsShape, StoreSame
<1>6. CASE ~refused
  <2>1. settingsStore' = [settingsStore EXCEPT !.queue = Append(@, operation)] /\ settingsWire' = TakenMessage
    BY <1>6, Zenon DEF HandleWrite, EnqueueOperation
  <2>. HIDE DEF operation
  <2>2. settingsStore \in SettingsStores /\ Append(settingsStore.queue, operation) \in Seq(Operations) /\ Append(settingsStore.queue, operation) # <<>>
    BY <1>4 DEF SettingsShape, SettingsStores
  <2>3. /\ settingsStore' \in SettingsStores /\ settingsStore'.queue = Append(settingsStore.queue, operation)
        /\ settingsStore'.values = settingsStore.values /\ settingsStore'.stage = settingsStore.stage
        /\ settingsStore'.firstRun = settingsStore.firstRun /\ settingsStore'.error = settingsStore.error
        /\ settingsStore'.target = settingsStore.target /\ settingsStore'.zooms = settingsStore.zooms
    BY <2>1, <2>2, Zenon DEF SettingsStores
  <2>4. SettingsShape'
    BY <1>1, <2>1, <2>2, <2>3, TakesOne DEF SettingsShape
  <2>5. QueueGets(operation)
    BY <1>4, <2>3, <2>4 DEF QueueGets
  <2>. QED
    BY <1>1, <1>4, <2>1, <2>3, <2>4, <2>5, TakesOne DEF TakesMessage
<1>. QED
  BY <1>5, <1>6

LEMMA HostZooms ==
  ASSUME SettingsShape, HandleZoom
  PROVE  /\ TakesMessage /\ settingsWire'.outside = settingsWire.outside /\ settingsWire'.toPage = settingsWire.toPage
         /\ Received.type = "zoom" /\ StoreSame
<1>1. settingsWire.toHost # <<>> /\ Received.type = "zoom" /\ settingsWire' = TakenMessage
      /\ UNCHANGED <<settingsFile, settingsPanel, settingsUsed>>
  BY DEF HandleZoom
<1>2. Received.zoom \in Zooms
  BY <1>1, TakesOne DEF HostMessages, MessageTypes, PanelOperations
<1>3. settingsStore' \in SettingsStores /\ StoreSame
  <2>1. settingsStore' = settingsStore \/ settingsStore' = [settingsStore EXCEPT !.zooms = Append(@, Received.zoom)]
    BY DEF HandleZoom
  <2>2. settingsStore \in SettingsStores /\ Append(settingsStore.zooms, Received.zoom) \in Seq(Zooms)
    BY <1>2 DEF SettingsShape, SettingsStores
  <2>. QED
    BY <2>1, <2>2, Zenon DEF SettingsStores, StoreSame
<1>. QED
  BY <1>1, <1>3, TakesOne DEF TakesMessage, SettingsShape, StoreSame

LEMMA HostGoesOut ==
  ASSUME SettingsShape, HandleOutside
  PROVE  /\ TakesMessage /\ settingsStore' = settingsStore /\ Received.type \in {"importVscode", "openFile"}
         /\ \/ settingsWire'.toPage = settingsWire.toPage /\ settingsWire'.outside = Received.type
            \/ /\ settingsWire'.outside = settingsWire.outside
               /\ \E m \in PageMessages : /\ settingsWire'.toPage = Append(settingsWire.toPage, m)
                                          /\ m.kind = "reply" /\ m.type = Received.type /\ ~m.ok
<1>1. settingsWire.toHost # <<>> /\ Received.type \in {"importVscode", "openFile"} /\ Received.type \in MessageTypes
      /\ UNCHANGED <<settingsFile, settingsStore, settingsPanel, settingsUsed>>
  BY DEF HandleOutside, MessageTypes, PanelOperations
<1>2. Answered(FALSE) \/ settingsWire' = [TakenMessage EXCEPT !.outside = Received.type]
  BY Zenon DEF HandleOutside
<1>3. CASE Answered(FALSE)
  <2>1. /\ settingsWire' \in SettingsWires /\ settingsWire'.toHost = Tail(settingsWire.toHost)
        /\ settingsWire'.outside = settingsWire.outside
        /\ settingsWire'.toPage = Append(settingsWire.toPage, ReplyTo(Received.type, FALSE, settingsStore))
    BY <1>1, <1>3, AnswersOne, Zenon
  <2>2. LET m == ReplyTo(Received.type, FALSE, settingsStore) IN
        m \in PageMessages /\ m.kind = "reply" /\ m.type = Received.type /\ ~m.ok
    BY <1>1, StoreMessages, Zenon DEF SettingsShape, PageMessages, PageReplies
  <2>. QED
    BY <1>1, <2>1, <2>2, Zenon DEF TakesMessage, SettingsShape
<1>4. CASE settingsWire' = [TakenMessage EXCEPT !.outside = Received.type]
  <2>1. settingsWire' \in SettingsWires /\ settingsWire'.toHost = Tail(settingsWire.toHost)
        /\ settingsWire'.outside = Received.type /\ settingsWire'.toPage = settingsWire.toPage
    BY <1>1, <1>4, TakesOne DEF SettingsWires
  <2>. QED
    BY <1>1, <2>1 DEF TakesMessage, SettingsShape
<1>. QED
  BY <1>2, <1>3, <1>4, Zenon

\* An answer from outside: an import that worked is no news.
LEMMA ComesBack ==
  ASSUME SettingsShape, EndOutside
  PROVE  /\ SettingsShape' /\ settingsWire'.toHost = settingsWire.toHost /\ settingsWire'.outside = "none"
         /\ UNCHANGED <<settingsFile, settingsStore, settingsPanel, settingsUsed>>
         /\ \E m \in PageMessages : /\ settingsWire'.toPage = Append(settingsWire.toPage, m)
                                    /\ IsNews(m) => m.values = settingsStore.values
                                    /\ IsImport(m) => settingsWire.outside = "importVscode"
<1>1. settingsWire.outside \in {"openFile", "importVscode"} /\ settingsWire.outside \in MessageTypes /\ settingsStore \in SettingsStores
      /\ UNCHANGED <<settingsFile, settingsStore, settingsPanel, settingsUsed>>
  BY Zenon DEF EndOutside, SettingsShape, SettingsWires, MessageTypes, PanelOperations
<1>2. ASSUME NEW m \in PageMessages, settingsWire' = [settingsWire EXCEPT !.outside = "none", !.toPage = Append(@, m)]
      PROVE  /\ SettingsShape' /\ settingsWire'.toHost = settingsWire.toHost /\ settingsWire'.outside = "none"
             /\ settingsWire'.toPage = Append(settingsWire.toPage, m)
  <2>1. Append(settingsWire.toPage, m) \in Seq(PageMessages)
    BY WireIs
  <2>2. settingsWire' \in SettingsWires /\ settingsWire'.toHost = settingsWire.toHost /\ settingsWire'.outside = "none"
        /\ settingsWire'.toPage = Append(settingsWire.toPage, m)
    BY <1>2, <2>1, WireIs, Zenon DEF SettingsWires
  <2>. QED
    BY <1>1, <2>2 DEF SettingsShape
<1>3. \/ settingsWire' = [settingsWire EXCEPT !.outside = "none", !.toPage = Append(@, ReplyTo(settingsWire.outside, FALSE, settingsStore))]
      \/ /\ settingsWire.outside = "openFile"
         /\ settingsWire' = [settingsWire EXCEPT !.outside = "none", !.toPage = Append(@, ReplyTo("openFile", TRUE, settingsStore))]
      \/ /\ settingsWire.outside = "importVscode"
         /\ \E source \in ImportSources :
                settingsWire' = [settingsWire EXCEPT !.outside = "none",
                    !.toPage = Append(@, [ReplyTo("importVscode", TRUE, settingsStore) EXCEPT !.values = ImportedSettings(source)])]
  BY Zenon DEF EndOutside
<1>4. CASE settingsWire' = [settingsWire EXCEPT !.outside = "none", !.toPage = Append(@, ReplyTo(settingsWire.outside, FALSE, settingsStore))]
  <2>. DEFINE m == ReplyTo(settingsWire.outside, FALSE, settingsStore)
  <2>1. m \in PageMessages /\ m.values = settingsStore.values /\ (IsImport(m) => settingsWire.outside = "importVscode")
    BY <1>1, StoreMessages, Zenon DEF PageMessages, IsImport
  <2>. HIDE DEF m
  <2>2. settingsWire' = [settingsWire EXCEPT !.outside = "none", !.toPage = Append(@, m)]
    BY <1>4 DEF m
  <2>. QED
    BY <1>1, <1>2, <2>1, <2>2, Zenon
<1>5. CASE settingsWire' = [settingsWire EXCEPT !.outside = "none", !.toPage = Append(@, ReplyTo("openFile", TRUE, settingsStore))]
  <2>. DEFINE m == ReplyTo("openFile", TRUE, settingsStore)
  <2>1. m \in PageMessages /\ m.values = settingsStore.values /\ ~IsImport(m)
    <3>1. "openFile" \in MessageTypes /\ FALSE \in BOOLEAN /\ TRUE \in BOOLEAN
      BY DEF MessageTypes, PanelOperations
    <3>2. m \in PageReplies /\ m.type = "openFile" /\ m.values = settingsStore.values
      BY <1>1, <3>1, StoreMessages, Zenon
    <3>. HIDE DEF m
    <3>. QED
      BY <3>2 DEF PageMessages, IsImport
  <2>. HIDE DEF m
  <2>2. settingsWire' = [settingsWire EXCEPT !.outside = "none", !.toPage = Append(@, m)]
    BY <1>5 DEF m
  <2>. QED
    BY <1>1, <1>2, <2>1, <2>2, Zenon
<1>6. ASSUME settingsWire.outside = "importVscode", NEW source \in ImportSources,
             settingsWire' = [settingsWire EXCEPT !.outside = "none",
                    !.toPage = Append(@, [ReplyTo("importVscode", TRUE, settingsStore) EXCEPT !.values = ImportedSettings(source)])]
      PROVE  \E m \in PageMessages : /\ settingsWire' = [settingsWire EXCEPT !.outside = "none", !.toPage = Append(@, m)]
                                     /\ ~IsNews(m)
  <2>. DEFINE r == ReplyTo("importVscode", TRUE, settingsStore)
              m == [r EXCEPT !.values = ImportedSettings(source)]
  <2>1. r \in PageReplies /\ r.type = "importVscode" /\ r.kind = "reply"
    <3>1. "importVscode" \in MessageTypes /\ TRUE \in BOOLEAN
      BY DEF MessageTypes, PanelOperations
    <3>2. r \in PageReplies /\ r.type = "importVscode"
      BY <1>1, <3>1, StoreMessages, Zenon
    <3>. HIDE DEF r
    <3>. QED
      BY <3>2 DEF PageReplies
  <2>. HIDE DEF r
  <2>2. m \in PageReplies /\ m.type = "importVscode" /\ m.kind = "reply"
    BY <2>1, ImportedValues DEF PageReplies
  <2>3. m \in PageMessages /\ ~IsNews(m)
    BY <2>2 DEF PageMessages, IsNews
  <2>. QED
    BY <1>6, <2>3, Zenon DEF r
<1>. QED
  BY <1>1, <1>2, <1>3, <1>4, <1>5, <1>6, Zenon

-----------------------------------------------------------------------------
(* What the steps of the page do                                             *)

FactsKept == settingsUsed'.foreign = settingsUsed.foreign /\ settingsUsed'.spoiled = settingsUsed.spoiled

\* A step of the user that stays in the page.
StaysInPage ==
    /\ FormInv' /\ FactsKept
    /\ UNCHANGED <<settingsFile, settingsStore, settingsWire>>
    /\ settingsPanel'.operation = settingsPanel.operation
    /\ settingsPanel'.open => /\ settingsPanel.open /\ settingsPanel'.saved = settingsPanel.saved
                              /\ settingsPanel'.missed = settingsPanel.missed

\* A step of the user that sends a message: a read, a shortcut or the shell's theme, or
\* what a panel asks that asks nothing else.
SendsMessage(m) ==
    /\ FormInv' /\ FactsKept /\ m \in HostMessages
    /\ UNCHANGED <<settingsFile, settingsStore>>
    /\ settingsWire'.toHost = Append(settingsWire.toHost, m)
    /\ settingsWire'.toPage = settingsWire.toPage /\ settingsWire'.outside = settingsWire.outside
    /\ m.type \notin PanelOperations => settingsPanel'.operation = settingsPanel.operation
    /\ m.type \in PanelOperations => settingsPanel.operation = "none" /\ settingsPanel'.operation = m.type
    /\ m.type # "read" => /\ settingsPanel'.open = settingsPanel.open /\ settingsPanel'.saved = settingsPanel.saved
                          /\ settingsPanel'.missed = settingsPanel.missed
    /\ m.type # "zoom" /\ m.leaves # {} =>
         /\ m.type = "save" /\ StoreAtRest /\ settingsPanel.open /\ ~settingsPanel.missed
         /\ \A key \in m.leaves : m.values[key] = settingsPanel.saved[key]

LEMMA UsesCount ==
  ASSUME SettingsShape, NEW field \in {"zooms", "edits", "actions"}, Used(field)
  PROVE  settingsUsed' \in SettingsUses /\ FactsKept
  BY DEF Used, SettingsShape, SettingsUses, FactsKept

LEMMA Sends ==
  ASSUME SettingsShape, NEW m \in HostMessages, settingsWire' = [settingsWire EXCEPT !.toHost = Append(@, m)]
  PROVE  /\ settingsWire' \in SettingsWires /\ settingsWire'.toHost = Append(settingsWire.toHost, m)
         /\ settingsWire'.toPage = settingsWire.toPage /\ settingsWire'.outside = settingsWire.outside
<1>1. Append(settingsWire.toHost, m) \in Seq(HostMessages)
  BY WireIs
<1>. QED
  BY <1>1, WireIs, Zenon

LEMMA ActSends ==
  ASSUME FormInv, NEW panel \in SettingsPanels, Edited(panel), panel.open, settingsPanel.open, settingsPanel.operation = "none",
         panel.saved = settingsPanel.saved, panel.missed = settingsPanel.missed,
         NEW type \in PanelOperations, NEW values \in SettingRecords, NEW leaves \in SUBSET SettingKeys, Act(type, panel, values, leaves),
         leaves # {} => /\ type = "save" /\ StoreAtRest /\ ~settingsPanel.missed
                        /\ \A key \in leaves : values[key] = settingsPanel.saved[key]
  PROVE  \E m \in HostMessages : SendsMessage(m)
<1>. DEFINE m == [type |-> type, values |-> values, leaves |-> leaves]
<1>1. m \in HostMessages /\ m.type = type /\ m.values = values /\ m.leaves = leaves
  BY DEF HostMessages, MessageTypes
<1>2. FormInv'
  BY PanelActs DEF FormInv
<1>3. settingsWire' = [settingsWire EXCEPT !.toHost = Append(@, m)] /\ UNCHANGED <<settingsFile, settingsStore>>
      /\ Used("actions") /\ settingsPanel' = [panel EXCEPT !.operation = type, !.busy = TRUE, !.asking = "none"]
  BY DEF Act, Send
<1>. HIDE DEF m
<1>4. /\ settingsWire'.toHost = Append(settingsWire.toHost, m)
      /\ settingsWire'.toPage = settingsWire.toPage /\ settingsWire'.outside = settingsWire.outside
  BY <1>1, <1>3, Sends DEF FormInv
<1>5. FactsKept
  BY <1>3, UsesCount DEF FormInv
<1>6. settingsPanel'.operation = type /\ settingsPanel'.open = panel.open /\ settingsPanel'.saved = panel.saved
      /\ settingsPanel'.missed = panel.missed
  BY <1>3, Zenon DEF SettingsPanels
<1>7. settingsPanel'.open = settingsPanel.open
  BY <1>6 DEF SettingsPanels, FormInv, SettingsShape
<1>. QED
  BY <1>1, <1>2, <1>3, <1>4, <1>5, <1>6, <1>7, Zenon DEF SendsMessage

LEMMA PerformSends ==
  ASSUME FormInv, NEW panel \in SettingsPanels, Edited(panel), panel.open, settingsPanel.open, settingsPanel.operation = "none",
         panel.saved = settingsPanel.saved, panel.missed = settingsPanel.missed, panel.operation = "none",
         panel.asking = settingsPanel.asking,
         NEW next \in {"close", "reload", "importVscode", "useDefaults"}, Perform(next, panel)
  PROVE  StaysInPage \/ \E m \in HostMessages : SendsMessage(m)
<1>1. CASE next = "close"
  <2>1. FormInv'
    BY PanelPerforms DEF FormInv
  <2>2. settingsPanel' = [UntouchedPanel(panel) EXCEPT !.open = FALSE, !.asking = "none"]
        /\ UNCHANGED <<settingsFile, settingsStore, settingsWire, settingsUsed>>
    BY <1>1 DEF Perform
  <2>. DEFINE u == UntouchedPanel(panel)
  <2>3. u \in SettingsPanels /\ u.operation = "none"
    BY DraftUntouched
  <2>. HIDE DEF u
  <2>4. settingsPanel'.operation = "none" /\ ~settingsPanel'.open
    BY <2>2, <2>3 DEF SettingsPanels, u
  <2>. QED
    BY <2>1, <2>2, <2>4 DEF StaysInPage, FactsKept
<1>2. CASE next # "close"
  <2>1. next \in PanelOperations /\ Act(next, panel, NoSettings, {}) /\ {} \in SUBSET SettingKeys /\ NoSettings \in SettingRecords
    BY <1>2, SettingValues DEF Perform, PanelOperations
  <2>. QED
    BY <2>1, ActSends
<1>. QED
  BY <1>1, <1>2

UserSteps ==
    \/ ShowSettings \/ SwitchTheme \/ ZoomShortcut
    \/ \E field \in FieldTexts : EditField(field[1], field[2])
    \/ SaveSettings \/ OpenSettingsFile \/ \E next \in {"close", "reload", "importVscode", "useDefaults"} : RequestOperation(next)
    \/ ConfirmDiscard \/ CancelDiscard \/ DiscardDraft

LEMMA PanelShows ==
  ASSUME FormInv, ShowSettings
  PROVE  \E m \in HostMessages : SendsMessage(m)
<1>. DEFINE p == settingsPanel
            o == ReplaceDraft(UntouchedPanel(p), p.view.values)
            from == IF p.open THEN p ELSE o
            m == [type |-> "read", values |-> NoSettings, leaves |-> {}]
<1>1. p \in SettingsPanels /\ Edited(p) /\ Modes(p) /\ p.view.values \in SettingRecords
  BY DEF FormInv, SettingsShape, SettingsPanels, SettingsViews
<1>2. o \in SettingsPanels /\ Edited(o) /\ o.operation = p.operation /\ o.asking = p.asking
  BY <1>1, DraftUntouched, DraftReplaced
<1>3. m \in HostMessages /\ m.type = "read" /\ m.leaves = {}
  BY SettingValues DEF HostMessages, MessageTypes
<1>4. settingsPanel' = [from EXCEPT !.open = TRUE, !.busy = TRUE] /\ Used("actions")
      /\ settingsWire' = [settingsWire EXCEPT !.toHost = Append(@, m)] /\ UNCHANGED <<settingsFile, settingsStore>>
  BY DEF ShowSettings, Send
<1>. HIDE DEF o, m
<1>5. from \in SettingsPanels /\ Edited(from) /\ from.operation = p.operation /\ from.asking = p.asking
  BY <1>1, <1>2
<1>. HIDE DEF from
<1>6. settingsPanel' \in SettingsPanels /\ Edited(settingsPanel') /\ settingsPanel'.operation = p.operation
      /\ settingsPanel'.asking = p.asking /\ settingsPanel'.open
  BY <1>4, <1>5, Zenon DEF SettingsPanels, Edited
<1>7. Modes(settingsPanel')
  BY <1>1, <1>6 DEF Modes
<1>8. settingsUsed' \in SettingsUses /\ FactsKept
  BY <1>4, UsesCount DEF FormInv
<1>9. /\ settingsWire' \in SettingsWires /\ settingsWire'.toHost = Append(settingsWire.toHost, m)
      /\ settingsWire'.toPage = settingsWire.toPage /\ settingsWire'.outside = settingsWire.outside
  BY <1>3, <1>4, Sends, Zenon DEF FormInv
<1>10. FormInv'
  BY <1>4, <1>6, <1>7, <1>8, <1>9 DEF FormInv, SettingsShape
<1>11. m.type \notin PanelOperations
  BY <1>3 DEF PanelOperations
<1>. QED
  BY <1>3, <1>4, <1>6, <1>8, <1>9, <1>10, <1>11, Zenon DEF SendsMessage

LEMMA Shortcuts ==
  ASSUME FormInv, SwitchTheme \/ ZoomShortcut
  PROVE  \E m \in HostMessages : SendsMessage(m)
<1>1. settingsPanel \in SettingsPanels /\ SettingsShape /\ Edited(settingsPanel) /\ Modes(settingsPanel)
  BY DEF FormInv, SettingsShape
<1>2. CASE SwitchTheme
  <2>. DEFINE theme == IF settingsPanel.view.values.theme = "light" THEN "dark" ELSE "light"
              m == [type |-> "setTheme", values |-> [NoSettings EXCEPT !.theme = theme], leaves |-> {}]
  <2>1. [NoSettings EXCEPT !.theme = theme] \in SettingRecords
    BY SettingValues, Zenon DEF SettingTexts, SettingKeys
  <2>. HIDE DEF theme
  <2>2. m \in HostMessages /\ m.type = "setTheme" /\ m.leaves = {}
    BY <2>1 DEF HostMessages, MessageTypes
  <2>3. settingsPanel' = [settingsPanel EXCEPT !.busy = TRUE] /\ Used("actions")
        /\ settingsWire' = [settingsWire EXCEPT !.toHost = Append(@, m)] /\ UNCHANGED <<settingsFile, settingsStore>>
    BY <1>2 DEF SwitchTheme, Send, theme
  <2>. HIDE DEF m
  <2>4. settingsPanel' \in SettingsPanels /\ Edited(settingsPanel') /\ Modes(settingsPanel')
        /\ settingsPanel'.operation = settingsPanel.operation /\ settingsPanel'.open = settingsPanel.open
        /\ settingsPanel'.saved = settingsPanel.saved /\ settingsPanel'.missed = settingsPanel.missed
    BY <1>1, <2>3, Zenon DEF SettingsPanels, Edited, Modes
  <2>5. settingsUsed' \in SettingsUses /\ FactsKept
    BY <1>1, <2>3, UsesCount
  <2>6. /\ settingsWire' \in SettingsWires /\ settingsWire'.toHost = Append(settingsWire.toHost, m)
        /\ settingsWire'.toPage = settingsWire.toPage /\ settingsWire'.outside = settingsWire.outside
    BY <1>1, <2>2, <2>3, Sends, Zenon
  <2>7. FormInv'
    BY <1>1, <2>3, <2>4, <2>5, <2>6 DEF FormInv, SettingsShape
  <2>8. m.type \notin PanelOperations
    BY <2>2 DEF PanelOperations
  <2>. QED
    BY <2>2, <2>3, <2>4, <2>5, <2>6, <2>7, <2>8 DEF SendsMessage
<1>3. CASE ZoomShortcut
  <2>1. PICK zoom \in Zooms : settingsWire' = [settingsWire EXCEPT !.toHost = Append(@, [type |-> "zoom", zoom |-> zoom])]
    BY <1>3, Zenon DEF ZoomShortcut, Zooms
  <2>. DEFINE m == [type |-> "zoom", zoom |-> zoom]
  <2>2. m \in HostMessages /\ m.type = "zoom"
    BY DEF HostMessages
  <2>3. settingsPanel' = settingsPanel /\ Used("zooms") /\ UNCHANGED <<settingsFile, settingsStore>>
    BY <1>3 DEF ZoomShortcut
  <2>. HIDE DEF m
  <2>5. settingsUsed' \in SettingsUses /\ FactsKept
    BY <1>1, <2>3, UsesCount
  <2>6. /\ settingsWire' \in SettingsWires /\ settingsWire'.toHost = Append(settingsWire.toHost, m)
        /\ settingsWire'.toPage = settingsWire.toPage /\ settingsWire'.outside = settingsWire.outside
    BY <1>1, <2>1, <2>2, Sends, Zenon DEF m
  <2>7. FormInv'
    BY <1>1, <2>3, <2>5, <2>6 DEF FormInv, SettingsShape
  <2>8. m.type \notin PanelOperations
    BY <2>2 DEF PanelOperations
  <2>. QED
    BY <2>2, <2>3, <2>5, <2>6, <2>7, <2>8 DEF SendsMessage
<1>. QED
  BY <1>2, <1>3

LEMMA Edits ==
  ASSUME FormInv, NEW field \in FieldTexts, EditField(field[1], field[2])
  PROVE  StaysInPage
<1>. DEFINE p == settingsPanel
            key == field[1]
            text == field[2]
            wider == [k \in DOMAIN p.typed \union {key} |-> IF k = key THEN text ELSE p.typed[k]]
            t == StillTyped(wider, p.saved)
            l == IF p.operation = "none" THEN p.late \ {key} ELSE p.late \union {key}
            d == [p.draft EXCEPT ![key] = text]
<1>1. p \in SettingsPanels /\ Edited(p) /\ Modes(p) /\ p.typed \in TypedFields /\ p.draft \in SettingRecords
      /\ p.late \in SUBSET SettingKeys
  BY DEF FormInv, SettingsShape, SettingsPanels
<1>2. key \in SettingKeys /\ text \in SettingTexts
  BY DEF FieldTexts, SettingKeys, SettingTexts, NoZoom, UnfinishedZoom
<1>3. d \in SettingRecords /\ d[key] = text /\ \A k \in SettingKeys \ {key} : d[k] = p.draft[k]
  BY <1>1, <1>2 DEF SettingRecords
<1>4. l \in SUBSET SettingKeys /\ \A k \in SettingKeys \ {key} : k \in l <=> k \in p.late
  BY <1>1, <1>2
<1>5. wider \in TypedFields
  <2>1. DOMAIN p.typed \union {key} \in SUBSET SettingKeys
    BY <1>1, <1>2, TypedAre
  <2>2. wider \in [DOMAIN p.typed \union {key} -> SettingTexts]
    BY <1>1, <1>2, TypedAre
  <2>. QED
    BY <2>1, <2>2, TypedIs
<1>6. /\ DOMAIN wider = DOMAIN p.typed \union {key} /\ wider[key] = text
      /\ \A k \in DOMAIN p.typed \ {key} : wider[k] = p.typed[k]
  OBVIOUS
<1>7. settingsPanel' = [p EXCEPT !.draft = d, !.typed = t, !.late = l]
      /\ UNCHANGED <<settingsFile, settingsStore, settingsWire>> /\ Used("edits")
  <2>1. settingsPanel' = [settingsPanel EXCEPT
           !.draft[key] = text,
           !.typed = StillTyped([k \in DOMAIN @ \union {key} |-> IF k = key THEN text ELSE @[k]], settingsPanel.saved),
           !.late = IF settingsPanel.operation = "none" THEN @ \ {key} ELSE @ \union {key}]
    BY DEF EditField
  <2>2. UNCHANGED <<settingsFile, settingsStore, settingsWire>> /\ Used("edits")
    BY DEF EditField
  <2>. QED
    BY <2>1, <2>2, <1>1 DEF SettingsPanels
<1>. HIDE DEF wider
<1>8. t \in TypedFields /\ \A k \in DOMAIN t : k \in DOMAIN wider /\ t[k] = wider[k] /\ wider[k] # p.saved[k]
  BY <1>5, StillTypedIs
<1>. HIDE DEF t, l, d
<1>9. /\ settingsPanel' \in SettingsPanels /\ settingsPanel'.draft = d /\ settingsPanel'.typed = t /\ settingsPanel'.late = l
      /\ settingsPanel'.saved = p.saved /\ settingsPanel'.missed = p.missed /\ settingsPanel'.open = p.open
      /\ settingsPanel'.operation = p.operation /\ settingsPanel'.asking = p.asking
  BY <1>1, <1>3, <1>4, <1>7, <1>8, Zenon DEF SettingsPanels
<1>10. ASSUME NEW k \in DOMAIN t, k \notin l PROVE d[k] = t[k]
  <2>1. CASE k = key
    BY <1>3, <1>6, <1>8, <2>1
  <2>2. CASE k # key
    <3>1. k \in DOMAIN p.typed /\ t[k] = p.typed[k] /\ k \in SettingKeys
      BY <1>1, <1>6, <1>8, <2>2, TypedAre
    <3>. QED
      BY <1>1, <1>3, <1>4, <1>10, <2>2, <3>1 DEF Edited
  <2>. QED
    BY <2>1, <2>2
<1>11. Edited(settingsPanel') /\ Modes(settingsPanel')
  BY <1>1, <1>8, <1>9, <1>10 DEF Edited, Modes
<1>12. settingsUsed' \in SettingsUses /\ FactsKept
  BY <1>7, UsesCount DEF FormInv
<1>13. FormInv'
  BY <1>7, <1>9, <1>11, <1>12 DEF FormInv, SettingsShape
<1>14. settingsPanel'.open => p.open
  BY <1>9
<1>. QED
  BY <1>7, <1>9, <1>12, <1>13, <1>14 DEF StaysInPage

LEMMA UserGoes ==
  ASSUME FormInv, UserSteps
  PROVE  StaysInPage \/ \E m \in HostMessages : SendsMessage(m)
<1>. DEFINE p == settingsPanel
<1>1. p \in SettingsPanels /\ Edited(p) /\ Modes(p) /\ p.draft \in SettingRecords
  BY DEF FormInv, SettingsShape, SettingsPanels
<1>2. CASE SaveSettings
  <2>. DEFINE changed == ChangedSettingKeys(p.saved, p.draft)
              leaves == IF StoreAtRest /\ ~p.missed THEN SettingKeys \ changed ELSE {}
  <2>1. Act("save", p, p.draft, leaves) /\ p.open /\ p.operation = "none"
    BY <1>2 DEF SaveSettings, PanelIdle
  <2>2. leaves \in SUBSET SettingKeys
    BY DEF ChangedSettingKeys
  <2>3. leaves # {} => StoreAtRest /\ ~p.missed /\ \A key \in leaves : p.draft[key] = p.saved[key]
    BY DEF ChangedSettingKeys
  <2>4. "save" \in PanelOperations
    BY DEF PanelOperations
  <2>. HIDE DEF leaves
  <2>. QED
    BY <1>1, <2>1, <2>2, <2>3, <2>4, ActSends
<1>3. CASE OpenSettingsFile
  <2>1. Act("openFile", p, NoSettings, {}) /\ p.open /\ p.operation = "none" /\ "openFile" \in PanelOperations
        /\ {} \in SUBSET SettingKeys /\ NoSettings \in SettingRecords
    BY <1>3, SettingValues DEF OpenSettingsFile, PanelIdle, PanelOperations
  <2>. QED
    BY <1>1, <2>1, ActSends
<1>4. ASSUME NEW next \in {"close", "reload", "importVscode", "useDefaults"}, RequestOperation(next)
      PROVE  StaysInPage \/ \E m \in HostMessages : SendsMessage(m)
  <2>1. p.open /\ p.operation = "none"
    BY <1>4 DEF RequestOperation, PanelIdle
  <2>2. CASE HasChanges(p)
    <3>1. settingsPanel' = [p EXCEPT !.asking = next] /\ UNCHANGED <<settingsFile, settingsStore, settingsWire, settingsUsed>>
      BY <1>4, <2>2 DEF RequestOperation
    <3>2. settingsPanel' \in SettingsPanels /\ Edited(settingsPanel') /\ Modes(settingsPanel') /\ settingsPanel'.operation = p.operation
          /\ settingsPanel'.open = p.open /\ settingsPanel'.saved = p.saved /\ settingsPanel'.missed = p.missed
      BY <1>1, <2>1, <3>1, Zenon DEF SettingsPanels, Edited, Modes
    <3>. QED
      BY <2>1, <3>1, <3>2 DEF StaysInPage, FormInv, SettingsShape, FactsKept
  <2>3. CASE ~HasChanges(p)
    <3>1. Perform(next, p)
      BY <1>4, <2>3 DEF RequestOperation
    <3>. QED
      BY <1>1, <2>1, <3>1, PerformSends
  <2>. QED
    BY <2>2, <2>3
<1>5. CASE ConfirmDiscard
  <2>. DEFINE c == DiscardChanges(p)
  <2>1. p.open /\ p.asking # "none" /\ p.operation = "none" /\ p.asking \in {"close", "reload", "importVscode", "useDefaults"}
    BY <1>1, <1>5 DEF ConfirmDiscard, Modes, SettingsPanels
  <2>2. /\ c \in SettingsPanels /\ Edited(c) /\ c.open = p.open /\ c.operation = p.operation /\ c.asking = p.asking
        /\ c.saved = p.saved /\ c.missed = p.missed
    BY <1>1, DraftDiscarded
  <2>3. \/ settingsPanel' = [c EXCEPT !.asking = "none"] /\ UNCHANGED <<settingsFile, settingsStore, settingsWire, settingsUsed>>
        \/ Perform(p.asking, c)
    BY <1>5 DEF ConfirmDiscard
  <2>. HIDE DEF c
  <2>4. CASE settingsPanel' = [c EXCEPT !.asking = "none"] /\ UNCHANGED <<settingsFile, settingsStore, settingsWire, settingsUsed>>
    <3>1. settingsPanel' \in SettingsPanels /\ Edited(settingsPanel') /\ Modes(settingsPanel') /\ settingsPanel'.operation = p.operation
          /\ settingsPanel'.open = p.open /\ settingsPanel'.saved = p.saved /\ settingsPanel'.missed = p.missed
      BY <2>1, <2>2, <2>4, Zenon DEF SettingsPanels, Edited, Modes
    <3>. QED
      BY <1>1, <2>1, <2>4, <3>1 DEF StaysInPage, FormInv, SettingsShape, FactsKept
  <2>5. CASE Perform(p.asking, c)
    BY <2>1, <2>2, <2>5, PerformSends, Zenon
  <2>. QED
    BY <2>3, <2>4, <2>5
<1>6. CASE CancelDiscard
  <2>1. settingsPanel' = [p EXCEPT !.asking = "none"] /\ UNCHANGED <<settingsFile, settingsStore, settingsWire, settingsUsed>>
    BY <1>6 DEF CancelDiscard
  <2>2. settingsPanel' \in SettingsPanels /\ Edited(settingsPanel') /\ Modes(settingsPanel') /\ settingsPanel'.operation = p.operation
        /\ settingsPanel'.open = p.open /\ settingsPanel'.saved = p.saved /\ settingsPanel'.missed = p.missed
    BY <1>1, <2>1 DEF SettingsPanels, Edited, Modes
  <2>3. settingsPanel'.open => p.open
    BY <2>2
  <2>. QED
    BY <1>1, <2>1, <2>2, <2>3 DEF StaysInPage, FormInv, SettingsShape, FactsKept
<1>7. CASE DiscardDraft
  <2>1. settingsPanel' = DiscardChanges(p) /\ UNCHANGED <<settingsFile, settingsStore, settingsWire, settingsUsed>>
    BY <1>7 DEF DiscardDraft
  <2>2. settingsPanel' \in SettingsPanels /\ Edited(settingsPanel') /\ Modes(settingsPanel') /\ settingsPanel'.operation = p.operation
        /\ settingsPanel'.open = p.open /\ settingsPanel'.saved = p.saved /\ settingsPanel'.missed = p.missed
    BY <1>1, <2>1, DraftDiscarded DEF Modes
  <2>3. settingsPanel'.open => p.open
    BY <2>2
  <2>. QED
    BY <1>1, <2>1, <2>2, <2>3 DEF StaysInPage, FormInv, SettingsShape, FactsKept
<1>. QED
  BY <1>2, <1>3, <1>4, <1>5, <1>6, <1>7, PanelShows, Shortcuts, Edits DEF UserSteps

\* The page takes a message and makes of it what the lemmas above say.
LEMMA PageTakes ==
  ASSUME FormInv, ReceiveView \/ ReceiveReply
  PROVE  LET m == Head(settingsWire.toPage) IN
         /\ settingsWire.toPage # <<>> /\ FormInv'
         /\ UNCHANGED <<settingsFile, settingsStore, settingsUsed>>
         /\ settingsWire'.toPage = Tail(settingsWire.toPage)
         /\ settingsWire'.toHost = settingsWire.toHost /\ settingsWire'.outside = settingsWire.outside
         /\ settingsPanel'.operation = IF m.kind = "reply" /\ m.type = settingsPanel.operation THEN "none" ELSE settingsPanel.operation
         /\ settingsPanel'.open => settingsPanel.open
         /\ IsNews(m) /\ settingsPanel'.open /\ ~settingsPanel'.missed => settingsPanel'.saved = m.values
         /\ ~IsNews(m) /\ (IsImport(m) => settingsPanel.operation = "importVscode")
              => settingsPanel'.saved = settingsPanel.saved /\ settingsPanel'.missed = settingsPanel.missed
<1>. DEFINE p == settingsPanel
            m == Head(settingsWire.toPage)
<1>1. p \in SettingsPanels /\ Edited(p) /\ Modes(p) /\ p.operation \in PanelOperations \cup {"none"}
  BY DEF FormInv, SettingsShape, SettingsPanels
<1>2. settingsWire.toPage # <<>> /\ ToPage = m /\ UNCHANGED <<settingsFile, settingsStore, settingsUsed>>
      /\ settingsWire' = [settingsWire EXCEPT !.toPage = Tail(@)]
  BY DEF ReceiveView, ReceiveReply, ToPage
<1>3. m \in PageMessages /\ Tail(settingsWire.toPage) \in Seq(PageMessages)
  BY <1>2, WireIs DEF FormInv
<1>4. /\ settingsWire' \in SettingsWires /\ settingsWire'.toPage = Tail(settingsWire.toPage)
      /\ settingsWire'.toHost = settingsWire.toHost /\ settingsWire'.outside = settingsWire.outside
  BY <1>2, <1>3, WireIs, Zenon DEF FormInv
<1>. HIDE DEF m
<1>5. CASE ReceiveView
  <2>1. m \in PageEvents /\ settingsPanel' = AdoptView(p, ViewOf(m))
    BY <1>2, <1>3, <1>5 DEF ReceiveView, PageMessages, PageReplies
  <2>2. ViewOf(m) \in SettingsViews /\ ViewOf(m).values = m.values /\ m.kind = "event"
    BY <2>1 DEF PageEvents, ViewOf, SettingsViews
  <2>3. /\ settingsPanel' \in SettingsPanels /\ Edited(settingsPanel') /\ settingsPanel'.open = p.open
        /\ settingsPanel'.operation = p.operation /\ settingsPanel'.asking = p.asking
        /\ p.open /\ ~settingsPanel'.missed => settingsPanel'.saved = m.values
    BY <1>1, <2>1, <2>2, ViewAdopted
  <2>4. FormInv'
    BY <1>1, <1>2, <1>4, <2>3 DEF FormInv, SettingsShape, Modes
  <2>. QED
    BY <1>2, <1>4, <2>2, <2>3, <2>4 DEF IsNews, m
<1>6. CASE ReceiveReply
  <2>1. m \in PageReplies /\ m.kind = "reply" /\ m.ok \in BOOLEAN
    BY <1>2, <1>3, <1>6 DEF ReceiveReply, PageMessages, PageEvents, PageReplies
  <2>2. settingsPanel' = AfterReply(p, m)
    BY <1>2, <1>6 DEF ReceiveReply, AfterReply
  <2>3. /\ settingsPanel' \in SettingsPanels /\ Edited(settingsPanel') /\ Modes(settingsPanel')
        /\ settingsPanel'.operation = IF m.type = p.operation THEN "none" ELSE p.operation
        /\ settingsPanel'.open => p.open
        /\ ~m.ok => settingsPanel'.saved = p.saved /\ settingsPanel'.missed = p.missed
        /\ m.ok /\ m.type = "importVscode" /\ p.operation = "importVscode"
             => settingsPanel'.saved = p.saved /\ settingsPanel'.missed = p.missed
        /\ m.ok /\ m.type # "importVscode" /\ settingsPanel'.open /\ ~settingsPanel'.missed
             => settingsPanel'.saved = m.values
    BY <1>1, <2>1, <2>2, ReplyTaken
  <2>4. FormInv'
    BY <1>1, <1>2, <1>4, <2>3 DEF FormInv, SettingsShape
  <2>. QED
    BY <1>2, <1>4, <2>1, <2>3, <2>4 DEF IsNews, IsImport, m
<1>. QED
  BY <1>5, <1>6

-----------------------------------------------------------------------------
(* The invariants                                                            *)

\* An import is somewhere once, and the panel waits for it.
ImportInv ==
    /\ AskedOnce(settingsWire.toHost) /\ ToldOnce(settingsWire.toPage)
    /\ Asks(settingsWire.toHost, "importVscode") => settingsPanel.operation = "importVscode" /\ ~ImportTold(settingsWire.toPage)
    /\ ImportTold(settingsWire.toPage) => settingsPanel.operation = "importVscode"
    /\ settingsWire.outside = "importVscode" =>
         /\ settingsPanel.operation = "importVscode"
         /\ ~Asks(settingsWire.toHost, "importVscode") /\ ~ImportTold(settingsWire.toPage)

\* The last news on its way are the store's values; with none on its way, and no read asked
\* for, the panel has them.
NewsInv == settingsStore.stage # "reading" =>
    /\ Latest(settingsWire.toPage, settingsStore.values)
    /\ settingsPanel.open /\ ~settingsPanel.missed /\ ~HasNews(settingsWire.toPage) /\ ~Asks(settingsWire.toHost, "read")
         => settingsPanel.saved = settingsStore.values

\* The store holds what the file holds, unless another program wrote it.
FileInv ==
    /\ settingsStore.stage # "reading" /\ ~settingsStore.error /\ ~settingsUsed.foreign =>
         \/ settingsStore.firstRun /\ settingsFile.kind = "absent"
         \/ settingsFile.kind = "sound" /\ settingsFile.values = settingsStore.values
    /\ settingsStore.stage = "writing" => ~settingsStore.error

\* A Save that was sent with nothing on its way is the first thing the store comes to.
SaveInv ==
    /\ \A i \in DOMAIN settingsWire.toHost :
         settingsWire.toHost[i].type # "zoom" /\ settingsWire.toHost[i].leaves # {} =>
            /\ i = 1 /\ settingsStore.queue = <<>> /\ settingsStore.zooms = <<>> /\ settingsWire.toHost[i].type = "save"
            /\ \A key \in settingsWire.toHost[i].leaves : settingsWire.toHost[i].values[key] = settingsStore.values[key]
    /\ \A i \in DOMAIN settingsStore.queue : settingsStore.queue[i].leaves # {} =>
            /\ i = 1 /\ settingsStore.queue[i].op = "replace"
            /\ \A key \in settingsStore.queue[i].leaves : settingsStore.queue[i].values[key] = settingsStore.values[key]
    /\ settingsStore.stage = "writing" => settingsStore.target = TargetOf(settingsStore.queue[1])
    /\ settingsStore.stage = "reading" => settingsStore.queue[1].op = "reload"
    /\ ~settingsUsed.spoiled

SettingsInv == FormInv /\ ImportInv /\ NewsInv /\ FileInv /\ SaveInv

\* Another program's change.
FileChanges == /\ FormInv' /\ UNCHANGED <<settingsStore, settingsWire, settingsPanel>>
           /\ settingsUsed'.foreign /\ settingsUsed'.spoiled = settingsUsed.spoiled

LEMMA ForeignWrites ==
  ASSUME FormInv, ForeignEdit
  PROVE  FileChanges
<1>1. settingsFile' \in SettingsFiles
  <2>1. PICK file \in {[kind |-> "broken", values |-> NoSettings], [kind |-> "sound", values |-> [NoSettings EXCEPT !.zoom = 3]]} :
          settingsFile' = file
    BY DEF ForeignEdit
  <2>2. [NoSettings EXCEPT !.zoom = 3] \in SettingRecords /\ NoSettings \in SettingRecords
    BY SettingValues, Zenon DEF SettingTexts, SettingKeys
  <2>. QED
    BY <2>1, <2>2 DEF SettingsFiles
<1>2. settingsUsed' \in SettingsUses /\ settingsUsed'.foreign /\ settingsUsed'.spoiled = settingsUsed.spoiled
  <2>1. settingsUsed' = [settingsUsed EXCEPT !.changes = @ + 1, !.foreign = TRUE]
    BY DEF ForeignEdit
  <2>2. settingsUsed \in SettingsUses
    BY DEF FormInv, SettingsShape
  <2>3. settingsUsed' \in SettingsUses
    <3>1. \A u \in SettingsUses, n \in Nat, b \in BOOLEAN : [u EXCEPT !.changes = n, !.foreign = b] \in SettingsUses
      BY Zenon DEF SettingsUses
    <3>2. settingsUsed.changes + 1 \in Nat /\ TRUE \in BOOLEAN
      BY <2>2 DEF SettingsUses
    <3>3. settingsUsed' = [settingsUsed EXCEPT !.changes = settingsUsed.changes + 1, !.foreign = TRUE]
      BY <2>1
    <3>. QED
      BY <2>2, <3>1, <3>2, <3>3, Zenon
  <2>4. settingsUsed'.foreign = TRUE /\ settingsUsed'.spoiled = settingsUsed.spoiled
    BY <2>1, <2>2 DEF SettingsUses
  <2>. QED
    BY <2>3, <2>4
<1>. QED
  BY <1>1, <1>2 DEF ForeignEdit, FileChanges, FormInv, SettingsShape

\* The steps, by what they do.
StoreKinds == BeginReload \/ BeginWrite \/ (\E readable \in BOOLEAN : EndReload(readable)) \/ RefuseWrite
              \/ (\E ok \in BOOLEAN : EndWrite(ok)) \/ ZoomTurn
HostKinds == HandleRead \/ HandleWrite \/ HandleOutside \/ EndOutside \/ HandleZoom
PageKinds == ReceiveView \/ ReceiveReply \/ StaysInPage \/ (\E m \in HostMessages : SendsMessage(m)) \/ FileChanges

LEMMA StepKinds ==
  ASSUME FormInv, SettingsSteps
  PROVE  StoreKinds \/ HostKinds \/ PageKinds
<1>1. ASSUME UserSteps PROVE PageKinds
  BY <1>1, UserGoes DEF PageKinds
<1>2. ASSUME ForeignEdit PROVE PageKinds
  BY <1>2, ForeignWrites DEF PageKinds
<1>. QED
  BY <1>1, <1>2 DEF SettingsSteps, UserSteps, StoreKinds, HostKinds, PageKinds

LEMMA FormKept ==
  ASSUME FormInv, SettingsSteps
  PROVE  FormInv'
<1>1. SettingsShape /\ Edited(settingsPanel) /\ Modes(settingsPanel)
  BY DEF FormInv
<1>2. ASSUME SettingsShape', settingsPanel' = settingsPanel PROVE FormInv'
  BY <1>1, <1>2 DEF FormInv
<1>3. CASE StoreKinds
  <2>1. SettingsShape' /\ settingsPanel' = settingsPanel
    BY <1>1, <1>3, Begins, Reloads, Refuses, Writes, ZoomTurns, Zenon DEF StoreKinds
  <2>. QED
    BY <1>2, <2>1
<1>4. CASE HostKinds
  <2>1. SettingsShape' /\ settingsPanel' = settingsPanel
    BY <1>1, <1>4, HostReads, HostWrites, HostGoesOut, ComesBack, HostZooms DEF HostKinds, TakesMessage
  <2>. QED
    BY <1>2, <2>1
<1>5. CASE PageKinds
  BY <1>5, PageTakes DEF PageKinds, StaysInPage, SendsMessage, FileChanges
<1>. QED
  BY <1>3, <1>4, <1>5, StepKinds

LEMMA ImportKept ==
  ASSUME FormInv, ImportInv, SettingsSteps
  PROVE  ImportInv'
<1>0. SettingsShape /\ settingsWire.toHost \in Seq(HostMessages) /\ settingsWire.toPage \in Seq(PageMessages)
  BY WireIs DEF FormInv
\* Nothing but the page's queue grew, by no import.
<1>1. ASSUME settingsPanel'.operation = settingsPanel.operation, settingsWire'.outside = settingsWire.outside,
             ToldOnce(settingsWire.toPage) => ToldOnce(settingsWire'.toPage),
             ImportTold(settingsWire'.toPage) => ImportTold(settingsWire.toPage),
             AskedOnce(settingsWire.toHost) => AskedOnce(settingsWire'.toHost),
             Asks(settingsWire'.toHost, "importVscode") => Asks(settingsWire.toHost, "importVscode")
      PROVE  ImportInv'
  BY <1>1 DEF ImportInv
<1>2. CASE StoreKinds
  <2>1. UNCHANGED <<settingsWire, settingsPanel>> \/
        (ToPageOnly /\ settingsPanel' = settingsPanel /\ \E v : Follows(settingsWire.toPage, settingsWire'.toPage, v))
    BY <1>0, <1>2, Begins, Reloads, Refuses, Writes, ZoomTurns, Zenon DEF StoreKinds, Informs
  <2>. QED
    BY <1>1, <2>1 DEF Follows, ToPageOnly
<1>3. CASE HandleRead \/ HandleWrite \/ HandleZoom
  <2>1. /\ TakesMessage /\ settingsWire'.outside = settingsWire.outside
        /\ settingsWire'.toPage = settingsWire.toPage \/ \E v : Follows(settingsWire.toPage, settingsWire'.toPage, v)
    BY <1>0, <1>3, HostReads, HostWrites, HostZooms DEF Informs
  <2>2. /\ AskedOnce(settingsWire.toHost) => AskedOnce(settingsWire'.toHost)
        /\ Asks(settingsWire'.toHost, "importVscode") => Asks(settingsWire.toHost, "importVscode")
    BY <1>0, <2>1, HostTakes DEF TakesMessage
  <2>. QED
    BY <1>1, <2>1, <2>2 DEF Follows, TakesMessage
<1>4. CASE HandleOutside
  <2>1. /\ TakesMessage /\ settingsPanel' = settingsPanel /\ Received.type \in {"importVscode", "openFile"}
        /\ \/ settingsWire'.toPage = settingsWire.toPage /\ settingsWire'.outside = Received.type
           \/ /\ settingsWire'.outside = settingsWire.outside
              /\ \E m \in PageMessages : /\ settingsWire'.toPage = Append(settingsWire.toPage, m)
                                         /\ m.kind = "reply" /\ m.type = Received.type /\ ~m.ok
    BY <1>0, <1>4, HostGoesOut DEF TakesMessage
  <2>2. /\ AskedOnce(settingsWire'.toHost)
        /\ Asks(settingsWire'.toHost, "importVscode") => Asks(settingsWire.toHost, "importVscode")
        /\ Received.type = "importVscode" => Asks(settingsWire.toHost, "importVscode") /\ ~Asks(settingsWire'.toHost, "importVscode")
    BY <1>0, <2>1, HostTakes DEF TakesMessage, ImportInv, Received
  <2>3. CASE settingsWire'.toPage = settingsWire.toPage /\ settingsWire'.outside = Received.type
    BY <2>1, <2>2, <2>3 DEF ImportInv
  <2>4. ASSUME NEW m \in PageMessages, settingsWire'.outside = settingsWire.outside, m.type = Received.type,
               settingsWire'.toPage = Append(settingsWire.toPage, m), m.kind = "reply"
        PROVE  ImportInv'
    <3>1. /\ ToldOnce(settingsWire.toPage) /\ ~ImportTold(settingsWire.toPage) => ToldOnce(settingsWire'.toPage)
          /\ ImportTold(settingsWire'.toPage) => IsImport(m) \/ ImportTold(settingsWire.toPage)
          /\ ToldOnce(settingsWire.toPage) /\ ~IsImport(m) => ToldOnce(settingsWire'.toPage)
      BY <1>0, <2>4, Appended DEF ToldOnce, ImportTold
    <3>2. IsImport(m) <=> Received.type = "importVscode"
      BY <2>4 DEF IsImport
    <3>. QED
      BY <2>1, <2>2, <2>4, <3>1, <3>2 DEF ImportInv
  <2>. QED
    BY <2>1, <2>3, <2>4
<1>5. CASE EndOutside
  <2>1. PICK m \in PageMessages : /\ settingsWire'.toPage = Append(settingsWire.toPage, m)
                                  /\ IsImport(m) => settingsWire.outside = "importVscode"
    BY <1>0, <1>5, ComesBack
  <2>2. settingsWire'.toHost = settingsWire.toHost /\ settingsWire'.outside = "none" /\ settingsPanel' = settingsPanel
    BY <1>0, <1>5, ComesBack
  <2>3. /\ ToldOnce(settingsWire.toPage) /\ ~ImportTold(settingsWire.toPage) => ToldOnce(settingsWire'.toPage)
        /\ ImportTold(settingsWire'.toPage) => IsImport(m) \/ ImportTold(settingsWire.toPage)
        /\ ToldOnce(settingsWire.toPage) /\ ~IsImport(m) => ToldOnce(settingsWire'.toPage)
    BY <1>0, <2>1, Appended DEF ToldOnce, ImportTold
  <2>. QED
    BY <2>1, <2>2, <2>3 DEF ImportInv
<1>6. CASE ReceiveView \/ ReceiveReply
  <2>. DEFINE m == Head(settingsWire.toPage)
  <2>1. /\ settingsWire.toPage # <<>> /\ settingsWire'.toPage = Tail(settingsWire.toPage)
        /\ settingsWire'.toHost = settingsWire.toHost /\ settingsWire'.outside = settingsWire.outside
        /\ settingsPanel'.operation = IF m.kind = "reply" /\ m.type = settingsPanel.operation THEN "none" ELSE settingsPanel.operation
    BY <1>6, PageTakes
  <2>2. /\ ImportTold(settingsWire'.toPage) => ImportTold(settingsWire.toPage)
        /\ IsImport(m) => ImportTold(settingsWire.toPage) /\ (ToldOnce(settingsWire.toPage) => ~ImportTold(settingsWire'.toPage))
        /\ ToldOnce(settingsWire.toPage) => ToldOnce(settingsWire'.toPage)
    BY <1>0, <2>1, Taking, Zenon
  <2>. HIDE DEF m
  <2>3. CASE IsImport(m)
    BY <2>1, <2>2, <2>3 DEF ImportInv
  <2>4. CASE ~IsImport(m)
    <3>1. settingsPanel.operation = "importVscode" => settingsPanel'.operation = "importVscode"
      BY <2>1, <2>4 DEF IsImport
    <3>. QED
      BY <2>1, <2>2, <3>1 DEF ImportInv
  <2>. QED
    BY <2>3, <2>4
<1>7. ASSUME NEW m \in HostMessages, SendsMessage(m) PROVE ImportInv'
  <2>1. /\ settingsWire'.toHost = Append(settingsWire.toHost, m)
        /\ settingsWire'.toPage = settingsWire.toPage /\ settingsWire'.outside = settingsWire.outside
        /\ m.type \notin PanelOperations => settingsPanel'.operation = settingsPanel.operation
        /\ m.type \in PanelOperations => settingsPanel.operation = "none" /\ settingsPanel'.operation = m.type
    BY <1>7 DEF SendsMessage
  <2>2. /\ Asks(settingsWire'.toHost, "importVscode") <=> m.type = "importVscode" \/ Asks(settingsWire.toHost, "importVscode")
        /\ AskedOnce(settingsWire.toHost) /\ (m.type = "importVscode" => ~Asks(settingsWire.toHost, "importVscode"))
             => AskedOnce(settingsWire'.toHost)
    BY <1>0, <2>1, HostGets
  <2>3. "importVscode" \in PanelOperations
    BY DEF PanelOperations
  <2>4. CASE m.type \in PanelOperations
    BY <2>1, <2>2, <2>4 DEF ImportInv
  <2>5. CASE m.type \notin PanelOperations
    BY <2>1, <2>2, <2>3, <2>5 DEF ImportInv
  <2>. QED
    BY <2>4, <2>5
<1>8. CASE StaysInPage \/ FileChanges
  BY <1>8 DEF StaysInPage, FileChanges, ImportInv
<1>. QED
  BY <1>2, <1>3, <1>4, <1>5, <1>6, <1>7, <1>8, StepKinds DEF HostKinds, PageKinds

\* A message that is on its way is the latest of the news, or will be followed by them.
LEMMA NewsKept ==
  ASSUME SettingsInv, SettingsSteps
  PROVE  NewsInv'
<1>0. /\ FormInv /\ SettingsShape /\ ImportInv /\ NewsInv
      /\ settingsWire.toHost \in Seq(HostMessages) /\ settingsWire.toPage \in Seq(PageMessages)
  BY WireIs DEF SettingsInv, FormInv
<1>1. ASSUME settingsStore'.stage = settingsStore.stage \/ settingsStore.stage # "reading",
             settingsStore'.values = settingsStore.values, settingsPanel' = settingsPanel,
             Latest(settingsWire.toPage, settingsStore.values) => Latest(settingsWire'.toPage, settingsStore.values),
             HasNews(settingsWire.toPage) => HasNews(settingsWire'.toPage),
             Asks(settingsWire.toHost, "read") => Asks(settingsWire'.toHost, "read")
      PROVE  NewsInv'
  BY <1>0, <1>1 DEF NewsInv
<1>2. ASSUME Informs(settingsWire.toPage, settingsWire'.toPage, settingsStore'.values) PROVE NewsInv'
  BY <1>2 DEF NewsInv, Informs
<1>3. CASE BeginReload \/ BeginWrite
  <2>1. /\ settingsWire' = settingsWire /\ settingsPanel' = settingsPanel /\ settingsStore.stage = "idle"
        /\ \/ settingsStore'.stage = "reading"
           \/ settingsStore'.values = settingsStore.values
    BY <1>0, <1>3, Begins
  <2>2. CASE settingsStore'.stage = "reading"
    BY <2>2 DEF NewsInv
  <2>3. CASE settingsStore'.values = settingsStore.values
    BY <1>1, <2>1, <2>3
  <2>. QED
    BY <2>1, <2>2, <2>3
<1>4. ASSUME NEW readable \in BOOLEAN, EndReload(readable) PROVE NewsInv'
  BY <1>0, <1>2, <1>4, Reloads, Zenon
<1>5. CASE RefuseWrite
  <2>1. /\ Follows(settingsWire.toPage, settingsWire'.toPage, settingsStore.values) /\ settingsStore.stage = "idle"
        /\ settingsWire'.toHost = settingsWire.toHost /\ settingsPanel' = settingsPanel
        /\ settingsStore'.values = settingsStore.values
    BY <1>0, <1>5, Refuses DEF ToPageOnly
  <2>. QED
    BY <1>1, <2>1 DEF Follows
<1>6. ASSUME NEW ok \in BOOLEAN, EndWrite(ok) PROVE NewsInv'
  <2>1. /\ Follows(settingsWire.toPage, settingsWire'.toPage, settingsStore'.values) /\ settingsStore.stage = "writing"
        /\ settingsWire'.toHost = settingsWire.toHost /\ settingsPanel' = settingsPanel
        /\ ok => Informs(settingsWire.toPage, settingsWire'.toPage, settingsStore'.values)
        /\ ~ok => settingsStore'.values = settingsStore.values
    BY <1>0, <1>6, Writes DEF ToPageOnly
  <2>2. CASE ok
    BY <1>2, <2>1, <2>2
  <2>3. CASE ~ok
    BY <1>1, <2>1, <2>3 DEF Follows
  <2>. QED
    BY <2>2, <2>3
<1>7. CASE ZoomTurn
  BY <1>0, <1>1, <1>7, ZoomTurns DEF StoreSame, QueueGets
<1>8. CASE HandleRead
  BY <1>0, <1>2, <1>8, HostReads
<1>9. CASE HandleWrite \/ HandleOutside \/ HandleZoom
  <2>1. /\ TakesMessage /\ Received.type # "read" /\ settingsPanel' = settingsPanel
        /\ settingsStore'.values = settingsStore.values /\ settingsStore'.stage = settingsStore.stage
        /\ \/ settingsWire'.toPage = settingsWire.toPage
           \/ Follows(settingsWire.toPage, settingsWire'.toPage, settingsStore.values)
           \/ \E m \in PageMessages : /\ settingsWire'.toPage = Append(settingsWire.toPage, m)
                                      /\ m.kind = "reply" /\ ~m.ok
    <3>1. CASE HandleWrite
      BY <1>0, <3>1, HostWrites DEF TakesMessage, StoreSame, QueueGets, WriteTypes
    <3>2. CASE HandleOutside
      BY <1>0, <3>2, HostGoesOut DEF TakesMessage
    <3>3. CASE HandleZoom
      BY <1>0, <3>3, HostZooms DEF TakesMessage, StoreSame
    <3>. QED
      BY <1>9, <3>1, <3>2, <3>3
  <2>2. Asks(settingsWire.toHost, "read") => Asks(settingsWire'.toHost, "read")
    BY <1>0, <2>1, HostTakes DEF TakesMessage, Received
  <2>3. /\ Latest(settingsWire.toPage, settingsStore.values) => Latest(settingsWire'.toPage, settingsStore.values)
        /\ HasNews(settingsWire.toPage) => HasNews(settingsWire'.toPage)
    <3>1. ASSUME NEW m \in PageMessages, settingsWire'.toPage = Append(settingsWire.toPage, m), m.kind = "reply", ~m.ok
          PROVE  /\ Latest(settingsWire.toPage, settingsStore.values) => Latest(settingsWire'.toPage, settingsStore.values)
                 /\ HasNews(settingsWire.toPage) => HasNews(settingsWire'.toPage)
      <4>1. ~IsNews(m)
        BY <3>1 DEF IsNews
      <4>. QED
        BY <1>0, <3>1, <4>1, TellNews, Zenon
    <3>. QED
      BY <2>1, <3>1 DEF Follows
  <2>. QED
    BY <1>1, <2>1, <2>2, <2>3
<1>10. CASE EndOutside
  <2>1. PICK m \in PageMessages : /\ settingsWire'.toPage = Append(settingsWire.toPage, m)
                                  /\ IsNews(m) => m.values = settingsStore.values
    BY <1>0, <1>10, ComesBack
  <2>2. settingsWire'.toHost = settingsWire.toHost /\ settingsStore' = settingsStore /\ settingsPanel' = settingsPanel
    BY <1>0, <1>10, ComesBack
  <2>3. /\ Latest(settingsWire.toPage, settingsStore.values) => Latest(settingsWire'.toPage, settingsStore.values)
        /\ HasNews(settingsWire.toPage) => HasNews(settingsWire'.toPage)
    BY <1>0, <2>1, TellNews, Zenon
  <2>. QED
    BY <1>1, <2>2, <2>3
<1>11. CASE ReceiveView \/ ReceiveReply
  <2>. DEFINE m == Head(settingsWire.toPage)
  <2>1. /\ settingsWire.toPage # <<>> /\ settingsWire'.toPage = Tail(settingsWire.toPage)
        /\ settingsWire'.toHost = settingsWire.toHost /\ settingsStore' = settingsStore
        /\ settingsPanel'.open => settingsPanel.open
        /\ IsNews(m) /\ settingsPanel'.open /\ ~settingsPanel'.missed => settingsPanel'.saved = m.values
        /\ ~IsNews(m) /\ (IsImport(m) => settingsPanel.operation = "importVscode")
             => settingsPanel'.saved = settingsPanel.saved /\ settingsPanel'.missed = settingsPanel.missed
    BY <1>0, <1>11, PageTakes
  <2>2. /\ Latest(settingsWire.toPage, settingsStore.values) => Latest(settingsWire'.toPage, settingsStore.values)
        /\ HasNews(settingsWire.toPage) => IsNews(m) \/ HasNews(settingsWire'.toPage)
        /\ Latest(settingsWire.toPage, settingsStore.values) /\ IsNews(m)
             => m.values = settingsStore.values \/ HasNews(settingsWire'.toPage)
        /\ IsImport(m) => ImportTold(settingsWire.toPage)
    BY <1>0, <2>1, Taking, Zenon
  <2>. HIDE DEF m
  <2>3. CASE IsNews(m)
    BY <1>0, <2>1, <2>2, <2>3 DEF NewsInv
  <2>4. CASE ~IsNews(m)
    <3>1. settingsPanel'.saved = settingsPanel.saved /\ settingsPanel'.missed = settingsPanel.missed
      BY <1>0, <2>1, <2>2, <2>4 DEF ImportInv
    <3>. QED
      BY <1>0, <2>1, <2>2, <2>4, <3>1 DEF NewsInv
  <2>. QED
    BY <2>3, <2>4
<1>12. ASSUME NEW m \in HostMessages, SendsMessage(m) PROVE NewsInv'
  <2>1. /\ settingsWire'.toPage = settingsWire.toPage /\ settingsStore' = settingsStore
        /\ m.type # "read" => /\ settingsPanel'.open = settingsPanel.open /\ settingsPanel'.saved = settingsPanel.saved
                              /\ settingsPanel'.missed = settingsPanel.missed
    BY <1>12 DEF SendsMessage
  <2>2. Asks(settingsWire'.toHost, "read") <=> m.type = "read" \/ Asks(settingsWire.toHost, "read")
    BY <1>0, <1>12, HostGets DEF SendsMessage
  <2>. QED
    BY <1>0, <2>1, <2>2 DEF NewsInv
<1>13. CASE StaysInPage \/ FileChanges
  BY <1>0, <1>13 DEF StaysInPage, FileChanges, NewsInv
<1>. QED
  BY <1>0, <1>3, <1>4, <1>5, <1>6, <1>7, <1>8, <1>9, <1>10, <1>11, <1>12, <1>13, StepKinds
  DEF StoreKinds, HostKinds, PageKinds

\* The file is written with what the store then holds, and read into it.
LEMMA FileKept ==
  ASSUME SettingsInv, SettingsSteps
  PROVE  FileInv'
<1>0. FormInv /\ SettingsShape /\ FileInv
  BY DEF SettingsInv, FormInv
<1>1. ASSUME settingsStore'.stage = settingsStore.stage, settingsStore'.values = settingsStore.values,
             settingsStore'.firstRun = settingsStore.firstRun, settingsStore'.error = settingsStore.error,
             settingsFile' = settingsFile, settingsUsed'.foreign = settingsUsed.foreign
      PROVE  FileInv'
  BY <1>0, <1>1 DEF FileInv
<1>2. CASE BeginReload \/ BeginWrite
  <2>1. /\ settingsFile' = settingsFile /\ settingsUsed' = settingsUsed /\ settingsStore.stage = "idle"
        /\ \/ settingsStore'.stage = "reading"
           \/ /\ settingsStore'.values = settingsStore.values /\ settingsStore'.firstRun = settingsStore.firstRun
              /\ settingsStore'.error = settingsStore.error /\ ~settingsStore.error
    BY <1>0, <1>2, Begins
  <2>. QED
    BY <1>0, <2>1 DEF FileInv
<1>3. ASSUME NEW readable \in BOOLEAN, EndReload(readable) PROVE FileInv'
  <2>1. /\ settingsFile' = settingsFile /\ settingsStore'.stage = "idle"
        /\ readable /\ ~settingsStore'.error =>
              \/ settingsStore'.firstRun /\ settingsFile.kind = "absent"
              \/ settingsFile.kind = "sound" /\ settingsFile.values = settingsStore'.values
        /\ ~readable => settingsStore'.error
    BY <1>0, <1>3, Reloads, Zenon
  <2>. QED
    BY <2>1 DEF FileInv
<1>4. CASE RefuseWrite
  <2>1. /\ settingsStore'.stage = settingsStore.stage /\ settingsStore'.values = settingsStore.values
        /\ settingsStore'.firstRun = settingsStore.firstRun /\ settingsStore'.error = settingsStore.error
        /\ settingsFile' = settingsFile /\ settingsUsed' = settingsUsed
    BY <1>0, <1>4, Refuses
  <2>. QED
    BY <1>1, <2>1
<1>5. ASSUME NEW ok \in BOOLEAN, EndWrite(ok) PROVE FileInv'
  <2>1. /\ settingsStore'.stage = "idle" /\ settingsStore.stage = "writing" /\ settingsStore'.error = settingsStore.error
        /\ ok => settingsStore'.values = settingsStore.target /\ settingsFile'.kind = "sound"
                 /\ settingsFile'.values = settingsStore.target
        /\ ~ok => settingsStore'.values = settingsStore.values /\ settingsStore'.firstRun = settingsStore.firstRun
                  /\ settingsFile' = settingsFile /\ settingsUsed'.foreign = settingsUsed.foreign
    BY <1>0, <1>5, Writes
  <2>. QED
    BY <1>0, <2>1 DEF FileInv
<1>6. CASE ZoomTurn
  <2>1. /\ settingsFile' = settingsFile /\ settingsUsed' = settingsUsed
        /\ StoreSame \/ \E operation \in Operations : QueueGets(operation)
    BY <1>0, <1>6, ZoomTurns
  <2>. QED
    BY <1>1, <2>1 DEF StoreSame, QueueGets
<1>7. CASE HostKinds
  <2>1. /\ settingsFile' = settingsFile /\ settingsUsed' = settingsUsed
        /\ settingsStore' = settingsStore \/ StoreSame \/ \E operation \in Operations : QueueGets(operation)
    <3>1. CASE HandleRead \/ HandleOutside
      BY <1>0, <3>1, HostReads, HostGoesOut DEF TakesMessage
    <3>2. CASE HandleWrite
      BY <1>0, <3>2, HostWrites DEF TakesMessage
    <3>3. CASE HandleZoom
      BY <1>0, <3>3, HostZooms DEF TakesMessage
    <3>4. CASE EndOutside
      BY <1>0, <3>4, ComesBack
    <3>. QED
      BY <1>7, <3>1, <3>2, <3>3, <3>4 DEF HostKinds
  <2>. QED
    BY <1>1, <2>1 DEF StoreSame, QueueGets
<1>8. CASE ReceiveView \/ ReceiveReply
  <2>1. UNCHANGED <<settingsFile, settingsStore, settingsUsed>>
    BY <1>0, <1>8, PageTakes
  <2>. QED
    BY <1>1, <2>1
<1>9. CASE StaysInPage \/ \E m \in HostMessages : SendsMessage(m)
  BY <1>1, <1>9 DEF StaysInPage, SendsMessage, FactsKept
<1>10. CASE FileChanges
  BY <1>0, <1>10 DEF FileChanges, FileInv
<1>. QED
  BY <1>0, <1>2, <1>3, <1>4, <1>5, <1>6, <1>7, <1>8, <1>9, <1>10, StepKinds DEF StoreKinds, PageKinds

\* A store that has an operation has no Save of an idle store waiting, and the
\* operation after the first knows nothing of what the panel showed.
LEMMA SavesWait ==
  ASSUME FormInv, SaveInv
  PROVE  /\ settingsStore.queue # <<>> =>
              /\ \A i \in DOMAIN settingsWire.toHost :
                   settingsWire.toHost[i].type = "zoom" \/ settingsWire.toHost[i].leaves = {}
              /\ \A i \in DOMAIN Tail(settingsStore.queue) : Tail(settingsStore.queue)[i].leaves = {}
         /\ settingsWire.toHost # <<>> =>
              \A i \in DOMAIN Tail(settingsWire.toHost) :
                   Tail(settingsWire.toHost)[i].type = "zoom" \/ Tail(settingsWire.toHost)[i].leaves = {}
<1>1. SettingsShape /\ settingsWire.toHost \in Seq(HostMessages) /\ settingsStore.queue \in Seq(Operations)
  BY WireIs DEF FormInv, SettingsShape, SettingsStores
<1>2. ASSUME settingsStore.queue # <<>>, NEW i \in DOMAIN Tail(settingsStore.queue)
      PROVE  Tail(settingsStore.queue)[i].leaves = {}
  <2>1. i + 1 \in DOMAIN settingsStore.queue /\ Tail(settingsStore.queue)[i] = settingsStore.queue[i + 1] /\ i + 1 # 1
    BY <1>1, <1>2
  <2>. QED
    BY <2>1 DEF SaveInv
<1>3. ASSUME settingsWire.toHost # <<>>, NEW i \in DOMAIN Tail(settingsWire.toHost)
      PROVE  Tail(settingsWire.toHost)[i].type = "zoom" \/ Tail(settingsWire.toHost)[i].leaves = {}
  <2>1. i + 1 \in DOMAIN settingsWire.toHost /\ Tail(settingsWire.toHost)[i] = settingsWire.toHost[i + 1] /\ i + 1 # 1
    BY <1>1, <1>3
  <2>. QED
    BY <2>1 DEF SaveInv
<1>. QED
  BY <1>2, <1>3 DEF SaveInv

\* A Save that was sent while nothing was on its way changes what the user has changed.
LEMMA SaveKept ==
  ASSUME SettingsInv, SettingsSteps
  PROVE  SaveInv'
<1>0. /\ FormInv /\ SettingsShape /\ NewsInv /\ FileInv /\ SaveInv
      /\ settingsWire.toHost \in Seq(HostMessages) /\ settingsStore.queue \in Seq(Operations)
      /\ settingsStore.stage # "idle" => settingsStore.queue # <<>>
  BY WireIs DEF SettingsInv, FormInv, SettingsShape, SettingsStores
<1>. DEFINE NoneAsked == \A i \in DOMAIN settingsWire.toHost :
                            settingsWire.toHost[i].type = "zoom" \/ settingsWire.toHost[i].leaves = {}
            NoneQueued == \A i \in DOMAIN settingsStore.queue : settingsStore.queue[i].leaves = {}
\* The parts of the invariant that a step leaves as they are.
<1>1. ASSUME settingsStore'.queue = Tail(settingsStore.queue), settingsStore.queue # <<>>,
             settingsWire'.toHost = settingsWire.toHost, settingsStore'.stage = "idle", ~settingsUsed'.spoiled
      PROVE  SaveInv'
  <2>1. NoneAsked /\ NoneQueued'
    BY <1>0, <1>1, SavesWait
  <2>2. NoneAsked'
    BY <1>1, <2>1
  <2>. QED
    BY <1>1, <2>1, <2>2 DEF SaveInv
<1>2. ASSUME settingsStore'.queue = settingsStore.queue, settingsStore'.values = settingsStore.values,
             settingsStore'.stage = settingsStore.stage, settingsStore'.target = settingsStore.target,
             settingsUsed'.spoiled = settingsUsed.spoiled,
             NoneAsked' \/ (settingsWire'.toHost = settingsWire.toHost /\ settingsStore'.zooms = settingsStore.zooms)
      PROVE  SaveInv'
  BY <1>0, <1>2 DEF SaveInv, TargetOf
\* An operation joins those of the store.
<1>3. ASSUME NEW operation \in Operations, QueueGets(operation), settingsUsed'.spoiled = settingsUsed.spoiled, NoneAsked',
             operation.leaves # {} =>
               /\ settingsStore.queue = <<>> /\ operation.op = "replace"
               /\ \A key \in operation.leaves : operation.values[key] = settingsStore.values[key]
      PROVE  SaveInv'
  <2>1. /\ settingsStore'.queue = Append(settingsStore.queue, operation) /\ settingsStore'.values = settingsStore.values
        /\ settingsStore'.stage = settingsStore.stage /\ settingsStore'.target = settingsStore.target
    BY <1>3 DEF QueueGets
  <2>2. /\ DOMAIN settingsStore.queue = 1..Len(settingsStore.queue) /\ DOMAIN settingsStore'.queue = 1..(Len(settingsStore.queue) + 1)
        /\ Len(settingsStore.queue) \in Nat
        /\ \A i \in 1..Len(settingsStore.queue) : settingsStore'.queue[i] = settingsStore.queue[i]
        /\ settingsStore'.queue[Len(settingsStore.queue) + 1] = operation
        /\ settingsStore.queue = <<>> => Len(settingsStore.queue) = 0
        /\ settingsStore.queue # <<>> => settingsStore'.queue[1] = settingsStore.queue[1]
    BY <1>0, <2>1
  <2>3. ASSUME NEW i \in DOMAIN settingsStore'.queue, settingsStore'.queue[i].leaves # {}
        PROVE  /\ i = 1 /\ settingsStore'.queue[i].op = "replace"
               /\ \A key \in settingsStore'.queue[i].leaves : settingsStore'.queue[i].values[key] = settingsStore'.values[key]
    <3>1. CASE i \in 1..Len(settingsStore.queue)
      BY <1>0, <2>1, <2>2, <2>3, <3>1 DEF SaveInv
    <3>2. CASE i = Len(settingsStore.queue) + 1
      BY <1>3, <2>1, <2>2, <2>3, <3>2
    <3>. QED
      BY <2>2, <3>1, <3>2
  <2>4. settingsStore'.stage = "writing" => settingsStore'.target = TargetOf(settingsStore.queue[1])'
    BY <1>0, <2>1, <2>2 DEF SaveInv, TargetOf
  <2>5. settingsStore'.stage = "reading" => settingsStore'.queue[1].op = "reload"
    BY <1>0, <2>1, <2>2 DEF SaveInv
  <2>. QED
    BY <1>0, <1>3, <2>3, <2>4, <2>5 DEF SaveInv
<1>4. CASE BeginReload \/ BeginWrite
  <2>1. /\ settingsStore'.queue = settingsStore.queue /\ settingsStore.queue # <<>> /\ settingsStore.queue[1] = Operation
        /\ settingsWire' = settingsWire /\ settingsUsed' = settingsUsed /\ 1 \in DOMAIN settingsStore.queue
        /\ \/ settingsStore'.stage = "reading" /\ Operation.op = "reload"
           \/ /\ settingsStore'.stage = "writing" /\ settingsStore'.values = settingsStore.values
              /\ settingsStore'.target = TargetOf(Operation)
    BY <1>0, <1>4, Begins, AtHand
  <2>2. NoneAsked'
    BY <1>0, <2>1, SavesWait
  <2>3. CASE settingsStore'.stage = "reading" /\ Operation.op = "reload"
    <3>1. NoneQueued
      BY <1>0, <2>1, <2>3 DEF SaveInv
    <3>2. NoneQueued'
      BY <2>1, <3>1
    <3>. QED
      BY <1>0, <2>1, <2>2, <2>3, <3>2 DEF SaveInv
  <2>4. CASE settingsStore'.stage = "writing" /\ settingsStore'.values = settingsStore.values /\ settingsStore'.target = TargetOf(Operation)
    <3>1. settingsStore'.target = TargetOf(settingsStore.queue[1])'
      BY <2>1, <2>4 DEF TargetOf
    <3>. QED
      BY <1>0, <2>1, <2>2, <2>4, <3>1 DEF SaveInv
  <2>. QED
    BY <2>1, <2>3, <2>4
<1>5. ASSUME NEW readable \in BOOLEAN, EndReload(readable) PROVE SaveInv'
  <2>1. settingsStore.stage = "reading"
    BY <1>5 DEF EndReload
  <2>2. /\ settingsStore'.queue = Tail(settingsStore.queue) /\ settingsWire'.toHost = settingsWire.toHost
        /\ settingsStore'.stage = "idle" /\ settingsUsed'.spoiled = settingsUsed.spoiled
    BY <1>0, <1>5, Reloads, Zenon DEF ToPageOnly
  <2>. QED
    BY <1>0, <1>1, <2>1, <2>2 DEF SaveInv
<1>6. CASE RefuseWrite
  <2>1. /\ settingsStore'.queue = Tail(settingsStore.queue) /\ settingsStore.queue # <<>> /\ settingsWire'.toHost = settingsWire.toHost
        /\ settingsStore'.stage = "idle" /\ settingsUsed' = settingsUsed
    BY <1>0, <1>6, Refuses DEF ToPageOnly
  <2>. QED
    BY <1>0, <1>1, <2>1 DEF SaveInv
<1>7. ASSUME NEW ok \in BOOLEAN, EndWrite(ok) PROVE SaveInv'
  <2>1. /\ settingsStore'.queue = Tail(settingsStore.queue) /\ settingsStore.queue # <<>> /\ settingsWire'.toHost = settingsWire.toHost
        /\ settingsStore'.stage = "idle" /\ settingsStore.stage = "writing"
        /\ settingsUsed'.spoiled => settingsUsed.spoiled \/ (/\ ~settingsUsed.foreign
               /\ \/ settingsFile.kind = "broken"
                  \/ \E key \in Operation.leaves : settingsStore.target[key] # settingsStore.values[key])
    BY <1>0, <1>7, Writes DEF ToPageOnly
  <2>2. ~settingsUsed.foreign => settingsFile.kind # "broken"
    BY <1>0, <2>1 DEF FileInv
  <2>3. ASSUME NEW key \in Operation.leaves PROVE settingsStore.target[key] = settingsStore.values[key]
    <3>1. 1 \in DOMAIN settingsStore.queue /\ Operation = settingsStore.queue[1]
      BY <1>0, <2>1, AtHand
    <3>2. Operation.op = "replace" /\ Operation.values[key] = settingsStore.values[key] /\ settingsStore.target = TargetOf(Operation)
      BY <1>0, <2>1, <2>3, <3>1 DEF SaveInv
    <3>. QED
      BY <3>2 DEF TargetOf
  <2>4. ~settingsUsed'.spoiled
    BY <1>0, <2>1, <2>2, <2>3 DEF SaveInv
  <2>. QED
    BY <1>1, <2>1, <2>4
<1>8. CASE ZoomTurn
  <2>1. /\ settingsWire' = settingsWire /\ settingsUsed' = settingsUsed /\ settingsStore.zooms # <<>>
        /\ StoreSame \/ \E operation \in Operations : QueueGets(operation) /\ operation.leaves = {}
    BY <1>0, <1>8, ZoomTurns
  <2>2. NoneAsked'
    BY <1>0, <2>1 DEF SaveInv
  <2>. QED
    BY <1>2, <1>3, <2>1, <2>2 DEF StoreSame
<1>9. ASSUME TakesMessage PROVE NoneAsked'
  BY <1>0, <1>9, SavesWait DEF TakesMessage
<1>10. CASE HandleRead \/ HandleOutside \/ HandleZoom
  <2>1. TakesMessage /\ (StoreSame \/ settingsStore' = settingsStore)
    BY <1>0, <1>10, HostReads, HostGoesOut, HostZooms
  <2>. QED
    BY <1>2, <1>9, <2>1 DEF StoreSame, TakesMessage
<1>11. CASE HandleWrite
  <2>1. /\ TakesMessage /\ Received.type \in WriteTypes
        /\ \/ StoreSame
           \/ \E operation \in Operations :
                /\ QueueGets(operation) /\ operation.leaves = Received.leaves /\ operation.values = Received.values
                /\ Received.type = "save" => operation.op = "replace"
    BY <1>0, <1>11, HostWrites
  <2>2. Received.type # "zoom" /\ Received = settingsWire.toHost[1] /\ 1 \in DOMAIN settingsWire.toHost
    BY <1>0, <2>1 DEF WriteTypes, TakesMessage, Received
  <2>3. Received.leaves # {} =>
          /\ settingsStore.queue = <<>> /\ Received.type = "save"
          /\ \A key \in Received.leaves : Received.values[key] = settingsStore.values[key]
    BY <1>0, <2>2 DEF SaveInv
  <2>4. ASSUME NEW operation \in Operations, QueueGets(operation), operation.leaves = Received.leaves,
               operation.values = Received.values, Received.type = "save" => operation.op = "replace"
        PROVE  SaveInv'
    BY <1>3, <1>9, <2>1, <2>3, <2>4 DEF TakesMessage
  <2>5. ASSUME StoreSame PROVE SaveInv'
    BY <1>2, <1>9, <2>1, <2>5 DEF StoreSame, TakesMessage
  <2>. QED
    BY <2>1, <2>4, <2>5
<1>12. CASE EndOutside
  <2>1. settingsWire'.toHost = settingsWire.toHost /\ settingsStore' = settingsStore /\ settingsUsed' = settingsUsed
    BY <1>0, <1>12, ComesBack
  <2>. QED
    BY <1>2, <2>1
<1>13. CASE ReceiveView \/ ReceiveReply
  <2>1. settingsWire'.toHost = settingsWire.toHost /\ settingsStore' = settingsStore /\ settingsUsed' = settingsUsed
    BY <1>0, <1>13, PageTakes
  <2>. QED
    BY <1>2, <2>1
<1>14. CASE StaysInPage \/ FileChanges
  BY <1>2, <1>14 DEF StaysInPage, FileChanges, FactsKept
<1>15. ASSUME NEW m \in HostMessages, SendsMessage(m) PROVE SaveInv'
  <2>1. /\ settingsWire'.toHost = Append(settingsWire.toHost, m) /\ settingsStore' = settingsStore
        /\ settingsUsed'.spoiled = settingsUsed.spoiled
        /\ m.type # "zoom" /\ m.leaves # {} =>
             /\ m.type = "save" /\ StoreAtRest /\ settingsPanel.open /\ ~settingsPanel.missed
             /\ \A key \in m.leaves : m.values[key] = settingsPanel.saved[key]
    BY <1>15 DEF SendsMessage, FactsKept
  <2>2. /\ DOMAIN settingsWire'.toHost = 1..(Len(settingsWire.toHost) + 1) /\ DOMAIN settingsWire.toHost = 1..Len(settingsWire.toHost)
        /\ Len(settingsWire.toHost) \in Nat
        /\ \A i \in 1..Len(settingsWire.toHost) : settingsWire'.toHost[i] = settingsWire.toHost[i]
        /\ settingsWire'.toHost[Len(settingsWire.toHost) + 1] = m
    BY <1>0, <2>1, HostGets
  <2>3. ASSUME StoreAtRest, settingsPanel.open, ~settingsPanel.missed
        PROVE  /\ settingsPanel.saved = settingsStore.values /\ Len(settingsWire.toHost) = 0
               /\ settingsStore.queue = <<>> /\ settingsStore.zooms = <<>>
    <3>1. ~HasNews(<<>>) /\ ~Asks(<<>>, "read")
      BY DEF HasNews, Asks
    <3>. QED
      BY <1>0, <2>3, <3>1 DEF StoreAtRest, NewsInv
  <2>4. ASSUME NEW i \in DOMAIN settingsWire'.toHost, settingsWire'.toHost[i].type # "zoom", settingsWire'.toHost[i].leaves # {}
        PROVE  /\ i = 1 /\ settingsStore'.queue = <<>> /\ settingsStore'.zooms = <<>> /\ settingsWire'.toHost[i].type = "save"
               /\ \A key \in settingsWire'.toHost[i].leaves : settingsWire'.toHost[i].values[key] = settingsStore'.values[key]
    <3>1. CASE i \in 1..Len(settingsWire.toHost)
      BY <1>0, <2>1, <2>2, <2>4, <3>1 DEF SaveInv
    <3>2. CASE i = Len(settingsWire.toHost) + 1
      BY <2>1, <2>2, <2>3, <2>4, <3>2
    <3>. QED
      BY <2>2, <3>1, <3>2
  <2>. QED
    BY <1>0, <2>1, <2>4 DEF SaveInv, TargetOf
<1>. QED
  BY <1>0, <1>4, <1>5, <1>6, <1>7, <1>8, <1>10, <1>11, <1>12, <1>13, <1>14, <1>15, StepKinds
  DEF StoreKinds, HostKinds, PageKinds

-----------------------------------------------------------------------------
(* The theorem                                                               *)

LEMMA SettingsStartInv ==
  ASSUME SettingsStart
  PROVE  SettingsInv
<1>1. /\ settingsFile \in FilesAtStart
      /\ settingsStore = [values |-> settingsFile.values, firstRun |-> settingsFile.kind = "absent",
                          error |-> settingsFile.kind = "broken",
                          queue |-> <<>>, stage |-> "idle", target |-> NoSettings, zooms |-> <<>>]
      /\ settingsWire = [toHost |-> <<>>, toPage |-> <<>>, outside |-> "none"]
      /\ settingsPanel = [open |-> settingsFile.kind # "sound", view |-> SettingsView,
                          saved |-> settingsFile.values, draft |-> settingsFile.values, operation |-> "none", busy |-> FALSE,
                          asking |-> "none", typed |-> NothingTyped, late |-> {}, missed |-> FALSE]
      /\ settingsUsed = [zooms |-> 0, edits |-> 0, actions |-> 0, changes |-> 0, foreign |-> FALSE, spoiled |-> FALSE]
  BY DEF SettingsStart
<1>2. settingsFile \in SettingsFiles
  <2>1. /\ NoSettings \in SettingRecords /\ [NoSettings EXCEPT !.zoom = 1] \in SettingRecords
        /\ [NoSettings EXCEPT !.mode = "custom", !.endpoint = "good"] \in SettingRecords
    <3>1. \A v \in SettingRecords, a, b \in SettingTexts : [v EXCEPT !.mode = a, !.endpoint = b] \in SettingRecords
      BY Zenon DEF SettingRecords, SettingKeys
    <3>2. {"custom", "good", 1} \subseteq SettingTexts /\ "zoom" \in SettingKeys
      BY DEF SettingTexts, SettingKeys
    <3>. QED
      BY <3>1, <3>2, SettingValues, Zenon
  <2>. QED
    BY <1>1, <2>1 DEF FilesAtStart, SettingsFiles
<1>3. settingsFile.kind \in {"absent", "broken", "sound"} /\ settingsFile.values \in SettingRecords /\ NoSettings \in SettingRecords
  BY <1>2, SettingValues DEF SettingsFiles
<1>4. (settingsFile.kind = "absent") \in BOOLEAN /\ (settingsFile.kind = "broken") \in BOOLEAN
      /\ (settingsFile.kind # "sound") \in BOOLEAN
  OBVIOUS
<1>5. settingsStore \in SettingsStores
  <2>1. <<>> \in Seq(Operations) /\ <<>> \in Seq(Zooms)
    OBVIOUS
  <2>. QED
    BY <1>1, <1>3, <1>4, <2>1 DEF SettingsStores
<1>6. settingsWire \in SettingsWires
  <2>1. <<>> \in Seq(HostMessages) /\ <<>> \in Seq(PageMessages)
    OBVIOUS
  <2>. QED
    BY <1>1, <2>1 DEF SettingsWires
<1>7. settingsPanel \in SettingsPanels
  <2>1. SettingsView \in SettingsViews
    BY <1>5 DEF SettingsView, SettingsViews, SettingsStores
  <2>. QED
    BY <1>1, <1>3, <1>4, <2>1, TypedAre DEF SettingsPanels
<1>8. settingsUsed \in SettingsUses
  BY <1>1 DEF SettingsUses
<1>9. Edited(settingsPanel) /\ Modes(settingsPanel)
  BY <1>1, TypedAre DEF Edited, Modes
<1>10. FormInv
  BY <1>1, <1>2, <1>5, <1>6, <1>7, <1>8, <1>9 DEF FormInv, SettingsShape
<1>11. settingsWire.toHost = <<>> /\ settingsWire.toPage = <<>> /\ settingsWire.outside = "none"
       /\ settingsStore.stage = "idle" /\ settingsStore.queue = <<>> /\ settingsPanel.saved = settingsStore.values
       /\ ~settingsUsed.spoiled
  BY <1>1
<1>12. ImportInv /\ NewsInv /\ SaveInv
  BY <1>11 DEF ImportInv, AskedOnce, ToldOnce, Asks, ImportTold, NewsInv, Latest, HasNews, SaveInv
<1>13. FileInv
  BY <1>1, <1>3, Zenon DEF FileInv
<1>. QED
  BY <1>10, <1>12, <1>13 DEF SettingsInv

LEMMA SettingsStepKeeps ==
  ASSUME SettingsInv, SettingsSteps \/ UNCHANGED settingsVars
  PROVE  SettingsInv'
<1>1. CASE SettingsSteps
  BY <1>1, FormKept, ImportKept, NewsKept, FileKept, SaveKept DEF SettingsInv
<1>2. CASE UNCHANGED settingsVars
  <2>1. /\ settingsFile' = settingsFile /\ settingsStore' = settingsStore /\ settingsWire' = settingsWire
        /\ settingsPanel' = settingsPanel /\ settingsUsed' = settingsUsed
    BY <1>2 DEF settingsVars
  <2>2. FormInv'
    BY <2>1 DEF SettingsInv, FormInv, SettingsShape
  <2>3. ImportInv' /\ NewsInv' /\ FileInv'
    BY <2>1 DEF SettingsInv, ImportInv, NewsInv, FileInv
  <2>4. SaveInv'
    BY <2>1 DEF SettingsInv, SaveInv, TargetOf
  <2>. QED
    BY <2>2, <2>3, <2>4 DEF SettingsInv
<1>. QED
  BY <1>1, <1>2

LEMMA SettingsInvSays ==
  ASSUME SettingsInv
  PROVE  SettingsTypes /\ SettingsHonest
<1>1. FormInv /\ SettingsShape /\ NewsInv /\ FileInv /\ SaveInv
  BY DEF SettingsInv, FormInv
<1>2. SettingsTypes
  <2>1. DOMAIN settingsPanel.typed \subseteq SettingKeys
    BY <1>1, TypedAre DEF SettingsShape, SettingsPanels
  <2>2. settingsFile.kind \in {"absent", "broken", "sound"} /\ settingsWire.outside \in {"none", "openFile", "importVscode"}
        /\ settingsStore.stage \in {"idle", "reading", "writing"} /\ (settingsStore.stage # "idle" => settingsStore.queue # <<>>)
    BY <1>1 DEF SettingsShape, SettingsFiles, SettingsWires, SettingsStores
  <2>3. /\ DOMAIN settingsPanel.draft = SettingKeys /\ DOMAIN settingsPanel.saved = SettingKeys
        /\ settingsPanel.late \subseteq SettingKeys
        /\ settingsPanel.operation \in {"none", "save", "openFile", "reload", "importVscode", "useDefaults"}
    BY <1>1 DEF SettingsShape, SettingsPanels, SettingRecords, PanelOperations
  <2>. QED
    BY <2>1, <2>2, <2>3 DEF SettingsTypes
<1>3. EditsKept
  BY <1>1 DEF FormInv, Edited, EditsKept
<1>4. PanelCurrent
  <2>1. ~HasNews(<<>>) /\ ~Asks(<<>>, "read")
    BY DEF HasNews, Asks
  <2>2. StoreAtRest /\ settingsPanel.open /\ ~settingsPanel.missed => settingsPanel.saved = settingsStore.values
    BY <1>1, <2>1 DEF StoreAtRest, NewsInv
  <2>. QED
    BY <1>1, <2>2 DEF PanelCurrent, FileInv
<1>5. WritesWhatWasMeant
  BY <1>1 DEF SaveInv, WritesWhatWasMeant
<1>. QED
  BY <1>2, <1>3, <1>4, <1>5, Imports DEF SettingsHonest

\* What the user has typed stays until it is saved or thrown away, the panel compares its
\* draft with what the store holds and the store with its file, and a Save with nothing
\* else on its way changes no setting but those the user has changed.
THEOREM SettingsStayHonest ==
  SettingsStart /\ [][SettingsSteps]_settingsVars => [](SettingsTypes /\ SettingsHonest)
<1>1. SettingsStart => SettingsInv
  BY SettingsStartInv
<1>2. SettingsInv /\ [SettingsSteps]_settingsVars => SettingsInv'
  BY SettingsStepKeeps
<1>3. SettingsInv => SettingsTypes /\ SettingsHonest
  BY SettingsInvSays
<1>. QED
  BY <1>1, <1>2, <1>3, PTL
=============================================================================
