--------------------------- MODULE TreeNavigation ---------------------------
(* Moving in the tree of a session: the questions the registry asks first, the *)
(* extension inside Pi that moves the leaf and the file it answers with        *)
(* (session-tree.ts, SessionTreeExtensionBridge.ts), the reload, and the seed  *)
(* that opens a prompt again in the composer (composerSeedClient.ts).          *)
EXTENDS Naturals, FiniteSets

CONSTANTS Targets,    \* the entries one can move to
          Prompts,    \* those of them that are prompts of the user
          MaxMoves,   \* bounds the requests
          MaxUpsets   \* bounds the runs and the deaths of Pi between them
ASSUME MoveAssumption == /\ Prompts \subseteq Targets /\ MaxMoves \in Nat /\ MaxUpsets \in Nat
                         /\ {"new", "none", "forked"} \cap Targets = {}

VARIABLES
    piTree,      \* Pi: the leaf, whether it is up and busy, and its extension's command
    resultFile,  \* what the extension has written for the request
    treeCall,    \* the interaction the registry is in, and how the last one ended
    treeView,    \* the host's leaf and the status of the history
    treePage     \* the page: the session shown, the drafts, the seeds

treeMoveVars == <<piTree, resultFile, treeCall, treeView, treePage>>

TreeSessions == {"this", "fork"}  \* Pi's tree is that of the first
Leaves == Targets \cup {"new"}
NoTarget == "none"
NoSeed == "none"
TreeIdle == [pc |-> "idle", target |-> NoTarget, hadDraft |-> FALSE, confirmed |-> FALSE, wrote |-> FALSE,
         moved |-> FALSE, raced |-> FALSE, ended |-> "none", count |-> 0]

-----------------------------------------------------------------------------
(* The composer.                                                               *)
\* How a seed comes to take the place of text: the last one that was put there comes
\* back, or an earlier one does; the user has agreed, or has written it since the
\* question, or neither.  The seeds of two moves to one entry are the same to the page.
Reason(p, s) ==
    IF p.drafts[s] # "text" THEN {}
    ELSE IF p.seeds[s] = p.latest THEN {"twice"}
    ELSE IF p.seeds[s] \in p.shown THEN {"again"}
    ELSE IF treeCall.confirmed THEN {"confirmed"}
    ELSE IF treeCall.wrote THEN {"meanwhile"} ELSE {"unasked"}

\* A page remembers the one seed it has applied last.  (shown and latest are what has
\* been put there, by any page and by this one.)
Presented(p) ==
    LET s == p.shows IN
    IF p.seeds[s] \in {NoSeed, p.applied} THEN p
    ELSE [p EXCEPT !.applied = p.seeds[s], !.drafts[s] = "seed", !.shown = @ \cup {p.seeds[s]},
                        !.latest = p.seeds[s], !.replaced = @ \cup Reason(p, s)]
Seeded(p, s, seed) == [p EXCEPT !.seeds[s] = seed]

Display(s) ==
    /\ treePage.shows # s /\ treePage.forked
    /\ treePage' = Presented([treePage EXCEPT !.shows = s])
    /\ UNCHANGED <<piTree, resultFile, treeCall, treeView>>
ReloadPage ==
    /\ treePage.applied # NoSeed
    /\ treePage' = Presented([treePage EXCEPT !.applied = NoSeed, !.latest = NoSeed])
    /\ UNCHANGED <<piTree, resultFile, treeCall, treeView>>
WriteDraft ==
    /\ treePage.drafts[treePage.shows] # "text"
    /\ treePage' = [treePage EXCEPT !.drafts[treePage.shows] = "text"]
    /\ treeCall' = [treeCall EXCEPT !.wrote = @ \/ treePage.shows = "this"]
    /\ UNCHANGED <<piTree, resultFile, treeView>>

\* The fork of a prompt is a new session with a seed of its own.
ForkSeeded ==
    /\ ~treePage.forked
    /\ treePage' = Presented(Seeded([treePage EXCEPT !.shows = "fork", !.forked = TRUE], "fork", "forked"))
    /\ UNCHANGED <<piTree, resultFile, treeCall, treeView>>

\* What is sent takes its seed with it; Pi is busy with it if the session is its own.
SubmitPrompt ==
    LET s == treePage.shows IN
    /\ treePage.drafts[s] # "empty" /\ treeCall.pc # "navigating" /\ treeCall.pc # "reloading"
    /\ treePage' = [treePage EXCEPT !.drafts[s] = "empty", !.seeds[s] = NoSeed]
    /\ IF s = "this" THEN piTree.up /\ ~piTree.busy /\ piTree.upsets < MaxUpsets
                          /\ piTree' = [piTree EXCEPT !.busy = TRUE, !.upsets = @ + 1]
       ELSE UNCHANGED piTree
    /\ UNCHANGED <<resultFile, treeCall, treeView>>

-----------------------------------------------------------------------------
(* The registry's questions.                                                   *)
\* Nothing is asked while an interaction of the session is under way.
Ended(how) == treeCall' = [treeCall EXCEPT !.pc = "idle", !.ended = how]
Asked(pc, target) == treeCall' = [TreeIdle EXCEPT !.pc = pc, !.target = target, !.count = treeCall.count + 1,
                                              !.hadDraft = treePage.drafts["this"] # "empty"]

BranchHere(target) ==
    /\ treeCall.pc = "idle" /\ treeCall.count < MaxMoves /\ treePage.shows = "this"
    /\ target \in Prompts /\ piTree.up /\ ~piTree.busy
    /\ Asked(IF treePage.drafts["this"] # "empty" THEN "confirm" ELSE "summary", target)
    /\ resultFile' = "none"
    /\ UNCHANGED <<piTree, treeView, treePage>>
SwitchBranch ==
    /\ treeCall.pc = "idle" /\ treeCall.count < MaxMoves /\ treePage.shows = "this"
    /\ piTree.up /\ treeView.history = "loaded"
    /\ Asked("choose", NoTarget)
    /\ resultFile' = "none"
    /\ UNCHANGED <<piTree, treeView, treePage>>

\* The current path, or none, ends it; a prompt may replace the draft.
NeedsConsent(target, hadDraft) == target \in Prompts /\ hadDraft
PickBranchEnd(target) ==
    /\ treeCall.pc = "choose"
    /\ IF target \in {NoTarget, piTree.leaf} THEN Ended("cancelled")
       ELSE treeCall' = [treeCall EXCEPT !.target = target,
                             !.pc = IF NeedsConsent(target, treeCall.hadDraft) THEN "confirm" ELSE "summary"]
    /\ UNCHANGED <<piTree, resultFile, treeView, treePage>>
ConfirmDraftReplacement(yes) ==
    /\ treeCall.pc = "confirm"
    /\ IF yes THEN treeCall' = [treeCall EXCEPT !.pc = "summary", !.confirmed = TRUE] ELSE Ended("cancelled")
    /\ UNCHANGED <<piTree, resultFile, treeView, treePage>>

\* With or without a summary; then Pi must be idle and the history there.
PickBranchSummary(chosen) ==
    /\ treeCall.pc = "summary"
    /\ IF ~chosen THEN Ended("cancelled")
       ELSE IF ~piTree.up \/ piTree.busy \/ treeView.history # "loaded" THEN Ended("error")
       ELSE treeCall' = [treeCall EXCEPT !.pc = "checking"]
    /\ UNCHANGED <<piTree, resultFile, treeView, treePage>>

\* The target must still be there; then the command goes out, and Pi's extension
\* notes its leaf before it waits for Pi to be idle.
Navigate ==
    /\ treeCall.pc = "checking"
    /\ \/ ~piTree.up /\ Ended("error") /\ UNCHANGED piTree
       \/ /\ piTree.up
          /\ treeCall' = [treeCall EXCEPT !.pc = "navigating"]
          /\ piTree' = [piTree EXCEPT !.command = "waiting", !.before = piTree.leaf]
    /\ UNCHANGED <<resultFile, treeView, treePage>>

-----------------------------------------------------------------------------
(* Pi.                                                                         *)
\* A move that fails after the leaf has moved is committed all the same.
Result_Thrown(outcome, before, leaf) ==
    CASE outcome = "cancelled" -> "cancelled" [] outcome = "moved" -> "committed" [] OTHER -> "failed"
Result(outcome, before, leaf) ==
    CASE outcome = "cancelled" -> "cancelled"
      [] outcome = "moved" -> "committed"
      [] OTHER -> IF leaf # before THEN "committed" ELSE "failed"

\* The result is written under another name and renamed, or not at all.
ExtensionMoves(outcome, stored) ==
    /\ piTree.command = "waiting" /\ ~piTree.busy
    /\ LET leaf == IF outcome \in {"moved", "moved, then failed"} THEN treeCall.target ELSE piTree.leaf IN
       /\ piTree' = [piTree EXCEPT !.command = "ended", !.leaf = leaf, !.adrift = (@ \/ ~stored \/ treeCall.raced) /\ leaf # treeView.leaf]
       /\ resultFile' = IF stored THEN Result(outcome, piTree.before, leaf) ELSE resultFile
       /\ treeCall' = [treeCall EXCEPT !.moved = leaf # piTree.leaf]
    /\ UNCHANGED <<treeView, treePage>>

RunSettles ==
    /\ piTree.busy
    /\ piTree' = [piTree EXCEPT !.busy = FALSE, !.leaf = "new", !.adrift = FALSE]
    /\ treeView' = [treeView EXCEPT !.leaf = "new"]
    /\ treeCall' = [treeCall EXCEPT !.raced = @ \/ piTree.command = "waiting"]
    /\ UNCHANGED <<resultFile, treePage>>
PiDies ==
    /\ piTree.up /\ piTree.upsets < MaxUpsets
    /\ piTree' = [piTree EXCEPT !.up = FALSE, !.busy = FALSE, !.upsets = @ + 1,
                                !.command = IF @ = "waiting" THEN "ended" ELSE @]
    /\ UNCHANGED <<resultFile, treeCall, treeView, treePage>>
\* Pi opens the file again, at its last entry, and the history is loaded.
RestartPi ==
    /\ ~piTree.up /\ treeCall.pc \notin {"navigating", "reloading"}
    /\ \E leaf \in Leaves :
        /\ piTree' = [piTree EXCEPT !.up = TRUE, !.leaf = leaf, !.command = "none", !.adrift = FALSE]
        /\ treeView' = [leaf |-> leaf, history |-> "loaded"]
    /\ UNCHANGED <<resultFile, treeCall, treePage>>

-----------------------------------------------------------------------------
(* The result.                                                                 *)
\* What the file says counts, also when the command failed or Pi is gone.
ReadResult ==
    /\ treeCall.pc = "navigating" /\ piTree.command = "ended"
    /\ piTree' = [piTree EXCEPT !.command = "none"]
    /\ CASE resultFile = "committed" -> treeCall' = [treeCall EXCEPT !.pc = "reloading"]
         [] resultFile = "cancelled" -> Ended("cancelled")
         [] OTHER -> Ended("error")
    /\ UNCHANGED <<resultFile, treeView, treePage>>

\* A path that was committed and cannot be read is a failure of the history.
ReloadPath ==
    /\ treeCall.pc = "reloading"
    /\ \/ /\ piTree.up
          /\ treeView' = [treeView EXCEPT !.leaf = piTree.leaf]
          /\ piTree' = [piTree EXCEPT !.adrift = FALSE]
          /\ Ended("moved")
          /\ treePage' = IF treeCall.target \in Prompts THEN Presented(Seeded(treePage, "this", treeCall.target)) ELSE treePage
       \/ /\ treeView' = [treeView EXCEPT !.history = "failed"]
          /\ Ended("error")
          /\ UNCHANGED <<piTree, treePage>>
    /\ UNCHANGED resultFile
RetryHistory ==
    /\ piTree.up /\ ~piTree.busy /\ treeView.history = "failed" /\ treeCall.pc # "navigating"
    /\ treeView' = [leaf |-> piTree.leaf, history |-> "loaded"]
    /\ piTree' = [piTree EXCEPT !.adrift = FALSE]
    /\ UNCHANGED <<resultFile, treeCall, treePage>>

-----------------------------------------------------------------------------
MovesStart ==
    /\ piTree \in [leaf : Targets, up : {TRUE}, busy : {FALSE}, command : {"none"}, before : {NoTarget},
                   adrift : {FALSE}, upsets : {0}]
    /\ resultFile = "none" /\ treeCall = TreeIdle
    /\ treeView = [leaf |-> piTree.leaf, history |-> "loaded"]
    /\ treePage = [shows |-> "this", applied |-> NoSeed, replaced |-> {}, forked |-> FALSE,
                   drafts |-> [s \in TreeSessions |-> "empty"], seeds |-> [s \in TreeSessions |-> NoSeed],
                   shown |-> {}, latest |-> NoSeed]

MoveSteps ==
    \/ \E s \in TreeSessions : Display(s)
    \/ ReloadPage \/ WriteDraft \/ ForkSeeded \/ SubmitPrompt \/ SwitchBranch \/ Navigate
    \/ \E target \in Targets : BranchHere(target)
    \/ \E target \in Targets \cup {NoTarget} : PickBranchEnd(target)
    \/ \E yes \in BOOLEAN : ConfirmDraftReplacement(yes) \/ PickBranchSummary(yes)
    \/ \E outcome \in {"cancelled", "moved", "failed", "moved, then failed"}, stored \in BOOLEAN : ExtensionMoves(outcome, stored)
    \/ RunSettles \/ PiDies \/ RestartPi \/ ReadResult \/ ReloadPath \/ RetryHistory

MoveTypes ==
    /\ piTree.leaf \in Leaves /\ treeView.leaf \in Leaves
    /\ treeView.history \in {"loaded", "failed"}
    /\ resultFile \in {"none", "cancelled", "committed", "failed"}
    /\ treeCall.pc \in {"idle", "choose", "confirm", "summary", "checking", "navigating", "reloading"}
    /\ treePage.drafts \in [TreeSessions -> {"empty", "text", "seed"}]

\* The path on the screen is Pi's, unless the history is said to have failed.  Two
\* moves leave it behind until the next run: one whose result cannot be written,
\* and one that fails after it has moved back to where Pi was before a run that
\* the extension waited for (SessionTreeExtensionBridge.ts:80, session-tree.ts:54).
PathIsPis ==
    piTree.up /\ ~piTree.busy /\ treeView.history = "loaded" /\ treeCall.pc \notin {"navigating", "reloading"} =>
        treeView.leaf = piTree.leaf \/ piTree.adrift

\* "Cancelled" and an error leave Pi where it was, or the history says so; what is
\* called a move was one, unless the extension waited for a run (session-tree.ts:71).
OutcomeTrue ==
    treeCall.pc = "idle" /\ ~treeCall.raced =>
        /\ treeCall.ended = "cancelled" => ~treeCall.moved \/ piTree.adrift
        /\ treeCall.ended = "moved" => treeCall.moved \/ piTree.before = treeCall.target

\* A draft that was there when the user asked for the move gives way to the first
\* appearance of its seed only if the user agreed.  composer.SPEC.md:22 promises it of
\* every draft, which does not hold: one that is written while the questions are open
\* is replaced unasked ("meanwhile", SessionRegistry.ts:497).
OldDraftAskedAbout == "unasked" \notin treePage.replaced

\* A page does not put a seed there twice in a row.  webview-bridge.SPEC.md:41 promises
\* once per mount, which does not hold: the page remembers the last seed only, so one
\* that another seed has followed comes back over text, unasked ("again", which also
\* names the seed that a page puts there when it is mounted anew).
SeedNotRepeated == "twice" \notin treePage.replaced

\* Where Pi is, what the user is told, and as much of the draft's fate as holds.
NavigationHonest == PathIsPis /\ OutcomeTrue /\ OldDraftAskedAbout /\ SeedNotRepeated
=============================================================================
