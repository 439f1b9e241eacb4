---------------------------- MODULE SessionFiles ----------------------------
(* How the resume picker finds the sessions on disk                           *)
(* (host/catalog/SessionCatalog.ts, SessionFileScanner.ts,                    *)
(* SessionCatalogPicker.ts and host/sessions/SessionWorkingDirectories.ts):   *)
(* ripgrep scans the files while the directories are walked, and each file is *)
(* then looked at again, while Pi appends to the files and the user deletes   *)
(* them.  The files are 1, in the workspace, 2, in a linked worktree, and 3,  *)
(* of an unrelated directory.                                                 *)
EXTENDS Integers, Sequences, FiniteSets, SequencesExt

CONSTANTS HeadWindow,   \* records of the head that are read
          TailWindow,   \* records of the tail that are read
          MaxListed,    \* the number of files listed
          MaxRecords,   \* bound: the records of a file
          MaxAppends    \* bound: records appended in a run

ASSUME FilesAssumption == {HeadWindow, TailWindow, MaxListed, MaxRecords, MaxAppends} \subseteq Nat \ {0}

VARIABLES disk, finder, witnessed

filesVars == <<disk, finder, witnessed>>

SessionFileIds == {1, 2, 3}
WorkspaceCwd == 1
CwdOf(f) == f

\* A record names the session, clears its name or is a message of the user;
\* the first one is the header.
Names == {"A", "B"}
Records == {"A", "clear", "said"}

LastAt(items, kinds) ==
    LET at == {i \in DOMAIN items : items[i] \in kinds} IN
    IF at = {} THEN 0 ELSE CHOOSE i \in at : \A j \in at : j <= i

\* The windows of a file of some size: readPiSessionMetadata.
InHead(size) == 1..(IF size < HeadWindow THEN size ELSE HeadWindow)
InTail(size) == (IF size > TailWindow THEN size - TailWindow + 1 ELSE 1)..size
Seen(items, window) == [i \in DOMAIN items |-> IF i \in window THEN items[i] ELSE "unseen"]

\* The latest session_info wins, and an empty name clears the title.
NameIn(items) ==
    LET last == LastAt(items, Names \cup {"clear"}) IN
    IF last = 0 \/ items[last] = "clear" THEN "none" ELSE items[last]

PreviewIn(items, size) == IF LastAt(Seen(items, InTail(size)), {"said"}) = 0 THEN "file" ELSE "said"

\* Mutant: the tail alone is looked at for the name.
TitleFromWindows_TailOnly(items, size) ==
    LET name == NameIn(Seen(items, InTail(size))) IN
    IF name = "none" THEN PreviewIn(items, size) ELSE name

TitleFromWindows(items, size) ==
    LET name == NameIn(Seen(items, InHead(size) \cup InTail(size))) IN
    IF name = "none" THEN PreviewIn(items, size) ELSE name

\* What Pi would call the session.
PiTitle(items) == LET name == NameIn(items) IN IF name = "none" THEN PreviewIn(items, Len(items)) ELSE name

(* The directories a session may belong to. *)

\* discoverSessionWorkingDirectories: what git says of the second worktree;
\* without git only the workspace is known.
Directories(git) == IF git = "linked" THEN <<WorkspaceCwd, 2>> ELSE <<WorkspaceCwd>>
GitAnswers == {"linked", "bare", "prunable", "directory missing", "no repository"}

\* resolveSessionRoots: --session-dir, the environment and the settings put the
\* sessions of every directory under one root, 0; else each has its own.
Root(setting, cwd) == IF setting = "default" THEN cwd ELSE 0
Settings == {"default", "configured"}

\* prioritizeSessionRoots: linked worktrees, the workspace, shared roots.
SessionRoots(setting, directories) ==
    LET roots == {Root(setting, directories[i]) : i \in DOMAIN directories}
        owners(r) == {i \in DOMAIN directories : Root(setting, directories[i]) = r}
        rank(r) == IF Cardinality(owners(r)) > 1 THEN 3 ELSE IF owners(r) = {1} THEN 2 ELSE 1 IN
    SetToSortSeq(roots, LAMBDA a, b : rank(a) < rank(b))

\* A file of an unrelated directory lies only under a configured root.
RootOfFile(setting, f) == Root(setting, CwdOf(f))
Exists(f) == disk[f] # <<>>

NotFinding == [stage |-> "idle", git |-> "linked", setting |-> "default", roots |-> <<>>, walked |-> FALSE,
          rg |-> "running", scanned |-> <<>>, paths |-> <<>>, at |-> [f \in SessionFileIds |-> "waiting"],
          size |-> [f \in SessionFileIds |-> 0], titles |-> <<>>]

\* ghost: the titles each file had since the discovery began, and whether
\* nothing happened meanwhile.
NothingSeen == [titles |-> [f \in SessionFileIds |-> {}], appends |-> 0, quiet |-> TRUE]

See(d) == [f \in SessionFileIds |-> IF finder.stage = "idle" THEN {} ELSE
               witnessed.titles[f] \cup (IF d[f] = <<>> THEN {} ELSE {PiTitle(d[f])})]

\* Pi appends, or the user deletes a file.
PiAppends(f, item) ==
    /\ Exists(f) /\ Len(disk[f]) < MaxRecords /\ witnessed.appends < MaxAppends
    /\ disk' = [disk EXCEPT ![f] = Append(@, item)]
    /\ witnessed' = [titles |-> See(disk'), appends |-> witnessed.appends + 1, quiet |-> FALSE]
    /\ UNCHANGED finder

UserDeletes(f) ==
    /\ Exists(f) /\ witnessed.appends < MaxAppends
    /\ disk' = [disk EXCEPT ![f] = <<>>]
    /\ witnessed' = [witnessed EXCEPT !.appends = @ + 1, !.quiet = FALSE]
    /\ UNCHANGED finder

Discover(git, setting) ==
    /\ finder.stage = "idle"
    /\ finder' = [NotFinding EXCEPT !.stage = "finding", !.git = git, !.setting = setting,
                               !.roots = SessionRoots(setting, Directories(git))]
    /\ witnessed' = [witnessed EXCEPT !.titles = [f \in SessionFileIds |-> IF Exists(f) THEN {PiTitle(disk[f])} ELSE {}],
                                      !.quiet = TRUE]
    /\ UNCHANGED disk

UnderRoots == {f \in SessionFileIds : RootOfFile(finder.setting, f) \in ToSet(finder.roots)}

\* ripgrep reads a file as it is then; the last name and the number of bytes
\* searched are what is kept of it (applyRipgrepEvent).
RipgrepReads(f) ==
    /\ finder.stage = "finding" /\ finder.rg = "running" /\ f \in UnderRoots \ DOMAIN finder.scanned /\ Exists(f)
    /\ finder' = [finder EXCEPT !.scanned = [g \in DOMAIN @ \cup {f} |->
          IF g # f THEN @[g] ELSE [bytes |-> Len(disk[f]), info |-> LastAt(disk[f], Names \cup {"clear"}) # 0,
                                   name |-> NameIn(disk[f])]]]
    /\ UNCHANGED <<disk, witnessed>>

\* It is not installed, times out, breaks its protocol, or has read everything.
RipgrepEnds(complete) ==
    /\ finder.stage = "finding" /\ finder.rg = "running"
    /\ complete => \A f \in UnderRoots : Exists(f) => f \in DOMAIN finder.scanned
    /\ finder' = [finder EXCEPT !.rg = IF complete THEN "complete" ELSE "failed",
                                !.scanned = IF complete THEN @ ELSE <<>>]
    /\ UNCHANGED <<disk, witnessed>>

\* findJsonlFiles: root by root, up to the limit.
Walked ==
    LET under(r) == SetToSortSeq({f \in SessionFileIds : Exists(f) /\ RootOfFile(finder.setting, f) = r}, >)
        found == FlattenSeq([i \in DOMAIN finder.roots |-> under(finder.roots[i])]) IN
    SubSeq(found, 1, IF Len(found) < MaxListed THEN Len(found) ELSE MaxListed)

Walk ==
    /\ finder.stage = "finding" /\ ~finder.walked
    /\ finder' = [finder EXCEPT !.walked = TRUE, !.paths = Walked]
    /\ UNCHANGED <<disk, witnessed>>

Reading(f) == finder.stage = "finding" /\ finder.walked /\ finder.rg # "running" /\ f \in ToSet(finder.paths)

Entry(f, title) ==
    [finder EXCEPT !.at[f] = "read", !.titles = [g \in DOMAIN @ \cup {f} |-> IF g = f THEN title ELSE @[g]]]
NoEntry(f) == [finder EXCEPT !.at[f] = "read"]

\* readFastOrFallbackMetadata: the scan counts if it found a name record and
\* the file has not grown since.
LookUp(f) ==
    /\ Reading(f) /\ finder.at[f] = "waiting"
    /\ finder' =
        IF ~(f \in DOMAIN finder.scanned /\ finder.scanned[f].info) THEN [finder EXCEPT !.at[f] = "stat"]
        ELSE IF ~Exists(f) THEN NoEntry(f)
        ELSE IF Len(disk[f]) # finder.scanned[f].bytes THEN [finder EXCEPT !.at[f] = "stat"]
        ELSE IF finder.scanned[f].name = "none" THEN [finder EXCEPT !.at[f] = "stat unnamed"]
        ELSE Entry(f, finder.scanned[f].name)
    /\ UNCHANGED <<disk, witnessed>>

\* readPiSessionMetadata: the size first, then the windows of that size.
Stat(f) ==
    /\ Reading(f) /\ finder.at[f] \in {"stat", "stat unnamed"}
    /\ finder' = IF ~Exists(f) THEN NoEntry(f)
                 ELSE [finder EXCEPT !.at[f] = IF @ = "stat" THEN "open" ELSE "open unnamed", !.size[f] = Len(disk[f])]
    /\ UNCHANGED <<disk, witnessed>>

\* A file that is gone between the two fails the whole discovery.
OpenFile(f) ==
    /\ Reading(f) /\ finder.at[f] \in {"open", "open unnamed"}
    /\ finder' = IF ~Exists(f) THEN [finder EXCEPT !.stage = "failed"]
                 ELSE Entry(f, IF finder.at[f] = "open" THEN TitleFromWindows(disk[f], finder.size[f])
                               ELSE PreviewIn(disk[f], finder.size[f]))
    /\ UNCHANGED <<disk, witnessed>>

\* Only what belongs to one of the directories is offered, grouped by them.
ListSessions ==
    /\ finder.stage = "finding" /\ finder.walked /\ finder.rg # "running"
    /\ \A f \in ToSet(finder.paths) : finder.at[f] = "read"
    /\ finder' = [finder EXCEPT !.stage = "listed", !.titles =
          [f \in {g \in DOMAIN @ : CwdOf(g) \in ToSet(Directories(finder.git))} |-> @[f]]]
    /\ UNCHANGED <<disk, witnessed>>

PickerCloses ==
    /\ finder.stage \in {"listed", "failed"}
    /\ finder' = NotFinding /\ witnessed' = [witnessed EXCEPT !.titles = NothingSeen.titles, !.quiet = TRUE]
    /\ UNCHANGED disk

Contents == {<<>>} \cup UNION {[1..n -> Records] : n \in 1..(MaxRecords - 2)}

\* Records up to the bound in the workspace's file; the others have a name.
FilesStart ==
    /\ \E items \in Contents : disk = [f \in SessionFileIds |-> <<"header">> \o (IF f = 1 THEN items ELSE <<"A">>)]
    /\ finder = NotFinding /\ witnessed = NothingSeen

FilesSteps ==
    \/ \E f \in {1} : (\E item \in {"B", "clear", "said"} : PiAppends(f, item))
    \/ \E f \in {1, 2} : UserDeletes(f)
    \/ \E git \in {"linked", "bare"}, setting \in Settings : Discover(git, setting)
    \/ \E f \in SessionFileIds : RipgrepReads(f) \/ LookUp(f) \/ Stat(f) \/ OpenFile(f)
    \/ \E complete \in BOOLEAN : RipgrepEnds(complete)
    \/ Walk \/ ListSessions \/ PickerCloses

(* Properties. *)

FilesTypes ==
    /\ \A f \in SessionFileIds : Len(disk[f]) <= MaxRecords /\ finder.size[f] <= MaxRecords
    /\ finder.stage \in {"idle", "finding", "listed", "failed"} /\ DOMAIN finder.titles \subseteq SessionFileIds

\* The file was read through the windows and its name lies in neither.
Hidden(f) == LET last == LastAt(SubSeq(disk[f], 1, finder.size[f]), Names \cup {"clear"}) IN
             last # 0 /\ last \notin InHead(finder.size[f]) \cup InTail(finder.size[f])

\* The scan found the name cleared, and the file grew before it was read again:
\* it is listed under a later preview, whatever name it may have by then.
LookedAtTwice(f) == finder.rg = "complete" /\ finder.scanned[f].info /\ finder.scanned[f].name = "none"
                    /\ finder.size[f] # finder.scanned[f].bytes

\* A session is listed under a title it had while the list was made, as Pi
\* would give it (SessionCatalog.ts:98): whether it comes from the scan or from
\* the windows, and however Pi appended meanwhile.
TitlesTrue ==
    \A f \in DOMAIN finder.titles : ~Exists(f) \/ Hidden(f) \/ LookedAtTwice(f) \/ finder.titles[f] \in witnessed.titles[f]

\* When nothing moved, every session of the directories is listed once the
\* limit allows it, and the worktrees' own come before what a shared root holds.
ListComplete ==
    finder.stage = "listed" /\ witnessed.quiet =>
        LET wanted == {f \in UnderRoots : Exists(f) /\ CwdOf(f) \in ToSet(Directories(finder.git))} IN
        /\ DOMAIN finder.titles \subseteq wanted
        /\ Cardinality({f \in UnderRoots : Exists(f)}) <= MaxListed => DOMAIN finder.titles = wanted
        /\ finder.setting = "default" /\ 2 \in wanted => 2 \in DOMAIN finder.titles

CatalogHonest == TitlesTrue /\ ListComplete
=============================================================================
