----------------------------- MODULE SessionTree ----------------------------
(* The tree of a session: the file Pi writes, the index the host keeps of it  *)
(* and extends entry by entry (SessionEntryState.ts), and the index that is   *)
(* built anew for the branch picker (sessionTreeProjection.ts).               *)
EXTENDS Naturals, Sequences, FiniteSets, SequencesExt

CONSTANTS MaxTree,    \* bounds the entries of the file
          OddFile     \* bounds the entries of a file that was not written by Pi
ASSUME TreeAssumption == MaxTree \in Nat /\ OddFile \in 0..MaxTree

VARIABLES
    treeFile,   \* the entries, in the order of the file
    treeLeaf,   \* the entry Pi goes on from, or TreeRoot
    entryState  \* what the host keeps: how much it has read, its nodes, path and leaf

treeVars == <<treeFile, treeLeaf, entryState>>

TreeRoot == 0
MissingEntry == MaxTree + 1
NodeIds == 1..MaxTree
EmptyState == [initialized |-> FALSE, cursor |-> 0, nodes |-> <<>>, activePath |-> <<>>, leaf |-> TreeRoot]

-----------------------------------------------------------------------------
(* Parents and paths.                                                          *)
\* The first entry of an id counts.
UniqueEntries(entries) ==
    SelectSeq([i \in DOMAIN entries |-> IF \E j \in 1..(i - 1) : entries[j].id = entries[i].id
                                        THEN [entries[i] EXCEPT !.id = TreeRoot] ELSE entries[i]],
              LAMBDA entry : entry.id # TreeRoot)
Ids(nodes) == {nodes[i].id : i \in DOMAIN nodes}
Node(nodes, id) == nodes[CHOOSE i \in DOMAIN nodes : nodes[i].id = id]

\* The chain of parents above an entry, and what stands at its top: an entry
\* without a parent in the file, or the first one to be met again.
ChainUp(nodes, from) ==
    LET climb[k \in 0..Len(nodes)] ==
            IF k = 0 THEN [chain |-> <<from>>, next |-> Node(nodes, from).parent]
            ELSE LET below == climb[k - 1] IN
                 IF below.next \notin Ids(nodes) \/ below.next \in Range(below.chain) THEN below
                 ELSE [chain |-> <<below.next>> \o below.chain, next |-> Node(nodes, below.next).parent]
    IN climb[Len(nodes)]
Circular(nodes, id) == ChainUp(nodes, id).next \in Ids(nodes)

\* An entry whose parents are missing or lead in a circle starts a path of its own.
ValidParent(nodes, id) ==
    LET parent == Node(nodes, id).parent IN
    IF parent \notin Ids(nodes) \/ Circular(nodes, id) THEN TreeRoot ELSE parent
ChildrenOf(nodes, id) == {lower \in Ids(nodes) : ValidParent(nodes, lower) = id}
PathTo(nodes, id) ==
    IF id \notin Ids(nodes) THEN <<>> ELSE IF Circular(nodes, id) THEN <<id>> ELSE ChainUp(nodes, id).chain
DescendantsOf(nodes, id) ==
    IF id = TreeRoot THEN Ids(nodes) ELSE {below \in Ids(nodes) \ {id} : id \in Range(PathTo(nodes, below))}
EndsBelow(nodes, id) == {end \in DescendantsOf(nodes, id) : ChildrenOf(nodes, end) = {}}

-----------------------------------------------------------------------------
(* The host's index.                                                           *)
\* A leaf whose chain is broken or circular is an error: history does not load.
PathBuilds(nodes, leaf) ==
    leaf = TreeRoot \/ (leaf \in Ids(nodes) /\ ChainUp(nodes, leaf).next = TreeRoot)
Replaced(entries, leaf) ==
    LET nodes == UniqueEntries(entries) IN
    [initialized |-> TRUE, cursor |-> Len(entries), nodes |-> nodes, leaf |-> leaf,
     activePath |-> IF leaf = TreeRoot THEN <<>> ELSE ChainUp(nodes, leaf).chain]

\* What leads from the host's leaf to Pi's must be among the new entries.
Continued(state, entries, leaf) ==
    LET distinct == UniqueEntries(entries)
        up == ChainUp(distinct, leaf) IN
    leaf = state.leaf \/ (leaf \in Ids(distinct) /\ (up.next = state.leaf \/ state.leaf \in Range(up.chain)))
Continuation(state, entries, leaf) ==
    LET chain == ChainUp(UniqueEntries(entries), leaf).chain IN
    IF leaf = state.leaf THEN <<>>
    ELSE IF state.leaf \in Range(chain) THEN SubSeq(chain, 1 + CHOOSE i \in DOMAIN chain : chain[i] = state.leaf, Len(chain))
    ELSE chain
\* Mutant: the new entries are followed but not kept.
Incremented_PathOnly(state, entries, leaf) ==
    [state EXCEPT !.cursor = @ + Len(entries), !.activePath = @ \o Continuation(state, entries, leaf), !.leaf = leaf]
Incremented(state, entries, leaf) ==
    [state EXCEPT !.cursor = @ + Len(entries),
                  !.nodes = UniqueEntries(@ \o entries),
                  !.activePath = @ \o Continuation(state, entries, leaf),
                  !.leaf = leaf]

\* The ends below a branch point, and the current one if it is no end.
PathCount_Ends(state, point) == Cardinality(EndsBelow(state.nodes, point))
PathCount(state, point) ==
    Cardinality(EndsBelow(state.nodes, point))
    + (IF state.leaf \in DescendantsOf(state.nodes, point) /\ ChildrenOf(state.nodes, state.leaf) # {} THEN 1 ELSE 0)

\* The controls of the active path: where it leaves a point others leave as well.
ActiveBranchEdges(state) ==
    LET path == <<TreeRoot>> \o state.activePath IN
    {[point |-> path[i], child |-> path[i + 1], pathCount |-> PathCount(state, path[i])] :
        i \in {j \in 1..(Len(path) - 1) : Cardinality(ChildrenOf(state.nodes, path[j])) >= 2}}

-----------------------------------------------------------------------------
(* The picker.                                                                 *)
\* The current one stands first, then the newest.
BranchEndChoices(entries, leaf, point) ==
    LET nodes == UniqueEntries(entries)
        ends == EndsBelow(nodes, point)
        current == IF leaf \in DescendantsOf(nodes, point) THEN leaf ELSE TreeRoot
        targets == (ends \cup {current}) \ {TreeRoot} IN
    IF point # TreeRoot /\ point \notin Ids(nodes) THEN <<>>
    ELSE SetToSortSeq({[target |-> id, isCurrent |-> id = current] : id \in targets},
                      LAMBDA a, b : a.isCurrent \/ (~b.isCurrent /\ a.target > b.target))

-----------------------------------------------------------------------------
(* Pi writes, moves its leaf, and is asked by the host.                        *)
\* A new entry has an id that occurs nowhere yet.
WriteEntry ==
    /\ Len(treeFile) < MaxTree
    /\ \E id \in NodeIds \ (Ids(treeFile) \cup {treeFile[i].parent : i \in DOMAIN treeFile}) :
        /\ \A lower \in 1..(id - 1) : \E i \in DOMAIN treeFile : lower \in {treeFile[i].id, treeFile[i].parent}
        /\ treeFile' = Append(treeFile, [id |-> id, parent |-> treeLeaf])
        /\ treeLeaf' = id
    /\ UNCHANGED entryState
MoveLeaf ==
    /\ \E leaf \in Ids(treeFile) \cup {TreeRoot} : leaf # treeLeaf /\ treeLeaf' = leaf
    /\ UNCHANGED <<treeFile, entryState>>

\* All entries; if the path cannot be built the state stays as it was.
GetEntries ==
    /\ entryState' = IF PathBuilds(UniqueEntries(treeFile), treeLeaf) THEN Replaced(treeFile, treeLeaf) ELSE entryState
    /\ UNCHANGED <<treeFile, treeLeaf>>
\* The entries since the last; if they do not go on from the host's leaf, all of them.
GetEntriesSince ==
    /\ entryState.initialized
    /\ LET entries == SubSeq(treeFile, entryState.cursor + 1, Len(treeFile)) IN
       IF \/ treeLeaf = entryState.leaf
          \/ (treeLeaf # TreeRoot /\ treeLeaf \in Ids(UniqueEntries(entries)) /\ Continued(entryState, entries, treeLeaf))
       THEN entryState' = Incremented(entryState, entries, treeLeaf) /\ UNCHANGED <<treeFile, treeLeaf>>
       ELSE GetEntries
ResetEntries ==
    /\ entryState.initialized /\ entryState' = EmptyState
    /\ UNCHANGED <<treeFile, treeLeaf>>

-----------------------------------------------------------------------------
\* A file of Pi's, or one whose entries repeat, miss their parents or form circles.
OddEntries == [id : 1..OddFile, parent : (TreeRoot..OddFile) \cup {MissingEntry}]
TreeStarts ==
    /\ treeFile \in BoundedSeq(OddEntries, OddFile)
    /\ treeLeaf \in Ids(treeFile) \cup {TreeRoot}
    /\ entryState = EmptyState

TreeSteps == WriteEntry \/ MoveLeaf \/ GetEntries \/ GetEntriesSince \/ ResetEntries

TreeTypes ==
    /\ treeLeaf \in NodeIds \cup {TreeRoot}
    /\ entryState.cursor \in 0..MaxTree
    /\ entryState.leaf \in NodeIds \cup {TreeRoot}
    /\ Range(entryState.activePath) \subseteq Ids(entryState.nodes)

\* What was read piece by piece is what reading everything would have given
\* (SessionEntryState.ts:79).
IncrementIsWhole ==
    entryState.initialized =>
        entryState = Replaced(SubSeq(treeFile, 1, entryState.cursor), entryState.leaf)

\* A control that promises a number of paths opens a picker with as many, one of
\* them the current (sessionTreeProjection.ts:240).
CountsAreOffered ==
    entryState.initialized /\ entryState.cursor = Len(treeFile) /\ entryState.leaf = treeLeaf =>
        \A edge \in ActiveBranchEdges(entryState) :
            LET choices == BranchEndChoices(treeFile, treeLeaf, edge.point) IN
            /\ Len(choices) = edge.pathCount /\ edge.pathCount >= 2
            /\ \A i \in DOMAIN choices : choices[i].isCurrent <=> i = 1
            /\ choices[1].target = treeLeaf

\* Whatever the file looks like, every entry lies on a path that can be chosen
\* from the start (sessionTreeProjection.ts:120).
NothingUnreachable ==
    LET choices == BranchEndChoices(treeFile, treeLeaf, TreeRoot)
        nodes == UniqueEntries(treeFile) IN
    Ids(treeFile) = UNION {Range(PathTo(nodes, choices[i].target)) : i \in DOMAIN choices}

\* The index that is kept, the one that is built anew and the file agree.
TreeHonest == IncrementIsWhole /\ CountsAreOffered /\ NothingUnreachable
=============================================================================
