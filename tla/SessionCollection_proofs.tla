---------------------- MODULE SessionCollection_proofs ----------------------
(***************************************************************************)
(* Proofs about SessionCollection for any number of calls, files, sessions,*)
(* failed writes and lives of the host, with either way to restore the     *)
(* selection.                                                              *)
(*                                                                         *)
(* The argument: an id that was drawn for a new entry belongs to one call  *)
(* (UnbornInv), so an entry that left the collection cannot come back; a   *)
(* call waits for one snapshot and what it promises is true of that        *)
(* snapshot and of all that are queued after it (GoneInv, KeptInv); and    *)
(* the last snapshot of the queue is the present collection (LatestInv).   *)
(***************************************************************************)
EXTENDS SessionCollection, SequenceTheorems, WellFoundedInduction, TLAPS

-----------------------------------------------------------------------------
(* Induction over numbers, as a least counterexample                       *)

\* Every set of numbers that is not empty has a least one.
LEMMA LeastNumber ==
  ASSUME NEW T, T \subseteq Nat, T # {}
  PROVE  \E m \in T : \A k \in T : m <= k
<1> DEFINE R == OpToRel(<, Nat)
<1>1. IsWellFoundedOn(R, Nat)
  BY NatLessThanWellFounded
<1>2. PICK m \in T : \A k \in T : <<k, m>> \notin R
  BY <1>1, WFMin, Zenon
<1>3. \A k \in T : ~(k < m)
  BY <1>2 DEF OpToRel
<1>. QED
  BY <1>3

\* A set that has zero and, up to a bound, the successor of each of its members has all
\* numbers up to the bound.
LEMMA Counting ==
  ASSUME NEW m \in Nat, NEW T, 0 \in T, \A n \in 1..m : n - 1 \in T => n \in T
  PROVE  0..m \subseteq T
<1> DEFINE B == {n \in 0..m : n \notin T}
<1> SUFFICES ASSUME B # {} PROVE FALSE
  OBVIOUS
<1>1. B \subseteq Nat
  OBVIOUS
<1>2. PICK n \in B : \A k \in B : n <= k
  <2> HIDE DEF B
  <2>. QED
    BY <1>1, LeastNumber
<1>3. n \in 1..m /\ n - 1 \notin B
  BY <1>2
<1>. QED
  BY <1>3

-----------------------------------------------------------------------------
(* Only: the entries of a sequence that are in a set                       *)

\* What Only computes for the first n entries, from what it computed for one entry less.
OneStep(ss, S, g, n) == IF ss[n] \in S THEN Append(g[n - 1], ss[n]) ELSE g[n - 1]
Obeys(ss, S, g, m) == g[0] = <<>> /\ \A n \in 1..m : g[n] = OneStep(ss, S, g, n)

\* There is such a function,
LEMMA UpToExists ==
  ASSUME NEW E, NEW ss \in Seq(E), NEW S
  PROVE  \E g \in [0..Len(ss) -> Seq(E)] : Obeys(ss, S, g, Len(ss))
<1> DEFINE T == {m \in 0..Len(ss) : \E g \in [0..m -> Seq(E)] : Obeys(ss, S, g, m)}
<1>0. Len(ss) \in Nat
  OBVIOUS
<1>1. 0 \in T
  <2>1. [i \in 0..0 |-> <<>>] \in [0..0 -> Seq(E)]
    OBVIOUS
  <2>2. Obeys(ss, S, [i \in 0..0 |-> <<>>], 0)
    BY DEF Obeys
  <2>3. \E g \in [0..0 -> Seq(E)] : Obeys(ss, S, g, 0)
    BY <2>1, <2>2, Zenon
  <2>. QED
    BY <2>3, <1>0
<1>2. ASSUME NEW m \in 1..Len(ss), m - 1 \in T PROVE m \in T
  <2>1. PICK g \in [0..(m-1) -> Seq(E)] : Obeys(ss, S, g, m-1)
    BY <1>2
  <2> DEFINE h == [i \in 0..m |-> IF i = m THEN OneStep(ss, S, g, m) ELSE g[i]]
  <2>2. OneStep(ss, S, g, m) \in Seq(E)
    <3>1. g[m-1] \in Seq(E) /\ ss[m] \in E
      BY <1>0, <1>2
    <3>. QED
      BY <3>1 DEF OneStep
  <2>3. h \in [0..m -> Seq(E)]
    BY <2>2, <1>2, <1>0
  <2>4. Obeys(ss, S, h, m)
    <3>1. h[0] = <<>>
      BY <2>1, <1>2, <1>0 DEF Obeys
    <3>2. ASSUME NEW n \in 1..m PROVE h[n] = OneStep(ss, S, h, n)
      <4>1. h[n-1] = g[n-1]
        BY <1>2, <1>0
      <4>2. h[n] = OneStep(ss, S, g, n)
        BY <2>1, <1>2, <1>0 DEF Obeys
      <4>. QED
        BY <4>1, <4>2 DEF OneStep
    <3>. QED
      BY <3>1, <3>2 DEF Obeys
  <2> HIDE DEF h
  <2>. QED
    BY <2>3, <2>4, <1>0
<1> HIDE DEF T
<1>3. \A m \in 1..Len(ss) : m - 1 \in T => m \in T
  BY <1>2
<1>4. 0..Len(ss) \subseteq T
  BY <1>0, <1>1, <1>3, Counting, Zenon
<1>5. Len(ss) \in T
  BY <1>0, <1>4
<1>. QED
  BY <1>5 DEF T

\* and Only is its last value.
LEMMA OnlyIsLast ==
  ASSUME NEW E, NEW ss \in Seq(E), NEW S
  PROVE  \E g \in [0..Len(ss) -> Seq(E)] : Obeys(ss, S, g, Len(ss)) /\ Only(ss, S) = g[Len(ss)]
<1>1. PICK g \in [0..Len(ss) -> Seq(E)] : Obeys(ss, S, g, Len(ss))
  BY UpToExists
<1> DEFINE Step(h) == [n \in 0..Len(ss) |->
             IF n = 0 THEN <<>> ELSE IF ss[n] \in S THEN Append(h[n - 1], ss[n]) ELSE h[n - 1]]
<1> DEFINE f == CHOOSE h : h = Step(h)
<1>0. Len(ss) \in Nat
  OBVIOUS
<1>2. g = Step(g)
  <2>1. ASSUME NEW n \in 0..Len(ss) PROVE g[n] = Step(g)[n]
    <3>1. CASE n = 0
      BY <3>1, <1>1, <1>0 DEF Obeys
    <3>2. CASE n # 0
      <4>1. n \in 1..Len(ss)
        BY <3>2
      <4>. QED
        BY <3>2, <4>1, <1>1, <1>0 DEF Obeys, OneStep
    <3>. QED
      BY <3>1, <3>2
  <2>. QED
    BY <2>1
<1> HIDE DEF Step
<1>3. f = Step(f)
  BY <1>2, Zenon
<1>4. Only(ss, S) = f[Len(ss)]
  BY Zenon DEF Only, Step
<1> HIDE DEF f
<1>5. f[0] = <<>> /\ \A n \in 1..Len(ss) : f[n] = OneStep(ss, S, f, n)
  <2>1. f[0] = Step(f)[0]
    BY <1>3, Zenon
  <2>2. f[0] = <<>>
    BY <2>1, <1>0 DEF Step
  <2>3. ASSUME NEW n \in 1..Len(ss) PROVE f[n] = OneStep(ss, S, f, n)
    <3>1. f[n] = Step(f)[n]
      BY <1>3, Zenon
    <3>. QED
      BY <3>1, <1>0 DEF Step, OneStep
  <2>. QED
    BY <2>2, <2>3
<1> DEFINE Same == {n \in 0..Len(ss) : f[n] = g[n]}
<1>6. 0 \in Same
  BY <1>0, <1>5, <1>1 DEF Obeys
<1>7. ASSUME NEW n \in 1..Len(ss), n - 1 \in Same PROVE n \in Same
  BY <1>5, <1>1, <1>7 DEF Obeys, OneStep
<1> HIDE DEF Same
<1>8. \A n \in 1..Len(ss) : n - 1 \in Same => n \in Same
  BY <1>7
<1>9. 0..Len(ss) \subseteq Same
  BY <1>0, <1>6, <1>8, Counting, Zenon
<1>10. f[Len(ss)] = g[Len(ss)]
  BY <1>9, <1>0 DEF Same
<1>. QED
  BY <1>1, <1>4, <1>10

\* What is appended joins the members.
LEMMA AppendMembers ==
  ASSUME NEW E, NEW q \in Seq(E), NEW e \in E
  PROVE  ToSet(Append(q, e)) = ToSet(q) \union {e}
<1>1. Len(q) \in Nat /\ DOMAIN q = 1..Len(q) /\ DOMAIN Append(q, e) = 1..(Len(q) + 1)
  OBVIOUS
<1>2. \A i \in 1..Len(q) : Append(q, e)[i] = q[i]
  OBVIOUS
<1>3. Append(q, e)[Len(q) + 1] = e
  OBVIOUS
<1>4. ToSet(Append(q, e)) \subseteq ToSet(q) \union {e}
  <2> SUFFICES ASSUME NEW i \in 1..(Len(q) + 1) PROVE Append(q, e)[i] \in ToSet(q) \union {e}
    BY <1>1 DEF ToSet
  <2>1. CASE i = Len(q) + 1
    BY <2>1, <1>3
  <2>2. CASE i \in 1..Len(q)
    BY <2>2, <1>1, <1>2 DEF ToSet
  <2>. QED
    BY <2>1, <2>2, <1>1
<1>5. ToSet(q) \subseteq ToSet(Append(q, e))
  <2> SUFFICES ASSUME NEW i \in 1..Len(q) PROVE q[i] \in ToSet(Append(q, e))
    BY <1>1 DEF ToSet
  <2>1. i \in DOMAIN Append(q, e) /\ Append(q, e)[i] = q[i]
    BY <1>1, <1>2
  <2>. QED
    BY <2>1 DEF ToSet
<1>6. e \in ToSet(Append(q, e))
  <2>1. Len(q) + 1 \in DOMAIN Append(q, e)
    BY <1>1
  <2>. QED
    BY <2>1, <1>3 DEF ToSet
<1>. QED
  BY <1>4, <1>5, <1>6

\* Only(ss, S) has exactly the members of ss that are in S.
LEMMA OnlyMembers ==
  ASSUME NEW E, NEW ss \in Seq(E), NEW S
  PROVE  /\ Only(ss, S) \in Seq(E)
         /\ ToSet(Only(ss, S)) = ToSet(ss) \cap S
<1>1. PICK g \in [0..Len(ss) -> Seq(E)] : Obeys(ss, S, g, Len(ss)) /\ Only(ss, S) = g[Len(ss)]
  BY OnlyIsLast
<1>0. Len(ss) \in Nat
  OBVIOUS
<1> DEFINE Upto(n) == {ss[i] : i \in 1..n}
<1> DEFINE T == {n \in 0..Len(ss) : ToSet(g[n]) = Upto(n) \cap S}
<1>2. 0 \in T
  BY <1>0, <1>1 DEF Obeys, ToSet
<1>3. ASSUME NEW n \in 1..Len(ss), n - 1 \in T PROVE n \in T
  <2>1. g[n - 1] \in Seq(E) /\ ss[n] \in E
    BY <1>0
  <2>2. Upto(n) = Upto(n - 1) \union {ss[n]}
    BY <1>0
  <2>3. ToSet(Append(g[n - 1], ss[n])) = ToSet(g[n - 1]) \union {ss[n]}
    BY <2>1, AppendMembers
  <2>. QED
    BY <1>1, <1>3, <2>2, <2>3 DEF Obeys, OneStep
<1> HIDE DEF T
<1>4. \A n \in 1..Len(ss) : n - 1 \in T => n \in T
  BY <1>3
<1>5. 0..Len(ss) \subseteq T
  BY <1>0, <1>2, <1>4, Counting, Zenon
<1>6. ToSet(g[Len(ss)]) = Upto(Len(ss)) \cap S
  BY <1>5, <1>0 DEF T
<1>. QED
  BY <1>1, <1>6, <1>0 DEF ToSet

\* To be in a sequence is to be a member of it.
LEMMA ContainsIsMember ==
  ASSUME NEW E, NEW q \in Seq(E), NEW e
  PROVE  Contains(q, e) <=> e \in ToSet(q)
  BY DEF Contains, ToSet

\* The least member of a set of numbers is in it.
LEMMA MinIsMember ==
  ASSUME NEW I, I \subseteq Nat, I # {}
  PROVE  Min(I) \in I
<1>1. PICK m \in I : \A k \in I : m <= k
  BY LeastNumber
<1>. QED
  BY <1>1, Zenon DEF Min

\* A snapshot is an index, of the entries that are neither provisional nor ephemeral.
LEMMA SnapshotIsIndex ==
  ASSUME NEW ss \in Seq(Ids), NEW provisional, NEW selected \in Ids \union {None}
  PROVE  /\ Snapshot(ss, provisional, selected) \in Index
         /\ ToSet(Snapshot(ss, provisional, selected).ids) = ToSet(ss) \ (provisional \union ephemeral)
<1> DEFINE hidden == provisional \union (ephemeral \cap ToSet(ss))
<1>1. /\ Only(ss, Ids \ hidden) \in Seq(Ids)
      /\ ToSet(Only(ss, Ids \ hidden)) = ToSet(ss) \cap (Ids \ hidden)
  BY OnlyMembers
<1>2. ToSet(ss) \subseteq Ids
  BY DEF ToSet
<1>3. ToSet(ss) \cap (Ids \ hidden) = ToSet(ss) \ (provisional \union ephemeral)
  BY <1>2
<1>. QED
  BY <1>1, <1>3 DEF Snapshot, Index

\* Removing an entry leaves the others.
LEMMA WithoutMembers ==
  ASSUME NEW ss \in Seq(Ids), NEW id
  PROVE  Without(ss, id) \in Seq(Ids) /\ ToSet(Without(ss, id)) = ToSet(ss) \ {id}
<1>1. ToSet(ss) \subseteq Ids
  BY DEF ToSet
<1>2. Only(ss, Ids \ {id}) \in Seq(Ids) /\ ToSet(Only(ss, Ids \ {id})) = ToSet(ss) \cap (Ids \ {id})
  BY OnlyMembers
<1>. QED
  BY <1>1, <1>2 DEF Without

\* The selection that is restored from an index is one of its entries.
LEMMA RestoredIsEntry ==
  ASSUME NEW index \in Index
  PROVE  /\ Restored(index) \in Ids \union {None}
         /\ Restorable(Restored(index), index.ids)
  BY DEF Restored, Restorable, Index, Contains

-----------------------------------------------------------------------------
(* Types                                                                   *)

QueueEntry == [owner : Slots \union {None}, index : Index]

\* A snapshot that is queued keeps the type of the queue.
LEMMA SaveType ==
  ASSUME TypeOK, NEW owner \in Slots \union {None}, NEW ss \in Seq(Ids), NEW provisional,
         NEW selected \in Ids \union {None}
  PROVE  Save(owner, ss, provisional, selected) \in Seq(QueueEntry)
<1>1. Snapshot(ss, provisional, selected) \in Index
  BY SnapshotIsIndex
<1>2. saveQueue \in Seq(QueueEntry)
  BY DEF TypeOK, QueueEntry
<1>. QED
  BY <1>1, <1>2 DEF Save, QueueEntry

-----------------------------------------------------------------------------
(* The invariant                                                           *)

CallRecords == [op : Ops, pc : Pcs, id : Ids \union {None}, victim : Ids \union {None}]

\* What a call holds at each of its awaits.
Shape(c) ==
  /\ c.pc = "idle" <=> c.op = "none"
  /\ c.victim # None <=> c.pc = "discarding"
  /\ c.id = None => c.op \in {"none", "clear"} \/ (c.op = "open" /\ c.pc = "picking")
  /\ c.op = "clear" => c.id = None
  /\ c.pc = "picking" => c.op \in {"create", "open"}
  /\ c.pc \in {"discarding", "saved", "starting"}
       => c.op \in {"create", "open", "reopen", "activate"}
  /\ c.pc \in {"confirming", "disposing"} => c.op = "close"
  /\ c.pc \in {"ensuring", "prompting", "polling"} => c.op = "prompt"

TypeInv == TypeOK /\ \A s \in Slots : Shape(calls[s])

\* The id of an entry that is not registered yet belongs to the call that will do so.
Unborn(c) == c.op \in {"create", "open"} /\ c.pc \in {"picking", "discarding"} /\ c.id # None

\* The ids of the i-th snapshot that waits.
Queued(i) == ToSet(saveQueue[i].index.ids)

\* Ids are drawn in order: nothing holds one that was not drawn. A provisional entry is
\* an entry, and not an ephemeral one.
Drawn == 1..used

DrawnInv ==
  /\ ToSet(sessions) \subseteq Drawn /\ ToSet(stored.ids) \subseteq Drawn
  /\ ephemeral \subseteq Drawn /\ gone \subseteq Drawn
  /\ \A i \in DOMAIN saveQueue : Queued(i) \subseteq Drawn
  /\ \A s \in Slots : calls[s].id \in Drawn \union {None}
  /\ temporary \subseteq ToSet(sessions) \ ephemeral

UnbornInv == \A s \in Slots : Unborn(calls[s]) =>
  /\ calls[s].id \notin ToSet(sessions) \union gone
  /\ calls[s].op = "open" => calls[s].id \notin ephemeral
  /\ \A t \in Slots \ {s} : calls[t].id # calls[s].id

\* A process belongs to an entry, and what is being removed was disposed before.
ProcessInv ==
  /\ \A id \in Ids : status[id] \in {"starting", "ready"}
       => id \in ToSet(sessions) \ disposed /\ ~closed
  /\ begun => startQueue # <<>>
              /\ (Head(startQueue) \in disposed \/ status[Head(startQueue)] = "starting")
  /\ \A s \in Slots : /\ calls[s].pc = "discarding" => calls[s].victim \in disposed
                      /\ calls[s].pc = "disposing" => calls[s].id \in disposed

\* The last snapshot that waits, or the index if none does, is the present collection.
LatestInv ==
  ~closed /\ ~halfway =>
    IF saveQueue = <<>> THEN lastSave = "ok" => stored = Snapshot(sessions, temporary, active)
    ELSE saveQueue[Len(saveQueue)].index = Snapshot(sessions, temporary, active)

\* A call waits for one snapshot at most.
OwnerInv == \A k \in DOMAIN saveQueue : saveQueue[k].owner # None =>
  /\ calls[saveQueue[k].owner].pc = "saving"
  /\ \A j \in DOMAIN saveQueue \ {k} : saveQueue[j].owner # saveQueue[k].owner

\* What was closed is in no snapshot; what is being closed in none from its own on.
GoneInv ==
  /\ \A id \in gone : /\ id \notin ToSet(sessions) /\ id \notin ToSet(stored.ids)
                      /\ \A i \in DOMAIN saveQueue : id \notin Queued(i)
  /\ \A k \in DOMAIN saveQueue :
       saveQueue[k].owner # None /\ calls[saveQueue[k].owner].op = "close" =>
         /\ calls[saveQueue[k].owner].id \notin ToSet(sessions)
         /\ \A i \in DOMAIN saveQueue : i >= k => calls[saveQueue[k].owner].id \notin Queued(i)

\* What is kept is in the index, in every snapshot and nowhere on its way out; what is
\* about to be kept is in every snapshot from its own on.
KeptInv ==
  /\ \A id \in kept : /\ id \in ToSet(sessions) /\ id \notin temporary \union ephemeral
                      /\ id \in ToSet(stored.ids) /\ ~Ending(id)
                      /\ \A i \in DOMAIN saveQueue : id \in Queued(i)
  /\ \A k \in DOMAIN saveQueue :
       /\ saveQueue[k].owner # None /\ calls[saveQueue[k].owner].op \in {"open", "prompt"}
       /\ calls[saveQueue[k].owner].id \in ToSet(sessions)
       => /\ calls[saveQueue[k].owner].id \notin temporary \union ephemeral
          /\ \A i \in DOMAIN saveQueue : i >= k => calls[saveQueue[k].owner].id \in Queued(i)

CollectionInv == /\ TypeInv /\ DrawnInv /\ UnbornInv /\ ProcessInv
                 /\ LatestInv /\ OwnerInv /\ GoneInv /\ KeptInv

-----------------------------------------------------------------------------
(* The kinds of steps                                                      *)

\* Only the call changes, and maybe a start is asked for.
Moves(s, n) ==
  /\ calls' = [calls EXCEPT ![s] = n] /\ n \in CallRecords /\ Shape(n) /\ ~Unborn(n)
  /\ calls[s].pc \notin {"saving", "discarding", "disposing"}
  /\ n.pc \notin {"saving", "discarding", "disposing"}
  /\ n.id \in ToSet(sessions) \union {None, calls[s].id}
  /\ made' \in 0..MaxCalls
  /\ UNCHANGED <<startQueue, status>> \/ \E id \in Ids : RequestStart(id)
  /\ UNCHANGED <<collection, closed, ids, disposed, begun, saves, life, halfway, ghosts>>

\* What a call is about to register, and what is known of the call c that s makes.
Enters(s, c) ==
  /\ c \in CallRecords /\ c.op \in {"create", "open", "reopen", "activate"}
  /\ c.id # None /\ c.id <= used'
  /\ calls[s].pc \in {"idle", "picking", "discarding"} /\ c.victim = calls[s].victim
  /\ c.id \in ToSet(sessions) \union {calls[s].id} \/ c.id > used
  /\ c.op \in {"create", "open"} => /\ c.id \notin ToSet(sessions) \union gone
                                    /\ \A t \in Slots \ {s} : calls[t].id # c.id
                                    /\ c.op = "open" => c.id \notin ephemeral
  /\ used' \in used..MaxSessions /\ file' \in [Ids -> Files \union {NoFile}]
  /\ made' \in 0..MaxCalls /\ UNCHANGED ephemeral

\* A call disposes the selection and waits for it.
Discards(s, c) ==
  /\ Enters(s, c) /\ calls[s].pc # "discarding" /\ Discardable(active) /\ Dispose({active})
  /\ calls' = [calls EXCEPT ![s] = [c EXCEPT !.pc = "discarding", !.victim = active]]
  /\ UNCHANGED <<collection, closed, starts, saves, life, halfway, ghosts>>

\* A call selects its entry; what it discarded is gone from ss.
Proceeds(s, c, ss, selected) ==
  /\ Enters(s, c)
  /\ ss \in Seq(Ids) /\ ToSet(ss) = ToSet(sessions) \ {c.victim} /\ selected \in Ids \union {None}
  /\ c.victim = None => ss = sessions /\ selected = active
  /\ Proceed(s, c, ss, temporary \ {c.victim}, retained \ {c.victim}, selected)
  /\ UNCHANGED runtimes

\* A call changes the collection and saves it; what it removes (close) or keeps (prompt)
\* is the entry with its id.
Commits(s, c, ss, kept_, selected) ==
  /\ c \in CallRecords /\ ss \in Seq(Ids) /\ selected \in Ids \union {None}
  /\ kept_ \subseteq Ids
  /\ (c = calls[s] /\ c.pc \in {"disposing", "prompting", "polling"})
     \/ (calls[s].pc = "idle" /\ c.op = "clear" /\ c.id = None /\ c.victim = None)
  /\ \/ c.op = "clear" /\ ss = sessions
     \/ c.op = "close" /\ c.pc = "disposing" /\ ToSet(ss) = ToSet(sessions) \ {c.id}
     \/ c.op = "prompt" /\ c.id \in temporary /\ ss = sessions
  /\ Commit(s, c, ss, temporary \ {c.id}, kept_, selected)
  /\ made' \in 0..MaxCalls
  /\ UNCHANGED <<closed, ids, runtimes, starts, life, halfway, ghosts>>

\* What waits in the queue.
LEMMA QueueTyped ==
  ASSUME TypeOK
  PROVE  /\ saveQueue \in Seq(QueueEntry) /\ Len(saveQueue) \in Nat
         /\ DOMAIN saveQueue = 1..Len(saveQueue)
         /\ \A k \in DOMAIN saveQueue :
              /\ saveQueue[k] \in QueueEntry /\ saveQueue[k].owner \in Slots \union {None}
              /\ saveQueue[k].index \in Index
<1>1. saveQueue \in Seq(QueueEntry)
  BY DEF TypeOK, QueueEntry
<1>2. \A k \in 1..Len(saveQueue) : saveQueue[k] \in QueueEntry
  BY <1>1, ElementOfSeq
<1>. QED
  BY <1>1, <1>2 DEF QueueEntry

\* The queue grows by a snapshot of the collection as it is then.
LEMMA SaveAppends ==
  ASSUME TypeOK, NEW owner \in Slots \union {None}, NEW ss \in Seq(Ids), NEW provisional,
         NEW selected \in Ids \union {None},
         saveQueue' = Save(owner, ss, provisional, selected)
  PROVE  /\ saveQueue' \in Seq(QueueEntry) /\ saveQueue' # <<>>
         /\ Len(saveQueue) \in Nat /\ Len(saveQueue') = Len(saveQueue) + 1
         /\ DOMAIN saveQueue = 1..Len(saveQueue) /\ DOMAIN saveQueue' = 1..(Len(saveQueue) + 1)
         /\ \A i \in 1..Len(saveQueue) : saveQueue'[i] = saveQueue[i]
         /\ saveQueue'[Len(saveQueue) + 1].owner = owner
         /\ saveQueue'[Len(saveQueue) + 1].index = Snapshot(ss, provisional, selected)
         /\ ToSet(saveQueue'[Len(saveQueue) + 1].index.ids) = ToSet(ss) \ (provisional \union ephemeral)
<1>1. /\ Snapshot(ss, provisional, selected) \in Index
      /\ ToSet(Snapshot(ss, provisional, selected).ids) = ToSet(ss) \ (provisional \union ephemeral)
  BY SnapshotIsIndex
<1>2. saveQueue \in Seq(QueueEntry)
  BY DEF TypeOK, QueueEntry
<1> DEFINE e == [owner |-> owner, index |-> Snapshot(ss, provisional, selected)]
<1>3. e \in QueueEntry /\ saveQueue' = Append(saveQueue, e)
  BY <1>1 DEF Save, QueueEntry
<1>4. e.owner = owner /\ e.index = Snapshot(ss, provisional, selected)
  OBVIOUS
<1> HIDE DEF e
<1>5. /\ saveQueue' \in Seq(QueueEntry) /\ saveQueue' # <<>>
      /\ Len(saveQueue) \in Nat /\ Len(saveQueue') = Len(saveQueue) + 1
      /\ DOMAIN saveQueue = 1..Len(saveQueue) /\ DOMAIN saveQueue' = 1..(Len(saveQueue) + 1)
      /\ \A i \in 1..Len(saveQueue) : saveQueue'[i] = saveQueue[i]
      /\ saveQueue'[Len(saveQueue) + 1] = e
  BY <1>2, <1>3
<1>. QED
  BY <1>1, <1>4, <1>5

\* The head of the queue leaves it.
LEMMA QueueShrinks ==
  ASSUME TypeOK, saveQueue # <<>>, saveQueue' = Tail(saveQueue)
  PROVE  /\ saveQueue' \in Seq(QueueEntry) /\ Len(saveQueue) \in Nat \ {0}
         /\ DOMAIN saveQueue = 1..Len(saveQueue) /\ DOMAIN saveQueue' = 1..(Len(saveQueue) - 1)
         /\ Len(saveQueue') = Len(saveQueue) - 1
         /\ saveQueue' = <<>> <=> Len(saveQueue) = 1
         /\ Head(saveQueue) = saveQueue[1] /\ saveQueue[1] \in QueueEntry
         /\ \A i \in 1..(Len(saveQueue) - 1) : saveQueue'[i] = saveQueue[i + 1]
         /\ \A i \in 1..(Len(saveQueue) - 1) : Queued(i)' = Queued(i + 1)
<1>1. saveQueue \in Seq(QueueEntry)
  BY DEF TypeOK, QueueEntry
<1>2. \A i \in 1..(Len(saveQueue) - 1) : saveQueue'[i] = saveQueue[i + 1]
  BY <1>1
<1>3. ASSUME NEW i \in 1..(Len(saveQueue) - 1) PROVE Queued(i)' = Queued(i + 1)
  BY <1>2 DEF Queued
<1>4. /\ saveQueue' \in Seq(QueueEntry) /\ Len(saveQueue) \in Nat \ {0}
      /\ DOMAIN saveQueue = 1..Len(saveQueue) /\ DOMAIN saveQueue' = 1..(Len(saveQueue) - 1)
      /\ Len(saveQueue') = Len(saveQueue) - 1
      /\ Head(saveQueue) = saveQueue[1] /\ saveQueue[1] \in QueueEntry
  BY <1>1
<1>5. saveQueue' = <<>> <=> Len(saveQueue) = 1
  BY <1>4
<1>. QED
  BY <1>2, <1>3, <1>4, <1>5

\* A start that is asked for makes no process.
LEMMA RequestIsHarmless ==
  ASSUME TypeOK, NEW id \in Ids,
         UNCHANGED <<startQueue, status>> \/ \E i \in Ids : RequestStart(i)
  PROVE  /\ startQueue' \in Seq(Ids)
         /\ status' \in [Ids -> {"stopped", "queued", "starting", "ready", "failed", "stopping"}]
         /\ status'[id] \in {status[id], "queued"}
         /\ startQueue # <<>> => startQueue' # <<>> /\ Head(startQueue') = Head(startQueue)
                                 /\ status'[Head(startQueue)] = status[Head(startQueue)]
<1>1. CASE UNCHANGED <<startQueue, status>>
  BY <1>1 DEF TypeOK
<1>2. ASSUME NEW i \in Ids, RequestStart(i), ~Contains(startQueue, i)
      PROVE  /\ startQueue' = Append(startQueue, i)
             /\ status' = [status EXCEPT ![i] = status'[i]] /\ status'[i] \in {status[i], "queued"}
  BY <1>2 DEF TypeOK, RequestStart
<1>3. ASSUME NEW i \in Ids, RequestStart(i), ~Contains(startQueue, i), startQueue # <<>>
      PROVE  i # Head(startQueue)
  BY <1>3 DEF TypeOK, Contains
<1>4. ASSUME NEW i \in Ids, RequestStart(i), Contains(startQueue, i)
      PROVE  UNCHANGED <<startQueue, status>>
  BY <1>4 DEF RequestStart
<1>5. ASSUME NEW i \in Ids, RequestStart(i), ~Contains(startQueue, i)
      PROVE  /\ startQueue' \in Seq(Ids)
             /\ startQueue # <<>> => startQueue' # <<>> /\ Head(startQueue') = Head(startQueue)
  <2>1. startQueue \in Seq(Ids) /\ startQueue' = Append(startQueue, i)
    BY <1>2, <1>5 DEF TypeOK
  <2>. QED
    BY <2>1, AppendProperties, HeadTailAppend
<1>6. startQueue # <<>> => Head(startQueue) \in Ids
  BY DEF TypeOK
<1>7. ASSUME NEW i \in Ids, RequestStart(i), ~Contains(startQueue, i)
      PROVE  /\ status' \in [Ids -> {"stopped", "queued", "starting", "ready", "failed", "stopping"}]
             /\ status'[id] \in {status[id], "queued"}
             /\ startQueue # <<>> => status'[Head(startQueue)] = status[Head(startQueue)]
  BY <1>2, <1>3, <1>6, <1>7 DEF TypeOK
<1>. QED
  BY <1>1, <1>4, <1>5, <1>7

\* A call moves on: the collection and its snapshots are left alone.
LEMMA MovesKeeps ==
  ASSUME CollectionInv, NEW s \in Slots, NEW n, Moves(s, n)
  PROVE  CollectionInv'
<1>1. /\ calls' \in [Slots -> CallRecords]
      /\ calls'[s] = n /\ \A t \in Slots \ {s} : calls'[t] = calls[t]
  BY DEF CollectionInv, TypeInv, TypeOK, Moves, CallRecords
<1>2. UNCHANGED <<collection, closed, ids, disposed, begun, saves, life, halfway, ghosts>>
  BY DEF Moves
<1>3. UNCHANGED <<sessions, temporary, retained, active, closed, file, ephemeral, used, disposed, begun,
                  saveQueue, stored, lastSave, failures, life, halfway, gone, kept>>
  BY <1>2 DEF collection, ids, saves, ghosts
<1>4. TypeInv'
  <2>1. startQueue' \in Seq(Ids)
        /\ status' \in [Ids -> {"stopped", "queued", "starting", "ready", "failed", "stopping"}]
    <3>1. 1 \in Ids
      BY CollectionBounds DEF Ids
    <3>. QED
      BY <3>1, RequestIsHarmless DEF CollectionInv, TypeInv, Moves
  <2>2. made' \in 0..MaxCalls
    BY DEF Moves
  <2>3. TypeOK'
    BY <1>1, <1>3, <2>1, <2>2 DEF CollectionInv, TypeInv, TypeOK, CallRecords
  <2>4. \A t \in Slots : Shape(calls'[t])
    BY <1>1 DEF CollectionInv, TypeInv, Moves
  <2>. QED
    BY <2>3, <2>4 DEF TypeInv, Shape
<1>5. DrawnInv'
  <2>1. n.id \in Drawn \union {None}
    BY DEF Moves, CollectionInv, DrawnInv
  <2>. QED
    BY <1>1, <1>3, <2>1 DEF CollectionInv, DrawnInv, Drawn, Queued
<1>6. UnbornInv'
  <2> SUFFICES ASSUME NEW t \in Slots, Unborn(calls'[t])
               PROVE  /\ calls'[t].id \notin ToSet(sessions) \union gone
                      /\ calls'[t].op = "open" => calls'[t].id \notin ephemeral
                      /\ \A u \in Slots \ {t} : calls'[u].id # calls'[t].id
    BY <1>3 DEF UnbornInv, Unborn
  <2>1. t # s /\ calls'[t] = calls[t]
    BY <1>1 DEF Moves
  <2>2. n.id # calls[t].id
    BY <2>1 DEF Moves, CollectionInv, UnbornInv, Unborn
  <2>. QED
    BY <1>1, <2>1, <2>2 DEF CollectionInv, UnbornInv
<1>7. ProcessInv'
  <2>1. \A t \in Slots : /\ calls'[t].pc = "discarding" => calls'[t].victim \in disposed
                         /\ calls'[t].pc = "disposing" => calls'[t].id \in disposed
    BY <1>1 DEF Moves, CollectionInv, ProcessInv
  <2>2. \A id \in Ids : status'[id] \in {status[id], "queued"}
    BY RequestIsHarmless DEF CollectionInv, TypeInv, Moves
  <2>3. startQueue # <<>> => startQueue' # <<>> /\ Head(startQueue') = Head(startQueue)
                             /\ status'[Head(startQueue)] = status[Head(startQueue)]
    <3>1. 1 \in Ids
      BY CollectionBounds DEF Ids
    <3>. QED
      BY <3>1, RequestIsHarmless DEF CollectionInv, TypeInv, Moves
  <2>. QED
    BY <1>3, <2>1, <2>2, <2>3 DEF CollectionInv, ProcessInv
<1>8. LatestInv'
  BY <1>3 DEF CollectionInv, LatestInv, Snapshot
<1>9. \A k \in DOMAIN saveQueue : saveQueue[k].owner # None => saveQueue[k].owner # s
  BY DEF CollectionInv, OwnerInv, Moves
<1>10. \A k \in DOMAIN saveQueue : saveQueue[k].owner # None =>
         saveQueue[k].owner \in Slots /\ calls'[saveQueue[k].owner] = calls[saveQueue[k].owner]
  BY <1>1, <1>9, QueueTyped DEF CollectionInv, TypeInv, QueueEntry
<1>11. OwnerInv'
  BY <1>3, <1>10 DEF CollectionInv, OwnerInv
<1>12. GoneInv'
  BY <1>3, <1>10 DEF CollectionInv, GoneInv, Queued
<1>13. KeptInv'
  <2>1. \A id \in kept : Ending(id)' => Ending(id)
    <3> SUFFICES ASSUME NEW id \in kept, NEW t \in Slots,
                        calls'[t].victim = id \/ (calls'[t].id = id /\ calls'[t].pc = "disposing")
                 PROVE  Ending(id)
      BY DEF Ending
    <3>1. id # None
      BY DEF CollectionInv, TypeInv, TypeOK, Ids, None
    <3>2. t # s
      BY <1>1, <3>1 DEF Moves, Shape
    <3>. QED
      BY <1>1, <3>2 DEF Ending
  <2>. QED
    BY <1>3, <1>10, <2>1 DEF CollectionInv, KeptInv, Queued
<1>. QED
  BY <1>4, <1>5, <1>6, <1>7, <1>8, <1>11, <1>12, <1>13 DEF CollectionInv

\* What a change of the collection may not do to what calls wait for, were kept or closed:
\* the calls that wait are left alone and their entries do not come back.
Gentle(o) ==
  /\ sessions' \in Seq(Ids) /\ active' \in Ids \union {None} /\ calls' \in [Slots -> CallRecords]
  /\ UNCHANGED <<ephemeral, stored, gone, kept>>
  /\ \A s \in Slots : calls[s].pc = "saving" =>
       /\ calls'[s] = calls[s]
       /\ calls[s].id \in ToSet(sessions') => calls[s].id \in ToSet(sessions)
       /\ calls[s].id \in temporary' => calls[s].id \in temporary
  /\ o # None =>
       /\ calls[o].pc # "saving" /\ calls'[o].pc = "saving"
       /\ calls'[o].op = "close" => calls'[o].id \notin ToSet(sessions')
       /\ calls'[o].op \in {"open", "prompt"} => calls'[o].id \notin temporary' \union ephemeral
  /\ gone \cap ToSet(sessions') = {}
  /\ kept \subseteq ToSet(sessions') \ temporary'
  /\ \A id \in kept : Ending(id)' => Ending(id)

\* Such a change keeps what is said of the queue of snapshots, saved or not.
LEMMA QueueKeeps ==
  ASSUME CollectionInv, NEW o \in Slots \union {None}, Gentle(o),
         \/ saveQueue' = Save(o, sessions', temporary', active')
         \/ o = None /\ saveQueue' = saveQueue
  PROVE  /\ OwnerInv' /\ GoneInv' /\ KeptInv'
         /\ \A i \in DOMAIN saveQueue' : Queued(i)' \subseteq Drawn \union ToSet(sessions')
<1> DEFINE L == Len(saveQueue)
<1>1. /\ L \in Nat /\ DOMAIN saveQueue = 1..L
      /\ \A k \in 1..L : saveQueue[k].owner \in Slots \union {None}
  BY QueueTyped DEF CollectionInv, TypeInv
<1>2. \A k \in 1..L : saveQueue[k].owner # None =>
        /\ saveQueue[k].owner \in Slots /\ saveQueue[k].owner # o
        /\ calls'[saveQueue[k].owner] = calls[saveQueue[k].owner]
        /\ calls[saveQueue[k].owner].pc = "saving"
  BY <1>1 DEF CollectionInv, OwnerInv, Gentle
<1>3. CASE o = None /\ saveQueue' = saveQueue
  <2>1. OwnerInv'
    BY <1>1, <1>2, <1>3 DEF CollectionInv, OwnerInv
  <2>2. GoneInv'
    BY <1>1, <1>2, <1>3 DEF CollectionInv, GoneInv, Queued, Gentle
  <2>3. KeptInv'
    BY <1>1, <1>2, <1>3 DEF CollectionInv, KeptInv, Queued, Gentle
  <2>. QED
    BY <1>3, <2>1, <2>2, <2>3 DEF CollectionInv, DrawnInv, Queued
<1>4. CASE saveQueue' = Save(o, sessions', temporary', active')
  <2> HIDE DEF L
  <2>1. /\ DOMAIN saveQueue' = 1..(L + 1)
        /\ \A i \in 1..L : saveQueue'[i] = saveQueue[i]
        /\ saveQueue'[L + 1].owner = o
        /\ ToSet(saveQueue'[L + 1].index.ids) = ToSet(sessions') \ (temporary' \union ephemeral)
    <3>1. TypeOK /\ sessions' \in Seq(Ids) /\ active' \in Ids \union {None}
      BY DEF CollectionInv, TypeInv, Gentle
    <3>. QED
      BY <1>4, <3>1, SaveAppends DEF L
  <2>2. \A i \in 1..L : Queued(i)' = Queued(i)
    BY <2>1 DEF Queued
  <2>3. ASSUME NEW i, i = L + 1 PROVE Queued(i)' = ToSet(sessions') \ (temporary' \union ephemeral)
    BY <2>1, <2>3 DEF Queued
  <2>4. \A i \in 1..(L + 1) : i \in 1..L \/ i = L + 1
    BY <1>1
  <2>5. OwnerInv'
    BY <1>1, <1>2, <2>1, <2>4 DEF CollectionInv, OwnerInv, Gentle
  <2>6. GoneInv'
    <3>1. ASSUME NEW id \in gone PROVE /\ id \notin ToSet(sessions') /\ id \notin ToSet(stored.ids)
                                       /\ \A i \in 1..(L + 1) : id \notin Queued(i)'
      BY <1>1, <2>2, <2>3, <2>4 DEF CollectionInv, GoneInv, Gentle
    <3>2. ASSUME NEW k \in 1..(L + 1), saveQueue'[k].owner # None, calls'[saveQueue'[k].owner].op = "close"
          PROVE  /\ calls'[saveQueue'[k].owner].id \notin ToSet(sessions')
                 /\ \A i \in 1..(L + 1) : i >= k => calls'[saveQueue'[k].owner].id \notin Queued(i)'
      <4>1. CASE k \in 1..L
        <5>1. /\ calls[saveQueue[k].owner].id \notin ToSet(sessions)
              /\ \A i \in 1..L : i >= k => calls[saveQueue[k].owner].id \notin Queued(i)
          BY <1>1, <1>2, <2>1, <3>2, <4>1 DEF CollectionInv, GoneInv
        <5>2. calls[saveQueue[k].owner].id \notin ToSet(sessions')
          BY <1>2, <2>1, <3>2, <4>1, <5>1 DEF Gentle
        <5>. QED
          BY <1>2, <2>1, <2>2, <2>3, <2>4, <3>2, <4>1, <5>1, <5>2
      <4>2. CASE k = L + 1
        BY <1>1, <2>1, <2>3, <2>4, <3>2, <4>2 DEF Gentle
      <4>. QED
        BY <2>4, <4>1, <4>2
    <3>. QED
      BY <2>1, <3>1, <3>2 DEF GoneInv, Gentle
  <2>7. KeptInv'
    <3>1. ASSUME NEW id \in kept
          PROVE  /\ id \in ToSet(sessions') /\ id \notin temporary' \union ephemeral
                 /\ id \in ToSet(stored.ids) /\ ~Ending(id)'
                 /\ \A i \in 1..(L + 1) : id \in Queued(i)'
      BY <1>1, <2>2, <2>3, <2>4 DEF CollectionInv, KeptInv, Gentle
    <3>2. ASSUME NEW k \in 1..(L + 1), saveQueue'[k].owner # None,
                 calls'[saveQueue'[k].owner].op \in {"open", "prompt"},
                 calls'[saveQueue'[k].owner].id \in ToSet(sessions')
          PROVE  /\ calls'[saveQueue'[k].owner].id \notin temporary' \union ephemeral
                 /\ \A i \in 1..(L + 1) : i >= k => calls'[saveQueue'[k].owner].id \in Queued(i)'
      <4>1. CASE k \in 1..L
        <5>1. calls[saveQueue[k].owner].id \in ToSet(sessions)
          BY <1>2, <2>1, <3>2, <4>1 DEF Gentle
        <5>2. /\ calls[saveQueue[k].owner].id \notin temporary \union ephemeral
              /\ \A i \in 1..L : i >= k => calls[saveQueue[k].owner].id \in Queued(i)
          BY <1>1, <1>2, <2>1, <3>2, <4>1, <5>1 DEF CollectionInv, KeptInv
        <5>3. calls[saveQueue[k].owner].id \notin temporary'
          BY <1>2, <2>1, <3>2, <4>1, <5>2 DEF Gentle
        <5>. QED
          BY <1>2, <2>1, <2>2, <2>3, <2>4, <3>2, <4>1, <5>2, <5>3
      <4>2. CASE k = L + 1
        BY <1>1, <2>1, <2>3, <2>4, <3>2, <4>2 DEF Gentle
      <4>. QED
        BY <2>4, <4>1, <4>2
    <3>. QED
      BY <2>1, <3>1, <3>2 DEF KeptInv, Gentle
  <2>8. \A i \in 1..(L + 1) : Queued(i)' \subseteq Drawn \union ToSet(sessions')
    BY <1>1, <2>2, <2>3, <2>4 DEF CollectionInv, DrawnInv
  <2>. QED
    BY <2>1, <2>5, <2>6, <2>7, <2>8
<1>. QED
  BY <1>3, <1>4

\* A call disposes the selection: that is a provisional entry, which nothing keeps.
LEMMA DiscardsKeeps ==
  ASSUME CollectionInv, NEW s \in Slots, NEW c, Discards(s, c)
  PROVE  CollectionInv'
<1> DEFINE n == [c EXCEPT !.pc = "discarding", !.victim = active]
<1>1. /\ active \in Ids /\ active \in temporary /\ c \in CallRecords
  BY DEF Discards, Discardable, Enters, CollectionInv, TypeInv, TypeOK
<1>2. /\ n \in CallRecords /\ n.pc = "discarding" /\ n.victim = active /\ n.id = c.id /\ n.op = c.op
  BY <1>1 DEF CallRecords, Pcs
<1> HIDE DEF n
<1>3. /\ calls' \in [Slots -> CallRecords]
      /\ calls'[s] = n /\ \A t \in Slots \ {s} : calls'[t] = calls[t]
  BY <1>2 DEF CollectionInv, TypeInv, TypeOK, Discards, CallRecords, n
<1>4. /\ UNCHANGED <<sessions, temporary, retained, active, closed, startQueue, begun, saveQueue, stored,
                     lastSave, failures, life, halfway, gone, kept, ephemeral>>
      /\ disposed' = disposed \union {active}
      /\ status' = [id \in Ids |-> IF id = active THEN "stopping" ELSE status[id]]
  BY DEF Discards, Dispose, collection, starts, saves, ghosts, Enters
<1>5. Shape(n)
  BY <1>1, <1>2 DEF Shape, Discards, Enters, Ids, None
<1>6. TypeInv'
  <2>1. used' \in 0..MaxSessions /\ file' \in [Ids -> Files \union {NoFile}] /\ made' \in 0..MaxCalls
    BY DEF Discards, Enters, CollectionInv, TypeInv, TypeOK
  <2>2. TypeOK'
    BY <1>1, <1>3, <1>4, <2>1 DEF CollectionInv, TypeInv, TypeOK, CallRecords
  <2>3. \A t \in Slots : Shape(calls'[t])
    BY <1>3, <1>5 DEF CollectionInv, TypeInv
  <2>. QED
    BY <2>2, <2>3 DEF TypeInv, Shape
<1>7. used \in Nat /\ used' \in Nat /\ used <= used' /\ c.id \in 1..used'
  BY <1>1, CollectionBounds DEF Discards, Enters, CollectionInv, TypeInv, TypeOK, CallRecords, Ids, None
<1>8. DrawnInv'
  <2>1. Drawn \subseteq Drawn' /\ c.id \in Drawn'
    BY <1>7 DEF Drawn
  <2>. QED
    BY <1>2, <1>3, <1>4, <2>1 DEF CollectionInv, DrawnInv, Queued
<1>9. \A t \in Slots \ {s} : Unborn(calls[t]) => c.id # calls[t].id
  <2> SUFFICES ASSUME NEW t \in Slots \ {s}, Unborn(calls[t]) PROVE c.id # calls[t].id
    OBVIOUS
  <2>1. calls[t].id \notin ToSet(sessions) /\ calls[t].id # calls[s].id /\ calls[t].id \in 1..used
    BY DEF CollectionInv, UnbornInv, DrawnInv, Drawn, Unborn
  <2>. QED
    BY <2>1, <1>7 DEF Discards, Enters
<1>10. UnbornInv'
  <2> SUFFICES ASSUME NEW t \in Slots, Unborn(calls'[t])
               PROVE  /\ calls'[t].id \notin ToSet(sessions) \union gone
                      /\ calls'[t].op = "open" => calls'[t].id \notin ephemeral
                      /\ \A u \in Slots \ {t} : calls'[u].id # calls'[t].id
    BY <1>4 DEF UnbornInv, Unborn
  <2>1. CASE t = s
    BY <1>2, <1>3, <2>1 DEF Unborn, Discards, Enters
  <2>2. CASE t # s
    BY <1>2, <1>3, <1>9, <2>2 DEF CollectionInv, UnbornInv
  <2>. QED
    BY <2>1, <2>2
<1>11. ProcessInv'
  <2>1. \A t \in Slots : /\ calls'[t].pc = "discarding" => calls'[t].victim \in disposed'
                         /\ calls'[t].pc = "disposing" => calls'[t].id \in disposed'
    BY <1>2, <1>3, <1>4 DEF CollectionInv, ProcessInv
  <2>2. startQueue # <<>> => Head(startQueue) \in Ids
    BY DEF CollectionInv, TypeInv, TypeOK
  <2>. QED
    BY <1>4, <2>1, <2>2 DEF CollectionInv, ProcessInv
<1>12. LatestInv'
  BY <1>4 DEF CollectionInv, LatestInv, Snapshot
<1>13. OwnerInv' /\ GoneInv' /\ KeptInv'
  <2>1. active \notin kept
    BY <1>1 DEF CollectionInv, KeptInv
  <2>2. \A id \in kept : Ending(id)' => Ending(id)
    BY <1>2, <1>3, <2>1 DEF Ending
  <2>3. calls[s].pc # "saving"
    BY DEF Discards, Enters
  <2>4. Gentle(None)
    BY <1>3, <1>4, <2>2, <2>3 DEF Gentle, CollectionInv, TypeInv, TypeOK, GoneInv, KeptInv
  <2>. QED
    BY <1>4, <2>4, QueueKeeps
<1>. QED
  BY <1>6, <1>8, <1>10, <1>11, <1>12, <1>13 DEF CollectionInv

\* A creation draws an id that nobody has.
LEMMA CreateKeeps ==
  ASSUME CollectionInv, NEW s \in Slots, BeginCreate(s)
  PROVE  CollectionInv'
<1> DEFINE n == [op |-> "create", pc |-> "picking", id |-> used', victim |-> None]
<1>1. used \in Nat /\ used' = used + 1 /\ used' \in Ids /\ used' # None /\ made' \in 0..MaxCalls
      /\ calls[s].pc = "idle"
  BY CollectionBounds DEF BeginCreate, Free, Ids, None, CollectionInv, TypeInv, TypeOK
<1>2. n \in CallRecords /\ Shape(n) /\ n.pc = "picking" /\ n.op = "create" /\ n.id = used' /\ n.victim = None
  BY <1>1 DEF CallRecords, Pcs, Ops, Shape
<1> HIDE DEF n
<1>3. /\ calls' \in [Slots -> CallRecords]
      /\ calls'[s] = n /\ \A t \in Slots \ {s} : calls'[t] = calls[t]
  BY <1>2 DEF CollectionInv, TypeInv, TypeOK, BeginCreate, Idle, CallRecords, n
<1>4. /\ UNCHANGED <<sessions, temporary, retained, active, closed, startQueue, begun, saveQueue, stored,
                     lastSave, failures, life, halfway, gone, kept, disposed, status, file>>
      /\ ephemeral' \in {ephemeral, ephemeral \union {used'}}
  BY DEF BeginCreate, collection, starts, saves, ghosts, runtimes
<1>5. used' \notin Drawn /\ Drawn \subseteq Drawn' /\ used' \in Drawn'
  BY <1>1 DEF Drawn
<1>6. TypeInv'
  <2>1. TypeOK'
    <3>1. ephemeral' \subseteq Ids /\ used' \in 0..MaxSessions
      BY <1>1, <1>4 DEF CollectionInv, TypeInv, TypeOK, Ids
    <3>. QED
      BY <1>1, <1>3, <1>4, <3>1 DEF CollectionInv, TypeInv, TypeOK, CallRecords
  <2>2. \A t \in Slots : Shape(calls'[t])
    BY <1>2, <1>3 DEF CollectionInv, TypeInv
  <2>. QED
    BY <2>1, <2>2 DEF TypeInv, Shape
<1>7. DrawnInv'
  BY <1>2, <1>3, <1>4, <1>5 DEF CollectionInv, DrawnInv, Queued
<1>8. UnbornInv'
  <2> SUFFICES ASSUME NEW t \in Slots, Unborn(calls'[t])
               PROVE  /\ calls'[t].id \notin ToSet(sessions) \union gone
                      /\ calls'[t].op = "open" => calls'[t].id \notin ephemeral'
                      /\ \A u \in Slots \ {t} : calls'[u].id # calls'[t].id
    BY <1>4 DEF UnbornInv, Unborn
  <2>1. \A u \in Slots \ {s} : calls[u].id # used'
    BY <1>1, <1>5 DEF CollectionInv, DrawnInv
  <2>2. used' \notin ToSet(sessions) \union gone
    BY <1>5 DEF CollectionInv, DrawnInv
  <2>3. CASE t = s
    BY <1>2, <1>3, <2>1, <2>2, <2>3
  <2>4. CASE t # s
    BY <1>2, <1>3, <1>4, <2>1, <2>4 DEF CollectionInv, UnbornInv
  <2>. QED
    BY <2>3, <2>4
<1>9. ProcessInv'
  BY <1>2, <1>3, <1>4 DEF CollectionInv, ProcessInv
<1>10. ephemeral' \cap ToSet(sessions) = ephemeral \cap ToSet(sessions)
  BY <1>4, <1>5 DEF CollectionInv, DrawnInv
<1>11. LatestInv'
  BY <1>4, <1>10 DEF CollectionInv, LatestInv, Snapshot
<1>12. \A k \in DOMAIN saveQueue : saveQueue[k].owner # None =>
         saveQueue[k].owner \in Slots /\ calls'[saveQueue[k].owner] = calls[saveQueue[k].owner]
  BY <1>1, <1>3, QueueTyped DEF CollectionInv, TypeInv, OwnerInv
<1>13. OwnerInv' /\ GoneInv'
  BY <1>4, <1>12 DEF CollectionInv, OwnerInv, GoneInv, Queued
<1>14. KeptInv'
  <2>1. \A id \in kept : Ending(id)' => Ending(id)
    BY <1>2, <1>3 DEF Ending, CollectionInv, TypeInv, TypeOK, Ids, None
  <2>2. \A id \in ToSet(sessions) : id \in ephemeral' => id \in ephemeral
    BY <1>10
  <2>. QED
    BY <1>4, <1>12, <2>1, <2>2 DEF CollectionInv, KeptInv, Queued
<1>. QED
  BY <1>6, <1>7, <1>8, <1>9, <1>11, <1>13, <1>14 DEF CollectionInv

\* What a call that selects its entry has registered is not on record twice and not closed.
LEMMA ProceedsKeeps ==
  ASSUME CollectionInv, NEW s \in Slots, NEW c, NEW ss, NEW selected, Proceeds(s, c, ss, selected)
  PROVE  CollectionInv'
<1> DEFINE new == c.op \in {"create", "open"}
           throws == closed \/ (c.op = "reopen" /\ ~Contains(ss, c.id))
           n == IF throws THEN Idle ELSE [c EXCEPT !.pc = "saving", !.victim = None]
<1>1. /\ c \in CallRecords /\ c.id \in Ids /\ c.victim \in Ids \union {None}
      /\ ss \in Seq(Ids) /\ ToSet(ss) = ToSet(sessions) \ {c.victim} /\ selected \in Ids \union {None}
      /\ calls[s].victim = c.victim /\ calls[s].pc \in {"idle", "picking", "discarding"}
  BY DEF Proceeds, Enters, CallRecords
<1>2. /\ n \in CallRecords /\ n.victim = None
      /\ throws => n = Idle
      /\ ~throws => n.pc = "saving" /\ n.op = c.op /\ n.id = c.id
  BY <1>1 DEF CallRecords, Pcs, Ops, Idle
<1>3. /\ calls' \in [Slots -> CallRecords]
      /\ calls'[s] = n /\ \A t \in Slots \ {s} : calls'[t] = calls[t]
  <2>1. calls' = [calls EXCEPT ![s] = n]
    <3>1. CASE throws
      BY <3>1 DEF Proceeds, Proceed, Return
    <3>2. CASE ~throws
      BY <3>2 DEF Proceeds, Proceed
    <3>. QED
      BY <3>1, <3>2
  <2> HIDE DEF n
  <2>. QED
    BY <1>2, <2>1 DEF CollectionInv, TypeInv, TypeOK, CallRecords
<1>4. /\ UNCHANGED <<closed, startQueue, begun, stored, lastSave, failures, life, gone, kept, disposed,
                     status, ephemeral>>
      /\ halfway' = (halfway \/ (throws /\ c.victim # None))
      /\ retained' = retained \ {c.victim}
  BY DEF Proceeds, Proceed, starts, ghosts, runtimes, Enters
<1>5. throws => /\ sessions' = ss /\ temporary' = temporary \ {c.victim} /\ active' = selected
                /\ saveQueue' = saveQueue
  BY DEF Proceeds, Proceed
<1>6. ~throws => /\ sessions' = (IF new THEN Append(ss, c.id) ELSE ss) /\ active' = c.id
                 /\ temporary' = (temporary \ {c.victim})
                                 \union (IF c.op = "create" /\ c.id \notin ephemeral THEN {c.id} ELSE {})
                 /\ saveQueue' = Save(s, sessions', temporary', active')
  BY DEF Proceeds, Proceed
<1>7. throws => n.pc = "idle" /\ n.op = "none" /\ n.id = None
  BY <1>2 DEF Idle
<1> HIDE DEF n
<1>8. Shape(n)
  BY <1>1, <1>2, <1>7 DEF Shape, Proceeds, Enters
<1> HIDE DEF throws
<1>9. /\ sessions' \in Seq(Ids) /\ active' \in Ids \union {None}
      /\ ToSet(sessions') = (ToSet(sessions) \ {c.victim}) \union (IF ~throws /\ new THEN {c.id} ELSE {})
  <2>1. ToSet(Append(ss, c.id)) = ToSet(ss) \union {c.id} /\ Append(ss, c.id) \in Seq(Ids)
    BY <1>1, AppendMembers
  <2>. QED
    BY <1>1, <1>5, <1>6, <2>1
<1>10. /\ temporary' \subseteq temporary \union {c.id}
       /\ c.id \in temporary' => c.id \in temporary \/ (~throws /\ c.op = "create" /\ c.id \notin ephemeral)
  BY <1>5, <1>6
<1>11. TypeInv'
  <2>1. used' \in 0..MaxSessions /\ file' \in [Ids -> Files \union {NoFile}] /\ made' \in 0..MaxCalls
    BY DEF Proceeds, Enters, CollectionInv, TypeInv, TypeOK
  <2>2. saveQueue' \in Seq(QueueEntry)
    <3>1. saveQueue \in Seq(QueueEntry) /\ TypeOK
      BY QueueTyped DEF CollectionInv, TypeInv
    <3>. QED
      BY <1>5, <1>6, <1>9, <3>1, SaveType
  <2>3. temporary' \subseteq Ids /\ retained' \subseteq Ids /\ halfway' \in BOOLEAN
    <3>1. temporary' \subseteq Ids /\ retained' \subseteq Ids
      BY <1>1, <1>4, <1>10 DEF CollectionInv, TypeInv, TypeOK
    <3>2. halfway' \in BOOLEAN
      BY <1>4, Zenon
    <3>. QED
      BY <3>1, <3>2
  <2>4. TypeOK'
    BY <1>3, <1>4, <1>9, <2>1, <2>2, <2>3 DEF CollectionInv, TypeInv, TypeOK, CallRecords, QueueEntry
  <2>5. \A t \in Slots : Shape(calls'[t])
    BY <1>3, <1>8 DEF CollectionInv, TypeInv
  <2>. QED
    BY <2>4, <2>5 DEF TypeInv, Shape
<1>12. used \in Nat /\ used' \in Nat /\ used <= used' /\ c.id \in 1..used'
  BY <1>1, CollectionBounds DEF Proceeds, Enters, CollectionInv, TypeInv, TypeOK, CallRecords, Ids, None
<1>13. Drawn \subseteq Drawn' /\ c.id \in Drawn'
  BY <1>12 DEF Drawn
<1>14. \A t \in Slots \ {s} : Unborn(calls[t]) => c.id # calls[t].id
  <2> SUFFICES ASSUME NEW t \in Slots \ {s}, Unborn(calls[t]) PROVE c.id # calls[t].id
    OBVIOUS
  <2>1. calls[t].id \notin ToSet(sessions) /\ calls[t].id # calls[s].id /\ calls[t].id \in 1..used
    BY DEF CollectionInv, UnbornInv, DrawnInv, Drawn, Unborn
  <2>. QED
    BY <2>1, <1>12 DEF Proceeds, Enters
<1>15. new => /\ c.id \notin ToSet(sessions) \union gone /\ c.id \notin temporary
              /\ \A t \in Slots \ {s} : calls[t].id # c.id
              /\ c.op = "open" => c.id \notin ephemeral
  BY DEF Proceeds, Enters, CollectionInv, DrawnInv
<1>16. UnbornInv'
  <2> SUFFICES ASSUME NEW t \in Slots, Unborn(calls'[t])
               PROVE  /\ calls'[t].id \notin ToSet(sessions') \union gone
                      /\ calls'[t].op = "open" => calls'[t].id \notin ephemeral
                      /\ \A u \in Slots \ {t} : calls'[u].id # calls'[t].id
    BY <1>4 DEF UnbornInv, Unborn
  <2>1. t # s
    BY <1>2, <1>3, <1>7 DEF Unborn
  <2>2. calls[t].id # None
    BY <1>3, <2>1 DEF Unborn
  <2>. QED
    BY <1>2, <1>3, <1>7, <1>9, <1>14, <2>1, <2>2 DEF CollectionInv, UnbornInv
<1>17. c.victim # None => c.victim \in disposed
  BY <1>1 DEF CollectionInv, TypeInv, Shape, ProcessInv
<1>18. ProcessInv'
  <2>1. \A id \in ToSet(sessions) \ disposed : id \in ToSet(sessions')
    <3>1. \A id \in ToSet(sessions) : id # None
      BY DEF CollectionInv, DrawnInv, Drawn, None
    <3>. QED
      BY <1>9, <1>17, <3>1
  <2>2. \A t \in Slots : /\ calls'[t].pc = "discarding" => calls'[t].victim \in disposed
                         /\ calls'[t].pc = "disposing" => calls'[t].id \in disposed
    BY <1>2, <1>3, <1>7 DEF CollectionInv, ProcessInv
  <2>. QED
    BY <1>4, <2>1, <2>2 DEF CollectionInv, ProcessInv
<1>19. LatestInv'
  <2>1. CASE ~throws
    <3>1. saveQueue' # <<>> /\ saveQueue'[Len(saveQueue')].index = Snapshot(sessions', temporary', active')
      BY <1>6, <1>9, <2>1, SaveAppends DEF CollectionInv, TypeInv
    <3>. QED
      BY <1>4, <3>1 DEF LatestInv, Snapshot
  <2>2. CASE throws /\ c.victim # None
    BY <1>4, <2>2 DEF LatestInv
  <2>3. CASE throws /\ c.victim = None
    <3>1. sessions' = sessions /\ active' = active /\ temporary' = temporary
      <4>1. None \notin temporary
        BY DEF CollectionInv, TypeInv, TypeOK, Ids, None
      <4>2. temporary \ {c.victim} = temporary
        BY <2>3, <4>1
      <4>3. ss = sessions /\ selected = active
        BY <2>3 DEF Proceeds
      <4>. QED
        BY <1>5, <2>3, <4>2, <4>3
    <3>. QED
      BY <1>4, <1>5, <2>3, <3>1 DEF CollectionInv, LatestInv, Snapshot
  <2>. QED
    BY <2>1, <2>2, <2>3
<1>20. \A id \in kept : id # c.victim /\ id # None
  BY <1>1 DEF CollectionInv, KeptInv, Ending, TypeInv, TypeOK, Ids, None
<1>21. \A id \in kept : Ending(id)' => Ending(id)
  BY <1>2, <1>3, <1>7, <1>20 DEF Ending
<1> DEFINE o == IF throws THEN None ELSE s
<1>22. Gentle(o)
  <2>1. kept \subseteq ToSet(sessions') \ temporary'
    BY <1>9, <1>10, <1>15, <1>20 DEF CollectionInv, KeptInv
  <2>2. gone \cap ToSet(sessions') = {}
    BY <1>9, <1>15 DEF CollectionInv, GoneInv
  <2>3. ASSUME NEW t \in Slots, calls[t].pc = "saving"
        PROVE  /\ calls'[t] = calls[t]
               /\ calls[t].id \in ToSet(sessions') => calls[t].id \in ToSet(sessions)
               /\ calls[t].id \in temporary' => calls[t].id \in temporary
    <3>1. t # s
      BY <1>1, <2>3
    <3>. QED
      BY <1>3, <1>9, <1>10, <1>15, <3>1
  <2>4. o # None => /\ o = s /\ calls[o].pc # "saving" /\ calls'[o].pc = "saving" /\ calls'[o].op # "close"
                    /\ calls'[o].op \in {"open", "prompt"} => calls'[o].id \notin temporary' \union ephemeral
    BY <1>1, <1>2, <1>3, <1>10, <1>15 DEF Proceeds, Enters
  <2>. QED
    BY <1>3, <1>4, <1>9, <1>21, <2>1, <2>2, <2>3, <2>4 DEF Gentle
<1>23. /\ OwnerInv' /\ GoneInv' /\ KeptInv'
       /\ \A i \in DOMAIN saveQueue' : Queued(i)' \subseteq Drawn \union ToSet(sessions')
  BY <1>5, <1>6, <1>22, QueueKeeps
<1>24. DrawnInv'
  <2>1. ToSet(sessions') \subseteq Drawn'
    BY <1>9, <1>13 DEF CollectionInv, DrawnInv
  <2>2. \A t \in Slots : calls'[t].id \in Drawn' \union {None}
    BY <1>2, <1>3, <1>7, <1>13 DEF CollectionInv, DrawnInv
  <2>3. temporary' \subseteq ToSet(sessions') \ ephemeral
    BY <1>5, <1>6, <1>9 DEF CollectionInv, DrawnInv
  <2>. QED
    BY <1>4, <1>13, <1>23, <2>1, <2>2, <2>3 DEF CollectionInv, DrawnInv
<1>. QED
  BY <1>11, <1>16, <1>18, <1>19, <1>23, <1>24 DEF CollectionInv

\* A call that commits a change is true of the snapshot it waits for: what it closed is
\* not in it and what it kept is neither provisional nor ephemeral.
LEMMA CommitsKeeps ==
  ASSUME CollectionInv, NEW s \in Slots, NEW c, NEW ss, NEW kept_, NEW selected,
         Commits(s, c, ss, kept_, selected)
  PROVE  CollectionInv'
<1> DEFINE n == IF closed THEN Idle ELSE [c EXCEPT !.pc = "saving"]
<1>0. Shape(calls[s])
  BY DEF CollectionInv, TypeInv
<1>1. /\ c \in CallRecords /\ c.id \in Ids \union {None} /\ calls[s].pc # "saving"
      /\ c.victim = None
      /\ (c = calls[s] \/ (calls[s].pc = "idle" /\ c.op = "clear" /\ c.id = None))
      /\ c.op # "clear" => c.id # None
      /\ ss \in Seq(Ids) /\ selected \in Ids \union {None}
  BY <1>0 DEF Commits, CallRecords, Shape
<1>2. /\ n \in CallRecords /\ n.victim = None
      /\ closed => n = Idle
      /\ ~closed => n.pc = "saving" /\ n.op = c.op /\ n.id = c.id
  <2>1. CASE closed
    BY <2>1 DEF CallRecords, Pcs, Ops, Idle
  <2>2. CASE ~closed
    BY <1>1, <2>2 DEF CallRecords, Pcs
  <2>. QED
    BY <2>1, <2>2
<1>3. calls' = [calls EXCEPT ![s] = n]
  <2>1. CASE closed
    BY <2>1 DEF Commits, Commit, Return
  <2>2. CASE ~closed
    BY <2>2 DEF Commits, Commit
  <2>. QED
    BY <2>1, <2>2
<1>4. closed => n.pc = "idle" /\ n.op = "none" /\ n.id = None
  BY <1>2 DEF Idle
<1> HIDE DEF n
<1>5. /\ calls' \in [Slots -> CallRecords]
      /\ calls'[s] = n /\ \A t \in Slots \ {s} : calls'[t] = calls[t]
  BY <1>2, <1>3 DEF CollectionInv, TypeInv, TypeOK, CallRecords
<1>6. Shape(n)
  BY <1>0, <1>1, <1>2, <1>4 DEF Shape, Commits
<1>7. /\ sessions' = ss /\ temporary' = temporary \ {c.id} /\ retained' \subseteq Ids /\ active' = selected
      /\ saveQueue' = IF closed THEN saveQueue ELSE Save(s, sessions', temporary', active')
      /\ UNCHANGED <<stored, lastSave, failures, closed, file, ephemeral, used, status, disposed,
                     startQueue, begun, life, halfway, gone, kept>>
      /\ made' \in 0..MaxCalls
  BY DEF Commits, Commit, ids, runtimes, starts, ghosts
<1>8. c.op = "close" => ToSet(sessions') = ToSet(sessions) \ {c.id} /\ c.pc = "disposing" /\ c.id # None
                        /\ c = calls[s]
  BY <1>0, <1>1, <1>7 DEF Commits, Shape
<1>9. c.op # "close" => sessions' = sessions
  BY <1>7 DEF Commits
<1>10. ToSet(sessions') \subseteq ToSet(sessions)
  BY <1>8, <1>9
<1>11. TypeInv'
  <2>1. saveQueue' \in Seq(QueueEntry)
    <3>1. saveQueue \in Seq(QueueEntry) /\ TypeOK /\ sessions' \in Seq(Ids) /\ active' \in Ids \union {None}
      BY <1>1, <1>7, QueueTyped DEF CollectionInv, TypeInv
    <3>. QED
      BY <1>7, <3>1, SaveType
  <2>2. temporary' \subseteq Ids
    BY <1>7 DEF CollectionInv, TypeInv, TypeOK
  <2>3. TypeOK'
    BY <1>1, <1>5, <1>7, <2>1, <2>2 DEF CollectionInv, TypeInv, TypeOK, CallRecords, QueueEntry
  <2>4. \A t \in Slots : Shape(calls'[t])
    BY <1>5, <1>6 DEF CollectionInv, TypeInv
  <2>. QED
    BY <2>3, <2>4 DEF TypeInv, Shape
<1>12. n.id \in {None, calls[s].id} /\ ~Unborn(n)
  BY <1>1, <1>2, <1>4 DEF Unborn
<1>13. UnbornInv'
  <2> SUFFICES ASSUME NEW t \in Slots, Unborn(calls'[t])
               PROVE  /\ calls'[t].id \notin ToSet(sessions') \union gone
                      /\ calls'[t].op = "open" => calls'[t].id \notin ephemeral
                      /\ \A u \in Slots \ {t} : calls'[u].id # calls'[t].id
    BY <1>7 DEF UnbornInv, Unborn
  <2>1. t # s /\ calls'[t] = calls[t] /\ calls[t].id # None
    BY <1>5, <1>12 DEF Unborn
  <2>. QED
    BY <1>5, <1>10, <1>12, <2>1 DEF CollectionInv, UnbornInv
<1>14. ProcessInv'
  <2>1. \A id \in ToSet(sessions) \ disposed : id \in ToSet(sessions')
    BY <1>8, <1>9 DEF CollectionInv, ProcessInv
  <2>2. \A t \in Slots : /\ calls'[t].pc = "discarding" => calls'[t].victim \in disposed
                         /\ calls'[t].pc = "disposing" => calls'[t].id \in disposed
    BY <1>2, <1>4, <1>5 DEF CollectionInv, ProcessInv
  <2>. QED
    BY <1>7, <2>1, <2>2 DEF CollectionInv, ProcessInv
<1>15. LatestInv'
  <2>1. CASE closed
    BY <1>7, <2>1 DEF LatestInv
  <2>2. CASE ~closed
    <3>1. TypeOK /\ sessions' \in Seq(Ids) /\ active' \in Ids \union {None}
      BY <1>1, <1>7 DEF CollectionInv, TypeInv
    <3>2. saveQueue' # <<>> /\ saveQueue'[Len(saveQueue')].index = Snapshot(sessions', temporary', active')
      <4>1. saveQueue' = Save(s, sessions', temporary', active')
        BY <1>7, <2>2
      <4>2. /\ saveQueue' # <<>> /\ Len(saveQueue') = Len(saveQueue) + 1
            /\ saveQueue'[Len(saveQueue) + 1].index = Snapshot(sessions', temporary', active')
        BY <3>1, <4>1, SaveAppends
      <4>. QED
        BY <4>2
    <3>. QED
      BY <1>7, <3>2 DEF LatestInv, Snapshot
  <2>. QED
    BY <2>1, <2>2
<1>16. \A id \in kept : Ending(id)' => Ending(id)
  <2> SUFFICES ASSUME NEW id \in kept, NEW t \in Slots,
                      calls'[t].victim = id \/ (calls'[t].id = id /\ calls'[t].pc = "disposing")
               PROVE  Ending(id)
    BY DEF Ending
  <2>1. id # None
    BY DEF CollectionInv, TypeInv, TypeOK, Ids, None
  <2>2. t # s
    BY <1>2, <1>4, <1>5, <2>1
  <2>. QED
    BY <1>5, <2>2 DEF Ending
<1> DEFINE o == IF closed THEN None ELSE s
<1>17. Gentle(o)
  <2>1. kept \subseteq ToSet(sessions') \ temporary'
    <3> SUFFICES ASSUME NEW id \in kept PROVE id \in ToSet(sessions') /\ id \notin temporary'
      OBVIOUS
    <3>1. id \in ToSet(sessions) /\ id \notin temporary /\ ~Ending(id)
      BY DEF CollectionInv, KeptInv
    <3>2. c.op = "close" => c.id # id
      BY <1>8, <3>1 DEF Ending
    <3>. QED
      BY <1>7, <1>8, <1>9, <3>1, <3>2
  <2>2. gone \cap ToSet(sessions') = {}
    BY <1>10 DEF CollectionInv, GoneInv
  <2>3. ASSUME NEW t \in Slots, calls[t].pc = "saving"
        PROVE  /\ calls'[t] = calls[t]
               /\ calls[t].id \in ToSet(sessions') => calls[t].id \in ToSet(sessions)
               /\ calls[t].id \in temporary' => calls[t].id \in temporary
    <3>1. t # s
      BY <1>1, <2>3
    <3>. QED
      BY <1>5, <1>7, <1>10, <3>1
  <2>4. o # None => /\ o = s /\ calls[o].pc # "saving" /\ calls'[o].pc = "saving"
                    /\ calls'[o].op = "close" => calls'[o].id \notin ToSet(sessions')
                    /\ calls'[o].op \in {"open", "prompt"} => calls'[o].id \notin temporary'
    BY <1>1, <1>2, <1>4, <1>5, <1>7, <1>8 DEF Commits
  <2>5. o # None /\ calls'[o].op \in {"open", "prompt"} => calls'[o].id \notin ephemeral
    BY <1>1, <1>2, <1>4, <1>5 DEF Commits, CollectionInv, DrawnInv
  <2>. QED
    BY <1>1, <1>5, <1>7, <1>16, <2>1, <2>2, <2>3, <2>4, <2>5 DEF Gentle
<1>18. /\ OwnerInv' /\ GoneInv' /\ KeptInv'
       /\ \A i \in DOMAIN saveQueue' : Queued(i)' \subseteq Drawn \union ToSet(sessions')
  BY <1>7, <1>17, QueueKeeps
<1>19. DrawnInv'
  <2>1. Drawn' = Drawn
    BY <1>7 DEF Drawn
  <2>2. ToSet(sessions') \subseteq Drawn
    BY <1>10 DEF CollectionInv, DrawnInv
  <2>3. \A t \in Slots : calls'[t].id \in Drawn \union {None}
    BY <1>5, <1>12 DEF CollectionInv, DrawnInv
  <2>4. temporary' \subseteq ToSet(sessions') \ ephemeral
    BY <1>7, <1>8, <1>9 DEF CollectionInv, DrawnInv
  <2>. QED
    BY <1>7, <1>18, <2>1, <2>2, <2>3, <2>4 DEF CollectionInv, DrawnInv
<1>. QED
  BY <1>11, <1>13, <1>14, <1>15, <1>18, <1>19 DEF CollectionInv

\* The last snapshot that waits is then the one of the collection as it is.
LEMMA SavedIsLatest ==
  ASSUME TypeOK, sessions' \in Seq(Ids), active' \in Ids \union {None},
         saveQueue' = Save(None, sessions', temporary', active')
  PROVE  saveQueue' # <<>> /\ saveQueue'[Len(saveQueue')].index = Snapshot(sessions', temporary', active')
<1>1. /\ saveQueue' # <<>> /\ Len(saveQueue') = Len(saveQueue) + 1
      /\ saveQueue'[Len(saveQueue) + 1].index = Snapshot(sessions', temporary', active')
  BY SaveAppends
<1>. QED
  BY <1>1

\* A runtime's change that is saved in the background leaves the collection alone.
LEMMA BackgroundKeeps ==
  ASSUME CollectionInv, NEW id \in Ids, SaveInBackground(id) \/ UNCHANGED saveQueue,
         UNCHANGED <<collection, closed, ids, disposed, stored, lastSave, failures, calls, made, life,
                     halfway, ghosts>>
  PROVE  /\ DrawnInv' /\ UnbornInv' /\ LatestInv' /\ OwnerInv' /\ GoneInv' /\ KeptInv'
         /\ saveQueue' \in Seq(QueueEntry)
<1>1. UNCHANGED <<sessions, temporary, retained, active, closed, file, ephemeral, used, disposed,
                  stored, lastSave, failures, life, made, calls, halfway, gone, kept>>
  BY DEF collection, ids, ghosts
<1>2. /\ TypeOK /\ sessions' \in Seq(Ids) /\ active' \in Ids \union {None}
      /\ calls' \in [Slots -> CallRecords] /\ saveQueue \in Seq(QueueEntry)
  BY <1>1, QueueTyped DEF CollectionInv, TypeInv, TypeOK, CallRecords
<1>3. saveQueue' = Save(None, sessions', temporary', active') \/ saveQueue' = saveQueue
  BY <1>1 DEF SaveInBackground, Save, Snapshot
<1>4. saveQueue' \in Seq(QueueEntry)
  BY <1>2, <1>3, SaveType
<1>5. \A i \in kept : Ending(i)' => Ending(i)
  BY <1>1 DEF Ending
<1>6. Gentle(None)
  BY <1>1, <1>2, <1>5 DEF Gentle, CollectionInv, GoneInv, KeptInv
<1>7. /\ OwnerInv' /\ GoneInv' /\ KeptInv'
      /\ \A i \in DOMAIN saveQueue' : Queued(i)' \subseteq Drawn \union ToSet(sessions')
  BY <1>3, <1>6, QueueKeeps
<1>8. DrawnInv'
  BY <1>1, <1>7 DEF CollectionInv, DrawnInv, Drawn
<1>9. UnbornInv'
  BY <1>1 DEF CollectionInv, UnbornInv, Unborn
<1>10. LatestInv'
  <2>1. CASE saveQueue' = saveQueue
    BY <1>1, <2>1 DEF CollectionInv, LatestInv, Snapshot
  <2>2. CASE saveQueue' = Save(None, sessions', temporary', active')
    <3>1. saveQueue' # <<>> /\ saveQueue'[Len(saveQueue')].index = Snapshot(sessions', temporary', active')
      BY <1>2, <2>2, SavedIsLatest, Zenon
    <3>. QED
      BY <1>1, <3>1 DEF LatestInv, Snapshot
  <2>. QED
    BY <1>3, <2>1, <2>2
<1>. QED
  BY <1>4, <1>7, <1>8, <1>9, <1>10

\* The end of a process and the end of a start: a process that was overtaken is not
\* published.
LEMMA RuntimeKeeps ==
  ASSUME CollectionInv, (\E id \in Ids : StopEnds(id)) \/ JobEnds
  PROVE  CollectionInv'
<1>1. ASSUME NEW id \in Ids, StopEnds(id) PROVE CollectionInv'
  <2>1. /\ UNCHANGED <<collection, closed, ids, disposed, stored, lastSave, failures, calls, made, life,
                     halfway, ghosts>>
        /\ UNCHANGED <<startQueue, begun>> /\ SaveInBackground(id)
        /\ status' = [status EXCEPT ![id] = "stopped"] /\ status[id] = "stopping"
    BY <1>1 DEF StopEnds, starts
  <2>2. /\ DrawnInv' /\ UnbornInv' /\ LatestInv' /\ OwnerInv' /\ GoneInv' /\ KeptInv'
        /\ saveQueue' \in Seq(QueueEntry)
    BY <2>1, BackgroundKeeps
  <2>3. TypeInv'
    BY <2>1, <2>2 DEF CollectionInv, TypeInv, TypeOK, Shape, QueueEntry, collection, ids, ghosts
  <2>4. startQueue # <<>> => Head(startQueue) \in Ids
    BY DEF CollectionInv, TypeInv, TypeOK
  <2>5. ProcessInv'
    BY <2>1, <2>4 DEF CollectionInv, ProcessInv, TypeInv, TypeOK, collection
  <2>. QED
    BY <2>2, <2>3, <2>5 DEF CollectionInv
<1>2. ASSUME JobEnds PROVE CollectionInv'
  <2> DEFINE id == Head(startQueue)
  <2>1. /\ begun /\ startQueue # <<>> /\ startQueue \in Seq(Ids) /\ id \in Ids
        /\ id \notin disposed => status[id] = "starting"
    BY <1>2 DEF JobEnds, CollectionInv, ProcessInv, TypeInv, TypeOK
  <2>2. /\ UNCHANGED <<collection, closed, ids, disposed, stored, lastSave, failures, calls, made, life,
                     halfway, ghosts>>
        /\ SaveInBackground(id) \/ UNCHANGED saveQueue
        /\ startQueue' = Tail(startQueue) /\ begun' = FALSE
        /\ status' = status \/ \E result \in {"ready", "failed"} :
             id \notin disposed /\ status' = [status EXCEPT ![id] = result]
    BY <1>2 DEF JobEnds
  <2> HIDE DEF id
  <2>3. /\ DrawnInv' /\ UnbornInv' /\ LatestInv' /\ OwnerInv' /\ GoneInv' /\ KeptInv'
        /\ saveQueue' \in Seq(QueueEntry)
    BY <2>1, <2>2, BackgroundKeeps
  <2>4. startQueue' \in Seq(Ids)
    BY <2>1, <2>2
  <2>5. status' \in [Ids -> {"stopped", "queued", "starting", "ready", "failed", "stopping"}]
    BY <2>1, <2>2 DEF CollectionInv, TypeInv, TypeOK
  <2>6. TypeInv'
    BY <2>2, <2>3, <2>4, <2>5 DEF CollectionInv, TypeInv, TypeOK, Shape, QueueEntry, collection, ids, ghosts
  <2>7. ProcessInv'
    <3>1. \A i \in Ids : status'[i] \in {"starting", "ready"}
            => status[i] \in {"starting", "ready"}
      BY <2>1, <2>2 DEF CollectionInv, TypeInv, TypeOK
    <3>. QED
      BY <2>2, <3>1 DEF CollectionInv, ProcessInv, collection
  <2>. QED
    BY <2>3, <2>6, <2>7 DEF CollectionInv
<1>. QED
  BY <1>1, <1>2

\* A confirmed close disposes its session, which is no longer to be kept.
LEMMA ConfirmKeeps ==
  ASSUME CollectionInv, NEW s \in Slots, Confirm(s)
  PROVE  CollectionInv'
<1> DEFINE n == [calls[s] EXCEPT !.pc = "disposing"]
<1>1. calls[s] \in CallRecords /\ calls[s].pc = "confirming" /\ calls[s].op = "close" /\ Shape(calls[s])
      /\ calls[s].victim = None
  BY DEF Confirm, CollectionInv, TypeInv, TypeOK, CallRecords, Shape
<1>2. n \in CallRecords /\ n.pc = "disposing" /\ n.op = "close" /\ n.id = calls[s].id /\ n.victim = None
      /\ n.id \in Ids
  BY <1>1 DEF CallRecords, Pcs, Shape
<1>3. calls' = [calls EXCEPT ![s] = n]
  BY DEF Confirm, Await, CollectionInv, TypeInv, TypeOK
<1> HIDE DEF n
<1>4. /\ calls' \in [Slots -> CallRecords]
      /\ calls'[s] = n /\ \A t \in Slots \ {s} : calls'[t] = calls[t]
  BY <1>2, <1>3 DEF CollectionInv, TypeInv, TypeOK, CallRecords
<1>5. /\ UNCHANGED <<sessions, temporary, retained, active, closed, file, ephemeral, used, startQueue, begun,
                     saveQueue, stored, lastSave, failures, made, life, halfway, gone>>
      /\ disposed' = disposed \union {n.id} /\ kept' = kept \ {n.id}
      /\ status' = [id \in Ids |-> IF id \in {n.id} THEN "stopping" ELSE status[id]]
  BY <1>2 DEF Confirm, Dispose, collection, ids, starts, saves
<1>6. TypeInv'
  <2>1. Shape(n)
    BY <1>1, <1>2 DEF Shape
  <2>2. TypeOK'
    BY <1>2, <1>4, <1>5 DEF CollectionInv, TypeInv, TypeOK, CallRecords
  <2>3. \A t \in Slots : Shape(calls'[t])
    BY <1>4, <2>1 DEF CollectionInv, TypeInv
  <2>. QED
    BY <2>2, <2>3 DEF TypeInv, Shape
<1>7. DrawnInv'
  BY <1>2, <1>4, <1>5 DEF CollectionInv, DrawnInv, Drawn, Queued
<1>8. UnbornInv'
  BY <1>2, <1>4, <1>5 DEF CollectionInv, UnbornInv, Unborn
<1>9. ProcessInv'
  <2>1. \A t \in Slots : /\ calls'[t].pc = "discarding" => calls'[t].victim \in disposed'
                         /\ calls'[t].pc = "disposing" => calls'[t].id \in disposed'
    BY <1>2, <1>4, <1>5 DEF CollectionInv, ProcessInv
  <2>2. startQueue # <<>> => Head(startQueue) \in Ids
    BY DEF CollectionInv, TypeInv, TypeOK
  <2>. QED
    BY <1>5, <2>1, <2>2 DEF CollectionInv, ProcessInv
<1>10. LatestInv'
  BY <1>5 DEF CollectionInv, LatestInv, Snapshot
<1>11. \A k \in DOMAIN saveQueue : saveQueue[k].owner # None =>
         saveQueue[k].owner \in Slots /\ calls'[saveQueue[k].owner] = calls[saveQueue[k].owner]
  BY <1>1, <1>4, QueueTyped DEF CollectionInv, TypeInv, OwnerInv
<1>12. OwnerInv' /\ GoneInv'
  BY <1>5, <1>11 DEF CollectionInv, OwnerInv, GoneInv, Queued
<1>13. KeptInv'
  <2>1. \A id \in kept' : Ending(id)' => Ending(id)
    <3> SUFFICES ASSUME NEW id \in kept', NEW t \in Slots,
                        calls'[t].victim = id \/ (calls'[t].id = id /\ calls'[t].pc = "disposing")
                 PROVE  Ending(id)
      BY DEF Ending
    <3>1. id # None
      BY <1>5 DEF CollectionInv, TypeInv, TypeOK, Ids, None
    <3>2. t # s
      BY <1>2, <1>4, <1>5, <3>1
    <3>. QED
      BY <1>4, <3>2 DEF Ending
  <2>. QED
    BY <1>5, <1>11, <2>1 DEF CollectionInv, KeptInv, Queued
<1>. QED
  BY <1>6, <1>7, <1>8, <1>9, <1>10, <1>12, <1>13 DEF CollectionInv

\* What leaves the records, the calls and the snapshots alone: a session is opened in a
\* tab, the next start begins, the registry is disposed.
LEMMA OthersKeep ==
  ASSUME CollectionInv, (\E id \in Ids : Retain(id)) \/ JobBegins \/ Shutdown
  PROVE  CollectionInv'
<1>1. UNCHANGED <<sessions, temporary, active, file, ephemeral, used, saveQueue, stored, lastSave, failures,
                  calls, made, life, halfway, gone, kept>>
  BY DEF Retain, JobBegins, Shutdown, collection, ids, starts, saves, ghosts
<1>2. closed' = closed \/ closed' = TRUE
  BY DEF Retain, JobBegins, Shutdown
<1>3. DrawnInv' /\ UnbornInv' /\ OwnerInv' /\ GoneInv'
  BY <1>1 DEF CollectionInv, DrawnInv, Drawn, Queued, UnbornInv, Unborn, OwnerInv, GoneInv
<1>4. LatestInv'
  BY <1>1, <1>2 DEF CollectionInv, LatestInv, Snapshot
<1>5. KeptInv'
  <2>1. \A id \in kept : Ending(id)' <=> Ending(id)
    BY <1>1 DEF Ending
  <2>. QED
    BY <1>1, <2>1 DEF CollectionInv, KeptInv, Queued
<1>6. ToSet(sessions) \subseteq Ids /\ (startQueue # <<>> => Head(startQueue) \in Ids /\ Tail(startQueue) \in Seq(Ids))
  BY DEF CollectionInv, TypeInv, TypeOK, ToSet
<1>7. ASSUME NEW id \in Ids, Retain(id) PROVE TypeInv' /\ ProcessInv'
  <2>1. UNCHANGED <<closed, startQueue, begun, status, disposed>> /\ retained' \subseteq Ids
    BY <1>7 DEF Retain, starts, runtimes, CollectionInv, TypeInv, TypeOK
  <2>. QED
    BY <1>1, <2>1 DEF CollectionInv, TypeInv, TypeOK, Shape, ProcessInv
<1>8. ASSUME JobBegins PROVE TypeInv' /\ ProcessInv'
  <2> DEFINE id == Head(startQueue)
             starts_ == ~closed /\ Known(id) /\ id \notin disposed /\ status[id] \notin {"starting", "ready"}
  <2>1. /\ UNCHANGED <<closed, retained, disposed>> /\ id \in Ids /\ startQueue # <<>>
        /\ begun' = starts_ /\ startQueue' = IF starts_ THEN startQueue ELSE Tail(startQueue)
        /\ status' = IF starts_ THEN [status EXCEPT ![id] = "starting"] ELSE status
    BY <1>6, <1>8 DEF JobBegins, collection
  <2>2. starts_ => id \in ToSet(sessions) /\ id \notin disposed /\ ~closed
    BY ContainsIsMember DEF Known, CollectionInv, TypeInv, TypeOK
  <2>3. begun' \in BOOLEAN
    BY <2>1, Zenon
  <2> HIDE DEF starts_, id
  <2>4. startQueue' \in Seq(Ids)
        /\ status' \in [Ids -> {"stopped", "queued", "starting", "ready", "failed", "stopping"}]
    BY <1>6, <2>1 DEF CollectionInv, TypeInv, TypeOK
  <2>5. TypeInv'
    BY <1>1, <2>1, <2>3, <2>4 DEF CollectionInv, TypeInv, TypeOK, Shape
  <2>6. ProcessInv'
    <3>1. CASE starts_
      <4>1. id = Head(startQueue)
        BY DEF id
      <4>. QED
        BY <1>1, <2>1, <2>2, <3>1, <4>1 DEF CollectionInv, ProcessInv, TypeInv, TypeOK
    <3>2. CASE ~starts_
      BY <1>1, <2>1, <3>2 DEF CollectionInv, ProcessInv
    <3>. QED
      BY <3>1, <3>2
  <2>. QED
    BY <2>5, <2>6
<1>9. ASSUME Shutdown PROVE TypeInv' /\ ProcessInv'
  <2>1. /\ closed' = TRUE /\ UNCHANGED <<retained, startQueue, begun>>
        /\ disposed' = disposed \union ToSet(sessions)
        /\ status' = [i \in Ids |-> IF i \in ToSet(sessions) THEN "stopping" ELSE status[i]]
    BY <1>9 DEF Shutdown, Dispose, starts, collection
  <2>2. TypeInv'
    BY <1>1, <1>6, <2>1 DEF CollectionInv, TypeInv, TypeOK, Shape
  <2>3. ProcessInv'
    BY <1>1, <1>6, <2>1 DEF CollectionInv, ProcessInv
  <2>. QED
    BY <2>2, <2>3
<1>. QED
  BY <1>3, <1>4, <1>5, <1>7, <1>8, <1>9 DEF CollectionInv

\* A write ends, well or not: the call that waits for it goes on; what it closed or kept is
\* so in the index and in every snapshot that waits.
LEMMA WriteKeeps ==
  ASSUME CollectionInv, Write \/ WriteFails
  PROVE  CollectionInv'
<1> DEFINE L == Len(saveQueue)
           o == saveQueue[1].owner
           c == calls[o]
<1>1. saveQueue # <<>> /\ saveQueue' = Tail(saveQueue) /\ TypeOK
  BY DEF Write, WriteFails, CollectionInv, TypeInv
<1>2. /\ saveQueue' \in Seq(QueueEntry) /\ L \in Nat \ {0}
      /\ DOMAIN saveQueue = 1..L /\ DOMAIN saveQueue' = 1..(L - 1)
      /\ Len(saveQueue') = L - 1
      /\ saveQueue' = <<>> <=> L = 1
      /\ Head(saveQueue) = saveQueue[1] /\ saveQueue[1] \in QueueEntry
      /\ \A i \in 1..(L - 1) : saveQueue'[i] = saveQueue[i + 1]
      /\ \A i \in 1..(L - 1) : Queued(i)' = Queued(i + 1)
  BY <1>1, QueueShrinks
<1>3. \A k \in 1..L : saveQueue[k].owner \in Slots \union {None}
  BY <1>1, QueueTyped
<1>4. 1 \in 1..L /\ (o # None => o \in Slots /\ c \in CallRecords /\ c.pc = "saving" /\ Shape(c) /\ c.victim = None)
  BY <1>2, <1>3 DEF CollectionInv, TypeInv, TypeOK, OwnerInv, CallRecords, Shape
<1>5. /\ UNCHANGED <<sessions, temporary, retained, active, closed, file, ephemeral, used, startQueue, begun,
                     status, disposed, made, life, halfway>>
      /\ failures' \in 0..MaxFailures
      /\ \/ stored' = saveQueue[1].index /\ lastSave' = "ok"
         \/ stored' = stored /\ lastSave' = "failed"
  BY <1>1, <1>2, CollectionBounds DEF Write, WriteFails, collection, ids, starts, runtimes, TypeOK
<1>6. o = None => UNCHANGED <<calls, gone, kept>>
  BY <1>2 DEF Write, WriteFails, ghosts
<1>7. ASSUME o # None
      PROVE  \E n \in CallRecords :
               /\ calls' = [calls EXCEPT ![o] = n]
               /\ n.pc \in {"idle", "saved"} /\ n.victim = None /\ n.id \in {None, c.id} /\ Shape(n)
  <2> DEFINE n2 == [c EXCEPT !.pc = "saved"]
  <2>1. /\ n2 \in CallRecords /\ n2.pc = "saved" /\ n2.victim = None /\ n2.id = c.id
        /\ c.op \in {"create", "open", "reopen", "activate"} => Shape(n2)
    BY <1>4, <1>7 DEF CallRecords, Pcs, Shape
  <2>2. Idle \in CallRecords /\ Idle.pc = "idle" /\ Idle.victim = None /\ Idle.id = None /\ Shape(Idle)
    BY DEF Idle, CallRecords, Pcs, Ops, Shape
  <2>3. \/ calls' = [calls EXCEPT ![o] = Idle]
        \/ c.op \in {"create", "open", "reopen", "activate"} /\ calls' = [calls EXCEPT ![o].pc = "saved"]
    BY <1>2, <1>7 DEF Write, WriteFails, Await, Return
  <2>4. calls' = [calls EXCEPT ![o].pc = "saved"] => calls' = [calls EXCEPT ![o] = n2]
    BY <1>4, <1>7 DEF TypeOK, CollectionInv, TypeInv
  <2> HIDE DEF n2
  <2>. QED
    BY <2>1, <2>2, <2>3, <2>4
<1>8. o # None => /\ gone' = gone \/ (c.op = "close" /\ gone' = gone \union {c.id})
                  /\ \/ kept' = kept
                     \/ /\ c.op \in {"open", "prompt"} /\ c.id \in ToSet(sessions) /\ ~Ending(c.id)
                        /\ kept' = kept \union {c.id} /\ stored' = saveQueue[1].index
  <2>1. Known(c.id) => c.id \in ToSet(sessions)
    BY ContainsIsMember, <1>1 DEF Known, TypeOK
  <2>. QED
    BY <1>2, <2>1 DEF Write, WriteFails, ghosts
<1> HIDE DEF o, c, L
<1>9. /\ calls' \in [Slots -> CallRecords]
      /\ \A t \in Slots : calls'[t] = calls[t]
           \/ (t = o /\ calls'[t].pc \in {"idle", "saved"} /\ calls'[t].victim = None
               /\ calls'[t].id \in {None, c.id} /\ Shape(calls'[t]))
  BY <1>4, <1>6, <1>7 DEF CollectionInv, TypeInv, TypeOK, CallRecords
<1>10. c = calls[o]
  BY DEF c
<1>11. o # None => /\ c.op = "close" => /\ c.id \notin ToSet(sessions) /\ c.id \in Ids
                                        /\ \A i \in 1..L : c.id \notin Queued(i)
                   /\ c.op \in {"open", "prompt"} /\ c.id \in ToSet(sessions)
                        => /\ c.id \notin temporary \union ephemeral
                           /\ \A i \in 1..L : c.id \in Queued(i)
  <2>1. o # None /\ c.op = "close" => c.id \in Ids
    BY <1>4 DEF CallRecords, Shape
  <2>2. o # None /\ c.op = "close" => c.id \notin ToSet(sessions) /\ \A i \in 1..L : i >= 1 => c.id \notin Queued(i)
    BY <1>2, <1>4, <1>10 DEF CollectionInv, GoneInv, o
  <2>3. o # None /\ c.op \in {"open", "prompt"} /\ c.id \in ToSet(sessions)
          => c.id \notin temporary \union ephemeral /\ \A i \in 1..L : i >= 1 => c.id \in Queued(i)
    BY <1>2, <1>4, <1>10 DEF CollectionInv, KeptInv, o
  <2>. QED
    BY <1>2, <2>1, <2>2, <2>3
<1>12. stored' \in Index /\ ToSet(stored'.ids) \in {ToSet(stored.ids), Queued(1)}
  BY <1>2, <1>5 DEF Queued, QueueEntry, CollectionInv, TypeInv, TypeOK
<1>13. gone' \subseteq Ids /\ kept' \subseteq Ids
  BY <1>1, <1>4, <1>6, <1>8, <1>11 DEF TypeOK, CollectionInv, DrawnInv, CallRecords, ToSet
<1>14. TypeInv'
  <2>1. TypeOK'
    BY <1>1, <1>2, <1>5, <1>9, <1>12, <1>13 DEF TypeOK, CallRecords, QueueEntry
  <2>2. \A t \in Slots : Shape(calls'[t])
    BY <1>9 DEF CollectionInv, TypeInv
  <2>. QED
    BY <2>1, <2>2 DEF TypeInv, Shape
<1>15. gone' \subseteq Drawn
  BY <1>4, <1>6, <1>8, <1>10, <1>11 DEF CollectionInv, DrawnInv, Ids, None
<1>16. DrawnInv'
  <2>1. Drawn' = Drawn
    BY <1>5 DEF Drawn
  <2>2. \A t \in Slots : calls'[t].id \in Drawn \union {None}
    BY <1>4, <1>9, <1>10 DEF CollectionInv, DrawnInv
  <2>3. \A i \in 1..(L - 1) : Queued(i)' \subseteq Drawn
    BY <1>2 DEF CollectionInv, DrawnInv
  <2>4. ToSet(stored'.ids) \subseteq Drawn
    BY <1>2, <1>12 DEF CollectionInv, DrawnInv
  <2>. QED
    BY <1>2, <1>5, <1>15, <2>1, <2>2, <2>3, <2>4 DEF CollectionInv, DrawnInv
<1>17. UnbornInv'
  <2> SUFFICES ASSUME NEW t \in Slots, Unborn(calls'[t])
               PROVE  /\ calls'[t].id \notin ToSet(sessions) \union gone'
                      /\ calls'[t].op = "open" => calls'[t].id \notin ephemeral
                      /\ \A u \in Slots \ {t} : calls'[u].id # calls'[t].id
    BY <1>5 DEF UnbornInv, Unborn
  <2>1. calls'[t] = calls[t] /\ calls[t].id # None /\ (o # None => t # o)
    BY <1>4, <1>9, <1>10 DEF Unborn, Shape
  <2>2. \A u \in Slots \ {t} : calls'[u].id \in {None, calls[u].id}
    BY <1>9, <1>10
  <2>3. o # None => o \in Slots \ {t}
    BY <1>4, <2>1
  <2>4. calls[t].id \notin ToSet(sessions) \union gone
        /\ (calls[t].op = "open" => calls[t].id \notin ephemeral)
        /\ \A u \in Slots \ {t} : calls[u].id # calls[t].id
    BY <2>1 DEF CollectionInv, UnbornInv
  <2>. QED
    BY <1>6, <1>8, <1>10, <2>1, <2>2, <2>3, <2>4
<1>18. ProcessInv'
  BY <1>5, <1>9 DEF CollectionInv, ProcessInv
<1>19. LatestInv'
  <2>1. CASE L = 1
    BY <1>2, <1>5, <2>1 DEF CollectionInv, LatestInv, Snapshot, L
  <2>2. CASE L # 1
    <3>1. saveQueue' # <<>> /\ L - 1 \in 1..(L - 1) /\ saveQueue'[Len(saveQueue')] = saveQueue[L]
      BY <1>2, <2>2
    <3>. QED
      BY <1>1, <1>5, <3>1 DEF CollectionInv, LatestInv, Snapshot, L
  <2>. QED
    BY <2>1, <2>2
<1>20. \A k \in 1..(L - 1) : saveQueue'[k].owner # None =>
        /\ k + 1 \in 1..L /\ saveQueue'[k].owner = saveQueue[k + 1].owner
        /\ saveQueue'[k].owner \in Slots /\ calls'[saveQueue'[k].owner] = calls[saveQueue[k + 1].owner]
        /\ calls[saveQueue[k + 1].owner].pc = "saving"
  <2> SUFFICES ASSUME NEW k \in 1..(L - 1), saveQueue'[k].owner # None
               PROVE  /\ k + 1 \in 1..L /\ saveQueue'[k].owner = saveQueue[k + 1].owner
                      /\ saveQueue'[k].owner \in Slots
                      /\ calls'[saveQueue'[k].owner] = calls[saveQueue[k + 1].owner]
                      /\ calls[saveQueue[k + 1].owner].pc = "saving"
    OBVIOUS
  <2>1. k + 1 \in 1..L /\ k + 1 # 1 /\ saveQueue'[k].owner = saveQueue[k + 1].owner
    BY <1>2
  <2>2. saveQueue[k + 1].owner # o /\ saveQueue[k + 1].owner \in Slots
        /\ calls[saveQueue[k + 1].owner].pc = "saving"
    BY <1>2, <1>3, <1>4, <2>1 DEF CollectionInv, OwnerInv, o
  <2>. QED
    BY <1>9, <2>1, <2>2
<1>21. OwnerInv'
  <2> SUFFICES ASSUME NEW k \in 1..(L - 1), saveQueue'[k].owner # None
               PROVE  /\ calls'[saveQueue'[k].owner].pc = "saving"
                      /\ \A j \in 1..(L - 1) \ {k} : saveQueue'[j].owner # saveQueue'[k].owner
    BY <1>2 DEF OwnerInv
  <2>1. ASSUME NEW j \in 1..(L - 1), j # k PROVE saveQueue'[j].owner # saveQueue'[k].owner
    <3>1. j + 1 \in DOMAIN saveQueue \ {k + 1} /\ k + 1 \in DOMAIN saveQueue
          /\ saveQueue'[j].owner = saveQueue[j + 1].owner /\ saveQueue'[k].owner = saveQueue[k + 1].owner
      BY <1>2, <2>1
    <3>. QED
      BY <3>1 DEF CollectionInv, OwnerInv
  <2>. QED
    BY <1>20, <2>1
<1>22. GoneInv'
  <2>1. ASSUME NEW id \in gone' PROVE /\ id \notin ToSet(sessions) /\ id \notin ToSet(stored'.ids)
                                      /\ \A i \in 1..(L - 1) : id \notin Queued(i)'
    <3>1. id \notin ToSet(sessions) /\ \A i \in 1..L : id \notin Queued(i)
      BY <1>2, <1>6, <1>8, <1>11 DEF CollectionInv, GoneInv
    <3>2. id \in gone => id \notin ToSet(stored.ids)
      BY DEF CollectionInv, GoneInv
    <3>3. id \notin gone => stored' = saveQueue[1].index
      BY <1>6, <1>8, <2>1 DEF Write, WriteFails, ghosts
    <3>4. id \notin ToSet(stored'.ids)
      BY <1>4, <1>12, <3>1, <3>2, <3>3 DEF Queued
    <3>. QED
      BY <1>2, <3>1, <3>4
  <2>2. ASSUME NEW k \in 1..(L - 1), saveQueue'[k].owner # None, calls'[saveQueue'[k].owner].op = "close"
        PROVE  /\ calls'[saveQueue'[k].owner].id \notin ToSet(sessions)
               /\ \A i \in 1..(L - 1) : i >= k => calls'[saveQueue'[k].owner].id \notin Queued(i)'
    <3>1. /\ calls[saveQueue[k + 1].owner].id \notin ToSet(sessions)
          /\ \A i \in 1..L : i >= k + 1 => calls[saveQueue[k + 1].owner].id \notin Queued(i)
      BY <1>2, <1>20, <2>2 DEF CollectionInv, GoneInv
    <3>. QED
      BY <1>2, <1>20, <2>2, <3>1
  <2>. QED
    BY <1>2, <1>5, <2>1, <2>2 DEF GoneInv
<1>23. KeptInv'
  <2>1. \A id \in Ids : Ending(id)' => Ending(id)
    <3> SUFFICES ASSUME NEW id \in Ids, NEW t \in Slots,
                        calls'[t].victim = id \/ (calls'[t].id = id /\ calls'[t].pc = "disposing")
                 PROVE  Ending(id)
      BY DEF Ending
    <3>1. calls'[t] = calls[t]
      BY <1>9 DEF Ids, None
    <3>. QED
      BY <3>1 DEF Ending
  <2>2. ASSUME NEW id \in kept'
        PROVE  /\ id \in ToSet(sessions) /\ id \notin temporary \union ephemeral
               /\ id \in ToSet(stored'.ids) /\ ~Ending(id)'
               /\ \A i \in 1..(L - 1) : id \in Queued(i)'
    <3>1. /\ id \in ToSet(sessions) /\ id \notin temporary \union ephemeral /\ ~Ending(id)
          /\ \A i \in 1..L : id \in Queued(i)
      BY <1>2, <1>6, <1>8, <1>11 DEF CollectionInv, KeptInv
    <3>2. id \in kept => id \in ToSet(stored.ids)
      BY DEF CollectionInv, KeptInv
    <3>3. id \notin kept => stored' = saveQueue[1].index
      BY <1>6, <1>8, <2>2
    <3>4. id \in ToSet(stored'.ids)
      BY <1>4, <1>12, <3>1, <3>2, <3>3 DEF Queued
    <3>. QED
      BY <1>2, <1>13, <2>1, <3>1, <3>4
  <2>3. ASSUME NEW k \in 1..(L - 1), saveQueue'[k].owner # None,
               calls'[saveQueue'[k].owner].op \in {"open", "prompt"},
               calls'[saveQueue'[k].owner].id \in ToSet(sessions)
        PROVE  /\ calls'[saveQueue'[k].owner].id \notin temporary \union ephemeral
               /\ \A i \in 1..(L - 1) : i >= k => calls'[saveQueue'[k].owner].id \in Queued(i)'
    <3>1. /\ calls[saveQueue[k + 1].owner].id \notin temporary \union ephemeral
          /\ \A i \in 1..L : i >= k + 1 => calls[saveQueue[k + 1].owner].id \in Queued(i)
      BY <1>2, <1>20, <2>3 DEF CollectionInv, KeptInv
    <3>. QED
      BY <1>2, <1>20, <2>3, <3>1
  <2>. QED
    BY <1>2, <1>5, <2>2, <2>3 DEF KeptInv
<1>. QED
  BY <1>14, <1>16, <1>17, <1>18, <1>19, <1>21, <1>22, <1>23 DEF CollectionInv

\* Another life begins with what the index holds.
LEMMA ReopenKeeps ==
  ASSUME CollectionInv, Reopen
  PROVE  CollectionInv'
<1>1. /\ sessions' = stored.ids /\ active' = Restored(stored)
      /\ temporary' = {} /\ retained' = {} /\ closed' = FALSE
      /\ status' = [id \in Ids |-> "stopped"] /\ disposed' = {}
      /\ startQueue' = <<>> /\ begun' = FALSE
      /\ saveQueue' = <<>> /\ lastSave' = "none" /\ halfway' = FALSE
      /\ calls' = [s \in Slots |-> Idle]
      /\ UNCHANGED <<file, ephemeral, used, stored, failures, made, gone, kept>>
      /\ life' \in 1..MaxLives
  BY CollectionBounds DEF Reopen, ids, ghosts, CollectionInv, TypeInv, TypeOK
<1>2. stored \in Index /\ stored.ids \in Seq(Ids) /\ active' \in Ids \union {None}
  BY <1>1, RestoredIsEntry DEF CollectionInv, TypeInv, TypeOK, Index
<1>3. Idle \in CallRecords /\ Idle.pc = "idle" /\ Idle.op = "none" /\ Idle.victim = None /\ Idle.id = None
      /\ Shape(Idle)
  BY DEF Idle, CallRecords, Pcs, Ops, Shape
<1>4. TypeInv'
  <2>1. calls' \in [Slots -> CallRecords] /\ saveQueue' \in Seq(QueueEntry) /\ startQueue' \in Seq(Ids)
    BY <1>1, <1>3
  <2>2. sessions' \in Seq(Ids) /\ active' \in Ids \union {None} /\ stored' \in Index
    BY <1>1, <1>2
  <2>3. status' \in [Ids -> {"stopped", "queued", "starting", "ready", "failed", "stopping"}]
        /\ closed' \in BOOLEAN /\ begun' \in BOOLEAN /\ halfway' \in BOOLEAN
        /\ lastSave' \in {"none", "ok", "failed"}
    BY <1>1
  <2>4. TypeOK'
    BY <1>1, <2>1, <2>2, <2>3 DEF CollectionInv, TypeInv, TypeOK, CallRecords, QueueEntry
  <2>. QED
    BY <1>1, <1>3, <2>4 DEF TypeInv
<1>5. DrawnInv' /\ UnbornInv' /\ LatestInv' /\ OwnerInv' /\ GoneInv'
  BY <1>1, <1>3 DEF CollectionInv, DrawnInv, Drawn, Queued, UnbornInv, Unborn, LatestInv, OwnerInv, GoneInv
<1>6. ProcessInv'
  BY <1>1, <1>3 DEF ProcessInv
<1>7. KeptInv'
  BY <1>1, <1>3 DEF CollectionInv, TypeInv, TypeOK, KeptInv, Queued, Ending, Ids, None
<1>. QED
  BY <1>4, <1>5, <1>6, <1>7 DEF CollectionInv

-----------------------------------------------------------------------------
(* The theorems                                                            *)

\* An index with a session or without one, and no call.
LEMMA InitHolds == Init => CollectionInv
<1> SUFFICES ASSUME Init PROVE CollectionInv
  OBVIOUS
<1>1. used \in {0, 1} /\ 1 \in Ids /\ used \in Ids \union {None} /\ used \in 0..MaxSessions
  BY CollectionBounds DEF Init, Ids, None
<1>2. stored \in Index /\ stored.ids \in Seq(Ids) /\ ToSet(stored.ids) \subseteq 1..used
  <2>1. CASE used = 1
    <3>1. stored.ids = <<1>> /\ <<1>> \in Seq(Ids) /\ stored = [active |-> used, ids |-> <<1>>]
      BY <1>1, <2>1 DEF Init
    <3>. QED
      BY <1>1, <2>1, <3>1 DEF Index, ToSet
  <2>2. CASE used = 0
    <3>1. stored.ids = <<>> /\ <<>> \in Seq(Ids) /\ stored = [active |-> used, ids |-> <<>>]
      BY <1>1, <2>2 DEF Init
    <3>. QED
      BY <1>1, <2>2, <3>1 DEF Index, ToSet
  <2>. QED
    BY <1>1, <2>1, <2>2
<1>3. /\ sessions = stored.ids /\ active = Restored(stored)
      /\ temporary = {} /\ retained = {} /\ closed = FALSE
      /\ file = [id \in Ids |-> NoFile] /\ ephemeral = {}
      /\ status = [id \in Ids |-> "stopped"] /\ disposed = {}
      /\ startQueue = <<>> /\ begun = FALSE
      /\ saveQueue = <<>> /\ lastSave = "none" /\ halfway = FALSE
      /\ calls = [s \in Slots |-> Idle]
      /\ made = 0 /\ failures = 0 /\ life = 1 /\ gone = {} /\ kept = ToSet(stored.ids)
  BY DEF Init
<1>4. Idle \in CallRecords /\ Idle.pc = "idle" /\ Idle.op = "none" /\ Idle.victim = None /\ Idle.id = None
      /\ Shape(Idle)
  BY DEF Idle, CallRecords, Pcs, Ops, Shape
<1>5. TypeInv
  <2>1. calls \in [Slots -> CallRecords] /\ saveQueue \in Seq(QueueEntry) /\ startQueue \in Seq(Ids)
    BY <1>3, <1>4
  <2>2. active \in Ids \union {None}
    BY <1>2, <1>3, RestoredIsEntry
  <2>3. kept \subseteq Ids
    BY <1>2, <1>3 DEF ToSet
  <2>4. status \in [Ids -> {"stopped", "queued", "starting", "ready", "failed", "stopping"}]
        /\ file \in [Ids -> Files \union {NoFile}] /\ made \in 0..MaxCalls /\ failures \in 0..MaxFailures
        /\ life \in 1..MaxLives
    BY <1>3, CollectionBounds
  <2>5. TypeOK
    BY <1>1, <1>2, <1>3, <2>1, <2>2, <2>3, <2>4 DEF TypeOK, CallRecords, QueueEntry
  <2>. QED
    BY <1>3, <1>4, <2>5 DEF TypeInv
<1>6. DrawnInv /\ UnbornInv /\ LatestInv /\ OwnerInv /\ GoneInv
  BY <1>2, <1>3, <1>4 DEF DrawnInv, Drawn, UnbornInv, Unborn, LatestInv, OwnerInv, GoneInv
<1>7. ProcessInv
  BY <1>3, <1>4 DEF ProcessInv
<1>8. KeptInv
  <2>1. None \notin ToSet(stored.ids)
    BY <1>1, <1>2 DEF None
  <2>. QED
    BY <1>3, <1>4, <2>1 DEF KeptInv, Ending
<1>. QED
  BY <1>5, <1>6, <1>7, <1>8 DEF CollectionInv

\* A call that begins was none, and a call that ends or moves to another await keeps its id.
LEMMA Records ==
  ASSUME CollectionInv, NEW s \in Slots
  PROVE  /\ calls \in [Slots -> CallRecords] /\ calls[s] \in CallRecords /\ Shape(calls[s])
         /\ calls[s].id \in Ids \union {None}
         /\ Idle \in CallRecords /\ Shape(Idle) /\ ~Unborn(Idle) /\ Idle.id = None /\ Idle.pc = "idle"
         /\ Idle.victim = None
         /\ \A pc \in Pcs : /\ [calls[s] EXCEPT !.pc = pc] \in CallRecords
                            /\ [calls[s] EXCEPT !.pc = pc].pc = pc
                            /\ [calls[s] EXCEPT !.pc = pc].op = calls[s].op
                            /\ [calls[s] EXCEPT !.pc = pc].id = calls[s].id
                            /\ [calls[s] EXCEPT !.pc = pc].victim = calls[s].victim
                            /\ [calls EXCEPT ![s].pc = pc] = [calls EXCEPT ![s] = [calls[s] EXCEPT !.pc = pc]]
<1>1. calls \in [Slots -> CallRecords] /\ calls[s] \in CallRecords /\ Shape(calls[s])
      /\ calls[s].id \in Ids \union {None}
  BY DEF CollectionInv, TypeInv, TypeOK, CallRecords
<1>2. Idle \in CallRecords /\ Shape(Idle) /\ ~Unborn(Idle) /\ Idle.id = None /\ Idle.pc = "idle"
      /\ Idle.victim = None
  BY DEF Idle, CallRecords, Pcs, Ops, Shape, Unborn
<1>3. ASSUME NEW pc \in Pcs
      PROVE  /\ [calls[s] EXCEPT !.pc = pc] \in CallRecords
             /\ [calls[s] EXCEPT !.pc = pc].pc = pc
             /\ [calls[s] EXCEPT !.pc = pc].op = calls[s].op
             /\ [calls[s] EXCEPT !.pc = pc].id = calls[s].id
             /\ [calls[s] EXCEPT !.pc = pc].victim = calls[s].victim
  BY <1>1 DEF CallRecords
<1>4. \A pc \in Pcs : [calls EXCEPT ![s].pc = pc] = [calls EXCEPT ![s] = [calls[s] EXCEPT !.pc = pc]]
  BY <1>1
<1>. QED
  BY <1>1, <1>2, <1>3, <1>4

\* What a call finds when it enters: the selection is disposed if it is provisional,
\* otherwise the call goes on at once.
LEMMA EnterKeeps ==
  ASSUME CollectionInv, NEW s \in Slots, NEW c, Enters(s, c), calls[s].pc \in {"idle", "picking"}, Enter(s, c)
  PROVE  CollectionInv'
<1>1. calls[s].pc # "discarding" /\ c.victim = None /\ None \notin temporary /\ None \notin retained
      /\ sessions \in Seq(Ids) /\ active \in Ids \union {None} /\ None \notin ToSet(sessions)
  <2>1. calls[s].victim = None /\ calls[s].pc # "discarding"
    BY Records DEF Shape
  <2>2. temporary \subseteq Ids /\ retained \subseteq Ids /\ sessions \in Seq(Ids)
        /\ active \in Ids \union {None}
    BY DEF CollectionInv, TypeInv, TypeOK
  <2>3. None \notin Ids
    BY DEF Ids, None
  <2>4. ToSet(sessions) \subseteq Ids
    BY <2>2 DEF ToSet
  <2>. QED
    BY <2>1, <2>2, <2>3, <2>4 DEF Enters
<1>2. CASE c.id # active /\ Discardable(active)
  BY <1>1, <1>2, DiscardsKeeps DEF Enter, Discards
<1>3. CASE ~(c.id # active /\ Discardable(active))
  <2>1. temporary \ {c.victim} = temporary /\ retained \ {c.victim} = retained
        /\ ToSet(sessions) = ToSet(sessions) \ {c.victim}
    BY <1>1
  <2>2. Proceed(s, c, sessions, temporary, retained, active) /\ UNCHANGED runtimes
    BY <1>3, Zenon DEF Enter
  <2>3. Proceeds(s, c, sessions, active)
    BY <1>1, <2>1, <2>2 DEF Proceeds
  <2>. QED
    BY <2>3, ProceedsKeeps
<1>. QED
  BY <1>2, <1>3

\* The first prompt of a session, or an answer that changes nothing.
LEMMA PromoteKeeps ==
  ASSUME CollectionInv, NEW s \in Slots, calls[s].pc \in {"prompting", "polling"}, Promote(s, calls[s])
  PROVE  CollectionInv'
<1>1. CASE calls[s].id \in temporary
  <2>1. Commits(s, calls[s], sessions, retained \ {calls[s].id}, active)
    BY <1>1, Records DEF Promote, Commits, Shape, CollectionInv, TypeInv, TypeOK
  <2>. QED
    BY <2>1, CommitsKeeps
<1>2. CASE calls[s].id \notin temporary
  <2>1. Moves(s, Idle)
    BY <1>2, Records DEF Promote, Moves, Return, runtimes, starts, CollectionInv, TypeInv, TypeOK
  <2>. QED
    BY <2>1, MovesKeeps
<1>. QED
  BY <1>1, <1>2

\* Every step keeps the invariant.
LEMMA StepKeeps == CollectionInv /\ [Next]_vars => CollectionInv'
<1> SUFFICES ASSUME CollectionInv, [Next]_vars PROVE CollectionInv'
  OBVIOUS
<1>0. used \in 0..MaxSessions /\ made \in 0..MaxCalls /\ sessions \in Seq(Ids) /\ temporary \subseteq Ids
      /\ retained \subseteq Ids /\ active \in Ids \union {None} /\ file \in [Ids -> Files \union {NoFile}]
  BY DEF CollectionInv, TypeInv, TypeOK
<1>1. ASSUME NEW s \in Slots, Discarded(s) PROVE CollectionInv'
  <2> DEFINE c == calls[s]
  <2>1. c \in CallRecords /\ Shape(c) /\ c.pc = "discarding" /\ c.victim # None
    BY <1>1, Records DEF Discarded, Shape
  <2>2. Enters(s, c)
    <3>1. c.id # None /\ c.op \in {"create", "open", "reopen", "activate"}
      BY <2>1 DEF Shape
    <3>2. c.id <= used
      BY <3>1 DEF CollectionInv, DrawnInv, Drawn
    <3>3. c.op \in {"create", "open"} => Unborn(c)
      BY <2>1, <3>1 DEF Unborn
    <3>4. c.op \in {"create", "open"} => /\ c.id \notin ToSet(sessions) \union gone
                                         /\ \A t \in Slots \ {s} : calls[t].id # c.id
                                         /\ c.op = "open" => c.id \notin ephemeral
      BY <3>3 DEF CollectionInv, UnbornInv
    <3>5. UNCHANGED <<file, ephemeral, used, made>>
      BY <1>1 DEF Discarded, ids
    <3>. QED
      BY <1>0, <2>1, <3>1, <3>2, <3>4, <3>5 DEF Enters
  <2>3. Proceeds(s, c, Without(sessions, c.victim), None)
    BY <1>0, <1>1, <2>1, <2>2, WithoutMembers DEF Discarded, Proceeds
  <2>. QED
    BY <2>3, ProceedsKeeps
<1>2. ASSUME NEW s \in Slots, CloseEnds(s) PROVE CollectionInv'
  <2> DEFINE id == calls[s].id
             rest == Without(sessions, id)
             next == IF active = id THEN LastOrNone(rest) ELSE active
  <2>1. rest \in Seq(Ids) /\ ToSet(rest) = ToSet(sessions) \ {id}
    BY <1>0, WithoutMembers
  <2>2. next \in Ids \union {None}
    <3> HIDE DEF rest
    <3>. QED
      BY <1>0, <2>1 DEF LastOrNone, Last
  <2>3. Commit(s, calls[s], rest, temporary \ {id}, retained \ {id}, next)
        /\ calls[s].pc = "disposing"
        /\ UNCHANGED <<closed, ids, runtimes, starts, made, life, halfway, ghosts>>
    BY <1>2 DEF CloseEnds
  <2> HIDE DEF rest, next
  <2>4. Commits(s, calls[s], rest, retained \ {id}, next)
    BY <1>0, <2>1, <2>2, <2>3, Records DEF Commits, Shape
  <2>. QED
    BY <2>4, CommitsKeeps
<1>3. ASSUME NEW s \in Slots, Launch(s) PROVE CollectionInv'
  <2> DEFINE n == [calls[s] EXCEPT !.pc = "starting"]
  <2>1. calls[s].pc = "saved" /\ calls[s] \in CallRecords /\ Shape(calls[s]) /\ calls[s].id \in Ids
    BY <1>3, Records DEF Launch, Shape
  <2>2. /\ n \in CallRecords /\ n.pc = "starting" /\ n.op = calls[s].op /\ n.id = calls[s].id
        /\ n.victim = calls[s].victim /\ [calls EXCEPT ![s].pc = "starting"] = [calls EXCEPT ![s] = n]
    BY Records DEF Pcs
  <2> HIDE DEF n
  <2>3. Shape(n) /\ ~Unborn(n)
    BY <2>1, <2>2 DEF Shape, Unborn
  <2>4. \/ RequestStart(calls[s].id) /\ calls' = [calls EXCEPT ![s] = n]
        \/ calls' = [calls EXCEPT ![s] = Idle] /\ UNCHANGED <<startQueue, status>>
    BY <1>3, <2>2 DEF Launch, Await, Return
  <2>5. UNCHANGED <<collection, closed, ids, disposed, begun, saves, made, life, halfway, ghosts>>
    BY <1>3 DEF Launch
  <2>6. Moves(s, n) \/ Moves(s, Idle)
    BY <1>0, <2>1, <2>2, <2>3, <2>4, <2>5, Records DEF Moves
  <2>. QED
    BY <2>6, MovesKeeps
<1>4. ASSUME NEW s \in Slots, Launched(s) PROVE CollectionInv'
  <2>1. Moves(s, Idle)
    BY <1>0, <1>4, Records DEF Launched, Return, Moves, runtimes, starts
  <2>. QED
    BY <2>1, MovesKeeps
<1>5. ASSUME NEW s \in Slots, PickNothing(s) PROVE CollectionInv'
  <2>1. Moves(s, Idle)
    BY <1>0, <1>5, Records DEF PickNothing, Return, Moves, runtimes, starts
  <2>. QED
    BY <2>1, MovesKeeps
<1>6. ASSUME NEW s \in Slots, Decline(s) PROVE CollectionInv'
  <2>1. Moves(s, Idle)
    BY <1>0, <1>6, Records DEF Decline, Return, Moves, runtimes, starts
  <2>. QED
    BY <2>1, MovesKeeps
<1>7. ASSUME NEW s \in Slots, PromptFails(s) PROVE CollectionInv'
  <2>1. Moves(s, Idle)
    BY <1>0, <1>7, Records DEF PromptFails, Return, Moves, runtimes, starts
  <2>. QED
    BY <2>1, MovesKeeps
<1>8. ASSUME NEW s \in Slots, CommandAccepted(s) PROVE CollectionInv'
  <2> DEFINE n == [calls[s] EXCEPT !.pc = "polling"]
  <2>1. /\ n \in CallRecords /\ n.pc = "polling" /\ n.op = calls[s].op /\ n.id = calls[s].id
        /\ n.victim = calls[s].victim /\ [calls EXCEPT ![s].pc = "polling"] = [calls EXCEPT ![s] = n]
    BY Records DEF Pcs
  <2> HIDE DEF n
  <2>2. Shape(n) /\ ~Unborn(n) /\ calls[s].pc = "prompting"
    BY <1>8, <2>1, Records DEF CommandAccepted, Shape, Unborn
  <2>3. Moves(s, n)
    BY <1>0, <1>8, <2>1, <2>2 DEF CommandAccepted, Await, Moves, runtimes, starts
  <2>. QED
    BY <2>3, MovesKeeps
<1>9. ASSUME NEW s \in Slots, Ensured(s) PROVE CollectionInv'
  <2> DEFINE n == [calls[s] EXCEPT !.pc = "prompting"]
  <2>1. /\ n \in CallRecords /\ n.pc = "prompting" /\ n.op = calls[s].op /\ n.id = calls[s].id
        /\ n.victim = calls[s].victim
    BY Records DEF Pcs
  <2>2. calls' = [calls EXCEPT ![s] = n] \/ calls' = [calls EXCEPT ![s] = Idle]
    BY <1>9 DEF Ensured, Submit, Return
  <2> HIDE DEF n
  <2>3. Shape(n) /\ ~Unborn(n) /\ calls[s].pc = "ensuring"
    BY <1>9, <2>1, Records DEF Ensured, Shape, Unborn
  <2>4. UNCHANGED <<collection, closed, ids, startQueue, status, disposed, begun, saves, made, life, halfway, ghosts>>
    BY <1>9 DEF Ensured, runtimes, starts
  <2>5. Moves(s, n) \/ Moves(s, Idle)
    BY <1>0, <2>1, <2>2, <2>3, <2>4, Records DEF Moves
  <2>. QED
    BY <2>5, MovesKeeps
<1>10. ASSUME NEW s \in Slots, BeginCreate(s) PROVE CollectionInv'
  BY <1>10, CreateKeeps
<1>11. ASSUME NEW s \in Slots, BeginResume(s) PROVE CollectionInv'
  <2> DEFINE n == [Idle EXCEPT !.op = "open", !.pc = "picking"]
  <2>1. n \in CallRecords /\ Shape(n) /\ ~Unborn(n) /\ n.id = None /\ n.pc = "picking"
    BY DEF Idle, CallRecords, Shape, Unborn, Pcs, Ops
  <2>2. calls' = [calls EXCEPT ![s] = n]
    BY <1>11 DEF BeginResume
  <2> HIDE DEF n
  <2>3. made' \in 0..MaxCalls /\ calls[s].pc = "idle"
    BY <1>0, <1>11, CollectionBounds DEF BeginResume, Free
  <2>4. Moves(s, n)
    BY <1>11, <2>1, <2>2, <2>3 DEF BeginResume, Moves, runtimes, starts
  <2>. QED
    BY <2>4, MovesKeeps
<1>12. ASSUME NEW s \in Slots, NEW id \in Ids, BeginClose(s, id) PROVE CollectionInv'
  <2> DEFINE n == [Idle EXCEPT !.op = "close", !.pc = "confirming", !.id = id]
  <2>0. id # None
    BY DEF Ids, None
  <2>1. n \in CallRecords /\ Shape(n) /\ ~Unborn(n) /\ n.id = id /\ n.pc = "confirming"
    <3>2. n \in CallRecords
      BY DEF Idle, CallRecords, Pcs, Ops
    <3>3. n.op = "close" /\ n.pc = "confirming" /\ n.id = id /\ n.victim = None
      BY DEF Idle
    <3> HIDE DEF n
    <3>. QED
      BY <2>0, <3>2, <3>3 DEF Shape, Unborn
  <2>2. calls' = [calls EXCEPT ![s] = n]
    BY <1>12 DEF BeginClose
  <2> HIDE DEF n
  <2>3. made' \in 0..MaxCalls /\ calls[s].pc = "idle" /\ id \in ToSet(sessions)
    BY <1>0, <1>12, CollectionBounds, ContainsIsMember DEF BeginClose, Free, Known
  <2>4. Moves(s, n)
    BY <1>12, <2>1, <2>2, <2>3 DEF BeginClose, Moves, runtimes, starts
  <2>. QED
    BY <2>4, MovesKeeps
<1>13. ASSUME NEW s \in Slots, NEW id \in Ids, BeginPrompt(s, id) PROVE CollectionInv'
  <2> DEFINE c == [Idle EXCEPT !.op = "prompt", !.id = id]
             n1 == [c EXCEPT !.pc = "ensuring"]
             n2 == [c EXCEPT !.pc = "prompting"]
  <2>0. id # None
    BY DEF Ids, None
  <2>1. /\ n1 \in CallRecords /\ Shape(n1) /\ ~Unborn(n1) /\ n1.id = id /\ n1.pc = "ensuring"
        /\ n2 \in CallRecords /\ Shape(n2) /\ ~Unborn(n2) /\ n2.id = id /\ n2.pc = "prompting"
    <3>1. c \in CallRecords /\ c.op = "prompt" /\ c.id = id /\ c.victim = None
      BY DEF Idle, CallRecords, Pcs, Ops
    <3> HIDE DEF c
    <3>2. n1 \in CallRecords /\ n2 \in CallRecords
      BY <3>1 DEF CallRecords, Pcs
    <3>3. /\ n1.op = "prompt" /\ n1.pc = "ensuring" /\ n1.id = id /\ n1.victim = None
          /\ n2.op = "prompt" /\ n2.pc = "prompting" /\ n2.id = id /\ n2.victim = None
      BY <3>1 DEF CallRecords
    <3> HIDE DEF n1, n2
    <3>. QED
      BY <2>0, <3>2, <3>3 DEF Shape, Unborn
  <2>2. \/ RequestStart(id) /\ calls' = [calls EXCEPT ![s] = n1]
        \/ /\ UNCHANGED <<startQueue, status>>
           /\ calls' = [calls EXCEPT ![s] = n2] \/ calls' = [calls EXCEPT ![s] = Idle]
    BY <1>13 DEF BeginPrompt, Submit, Return
  <2> HIDE DEF n1, n2, c
  <2>3. made' \in 0..MaxCalls /\ calls[s].pc = "idle" /\ id \in ToSet(sessions)
    BY <1>0, <1>13, CollectionBounds, ContainsIsMember DEF BeginPrompt, Free, Known
  <2>4. UNCHANGED <<collection, closed, ids, disposed, begun, saves, life, halfway, ghosts>>
    BY <1>13 DEF BeginPrompt
  <2>5. Moves(s, n1) \/ Moves(s, n2) \/ Moves(s, Idle)
    BY <2>1, <2>2, <2>3, <2>4, Records DEF Moves
  <2>. QED
    BY <2>5, MovesKeeps
<1>14. ASSUME NEW s \in Slots, PickDirectory(s) PROVE CollectionInv'
  <2> DEFINE c == calls[s]
  <2>1. c \in CallRecords /\ Shape(c) /\ c.pc = "picking" /\ c.op = "create" /\ Enter(s, c)
        /\ UNCHANGED <<file, ephemeral, used, made>>
    BY <1>14, Records DEF PickDirectory, ids
  <2>2. c.id # None /\ Unborn(c)
    BY <2>1 DEF Shape, Unborn
  <2>3. c.id <= used
    BY <2>2 DEF CollectionInv, DrawnInv, Drawn
  <2>4. Enters(s, c)
    BY <1>0, <2>1, <2>2, <2>3 DEF Enters, CollectionInv, UnbornInv
  <2>. QED
    BY <2>1, <2>4, EnterKeeps
<1>15. ASSUME NEW s \in Slots, PickFile(s) PROVE CollectionInv'
  <2>1. calls[s] \in CallRecords /\ Shape(calls[s]) /\ calls[s].pc = "picking" /\ calls[s].op = "open"
        /\ calls[s].victim = None
    BY <1>15, Records DEF PickFile, Shape
  <2>2. PICK f \in Files :
          LET first == SelectInSeq(sessions, LAMBDA id : file[id] = f)
          IN  IF first # 0
                THEN /\ Enter(s, [calls[s] EXCEPT !.op = "reopen", !.id = sessions[first]])
                     /\ UNCHANGED ids
                ELSE /\ used < MaxSessions /\ used' = used + 1
                     /\ file' = [file EXCEPT ![used'] = f]
                     /\ UNCHANGED ephemeral
                     /\ Enter(s, [calls[s] EXCEPT !.id = used'])
    BY <1>15 DEF PickFile
  <2> DEFINE first == SelectInSeq(sessions, LAMBDA id : file[id] = f)
  <2>3. first \in 0..Len(sessions)
    <3> DEFINE I == {i \in 1..Len(sessions) : file[sessions[i]] = f}
    <3>1. I \subseteq 1..Len(sessions) /\ Len(sessions) \in Nat
      BY <1>0
    <3>2. first = IF I # {} THEN Min(I) ELSE 0
      BY DEF SelectInSeq
    <3> HIDE DEF I, first
    <3>3. I # {} => Min(I) \in I
      <4>1. I \subseteq Nat
        BY <3>1
      <4>. QED
        BY <4>1, MinIsMember
    <3>4. CASE I = {}
      BY <3>1, <3>2, <3>4
    <3>5. CASE I # {}
      <4>1. first \in I
        BY <3>2, <3>3, <3>5, Zenon
      <4>. QED
        BY <3>1, <4>1
    <3>. QED
      BY <3>4, <3>5
  <2>4. UNCHANGED made
    BY <1>15 DEF PickFile
  <2>5. CASE first # 0
    <3> DEFINE c == [calls[s] EXCEPT !.op = "reopen", !.id = sessions[first]]
    <3>1. Enter(s, c) /\ UNCHANGED <<file, ephemeral, used>>
      BY <2>2, <2>5 DEF ids
    <3> HIDE DEF first
    <3>2. sessions[first] \in Ids /\ sessions[first] \in ToSet(sessions)
      BY <1>0, <2>3, <2>5 DEF ToSet
    <3>3. /\ c \in CallRecords /\ c.op = "reopen" /\ c.id \in ToSet(sessions) /\ c.id # None
          /\ c.victim = calls[s].victim
      <4>2. c.op = "reopen" /\ c.id = sessions[first] /\ c.victim = calls[s].victim
        BY <2>1 DEF CallRecords
      <4>3. c \in CallRecords
        BY <2>1, <3>2 DEF CallRecords, Ops
      <4> HIDE DEF c
      <4>4. sessions[first] # None
        BY <3>2 DEF Ids, None
      <4>. QED
        BY <3>2, <4>2, <4>3, <4>4
    <3> HIDE DEF c
    <3>4. c.id <= used
      BY <3>3 DEF CollectionInv, DrawnInv, Drawn
    <3>5. Enters(s, c)
      BY <1>0, <2>1, <2>4, <3>1, <3>3, <3>4 DEF Enters
    <3>. QED
      BY <2>1, <3>1, <3>5, EnterKeeps
  <2>6. CASE first = 0
    <3> DEFINE c == [calls[s] EXCEPT !.id = used']
    <3>1. /\ used < MaxSessions /\ used' = used + 1 /\ file' = [file EXCEPT ![used'] = f]
          /\ UNCHANGED ephemeral /\ Enter(s, c)
      BY <2>2, <2>6
    <3>2. used' \in Ids /\ used' # None /\ used' \in used..MaxSessions /\ used' > used /\ used' \notin Drawn
      BY <1>0, <3>1, CollectionBounds DEF Ids, None, Drawn
    <3>3. /\ c \in CallRecords /\ c.op = "open" /\ c.id = used' /\ c.victim = calls[s].victim
      BY <2>1, <3>2 DEF CallRecords
    <3> HIDE DEF c
    <3>4. c.id \notin ToSet(sessions) \union gone /\ c.id \notin ephemeral
          /\ \A t \in Slots \ {s} : calls[t].id # c.id
      BY <3>2, <3>3 DEF CollectionInv, DrawnInv
    <3>5. file' \in [Ids -> Files \union {NoFile}]
      BY <1>0, <3>1, <3>2
    <3>6. Enters(s, c)
      BY <1>0, <2>1, <2>4, <3>1, <3>2, <3>3, <3>4, <3>5 DEF Enters
    <3>. QED
      BY <2>1, <3>1, <3>6, EnterKeeps
  <2>. QED
    BY <2>5, <2>6
<1>16. ASSUME NEW s \in Slots, NEW id \in Ids, Activate(s, id) PROVE CollectionInv'
  <2> DEFINE c == [Idle EXCEPT !.op = "activate", !.id = id]
  <2>1. c \in CallRecords /\ c.op = "activate" /\ c.id = id /\ c.victim = None
    BY DEF Idle, CallRecords, Ops, Pcs
  <2>2. Enter(s, c) /\ UNCHANGED <<file, ephemeral, used>>
    BY <1>16 DEF Activate, ids
  <2> HIDE DEF c
  <2>3. made' \in 0..MaxCalls /\ calls[s].pc = "idle" /\ id \in ToSet(sessions) /\ id # None
    BY <1>0, <1>16, CollectionBounds, ContainsIsMember DEF Activate, Free, Known, Ids, None
  <2>4. id <= used
    BY <2>3 DEF CollectionInv, DrawnInv, Drawn
  <2>5. calls[s].victim = None
    BY <2>3, Records DEF Shape
  <2>6. Enters(s, c)
    BY <1>0, <2>1, <2>2, <2>3, <2>4, <2>5 DEF Enters
  <2>. QED
    BY <2>2, <2>3, <2>6, EnterKeeps
<1>17. ASSUME NEW s \in Slots, Clear(s) PROVE CollectionInv'
  <2> DEFINE c == [Idle EXCEPT !.op = "clear"]
  <2>1. c \in CallRecords /\ c.op = "clear" /\ c.id = None /\ c.victim = None /\ c.pc = "idle"
    BY DEF Idle, CallRecords, Ops, Pcs
  <2>2. /\ Commit(s, c, sessions, temporary, retained, None)
        /\ UNCHANGED <<closed, ids, runtimes, starts, life, halfway, ghosts>>
    BY <1>17 DEF Clear
  <2> HIDE DEF c
  <2>3. made' \in 0..MaxCalls /\ calls[s].pc = "idle"
    BY <1>0, <1>17, CollectionBounds DEF Clear, Free
  <2>4. temporary \ {c.id} = temporary
    BY <1>0, <2>1 DEF Ids, None
  <2>5. Commits(s, c, sessions, retained, None)
    BY <1>0, <2>1, <2>2, <2>3, <2>4 DEF Commits
  <2>. QED
    BY <2>5, CommitsKeeps
<1>18. ASSUME NEW s \in Slots, Confirm(s) PROVE CollectionInv'
  BY <1>18, ConfirmKeeps
<1>19. ASSUME NEW s \in Slots, PromptAccepted(s) PROVE CollectionInv'
  BY <1>19, PromoteKeeps DEF PromptAccepted
<1>20. ASSUME NEW s \in Slots, PollingEnds(s) PROVE CollectionInv'
  BY <1>20, PromoteKeeps DEF PollingEnds
<1>21. ASSUME NEW id \in Ids, StopEnds(id) PROVE CollectionInv'
  BY <1>21, RuntimeKeeps
<1>22. ASSUME NEW id \in Ids, Retain(id) PROVE CollectionInv'
  BY <1>22, OthersKeep
<1>23. CASE JobBegins \/ Shutdown
  BY <1>23, OthersKeep
<1>24. CASE JobEnds
  BY <1>24, RuntimeKeeps
<1>25. CASE Write \/ WriteFails
  BY <1>25, WriteKeeps
<1>26. CASE Reopen
  BY <1>26, ReopenKeeps
<1>27. CASE UNCHANGED vars
  <2>1. UNCHANGED <<collection, runtimes, starts, saves, ids, ghosts, closed, calls, made, life, halfway>>
    BY <1>27 DEF vars
  <2>2. UNCHANGED <<sessions, temporary, retained, active, closed, file, ephemeral, used, status, disposed,
                    startQueue, begun, saveQueue, stored, lastSave, failures, calls, made, life, halfway,
                    gone, kept>>
    BY <2>1 DEF collection, runtimes, starts, saves, ids, ghosts
  <2>3. TypeInv' /\ DrawnInv' /\ UnbornInv' /\ ProcessInv'
    BY <2>2 DEF CollectionInv, TypeInv, TypeOK, Shape, DrawnInv, Drawn, Queued, UnbornInv, Unborn, ProcessInv
  <2>4. LatestInv' /\ OwnerInv' /\ GoneInv'
    BY <2>2 DEF CollectionInv, LatestInv, Snapshot, OwnerInv, GoneInv, Queued
  <2>5. KeptInv'
    <3>1. \A id \in kept : Ending(id)' <=> Ending(id)
      BY <2>2 DEF Ending
    <3>. QED
      BY <2>2, <3>1 DEF CollectionInv, KeptInv, Queued
  <2>. QED
    BY <2>3, <2>4, <2>5 DEF CollectionInv
<1>. QED
  BY <1>1, <1>2, <1>3, <1>4, <1>5, <1>6, <1>7, <1>8, <1>9, <1>10, <1>11, <1>12, <1>13,
     <1>14, <1>15, <1>16, <1>17, <1>18, <1>19, <1>20, <1>21, <1>22, <1>23, <1>24,
     <1>25, <1>26, <1>27 DEF Next

\* The inductive invariant, which every theorem below follows from.
LEMMA Invariant == Spec => []CollectionInv
  BY InitHolds, StepKeeps, PTL DEF Spec

\* Every variable keeps its type, whatever calls, failures and lives follow each other:
\* no call selects, closes or starts a session it has no id of.
THEOREM TypeCorrect == Spec => []TypeOK
<1>1. CollectionInv => TypeOK
  BY DEF CollectionInv, TypeInv
<1>. QED
  BY <1>1, Invariant, PTL

\* Whenever no save is waiting and the last one succeeded, the index in the storage is the
\* collection in memory, for any number of calls that interleave.
THEOREM IndexIsCurrent == Spec => []StoredMatches
<1>1. CollectionInv => StoredMatches
  BY DEF CollectionInv, LatestInv, StoredMatches
<1>. QED
  BY <1>1, Invariant, PTL

\* What the user closed never comes back into the index and what the user kept never
\* leaves it until it is closed, over calls, failed writes, shutdowns and restarts.
THEOREM ClosedAndKept == Spec => []IndexRemembers
<1>1. CollectionInv => IndexRemembers
  <2> SUFFICES ASSUME CollectionInv PROVE IndexRemembers
    OBVIOUS
  <2>1. sessions \in Seq(Ids) /\ stored.ids \in Seq(Ids)
    BY DEF CollectionInv, TypeInv, TypeOK, Index
  <2>2. ClosedStaysClosed
    BY <2>1, ContainsIsMember DEF ClosedStaysClosed, Known, CollectionInv, GoneInv
  <2>3. KeptSurvives
    BY DEF KeptSurvives, CollectionInv, KeptInv
  <2>. QED
    BY <2>2, <2>3 DEF IndexRemembers
<1>. QED
  BY <1>1, Invariant, PTL

\* A process that starts or runs belongs to an entry of a registry that is not disposed:
\* neither a queued start nor a call that goes on late leaves one behind.
THEOREM ProcessesOwned == Spec => []NoStrayProcess
<1>1. CollectionInv => NoStrayProcess
  <2> SUFFICES ASSUME CollectionInv PROVE NoStrayProcess
    OBVIOUS
  <2>1. sessions \in Seq(Ids)
    BY DEF CollectionInv, TypeInv, TypeOK
  <2>. QED
    BY <2>1, ContainsIsMember DEF NoStrayProcess, Known, CollectionInv, ProcessInv
<1>. QED
  BY <1>1, Invariant, PTL

\* A new life of the host begins with a selection that exists, or with none, whatever the
\* index says.
THEOREM RestoredExists == Spec => RestoredSelectionExists
<1>1. CollectionInv /\ [Next]_vars => [life' # life => Restorable(active', sessions')]_vars
  <2> SUFFICES ASSUME CollectionInv, Next, life' # life PROVE Restorable(active', sessions')
    BY DEF vars
  <2>1. stored \in Index
    BY DEF CollectionInv, TypeInv, TypeOK
  <2>2. ASSUME NEW s \in Slots, NEW c, Enter(s, c) PROVE life' = life
    <3>1. CASE c.id # active /\ Discardable(active)
      BY <2>2, <3>1 DEF Enter
    <3>2. CASE ~(c.id # active /\ Discardable(active))
      BY <2>2, <3>2 DEF Enter, Proceed
    <3>. QED
      BY <3>1, <3>2
  <2>3. ASSUME NEW s \in Slots,
               Discarded(s) \/ CloseEnds(s) \/ Launch(s) \/ Launched(s) \/ Ensured(s) \/ Clear(s)
               \/ Decline(s) \/ Confirm(s)
        PROVE  life' = life
    BY <2>3 DEF Discarded, Proceed, CloseEnds, Launch, Launched, Ensured, Clear, Decline, Confirm
  <2>4. ASSUME NEW s \in Slots,
               BeginCreate(s) \/ BeginResume(s) \/ PickNothing(s) \/ PickDirectory(s) \/ PickFile(s)
        PROVE  life' = life
    BY <2>2, <2>4 DEF BeginCreate, BeginResume, PickNothing, PickDirectory, PickFile
  <2>5. ASSUME NEW s \in Slots,
               PromptFails(s) \/ PromptAccepted(s) \/ CommandAccepted(s) \/ PollingEnds(s)
        PROVE  life' = life
    BY <2>5 DEF PromptFails, PromptAccepted, CommandAccepted, PollingEnds, Promote
  <2>6. ASSUME NEW s \in Slots, NEW id \in Ids, Activate(s, id) \/ BeginClose(s, id) \/ BeginPrompt(s, id)
        PROVE  life' = life
    BY <2>2, <2>6 DEF Activate, BeginClose, BeginPrompt
  <2>7. ASSUME NEW id \in Ids, StopEnds(id) \/ Retain(id) PROVE life' = life
    BY <2>7 DEF StopEnds, Retain
  <2>8. ASSUME JobBegins \/ JobEnds \/ Write \/ WriteFails \/ Shutdown PROVE life' = life
    BY <2>8 DEF JobBegins, JobEnds, Write, WriteFails, Shutdown
  <2>9. Reopen
    BY <2>3, <2>4, <2>5, <2>6, <2>7, <2>8 DEF Next
  <2>. QED
    BY <2>1, <2>9, RestoredIsEntry DEF Reopen
<1>. QED
  BY <1>1, Invariant, PTL DEF Spec, RestoredSelectionExists

=============================================================================
