------------------------------ MODULE FoldRules ------------------------------
(* The laws of FoldLeft, for any step: what folding nothing gives, one element  *)
(* more, two sequences in a row, and a set that every step stays in.  Each      *)
(* instance puts the step of a reader for Op.  The folds of the community       *)
(* modules choose a function over the sets of places; that it exists and is     *)
(* determined by the sequence is by well-founded induction.                     *)
EXTENDS Naturals, Sequences, SequencesExt, WellFoundedInduction, TLAPS

CONSTANTS
    Op(_, _)  \* the step

\* The iterated function FoldLeft chooses: the fold over each set of places.
IsIter(f, base, seq, S) ==
  f = [s \in SUBSET S |-> IF s = {} THEN base ELSE Op(f[s \ {Max(s)}], seq[Max(s)])]

\* Induction over the naturals, for a set: one that holds zero and is closed under
\* the successor holds every natural number.
LEMMA NatSetInduction ==
  ASSUME NEW T, 0 \in T, \A n \in Nat : n \in T => n + 1 \in T
  PROVE Nat \subseteq T
<1> SUFFICES ASSUME Nat \ T # {} PROVE FALSE OBVIOUS
<1>1. \E x \in Nat \ T : \A y \in Nat \ T : ~(<<y, x>> \in OpToRel(<, Nat))
  <2>1. Nat \ T \subseteq Nat OBVIOUS
  <2> QED BY <2>1, NatLessThanWellFounded, WFMin
<1>2. PICK x \in Nat \ T : \A y \in Nat \ T : ~(<<y, x>> \in OpToRel(<, Nat)) BY <1>1
<1>3. x \in Nat /\ x \notin T OBVIOUS
<1>4. x # 0 BY <1>3
<1>5. PICK k \in Nat : x = k + 1 BY <1>3, <1>4, x - 1 \in Nat
<1>6. k \in Nat \ T BY <1>3, <1>5
<1>7. <<k, x>> \in OpToRel(<, Nat)
  <2>1. k < x BY <1>3, <1>5
  <2>2. <<k, x>> \in Nat \X Nat BY <1>3
  <2> QED BY <2>1, <2>2 DEF OpToRel
<1> QED BY <1>2, <1>6, <1>7

\* Max of a part of 1..n that is not empty is an element of it, above all others.
LEMMA MaxOf ==
  ASSUME NEW n \in Nat, NEW s \in SUBSET (1 .. n), s # {}
  PROVE Max(s) \in s /\ \A x \in s : x <= Max(s)
<1> DEFINE T == {k \in Nat : \A r \in SUBSET (1 .. k) : r # {} => \E m \in r : \A x \in r : m >= x}
<1>1. 0 \in T
  <2>1. \A r \in SUBSET (1 .. 0) : r = {} OBVIOUS
  <2> QED BY <2>1
<1>2. ASSUME NEW k \in Nat, k \in T PROVE k + 1 \in T
  <2> SUFFICES ASSUME NEW r \in SUBSET (1 .. k + 1), r # {} PROVE \E m \in r : \A x \in r : m >= x
      OBVIOUS
  <2>1. CASE k + 1 \in r BY <2>1
  <2>2. CASE k + 1 \notin r
    <3>1. r \subseteq 1 .. k BY <2>2
    <3> QED BY <3>1, <1>2
  <2> QED BY <2>1, <2>2
<1>3. Nat \subseteq T 
  <2> HIDE DEF T
  <2> QED BY <1>1, <1>2, NatSetInduction
<1>4. \E m \in s : \A x \in s : m >= x BY <1>3
<1> QED BY <1>4 DEF Max

\* There is an iterated function for every base and sequence: the one FoldLeft chooses
\* is not arbitrary.
LEMMA IterExists ==
  ASSUME NEW base, NEW seq, NEW n \in Nat
  PROVE \E f : IsIter(f, base, seq, 1 .. n)
<1> DEFINE T == {k \in Nat : \E f : IsIter(f, base, seq, 1 .. k)}
<1>1. 0 \in T
  <2> DEFINE f == [s \in SUBSET (1 .. 0) |-> base]
  <2>1. \A s \in SUBSET (1 .. 0) : s = {} OBVIOUS
  <2>2. f = [s \in SUBSET (1 .. 0) |-> IF s = {} THEN base ELSE Op(f[s \ {Max(s)}], seq[Max(s)])] BY <2>1, Zenon
  <2>3. IsIter(f, base, seq, 1 .. 0) BY <2>2, Zenon DEF IsIter
  <2> QED BY <2>3
<1>2. ASSUME NEW k \in Nat, k \in T PROVE k + 1 \in T
  <2>1. PICK g : IsIter(g, base, seq, 1 .. k) BY <1>2
  <2> DEFINE f == [s \in SUBSET (1 .. k + 1) |-> IF s = {} THEN base ELSE Op(g[s \ {Max(s)}], seq[Max(s)])]
  <2>2. \A s \in SUBSET (1 .. k) : s \in SUBSET (1 .. k + 1) OBVIOUS
  <2>3. \A s \in SUBSET (1 .. k) : g[s] = IF s = {} THEN base ELSE Op(g[s \ {Max(s)}], seq[Max(s)])
        BY <2>1, Zenon DEF IsIter
  <2>4. \A s \in SUBSET (1 .. k) : f[s] = g[s] BY <2>2, <2>3, Zenon
  <2>5. \A s \in SUBSET (1 .. k + 1) : s # {} => s \ {Max(s)} \in SUBSET (1 .. k)
    <3> SUFFICES ASSUME NEW s \in SUBSET (1 .. k + 1), s # {}, NEW x \in s, x # Max(s) PROVE x \in 1 .. k
        OBVIOUS
    <3>0. k + 1 \in Nat OBVIOUS
    <3>1. Max(s) \in s /\ x <= Max(s)
      <4> HIDE DEF f
      <4> QED BY <3>0, MaxOf
    <3>2. Max(s) \in 1 .. k + 1 /\ x \in 1 .. k + 1 BY <3>1
    <3> QED BY <3>1, <3>2
  <2>6. \A s \in SUBSET (1 .. k + 1) : s # {} => f[s \ {Max(s)}] = g[s \ {Max(s)}] BY <2>4, <2>5, Zenon
  <2>7. f = [s \in SUBSET (1 .. k + 1) |-> IF s = {} THEN base ELSE Op(f[s \ {Max(s)}], seq[Max(s)])]
        BY <2>6, Zenon
  <2>8. IsIter(f, base, seq, 1 .. k + 1) BY <2>7, Zenon DEF IsIter
  <2> HIDE DEF f
  <2> QED BY <2>8
<1>3. Nat \subseteq T
  <2> HIDE DEF T
  <2> QED BY <1>1, <1>2, NatSetInduction
<1> QED BY <1>3

\* Two iterated functions agree on the first n elements if the sequences do.
LEMMA IterAgree ==
  ASSUME NEW base, NEW n \in Nat, NEW m \in Nat, NEW p, NEW q, NEW f, NEW g,
         IsIter(f, base, p, 1 .. n), IsIter(g, base, q, 1 .. m), n <= m,
         \A i \in 1 .. n : p[i] = q[i]
  PROVE f[1 .. n] = g[1 .. n]
<1> DEFINE T == {k \in Nat : k <= n => f[1 .. k] = g[1 .. k]}
<1>a. \A s \in SUBSET (1 .. n) : f[s] = IF s = {} THEN base ELSE Op(f[s \ {Max(s)}], p[Max(s)])
      BY Zenon DEF IsIter
<1>b. \A s \in SUBSET (1 .. m) : g[s] = IF s = {} THEN base ELSE Op(g[s \ {Max(s)}], q[Max(s)])
      BY Zenon DEF IsIter
<1>1. 0 \in T
  <2>1. 1 .. 0 = {} OBVIOUS
  <2>2. {} \in SUBSET (1 .. n) /\ {} \in SUBSET (1 .. m) OBVIOUS
  <2>3. f[{}] = base /\ g[{}] = base BY <2>2, <1>a, <1>b, Zenon
  <2> QED BY <2>1, <2>3
<1>2. ASSUME NEW k \in Nat, k \in T PROVE k + 1 \in T
  <2> SUFFICES ASSUME k + 1 <= n PROVE f[1 .. k + 1] = g[1 .. k + 1] OBVIOUS
  <2> DEFINE s == 1 .. k + 1
  <2>0. k + 1 \in s OBVIOUS
  <2>1. s \in SUBSET (1 .. n) /\ s \in SUBSET (1 .. m) /\ s # {}
    <3>1. \A i \in s : i \in 1 .. n /\ i \in 1 .. m OBVIOUS
    <3> HIDE DEF s
    <3> QED BY <3>1, <2>0
  <2>2. Max(s) \in s /\ \A x \in s : x <= Max(s) BY <2>1, MaxOf
  <2>3. Max(s) = k + 1 BY <2>2
  <2>4. s \ {k + 1} = 1 .. k OBVIOUS
  <2>5. f[s] = Op(f[1 .. k], p[k + 1]) /\ g[s] = Op(g[1 .. k], q[k + 1])
    <3> HIDE DEF s
    <3> QED BY <2>1, <2>3, <2>4, <1>a, <1>b, Zenon
  <2>6. f[1 .. k] = g[1 .. k] /\ p[k + 1] = q[k + 1] BY <1>2
  <2> QED BY <2>5, <2>6
<1>3. Nat \subseteq T
  <2> HIDE DEF T
  <2> QED BY <1>1, <1>2, NatSetInduction
<1> QED BY <1>3

\* FoldLeft is the iterated function, at the whole domain.
LEMMA Unfold == ASSUME NEW base, NEW seq
  PROVE FoldLeft(Op, base, seq) = (CHOOSE f : IsIter(f, base, seq, DOMAIN seq))[DOMAIN seq]
BY Zenon DEF FoldLeft, MapThenFoldSet, IsIter

\* What FoldLeft chooses is an iterated function.
LEMMA IterChosen == ASSUME NEW base, NEW seq, NEW n \in Nat
  PROVE IsIter(CHOOSE f : IsIter(f, base, seq, 1 .. n), base, seq, 1 .. n)
BY IterExists, Zenon

\* FoldLeft, named so that it can be cited.
Fold(base, seq) == FoldLeft(Op, base, seq)

\* Folding nothing gives the base.
LEMMA FoldEmpty == ASSUME NEW base PROVE Fold(base, <<>>) = base
<1> DEFINE f == CHOOSE f : IsIter(f, base, <<>>, 1 .. 0)
<1>1. DOMAIN <<>> = 1 .. 0 OBVIOUS
<1>2. FoldLeft(Op, base, <<>>) = f[1 .. 0] BY <1>1, Unfold, Zenon
<1>3. IsIter(f, base, <<>>, 1 .. 0) BY IterChosen
<1>4. 1 .. 0 = {} /\ 1 .. 0 \in SUBSET (1 .. 0) OBVIOUS
<1>5. f[1 .. 0] = base
  <2> HIDE DEF f
  <2> QED BY <1>3, <1>4, Zenon DEF IsIter
<1> QED BY <1>2, <1>5, Zenon DEF Fold

\* Folding one element more is one more step.
LEMMA FoldSnoc ==
  ASSUME NEW S, NEW base, NEW seq \in Seq(S), NEW x \in S
  PROVE Fold(base, Append(seq, x)) = Op(Fold(base, seq), x)
<1> DEFINE n == Len(seq)
           longer == Append(seq, x)
           f == CHOOSE h : IsIter(h, base, seq, 1 .. n)
           g == CHOOSE h : IsIter(h, base, longer, 1 .. n + 1)
<1>1. n \in Nat /\ DOMAIN seq = 1 .. n /\ DOMAIN longer = 1 .. n + 1 OBVIOUS
<1>2. \A i \in 1 .. n : seq[i] = longer[i] OBVIOUS
<1>3. longer[n + 1] = x OBVIOUS
<1>4. FoldLeft(Op, base, seq) = f[1 .. n] 
  <2> HIDE DEF n
  <2> QED BY <1>1, Unfold, Zenon
<1>5. FoldLeft(Op, base, longer) = g[1 .. n + 1]
  <2> HIDE DEF n, longer
  <2> QED BY <1>1, Unfold, Zenon
<1>6. IsIter(f, base, seq, 1 .. n) BY <1>1, IterChosen
<1>7. IsIter(g, base, longer, 1 .. n + 1) BY <1>1, IterChosen
<1> DEFINE s == 1 .. n + 1
<1>8. s \in SUBSET (1 .. n + 1) /\ s # {} /\ s \ {n + 1} = 1 .. n BY <1>1
<1>9. Max(s) = n + 1
  <2>1. Max(s) \in s /\ \A y \in s : y <= Max(s)
    <3>1. n + 1 \in Nat BY <1>1
    <3> HIDE DEF n, s
    <3> QED BY <3>1, <1>8, MaxOf
  <2> QED BY <2>1, <1>1
<1>10. f[1 .. n] = g[1 .. n]
  <2> HIDE DEF f, g, longer
  <2>1. n + 1 \in Nat /\ n <= n + 1 BY <1>1
  <2> HIDE DEF n
  <2> QED BY <1>1, <2>1, <1>2, <1>6, <1>7, IterAgree
<1>11. g[s] = Op(g[1 .. n], longer[n + 1])
  <2> HIDE DEF f, g, longer, n
  <2> QED BY <1>7, <1>8, <1>9, Zenon DEF IsIter
<1>12. g[s] = Op(FoldLeft(Op, base, seq), x) 
  <2> HIDE DEF f, g, longer, n, s
  <2> QED BY <1>3, <1>4, <1>10, <1>11, Zenon
<1> QED 
  <2> HIDE DEF f, g, n
  <2> QED BY <1>5, <1>12, Zenon DEF Fold

\* Induction over the sequences of S, for a set: one that holds the empty sequence and
\* is closed under Append holds every sequence.
LEMMA SeqInduction ==
  ASSUME NEW S, NEW T, <<>> \in T, \A s \in Seq(S) : \A x \in S : s \in T => Append(s, x) \in T
  PROVE Seq(S) \subseteq T
<1> DEFINE N == {n \in Nat : \A s \in Seq(S) : Len(s) = n => s \in T}
<1>1. 0 \in N
  <2>1. \A s \in Seq(S) : Len(s) = 0 => s = <<>> OBVIOUS
  <2> QED BY <2>1
<1>2. ASSUME NEW n \in Nat, n \in N PROVE n + 1 \in N
  <2> SUFFICES ASSUME NEW s \in Seq(S), Len(s) = n + 1 PROVE s \in T OBVIOUS
  <2> DEFINE r == SubSeq(s, 1, n)
             x == s[n + 1]
  <2>1. r \in Seq(S) /\ Len(r) = n /\ x \in S OBVIOUS
  <2>2. s = Append(r, x) OBVIOUS
  <2> HIDE DEF r, x
  <2> QED BY <2>1, <2>2, <1>2
<1>3. Nat \subseteq N
  <2> HIDE DEF N
  <2> QED BY <1>1, <1>2, NatSetInduction
<1> QED BY <1>3

\* A fold stays in a set that every step stays in.
LEMMA FoldType ==
  ASSUME NEW A, NEW S, NEW base \in A, \A a \in A : \A x \in S : Op(a, x) \in A, NEW seq \in Seq(S)
  PROVE Fold(base, seq) \in A
<1> DEFINE T == {s \in Seq(S) : Fold(base, s) \in A}
<1>1. <<>> \in T BY FoldEmpty
<1>2. ASSUME NEW s \in Seq(S), NEW x \in S, s \in T PROVE Append(s, x) \in T
  <2>1. Fold(base, Append(s, x)) = Op(Fold(base, s), x) BY FoldSnoc
  <2>2. Append(s, x) \in Seq(S) OBVIOUS
  <2>3. Fold(base, s) \in A BY <1>2
  <2>4. Op(Fold(base, s), x) \in A BY <2>3
  <2> QED BY <2>1, <2>2, <2>4
<1>3. Seq(S) \subseteq T
  <2> HIDE DEF T
  <2> QED BY <1>1, <1>2, SeqInduction
<1> QED BY <1>3

\* Folding s and t in one go is folding t from where s ended.
LEMMA FoldConcat ==
  ASSUME NEW S, NEW base, NEW s \in Seq(S), NEW t \in Seq(S)
  PROVE Fold(base, s \o t) = Fold(Fold(base, s), t)
<1> DEFINE T == {u \in Seq(S) : Fold(base, s \o u) = Fold(Fold(base, s), u)}
<1>1. <<>> \in T
  <2>1. s \o <<>> = s OBVIOUS
  <2>2. Fold(Fold(base, s), <<>>) = Fold(base, s) BY FoldEmpty
  <2> QED BY <2>1, <2>2
<1>2. ASSUME NEW u \in Seq(S), NEW x \in S, u \in T PROVE Append(u, x) \in T
  <2>1. s \o Append(u, x) = Append(s \o u, x) /\ s \o u \in Seq(S) /\ Append(u, x) \in Seq(S) OBVIOUS
  <2>2. Fold(base, Append(s \o u, x)) = Op(Fold(base, s \o u), x)
    <3> DEFINE w == s \o u
    <3>1. w \in Seq(S) BY <2>1
    <3> HIDE DEF w
    <3>2. Fold(base, Append(w, x)) = Op(Fold(base, w), x) BY <3>1, FoldSnoc
    <3> QED BY <3>2 DEF w
  <2>3. Fold(Fold(base, s), Append(u, x)) = Op(Fold(Fold(base, s), u), x) BY FoldSnoc
  <2>4. Fold(base, s \o u) = Fold(Fold(base, s), u) BY <1>2
  <2> QED BY <2>1, <2>2, <2>3, <2>4
<1>3. Seq(S) \subseteq T
  <2> HIDE DEF T
  <2> QED BY <1>1, <1>2, SeqInduction
<1> QED BY <1>3
=============================================================================
