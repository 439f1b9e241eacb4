--------------------------- MODULE Framing_proofs ---------------------------
(* The promises of the three pipes (Framing), for every length of a stream,     *)
(* every limit of a frame and every cut into chunks: RecordsWhole, FramesWhole  *)
(* and WireHonest.                                                              *)
(*                                                                              *)
(* The code reads bytes as they come; the promises compare with a reading of    *)
(* the whole in one go.  The readers are folds, so FoldRules gives what one     *)
(* byte more and a cut in between do, and by induction over the bytes received  *)
(* every reader stands where the reference does (AlwaysTracked,                 *)
(* AlwaysReadRight); with that each handler keeps TextInv or WireInv.           *)
(*                                                                              *)
(* Of the chunks, FramesWhole alone is not inductive: what keeps a mistake from *)
(* ever yielding a wrong frame is what is still to come.  ChunkInv adds that    *)
(* (Onward): while the sequence under way begins one of the two frames, all     *)
(* records to come are genuine or exactly one of them is wrong; and once a      *)
(* wrong one has been taken, no record to come continues the sequence.          *)
EXTENDS Framing, FiniteSetTheorems, SequenceTheorems, TLAPS

\* The three readers and the sum are folds: FoldRules holds for each.
Decoding == INSTANCE FoldRules WITH Op <- DecodeByte
LineTaking == INSTANCE FoldRules WITH Op <- TakeChar
WireReading == INSTANCE FoldRules WITH Op <- TakeByte

\* What FoldRules says of Fold holds for the decoding of bytes.
LEMMA DecodingIsFold == ASSUME NEW b, NEW s PROVE Decoding!Fold(b, s) = FoldLeft(DecodeByte, b, s)
BY Zenon DEF FoldLeft, Decoding!Fold, Decoding!FoldLeft, MapThenFoldSet, Decoding!MapThenFoldSet, Max, Decoding!Max

\* The same for the cutting of a text into lines.
LEMMA LineTakingIsFold == ASSUME NEW b, NEW s PROVE LineTaking!Fold(b, s) = FoldLeft(TakeChar, b, s)
BY Zenon DEF FoldLeft, LineTaking!Fold, LineTaking!FoldLeft, MapThenFoldSet, LineTaking!MapThenFoldSet, Max, LineTaking!Max

\* The same for the lines of the desktop wire.
LEMMA WireReadingIsFold == ASSUME NEW b, NEW s PROVE WireReading!Fold(b, s) = FoldLeft(TakeByte, b, s)
BY Zenon DEF FoldLeft, WireReading!Fold, WireReading!FoldLeft, MapThenFoldSet, WireReading!MapThenFoldSet, Max, WireReading!Max

-----------------------------------------------------------------------------
(* FlattenSeq. *)
IsFlat(f, ss, n) == f = [i \in 1 .. n |-> IF i = 1 THEN ss[i] ELSE f[i - 1] \o ss[i]]

\* The function FlattenSeq chooses exists.
LEMMA FlatExists == ASSUME NEW ss, NEW n \in Nat PROVE \E f : IsFlat(f, ss, n)
<1> DEFINE N == {k \in Nat : \E f : IsFlat(f, ss, k)}
<1>1. 0 \in N
  <2> DEFINE f == [i \in 1 .. 0 |-> <<>>]
  <2>1. 1 .. 0 = {} OBVIOUS
  <2>2. f = [i \in 1 .. 0 |-> IF i = 1 THEN ss[i] ELSE f[i - 1] \o ss[i]] BY <2>1, Zenon
  <2>3. IsFlat(f, ss, 0) BY <2>2 DEF IsFlat
  <2> QED BY <2>3
<1>2. ASSUME NEW k \in Nat, k \in N PROVE k + 1 \in N
  <2>1. PICK g : IsFlat(g, ss, k) BY <1>2
  <2> DEFINE f == [i \in 1 .. k + 1 |-> IF i = 1 THEN ss[i] ELSE g[i - 1] \o ss[i]]
  <2>2. \A i \in 1 .. k : i \in 1 .. k + 1 OBVIOUS
  <2>3. \A i \in 1 .. k : g[i] = IF i = 1 THEN ss[i] ELSE g[i - 1] \o ss[i] BY <2>1, Zenon DEF IsFlat
  <2>4. \A i \in 1 .. k : f[i] = g[i] BY <2>2, <2>3, Zenon
  <2>5. \A i \in 1 .. k + 1 : i # 1 => i - 1 \in 1 .. k OBVIOUS
  <2>6. \A i \in 1 .. k + 1 : i # 1 => f[i - 1] = g[i - 1] BY <2>4, <2>5, Zenon
  <2>7. f = [i \in 1 .. k + 1 |-> IF i = 1 THEN ss[i] ELSE f[i - 1] \o ss[i]] BY <2>6, Zenon
  <2>8. IsFlat(f, ss, k + 1) BY <2>7, Zenon DEF IsFlat
  <2> HIDE DEF f
  <2> QED BY <2>8
<1>3. Nat \subseteq N
  <2> HIDE DEF N
  <2> QED BY <1>1, <1>2, Decoding!NatSetInduction
<1> QED BY <1>3

\* Two such functions agree where their sequences do.
LEMMA FlatAgree ==
  ASSUME NEW ss, NEW tt, NEW f, NEW g, NEW n \in Nat, NEW m \in Nat, n <= m, IsFlat(f, ss, n), IsFlat(g, tt, m),
         \A i \in 1 .. n : ss[i] = tt[i]
  PROVE \A i \in 1 .. n : f[i] = g[i]
<1> DEFINE N == {k \in Nat : k \in 1 .. n => f[k] = g[k]}
<1>a. \A i \in 1 .. n : f[i] = IF i = 1 THEN ss[i] ELSE f[i - 1] \o ss[i] BY Zenon DEF IsFlat
<1>b. \A i \in 1 .. m : g[i] = IF i = 1 THEN tt[i] ELSE g[i - 1] \o tt[i] BY Zenon DEF IsFlat
<1>1. 0 \in N OBVIOUS
<1>2. ASSUME NEW k \in Nat, k \in N PROVE k + 1 \in N
  <2> SUFFICES ASSUME k + 1 <= n PROVE f[k + 1] = g[k + 1] OBVIOUS
  <2>1. k + 1 \in 1 .. n /\ k + 1 \in 1 .. m /\ (k + 1 # 1 => k \in 1 .. n) /\ (k + 1) - 1 = k OBVIOUS
  <2>2. f[k + 1] = IF k + 1 = 1 THEN ss[k + 1] ELSE f[k] \o ss[k + 1] BY <2>1, <1>a
  <2>3. g[k + 1] = IF k + 1 = 1 THEN tt[k + 1] ELSE g[k] \o tt[k + 1] BY <2>1, <1>b
  <2>4. ss[k + 1] = tt[k + 1] BY <2>1
  <2>5. k + 1 # 1 => f[k] = g[k] BY <2>1, <1>2
  <2> QED BY <2>2, <2>3, <2>4, <2>5, Zenon
<1>3. Nat \subseteq N
  <2> HIDE DEF N
  <2> QED BY <1>1, <1>2, Decoding!NatSetInduction
<1> QED BY <1>3

\* FlattenSeq of a sequence that is not empty is the last value of such a function.
LEMMA FlattenIs ==
  ASSUME NEW ss, Len(ss) \in Nat, Len(ss) # 0
  PROVE \E f : IsFlat(f, ss, Len(ss)) /\ FlattenSeq(ss) = f[Len(ss)]
<1> DEFINE f == CHOOSE f : IsFlat(f, ss, Len(ss))
<1>1. IsFlat(f, ss, Len(ss)) BY FlatExists, Zenon
<1>2. FlattenSeq(ss) = f[Len(ss)] BY Zenon DEF FlattenSeq, IsFlat
<1> HIDE DEF f
<1> QED BY <1>1, <1>2

\* Nothing flattens to nothing.
LEMMA FlattenEmpty == FlattenSeq(<<>>) = <<>>
BY DEF FlattenSeq

\* One sequence more is appended at the end.
LEMMA FlattenSnoc ==
  ASSUME NEW S, NEW ss \in Seq(Seq(S)), NEW x \in Seq(S)
  PROVE FlattenSeq(Append(ss, x)) = FlattenSeq(ss) \o x
<1> DEFINE n == Len(ss)
           longer == Append(ss, x)
<1>0. n \in Nat OBVIOUS
<1>1. Len(longer) = n + 1 /\ longer[n + 1] = x /\ \A i \in 1 .. n : ss[i] = longer[i] OBVIOUS
<1>2. PICK g : IsFlat(g, longer, n + 1) /\ FlattenSeq(longer) = g[n + 1]
  <2> HIDE DEF longer, n
  <2>1. n + 1 \in Nat /\ n + 1 # 0 BY <1>0
  <2> QED BY <1>1, <2>1, FlattenIs
<1>3. g[n + 1] = IF n + 1 = 1 THEN longer[n + 1] ELSE g[n] \o longer[n + 1]
  <2> HIDE DEF longer, n
  <2>1. n + 1 \in 1 .. n + 1 /\ (n + 1) - 1 = n BY <1>0
  <2>2. g[n + 1] = IF n + 1 = 1 THEN longer[n + 1] ELSE g[(n + 1) - 1] \o longer[n + 1] BY <1>2, <2>1, Zenon DEF IsFlat
  <2> QED BY <2>2, <2>1
<1>4. CASE n = 0
  <2>1. ss = <<>> BY <1>4
  <2>2. FlattenSeq(ss) = <<>> BY <2>1, FlattenEmpty
  <2>3. <<>> \o x = x OBVIOUS
  <2> QED BY <2>2, <2>3, <1>1, <1>2, <1>3, <1>4
<1>5. CASE n # 0
  <2>1. PICK f : IsFlat(f, ss, n) /\ FlattenSeq(ss) = f[n]
    <3> HIDE DEF longer
    <3> QED BY <1>0, <1>5, FlattenIs
  <2>2. f[n] = g[n]
    <3> HIDE DEF longer, n
    <3>1. n + 1 \in Nat /\ n <= n + 1 /\ n \in 1 .. n BY <1>0, <1>5
    <3>2. IsFlat(f, ss, n) /\ IsFlat(g, longer, n + 1) /\ \A i \in 1 .. n : ss[i] = longer[i] BY <1>1, <1>2, <2>1
    <3>3. \A i \in 1 .. n : f[i] = g[i] BY <3>1, <3>2, <1>0, FlatAgree
    <3> QED BY <3>1, <3>3
  <2>3. n + 1 # 1 BY <1>0, <1>5
  <2> QED BY <1>0, <1>1, <1>2, <1>3, <2>1, <2>2, <2>3, Zenon
<1> QED BY <1>4, <1>5

\* Flattening sequences over S gives a sequence over S.
LEMMA FlattenType == ASSUME NEW S, NEW ss \in Seq(Seq(S)) PROVE FlattenSeq(ss) \in Seq(S)
<1> DEFINE T == {tt \in Seq(Seq(S)) : FlattenSeq(tt) \in Seq(S)}
<1>1. <<>> \in T
  <2>1. <<>> \in Seq(Seq(S)) /\ <<>> \in Seq(S) OBVIOUS
  <2> QED BY <2>1, FlattenEmpty, Zenon
<1>2. ASSUME NEW tt \in Seq(Seq(S)), NEW x \in Seq(S), tt \in T PROVE Append(tt, x) \in T
  <2>1. FlattenSeq(Append(tt, x)) = FlattenSeq(tt) \o x BY FlattenSnoc
  <2>2. FlattenSeq(tt) \in Seq(S) BY <1>2
  <2>3. FlattenSeq(tt) \o x \in Seq(S) BY <2>2
  <2>4. Append(tt, x) \in Seq(Seq(S)) OBVIOUS
  <2> QED BY <2>1, <2>3, <2>4, Zenon
<1>3. Seq(Seq(S)) \subseteq T
  <2> HIDE DEF T
  <2> QED BY <1>1, <1>2, Decoding!SeqInduction
<1> QED BY <1>3

-----------------------------------------------------------------------------
(* Lines. *)
\* The ends of the lines of s, where a line starts, and the line under way at the end.
EndsOf(s) == {i \in DOMAIN s : s[i] = "lf"}
IsTop(m, ends, i) == m \in ends /\ m < i /\ \A k \in ends : k < i => k <= m
StartOf(s, i) ==
  IF \E j \in EndsOf(s) : j < i
  THEN 1 + CHOOSE j \in EndsOf(s) : j < i /\ \A k \in EndsOf(s) : k < i => k <= j ELSE 1
CurrentOf(s) == SubSeq(s, StartOf(s, Len(s) + 1), Len(s))

\* LinesOf in terms of the starts and ends of lines.
LEMMA LinesAre == ASSUME NEW s PROVE LinesOf(s) = [e \in EndsOf(s) |-> SubSeq(s, StartOf(s, e), e - 1)]
BY Zenon DEF LinesOf, EndsOf, StartOf

\* Among the ends of lines before i there is a last one, and a line starts behind it.
LEMMA TopExists ==
  ASSUME NEW S, NEW s \in Seq(S), NEW i \in Nat, \E j \in EndsOf(s) : j < i
  PROVE \E m : IsTop(m, EndsOf(s), i) /\ StartOf(s, i) = 1 + m
<1> DEFINE ends == {j \in EndsOf(s) : j < i}
           m == CHOOSE j \in EndsOf(s) : j < i /\ \A k \in EndsOf(s) : k < i => k <= j
<1>1. Len(s) \in Nat /\ ends \in SUBSET (1 .. Len(s)) /\ ends # {} BY DEF EndsOf
<1>2. \E j \in ends : \A k \in ends : k <= j
  <2> HIDE DEF ends
  <2> QED BY <1>1, Decoding!MaxOf, Zenon
<1>3. \E j \in EndsOf(s) : j < i /\ \A k \in EndsOf(s) : k < i => k <= j BY <1>2
<1>4. m \in EndsOf(s) /\ m < i /\ \A k \in EndsOf(s) : k < i => k <= m BY <1>3, Zenon
<1>5. StartOf(s, i) = 1 + m BY Zenon DEF StartOf
<1> HIDE DEF m
<1> QED BY <1>4, <1>5 DEF IsTop

\* A line starts inside the text, and no later than the place it is asked for.
LEMMA StartBounds ==
  ASSUME NEW S, NEW s \in Seq(S), NEW i \in 1 .. Len(s) + 1
  PROVE StartOf(s, i) \in 1 .. i
<1>1. CASE \E j \in EndsOf(s) : j < i
  <2>1. PICK m : IsTop(m, EndsOf(s), i) /\ StartOf(s, i) = 1 + m BY <1>1, TopExists
  <2> QED BY <2>1 DEF IsTop, EndsOf
<1>2. CASE ~\E j \in EndsOf(s) : j < i
  <2>1. StartOf(s, i) = 1 BY <1>2, Zenon DEF StartOf
  <2> QED BY <2>1
<1> QED BY <1>1, <1>2

\* One byte more ends one line more if it is a line feed.
LEMMA EndsSnoc ==
  ASSUME NEW S, NEW s \in Seq(S), NEW b \in S
  PROVE EndsOf(Append(s, b)) = IF b = "lf" THEN EndsOf(s) \cup {Len(s) + 1} ELSE EndsOf(s)
BY DEF EndsOf

\* One byte more moves the start of no line.
LEMMA StartSame ==
  ASSUME NEW S, NEW s \in Seq(S), NEW b \in S, NEW i \in 1 .. Len(s) + 1
  PROVE StartOf(Append(s, b), i) = StartOf(s, i)
<1> DEFINE longer == Append(s, b)
<1>1. \A j : j < i /\ j \in EndsOf(longer) <=> j < i /\ j \in EndsOf(s) BY EndsSnoc DEF EndsOf
<1>2. longer \in Seq(S) /\ i \in Nat OBVIOUS
<1>3. CASE \E j \in EndsOf(s) : j < i
  <2>1. PICK m : IsTop(m, EndsOf(s), i) /\ StartOf(s, i) = 1 + m BY <1>2, <1>3, TopExists
  <2>2. PICK n : IsTop(n, EndsOf(longer), i) /\ StartOf(longer, i) = 1 + n
    <3> HIDE DEF longer
    <3> QED BY <1>1, <1>2, <1>3, TopExists
  <2>3. m \in Nat /\ n \in Nat BY <2>1, <2>2 DEF IsTop, EndsOf
  <2>4. m <= n /\ n <= m BY <1>1, <2>1, <2>2 DEF IsTop
  <2> QED BY <2>1, <2>2, <2>3, <2>4
<1>4. CASE ~\E j \in EndsOf(s) : j < i
  <2>1. ~\E j \in EndsOf(longer) : j < i BY <1>1, <1>4
  <2>2. StartOf(s, i) = 1 BY <1>4, Zenon DEF StartOf
  <2>3. StartOf(longer, i) = 1 BY <2>1, Zenon DEF StartOf
  <2> QED BY <2>2, <2>3
<1> QED BY <1>3, <1>4

\* One byte more ends the line under way or belongs to it.
LEMMA CurrentSnoc ==
  ASSUME NEW S, NEW s \in Seq(S), NEW b \in S
  PROVE /\ b = "lf" => CurrentOf(Append(s, b)) = <<>>
        /\ b # "lf" => CurrentOf(Append(s, b)) = Append(CurrentOf(s), b)
<1> DEFINE longer == Append(s, b)
           n == Len(s)
<1>1. longer \in Seq(S) /\ n \in Nat /\ Len(longer) = n + 1 /\ n + 2 \in Nat OBVIOUS
<1>2. ASSUME b = "lf" PROVE CurrentOf(longer) = <<>>
  <2>1. n + 1 \in EndsOf(longer) /\ n + 1 < n + 2 /\ EndsOf(longer) \subseteq 1 .. n + 1 BY <1>2 DEF EndsOf
  <2>2. PICK m : IsTop(m, EndsOf(longer), n + 2) /\ StartOf(longer, n + 2) = 1 + m
    <3> HIDE DEF longer, n
    <3> QED BY <1>1, <2>1, TopExists
  <2>3. m = n + 1 BY <2>1, <2>2 DEF IsTop
  <2>4. CurrentOf(longer) = SubSeq(longer, n + 2, n + 1) BY <2>2, <2>3, <1>1 DEF CurrentOf
  <2> QED BY <2>4
<1>3. ASSUME b # "lf" PROVE CurrentOf(longer) = Append(CurrentOf(s), b)
  <2>1. EndsOf(longer) = EndsOf(s) BY <1>3, EndsSnoc
  <2>2. \A j \in EndsOf(longer) : j < n + 2 <=> j < n + 1 BY <2>1 DEF EndsOf
  <2>3. StartOf(longer, n + 2) = StartOf(longer, n + 1)
    <3>1. CASE \E j \in EndsOf(longer) : j < n + 1
      <4>1. PICK m : IsTop(m, EndsOf(longer), n + 1) /\ StartOf(longer, n + 1) = 1 + m
        <5> HIDE DEF longer, n
        <5> QED BY <1>1, <3>1, n + 1 \in Nat, TopExists
      <4>2. PICK k : IsTop(k, EndsOf(longer), n + 2) /\ StartOf(longer, n + 2) = 1 + k
        <5> HIDE DEF longer, n
        <5> QED BY <1>1, <2>2, <3>1, TopExists
      <4>3. m \in Nat /\ k \in Nat BY <4>1, <4>2 DEF IsTop, EndsOf
      <4>4. m <= k /\ k <= m BY <2>2, <4>1, <4>2 DEF IsTop
      <4> QED BY <4>1, <4>2, <4>3, <4>4
    <3>2. CASE ~\E j \in EndsOf(longer) : j < n + 1
      <4>1. ~\E j \in EndsOf(longer) : j < n + 2 BY <2>2, <3>2
      <4>2. StartOf(longer, n + 2) = 1 BY <4>1, Zenon DEF StartOf
      <4>3. StartOf(longer, n + 1) = 1 BY <3>2, Zenon DEF StartOf
      <4> QED BY <4>2, <4>3
    <3> QED BY <3>1, <3>2
  <2>4. StartOf(longer, n + 1) = StartOf(s, n + 1)
    <3>1. n + 1 \in 1 .. n + 1 OBVIOUS
    <3> QED BY <3>1, StartSame
  <2>5. StartOf(s, n + 1) \in 1 .. n + 1
    <3>1. n + 1 \in 1 .. n + 1 OBVIOUS
    <3> QED BY <3>1, StartBounds
  <2> DEFINE k == StartOf(s, n + 1)
  <2>6. CurrentOf(longer) = SubSeq(longer, k, n + 1)
    <3>1. Len(longer) = n + 1 /\ Len(longer) + 1 = n + 2 BY <1>1
    <3>2. CurrentOf(longer) = SubSeq(longer, StartOf(longer, Len(longer) + 1), Len(longer)) BY DEF CurrentOf
    <3> HIDE DEF longer, n
    <3> QED BY <3>1, <3>2, <2>3, <2>4, Zenon
  <2>7. CurrentOf(s) = SubSeq(s, k, n) BY DEF CurrentOf
  <2> HIDE DEF k
  <2>8. SubSeq(longer, k, n + 1) = Append(SubSeq(s, k, n), b) BY <2>5 DEF k
  <2> QED BY <2>6, <2>7, <2>8, Zenon
<1> QED BY <1>2, <1>3

\* One byte more leaves the complete lines as they are, and a line feed completes the
\* one under way.
LEMMA LinesSnoc ==
  ASSUME NEW S, NEW s \in Seq(S), NEW b \in S
  PROVE /\ DOMAIN LinesOf(s) = EndsOf(s) /\ DOMAIN LinesOf(Append(s, b)) = EndsOf(Append(s, b))
        /\ \A i \in 1 .. Len(s) : i \in EndsOf(Append(s, b)) <=> i \in EndsOf(s)
        /\ \A i \in EndsOf(s) : LinesOf(Append(s, b))[i] = LinesOf(s)[i]
        /\ Len(s) + 1 \in EndsOf(Append(s, b)) <=> b = "lf"
        /\ b = "lf" => LinesOf(Append(s, b))[Len(s) + 1] = CurrentOf(s)
<1> DEFINE longer == Append(s, b)
           n == Len(s)
<1>1. LinesOf(s) = [e \in EndsOf(s) |-> SubSeq(s, StartOf(s, e), e - 1)] BY LinesAre
<1>2. LinesOf(longer) = [e \in EndsOf(longer) |-> SubSeq(longer, StartOf(longer, e), e - 1)] BY LinesAre, Zenon
<1>3. \A i \in 1 .. n : i \in EndsOf(longer) <=> i \in EndsOf(s) BY DEF EndsOf
<1>4. n + 1 \in EndsOf(longer) <=> b = "lf" BY DEF EndsOf
<1>5. ASSUME NEW i \in EndsOf(s) PROVE LinesOf(longer)[i] = LinesOf(s)[i]
  <2>1. i \in 1 .. n /\ i \in 1 .. n + 1 BY DEF EndsOf
  <2>2. StartOf(longer, i) = StartOf(s, i) BY <2>1, StartSame
  <2>3. StartOf(s, i) \in 1 .. i BY <2>1, StartBounds
  <2>4. SubSeq(longer, StartOf(s, i), i - 1) = SubSeq(s, StartOf(s, i), i - 1) BY <2>1, <2>3
  <2>5. i \in EndsOf(longer) BY <1>3, <2>1
  <2>6. LinesOf(longer)[i] = SubSeq(longer, StartOf(longer, i), i - 1) BY <1>2, <2>5, Zenon
  <2>7. LinesOf(s)[i] = SubSeq(s, StartOf(s, i), i - 1) BY <1>1, Zenon
  <2> QED BY <2>2, <2>4, <2>6, <2>7, Zenon
<1>6. ASSUME b = "lf" PROVE LinesOf(longer)[n + 1] = CurrentOf(s)
  <2>1. n + 1 \in 1 .. n + 1 OBVIOUS
  <2>2. StartOf(longer, n + 1) = StartOf(s, n + 1) BY <2>1, StartSame
  <2>3. StartOf(s, n + 1) \in 1 .. n + 1 BY <2>1, StartBounds
  <2>4. LinesOf(longer)[n + 1] = SubSeq(longer, StartOf(longer, n + 1), (n + 1) - 1) BY <1>2, <1>4, <1>6, Zenon
  <2> DEFINE k == StartOf(s, n + 1)
  <2> HIDE DEF k
  <2>5. (n + 1) - 1 = n /\ SubSeq(longer, k, n) = SubSeq(s, k, n) BY <2>3 DEF k
  <2> QED BY <2>2, <2>4, <2>5, Zenon DEF k, CurrentOf
<1> QED BY <1>1, <1>2, <1>3, <1>4, <1>5, <1>6, Zenon
-----------------------------------------------------------------------------
(* Decoding. *)
\* The characters, the pairs of bytes that are wide ones, and the character at each place.
Chars == (StreamBytes \ {"head", "tail"}) \cup {"wide", "bad"}
PairsOf(c) == {i \in DOMAIN c : c[i] = "head" /\ i < Len(c) /\ c[i + 1] = "tail"}
CharAt(c, i) ==
  IF i \in PairsOf(c) THEN <<"wide">>
  ELSE IF c[i] = "tail" /\ i - 1 \in PairsOf(c) THEN <<>>
  ELSE <<IF c[i] \in {"head", "tail"} THEN "bad" ELSE c[i]>>
CharsOf(c) == [i \in DOMAIN c |-> CharAt(c, i)]

\* Decoded in terms of the character at each place.
LEMMA DecodedIs == ASSUME NEW c PROVE Decoded(c) = FlattenSeq(CharsOf(c))
BY Zenon DEF Decoded, CharsOf, CharAt, PairsOf

\* A place gives one character or none.
LEMMA CharAtType == ASSUME NEW c \in Seq(StreamBytes), NEW i \in 1 .. Len(c) PROVE CharAt(c, i) \in Seq(Chars)
<1>1. c[i] \in StreamBytes OBVIOUS
<1>2. "wide" \in Chars /\ (IF c[i] \in {"head", "tail"} THEN "bad" ELSE c[i]) \in Chars BY <1>1 DEF Chars
<1> QED BY <1>2 DEF CharAt

\* The characters at all places.
LEMMA CharsType == ASSUME NEW c \in Seq(StreamBytes) PROVE CharsOf(c) \in Seq(Seq(Chars))
<1>1. \A i \in 1 .. Len(c) : CharAt(c, i) \in Seq(Chars) BY CharAtType
<1>2. DOMAIN c = 1 .. Len(c) /\ Len(c) \in Nat OBVIOUS
<1> DEFINE X == Seq(Chars)
<1>3. CharsOf(c) = [i \in 1 .. Len(c) |-> CharAt(c, i)] BY <1>2, Zenon DEF CharsOf
<1>4. [i \in 1 .. Len(c) |-> CharAt(c, i)] \in [1 .. Len(c) -> X] BY <1>1
<1> HIDE DEF X
<1>5. [i \in 1 .. Len(c) |-> CharAt(c, i)] \in Seq(X) BY <1>2, <1>4
<1> QED BY <1>3, <1>5 DEF X

\* What bytes decode to is a text.
LEMMA DecodedType == ASSUME NEW c \in Seq(StreamBytes) PROVE Decoded(c) \in Seq(Chars)
BY DecodedIs, CharsType, FlattenType

\* No bytes decode to no text.
LEMMA DecodedEmpty == Decoded(<<>>) = <<>>
<1>1. DOMAIN <<>> = {} OBVIOUS
<1>2. CharsOf(<<>>) = <<>> BY <1>1 DEF CharsOf
<1> QED BY <1>2, DecodedIs, FlattenEmpty

\* A byte that does not complete a character changes none before it.
LEMMA CharAtKept ==
  ASSUME NEW c \in Seq(StreamBytes), NEW b \in StreamBytes,
         ~(Len(c) # 0 /\ c[Len(c)] = "head" /\ b = "tail"), NEW i \in 1 .. Len(c)
  PROVE CharAt(Append(c, b), i) = CharAt(c, i)
<1> DEFINE d == Append(c, b)
<1>1. Len(d) = Len(c) + 1 /\ d[Len(c) + 1] = b /\ \A j \in 1 .. Len(c) : d[j] = c[j] OBVIOUS
<1>2. DOMAIN d = 1 .. Len(c) + 1 /\ DOMAIN c = 1 .. Len(c) /\ Len(c) \in Nat OBVIOUS
<1>3. \A j \in 1 .. Len(c) : j \in PairsOf(d) <=> j \in PairsOf(c)
  <2> HIDE DEF d
  <2> SUFFICES ASSUME NEW j \in 1 .. Len(c) PROVE j \in PairsOf(d) <=> j \in PairsOf(c) OBVIOUS
  <2>1. CASE j = Len(c) BY <2>1, <1>1, <1>2 DEF PairsOf
  <2>2. CASE j # Len(c)
    <3> DEFINE n == Len(c)
    <3>0. n \in Nat /\ j \in 1 .. n /\ j # n BY <2>2
    <3>1. j + 1 \in 1 .. n /\ j < n /\ j < n + 1
      <4> HIDE DEF n
      <4> QED BY <3>0
    <3>2. d[j] = c[j] /\ d[j + 1] = c[j + 1] BY <3>0, <3>1, <1>1
    <3>3. j \in PairsOf(d) <=> j \in 1 .. n + 1 /\ d[j] = "head" /\ j < n + 1 /\ d[j + 1] = "tail" BY <1>1, <1>2 DEF PairsOf
    <3>4. j \in PairsOf(c) <=> j \in 1 .. n /\ c[j] = "head" /\ j < n /\ c[j + 1] = "tail" BY <1>2 DEF PairsOf
    <3>5. j \in 1 .. n + 1 BY <3>0
    <3> QED BY <3>0, <3>1, <3>2, <3>3, <3>4, <3>5
  <2> QED BY <2>1, <2>2
<1>4. \A j : (j \in PairsOf(c) => j \in 1 .. Len(c)) /\ (j \in PairsOf(d) => j \in 1 .. Len(c) + 1)
  <2> HIDE DEF d
  <2> QED BY <1>2 DEF PairsOf
<1>5. i - 1 \in PairsOf(d) <=> i - 1 \in PairsOf(c)
  <2> HIDE DEF d
  <2> QED BY <1>2, <1>3, <1>4
<1> HIDE DEF d
<1>6. d[i] = c[i] /\ (i \in PairsOf(d) <=> i \in PairsOf(c)) BY <1>1, <1>3
<1> QED BY <1>5, <1>6, Zenon DEF CharAt, d

\* Append, place by place.
LEMMA AppendIs == ASSUME NEW S, NEW s \in Seq(S), NEW y
  PROVE Append(s, y) = [i \in 1 .. Len(s) + 1 |-> IF i \in 1 .. Len(s) THEN s[i] ELSE y]
<1> DEFINE T == S \cup {y}
           t == [i \in 1 .. Len(s) + 1 |-> IF i \in 1 .. Len(s) THEN s[i] ELSE y]
<1>1. s \in Seq(T) /\ y \in T OBVIOUS
<1>2. Append(s, y) \in Seq(T) /\ Len(Append(s, y)) = Len(s) + 1 BY <1>1
<1>3. \A i \in 1 .. Len(s) : Append(s, y)[i] = s[i] BY <1>1
<1>4. Append(s, y)[Len(s) + 1] = y BY <1>1
<1>5. Len(s) \in Nat OBVIOUS
<1>6. \A i \in 1 .. Len(s) + 1 : i \in 1 .. Len(s) \/ i = Len(s) + 1 BY <1>5
<1>7. Len(s) + 1 \notin 1 .. Len(s) BY <1>5
<1>8. \A i \in 1 .. Len(s) + 1 : Append(s, y)[i] = t[i] BY <1>3, <1>4, <1>6, <1>7
<1>9. DOMAIN Append(s, y) = 1 .. Len(s) + 1 BY <1>2
<1>10. Append(s, y) = [i \in DOMAIN Append(s, y) |-> Append(s, y)[i]]
  <2> DEFINE w == Append(s, y)
  <2>1. w \in Seq(T) BY <1>2
  <2> HIDE DEF w, T
  <2>2. w \in [1 .. Len(w) -> T] BY <2>1
  <2>3. w = [i \in DOMAIN w |-> w[i]] BY <2>2
  <2> QED BY <2>3 DEF w
<1> QED BY <1>8, <1>9, <1>10

\* A byte that does not complete a character adds itself, or the mark of a broken one.
LEMMA DecodedSnoc ==
  ASSUME NEW c \in Seq(StreamBytes), NEW b \in StreamBytes, ~(Len(c) # 0 /\ c[Len(c)] = "head" /\ b = "tail")
  PROVE Decoded(Append(c, b)) = Append(Decoded(c), IF b \in {"head", "tail"} THEN "bad" ELSE b)
<1> DEFINE d == Append(c, b)
           n == Len(c)
           x == IF b \in {"head", "tail"} THEN "bad" ELSE b
<1>1. Len(d) = n + 1 /\ d[n + 1] = b /\ DOMAIN d = 1 .. n + 1 /\ DOMAIN c = 1 .. n /\ n \in Nat OBVIOUS
<1>2. \A i \in 1 .. n : CharAt(d, i) = CharAt(c, i) BY CharAtKept
<1>3. \A i \in 1 .. n : d[i] = c[i] OBVIOUS
<1>4. CharAt(d, n + 1) = <<x>>
  <2> HIDE DEF d, x
  <2>1. n + 1 \notin PairsOf(d) BY <1>1 DEF PairsOf
  <2>2. d[n + 1] = "tail" => n \notin PairsOf(d)
    <3> SUFFICES ASSUME b = "tail", n \in PairsOf(d) PROVE FALSE BY <1>1
    <3>1. n \in 1 .. n + 1 /\ d[n] = "head" BY <1>1 DEF PairsOf
    <3>2. c[n] = "head" /\ n # 0 BY <1>1, <1>3, <3>1
    <3> QED BY <3>2
  <2>3. (n + 1) - 1 = n BY <1>1
  <2>4. CharAt(d, n + 1) = <<IF d[n + 1] \in {"head", "tail"} THEN "bad" ELSE d[n + 1]>> BY <2>1, <2>2, <2>3 DEF CharAt
  <2> QED BY <2>4, <1>1 DEF x
<1>5. CharsOf(d) = Append(CharsOf(c), <<x>>)
  <2>1. CharsOf(c) \in Seq(Seq(Chars)) /\ Len(CharsOf(c)) = n
    <3>1. CharsOf(c) \in Seq(Seq(Chars)) BY CharsType
    <3>2. DOMAIN CharsOf(c) = 1 .. n BY <1>1 DEF CharsOf
    <3> QED BY <3>1, <3>2
  <2>2. \A i \in 1 .. n : CharsOf(c)[i] = CharAt(c, i) BY <1>1 DEF CharsOf
  <2> DEFINE cs == CharsOf(c)
             y == <<x>>
  <2>3. CharsOf(d) = [i \in 1 .. n + 1 |-> CharAt(d, i)] BY <1>1, Zenon DEF CharsOf
  <2>4. Append(cs, y) = [i \in 1 .. n + 1 |-> IF i \in 1 .. n THEN cs[i] ELSE y]
    <3>1. cs \in Seq(Seq(Chars)) /\ Len(cs) = n BY <2>1
    <3> HIDE DEF cs, y
    <3> QED BY <3>1, AppendIs
  <2>5. \A i \in 1 .. n + 1 : CharAt(d, i) = IF i \in 1 .. n THEN cs[i] ELSE y
    <3> HIDE DEF d, cs, y
    <3>1. \A i \in 1 .. n + 1 : i \in 1 .. n \/ i = n + 1 BY <1>1
    <3>2. n + 1 \notin 1 .. n BY <1>1
    <3> QED BY <3>1, <3>2, <1>2, <1>4, <2>2 DEF cs, y
  <2> HIDE DEF d, cs, y, n
  <2>6. CharsOf(d) = Append(cs, y) BY <2>3, <2>4, <2>5
  <2> QED BY <2>6 DEF cs, y
<1>6. <<x>> \in Seq(Chars)
  <2>1. x \in Chars BY DEF Chars
  <2> HIDE DEF x
  <2> QED BY <2>1
<1>7. FlattenSeq(CharsOf(d)) = FlattenSeq(CharsOf(c)) \o <<x>>
  <2> HIDE DEF d, x
  <2> QED BY <1>5, <1>6, CharsType, FlattenSnoc, Zenon
<1>8. Decoded(d) = Decoded(c) \o <<x>> BY <1>7, DecodedIs, Zenon
<1>9. Decoded(c) \in Seq(Chars) BY DecodedType
<1>10. Decoded(c) \o <<x>> = Append(Decoded(c), x)
  <2> HIDE DEF x
  <2> QED BY <1>9
<1> QED BY <1>8, <1>10

\* The two bytes of a wide character add that character.
LEMMA DecodedPair ==
  ASSUME NEW c \in Seq(StreamBytes)
  PROVE Decoded(Append(Append(c, "head"), "tail")) = Append(Decoded(c), "wide")
<1> DEFINE n == Len(c)
           u == Append(Append(c, "head"), "tail")
           w == Append(CharsOf(c), <<"wide">>)
<1>0. "head" \in StreamBytes /\ "tail" \in StreamBytes BY DEF StreamBytes
<1>1. Len(u) = n + 2 /\ DOMAIN u = 1 .. n + 2 /\ DOMAIN c = 1 .. n /\ n \in Nat BY <1>0
<1>2. u[n + 1] = "head" /\ u[n + 2] = "tail" /\ \A i \in 1 .. n : u[i] = c[i] BY <1>0
<1>3. \A i : i \in PairsOf(u) <=> i \in 1 .. n + 2 /\ u[i] = "head" /\ i < n + 2 /\ u[i + 1] = "tail"
  <2> HIDE DEF u
  <2> QED BY <1>1 DEF PairsOf
<1>4. \A i : i \in PairsOf(c) <=> i \in 1 .. n /\ c[i] = "head" /\ i < n /\ c[i + 1] = "tail" BY <1>1 DEF PairsOf
<1>5. \A i \in 1 .. n : i \in PairsOf(u) <=> i \in PairsOf(c)
  <2> HIDE DEF u, n
  <2> SUFFICES ASSUME NEW i \in 1 .. n PROVE i \in PairsOf(u) <=> i \in PairsOf(c) OBVIOUS
  <2>1. CASE i = n
    <3>1. n + 1 \in 1 .. n + 2 /\ u[n + 1] # "tail" BY <1>1, <1>2
    <3> QED BY <2>1, <3>1, <1>1, <1>3, <1>4
  <2>2. CASE i # n
    <3>1. i + 1 \in 1 .. n /\ i < n /\ i < n + 2 /\ i \in 1 .. n + 2 BY <1>1, <2>2
    <3>2. u[i] = c[i] /\ u[i + 1] = c[i + 1] BY <3>1, <1>2
    <3> QED BY <3>1, <3>2, <1>3, <1>4
  <2> QED BY <2>1, <2>2
<1>6. \A i \in 1 .. n : CharAt(u, i) = CharAt(c, i)
  <2> HIDE DEF u, n
  <2> SUFFICES ASSUME NEW i \in 1 .. n PROVE CharAt(u, i) = CharAt(c, i) OBVIOUS
  <2>1. i - 1 \in PairsOf(u) <=> i - 1 \in PairsOf(c)
    <3>1. CASE i = 1 BY <3>1, <1>1, <1>3, <1>4
    <3>2. CASE i # 1
      <4>1. i - 1 \in 1 .. n BY <1>1, <3>2
      <4> QED BY <4>1, <1>5
    <3> QED BY <3>1, <3>2
  <2>2. u[i] = c[i] /\ (i \in PairsOf(u) <=> i \in PairsOf(c)) BY <1>2, <1>5
  <2> QED BY <2>1, <2>2, Zenon DEF CharAt
<1>7. CharAt(u, n + 1) = <<"wide">> /\ CharAt(u, n + 2) = <<>>
  <2> HIDE DEF u, n
  <2>1. n + 1 \in 1 .. n + 2 /\ n + 1 < n + 2 /\ (n + 1) + 1 = n + 2 /\ (n + 2) - 1 = n + 1 BY <1>1
  <2>2. n + 1 \in PairsOf(u) BY <2>1, <1>2, <1>3
  <2>3. n + 2 \notin PairsOf(u) BY <1>2, <1>3
  <2>4. CharAt(u, n + 1) = <<"wide">> BY <2>2, Zenon DEF CharAt
  <2>5. CharAt(u, n + 2) = <<>> BY <2>1, <2>2, <2>3, <1>2 DEF CharAt
  <2> QED BY <2>4, <2>5
<1>8. CharsOf(c) \in Seq(Seq(Chars)) /\ Len(CharsOf(c)) = n
  <2>1. CharsOf(c) \in Seq(Seq(Chars)) BY CharsType
  <2>2. DOMAIN CharsOf(c) = 1 .. n BY <1>1 DEF CharsOf
  <2> QED BY <2>1, <2>2
<1>9. <<"wide">> \in Seq(Chars) /\ <<>> \in Seq(Chars)
  <2>1. "wide" \in Chars BY DEF Chars
  <2> QED BY <2>1
<1>10. w \in Seq(Seq(Chars)) /\ Len(w) = n + 1 BY <1>8, <1>9
<1>11. w = [i \in 1 .. n + 1 |-> IF i \in 1 .. n THEN CharsOf(c)[i] ELSE <<"wide">>]
  <2> HIDE DEF n
  <2> QED BY <1>8, AppendIs
<1>12. Append(w, <<>>) = [i \in 1 .. n + 2 |-> IF i \in 1 .. n + 1 THEN w[i] ELSE <<>>]
  <2> DEFINE m == n + 1
  <2>1. m + 1 = n + 2 BY <1>1
  <2>2. w \in Seq(Seq(Chars)) /\ Len(w) = m BY <1>10
  <2> HIDE DEF n, w, m
  <2>3. Append(w, <<>>) = [i \in 1 .. m + 1 |-> IF i \in 1 .. m THEN w[i] ELSE <<>>] BY <2>2, AppendIs
  <2> QED BY <2>1, <2>3 DEF m
<1>13. CharsOf(u) = Append(w, <<>>)
  <2>1. CharsOf(u) = [i \in 1 .. n + 2 |-> CharAt(u, i)] BY <1>1, Zenon DEF CharsOf
  <2>2. \A i \in 1 .. n : CharsOf(c)[i] = CharAt(c, i) BY <1>1 DEF CharsOf
  <2> HIDE DEF u, n, w
  <2>3. \A i \in 1 .. n + 2 : i \in 1 .. n \/ i = n + 1 \/ i = n + 2 BY <1>1
  <2>4. n + 1 \notin 1 .. n /\ n + 2 \notin 1 .. n + 1 /\ n + 1 \in 1 .. n + 1 /\ \A i \in 1 .. n : i \in 1 .. n + 1 BY <1>1
  <2>5. \A i \in 1 .. n : w[i] = CharAt(u, i) BY <1>11, <1>6, <2>2, <2>4
  <2>6. w[n + 1] = <<"wide">> BY <1>11, <2>4
  <2>7. \A i \in 1 .. n + 2 : CharAt(u, i) = IF i \in 1 .. n + 1 THEN w[i] ELSE <<>>
        BY <2>3, <2>4, <2>5, <2>6, <1>7
  <2> QED BY <2>1, <2>7, <1>12
<1>14. FlattenSeq(CharsOf(u)) = (FlattenSeq(CharsOf(c)) \o <<"wide">>) \o <<>>
  <2>1. FlattenSeq(w) = FlattenSeq(CharsOf(c)) \o <<"wide">> BY <1>8, <1>9, FlattenSnoc, Zenon
  <2> HIDE DEF u, w
  <2>2. FlattenSeq(Append(w, <<>>)) = FlattenSeq(w) \o <<>> BY <1>9, <1>10, FlattenSnoc, Zenon
  <2> QED BY <1>13, <2>1, <2>2
<1>15. Decoded(u) = (Decoded(c) \o <<"wide">>) \o <<>>
  <2> HIDE DEF u
  <2> QED BY <1>14, DecodedIs
<1>16. Decoded(c) \in Seq(Chars) /\ "wide" \in Chars BY DecodedType DEF Chars
<1>17. (Decoded(c) \o <<"wide">>) \o <<>> = Append(Decoded(c), "wide")
  <2> DEFINE e == Decoded(c)
  <2>1. e \in Seq(Chars) BY <1>16
  <2> HIDE DEF e
  <2> QED BY <2>1, <1>16
<1> QED BY <1>15, <1>17

\* A line gives one record or none.
LEMMA RecordType == ASSUME NEW S, NEW line \in Seq(S) PROVE RecordOf(line) \in Seq(Seq(S))
<1>1. StripTrailingCr(line) \in Seq(S)
  <2>1. CASE line # <<>> /\ Last(line) = "cr"
    <3>1. StripTrailingCr(line) = SubSeq(line, 1, Len(line) - 1) BY <2>1 DEF StripTrailingCr, Front
    <3>2. Len(line) \in Nat /\ Len(line) # 0 BY <2>1
    <3> QED BY <3>1, <3>2
  <2>2. CASE ~(line # <<>> /\ Last(line) = "cr") BY <2>2 DEF StripTrailingCr
  <2> QED BY <2>1, <2>2
<1> QED BY <1>1 DEF RecordOf

-----------------------------------------------------------------------------
(* What the decoder and the reader of lines make of the bytes received. *)
NothingDecoded == [held |-> FALSE, text |-> <<>>]
NothingTaken == [rest |-> <<>>, records |-> <<>>]
DecodedBy(s) == Decoding!Fold(NothingDecoded, s)
LinesBy(t) == LineTaking!Fold(NothingTaken, t)
LineChars == Chars \ {"lf"}
Texts == [held : BOOLEAN, text : Seq(Chars)]
LineStates == [rest : Seq(LineChars), records : Seq(Seq(Chars))]
\* The records of the lines of the bytes s: what RecordsWhole compares with.
RecordAt(s, i) == IF i \in DOMAIN LinesOf(s) THEN RecordOf(Decoded(LinesOf(s)[i])) ELSE <<>>
RecordsIn(s) == FlattenSeq([i \in DOMAIN s |-> RecordAt(s, i)])

\* A step of the decoder stays among its states.
LEMMA DecodeByteType == ASSUME NEW o \in Texts, NEW b \in StreamBytes PROVE DecodeByte(o, b) \in Texts
<1> DEFINE settled == IF o.held /\ b # "tail" THEN Append(o.text, "bad") ELSE o.text
           x == IF b # "tail" THEN b ELSE IF o.held THEN "wide" ELSE "bad"
<1>1. o.text \in Seq(Chars) /\ "bad" \in Chars BY DEF Texts, Chars
<1>2. settled \in Seq(Chars) BY <1>1
<1>3. b # "head" => x \in Chars BY DEF Chars
<1>4. DecodeByte(o, b) = [held |-> b = "head", text |-> IF b = "head" THEN settled ELSE Append(settled, x)]
      BY Zenon DEF DecodeByte
<1> HIDE DEF settled, x
<1>5. (IF b = "head" THEN settled ELSE Append(settled, x)) \in Seq(Chars) BY <1>2, <1>3
<1>6. (b = "head") \in BOOLEAN OBVIOUS
<1> QED BY <1>4, <1>5, <1>6 DEF Texts

\* The decoder ends in one of its states.
LEMMA DecodedByType == ASSUME NEW s \in Seq(StreamBytes) PROVE DecodedBy(s) \in Texts
<1>1. NothingDecoded \in Texts BY DEF NothingDecoded, Texts
<1>2. \A o \in Texts : \A b \in StreamBytes : DecodeByte(o, b) \in Texts BY DecodeByteType
<1> QED BY <1>1, <1>2, Decoding!FoldType, Zenon DEF DecodedBy

\* A step of the cutting into lines stays among its states.
LEMMA TakeCharType == ASSUME NEW o \in LineStates, NEW x \in Chars PROVE TakeChar(o, x) \in LineStates
<1>1. o.rest \in Seq(LineChars) /\ o.records \in Seq(Seq(Chars)) BY DEF LineStates
<1>2. RecordOf(o.rest) \in Seq(Seq(Chars))
  <2>1. o.rest \in Seq(Chars) BY <1>1 DEF LineChars
  <2> QED BY <2>1, RecordType
<1>3. CASE x = "lf"
  <2>1. TakeChar(o, x) = [rest |-> <<>>, records |-> o.records \o RecordOf(o.rest)] BY <1>3 DEF TakeChar
  <2>2. o.records \o RecordOf(o.rest) \in Seq(Seq(Chars)) /\ <<>> \in Seq(LineChars) BY <1>1, <1>2
  <2> QED BY <2>1, <2>2 DEF LineStates
<1>4. CASE x # "lf"
  <2>1. TakeChar(o, x) = [rest |-> Append(o.rest, x), records |-> o.records] BY <1>4 DEF TakeChar
  <2>2. Append(o.rest, x) \in Seq(LineChars) BY <1>1, <1>4 DEF LineChars
  <2> QED BY <2>1, <2>2, <1>1 DEF LineStates
<1> QED BY <1>3, <1>4

\* The cutting into lines ends in one of its states.
LEMMA LinesByType == ASSUME NEW t \in Seq(Chars) PROVE LinesBy(t) \in LineStates
<1>1. NothingTaken \in LineStates BY DEF NothingTaken, LineStates
<1>2. \A o \in LineStates : \A x \in Chars : TakeChar(o, x) \in LineStates BY TakeCharType
<1> QED BY <1>1, <1>2, LineTaking!FoldType, Zenon DEF LinesBy

\* The line under way is a sequence of the same bytes.
LEMMA CurrentType == ASSUME NEW S, NEW s \in Seq(S) PROVE CurrentOf(s) \in Seq(S)
<1> DEFINE k == StartOf(s, Len(s) + 1)
<1>1. Len(s) + 1 \in 1 .. Len(s) + 1 OBVIOUS
<1>2. k \in 1 .. Len(s) + 1 BY <1>1, StartBounds
<1> HIDE DEF k
<1>3. SubSeq(s, k, Len(s)) \in Seq(S) BY <1>2
<1> QED BY <1>3 DEF CurrentOf, k

\* So is a complete line.
LEMMA LineType == ASSUME NEW S, NEW s \in Seq(S), NEW i \in EndsOf(s) PROVE LinesOf(s)[i] \in Seq(S)
<1> DEFINE k == StartOf(s, i)
<1>1. i \in 1 .. Len(s) /\ i \in 1 .. Len(s) + 1 BY DEF EndsOf
<1>2. k \in 1 .. i BY <1>1, StartBounds
<1>3. LinesOf(s)[i] = SubSeq(s, k, i - 1) BY LinesAre, Zenon
<1> HIDE DEF k
<1>4. SubSeq(s, k, i - 1) \in Seq(S) BY <1>1, <1>2
<1> QED BY <1>3, <1>4

\* What the reference reads at a place is a sequence of texts.
LEMMA RecordAtType == ASSUME NEW s \in Seq(StreamBytes), NEW i \in DOMAIN s PROVE RecordAt(s, i) \in Seq(Seq(Chars))
<1>1. CASE i \in DOMAIN LinesOf(s)
  <2>1. i \in EndsOf(s) BY <1>1, LinesSnoc, LinesAre
  <2>2. Decoded(LinesOf(s)[i]) \in Seq(Chars) BY <2>1, LineType, DecodedType
  <2> QED BY <1>1, <2>2, RecordType DEF RecordAt
<1>2. CASE i \notin DOMAIN LinesOf(s) BY <1>2 DEF RecordAt
<1> QED BY <1>1, <1>2

\* A function on 1..n into X is a sequence over X.
LEMMA TableIsSeq ==
  ASSUME NEW X, NEW n \in Nat, NEW F(_), \A i \in 1 .. n : F(i) \in X
  PROVE [i \in 1 .. n |-> F(i)] \in Seq(X)
<1>1. [i \in 1 .. n |-> F(i)] \in [1 .. n -> X] OBVIOUS
<1> QED BY <1>1

\* By the reference, one byte more adds the record of the line it ends, if it ends one.
LEMMA RecordsInSnoc ==
  ASSUME NEW s \in Seq(StreamBytes), NEW b \in StreamBytes
  PROVE RecordsIn(Append(s, b)) = RecordsIn(s) \o (IF b = "lf" THEN RecordOf(Decoded(CurrentOf(s))) ELSE <<>>)
<1> DEFINE d == Append(s, b)
           n == Len(s)
           X == Seq(Seq(Chars))
           rs == [i \in DOMAIN s |-> RecordAt(s, i)]
           y == IF b = "lf" THEN RecordOf(Decoded(CurrentOf(s))) ELSE <<>>
<1>1. DOMAIN d = 1 .. n + 1 /\ DOMAIN s = 1 .. n /\ n \in Nat OBVIOUS
<1>2. \A i \in 1 .. n : RecordAt(d, i) = RecordAt(s, i)
  <2> SUFFICES ASSUME NEW i \in 1 .. n PROVE RecordAt(d, i) = RecordAt(s, i) OBVIOUS
  <2>1. i \in DOMAIN LinesOf(d) <=> i \in DOMAIN LinesOf(s) BY LinesSnoc
  <2>2. i \in DOMAIN LinesOf(s) => LinesOf(d)[i] = LinesOf(s)[i] BY LinesSnoc
  <2> HIDE DEF d
  <2> QED BY <2>1, <2>2 DEF RecordAt
<1>3. RecordAt(d, n + 1) = y
  <2>1. n + 1 \in DOMAIN LinesOf(d) <=> b = "lf" BY LinesSnoc
  <2>2. b = "lf" => LinesOf(d)[n + 1] = CurrentOf(s) BY LinesSnoc
  <2> HIDE DEF d, n
  <2> QED BY <2>1, <2>2 DEF RecordAt
<1>4. y \in X
  <2>1. Decoded(CurrentOf(s)) \in Seq(Chars) BY CurrentType, DecodedType
  <2>2. RecordOf(Decoded(CurrentOf(s))) \in X BY <2>1, RecordType
  <2> QED BY <2>2
<1>5. rs \in Seq(X) /\ Len(rs) = n
  <2>1. \A i \in 1 .. n : RecordAt(s, i) \in X BY RecordAtType, <1>1
  <2> HIDE DEF X, n
  <2>2. [i \in 1 .. n |-> RecordAt(s, i)] \in Seq(X) BY <2>1, <1>1, TableIsSeq
  <2> QED BY <2>2, <1>1
<1>6. Append(rs, y) = [i \in 1 .. n + 1 |-> IF i \in 1 .. n THEN rs[i] ELSE y]
  <2> HIDE DEF rs, y, X, n
  <2> QED BY <1>5, AppendIs
<1>7. [i \in DOMAIN d |-> RecordAt(d, i)] = Append(rs, y)
  <2>1. \A i \in 1 .. n : rs[i] = RecordAt(s, i) BY <1>1
  <2> HIDE DEF rs, y, X, d
  <2>2. \A i \in 1 .. n + 1 : i \in 1 .. n \/ i = n + 1 BY <1>1
  <2>3. n + 1 \notin 1 .. n BY <1>1
  <2> HIDE DEF n
  <2>4. \A i \in 1 .. n + 1 : RecordAt(d, i) = IF i \in 1 .. n THEN rs[i] ELSE y BY <2>1, <2>2, <2>3, <1>2, <1>3
  <2> QED BY <2>4, <1>1, <1>6
<1>8. FlattenSeq(Append(rs, y)) = FlattenSeq(rs) \o y
  <2>1. rs \in Seq(Seq(Seq(Chars))) /\ y \in Seq(Seq(Chars)) BY <1>4, <1>5
  <2> HIDE DEF rs, y, X
  <2> QED BY <2>1, FlattenSnoc
<1>9. RecordsIn(d) = FlattenSeq(Append(rs, y))
  <2> HIDE DEF rs, y, d
  <2> QED BY <1>7, Zenon DEF RecordsIn
<1>10. RecordsIn(s) = FlattenSeq(rs) BY Zenon DEF RecordsIn
<1> HIDE DEF rs, d, X
<1> QED BY <1>8, <1>9, <1>10 DEF d

\* By the reference, no bytes hold no record.
LEMMA RecordsInEmpty == RecordsIn(<<>>) = <<>>
<1>1. DOMAIN <<>> = {} OBVIOUS
<1>2. [i \in DOMAIN <<>> |-> RecordAt(<<>>, i)] = <<>> BY <1>1
<1> QED BY <1>2, FlattenEmpty DEF RecordsIn

\* One character more is one more step of the cutting into lines.
LEMMA LinesBySnoc ==
  ASSUME NEW t \in Seq(Chars), NEW x \in Chars
  PROVE /\ LinesBy(Append(t, x)) = TakeChar(LinesBy(t), x)
        /\ Append(t, x) \in Seq(Chars)
BY LineTaking!FoldSnoc DEF LinesBy

\* What the decoder must have made of the bytes s.  The line under way may end in half a
\* character, which it holds back.
EndsInHead(c) == Len(c) # 0 /\ c[Len(c)] = "head"
Tracked(s) ==
  /\ LinesBy(DecodedBy(s).text).records = RecordsIn(s)
  /\ ~DecodedBy(s).held => ~EndsInHead(CurrentOf(s)) /\ LinesBy(DecodedBy(s).text).rest = Decoded(CurrentOf(s))
  /\ DecodedBy(s).held => \E c \in Seq(StreamBytes) :
                             CurrentOf(s) = Append(c, "head") /\ LinesBy(DecodedBy(s).text).rest = Decoded(c)

\* When the character under way is given up as broken, the text is what the line under
\* way decodes to, in one go.
LEMMA Settles ==
  ASSUME NEW s \in Seq(StreamBytes), Tracked(s)
  PROVE LET o == DecodedBy(s)
            settled == IF o.held THEN Append(o.text, "bad") ELSE o.text
        IN  /\ settled \in Seq(Chars)
            /\ LinesBy(settled) = [rest |-> Decoded(CurrentOf(s)), records |-> RecordsIn(s)]
<1> DEFINE o == DecodedBy(s)
           l == LinesBy(o.text)
<1>1. o.text \in Seq(Chars) /\ o.held \in BOOLEAN BY DecodedByType DEF Texts
<1>2. l \in LineStates BY <1>1, LinesByType
<1>3. l.records = RecordsIn(s) BY DEF Tracked
<1>4. l = [rest |-> l.rest, records |-> l.records] BY <1>2 DEF LineStates
<1>5. CASE ~o.held
  <2>1. l.rest = Decoded(CurrentOf(s)) BY <1>5 DEF Tracked
  <2> QED BY <1>1, <1>3, <1>4, <1>5, <2>1
<1>6. CASE o.held
  <2>1. PICK c \in Seq(StreamBytes) : CurrentOf(s) = Append(c, "head") /\ l.rest = Decoded(c) BY <1>6 DEF Tracked
  <2>2. "bad" \in Chars /\ "head" \in StreamBytes BY DEF Chars, StreamBytes
  <2>3. LinesBy(Append(o.text, "bad")) = TakeChar(l, "bad") /\ Append(o.text, "bad") \in Seq(Chars) BY <1>1, <2>2, LinesBySnoc
  <2>4. TakeChar(l, "bad") = [rest |-> Append(l.rest, "bad"), records |-> l.records] BY Zenon DEF TakeChar
  <2>5. Decoded(Append(c, "head")) = Append(Decoded(c), "bad") BY <2>2, DecodedSnoc
  <2> HIDE DEF l
  <2> QED BY <1>1, <1>3, <1>6, <2>1, <2>3, <2>4, <2>5, Zenon DEF l
<1> QED BY <1>1, <1>5, <1>6

\* MistakeAhead the first byte the decoder stands where the reference does.
LEMMA TrackedStart == Tracked(<<>>)
<1>1. DecodedBy(<<>>) = NothingDecoded BY Decoding!FoldEmpty DEF DecodedBy
<1>2. LinesBy(<<>>) = NothingTaken BY LineTaking!FoldEmpty DEF LinesBy
<1>3. CurrentOf(<<>>) = <<>>
  <2>1. <<>> \in Seq(StreamBytes) /\ Len(<<>>) = 0 /\ 1 \in 1 .. Len(<<>>) + 1 OBVIOUS
  <2>2. StartOf(<<>>, 1) \in 1 .. 1 BY <2>1, StartBounds, Zenon
  <2>3. StartOf(<<>>, Len(<<>>) + 1) = 1 BY <2>1, <2>2
  <2>4. SubSeq(<<>>, 1, 0) = <<>> OBVIOUS
  <2> QED BY <2>1, <2>3, <2>4 DEF CurrentOf
<1>4. DecodedBy(<<>>).held = FALSE /\ DecodedBy(<<>>).text = <<>> BY <1>1 DEF NothingDecoded
<1>5. LinesBy(DecodedBy(<<>>).text).rest = <<>> /\ LinesBy(DecodedBy(<<>>).text).records = <<>> BY <1>2, <1>4 DEF NothingTaken
<1>6. ~EndsInHead(<<>>) BY DEF EndsInHead
<1> QED BY <1>3, <1>4, <1>5, <1>6, DecodedEmpty, RecordsInEmpty DEF Tracked

\* One byte more and it still does: whether a character is complete, broken or under way.
LEMMA TrackedKept ==
  ASSUME NEW s \in Seq(StreamBytes), NEW b \in StreamBytes, Tracked(s)
  PROVE Tracked(Append(s, b))
<1> DEFINE o == DecodedBy(s)
           p == DecodedBy(Append(s, b))
           l == LinesBy(o.text)
           cur == CurrentOf(s)
           next == CurrentOf(Append(s, b))
<1>1. o.text \in Seq(Chars) /\ o.held \in BOOLEAN BY DecodedByType DEF Texts
<1>2. p = DecodeByte(o, b) BY Decoding!FoldSnoc DEF DecodedBy
<1>3. cur \in Seq(StreamBytes) BY CurrentType
<1>4. (b = "lf" => next = <<>>) /\ (b # "lf" => next = Append(cur, b)) BY CurrentSnoc
<1>5. RecordsIn(Append(s, b)) = RecordsIn(s) \o (IF b = "lf" THEN RecordOf(Decoded(cur)) ELSE <<>>) BY RecordsInSnoc
<1>6. RecordsIn(s) = l.records /\ RecordsIn(s) \in Seq(Seq(Chars))
  <2>1. l \in LineStates BY <1>1, LinesByType
  <2> QED BY <2>1 DEF Tracked, LineStates
<1>7. b # "lf" => RecordsIn(Append(s, b)) = RecordsIn(s)
  <2> DEFINE r == RecordsIn(s)
  <2> HIDE DEF r
  <2>1. r \o <<>> = r BY <1>6 DEF r
  <2> QED BY <2>1, <1>5 DEF r
<1>8. "bad" \in Chars /\ "wide" \in Chars /\ "lf" \in Chars /\ "head" \in StreamBytes /\ (b \notin {"head", "tail"} => b \in Chars)
      BY DEF Chars, StreamBytes
<1>9. CASE o.held /\ b = "tail"
  <2>1. PICK c \in Seq(StreamBytes) : cur = Append(c, "head") /\ l.rest = Decoded(c) BY <1>9 DEF Tracked
  <2>2. p = [held |-> FALSE, text |-> Append(o.text, "wide")]
    <3> HIDE DEF o, p
    <3> QED BY <1>2, <1>9, Zenon DEF DecodeByte
  <2>3. LinesBy(p.text) = TakeChar(l, "wide") BY <1>1, <1>8, <2>2, LinesBySnoc
  <2>4. TakeChar(l, "wide") = [rest |-> Append(l.rest, "wide"), records |-> l.records] BY Zenon DEF TakeChar
  <2>5. next = Append(Append(c, "head"), "tail") /\ Decoded(next) = Append(Decoded(c), "wide")
        BY <1>4, <1>9, <2>1, DecodedPair, Zenon
  <2>6. ~EndsInHead(next) BY <1>3, <1>4, <1>9 DEF EndsInHead, StreamBytes
  <2>7. p.held = FALSE /\ LinesBy(p.text).rest = Decoded(next) /\ LinesBy(p.text).records = RecordsIn(Append(s, b))
    <3>1. p.held = FALSE BY <2>2
    <3>2. b # "lf" BY <1>9
    <3> HIDE DEF p, next, l
    <3>3. LinesBy(p.text).rest = Append(Decoded(c), "wide") BY <2>1, <2>3, <2>4
    <3>4. LinesBy(p.text).records = RecordsIn(s) BY <2>3, <2>4, <1>6
    <3> QED BY <3>1, <3>2, <3>3, <3>4, <2>5, <1>7
  <2> QED BY <2>6, <2>7 DEF Tracked
<1>10. CASE ~(o.held /\ b = "tail")
  <2> DEFINE settled == IF o.held THEN Append(o.text, "bad") ELSE o.text
             x == IF b = "tail" THEN "bad" ELSE b
  <2>1. settled \in Seq(Chars) /\ LinesBy(settled) = [rest |-> Decoded(cur), records |-> RecordsIn(s)] BY Settles
  <2>2. p = [held |-> b = "head", text |-> IF b = "head" THEN settled ELSE Append(settled, x)]
    <3>1. settled = IF o.held /\ b # "tail" THEN Append(o.text, "bad") ELSE o.text BY <1>10
    <3>2. b # "head" => x = IF b # "tail" THEN b ELSE IF o.held THEN "wide" ELSE "bad" BY <1>10
    <3> HIDE DEF settled, x, o, p
    <3> QED BY <1>2, <3>1, <3>2, Zenon DEF DecodeByte
  <2>3. CASE b = "head"
    <3>1. p.held = TRUE /\ p.text = settled
      <4> HIDE DEF p, settled, x
      <4> QED BY <2>2, <2>3, Zenon
    <3>2. next = Append(cur, "head") BY <1>4, <2>3
    <3>3. LinesBy(p.text).rest = Decoded(cur) /\ LinesBy(p.text).records = RecordsIn(Append(s, b))
      <4> HIDE DEF p, settled
      <4> QED BY <2>1, <3>1, <1>7, <2>3
    <3> QED BY <3>1, <3>2, <3>3, <1>3 DEF Tracked
  <2>4. CASE b # "head"
    <3>1. p.held = FALSE /\ p.text = Append(settled, x)
      <4> HIDE DEF p, settled, x
      <4>1. (b = "head") = FALSE BY <2>4
      <4> QED BY <2>2, <2>4, <4>1, Zenon
    <3>2. x \in Chars BY <1>8, <2>4
    <3>3. LinesBy(p.text) = TakeChar(LinesBy(settled), x)
      <4> HIDE DEF settled, x, p
      <4> QED BY <2>1, <3>1, <3>2, LinesBySnoc
    <3>4. CASE b = "lf"
      <4>1. x = "lf" BY <3>4
      <4>2. LinesBy(p.text) = [rest |-> <<>>, records |-> RecordsIn(s) \o RecordOf(Decoded(cur))]
        <5> HIDE DEF settled, p, cur, x
        <5> QED BY <2>1, <3>3, <4>1 DEF TakeChar
      <4>3. next = <<>> BY <1>4, <3>4
      <4>4. LinesBy(p.text).rest = Decoded(next) BY <4>2, <4>3, DecodedEmpty
      <4>5. LinesBy(p.text).records = RecordsIn(Append(s, b))
        <5> HIDE DEF p, cur
        <5> QED BY <4>2, <1>5, <3>4
      <4>6. ~EndsInHead(next) BY <4>3 DEF EndsInHead
      <4> QED BY <3>1, <4>4, <4>5, <4>6 DEF Tracked
    <3>5. CASE b # "lf"
      <4>1. x # "lf" BY <3>5
      <4>2. LinesBy(p.text) = [rest |-> Append(Decoded(cur), x), records |-> RecordsIn(s)]
        <5> HIDE DEF settled, p, cur, x
        <5> QED BY <2>1, <3>3, <4>1 DEF TakeChar
      <4>3. next = Append(cur, b) BY <1>4, <3>5
      <4>4. ~(EndsInHead(cur) /\ b = "tail")
        <5>1. CASE o.held BY <5>1, <1>10
        <5>2. CASE ~o.held BY <5>2 DEF Tracked
        <5> QED BY <5>1, <5>2
      <4>5. Decoded(next) = Append(Decoded(cur), x)
        <5>1. Decoded(Append(cur, b)) = Append(Decoded(cur), IF b \in {"head", "tail"} THEN "bad" ELSE b)
          <6> HIDE DEF cur
          <6> QED BY <1>3, <4>4, DecodedSnoc DEF EndsInHead
        <5> QED BY <5>1, <4>3, <2>4
      <4>6. ~EndsInHead(next)
        <5> HIDE DEF cur, next
        <5> QED BY <1>3, <4>3, <2>4 DEF EndsInHead
      <4>7. LinesBy(p.text).rest = Decoded(next) BY <4>2, <4>5
      <4>8. LinesBy(p.text).records = RecordsIn(Append(s, b)) BY <4>2, <1>7, <3>5
      <4> QED BY <3>1, <4>6, <4>7, <4>8 DEF Tracked
    <3> QED BY <3>4, <3>5
  <2> QED BY <2>3, <2>4
<1> QED BY <1>9, <1>10

\* After any bytes the decoder stands where the reference does.
LEMMA AlwaysTracked == ASSUME NEW s \in Seq(StreamBytes) PROVE Tracked(s)
<1> DEFINE T == {r \in Seq(StreamBytes) : Tracked(r)}
<1>1. <<>> \in T BY TrackedStart
<1>2. ASSUME NEW r \in Seq(StreamBytes), NEW b \in StreamBytes, r \in T PROVE Append(r, b) \in T
  <2>1. Append(r, b) \in Seq(StreamBytes) /\ Tracked(r) BY <1>2
  <2> QED BY <2>1, TrackedKept
<1>3. Seq(StreamBytes) \subseteq T
  <2> HIDE DEF T
  <2> QED BY <1>1, <1>2, Decoding!SeqInduction
<1> QED BY <1>3

AppendsInside(S) == \A p, q \in Seq(S) : \A e \in S : Append(p \o q, e) = p \o Append(q, e)
\* Appending to a concatenation appends to its second part.
LEMMA ConcatAppend == ASSUME NEW S PROVE AppendsInside(S)
<1> SUFFICES ASSUME NEW p \in Seq(S), NEW q \in Seq(S), NEW e \in S
             PROVE Append(p \o q, e) = p \o Append(q, e) BY Zenon DEF AppendsInside
<1> QED OBVIOUS

\* What was decoded before does not change what is decoded next.
LEMMA DecodeAfter ==
  ASSUME NEW h \in BOOLEAN, NEW before \in Seq(Chars), NEW text \in Seq(Chars), NEW s \in Seq(StreamBytes)
  PROVE LET o == Decoding!Fold([held |-> h, text |-> text], s) IN
        /\ o \in Texts
        /\ Decoding!Fold([held |-> h, text |-> before \o text], s) = [held |-> o.held, text |-> before \o o.text]
<1> DEFINE O(r) == Decoding!Fold([held |-> h, text |-> text], r)
           P(r) == Decoding!Fold([held |-> h, text |-> before \o text], r)
           T == {r \in Seq(StreamBytes) : P(r) = [held |-> O(r).held, text |-> before \o O(r).text]}
<1>0. ASSUME NEW r \in Seq(StreamBytes) PROVE O(r) \in Texts
  <2>1. [held |-> h, text |-> text] \in Texts BY DEF Texts
  <2>2. \A o \in Texts : \A b \in StreamBytes : DecodeByte(o, b) \in Texts BY DecodeByteType
  <2> QED BY <2>1, <2>2, Decoding!FoldType, Zenon
<1>1. <<>> \in T
  <2>1. O(<<>>) = [held |-> h, text |-> text] /\ P(<<>>) = [held |-> h, text |-> before \o text] BY Decoding!FoldEmpty
  <2>2. O(<<>>).held = h /\ O(<<>>).text = text
    <3> HIDE DEF O, P
    <3> QED BY <2>1
  <2>3. <<>> \in Seq(StreamBytes) OBVIOUS
  <2> HIDE DEF O, P
  <2>4. P(<<>>) = [held |-> O(<<>>).held, text |-> before \o O(<<>>).text] BY <2>1, <2>2
  <2> QED BY <2>3, <2>4
<1>2. ASSUME NEW r \in Seq(StreamBytes), NEW b \in StreamBytes, r \in T PROVE Append(r, b) \in T
  <2>1. PICK o \in Texts : o = O(r) BY <1>0
  <2>2. O(Append(r, b)) = DecodeByte(o, b) /\ P(Append(r, b)) = DecodeByte(P(r), b)
    <3>1. O(Append(r, b)) = DecodeByte(O(r), b) BY Decoding!FoldSnoc
    <3>2. P(Append(r, b)) = DecodeByte(P(r), b) BY Decoding!FoldSnoc
    <3> QED BY <2>1, <3>1, <3>2
  <2>3. P(r) = [held |-> o.held, text |-> before \o o.text] BY <1>2, <2>1
  <2> HIDE DEF O, P
  <2> DEFINE settled == IF o.held /\ b # "tail" THEN Append(o.text, "bad") ELSE o.text
             x == IF b # "tail" THEN b ELSE IF o.held THEN "wide" ELSE "bad"
             longer == before \o o.text
  <2>4. o.text \in Seq(Chars) /\ o.held \in BOOLEAN /\ "bad" \in Chars /\ (b # "head" => x \in Chars) BY DEF Texts, Chars
  <2>5. DecodeByte(o, b) = [held |-> b = "head", text |-> IF b = "head" THEN settled ELSE Append(settled, x)]
        BY Zenon DEF DecodeByte
  <2>6. (IF o.held /\ b # "tail" THEN Append(longer, "bad") ELSE longer) = before \o settled
    <3>1. Append(longer, "bad") = before \o Append(o.text, "bad")
      <4> DEFINE w == o.text
      <4>1. w \in Seq(Chars) /\ "bad" \in Chars /\ before \in Seq(Chars) BY <2>4
      <4> HIDE DEF w
      <4>2. AppendsInside(Chars) BY ConcatAppend
      <4>3. Append(before \o w, "bad") = before \o Append(w, "bad") BY <4>1, <4>2, Zenon DEF AppendsInside
      <4> QED BY <4>3, Zenon DEF w
    <3> QED BY <3>1, Zenon
  <2>7. P(r).held = o.held /\ P(r).text = longer BY <2>3
  <2>8. DecodeByte(P(r), b) = [held |-> b = "head", text |-> IF b = "head" THEN before \o settled ELSE Append(before \o settled, x)]
    <3> HIDE DEF settled, longer
    <3>1. DecodeByte(P(r), b) =
             LET st == IF P(r).held /\ b # "tail" THEN Append(P(r).text, "bad") ELSE P(r).text IN
             [held |-> b = "head",
              text |-> IF b = "head" THEN st
                       ELSE Append(st, IF b # "tail" THEN b ELSE IF P(r).held THEN "wide" ELSE "bad")] BY Zenon DEF DecodeByte
    <3> QED BY <3>1, <2>6, <2>7, Zenon DEF x
  <2>9. settled \in Seq(Chars) BY <2>4
  <2>10. b # "head" => Append(before \o settled, x) = before \o Append(settled, x)
    <3> HIDE DEF settled, x
    <3> SUFFICES ASSUME b # "head" PROVE Append(before \o settled, x) = before \o Append(settled, x) BY Zenon
    <3>1. x \in Chars /\ before \in Seq(Chars) /\ settled \in Seq(Chars) BY <2>4, <2>9
    <3>2. AppendsInside(Chars) BY ConcatAppend
    <3> QED BY <3>1, <3>2, Zenon DEF AppendsInside
  <2> HIDE DEF settled, x
  <2>11. Append(r, b) \in Seq(StreamBytes) OBVIOUS
  <2>12. P(Append(r, b)) = [held |-> O(Append(r, b)).held, text |-> before \o O(Append(r, b)).text]
    <3>1. CASE b = "head"
      <4>1. O(Append(r, b)) = [held |-> b = "head", text |-> settled] BY <2>2, <2>5, <3>1
      <4>2. P(Append(r, b)) = [held |-> b = "head", text |-> before \o settled] BY <2>2, <2>8, <3>1
      <4>3. O(Append(r, b)).held = (b = "head") /\ O(Append(r, b)).text = settled BY <4>1
      <4> QED BY <4>2, <4>3, Zenon
    <3>2. CASE b # "head"
      <4>1. O(Append(r, b)) = [held |-> b = "head", text |-> Append(settled, x)] BY <2>2, <2>5, <3>2
      <4>2. P(Append(r, b)) = [held |-> b = "head", text |-> before \o Append(settled, x)] BY <2>2, <2>8, <2>10, <3>2, Zenon
      <4>3. O(Append(r, b)).held = (b = "head") /\ O(Append(r, b)).text = Append(settled, x) BY <4>1
      <4> QED BY <4>2, <4>3, Zenon
    <3> QED BY <3>1, <3>2
  <2> QED BY <2>11, <2>12 DEF O, P
<1>3. Seq(StreamBytes) \subseteq T
  <2> HIDE DEF T
  <2> QED BY <1>1, <1>2, Decoding!SeqInduction, Zenon
<1> QED BY <1>0, <1>3, Zenon

\* Nor do the records that were taken before.
LEMMA TakeAfter ==
  ASSUME NEW before \in Seq(Seq(Chars)), NEW rest \in Seq(LineChars), NEW t \in Seq(Chars)
  PROVE LET l == LineTaking!Fold([rest |-> rest, records |-> <<>>], t) IN
        /\ l \in LineStates
        /\ LineTaking!Fold([rest |-> rest, records |-> before], t) = [rest |-> l.rest, records |-> before \o l.records]
<1> DEFINE O(r) == LineTaking!Fold([rest |-> rest, records |-> <<>>], r)
           P(r) == LineTaking!Fold([rest |-> rest, records |-> before], r)
           T == {r \in Seq(Chars) : P(r) = [rest |-> O(r).rest, records |-> before \o O(r).records]}
<1>0. ASSUME NEW r \in Seq(Chars) PROVE O(r) \in LineStates
  <2>1. <<>> \in Seq(Seq(Chars)) OBVIOUS
  <2>2. [rest |-> rest, records |-> <<>>] \in LineStates BY <2>1 DEF LineStates
  <2>3. \A o \in LineStates : \A x \in Chars : TakeChar(o, x) \in LineStates BY TakeCharType
  <2> QED BY <2>2, <2>3, LineTaking!FoldType, Zenon
<1>1. <<>> \in T
  <2>1. O(<<>>) = [rest |-> rest, records |-> <<>>] /\ P(<<>>) = [rest |-> rest, records |-> before] BY LineTaking!FoldEmpty
  <2>2. before \o <<>> = before OBVIOUS
  <2>3. <<>> \in Seq(Chars) OBVIOUS
  <2> HIDE DEF O, P
  <2>4. P(<<>>) = [rest |-> O(<<>>).rest, records |-> before \o O(<<>>).records] BY <2>1, <2>2
  <2> QED BY <2>3, <2>4
<1>2. ASSUME NEW r \in Seq(Chars), NEW x \in Chars, r \in T PROVE Append(r, x) \in T
  <2>1. PICK o \in LineStates : o = O(r) BY <1>0
  <2>2. O(Append(r, x)) = TakeChar(o, x) /\ P(Append(r, x)) = TakeChar(P(r), x)
    <3>1. O(Append(r, x)) = TakeChar(O(r), x) BY LineTaking!FoldSnoc
    <3>2. P(Append(r, x)) = TakeChar(P(r), x) BY LineTaking!FoldSnoc
    <3> QED BY <2>1, <3>1, <3>2
  <2>3. P(r) = [rest |-> o.rest, records |-> before \o o.records] BY <1>2, <2>1
  <2>4. o.records \in Seq(Seq(Chars)) /\ o.rest \in Seq(Chars) BY DEF LineStates, LineChars
  <2>5. RecordOf(o.rest) \in Seq(Seq(Chars)) BY <2>4, RecordType
  <2>6. (before \o o.records) \o RecordOf(o.rest) = before \o (o.records \o RecordOf(o.rest))
    <3> DEFINE y == RecordOf(o.rest)
               X == Seq(Chars)
               z == o.records
    <3>1. before \in Seq(X) /\ z \in Seq(X) /\ y \in Seq(X) BY <2>4, <2>5
    <3> HIDE DEF y, z, X
    <3>2. (before \o z) \o y = before \o (z \o y) BY <3>1, ConcatAssociative, SMTT(30)
    <3> QED BY <3>2 DEF y, z
  <2>7. Append(r, x) \in Seq(Chars) OBVIOUS
  <2> HIDE DEF O, P
  <2>8. P(Append(r, x)) = [rest |-> O(Append(r, x)).rest, records |-> before \o O(Append(r, x)).records]
    <3>1. CASE x = "lf"
      <4> DEFINE y == RecordOf(o.rest)
                 more == before \o o.records
      <4> HIDE DEF y, more
      <4>1. TakeChar(o, x) = [rest |-> <<>>, records |-> o.records \o y] BY <3>1 DEF TakeChar, y
      <4>2. P(r).rest = o.rest /\ P(r).records = more BY <2>3 DEF more
      <4>3. TakeChar(P(r), x) = [rest |-> <<>>, records |-> more \o y] BY <4>2, <3>1 DEF TakeChar, y
      <4>4. more \o y = before \o (o.records \o y) BY <2>6 DEF more, y
      <4> QED BY <2>2, <4>1, <4>3, <4>4
    <3>2. CASE x # "lf" BY <2>2, <2>3, <3>2 DEF TakeChar
    <3> QED BY <3>1, <3>2
  <2> QED BY <2>7, <2>8 DEF O, P
<1>3. Seq(Chars) \subseteq T
  <2> HIDE DEF T
  <2> QED BY <1>1, <1>2, LineTaking!SeqInduction, Zenon
<1> QED BY <1>0, <1>3, Zenon

\* A text without a line feed is a line under way, and no record.
LEMMA PlainLine == ASSUME NEW t \in Seq(LineChars) PROVE LinesBy(t) = [rest |-> t, records |-> <<>>]
<1> DEFINE T == {r \in Seq(LineChars) : LinesBy(r) = [rest |-> r, records |-> <<>>]}
<1>1. <<>> \in T
  <2>1. LinesBy(<<>>) = NothingTaken BY LineTaking!FoldEmpty DEF LinesBy
  <2> QED BY <2>1 DEF NothingTaken
<1>2. ASSUME NEW r \in Seq(LineChars), NEW x \in LineChars, r \in T PROVE Append(r, x) \in T
  <2>1. r \in Seq(Chars) /\ x \in Chars /\ x # "lf" BY DEF LineChars
  <2>2. LinesBy(Append(r, x)) = TakeChar(LinesBy(r), x) BY <2>1, LinesBySnoc
  <2>3. LinesBy(r) = [rest |-> r, records |-> <<>>] BY <1>2
  <2>4. TakeChar(LinesBy(r), x) = [rest |-> Append(r, x), records |-> <<>>] BY <2>1, <2>3 DEF TakeChar
  <2>5. Append(r, x) \in Seq(LineChars) OBVIOUS
  <2> QED BY <2>2, <2>4, <2>5
<1>3. Seq(LineChars) \subseteq T
  <2> HIDE DEF T
  <2> QED BY <1>1, <1>2, LineTaking!SeqInduction
<1> QED BY <1>3

\* consume without a flush is the cutting into lines.
LEMMA ConsumesLines == ASSUME NEW t PROVE ConsumeText(t, FALSE) = LinesBy(t)
BY LineTakingIsFold, Zenon DEF ConsumeText, LinesBy, NothingTaken

\* A chunk, read from where the decoder stopped, gives what all bytes read in one go
\* give: the cut between two data events does not matter.
LEMMA PushReads ==
  ASSUME NEW s \in Seq(StreamBytes), NEW chunk \in Seq(StreamBytes)
  PROVE LET o == DecodedBy(s)
            l == LinesBy(o.text)
            p == DecodedBy(s \o chunk)
            k == LinesBy(p.text)
            decoded == FoldLeft(DecodeByte, [held |-> o.held, text |-> l.rest], chunk)
            consumed == ConsumeText(decoded.text, FALSE)
        IN  /\ p.held = decoded.held
            /\ k.rest = consumed.rest
            /\ k.records = l.records \o consumed.records
<1>0. PICK o \in Texts : o = DecodedBy(s) BY DecodedByType
<1>1. o.held \in BOOLEAN /\ o.text \in Seq(Chars) /\ o = [held |-> o.held, text |-> o.text] BY DEF Texts
<1>2. PICK l \in LineStates : l = LinesBy(o.text) BY <1>1, LinesByType
<1>3. l.rest \in Seq(LineChars) /\ l.records \in Seq(Seq(Chars)) /\ l = [rest |-> l.rest, records |-> l.records] BY DEF LineStates
<1>4. PICK h \in BOOLEAN : h = o.held BY <1>1
<1>5. PICK before \in Seq(Chars) : before = o.text BY <1>1
<1>6. PICK rest \in Seq(LineChars) : rest = l.rest BY <1>3
<1>7. rest \in Seq(Chars) BY DEF LineChars
<1> DEFINE x == Decoding!Fold([held |-> h, text |-> <<>>], chunk)
           decoded == FoldLeft(DecodeByte, [held |-> h, text |-> rest], chunk)
           p == DecodedBy(s \o chunk)
<1>8. x \in Texts /\ p = [held |-> x.held, text |-> before \o x.text]
  <2>1. p = Decoding!Fold(o, chunk) BY <1>0, Decoding!FoldConcat DEF DecodedBy
  <2>2. <<>> \in Seq(Chars) /\ before \o <<>> = before OBVIOUS
  <2>3. o = [held |-> h, text |-> before] BY <1>1, <1>4, <1>5
  <2> DEFINE e == <<>>
  <2>4. e \in Seq(Chars) /\ before \o e = before BY <2>2
  <2> HIDE DEF e
  <2>5. LET q == Decoding!Fold([held |-> h, text |-> e], chunk) IN
        q \in Texts /\ Decoding!Fold([held |-> h, text |-> before \o e], chunk) = [held |-> q.held, text |-> before \o q.text]
        BY <2>4, DecodeAfter, Zenon
  <2> HIDE DEF p
  <2> QED BY <2>1, <2>3, <2>4, <2>5 DEF e
<1>9. decoded = [held |-> x.held, text |-> rest \o x.text]
  <2> DEFINE e == <<>>
  <2>1. e \in Seq(Chars) /\ rest \o e = rest OBVIOUS
  <2> HIDE DEF e
  <2>2. LET q == Decoding!Fold([held |-> h, text |-> e], chunk) IN
        q \in Texts /\ Decoding!Fold([held |-> h, text |-> rest \o e], chunk) = [held |-> q.held, text |-> rest \o q.text]
        BY <2>1, <1>7, DecodeAfter, Zenon
  <2>3. decoded = Decoding!Fold([held |-> h, text |-> rest], chunk) BY DecodingIsFold
  <2> HIDE DEF decoded
  <2> QED BY <2>1, <2>2, <2>3 DEF e
<1>10. PICK t \in Seq(Chars) : t = x.text BY <1>8 DEF Texts
<1> HIDE DEF x, p, decoded
<1>11. p.held = decoded.held /\ p.text = before \o t /\ decoded.text = rest \o t BY <1>8, <1>9, <1>10, Zenon
<1> DEFINE y == LineTaking!Fold([rest |-> rest, records |-> <<>>], t)
<1>12. LinesBy(before \o t) = [rest |-> y.rest, records |-> l.records \o y.records]
  <2>1. LinesBy(before \o t) = LineTaking!Fold(l, t) BY <1>2, <1>5, LineTaking!FoldConcat DEF LinesBy
  <2>2. l = [rest |-> rest, records |-> l.records] BY <1>3, <1>6
  <2> DEFINE r == l.records
  <2>3. r \in Seq(Seq(Chars)) BY <1>3
  <2> HIDE DEF r
  <2>4. LineTaking!Fold([rest |-> rest, records |-> r], t) = [rest |-> y.rest, records |-> r \o y.records] BY <2>3, TakeAfter, Zenon
  <2> QED BY <2>1, <2>2, <2>4, Zenon DEF r
<1>13. LinesBy(rest \o t) = y
  <2>1. LinesBy(rest \o t) = LineTaking!Fold(LinesBy(rest), t) BY <1>7, LineTaking!FoldConcat DEF LinesBy
  <2>2. LinesBy(rest) = [rest |-> rest, records |-> <<>>] BY PlainLine
  <2> QED BY <2>1, <2>2
<1> HIDE DEF y
<1>14. ConsumeText(decoded.text, FALSE) = y BY <1>11, <1>13, ConsumesLines, Zenon
<1>15. LinesBy(p.text).rest = y.rest /\ LinesBy(p.text).records = l.records \o y.records
  <2> DEFINE z == l.records \o y.records
  <2> HIDE DEF z
  <2>1. LinesBy(p.text) = [rest |-> y.rest, records |-> z] BY <1>11, <1>12 DEF z
  <2>2. LinesBy(p.text).rest = y.rest /\ LinesBy(p.text).records = z BY <2>1
  <2> QED BY <2>2 DEF z
<1> QED BY <1>0, <1>2, <1>4, <1>6, <1>11, <1>14, <1>15, Zenon DEF p, decoded

-----------------------------------------------------------------------------
(* The JSONL decoder of Pi's stdout. *)
TextReceived == SubSeq(textPipe.whole, 1, Len(textPipe.whole) - Len(textPipe.rest))
\* The inductive invariant of the decoder: what it holds is what all bytes received so far
\* make of it when they are read in one go.
TextPipes == [rest : Seq(StreamBytes), whole : Seq(StreamBytes), held : BOOLEAN, buffer : Seq(LineChars),
              ended : BOOLEAN, records : Seq(Seq(Chars))]
TextInv ==
  /\ textPipe \in TextPipes
  /\ \E received \in Seq(StreamBytes) :
       /\ textPipe.whole = received \o textPipe.rest
       /\ ~textPipe.ended => /\ textPipe.held = DecodedBy(received).held
                             /\ textPipe.buffer = LinesBy(DecodedBy(received).text).rest
                             /\ textPipe.records = LinesBy(DecodedBy(received).text).records
  /\ textPipe.ended => textPipe.rest = <<>> /\ textPipe.records = RecordsIn(Append(textPipe.whole, "lf"))

\* What was received is the whole without what is on its way.
LEMMA ReceivedIs ==
  ASSUME NEW S, NEW r \in Seq(S), NEW rest \in Seq(S)
  PROVE SubSeq(r \o rest, 1, Len(r \o rest) - Len(rest)) = r
<1>1. Len(r \o rest) - Len(rest) = Len(r) OBVIOUS
<1>2. SubSeq(r \o rest, 1, Len(r)) = r OBVIOUS
<1> QED BY <1>1, <1>2

\* The invariant of the decoder says that its records are the lines received.
LEMMA TextSays == ASSUME TextInv PROVE RecordsWhole
<1>1. PICK r \in Seq(StreamBytes) :
       /\ textPipe.whole = r \o textPipe.rest
       /\ ~textPipe.ended => /\ textPipe.held = DecodedBy(r).held
                             /\ textPipe.buffer = LinesBy(DecodedBy(r).text).rest
                             /\ textPipe.records = LinesBy(DecodedBy(r).text).records BY Zenon DEF TextInv
<1>2. textPipe.rest \in Seq(StreamBytes) /\ textPipe.ended \in BOOLEAN BY DEF TextInv, TextPipes
<1>3. TextReceived = r BY <1>1, <1>2, ReceivedIs DEF TextReceived
<1>4. RecordsWhole <=> textPipe.records = RecordsIn(IF textPipe.ended THEN Append(TextReceived, "lf") ELSE TextReceived)
      BY Zenon DEF RecordsWhole, RecordsIn, RecordAt, TextReceived
<1>5. CASE textPipe.ended
  <2>1. r = textPipe.whole
    <3>1. textPipe.rest = <<>> BY <1>5 DEF TextInv
    <3>2. r \o <<>> = r OBVIOUS
    <3> QED BY <1>1, <3>1, <3>2
  <2> QED BY <1>3, <1>4, <1>5, <2>1 DEF TextInv
<1>6. CASE ~textPipe.ended
  <2>1. Tracked(r) BY AlwaysTracked
  <2> QED BY <1>1, <1>3, <1>4, <1>6, <2>1 DEF Tracked
<1> QED BY <1>2, <1>5, <1>6

\* The pipe before anything is read.
FreshText(text) == [rest |-> text, whole |-> text, held |-> FALSE, buffer |-> <<>>, ended |-> FALSE, records |-> <<>>]
StartsText(text) == textPipe = [IdleText EXCEPT !.rest = text, !.whole = text]

\* The first states of the text pipe, field by field.
LEMMA TextStarts ==
  ASSUME NEW text
  PROVE (StartsText(text) => textPipe = FreshText(text)) /\ (textPipe = IdleText => textPipe = FreshText(<<>>))
<1>1. ASSUME StartsText(text) PROVE textPipe = FreshText(text) BY <1>1, Zenon DEF StartsText, IdleText, FreshText
<1>2. IdleText = FreshText(<<>>) BY Zenon DEF IdleText, FreshText
<1> QED BY <1>1, <1>2

\* MistakeAhead anything is read the invariant of the decoder holds.
LEMMA IdleTextInv == ASSUME NEW text \in Seq(StreamBytes), textPipe = FreshText(text) PROVE TextInv
<1>1. textPipe = [rest |-> text, whole |-> text, held |-> FALSE, buffer |-> <<>>, ended |-> FALSE, records |-> <<>>]
      BY Zenon DEF FreshText
<1>2. <<>> \in Seq(StreamBytes) /\ <<>> \o text = text /\ <<>> \in Seq(LineChars) /\ <<>> \in Seq(Seq(Chars)) OBVIOUS
<1> DEFINE e == <<>>
<1>3. textPipe = [rest |-> text, whole |-> text, held |-> FALSE, buffer |-> e, ended |-> FALSE, records |-> e] BY <1>1
<1>9. e \in Seq(LineChars) /\ e \in Seq(Seq(Chars)) BY <1>2
<1>4. DecodedBy(<<>>) = NothingDecoded BY Decoding!FoldEmpty DEF DecodedBy
<1>5. LinesBy(<<>>) = NothingTaken BY LineTaking!FoldEmpty DEF LinesBy
<1>6. DecodedBy(<<>>).held = FALSE /\ LinesBy(DecodedBy(<<>>).text).rest = <<>>
      /\ LinesBy(DecodedBy(<<>>).text).records = <<>>
  <2>1. DecodedBy(<<>>).held = FALSE /\ DecodedBy(<<>>).text = <<>> BY <1>4 DEF NothingDecoded
  <2> QED BY <2>1, <1>5 DEF NothingTaken
<1>7. textPipe.whole = <<>> \o textPipe.rest BY <1>1, <1>2
<1>8. textPipe.ended = FALSE /\ textPipe.held = FALSE /\ textPipe.buffer = e /\ textPipe.records = e
  <2> HIDE DEF e
  <2>1. textPipe.ended = FALSE BY <1>3
  <2>2. textPipe.held = FALSE BY <1>3
  <2>3. textPipe.buffer = e /\ textPipe.records = e BY <1>3
  <2> QED BY <2>1, <2>2, <2>3
<1>10. textPipe \in TextPipes
  <2> HIDE DEF e
  <2>1. FALSE \in BOOLEAN OBVIOUS
  <2> QED BY <1>3, <1>9, <2>1 DEF TextPipes
<1> QED BY <1>2, <1>6, <1>7, <1>8, <1>10, Zenon DEF TextInv

\* A chunk of any size keeps it (JsonlDecoder.ts, push).
LEMMA PushTextKeeps ==
  ASSUME TextInv, NEW n \in 1 .. Len(textPipe.rest), PushText(n)
  PROVE TextInv'
<1>0. textPipe \in TextPipes /\ ~textPipe.ended BY DEF TextInv, PushText
<1>1. PICK r \in Seq(StreamBytes) :
       /\ textPipe.whole = r \o textPipe.rest
       /\ textPipe.held = DecodedBy(r).held
       /\ textPipe.buffer = LinesBy(DecodedBy(r).text).rest
       /\ textPipe.records = LinesBy(DecodedBy(r).text).records BY <1>0, Zenon DEF TextInv
<1>2. PICK rest \in Seq(StreamBytes) : rest = textPipe.rest BY <1>0 DEF TextPipes
<1> DEFINE chunk == SubSeq(rest, 1, n)
           left == SubSeq(rest, n + 1, Len(rest))
           decoded == FoldLeft(DecodeByte, [held |-> textPipe.held, text |-> textPipe.buffer], chunk)
           consumed == ConsumeText(decoded.text, FALSE)
<1>3. chunk \in Seq(StreamBytes) /\ left \in Seq(StreamBytes) /\ rest = chunk \o left BY <1>2
<1>4. textPipe' = [textPipe EXCEPT !.rest = left, !.held = decoded.held, !.buffer = consumed.rest,
                                   !.records = @ \o consumed.records]
      BY <1>2 DEF PushText
<1> DEFINE p == DecodedBy(r \o chunk)
<1>5. r \o chunk \in Seq(StreamBytes) BY <1>3
<1>6. p \in Texts /\ p.held \in BOOLEAN /\ p.text \in Seq(Chars)
  <2>1. p \in Texts BY <1>5, DecodedByType, Zenon
  <2> HIDE DEF p
  <2> QED BY <2>1 DEF Texts
<1> DEFINE l == LinesBy(p.text)
<1>7. l.rest \in Seq(LineChars) /\ l.records \in Seq(Seq(Chars))
  <2>1. l \in LineStates BY <1>6, LinesByType
  <2> HIDE DEF l
  <2> QED BY <2>1 DEF LineStates
<1>8. /\ p.held = decoded.held
      /\ l.rest = consumed.rest
      /\ l.records = LinesBy(DecodedBy(r).text).records \o consumed.records
  <2> HIDE DEF chunk
  <2> QED BY <1>1, <1>3, PushReads, ZenonT(30)
<1> HIDE DEF p, l, decoded, consumed, chunk, left
<1>9. textPipe' = [textPipe EXCEPT !.rest = left, !.held = p.held, !.buffer = l.rest, !.records = l.records]
      BY <1>0, <1>1, <1>4, <1>8 DEF TextPipes
<1>10. /\ textPipe'.rest = left /\ textPipe'.held = p.held /\ textPipe'.buffer = l.rest /\ textPipe'.records = l.records
       /\ textPipe'.whole = textPipe.whole /\ textPipe'.ended = FALSE /\ textPipe' \in TextPipes
  <2>1. textPipe.ended = FALSE BY <1>0 DEF TextPipes
  <2> QED BY <1>0, <1>3, <1>6, <1>7, <1>9, <2>1, Zenon DEF TextPipes
<1>11. textPipe'.whole = (r \o chunk) \o left
  <2>1. textPipe.whole = r \o (chunk \o left) BY <1>1, <1>2, <1>3
  <2>2. (r \o chunk) \o left = r \o (chunk \o left) BY <1>3
  <2> QED BY <1>10, <2>1, <2>2
<1>12. PICK q \in Seq(StreamBytes) : q = r \o chunk BY <1>5, Zenon
<1>13. /\ textPipe'.whole = q \o textPipe'.rest /\ textPipe'.held = DecodedBy(q).held
       /\ textPipe'.buffer = LinesBy(DecodedBy(q).text).rest
       /\ textPipe'.records = LinesBy(DecodedBy(q).text).records
       BY <1>10, <1>11, <1>12 DEF p, l
<1> QED BY <1>10, <1>13, Zenon DEF TextInv

\* The end of the stream keeps it: the last line is given up as the reference does
\* (JsonlDecoder.ts, end).
LEMMA EndTextKeeps ==
  ASSUME TextInv, EndText
  PROVE TextInv'
<1>0. textPipe \in TextPipes /\ textPipe.ended = FALSE /\ textPipe.rest = <<>> BY DEF TextInv, TextPipes, EndText
<1>1. PICK r \in Seq(StreamBytes) :
       /\ textPipe.whole = r \o textPipe.rest
       /\ textPipe.held = DecodedBy(r).held
       /\ textPipe.buffer = LinesBy(DecodedBy(r).text).rest
       /\ textPipe.records = LinesBy(DecodedBy(r).text).records BY <1>0 DEF TextInv
<1>2. textPipe.whole = r
  <2>1. r \o <<>> = r OBVIOUS
  <2> QED BY <1>0, <1>1, <2>1
<1> DEFINE buffer == IF textPipe.held THEN Append(textPipe.buffer, "bad") ELSE textPipe.buffer
           p == DecodedBy(Append(r, "lf"))
           o == DecodedBy(r)
           settled == IF o.held THEN Append(o.text, "bad") ELSE o.text
<1>3. "lf" \in StreamBytes /\ "bad" \in LineChars /\ "lf" \in Chars BY DEF StreamBytes, LineChars, Chars
<1>4. buffer \in Seq(LineChars) BY <1>0, <1>3 DEF TextPipes
<1>5. LinesBy(settled) = [rest |-> Decoded(CurrentOf(r)), records |-> RecordsIn(r)] BY AlwaysTracked, Settles
<1>6. buffer = Decoded(CurrentOf(r)) /\ textPipe.records = RecordsIn(r)
  <2>1. PICK text \in Seq(Chars) : text = o.text BY DecodedByType DEF Texts
  <2>2. textPipe.records = RecordsIn(r) BY <1>1, AlwaysTracked DEF Tracked
  <2>3. CASE o.held
    <3>1. LinesBy(Append(text, "bad")) = TakeChar(LinesBy(text), "bad") BY LinesBySnoc DEF Chars
    <3>2. TakeChar(LinesBy(text), "bad").rest = Append(LinesBy(text).rest, "bad") BY DEF TakeChar
    <3>3. LinesBy(settled).rest = Append(LinesBy(text).rest, "bad") BY <2>1, <2>3, <3>1, <3>2
    <3>4. LinesBy(settled).rest = Decoded(CurrentOf(r))
      <4> HIDE DEF settled
      <4> QED BY <1>5
    <3> QED BY <1>1, <2>1, <2>2, <2>3, <3>3, <3>4
  <2>4. CASE ~o.held
    <3>1. LinesBy(o.text).rest = Decoded(CurrentOf(r)) BY <2>4, AlwaysTracked DEF Tracked
    <3> QED BY <1>1, <2>2, <2>4, <3>1
  <2> QED BY <2>3, <2>4
<1>7. RecordsIn(Append(r, "lf")) = RecordsIn(r) \o RecordOf(buffer) BY <1>3, <1>6, RecordsInSnoc, Zenon
<1> HIDE DEF buffer
<1>8. ConsumeText(buffer, TRUE).records = RecordOf(buffer)
  <2>1. LinesBy(buffer) = [rest |-> buffer, records |-> <<>>] BY <1>4, PlainLine
  <2>2. FoldLeft(TakeChar, NothingTaken, buffer) = LinesBy(buffer) BY LineTakingIsFold DEF LinesBy
  <2>3. ConsumeText(buffer, TRUE) = [rest |-> <<>>, records |-> LinesBy(buffer).records \o RecordOf(LinesBy(buffer).rest)]
        BY <2>2, Zenon DEF ConsumeText, NothingTaken
  <2>4. RecordOf(buffer) \in Seq(Seq(LineChars)) BY <1>4, RecordType
  <2> DEFINE y == RecordOf(buffer)
             X == Seq(LineChars)
  <2>5. <<>> \o y = y
    <3>1. y \in Seq(X) BY <2>4
    <3> HIDE DEF y, X
    <3> QED BY <3>1
  <2>6. LinesBy(buffer).records = <<>> /\ LinesBy(buffer).rest = buffer BY <2>1
  <2> HIDE DEF y
  <2> DEFINE e == <<>>
  <2>7. ConsumeText(buffer, TRUE) = [rest |-> e, records |-> y] BY <2>3, <2>5, <2>6, Zenon DEF y
  <2> HIDE DEF e
  <2> DEFINE flushed == ConsumeText(buffer, TRUE)
  <2>9. flushed = [rest |-> e, records |-> y] BY <2>7, Zenon
  <2> HIDE DEF flushed
  <2>10. flushed.records = y BY <2>9
  <2>8. ConsumeText(buffer, TRUE).records = y BY <2>10, Zenon DEF flushed
  <2> QED BY <2>8, Zenon DEF y
<1>9. textPipe' = [textPipe EXCEPT !.ended = TRUE, !.held = FALSE, !.buffer = <<>>,
                                   !.records = @ \o ConsumeText(buffer, TRUE).records]
      BY DEF EndText, buffer
<1>10. textPipe' = [textPipe EXCEPT !.ended = TRUE, !.held = FALSE, !.buffer = <<>>, !.records = RecordsIn(Append(r, "lf"))]
       BY <1>0, <1>6, <1>7, <1>8, <1>9, Zenon DEF TextPipes
<1>11. RecordsIn(Append(r, "lf")) \in Seq(Seq(Chars))
  <2>1. Append(r, "lf") \in Seq(StreamBytes) BY <1>3
  <2>2. PICK q \in Seq(StreamBytes) : q = Append(r, "lf") BY <2>1, Zenon
  <2>3. LinesBy(DecodedBy(q).text).records = RecordsIn(q) BY AlwaysTracked DEF Tracked
  <2>4. DecodedBy(q).text \in Seq(Chars) BY DecodedByType DEF Texts
  <2>5. LinesBy(DecodedBy(q).text).records \in Seq(Seq(Chars)) BY <2>4, LinesByType DEF LineStates
  <2> QED BY <2>2, <2>3, <2>5
<1>12. textPipe' \in TextPipes /\ textPipe'.ended = TRUE /\ textPipe'.rest = <<>> /\ textPipe'.whole = r
       /\ textPipe'.records = RecordsIn(Append(r, "lf"))
  <2>1. <<>> \in Seq(LineChars) OBVIOUS
  <2> DEFINE z == RecordsIn(Append(r, "lf"))
  <2> HIDE DEF z
  <2> QED BY <1>0, <1>2, <1>10, <1>11, <2>1, Zenon DEF TextPipes, z
<1>13. r \o <<>> = r OBVIOUS
<1> QED BY <1>12, <1>13 DEF TextInv

-----------------------------------------------------------------------------
(* The desktop wire: what the reader makes of the bytes received. *)
PlainBytes == WireBytes \ {"lf"}
ReadStates == [rest : Seq(PlainBytes), packets : Seq(Seq(WireBytes)), failed : BOOLEAN]
NothingRead == [rest |-> <<>>, packets |-> <<>>, failed |-> FALSE]
ReadBy(s) == WireReading!Fold(NothingRead, s)
FineLine(line) == Len(line) <= FrameLimit /\ ParsesAsJson(line)
ReadState(rest, packets, failed) == [rest |-> rest, packets |-> packets, failed |-> failed]

\* The fields of a state of the reader.
LEMMA ReadStateIs ==
  ASSUME NEW rest \in Seq(PlainBytes), NEW packets \in Seq(Seq(WireBytes)), NEW failed \in BOOLEAN
  PROVE /\ ReadState(rest, packets, failed) \in ReadStates
        /\ ReadState(rest, packets, failed).rest = rest /\ ReadState(rest, packets, failed).packets = packets
        /\ ReadState(rest, packets, failed).failed = failed
BY DEF ReadState, ReadStates

\* A state of the reader is made of its fields.
LEMMA StateOf ==
  ASSUME NEW o \in ReadStates
  PROVE /\ o.rest \in Seq(PlainBytes) /\ o.packets \in Seq(Seq(WireBytes)) /\ o.failed \in BOOLEAN
        /\ o = ReadState(o.rest, o.packets, o.failed)
BY DEF ReadState, ReadStates

\* A step of the reader, case by case.
LEMMA TakeByteIs ==
  ASSUME NEW o \in ReadStates, NEW b \in WireBytes
  PROVE /\ o.failed => TakeByte(o, b) = o
        /\ ~o.failed /\ b # "lf" => TakeByte(o, b) = ReadState(Append(o.rest, b), o.packets, FALSE)
        /\ ~o.failed /\ b = "lf" /\ FineLine(o.rest) => TakeByte(o, b) = ReadState(<<>>, Append(o.packets, o.rest), FALSE)
        /\ ~o.failed /\ b = "lf" /\ ~FineLine(o.rest) => TakeByte(o, b) = ReadState(o.rest, o.packets, TRUE)
<1>0. o = [rest |-> o.rest, packets |-> o.packets, failed |-> o.failed] BY DEF ReadStates
<1>a. Len(o.rest) \in Nat /\ FrameLimit \in Nat BY FramingAssumption DEF ReadStates
<1>b. FineLine(o.rest) <=> ~(Len(o.rest) > FrameLimit \/ ~ParsesAsJson(o.rest))
  <2> DEFINE n == Len(o.rest)
             p == ParsesAsJson(o.rest)
  <2>1. n \in Nat BY <1>a
  <2>2. FineLine(o.rest) <=> n <= FrameLimit /\ p BY DEF FineLine
  <2>3. n <= FrameLimit <=> ~(n > FrameLimit)
    <3> HIDE DEF n
    <3> QED BY <2>1, <1>a
  <2> HIDE DEF n, p
  <2> QED BY <2>2, <2>3 DEF n, p
<1>1. ASSUME o.failed PROVE TakeByte(o, b) = o BY <1>1, Zenon DEF TakeByte
<1>2. ASSUME ~o.failed, b # "lf" PROVE TakeByte(o, b) = ReadState(Append(o.rest, b), o.packets, FALSE)
  <2>1. TakeByte(o, b) = [o EXCEPT !.rest = Append(@, b)] BY <1>2, Zenon DEF TakeByte
  <2>2. o.failed = FALSE BY <1>2 DEF ReadStates
  <2> DEFINE r == Append(o.rest, b)
  <2>3. TakeByte(o, b) = [o EXCEPT !.rest = r] BY <2>1
  <2> HIDE DEF r
  <2>4. [o EXCEPT !.rest = r] = [rest |-> r, packets |-> o.packets, failed |-> o.failed] BY <1>0
  <2> QED BY <2>2, <2>3, <2>4, Zenon DEF ReadState, r
<1>3. ASSUME ~o.failed, b = "lf", FineLine(o.rest) PROVE TakeByte(o, b) = ReadState(<<>>, Append(o.packets, o.rest), FALSE)
  <2>0. ~(Len(o.rest) > FrameLimit \/ ~ParsesAsJson(o.rest)) BY <1>3, <1>b
  <2>1. TakeByte(o, b) = [o EXCEPT !.rest = <<>>, !.packets = Append(@, o.rest)] BY <1>3, <2>0, Zenon DEF TakeByte
  <2>2. o.failed = FALSE BY <1>3 DEF ReadStates
  <2> DEFINE r == <<>>
             q == Append(o.packets, o.rest)
  <2>3. TakeByte(o, b) = [o EXCEPT !.rest = r, !.packets = q] BY <2>1, <1>0
  <2> HIDE DEF r, q
  <2>4. [o EXCEPT !.rest = r, !.packets = q] = [rest |-> r, packets |-> q, failed |-> o.failed]
    <3> DEFINE m == [rest |-> r, packets |-> o.packets, failed |-> o.failed]
    <3>1. [o EXCEPT !.rest = r] = m BY <1>0
    <3>2. [m EXCEPT !.packets = q] = [rest |-> r, packets |-> q, failed |-> o.failed] OBVIOUS
    <3> HIDE DEF m
    <3> QED BY <3>1, <3>2, Zenon
  <2> QED BY <2>2, <2>3, <2>4, Zenon DEF ReadState, r, q
<1>4. ASSUME ~o.failed, b = "lf", ~FineLine(o.rest) PROVE TakeByte(o, b) = ReadState(o.rest, o.packets, TRUE)
  <2>0. Len(o.rest) > FrameLimit \/ ~ParsesAsJson(o.rest) BY <1>4, <1>b
  <2>1. TakeByte(o, b) = [o EXCEPT !.failed = TRUE] BY <1>4, <2>0, Zenon DEF TakeByte
  <2> DEFINE t == TRUE
  <2>2. TakeByte(o, b) = [o EXCEPT !.failed = t] BY <2>1
  <2>3. t \in BOOLEAN OBVIOUS
  <2> HIDE DEF t
  <2>4. [o EXCEPT !.failed = t] = [rest |-> o.rest, packets |-> o.packets, failed |-> t] BY <1>0, <2>3
  <2> QED BY <2>2, <2>4, Zenon DEF ReadState, t
<1> QED BY <1>1, <1>2, <1>3, <1>4, Zenon

\* A step of the reader stays among its states.
LEMMA TakeByteType == ASSUME NEW o \in ReadStates, NEW b \in WireBytes PROVE TakeByte(o, b) \in ReadStates
<1>1. o.rest \in Seq(PlainBytes) /\ o.packets \in Seq(Seq(WireBytes)) /\ o.failed \in BOOLEAN BY StateOf
<1>2. b # "lf" => Append(o.rest, b) \in Seq(PlainBytes) BY <1>1 DEF PlainBytes
<1>3. o.rest \in Seq(WireBytes) BY <1>1 DEF PlainBytes
<1>4. Append(o.packets, o.rest) \in Seq(Seq(WireBytes)) /\ <<>> \in Seq(PlainBytes) BY <1>1, <1>3
<1>5. CASE o.failed BY <1>5, TakeByteIs, Zenon
<1>6. CASE ~o.failed /\ b # "lf"
  <2>1. TakeByte(o, b) = ReadState(Append(o.rest, b), o.packets, FALSE) BY <1>6, TakeByteIs, Zenon
  <2> QED BY <1>1, <1>2, <1>6, <2>1, ReadStateIs, Zenon
<1>7. CASE ~o.failed /\ b = "lf" /\ FineLine(o.rest)
  <2>1. TakeByte(o, b) = ReadState(<<>>, Append(o.packets, o.rest), FALSE) BY <1>7, TakeByteIs, Zenon
  <2> QED BY <1>4, <2>1, ReadStateIs, Zenon
<1>8. CASE ~o.failed /\ b = "lf" /\ ~FineLine(o.rest)
  <2>1. TakeByte(o, b) = ReadState(o.rest, o.packets, TRUE) BY <1>8, TakeByteIs, Zenon
  <2> QED BY <1>1, <2>1, ReadStateIs, Zenon
<1> QED BY <1>5, <1>6, <1>7, <1>8

\* The reader ends in one of its states.
LEMMA ReadType == ASSUME NEW o \in ReadStates, NEW s \in Seq(WireBytes) PROVE WireReading!Fold(o, s) \in ReadStates
<1>1. \A p \in ReadStates : \A b \in WireBytes : TakeByte(p, b) \in ReadStates BY TakeByteType
<1> QED BY <1>1, WireReading!FoldType

\* The reader starts in one of its states.
LEMMA NothingReadType == NothingRead \in ReadStates /\ NothingRead = ReadState(<<>>, <<>>, FALSE)
<1>1. NothingRead = ReadState(<<>>, <<>>, FALSE) BY DEF NothingRead, ReadState
<1>2. <<>> \in Seq(PlainBytes) /\ <<>> \in Seq(Seq(WireBytes)) OBVIOUS
<1> QED BY <1>1, <1>2, ReadStateIs, Zenon

\* The packets that were read before do not change what is read next.
LEMMA ReadAfter ==
  ASSUME NEW rest \in Seq(PlainBytes), NEW before \in Seq(Seq(WireBytes)), NEW failed \in BOOLEAN, NEW s \in Seq(WireBytes)
  PROVE LET o == WireReading!Fold(ReadState(rest, <<>>, failed), s) IN
        /\ o \in ReadStates
        /\ WireReading!Fold(ReadState(rest, before, failed), s) = ReadState(o.rest, before \o o.packets, o.failed)
<1> DEFINE X == Seq(WireBytes)
           O(r) == WireReading!Fold(ReadState(rest, <<>>, failed), r)
           P(r) == WireReading!Fold(ReadState(rest, before, failed), r)
           T == {r \in Seq(WireBytes) : P(r) = ReadState(O(r).rest, before \o O(r).packets, O(r).failed)}
<1>a. <<>> \in Seq(Seq(WireBytes)) /\ before \o <<>> = before OBVIOUS
<1>b. ReadState(rest, <<>>, failed) \in ReadStates BY <1>a, ReadStateIs, Zenon
<1>0. ASSUME NEW r \in Seq(WireBytes) PROVE O(r) \in ReadStates BY <1>b, ReadType
<1>1. <<>> \in T
  <2>1. O(<<>>) = ReadState(rest, <<>>, failed) /\ P(<<>>) = ReadState(rest, before, failed) BY WireReading!FoldEmpty
  <2>2. O(<<>>).rest = rest /\ O(<<>>).packets = <<>> /\ O(<<>>).failed = failed
    <3> DEFINE e == <<>>
    <3>1. e \in Seq(Seq(WireBytes)) BY <1>a
    <3> HIDE DEF O, P, e
    <3>2. O(<<>>) = ReadState(rest, e, failed) BY <2>1 DEF e
    <3>3. O(<<>>).rest = rest /\ O(<<>>).packets = e /\ O(<<>>).failed = failed BY <3>1, <3>2, ReadStateIs
    <3> QED BY <3>3 DEF e
  <2>3. <<>> \in Seq(WireBytes) OBVIOUS
  <2> HIDE DEF O, P
  <2>4. P(<<>>) = ReadState(O(<<>>).rest, before \o O(<<>>).packets, O(<<>>).failed) BY <1>a, <2>1, <2>2, Zenon
  <2> QED BY <2>3, <2>4
<1>2. ASSUME NEW r \in Seq(WireBytes), NEW b \in WireBytes, r \in T PROVE Append(r, b) \in T
  <2>1. PICK o \in ReadStates : o = O(r) BY <1>0
  <2>2. O(Append(r, b)) = TakeByte(o, b)
    <3>1. O(Append(r, b)) = TakeByte(O(r), b) BY WireReading!FoldSnoc
    <3> QED BY <2>1, <3>1
  <2>3. P(Append(r, b)) = TakeByte(P(r), b) BY WireReading!FoldSnoc
  <2>4. P(r) = ReadState(o.rest, before \o o.packets, o.failed) BY <1>2, <2>1
  <2>5. o.rest \in Seq(PlainBytes) /\ o.packets \in Seq(X) /\ o.failed \in BOOLEAN BY StateOf
  <2>6. PICK q \in Seq(X) : q = before \o o.packets
    <3>1. before \o o.packets \in Seq(X)
      <4> DEFINE w == o.packets
      <4>1. before \in Seq(X) /\ w \in Seq(X) BY <2>5
      <4> HIDE DEF X, w
      <4>2. before \o w \in Seq(X) BY <4>1
      <4> QED BY <4>2 DEF w
    <3> QED BY <3>1, Zenon
  <2>7. PICK p \in ReadStates : p = P(r) /\ p.rest = o.rest /\ p.packets = q /\ p.failed = o.failed
    <3> HIDE DEF P
    <3>1. P(r) = ReadState(o.rest, q, o.failed) BY <2>4, <2>6
    <3>2. PICK a \in Seq(PlainBytes) : a = o.rest BY <2>5
    <3>3. PICK f \in BOOLEAN : f = o.failed BY <2>5
    <3>4. PICK p : p = ReadState(a, q, f) OBVIOUS
    <3>5. q \in Seq(Seq(WireBytes)) OBVIOUS
    <3>6. p \in ReadStates /\ p.rest = a /\ p.packets = q /\ p.failed = f BY <3>4, <3>5, ReadStateIs
    <3>7. P(r) = p BY <3>1, <3>2, <3>3, <3>4
    <3> QED BY <3>2, <3>3, <3>6, <3>7
  <2>8. Append(q, o.rest) = before \o Append(o.packets, o.rest)
    <3> DEFINE w == o.packets
               e == o.rest
    <3>1. before \in Seq(X) /\ w \in Seq(X) /\ e \in X BY <2>5 DEF PlainBytes
    <3> HIDE DEF X, w, e
    <3>2. AppendsInside(X) BY ConcatAppend
    <3>3. Append(before \o w, e) = before \o Append(w, e) BY <3>1, <3>2, Zenon DEF AppendsInside
    <3> QED BY <2>6, <3>3 DEF w, e
  <2> HIDE DEF O, P
  <2> DEFINE n == TakeByte(o, b)
  <2>9. TakeByte(p, b) = ReadState(n.rest, before \o n.packets, n.failed)
    <3>1. CASE o.failed
      <4>1. n = o /\ TakeByte(p, b) = p BY <2>7, <3>1, TakeByteIs, Zenon
      <4> HIDE DEF n
      <4> QED BY <4>1, <2>4, <2>7
    <3>2. CASE ~o.failed /\ b # "lf"
      <4>1. n = ReadState(Append(o.rest, b), o.packets, FALSE) /\ TakeByte(p, b) = ReadState(Append(o.rest, b), q, FALSE)
            BY <2>7, <3>2, TakeByteIs, Zenon
      <4>2. Append(o.rest, b) \in Seq(PlainBytes) BY <2>5, <3>2 DEF PlainBytes
      <4> HIDE DEF n
      <4>3. n.rest = Append(o.rest, b) /\ n.packets = o.packets /\ n.failed = FALSE BY <2>5, <4>1, <4>2, ReadStateIs, Zenon
      <4> QED BY <4>1, <4>3, <2>6, Zenon
    <3>3. CASE ~o.failed /\ b = "lf" /\ FineLine(o.rest)
      <4> DEFINE e == <<>>
                 more == Append(o.packets, o.rest)
      <4>1. n = ReadState(e, more, FALSE) /\ TakeByte(p, b) = ReadState(e, Append(q, o.rest), FALSE)
            BY <2>7, <3>3, TakeByteIs, Zenon
      <4>2. e \in Seq(PlainBytes) /\ more \in Seq(X)
        <5>1. o.rest \in X BY <2>5 DEF PlainBytes
        <5> QED BY <2>5, <5>1
      <4> HIDE DEF n, e, more
      <4>3. n.rest = e /\ n.packets = more /\ n.failed = FALSE BY <4>1, <4>2, ReadStateIs, Zenon
      <4>4. Append(q, o.rest) = before \o more BY <2>8 DEF more
      <4> QED BY <4>1, <4>3, <4>4, Zenon
    <3>4. CASE ~o.failed /\ b = "lf" /\ ~FineLine(o.rest)
      <4>1. n = ReadState(o.rest, o.packets, TRUE) /\ TakeByte(p, b) = ReadState(o.rest, q, TRUE)
            BY <2>7, <3>4, TakeByteIs, Zenon
      <4> HIDE DEF n
      <4>3. n.rest = o.rest /\ n.packets = o.packets /\ n.failed = TRUE BY <2>5, <4>1, ReadStateIs, Zenon
      <4> QED BY <4>1, <4>3, <2>6, Zenon
    <3> QED BY <3>1, <3>2, <3>3, <3>4
  <2>10. Append(r, b) \in Seq(WireBytes) OBVIOUS
  <2>11. P(Append(r, b)) = ReadState(O(Append(r, b)).rest, before \o O(Append(r, b)).packets, O(Append(r, b)).failed)
         BY <2>2, <2>3, <2>7, <2>9
  <2> QED BY <2>10, <2>11 DEF O, P
<1>3. Seq(WireBytes) \subseteq T
  <2> HIDE DEF T
  <2> QED BY <1>1, <1>2, WireReading!SeqInduction
<1> QED BY <1>0, <1>3

\* The lines of the bytes s up to the first one that is not fine: what WireHonest compares
\* with.
AllFine(s, i) == \A j \in DOMAIN LinesOf(s) : j <= i => FineLine(LinesOf(s)[j])
PacketAt(s, i) == IF i \in DOMAIN LinesOf(s) /\ AllFine(s, i) THEN <<LinesOf(s)[i]>> ELSE <<>>
PacketsIn(s) == FlattenSeq([i \in DOMAIN s |-> PacketAt(s, i)])
SoundLines(s) == \A j \in EndsOf(s) : FineLine(LinesOf(s)[j])

\* One byte more keeps all lines fine unless it ends one that is not.
LEMMA SoundSnoc ==
  ASSUME NEW s \in Seq(WireBytes), NEW b \in WireBytes
  PROVE SoundLines(Append(s, b)) <=> SoundLines(s) /\ (b = "lf" => FineLine(CurrentOf(s)))
<1> DEFINE d == Append(s, b)
           n == Len(s)
<1>1. n \in Nat /\ EndsOf(s) \subseteq 1 .. n BY DEF EndsOf
<1>2. EndsOf(d) = IF b = "lf" THEN EndsOf(s) \cup {n + 1} ELSE EndsOf(s) BY EndsSnoc
<1>3. \A i \in EndsOf(s) : LinesOf(d)[i] = LinesOf(s)[i] BY LinesSnoc
<1>4. b = "lf" => LinesOf(d)[n + 1] = CurrentOf(s) BY LinesSnoc
<1> HIDE DEF d, n
<1>5. CASE b = "lf"
  <2>1. SoundLines(d) <=> (\A j \in EndsOf(s) : FineLine(LinesOf(d)[j])) /\ FineLine(LinesOf(d)[n + 1]) BY <1>2, <1>5 DEF SoundLines
  <2> QED BY <2>1, <1>3, <1>4, <1>5 DEF SoundLines, d
<1>6. CASE b # "lf" BY <1>2, <1>3, <1>6 DEF SoundLines, d
<1> QED BY <1>5, <1>6

\* What the reference reads at a place is a sequence of lines.
LEMMA PacketAtType == ASSUME NEW s \in Seq(WireBytes), NEW i PROVE PacketAt(s, i) \in Seq(Seq(WireBytes))
<1>1. CASE i \in DOMAIN LinesOf(s)
  <2>1. i \in EndsOf(s) BY <1>1, LinesAre
  <2>2. LinesOf(s)[i] \in Seq(WireBytes) BY <2>1, LineType
  <2> QED BY <2>2 DEF PacketAt
<1>2. CASE i \notin DOMAIN LinesOf(s) BY <1>2 DEF PacketAt
<1> QED BY <1>1, <1>2

\* By the reference, one byte more adds the line it ends, if that and all before it are
\* fine.
LEMMA PacketsInSnoc ==
  ASSUME NEW s \in Seq(WireBytes), NEW b \in WireBytes
  PROVE PacketsIn(Append(s, b)) =
          PacketsIn(s) \o (IF b = "lf" /\ SoundLines(s) /\ FineLine(CurrentOf(s)) THEN <<CurrentOf(s)>> ELSE <<>>)
<1> DEFINE d == Append(s, b)
           n == Len(s)
           X == Seq(Seq(WireBytes))
           rs == [i \in DOMAIN s |-> PacketAt(s, i)]
           y == IF b = "lf" /\ SoundLines(s) /\ FineLine(CurrentOf(s)) THEN <<CurrentOf(s)>> ELSE <<>>
<1>1. DOMAIN d = 1 .. n + 1 /\ DOMAIN s = 1 .. n /\ n \in Nat OBVIOUS
<1>a. EndsOf(d) = IF b = "lf" THEN EndsOf(s) \cup {n + 1} ELSE EndsOf(s) BY EndsSnoc
<1>b. DOMAIN LinesOf(s) = EndsOf(s) /\ DOMAIN LinesOf(d) = EndsOf(d) BY LinesSnoc
<1>c. \A j \in EndsOf(s) : LinesOf(d)[j] = LinesOf(s)[j] BY LinesSnoc
<1>d. EndsOf(s) \subseteq 1 .. n BY DEF EndsOf
<1>2. \A i \in 1 .. n : PacketAt(d, i) = PacketAt(s, i)
  <2> SUFFICES ASSUME NEW i \in 1 .. n PROVE PacketAt(d, i) = PacketAt(s, i) OBVIOUS
  <2>1. \A j : j \in EndsOf(d) /\ j <= i <=> j \in EndsOf(s) /\ j <= i
    <3> HIDE DEF d, n
    <3> QED BY <1>1, <1>a, <1>d
  <2>2. AllFine(d, i) <=> AllFine(s, i)
    <3> HIDE DEF d, n
    <3> QED BY <2>1, <1>b, <1>c DEF AllFine
  <2>3. i \in EndsOf(d) <=> i \in EndsOf(s) BY <2>1
  <2> HIDE DEF d
  <2> QED BY <2>2, <2>3, <1>b, <1>c DEF PacketAt
<1>3. PacketAt(d, n + 1) = y
  <2>1. n + 1 \in EndsOf(d) <=> b = "lf"
    <3> HIDE DEF d, n
    <3> QED BY <1>1, <1>a, <1>d
  <2>2. b = "lf" => LinesOf(d)[n + 1] = CurrentOf(s) BY LinesSnoc
  <2>3. AllFine(d, n + 1) <=> SoundLines(d)
    <3>1. \A j \in EndsOf(d) : j <= n + 1
      <4> HIDE DEF d, n
      <4> QED BY <1>1, <1>a, <1>d
    <3> HIDE DEF d, n
    <3> QED BY <3>1, <1>b DEF AllFine, SoundLines
  <2>4. SoundLines(d) <=> SoundLines(s) /\ (b = "lf" => FineLine(CurrentOf(s))) BY SoundSnoc
  <2> HIDE DEF d, n
  <2> QED BY <2>1, <2>2, <2>3, <2>4, <1>b DEF PacketAt
<1>4. y \in X
  <2>1. CurrentOf(s) \in Seq(WireBytes) BY CurrentType
  <2> QED BY <2>1
<1>5. rs \in Seq(X) /\ Len(rs) = n
  <2>1. \A i \in 1 .. n : PacketAt(s, i) \in X BY PacketAtType, <1>1
  <2> HIDE DEF X, n
  <2>2. [i \in 1 .. n |-> PacketAt(s, i)] \in Seq(X) BY <2>1, <1>1, TableIsSeq
  <2> QED BY <2>2, <1>1
<1>6. Append(rs, y) = [i \in 1 .. n + 1 |-> IF i \in 1 .. n THEN rs[i] ELSE y]
  <2> HIDE DEF rs, y, X, n
  <2> QED BY <1>5, AppendIs
<1>7. [i \in DOMAIN d |-> PacketAt(d, i)] = Append(rs, y)
  <2>1. \A i \in 1 .. n : rs[i] = PacketAt(s, i) BY <1>1
  <2> HIDE DEF rs, y, X, d
  <2>2. \A i \in 1 .. n + 1 : i \in 1 .. n \/ i = n + 1 BY <1>1
  <2>3. n + 1 \notin 1 .. n BY <1>1
  <2> HIDE DEF n
  <2>4. \A i \in 1 .. n + 1 : PacketAt(d, i) = IF i \in 1 .. n THEN rs[i] ELSE y BY <2>1, <2>2, <2>3, <1>2, <1>3
  <2> QED BY <2>4, <1>1, <1>6
<1>8. FlattenSeq(Append(rs, y)) = FlattenSeq(rs) \o y
  <2>1. rs \in Seq(Seq(Seq(WireBytes))) /\ y \in Seq(Seq(WireBytes)) BY <1>4, <1>5
  <2> HIDE DEF rs, y, X
  <2> QED BY <2>1, FlattenSnoc
<1>9. PacketsIn(d) = FlattenSeq(Append(rs, y))
  <2> HIDE DEF rs, y, d
  <2> QED BY <1>7, Zenon DEF PacketsIn
<1>10. PacketsIn(s) = FlattenSeq(rs) BY Zenon DEF PacketsIn
<1> HIDE DEF rs, d, X
<1> QED BY <1>8, <1>9, <1>10 DEF d

\* By the reference, no bytes hold no packet.
LEMMA PacketsInEmpty == PacketsIn(<<>>) = <<>>
<1>1. DOMAIN <<>> = {} OBVIOUS
<1>2. [i \in DOMAIN <<>> |-> PacketAt(<<>>, i)] = <<>> BY <1>1
<1> QED BY <1>2, FlattenEmpty DEF PacketsIn

\* MistakeAhead the first byte the line under way is empty.
LEMMA CurrentEmpty == CurrentOf(<<>>) = <<>>
<1>1. <<>> \in Seq(StreamBytes) /\ Len(<<>>) = 0 /\ 1 \in 1 .. Len(<<>>) + 1 OBVIOUS
<1>2. StartOf(<<>>, 1) \in 1 .. 1 BY <1>1, StartBounds, Zenon
<1>3. StartOf(<<>>, Len(<<>>) + 1) = 1 BY <1>1, <1>2
<1>4. SubSeq(<<>>, 1, 0) = <<>> OBVIOUS
<1> QED BY <1>1, <1>3, <1>4 DEF CurrentOf

\* What the reader must have made of the bytes s.
ReadRight(s) ==
  /\ ReadBy(s).failed <=> ~SoundLines(s)
  /\ ~ReadBy(s).failed => ReadBy(s).rest = CurrentOf(s)
  /\ ReadBy(s).packets = PacketsIn(s)

\* MistakeAhead the first byte the reader stands where the reference does.
LEMMA ReadRightStart == ReadRight(<<>>)
<1>1. ReadBy(<<>>) = NothingRead BY WireReading!FoldEmpty DEF ReadBy
<1>2. NothingRead.failed = FALSE BY DEF NothingRead
<1>3. NothingRead.rest = <<>> /\ NothingRead.packets = <<>> BY DEF NothingRead
<1>4. SoundLines(<<>>)
  <2>1. EndsOf(<<>>) = {} BY DEF EndsOf
  <2> QED BY <2>1 DEF SoundLines
<1> QED BY <1>1, <1>2, <1>3, <1>4, CurrentEmpty, PacketsInEmpty DEF ReadRight

\* One byte more and it still does.
LEMMA ReadRightKept ==
  ASSUME NEW s \in Seq(WireBytes), NEW b \in WireBytes, ReadRight(s)
  PROVE ReadRight(Append(s, b))
<1>1. PICK o \in ReadStates : o = ReadBy(s) BY ReadType, NothingReadType, Zenon DEF ReadBy
<1>2. PICK d \in Seq(WireBytes) : d = Append(s, b)
  <2>1. Append(s, b) \in Seq(WireBytes) OBVIOUS
  <2> QED BY <2>1, Zenon
<1>3. ReadBy(d) = TakeByte(o, b) BY <1>1, <1>2, WireReading!FoldSnoc DEF ReadBy
<1>4. o.rest \in Seq(PlainBytes) /\ o.packets \in Seq(Seq(WireBytes)) /\ o.failed \in BOOLEAN BY StateOf
<1>5. PICK p \in ReadStates : p = ReadBy(d) BY ReadType, NothingReadType, Zenon DEF ReadBy
<1>6. CurrentOf(s) \in Seq(WireBytes) BY CurrentType
<1>7. /\ o.failed <=> ~SoundLines(s)
      /\ ~o.failed => o.rest = CurrentOf(s)
      /\ o.packets = PacketsIn(s) BY <1>1 DEF ReadRight
<1>8. SoundLines(d) <=> SoundLines(s) /\ (b = "lf" => FineLine(CurrentOf(s))) BY <1>2, SoundSnoc
<1>9. PacketsIn(d) = PacketsIn(s) \o (IF b = "lf" /\ SoundLines(s) /\ FineLine(CurrentOf(s)) THEN <<CurrentOf(s)>> ELSE <<>>)
      BY <1>2, PacketsInSnoc
<1>10. ~(b = "lf" /\ SoundLines(s) /\ FineLine(CurrentOf(s))) => PacketsIn(d) = PacketsIn(s)
  <2> DEFINE q == PacketsIn(s)
  <2>1. q \in Seq(Seq(WireBytes)) BY <1>4, <1>7
  <2> HIDE DEF q
  <2>2. q \o <<>> = q BY <2>1
  <2> QED BY <2>2, <1>9, Zenon DEF q
<1>11. CASE o.failed
  <2>1. p = o BY <1>3, <1>5, <1>11, TakeByteIs, Zenon
  <2> QED BY <2>1, <1>1, <1>2, <1>5, <1>7, <1>8, <1>10, <1>11 DEF ReadRight
<1>12. CASE ~o.failed /\ b # "lf"
  <2> DEFINE r == Append(o.rest, b)
  <2>1. r \in Seq(PlainBytes) BY <1>4, <1>12 DEF PlainBytes
  <2>2. p = ReadState(r, o.packets, FALSE) BY <1>3, <1>5, <1>12, TakeByteIs, Zenon
  <2> HIDE DEF r
  <2>3. p.rest = r /\ p.packets = o.packets /\ p.failed = FALSE BY <1>4, <2>1, <2>2, ReadStateIs, Zenon
  <2>4. CurrentOf(d) = r BY <1>2, <1>7, <1>12, CurrentSnoc DEF r
  <2> QED BY <2>3, <2>4, <1>2, <1>5, <1>7, <1>8, <1>10, <1>12 DEF ReadRight
<1>13. CASE ~o.failed /\ b = "lf" /\ FineLine(o.rest)
  <2> DEFINE e == <<>>
             q == Append(o.packets, o.rest)
  <2>0. o.rest \in Seq(WireBytes) BY <1>4 DEF PlainBytes
  <2>1. e \in Seq(PlainBytes) /\ q \in Seq(Seq(WireBytes)) BY <1>4, <2>0
  <2>2. p = ReadState(e, q, FALSE) BY <1>3, <1>5, <1>13, TakeByteIs, Zenon
  <2>4. CurrentOf(d) = e BY <1>2, <1>13, CurrentSnoc
  <2> HIDE DEF e, q
  <2>3. p.rest = e /\ p.packets = q /\ p.failed = FALSE BY <2>1, <2>2, ReadStateIs, Zenon
  <2>5. PacketsIn(d) = o.packets \o <<o.rest>> BY <1>7, <1>9, <1>13
  <2>6. o.packets \o <<o.rest>> = q
    <3> DEFINE w == o.packets
               x == o.rest
               X == Seq(WireBytes)
    <3>1. w \in Seq(X) /\ x \in X BY <1>4, <2>0
    <3> HIDE DEF w, x, X
    <3>2. w \o <<x>> = Append(w, x) BY <3>1
    <3> QED BY <3>2 DEF w, x, q
  <2> QED BY <2>3, <2>4, <2>5, <2>6, <1>2, <1>5, <1>7, <1>8, <1>13, Zenon DEF ReadRight
<1>14. CASE ~o.failed /\ b = "lf" /\ ~FineLine(o.rest)
  <2>2. p = ReadState(o.rest, o.packets, TRUE) BY <1>3, <1>5, <1>14, TakeByteIs, Zenon
  <2>3. p.packets = o.packets /\ p.failed = TRUE BY <1>4, <2>2, ReadStateIs, Zenon
  <2> QED BY <2>3, <1>2, <1>5, <1>7, <1>8, <1>10, <1>14 DEF ReadRight
<1> QED BY <1>11, <1>12, <1>13, <1>14

\* After any bytes the reader stands where the reference does.
LEMMA AlwaysReadRight == ASSUME NEW s \in Seq(WireBytes) PROVE ReadRight(s)
<1> DEFINE T == {r \in Seq(WireBytes) : ReadRight(r)}
<1>1. <<>> \in T BY ReadRightStart
<1>2. ASSUME NEW r \in Seq(WireBytes), NEW b \in WireBytes, r \in T PROVE Append(r, b) \in T
  <2>1. Append(r, b) \in Seq(WireBytes) /\ ReadRight(r) BY <1>2
  <2> QED BY <2>1, ReadRightKept
<1>3. Seq(WireBytes) \subseteq T
  <2> HIDE DEF T
  <2> QED BY <1>1, <1>2, WireReading!SeqInduction
<1> QED BY <1>3

\* Bytes without a line feed are a line under way, and no packet.
LEMMA PlainRead == ASSUME NEW t \in Seq(PlainBytes) PROVE ReadBy(t) = ReadState(t, <<>>, FALSE)
<1> DEFINE e == <<>>
           T == {r \in Seq(PlainBytes) : ReadBy(r) = ReadState(r, e, FALSE)}
<1>0. e \in Seq(Seq(WireBytes)) OBVIOUS
<1>1. <<>> \in T
  <2>1. ReadBy(<<>>) = NothingRead BY WireReading!FoldEmpty DEF ReadBy
  <2>2. <<>> \in Seq(PlainBytes) OBVIOUS
  <2> QED BY <2>1, <2>2, NothingReadType, Zenon
<1>2. ASSUME NEW r \in Seq(PlainBytes), NEW b \in PlainBytes, r \in T PROVE Append(r, b) \in T
  <2>1. r \in Seq(WireBytes) /\ b \in WireBytes /\ b # "lf" BY DEF PlainBytes
  <2>2. ReadBy(Append(r, b)) = TakeByte(ReadBy(r), b) BY <2>1, WireReading!FoldSnoc DEF ReadBy
  <2> HIDE DEF e
  <2>3. PICK o : o = ReadState(r, e, FALSE) BY Zenon
  <2>4. o \in ReadStates /\ o.rest = r /\ o.packets = e /\ o.failed = FALSE BY <1>0, <2>3, ReadStateIs, Zenon
  <2>5. ReadBy(r) = o BY <1>2, <2>3
  <2>6. TakeByte(o, b) = ReadState(Append(r, b), e, FALSE) BY <2>1, <2>4, TakeByteIs, Zenon
  <2>7. Append(r, b) \in Seq(PlainBytes) OBVIOUS
  <2> QED BY <2>2, <2>5, <2>6, <2>7
<1>3. Seq(PlainBytes) \subseteq T
  <2> HIDE DEF T
  <2> QED BY <1>1, <1>2, WireReading!SeqInduction
<1> QED BY <1>3, Zenon

Summing == INSTANCE FoldRules WITH Op <- +
\* What FoldRules says of Fold holds for sums.
LEMMA SummingIsFold == ASSUME NEW b, NEW s PROVE Summing!Fold(b, s) = FoldLeft(+, b, s)
BY Zenon DEF FoldLeft, Summing!Fold, Summing!FoldLeft, MapThenFoldSet, Summing!MapThenFoldSet, Max, Summing!Max

\* One number more is added at the end,
LEMMA SumSnoc ==
  ASSUME NEW s \in Seq(Nat), NEW x \in Nat
  PROVE SumOf(s) \in Nat /\ SumOf(Append(s, x)) = SumOf(s) + x
<1>1. \A a \in Nat : \A y \in Nat : a + y \in Nat OBVIOUS
<1>2. Summing!Fold(0, s) \in Nat BY <1>1, Summing!FoldType, Zenon
<1>3. Summing!Fold(0, Append(s, x)) = Summing!Fold(0, s) + x BY Summing!FoldSnoc
<1> QED BY <1>2, <1>3, SummingIsFold, Zenon DEF SumOf

\* no numbers add up to zero,
LEMMA SumEmpty == SumOf(<<>>) = 0
BY SummingIsFold, Summing!FoldEmpty, Zenon DEF SumOf

\* a number in front is added too,
LEMMA SumCons ==
  ASSUME NEW h \in Nat, NEW s \in Seq(Nat)
  PROVE SumOf(<<h>> \o s) = h + SumOf(s)
<1> DEFINE T == {t \in Seq(Nat) : SumOf(<<h>> \o t) = h + SumOf(t)}
<1>1. <<>> \in T
  <2>1. <<h>> \o <<>> = Append(<<>>, h) /\ <<>> \in Seq(Nat) OBVIOUS
  <2>2. SumOf(Append(<<>>, h)) = 0 + h BY <2>1, SumSnoc, SumEmpty, Zenon
  <2> QED BY <2>1, <2>2, SumEmpty
<1>2. ASSUME NEW t \in Seq(Nat), NEW x \in Nat, t \in T PROVE Append(t, x) \in T
  <2>1. PICK w \in Seq(Nat) : w = <<h>> \o t
    <3>1. <<h>> \o t \in Seq(Nat) OBVIOUS
    <3> QED BY <3>1, Zenon
  <2>2. <<h>> \o Append(t, x) = Append(w, x)
    <3>1. <<h>> \in Seq(Nat) OBVIOUS
    <3> DEFINE e == <<h>>
    <3> HIDE DEF e
    <3>2. AppendsInside(Nat) BY ConcatAppend
    <3>3. Append(e \o t, x) = e \o Append(t, x) BY <3>1, <3>2, Zenon DEF AppendsInside, e
    <3> QED BY <3>3, <2>1, Zenon DEF e
  <2>3. SumOf(Append(w, x)) = SumOf(w) + x /\ SumOf(Append(t, x)) = SumOf(t) + x /\ SumOf(t) \in Nat BY SumSnoc, Zenon
  <2>4. SumOf(w) = h + SumOf(t) BY <1>2, <2>1
  <2>5. Append(t, x) \in Seq(Nat) OBVIOUS
  <2>7. PICK z \in Nat : z = SumOf(t) BY <2>3
  <2>8. SumOf(<<h>> \o Append(t, x)) = (h + z) + x BY <2>2, <2>3, <2>4, <2>7, Zenon
  <2>9. SumOf(Append(t, x)) = z + x BY <2>3, <2>7
  <2>10. (h + z) + x = h + (z + x) OBVIOUS
  <2>6. SumOf(<<h>> \o Append(t, x)) = h + SumOf(Append(t, x)) BY <2>8, <2>9, <2>10
  <2> QED BY <2>5, <2>6
<1>3. Seq(Nat) \subseteq T
  <2> HIDE DEF T
  <2> QED BY <1>1, <1>2, Summing!SeqInduction
<1> QED BY <1>3, Zenon

\* and without the first number the sum is less by it.
LEMMA SumHead ==
  ASSUME NEW s \in Seq(Nat), s # <<>>
  PROVE /\ Head(s) \in Nat /\ Tail(s) \in Seq(Nat) /\ Len(Tail(s)) = Len(s) - 1
        /\ SumOf(s) = Head(s) + SumOf(Tail(s)) /\ SumOf(Tail(s)) \in Nat
<1>1. Head(s) \in Nat /\ Tail(s) \in Seq(Nat) /\ Len(Tail(s)) = Len(s) - 1 /\ s = <<Head(s)>> \o Tail(s) OBVIOUS
<1>2. PICK h \in Nat : h = Head(s) BY <1>1
<1>3. PICK t \in Seq(Nat) : t = Tail(s) BY <1>1, Zenon
<1>4. SumOf(<<h>> \o t) = h + SumOf(t) BY SumCons
<1>5. SumOf(t) \in Nat BY SumSnoc, 0 \in Nat
<1> QED BY <1>1, <1>2, <1>3, <1>4, <1>5, Zenon

\* The messages that were accepted to be sent.
AcceptedBy(sent) == Cardinality({i \in DOMAIN sent : sent[i] = "queued"})
Verdicts == {"refused", "queued"}
\* One verdict more counts as accepted if it is queued.
LEMMA AcceptedSnoc ==
  ASSUME NEW sent \in Seq(Verdicts), NEW v \in Verdicts
  PROVE /\ AcceptedBy(sent) \in Nat
        /\ AcceptedBy(Append(sent, v)) = IF v = "queued" THEN AcceptedBy(sent) + 1 ELSE AcceptedBy(sent)
<1> DEFINE n == Len(sent)
           A == {i \in DOMAIN sent : sent[i] = "queued"}
           B == {i \in DOMAIN Append(sent, v) : Append(sent, v)[i] = "queued"}
<1>1. n \in Nat /\ DOMAIN sent = 1 .. n /\ DOMAIN Append(sent, v) = 1 .. n + 1 OBVIOUS
<1>2. Append(sent, v)[n + 1] = v /\ \A i \in 1 .. n : Append(sent, v)[i] = sent[i] OBVIOUS
<1>3. IsFiniteSet(A)
  <2>1. IsFiniteSet(1 .. n) BY <1>1, FS_Interval
  <2>2. A \subseteq 1 .. n BY <1>1
  <2> HIDE DEF A, n
  <2> QED BY <2>1, <2>2, FS_Subset, Zenon
<1>4. n + 1 \notin A BY <1>1
<1>5. B = IF v = "queued" THEN A \cup {n + 1} ELSE A
  <2> DEFINE d == Append(sent, v)
  <2> HIDE DEF d, n
  <2>1. \A i : i \in 1 .. n + 1 <=> i \in 1 .. n \/ i = n + 1 BY <1>1
  <2>2. n + 1 \notin 1 .. n BY <1>1
  <2> QED BY <1>1, <1>2, <2>1, <2>2 DEF d
<1>6. Cardinality(A) \in Nat /\ Cardinality(A \cup {n + 1}) = Cardinality(A) + 1
  <2> HIDE DEF A, n
  <2> QED BY <1>3, <1>4, FS_AddElement, FS_CardinalityType
<1>7. AcceptedBy(sent) = Cardinality(A) /\ AcceptedBy(Append(sent, v)) = Cardinality(B) BY DEF AcceptedBy
<1> HIDE DEF A, B, n
<1> QED BY <1>5, <1>6, <1>7

-----------------------------------------------------------------------------
(* The desktop wire: the inductive invariant. *)
WirePipes == [rest : Seq(WireBytes), whole : Seq(WireBytes), buffer : Seq(WireBytes), closed : BOOLEAN, disconnects : Nat,
              packets : Seq(Seq(WireBytes)), input : {"open", "ended", "failed"}, sent : Seq(Verdicts),
              queued : Nat, writes : Seq(Nat), written : Nat]
\* The inductive invariant of the wire.  What was read is what the reader makes of the bytes
\* before a failure; what is queued is what the writes under way hold.
ReadPart(p) ==
  \E read \in Seq(WireBytes), later \in Seq(WireBytes) :
    /\ p.whole = (read \o later) \o p.rest
    /\ p.packets = ReadBy(read).packets
    /\ ~p.closed => later = <<>> /\ ~ReadBy(read).failed /\ p.buffer = ReadBy(read).rest
SendPart(p) ==
  /\ p.queued = SumOf(p.writes) /\ p.queued <= 2 * FrameLimit
  /\ ~p.closed => p.written + Len(p.writes) = AcceptedBy(p.sent)
WireInv == desktopPipe \in WirePipes /\ ReadPart(desktopPipe) /\ SendPart(desktopPipe)

\* The packets read so far begin those the reference finds in all bytes received.
LEMMA PacketsGrow ==
  ASSUME NEW s \in Seq(WireBytes), NEW t \in Seq(WireBytes)
  PROVE IsPrefix(ReadBy(s).packets, PacketsIn(s \o t))
<1>1. PICK o \in ReadStates : o = ReadBy(s) BY ReadType, NothingReadType, Zenon DEF ReadBy
<1>2. o.rest \in Seq(PlainBytes) /\ o.packets \in Seq(Seq(WireBytes)) /\ o.failed \in BOOLEAN
      /\ o = ReadState(o.rest, o.packets, o.failed) BY StateOf
<1>3. PICK a \in Seq(PlainBytes) : a = o.rest BY <1>2
<1>4. PICK q \in Seq(Seq(WireBytes)) : q = o.packets BY <1>2
<1>5. PICK f \in BOOLEAN : f = o.failed BY <1>2
<1>6. PICK d \in Seq(WireBytes) : d = s \o t
  <2>1. s \o t \in Seq(WireBytes) OBVIOUS
  <2> QED BY <2>1, Zenon
<1>7. ReadBy(d) = WireReading!Fold(o, t) BY <1>1, <1>6, WireReading!FoldConcat DEF ReadBy
<1>8. o = ReadState(a, q, f) BY <1>2, <1>3, <1>4, <1>5
<1> DEFINE y == WireReading!Fold(ReadState(a, <<>>, f), t)
<1>9. y \in ReadStates /\ WireReading!Fold(ReadState(a, q, f), t) = ReadState(y.rest, q \o y.packets, y.failed) BY ReadAfter
<1> HIDE DEF y
<1>10. PICK z \in Seq(Seq(WireBytes)) : z = y.packets BY <1>9, StateOf
<1>11. ReadBy(d).packets = q \o z
  <2> DEFINE w == q \o z
  <2>1. ReadBy(d) = ReadState(y.rest, w, y.failed) BY <1>7, <1>8, <1>9, <1>10
  <2> HIDE DEF w
  <2>2. ReadBy(d).packets = w BY <2>1 DEF ReadState
  <2> QED BY <2>2 DEF w
<1>12. PacketsIn(d) = q \o z BY <1>11, AlwaysReadRight, Zenon DEF ReadRight
<1>13. IsPrefix(q, q \o z)
  <2> DEFINE X == Seq(WireBytes)
  <2>1. q \in Seq(X) /\ z \in Seq(X) OBVIOUS
  <2> HIDE DEF X
  <2> QED BY <2>1 DEF IsPrefix
<1> QED BY <1>1, <1>4, <1>6, <1>12, <1>13

\* The invariant of the wire says what the wire promises.
LEMMA WireSays == ASSUME WireInv PROVE WireHonest
<1> DEFINE received == SubSeq(desktopPipe.whole, 1, Len(desktopPipe.whole) - Len(desktopPipe.rest))
<1>1. WirePackets = PacketsIn(received)
      BY Zenon DEF WirePackets, PacketsIn, PacketAt, AllFine, FineLine
<1>2. PICK read \in Seq(WireBytes), later \in Seq(WireBytes) :
         /\ desktopPipe.whole = (read \o later) \o desktopPipe.rest
         /\ desktopPipe.packets = ReadBy(read).packets
         /\ ~desktopPipe.closed => later = <<>> /\ ~ReadBy(read).failed /\ desktopPipe.buffer = ReadBy(read).rest
      BY Zenon DEF WireInv, ReadPart
<1>3. PICK d \in Seq(WireBytes) : d = read \o later
  <2>1. read \o later \in Seq(WireBytes) OBVIOUS
  <2> QED BY <2>1, Zenon
<1>4. desktopPipe.rest \in Seq(WireBytes) BY DEF WireInv, WirePipes
<1>5. received = d BY <1>2, <1>3, <1>4, ReceivedIs
<1>6. IsPrefix(desktopPipe.packets, WirePackets) BY <1>1, <1>2, <1>3, <1>5, PacketsGrow, Zenon
<1>7. ~desktopPipe.closed => desktopPipe.packets = WirePackets
  <2> SUFFICES ASSUME ~desktopPipe.closed PROVE desktopPipe.packets = WirePackets OBVIOUS
  <2>1. read \o <<>> = read OBVIOUS
  <2>2. d = read BY <1>2, <1>3, <2>1
  <2>3. ReadBy(read).packets = PacketsIn(read) BY AlwaysReadRight DEF ReadRight
  <2> QED BY <1>1, <1>2, <1>5, <2>2, <2>3, Zenon
<1>8. SendPart(desktopPipe) BY DEF WireInv
<1> QED BY <1>6, <1>7, <1>8 DEF WireHonest, SendPart, AcceptedBy

\* The pipe before anything is read or sent.
FreshWire(text) == [rest |-> text, whole |-> text, buffer |-> <<>>, closed |-> FALSE, disconnects |-> 0, packets |-> <<>>,
                  input |-> "open", sent |-> <<>>, queued |-> 0, writes |-> <<>>, written |-> 0]
StartsWire(text) == desktopPipe = [IdleWire EXCEPT !.rest = text, !.whole = text]

\* The first states of the desktop pipe, field by field.
LEMMA WireStarts ==
  ASSUME NEW text
  PROVE (StartsWire(text) => desktopPipe = FreshWire(text)) /\ (desktopPipe = IdleWire => desktopPipe = FreshWire(<<>>))
<1>1. ASSUME StartsWire(text) PROVE desktopPipe = FreshWire(text) BY <1>1, Zenon DEF StartsWire, IdleWire, FreshWire
<1>2. IdleWire = FreshWire(<<>>) BY Zenon DEF IdleWire, FreshWire
<1> QED BY <1>1, <1>2

\* MistakeAhead anything is read or sent the invariant of the wire holds.
LEMMA IdleWireInv == ASSUME NEW text \in Seq(WireBytes), desktopPipe = FreshWire(text) PROVE WireInv
<1> DEFINE e == <<>>
<1>1. desktopPipe = [rest |-> text, whole |-> text, buffer |-> e, closed |-> FALSE, disconnects |-> 0, packets |-> e,
             input |-> "open", sent |-> e, queued |-> 0, writes |-> e, written |-> 0] BY Zenon DEF FreshWire
<1>2. e \in Seq(WireBytes) /\ e \in Seq(Seq(WireBytes)) /\ e \in Seq(Verdicts) /\ e \in Seq(Nat) OBVIOUS
<1>3. desktopPipe \in WirePipes
  <2>1. FALSE \in BOOLEAN /\ 0 \in Nat OBVIOUS
  <2> HIDE DEF e
  <2> QED BY <1>1, <1>2, <2>1 DEF WirePipes
<1>4. /\ desktopPipe.rest = text /\ desktopPipe.whole = text /\ desktopPipe.buffer = e /\ desktopPipe.packets = e
      /\ desktopPipe.sent = e /\ desktopPipe.queued = 0 /\ desktopPipe.writes = e /\ desktopPipe.written = 0
  <2> HIDE DEF e
  <2> QED BY <1>1
<1>5. ReadPart(desktopPipe)
  <2>1. ReadBy(e) = NothingRead BY WireReading!FoldEmpty DEF ReadBy
  <2>2. NothingRead.failed = FALSE BY DEF NothingRead
  <2>3. NothingRead.rest = e /\ NothingRead.packets = e BY DEF NothingRead
  <2>4. (e \o e) \o text = text OBVIOUS
  <2> HIDE DEF e
  <2> QED BY <1>2, <1>4, <2>1, <2>2, <2>3, <2>4, Zenon DEF ReadPart, e
<1>6. SendPart(desktopPipe)
  <2>1. Len(e) = 0 /\ FrameLimit \in Nat BY FramingAssumption
  <2>2. AcceptedBy(e) = 0
    <3>1. {i \in DOMAIN e : e[i] = "queued"} = {} OBVIOUS
    <3> QED BY <3>1, FS_EmptySet DEF AcceptedBy
  <2>3. SumOf(e) = 0 BY SumEmpty
  <2> HIDE DEF e
  <2>4. 0 <= 2 * FrameLimit /\ 0 + 0 = 0 BY <2>1
  <2> QED BY <1>4, <2>1, <2>2, <2>3, <2>4 DEF SendPart
<1> QED BY <1>3, <1>5, <1>6 DEF WireInv

\* Two states of the pipe that differ in being closed, or in what is left unread, at most.
SameBut(q, p) ==
  /\ q.rest = p.rest /\ q.whole = p.whole /\ q.packets = p.packets
  /\ q.sent = p.sent /\ q.queued = p.queued /\ q.writes = p.writes /\ q.written = p.written

\* The fields of the desktop pipe.
LEMMA WireFields == ASSUME NEW p \in WirePipes
  PROVE /\ p.rest \in Seq(WireBytes) /\ p.whole \in Seq(WireBytes) /\ p.buffer \in Seq(WireBytes)
        /\ p.packets \in Seq(Seq(WireBytes)) /\ p.sent \in Seq(Verdicts) /\ p.writes \in Seq(Nat)
        /\ p.closed \in BOOLEAN /\ p.queued \in Nat /\ p.written \in Nat /\ p.disconnects \in Nat
        /\ p.input \in {"open", "ended", "failed"}
BY DEF WirePipes

\* Disconnecting closes the wire and leaves what was read, sent and written.
LEMMA DisconnectIs ==
  ASSUME NEW p \in WirePipes
  PROVE DisconnectWire(p) \in WirePipes /\ DisconnectWire(p).closed /\ SameBut(DisconnectWire(p), p)
<1>1. CASE p.closed BY <1>1 DEF DisconnectWire, SameBut
<1>2. CASE ~p.closed
  <2> DEFINE t == TRUE
             n == p.disconnects + 1
             a == [p EXCEPT !.closed = t]
             b == [a EXCEPT !.disconnects = n]
  <2>1. t \in BOOLEAN /\ n \in Nat /\ p.disconnects \in Nat BY WireFields
  <2>2. DisconnectWire(p) = [p EXCEPT !.closed = t, !.disconnects = n] BY <1>2, Zenon DEF DisconnectWire
  <2> HIDE DEF t, n
  <2>3. a \in WirePipes /\ a.closed = t /\ SameBut(a, p) BY <2>1, Zenon DEF WirePipes, SameBut
  <2>4. [p EXCEPT !.closed = t, !.disconnects = n] = b BY Zenon
  <2> HIDE DEF a
  <2>5. b \in WirePipes /\ b.closed = a.closed /\ SameBut(b, a) BY <2>1, <2>3, Zenon DEF WirePipes, SameBut
  <2> HIDE DEF b
  <2>6. DisconnectWire(p) = b BY <2>2, <2>4
  <2>7. b.closed BY <2>3, <2>5 DEF t
  <2>8. SameBut(b, p) BY <2>3, <2>5 DEF SameBut
  <2> QED BY <2>5, <2>6, <2>7, <2>8
<1> QED BY <1>1, <1>2 DEF WirePipes

\* A closed wire with the same packets, queue and writes keeps the invariant.
LEMMA ClosedKeeps ==
  ASSUME NEW p \in WirePipes, ReadPart(p), SendPart(p), NEW q \in WirePipes, q.closed, SameBut(q, p)
  PROVE ReadPart(q) /\ SendPart(q)
<1>1. PICK read \in Seq(WireBytes), later \in Seq(WireBytes) :
         /\ p.whole = (read \o later) \o p.rest
         /\ p.packets = ReadBy(read).packets
      BY Zenon DEF ReadPart
<1>2. q.whole = (read \o later) \o q.rest /\ q.packets = ReadBy(read).packets BY <1>1 DEF SameBut
<1>3. ReadPart(q) BY <1>2, Zenon DEF ReadPart
<1>4. SendPart(q) BY DEF SendPart, SameBut
<1> QED BY <1>3, <1>4

\* The end of the input keeps it,
LEMMA EndInputKeeps == ASSUME WireInv, EndInput PROVE WireInv'
<1>1. PICK p \in WirePipes : p = desktopPipe BY DEF WireInv
<1>2. ReadPart(p) /\ SendPart(p) BY <1>1 DEF WireInv
<1> DEFINE t == TRUE
           n == p.disconnects + 1
           q == [p EXCEPT !.input = "ended", !.closed = t, !.disconnects = n]
<1>3. desktopPipe' = q BY <1>1, Zenon DEF EndInput
<1>4. t \in BOOLEAN /\ n \in Nat BY WireFields
<1>5. q \in WirePipes /\ q.closed = t /\ SameBut(q, p)
  <2> HIDE DEF t, n
  <2> DEFINE a == [p EXCEPT !.input = "ended"]
             b == [a EXCEPT !.closed = t]
  <2>1. a \in WirePipes /\ SameBut(a, p) BY Zenon DEF WirePipes, SameBut
  <2>2. q = [b EXCEPT !.disconnects = n] BY Zenon
  <2> HIDE DEF a
  <2>3. b \in WirePipes /\ SameBut(b, a) /\ b.closed = t BY <2>1, <1>4, Zenon DEF WirePipes, SameBut
  <2> HIDE DEF b, q
  <2>4. q \in WirePipes /\ SameBut(q, b) /\ q.closed = b.closed BY <2>2, <2>3, <1>4, Zenon DEF WirePipes, SameBut
  <2> QED BY <2>1, <2>3, <2>4 DEF SameBut
<1> HIDE DEF q
<1>6. ReadPart(q) /\ SendPart(q)
  <2>1. q.closed BY <1>5
  <2> QED BY <1>2, <1>5, <2>1, ClosedKeeps
<1> QED BY <1>3, <1>5, <1>6 DEF WireInv

\* an error of either stream keeps it,
LEMMA StreamFailsKeeps == ASSUME WireInv, NEW input \in {"open", "failed"}, StreamFails(input) PROVE WireInv'
<1>1. PICK p \in WirePipes : p = desktopPipe BY DEF WireInv
<1>2. ReadPart(p) /\ SendPart(p) BY <1>1 DEF WireInv
<1> DEFINE a == [p EXCEPT !.input = input]
           q == DisconnectWire(a)
<1>3. desktopPipe' = q BY <1>1, Zenon DEF StreamFails
<1>4. a \in WirePipes /\ SameBut(a, p) BY Zenon DEF WirePipes, SameBut
<1> HIDE DEF a
<1>5. q \in WirePipes /\ q.closed /\ SameBut(q, a) BY <1>4, DisconnectIs
<1> HIDE DEF q
<1>6. SameBut(q, p) BY <1>4, <1>5 DEF SameBut
<1>7. ReadPart(q) /\ SendPart(q) BY <1>2, <1>5, <1>6, ClosedKeeps
<1> QED BY <1>3, <1>5, <1>7 DEF WireInv

\* the end of a write keeps it: the bytes queued are those of the writes left,
LEMMA WriteEndsKeeps == ASSUME WireInv, NEW ok \in BOOLEAN, WriteEnds(ok) PROVE WireInv'
<1>1. PICK p \in WirePipes : p = desktopPipe BY DEF WireInv
<1>2. ReadPart(p) /\ SendPart(p) /\ p.writes # <<>> BY <1>1 DEF WireInv, WriteEnds
<1> DEFINE left == p.queued - Head(p.writes)
           tail == Tail(p.writes)
           done == IF ok THEN p.written + 1 ELSE p.written
           a == [p EXCEPT !.queued = left, !.writes = tail, !.written = done]
<1>3. desktopPipe' = IF ok THEN a ELSE DisconnectWire(a) BY <1>1, Zenon DEF WriteEnds
<1>4. /\ p.queued \in Nat /\ p.writes \in Seq(Nat) /\ p.written \in Nat /\ p.queued = SumOf(p.writes)
      /\ p.queued <= 2 * FrameLimit /\ FrameLimit \in Nat
      BY <1>2, WireFields, FramingAssumption DEF SendPart
<1>5. PICK h \in Nat : h = Head(p.writes) BY <1>2, <1>4, SumHead
<1>6. tail \in Seq(Nat) /\ Len(tail) = Len(p.writes) - 1 /\ SumOf(tail) \in Nat /\ p.queued = h + SumOf(tail) /\ Len(p.writes) \in Nat
      BY <1>2, <1>4, <1>5, SumHead
<1>7. left = SumOf(tail) /\ left \in Nat /\ left <= 2 * FrameLimit /\ done \in Nat
  <2> DEFINE m == SumOf(tail)
             l == p.queued
             k == p.written
  <2>1. m \in Nat /\ l = h + m /\ l \in Nat /\ l <= 2 * FrameLimit /\ k \in Nat BY <1>4, <1>6
  <2>2. left = l - h /\ done = IF ok THEN k + 1 ELSE k BY <1>5
  <2> HIDE DEF m, l, left, k, done
  <2>3. left = m /\ left \in Nat /\ left <= 2 * FrameLimit BY <2>1, <2>2, <1>4
  <2>4. done \in Nat BY <2>1, <2>2
  <2> QED BY <2>3, <2>4 DEF m
<1> HIDE DEF left, tail, done
<1>8. /\ a \in WirePipes /\ a.whole = p.whole /\ a.rest = p.rest /\ a.packets = p.packets /\ a.closed = p.closed
      /\ a.buffer = p.buffer /\ a.queued = left /\ a.writes = tail /\ a.written = done /\ a.sent = p.sent
      BY <1>6, <1>7, Zenon DEF WirePipes
<1> HIDE DEF a
<1>9. ReadPart(a)
  <2>1. PICK read \in Seq(WireBytes), later \in Seq(WireBytes) :
         /\ p.whole = (read \o later) \o p.rest
         /\ p.packets = ReadBy(read).packets
         /\ ~p.closed => later = <<>> /\ ~ReadBy(read).failed /\ p.buffer = ReadBy(read).rest BY <1>2, Zenon DEF ReadPart
  <2> QED BY <1>8, <2>1, Zenon DEF ReadPart
<1>10. a.queued = SumOf(a.writes) /\ a.queued <= 2 * FrameLimit BY <1>7, <1>8
<1>11. ok /\ ~a.closed => a.written + Len(a.writes) = AcceptedBy(a.sent)
  <2> SUFFICES ASSUME ok, ~a.closed PROVE a.written + Len(a.writes) = AcceptedBy(a.sent) OBVIOUS
  <2>1. p.written + Len(p.writes) = AcceptedBy(p.sent) BY <1>2, <1>8 DEF SendPart
  <2>2. done = p.written + 1 BY DEF done
  <2> DEFINE m == Len(p.writes)
             k == p.written
  <2>3. m \in Nat /\ k \in Nat /\ Len(tail) = m - 1 /\ done = k + 1 BY <1>4, <1>6, <2>2
  <2> HIDE DEF m, k
  <2>4. done + Len(tail) = k + m BY <2>3
  <2> QED BY <1>8, <2>1, <2>4 DEF m, k
<1>12. CASE ok
  <2>1. SendPart(a) BY <1>10, <1>11, <1>12 DEF SendPart
  <2>2. desktopPipe' = a BY <1>3, <1>12
  <2> QED BY <2>1, <2>2, <1>8, <1>9 DEF WireInv
<1>13. CASE ~ok
  <2> DEFINE q == DisconnectWire(a)
  <2>1. q \in WirePipes /\ q.closed /\ SameBut(q, a) BY <1>8, DisconnectIs
  <2>2. desktopPipe' = q BY <1>3, <1>13
  <2> HIDE DEF q
  <2>3. SendPart(q) BY <1>10, <2>1 DEF SendPart, SameBut
  <2>4. ReadPart(q)
    <3>1. PICK read \in Seq(WireBytes), later \in Seq(WireBytes) :
           /\ a.whole = (read \o later) \o a.rest
           /\ a.packets = ReadBy(read).packets BY <1>9, Zenon DEF ReadPart
    <3>2. q.whole = (read \o later) \o q.rest /\ q.packets = ReadBy(read).packets BY <2>1, <3>1 DEF SameBut
    <3> QED BY <2>1, <3>2, Zenon DEF ReadPart
  <2> QED BY <2>1, <2>2, <2>3, <2>4 DEF WireInv
<1> QED BY <1>12, <1>13

\* a message to send keeps it, whether it is refused, queued or too much,
LEMMA SendPacketKeeps == ASSUME WireInv, NEW size \in 1 .. FrameLimit + 1, SendPacket(size) PROVE WireInv'
<1>1. PICK p \in WirePipes : p = desktopPipe BY DEF WireInv
<1>2. ReadPart(p) /\ SendPart(p) BY <1>1 DEF WireInv
<1>3. FrameLimit \in Nat /\ size \in Nat BY FramingAssumption
<1>4. /\ p.sent \in Seq(Verdicts) /\ p.queued \in Nat /\ p.writes \in Seq(Nat) /\ p.written \in Nat /\ p.closed \in BOOLEAN
      BY WireFields
<1> DEFINE fits == size <= FrameLimit
           full == p.queued + size + 1 > 2 * FrameLimit
           no == Append(p.sent, "refused")
           yes == Append(p.sent, "queued")
           more == p.queued + size + 1
           writes == Append(p.writes, size + 1)
           a == [p EXCEPT !.sent = no]
           b == [p EXCEPT !.sent = yes, !.queued = more, !.writes = writes]
<1>5. desktopPipe' = IF p.closed \/ ~fits THEN a ELSE IF full THEN DisconnectWire(a) ELSE b
      BY <1>1, Zenon DEF SendPacket
<1>6. no \in Seq(Verdicts) /\ yes \in Seq(Verdicts) /\ AcceptedBy(no) = AcceptedBy(p.sent) /\ AcceptedBy(yes) = AcceptedBy(p.sent) + 1
      /\ AcceptedBy(p.sent) \in Nat
  <2>1. "refused" \in Verdicts /\ "queued" \in Verdicts BY DEF Verdicts
  <2>2. no \in Seq(Verdicts) /\ yes \in Seq(Verdicts) BY <1>4, <2>1
  <2> QED BY <1>4, <2>1, <2>2, AcceptedSnoc
<1>7. /\ more \in Nat /\ writes \in Seq(Nat) /\ SumOf(writes) = SumOf(p.writes) + (size + 1) /\ Len(writes) = Len(p.writes) + 1
      /\ Len(p.writes) \in Nat /\ SumOf(p.writes) \in Nat
  <2>1. size + 1 \in Nat BY <1>3
  <2> DEFINE k == size + 1
  <2>2. k \in Nat BY <2>1
  <2> HIDE DEF k
  <2>3. SumOf(Append(p.writes, k)) = SumOf(p.writes) + k /\ SumOf(p.writes) \in Nat BY <1>4, <2>2, SumSnoc, Zenon
  <2>4. Append(p.writes, k) \in Seq(Nat) /\ Len(Append(p.writes, k)) = Len(p.writes) + 1 /\ Len(p.writes) \in Nat BY <1>4, <2>2
  <2>5. more \in Nat BY <1>3, <1>4
  <2> QED BY <2>3, <2>4, <2>5 DEF k
<1> HIDE DEF no, yes, writes
<1>8. PICK read \in Seq(WireBytes), later \in Seq(WireBytes) :
         /\ p.whole = (read \o later) \o p.rest
         /\ p.packets = ReadBy(read).packets
         /\ ~p.closed => later = <<>> /\ ~ReadBy(read).failed /\ p.buffer = ReadBy(read).rest BY <1>2, Zenon DEF ReadPart
<1>9. /\ a \in WirePipes /\ a.whole = p.whole /\ a.rest = p.rest /\ a.packets = p.packets /\ a.closed = p.closed
      /\ a.buffer = p.buffer /\ a.queued = p.queued /\ a.writes = p.writes /\ a.written = p.written /\ a.sent = no
      BY <1>6, Zenon DEF WirePipes
<1>10. ReadPart(a) /\ SendPart(a)
  <2> HIDE DEF a
  <2>1. ReadPart(a) BY <1>8, <1>9, Zenon DEF ReadPart
  <2>2. SendPart(a) BY <1>2, <1>6, <1>9 DEF SendPart
  <2> QED BY <2>1, <2>2
<1>11. CASE p.closed \/ ~fits BY <1>5, <1>9, <1>10, <1>11 DEF WireInv
<1>12. CASE ~(p.closed \/ ~fits) /\ full
  <2> DEFINE q == DisconnectWire(a)
  <2>1. desktopPipe' = q BY <1>5, <1>12
  <2> HIDE DEF a
  <2>2. q \in WirePipes /\ q.closed /\ SameBut(q, a) BY <1>9, DisconnectIs
  <2> HIDE DEF q
  <2>3. ReadPart(q) /\ SendPart(q) BY <1>9, <1>10, <2>2, ClosedKeeps
  <2> QED BY <2>1, <2>2, <2>3 DEF WireInv
<1>13. CASE ~(p.closed \/ ~fits) /\ ~full
  <2>1. desktopPipe' = b BY <1>5, <1>13
  <2> DEFINE m == more
  <2>2. b = [p EXCEPT !.sent = yes, !.queued = m, !.writes = writes] /\ m \in Nat BY <1>7
  <2> HIDE DEF m, b
  <2>3. /\ b \in WirePipes /\ b.whole = p.whole /\ b.rest = p.rest /\ b.packets = p.packets /\ b.closed = p.closed
        /\ b.buffer = p.buffer /\ b.queued = m /\ b.writes = writes /\ b.written = p.written /\ b.sent = yes
        BY <1>6, <1>7, <2>2, Zenon DEF WirePipes
  <2>4. ReadPart(b) BY <1>8, <2>3, Zenon DEF ReadPart
  <2>5. b.queued = SumOf(b.writes)
    <3> DEFINE l == p.queued
               z == SumOf(p.writes)
    <3>1. l \in Nat /\ z = l /\ m = l + size + 1 /\ SumOf(writes) = z + (size + 1) BY <1>2, <1>4, <1>7 DEF SendPart, m
    <3> HIDE DEF l, z, m
    <3>2. m = SumOf(writes) BY <1>3, <3>1
    <3> QED BY <2>3, <3>2
  <2>6. b.queued <= 2 * FrameLimit
    <3>1. m <= 2 * FrameLimit
      <4> DEFINE l == p.queued
      <4>1. l \in Nat /\ ~(l + size + 1 > 2 * FrameLimit) /\ m = l + size + 1 BY <1>4, <1>13 DEF m
      <4> HIDE DEF l, m
      <4> QED BY <1>3, <4>1
    <3> QED BY <2>3, <3>1
  <2>7. b.written + Len(b.writes) = AcceptedBy(b.sent)
    <3> DEFINE k == p.written
               l == Len(p.writes)
               c == AcceptedBy(p.sent)
    <3>1. k + l = c BY <1>2, <1>13 DEF SendPart
    <3>2. k \in Nat /\ l \in Nat /\ c \in Nat /\ Len(writes) = l + 1 /\ AcceptedBy(yes) = c + 1 BY <1>4, <1>6, <1>7
    <3> HIDE DEF k, l, c
    <3>3. k + Len(writes) = AcceptedBy(yes) BY <3>1, <3>2
    <3> QED BY <2>3, <3>3 DEF k
  <2>8. SendPart(b) BY <2>5, <2>6, <2>7 DEF SendPart
  <2> QED BY <2>1, <2>3, <2>4, <2>8 DEF WireInv
<1> QED BY <1>11, <1>12, <1>13

\* readLines reads as the reader does, and fails also for a line under way that is too
\* long.
LEMMA ReadLinesIs ==
  ASSUME NEW t \in Seq(WireBytes)
  PROVE /\ ReadLines(t).rest = ReadBy(t).rest /\ ReadLines(t).packets = ReadBy(t).packets
        /\ ~ReadLines(t).failed => ~ReadBy(t).failed
<1>1. PICK o \in ReadStates : o = ReadBy(t) BY ReadType, NothingReadType, Zenon DEF ReadBy
<1>2. FoldLeft(TakeByte, NothingRead, t) = o BY <1>1, WireReadingIsFold DEF ReadBy
<1>3. ReadLines(t) = [o EXCEPT !.failed = o.failed \/ Len(o.rest) > FrameLimit]
      BY <1>2, Zenon DEF ReadLines, NothingRead
<1> DEFINE f == o.failed \/ Len(o.rest) > FrameLimit
<1>4. f \in BOOLEAN OBVIOUS
<1>5. ReadLines(t) = [o EXCEPT !.failed = f] BY <1>3
<1>6. o.failed => f OBVIOUS
<1> HIDE DEF f
<1>7. ReadLines(t).rest = o.rest /\ ReadLines(t).packets = o.packets /\ ReadLines(t).failed = f
      BY <1>4, <1>5 DEF ReadStates
<1> QED BY <1>1, <1>6, <1>7

\* Data, read from where the reader stopped, gives what all bytes read in one go give.
LEMMA ReadsOn ==
  ASSUME NEW read \in Seq(WireBytes), NEW data \in Seq(WireBytes), ~ReadBy(read).failed
  PROVE /\ ReadBy(read \o data).packets = ReadBy(read).packets \o ReadBy(ReadBy(read).rest \o data).packets
        /\ ReadBy(read \o data).rest = ReadBy(ReadBy(read).rest \o data).rest
        /\ ReadBy(read \o data).failed = ReadBy(ReadBy(read).rest \o data).failed
        /\ ReadBy(read \o data) \in ReadStates
<1>1. PICK o \in ReadStates : o = ReadBy(read) BY ReadType, NothingReadType, Zenon DEF ReadBy
<1>2. o.rest \in Seq(PlainBytes) /\ o.packets \in Seq(Seq(WireBytes)) /\ o.failed = FALSE
      /\ o = ReadState(o.rest, o.packets, o.failed) BY <1>1, StateOf
<1>3. PICK a \in Seq(PlainBytes) : a = o.rest BY <1>2
<1>4. PICK q \in Seq(Seq(WireBytes)) : q = o.packets BY <1>2
<1>5. o = ReadState(a, q, FALSE) BY <1>2, <1>3, <1>4, Zenon
<1>6. a \in Seq(WireBytes) BY DEF PlainBytes
<1>7. PICK d \in Seq(WireBytes) : d = read \o data
  <2>1. read \o data \in Seq(WireBytes) OBVIOUS
  <2> QED BY <2>1, Zenon
<1>8. ReadBy(d) = WireReading!Fold(o, data) BY <1>1, <1>7, WireReading!FoldConcat DEF ReadBy
<1> DEFINE y == WireReading!Fold(ReadState(a, <<>>, FALSE), data)
<1>9. y \in ReadStates /\ WireReading!Fold(ReadState(a, q, FALSE), data) = ReadState(y.rest, q \o y.packets, y.failed)
      BY ReadAfter, Zenon
<1>10. ReadBy(a \o data) = y
  <2>1. ReadBy(a \o data) = WireReading!Fold(ReadBy(a), data) BY <1>6, WireReading!FoldConcat DEF ReadBy
  <2>2. ReadBy(a) = ReadState(a, <<>>, FALSE) BY PlainRead, Zenon
  <2> QED BY <2>1, <2>2
<1> HIDE DEF y
<1>11. ReadBy(d) = ReadState(y.rest, q \o y.packets, y.failed) BY <1>5, <1>8, <1>9, Zenon
<1>12. ReadBy(d).rest = y.rest /\ ReadBy(d).packets = q \o y.packets /\ ReadBy(d).failed = y.failed
  <2> DEFINE w == q \o y.packets
  <2>1. w \in Seq(Seq(WireBytes))
    <3>1. PICK z \in Seq(Seq(WireBytes)) : z = y.packets BY <1>9, StateOf
    <3> DEFINE X == Seq(WireBytes)
    <3>2. q \in Seq(X) /\ z \in Seq(X) OBVIOUS
    <3> HIDE DEF X
    <3>3. q \o z \in Seq(X) BY <3>2
    <3> QED BY <3>1, <3>3 DEF X
  <2>2. PICK f \in BOOLEAN : f = y.failed BY <1>9, StateOf
  <2>3. PICK r \in Seq(PlainBytes) : r = y.rest BY <1>9, StateOf
  <2> HIDE DEF w
  <2>4. ReadBy(d) = ReadState(r, w, f) BY <1>11, <2>2, <2>3 DEF w
  <2>5. ReadState(r, w, f).rest = r /\ ReadState(r, w, f).packets = w /\ ReadState(r, w, f).failed = f BY <2>1, ReadStateIs
  <2> QED BY <2>2, <2>3, <2>4, <2>5 DEF w
<1>13. ReadBy(d) \in ReadStates BY ReadType, NothingReadType, Zenon DEF ReadBy
<1> QED BY <1>1, <1>3, <1>4, <1>7, <1>10, <1>12, <1>13

\* and data of any size keeps it (DesktopWire.ts, receive).
LEMMA ReceiveDataKeeps == ASSUME WireInv, NEW n \in 1 .. Len(desktopPipe.rest), ReceiveData(n) PROVE WireInv'
<1> DEFINE p == desktopPipe
           rest == p.rest
<1>1. p \in WirePipes /\ p = desktopPipe BY DEF WireInv
<1>2. ReadPart(p) /\ SendPart(p) BY <1>1 DEF WireInv
<1>3. rest \in Seq(WireBytes) /\ rest = p.rest BY <1>1, WireFields
<1>a. n \in 1 .. Len(rest) BY <1>1, <1>3
<1> DEFINE data == SubSeq(rest, 1, n)
           left == SubSeq(rest, n + 1, Len(rest))
<1>4. data \in Seq(WireBytes) /\ left \in Seq(WireBytes) /\ rest = data \o left
  <2> HIDE DEF rest, p
  <2> QED BY <1>3, <1>a
<1> DEFINE lines == ReadLines(p.buffer \o data)
           packets == p.packets \o lines.packets
           a == [p EXCEPT !.rest = left]
           b == [a EXCEPT !.buffer = lines.rest, !.packets = packets]
<1>5. desktopPipe' = IF p.closed THEN a ELSE IF lines.failed THEN DisconnectWire(b) ELSE b
  <2>1. a.packets = p.packets BY <1>1 DEF WirePipes
  <2> DEFINE emitted == [a EXCEPT !.buffer = lines.rest, !.packets = @ \o lines.packets]
  <2>2. desktopPipe' = IF p.closed THEN a ELSE IF lines.failed THEN DisconnectWire(emitted) ELSE emitted
        BY Zenon DEF ReceiveData
  <2>4. a \in WirePipes BY <1>1, <1>4, Zenon DEF WirePipes
  <2> HIDE DEF a, lines
  <2>3. emitted = b BY <2>1, <2>4 DEF WirePipes
  <2> HIDE DEF emitted, b
  <2> QED BY <2>2, <2>3
<1>6. PICK read \in Seq(WireBytes), later \in Seq(WireBytes) :
         /\ p.whole = (read \o later) \o p.rest
         /\ p.packets = ReadBy(read).packets
         /\ ~p.closed => later = <<>> /\ ~ReadBy(read).failed /\ p.buffer = ReadBy(read).rest BY <1>2, Zenon DEF ReadPart
<1> HIDE DEF data, left, lines, rest, p
<1>7. /\ a \in WirePipes /\ a.whole = p.whole /\ a.rest = left /\ a.packets = p.packets /\ a.closed = p.closed
      /\ a.buffer = p.buffer /\ a.queued = p.queued /\ a.writes = p.writes /\ a.written = p.written /\ a.sent = p.sent
      BY <1>1, <1>4, Zenon DEF WirePipes
<1> HIDE DEF a
<1>8. CASE p.closed
  <2>1. desktopPipe' = a BY <1>5, <1>8
  <2>2. PICK l \in Seq(WireBytes) : l = later \o data
    <3>1. later \o data \in Seq(WireBytes) BY <1>4
    <3> QED BY <3>1, Zenon
  <2>3. (read \o later) \o (data \o left) = (read \o l) \o left
    <3>1. (read \o later) \o (data \o left) = ((read \o later) \o data) \o left
      <4>1. PICK w \in Seq(WireBytes) : w = read \o later
        <5>1. read \o later \in Seq(WireBytes) OBVIOUS
        <5> QED BY <5>1, Zenon
      <4>3. data \in Seq(WireBytes) /\ left \in Seq(WireBytes) BY <1>4
      <4>2. (w \o data) \o left = w \o (data \o left) BY <4>3
      <4> QED BY <4>1, <4>2
    <3>2. (read \o later) \o data = read \o (later \o data) BY <1>4, SMTT(30)
    <3> QED BY <2>2, <3>1, <3>2
  <2>4. a.whole = (read \o l) \o a.rest BY <1>3, <1>4, <1>6, <1>7, <2>2, <2>3, Zenon
  <2>5. ReadPart(a) BY <1>6, <1>7, <1>8, <2>4, Zenon DEF ReadPart
  <2>6. SendPart(a) BY <1>2, <1>7 DEF SendPart
  <2> QED BY <2>1, <2>5, <2>6, <1>7 DEF WireInv
<1>9. CASE ~p.closed
  <2>1. later = <<>> /\ ~ReadBy(read).failed /\ p.buffer = ReadBy(read).rest BY <1>6, <1>9
  <2>2. p.whole = read \o (data \o left)
    <3>1. read \o <<>> = read OBVIOUS
    <3> QED BY <1>3, <1>4, <1>6, <2>1, <3>1, Zenon
  <2>3. PICK d \in Seq(WireBytes) : d = read \o data
    <3>1. read \o data \in Seq(WireBytes) BY <1>4
    <3> QED BY <3>1, Zenon
  <2>4. p.whole = d \o left
    <3>1. (read \o data) \o left = read \o (data \o left) BY <1>4, SMTT(30)
    <3> QED BY <2>2, <2>3, <3>1
  <2>5. PICK t \in Seq(WireBytes) : t = p.buffer \o data
    <3>1. p.buffer \in Seq(WireBytes) BY <1>1, WireFields
    <3>2. p.buffer \o data \in Seq(WireBytes) BY <1>4, <3>1
    <3> QED BY <3>2, Zenon
  <2>6. lines.rest = ReadBy(t).rest /\ lines.packets = ReadBy(t).packets /\ (~lines.failed => ~ReadBy(t).failed)
        BY <2>5, ReadLinesIs, Zenon DEF lines
  <2>7. /\ ReadBy(d).packets = p.packets \o ReadBy(t).packets /\ ReadBy(d).rest = ReadBy(t).rest
        /\ ReadBy(d).failed = ReadBy(t).failed /\ ReadBy(d) \in ReadStates
    <3>1. t = ReadBy(read).rest \o data BY <2>1, <2>5
    <3>2. /\ ReadBy(read \o data).packets = ReadBy(read).packets \o ReadBy(ReadBy(read).rest \o data).packets
          /\ ReadBy(read \o data).rest = ReadBy(ReadBy(read).rest \o data).rest
          /\ ReadBy(read \o data).failed = ReadBy(ReadBy(read).rest \o data).failed
          /\ ReadBy(read \o data) \in ReadStates BY <1>4, <2>1, ReadsOn, Zenon
    <3> QED BY <1>6, <2>3, <3>1, <3>2
  <2>8. packets = ReadBy(d).packets /\ lines.rest = ReadBy(d).rest BY <2>6, <2>7
  <2>9. packets \in Seq(Seq(WireBytes)) /\ lines.rest \in Seq(WireBytes)
    <3>1. ReadBy(d).packets \in Seq(Seq(WireBytes)) /\ ReadBy(d).rest \in Seq(PlainBytes) BY <2>7, StateOf, Zenon
    <3>2. ReadBy(d).rest \in Seq(WireBytes) BY <3>1 DEF PlainBytes
    <3> HIDE DEF packets
    <3> QED BY <2>8, <3>1, <3>2
  <2> HIDE DEF packets
  <2>10. PICK r \in Seq(WireBytes) : r = lines.rest BY <2>9
  <2>11. PICK k \in Seq(Seq(WireBytes)) : k = packets BY <2>9
  <2>12. b = [a EXCEPT !.buffer = r, !.packets = k] BY <2>10, <2>11
  <2> HIDE DEF b
  <2>13. /\ b \in WirePipes /\ b.whole = a.whole /\ b.rest = a.rest /\ b.packets = k /\ b.closed = a.closed
        /\ b.buffer = r /\ b.queued = a.queued /\ b.writes = a.writes /\ b.written = a.written /\ b.sent = a.sent
        BY <1>7, <2>12, Zenon DEF WirePipes
  <2>14. SendPart(b) BY <1>2, <1>7, <2>13 DEF SendPart
  <2> DEFINE e == <<>>
  <2>15. e \in Seq(WireBytes) /\ d \o e = d OBVIOUS
  <2>16. b.whole = (d \o e) \o b.rest BY <1>7, <2>4, <2>13, <2>15, Zenon
  <2>17. b.packets = ReadBy(d).packets BY <2>8, <2>11, <2>13
  <2>18. CASE ~lines.failed
    <3>1. desktopPipe' = b BY <1>5, <1>9, <2>18
    <3>2. ~ReadBy(d).failed /\ b.buffer = ReadBy(d).rest BY <2>6, <2>7, <2>8, <2>10, <2>13, <2>18
    <3>3. ReadPart(b)
      <4> HIDE DEF e
      <4> QED BY <2>15, <2>16, <2>17, <3>2, Zenon DEF ReadPart, e
    <3> QED BY <3>1, <3>3, <2>13, <2>14 DEF WireInv
  <2>19. CASE lines.failed
    <3> DEFINE q == DisconnectWire(b)
    <3>1. desktopPipe' = q BY <1>5, <1>9, <2>19
    <3>2. q \in WirePipes /\ q.closed /\ SameBut(q, b) BY <2>13, DisconnectIs
    <3> HIDE DEF q, e
    <3>3. q.whole = (d \o e) \o q.rest /\ q.packets = ReadBy(d).packets BY <2>16, <2>17, <3>2 DEF SameBut
    <3>4. ReadPart(q) BY <2>15, <3>2, <3>3, Zenon DEF ReadPart
    <3>5. SendPart(q) BY <2>14, <3>2 DEF SendPart, SameBut
    <3> QED BY <3>1, <3>2, <3>4, <3>5 DEF WireInv
  <2> QED BY <2>18, <2>19
<1> QED BY <1>8, <1>9

\* The records of the peer, the sequences under way, and what push returns.
BytePlaces == Nat \X Nat
Partials == [id : Nat, count : Nat, length : Nat, next : Nat, data : Seq(BytePlaces)]
ChunkStates == Partials \cup {NoChunks}
ChunkRecords == [chunk : {TRUE}, id : Nat, index : Nat, count : Nat, length : Nat, size : Nat, base64 : BOOLEAN, data : Seq(BytePlaces)]
PlainRecords == [chunk : {FALSE}, data : Seq(BytePlaces)]
PeerRecords == ChunkRecords \cup PlainRecords
Accepts(p, c) ==
  /\ ValidChunk(c) /\ WithinLimits(c) /\ DecodesToBytes(c)
  /\ p = NoChunks => c.index = 0
  /\ p # NoChunks => Continues(p, c)
PartialOf(id, count, length, next, data) == [id |-> id, count |-> count, length |-> length, next |-> next, data |-> data]
DataOf(p) == IF p = NoChunks THEN <<>> ELSE p.data
Grown(p, c) == PartialOf(c.id, c.count, c.length, c.index + 1, DataOf(p) \o c.data)
GrowBy(p, more) == [p EXCEPT !.data = @ \o more, !.next = @ + 1]
AssembledTo(p, frames, t) == [pending |-> p, yields |-> frames, throws |-> t]

\* A sequence under way is not the absence of one.
LEMMA PartialIsSome == ASSUME NEW p \in Partials PROVE p # NoChunks
BY DEF Partials, NoChunks

\* Its fields.
LEMMA PartialFields ==
  ASSUME NEW id, NEW count, NEW length, NEW next, NEW data
  PROVE LET p == PartialOf(id, count, length, next, data) IN
        p.id = id /\ p.count = count /\ p.length = length /\ p.next = next /\ p.data = data
BY DEF PartialOf

\* The fields of what push returns.
LEMMA AssembledFields ==
  ASSUME NEW a, NEW p, NEW frames, NEW t, a = AssembledTo(p, frames, t)
  PROVE a.pending = p /\ a.yields = frames /\ a.throws = t
BY DEF AssembledTo

\* A sequence under way is made of its fields.
LEMMA PartialIs == ASSUME NEW p \in Partials
  PROVE /\ p = PartialOf(p.id, p.count, p.length, p.next, p.data)
        /\ p.id \in Nat /\ p.count \in Nat /\ p.length \in Nat /\ p.next \in Nat /\ p.data \in Seq(BytePlaces)
BY DEF Partials, PartialOf

\* The fields of a chunk.
LEMMA RecordFields == ASSUME NEW c \in ChunkRecords
  PROVE /\ c.chunk = TRUE /\ c.base64 \in BOOLEAN
        /\ c.id \in Nat /\ c.index \in Nat /\ c.count \in Nat /\ c.length \in Nat /\ c.size \in Nat /\ c.data \in Seq(BytePlaces)
BY Zenon DEF ChunkRecords

\* The fields of a plain record.
LEMMA PlainFields == ASSUME NEW c \in PlainRecords PROVE c.chunk = FALSE /\ c.data \in Seq(BytePlaces)
BY Zenon DEF PlainRecords

\* What has been gathered is a sequence of bytes.
LEMMA DataType == ASSUME NEW p \in ChunkStates PROVE DataOf(p) \in Seq(BytePlaces)
<1>1. CASE p = NoChunks BY <1>1 DEF DataOf
<1>2. CASE p # NoChunks
  <2>1. p.data \in Seq(BytePlaces) BY <1>2, PartialIs DEF ChunkStates
  <2> QED BY <1>2, <2>1 DEF DataOf
<1> QED BY <1>1, <1>2

\* push, of a plain record: a frame, or an error within a sequence (RpcChunkAssembler.ts:27).
LEMMA AssemblePlain ==
  ASSUME NEW p, NEW c, ~c.chunk
  PROVE /\ p = NoChunks => AssembleChunk(p, c) = AssembledTo(p, <<c.data>>, FALSE)
        /\ p # NoChunks => AssembleChunk(p, c) = AssembledTo(p, <<>>, TRUE)
<1>1. AssembleChunk(p, c) = [pending |-> p, yields |-> IF p = NoChunks THEN <<c.data>> ELSE <<>>, throws |-> p # NoChunks]
      BY Zenon DEF AssembleChunk
<1>2. CASE p = NoChunks
  <2>1. (p # NoChunks) = FALSE BY <1>2
  <2> QED BY <1>1, <1>2, <2>1, Zenon DEF AssembledTo
<1>3. CASE p # NoChunks
  <2>1. (p # NoChunks) = TRUE BY <1>3
  <2> QED BY <1>1, <1>3, <2>1, Zenon DEF AssembledTo
<1> QED BY <1>2, <1>3, Zenon

\* push, of a chunk that is not accepted: the sequence under way stays and nothing is
\* yielded.
LEMMA AssembleRefused ==
  ASSUME NEW p \in ChunkStates, NEW c \in ChunkRecords, ~Accepts(p, c)
  PROVE AssembleChunk(p, c) = AssembledTo(p, <<>>, TRUE)
<1> DEFINE begun == Begun(p, c)
<1>0. c.chunk = TRUE BY RecordFields, Zenon
<1>1. CASE ~ValidChunk(c) \/ ~WithinLimits(c) \/ ~DecodesToBytes(c) \/ (p = NoChunks /\ c.index # 0)
      BY <1>0, <1>1, Zenon DEF AssembleChunk, AssembledTo
<1>2. CASE ~(~ValidChunk(c) \/ ~WithinLimits(c) \/ ~DecodesToBytes(c) \/ (p = NoChunks /\ c.index # 0))
  <2>1. p # NoChunks /\ ~Continues(p, c) BY <1>2 DEF Accepts
  <2>2. begun = p BY <2>1, Zenon DEF Begun
  <2> QED BY <1>0, <1>2, <2>1, <2>2, Zenon DEF AssembleChunk, AssembledTo
<1> QED BY <1>1, <1>2, Zenon

\* A sequence under way with one chunk more, field by field.
LEMMA GrowsBy ==
  ASSUME NEW id, NEW count, NEW length, NEW next, NEW data, NEW more
  PROVE GrowBy(PartialOf(id, count, length, next, data), more)
        = PartialOf(id, count, length, next + 1, data \o more)
<1> DEFINE d == data \o more
           n == next + 1
           b == PartialOf(id, count, length, next, data)
<1>1. b.data = data /\ b.next = next BY PartialFields
<1>2. [b EXCEPT !.data = @ \o more, !.next = @ + 1] = [b EXCEPT !.data = d, !.next = n] BY <1>1, Zenon
<1> HIDE DEF d, n
<1> DEFINE x == [b EXCEPT !.data = d]
<1>a. [b EXCEPT !.data = d, !.next = n] = [x EXCEPT !.next = n] BY Zenon
<1>b. x = PartialOf(id, count, length, next, d) BY DEF PartialOf
<1> HIDE DEF x
<1>c. [x EXCEPT !.next = n] = PartialOf(id, count, length, n, d) BY <1>b DEF PartialOf
<1>3. [b EXCEPT !.data = d, !.next = n] = PartialOf(id, count, length, n, d) BY <1>a, <1>c, Zenon
<1> HIDE DEF b
<1>4. [b EXCEPT !.data = @ \o more, !.next = @ + 1] = PartialOf(id, count, length, n, d) BY <1>2, <1>3, Zenon
<1> QED BY <1>4, Zenon DEF GrowBy, d, n, b

\* An accepted chunk continues what is under way, or begins it.
LEMMA BegunIs ==
  ASSUME NEW p \in ChunkStates, NEW c \in ChunkRecords, Accepts(p, c)
  PROVE Begun(p, c) = PartialOf(c.id, c.count, c.length, c.index, DataOf(p))
<1>1. CASE p = NoChunks
  <2>1. c.index = 0 BY <1>1 DEF Accepts
  <2> QED BY <1>1, <2>1, Zenon DEF Begun, PartialOf, DataOf
<1>2. CASE p # NoChunks
  <2>1. p.id = c.id /\ p.count = c.count /\ p.length = c.length /\ p.next = c.index BY <1>2 DEF Accepts, Continues
  <2>2. p = PartialOf(p.id, p.count, p.length, p.next, p.data) BY <1>2, PartialIs DEF ChunkStates
  <2>3. Begun(p, c) = p /\ DataOf(p) = p.data BY <1>2, Zenon DEF Begun, DataOf
  <2> QED BY <2>1, <2>2, <2>3, Zenon
<1> QED BY <1>1, <1>2

\* What an accepted chunk makes of the sequence under way.
LEMMA GrownIs ==
  ASSUME NEW p \in ChunkStates, NEW c \in ChunkRecords, Accepts(p, c)
  PROVE /\ Continues(Begun(p, c), c)
        /\ [Begun(p, c) EXCEPT !.data = @ \o c.data, !.next = @ + 1] = Grown(p, c)
        /\ Grown(p, c) \in Partials
        /\ Grown(p, c).id = c.id /\ Grown(p, c).count = c.count /\ Grown(p, c).length = c.length
        /\ Grown(p, c).next = c.index + 1 /\ Grown(p, c).data = DataOf(p) \o c.data
<1>1. Begun(p, c) = PartialOf(c.id, c.count, c.length, c.index, DataOf(p)) BY BegunIs
<1>2. Continues(Begun(p, c), c) BY <1>1, PartialFields DEF Continues
<1>3. [Begun(p, c) EXCEPT !.data = @ \o c.data, !.next = @ + 1] = Grown(p, c)
  <2> DEFINE i == c.index
             e == DataOf(p)
             b == PartialOf(c.id, c.count, c.length, i, e)
  <2>1. Begun(p, c) = b BY <1>1, Zenon
  <2>2. [b EXCEPT !.data = @ \o c.data, !.next = @ + 1] = PartialOf(c.id, c.count, c.length, i + 1, e \o c.data)
    <3>1. PICK id : id = c.id OBVIOUS
    <3>2. PICK count : count = c.count OBVIOUS
    <3>3. PICK length : length = c.length OBVIOUS
    <3>4. PICK more : more = c.data OBVIOUS
    <3> HIDE DEF i, e
    <3>5. GrowBy(PartialOf(id, count, length, i, e), more) = PartialOf(id, count, length, i + 1, e \o more)
          BY GrowsBy
    <3> QED BY <3>1, <3>2, <3>3, <3>4, <3>5, Zenon DEF GrowBy
  <2> QED BY <2>1, <2>2, Zenon DEF Grown
<1> DEFINE d == DataOf(p) \o c.data
           n == c.index + 1
<1>4. d \in Seq(BytePlaces) /\ n \in Nat
  <2>1. PICK x \in Seq(BytePlaces) : x = DataOf(p) BY DataType
  <2>2. PICK y \in Seq(BytePlaces) : y = c.data BY RecordFields, Zenon
  <2>3. x \o y \in Seq(BytePlaces) OBVIOUS
  <2>4. d \in Seq(BytePlaces) BY <2>1, <2>2, <2>3, Zenon
  <2>5. PICK i \in Nat : i = c.index BY RecordFields, Zenon
  <2>6. n \in Nat BY <2>5
  <2> QED BY <2>4, <2>6
<1>5. Grown(p, c) = PartialOf(c.id, c.count, c.length, n, d) BY Zenon DEF Grown
<1> HIDE DEF d, n
<1>6. Grown(p, c) \in Partials
  <2>1. c.id \in Nat /\ c.count \in Nat /\ c.length \in Nat BY RecordFields, Zenon
  <2> QED BY <1>4, <1>5, <2>1 DEF Partials, PartialOf
<1>7. /\ Grown(p, c).id = c.id /\ Grown(p, c).count = c.count /\ Grown(p, c).length = c.length
      /\ Grown(p, c).next = n /\ Grown(p, c).data = d BY <1>5, PartialFields
<1> QED BY <1>2, <1>3, <1>6, <1>7, Zenon DEF d, n

\* push, of an accepted chunk, case by case.
LEMMA AssembleAccepted ==
  ASSUME NEW p \in ChunkStates, NEW c \in ChunkRecords, Accepts(p, c)
  PROVE LET g == Grown(p, c) a == AssembleChunk(p, c) IN
        /\ Len(g.data) > g.length => a = AssembledTo(g, <<>>, TRUE)
        /\ Len(g.data) <= g.length /\ g.next < g.count => a = AssembledTo(g, <<>>, FALSE)
        /\ g.next >= g.count /\ Len(g.data) < g.length => a = AssembledTo(g, <<>>, TRUE)
        /\ g.next >= g.count /\ Len(g.data) = g.length =>
              a = IF IsObject(g.data) THEN AssembledTo(NoChunks, <<g.data>>, FALSE) ELSE AssembledTo(NoChunks, <<>>, TRUE)
<1> DEFINE g == Grown(p, c)
           a == AssembleChunk(p, c)
<1>0. c.chunk = TRUE BY RecordFields, Zenon
<1>1. Continues(Begun(p, c), c) /\ [Begun(p, c) EXCEPT !.data = @ \o c.data, !.next = @ + 1] = g /\ g \in Partials BY GrownIs, Zenon
<1>2. ~(~ValidChunk(c) \/ ~WithinLimits(c) \/ ~DecodesToBytes(c) \/ (p = NoChunks /\ c.index # 0)) BY DEF Accepts
<1> HIDE DEF g
<1>3. a = IF Len(g.data) > g.length THEN AssembledTo(g, <<>>, TRUE)
          ELSE IF g.next < g.count THEN AssembledTo(g, <<>>, FALSE)
          ELSE IF Len(g.data) # g.length THEN AssembledTo(g, <<>>, TRUE)
          ELSE IF ~IsObject(g.data) THEN AssembledTo(NoChunks, <<>>, TRUE)
          ELSE AssembledTo(NoChunks, <<g.data>>, FALSE)
      BY <1>0, <1>1, <1>2, Zenon DEF AssembleChunk, AssembledTo
<1>4. PICK l \in Nat : l = Len(g.data)
  <2>1. PICK d \in Seq(BytePlaces) : d = g.data BY <1>1, PartialIs, Zenon
  <2>2. Len(d) \in Nat OBVIOUS
  <2> QED BY <2>1, <2>2
<1>5. PICK k \in Nat : k = g.length BY <1>1, PartialIs, Zenon
<1>6. PICK n \in Nat : n = g.next BY <1>1, PartialIs, Zenon
<1>7. PICK m \in Nat : m = g.count BY <1>1, PartialIs, Zenon
<1> HIDE DEF a
<1>8. a = IF l > k THEN AssembledTo(g, <<>>, TRUE)
          ELSE IF n < m THEN AssembledTo(g, <<>>, FALSE)
          ELSE IF l # k THEN AssembledTo(g, <<>>, TRUE)
          ELSE IF ~IsObject(g.data) THEN AssembledTo(NoChunks, <<>>, TRUE)
          ELSE AssembledTo(NoChunks, <<g.data>>, FALSE) BY <1>3, <1>4, <1>5, <1>6, <1>7, Zenon
<1> DEFINE o1 == AssembledTo(g, <<>>, TRUE)
           o2 == AssembledTo(g, <<>>, FALSE)
           o3 == AssembledTo(NoChunks, <<>>, TRUE)
           o4 == AssembledTo(NoChunks, <<g.data>>, FALSE)
           obj == IsObject(g.data)
<1>9. a = IF l > k THEN o1 ELSE IF n < m THEN o2 ELSE IF l # k THEN o1 ELSE IF ~obj THEN o3 ELSE o4 BY <1>8, Zenon
<1> HIDE DEF o1, o2, o3, o4, obj
<1>10. /\ l > k => a = o1
       /\ l <= k /\ n < m => a = o2
       /\ n >= m /\ l < k => a = o1
       /\ n >= m /\ l = k => a = IF obj THEN o4 ELSE o3 BY <1>9
<1> QED BY <1>4, <1>5, <1>6, <1>7, <1>10, Zenon DEF o1, o2, o3, o4, obj, a, g

\* push yields frames, keeps a sequence or none, and without an error the sequence is
\* within its length and the limit.
LEMMA AssembleShape ==
  ASSUME NEW p \in ChunkStates, NEW c \in PeerRecords
  PROVE \E q \in ChunkStates, y \in Seq(Seq(BytePlaces)), t \in BOOLEAN :
           /\ AssembleChunk(p, c) = AssembledTo(q, y, t)
           /\ ~t /\ q # NoChunks => Len(q.data) <= q.length /\ q.length <= LogicalLimit
<1> DEFINE a == AssembleChunk(p, c)
<1>1. CASE c \in PlainRecords
  <2>1. ~c.chunk /\ c.data \in Seq(BytePlaces) BY <1>1, PlainFields, Zenon
  <2>2. /\ p = NoChunks => a = AssembledTo(p, <<c.data>>, FALSE)
        /\ p # NoChunks => a = AssembledTo(p, <<>>, TRUE) BY <2>1, AssemblePlain, Zenon
  <2> DEFINE y == <<c.data>>
             e == <<>>
  <2>3. y \in Seq(Seq(BytePlaces)) /\ e \in Seq(Seq(BytePlaces)) BY <2>1
  <2> HIDE DEF y, e, a
  <2>4. p = NoChunks => a = AssembledTo(p, y, FALSE) BY <2>2 DEF y
  <2>5. p # NoChunks => a = AssembledTo(p, e, TRUE) BY <2>2 DEF e
  <2>6. FALSE \in BOOLEAN /\ TRUE \in BOOLEAN OBVIOUS
  <2> QED BY <2>3, <2>4, <2>5, <2>6, Zenon DEF a
<1>2. CASE c \in ChunkRecords /\ ~Accepts(p, c)
  <2>1. a = AssembledTo(p, <<>>, TRUE) BY <1>2, AssembleRefused, Zenon
  <2>2. <<>> \in Seq(Seq(BytePlaces)) /\ TRUE \in BOOLEAN OBVIOUS
  <2> QED BY <2>1, <2>2, Zenon
<1>3. CASE c \in ChunkRecords /\ Accepts(p, c)
  <2> DEFINE g == Grown(p, c)
  <2>1. g \in Partials /\ g.length = c.length BY <1>3, GrownIs, Zenon
  <2>2. g.length <= LogicalLimit BY <1>3, <2>1 DEF Accepts, WithinLimits
  <2>3. g \in ChunkStates /\ NoChunks \in ChunkStates BY <2>1 DEF ChunkStates
  <2>4. /\ Len(g.data) > g.length => a = AssembledTo(g, <<>>, TRUE)
        /\ Len(g.data) <= g.length /\ g.next < g.count => a = AssembledTo(g, <<>>, FALSE)
        /\ g.next >= g.count /\ Len(g.data) < g.length => a = AssembledTo(g, <<>>, TRUE)
        /\ g.next >= g.count /\ Len(g.data) = g.length =>
              a = IF IsObject(g.data) THEN AssembledTo(NoChunks, <<g.data>>, FALSE) ELSE AssembledTo(NoChunks, <<>>, TRUE)
        BY <1>3, AssembleAccepted, Zenon
  <2> HIDE DEF g, a
  <2>5. PICK d \in Seq(BytePlaces) : d = g.data BY <2>1, PartialIs
  <2>6. <<d>> \in Seq(Seq(BytePlaces)) /\ <<>> \in Seq(Seq(BytePlaces)) /\ Len(d) \in Nat OBVIOUS
  <2>7. g.length \in Nat /\ g.next \in Nat /\ g.count \in Nat BY <2>1, PartialIs
  <2>8. \/ a = AssembledTo(g, <<>>, TRUE)
        \/ a = AssembledTo(g, <<>>, FALSE) /\ Len(g.data) <= g.length
        \/ a = AssembledTo(NoChunks, <<>>, TRUE)
        \/ a = AssembledTo(NoChunks, <<d>>, FALSE)
    <3>1. CASE Len(d) > g.length BY <3>1, <2>4, <2>5
    <3>2. CASE Len(d) <= g.length /\ g.next < g.count BY <3>2, <2>4, <2>5, Zenon
    <3>3. CASE g.next >= g.count /\ Len(d) < g.length BY <3>3, <2>4, <2>5
    <3>4. CASE g.next >= g.count /\ Len(d) = g.length
      <4>1. a = IF IsObject(g.data) THEN AssembledTo(NoChunks, <<d>>, FALSE) ELSE AssembledTo(NoChunks, <<>>, TRUE) BY <3>4, <2>4, <2>5, Zenon
      <4> QED BY <4>1, Zenon
    <3>5. \/ Len(d) > g.length
          \/ Len(d) <= g.length /\ g.next < g.count
          \/ g.next >= g.count /\ Len(d) < g.length
          \/ g.next >= g.count /\ Len(d) = g.length
      <4>1. PICK l \in Nat : l = Len(d) BY <2>6
      <4>2. \A x, y, z \in Nat : l > x \/ (l <= x /\ y < z) \/ (y >= z /\ l < x) \/ (y >= z /\ l = x) BY <4>1
      <4> QED BY <2>7, <4>1, <4>2
    <3> QED BY <3>1, <3>2, <3>3, <3>4, <3>5, Zenon
  <2>9. TRUE \in BOOLEAN /\ FALSE \in BOOLEAN OBVIOUS
  <2> QED BY <2>2, <2>3, <2>6, <2>8, <2>9, Zenon DEF a
<1> QED BY <1>1, <1>2, <1>3 DEF PeerRecords

-----------------------------------------------------------------------------
\* The bytes of a writing.
DatasOf(r) == [i \in DOMAIN r |-> r[i].data]

\* A record of the peer carries bytes,
LEMMA PeerData == ASSUME NEW c \in PeerRecords PROVE c.data \in Seq(BytePlaces)
BY RecordFields, PlainFields, Zenon DEF PeerRecords

\* a writing carries bytes at each place,
LEMMA DatasType == ASSUME NEW r \in Seq(PeerRecords) PROVE DatasOf(r) \in Seq(Seq(BytePlaces))
<1>1. DOMAIN r = 1 .. Len(r) /\ Len(r) \in Nat OBVIOUS
<1>2. \A i \in 1 .. Len(r) : r[i].data \in Seq(BytePlaces)
  <2> TAKE i \in 1 .. Len(r)
  <2>1. r[i] \in PeerRecords OBVIOUS
  <2> QED BY <2>1, PeerData
<1>3. DatasOf(r) = [i \in 1 .. Len(r) |-> r[i].data] BY <1>1, Zenon DEF DatasOf
<1> QED BY <1>1, <1>2, <1>3, TableIsSeq

\* and bytes altogether.
LEMMA BytesType == ASSUME NEW r \in Seq(PeerRecords) PROVE BytesOf(r) \in Seq(BytePlaces)
<1>1. BytesOf(r) = FlattenSeq(DatasOf(r)) BY Zenon DEF BytesOf, DatasOf
<1> QED BY <1>1, DatasType, FlattenType

\* An empty writing has no bytes,
LEMMA BytesEmpty == BytesOf(<<>>) = <<>>
<1>1. DatasOf(<<>>) = <<>> BY DEF DatasOf
<1>2. BytesOf(<<>>) = FlattenSeq(DatasOf(<<>>)) BY Zenon DEF BytesOf, DatasOf
<1> QED BY <1>1, <1>2, FlattenEmpty

\* one with a record more has its bytes too.
LEMMA BytesSnoc ==
  ASSUME NEW r \in Seq(PeerRecords), NEW c \in PeerRecords
  PROVE BytesOf(Append(r, c)) = BytesOf(r) \o c.data
<1> DEFINE s == Append(r, c)
<1>1. s \in Seq(PeerRecords) /\ Len(s) = Len(r) + 1 /\ Len(r) \in Nat /\ s[Len(r) + 1] = c
      /\ \A i \in 1 .. Len(r) : s[i] = r[i] OBVIOUS
<1>2. BytesOf(s) = FlattenSeq(DatasOf(s)) /\ BytesOf(r) = FlattenSeq(DatasOf(r)) BY Zenon DEF BytesOf, DatasOf
<1>3. DatasOf(s) = Append(DatasOf(r), c.data)
  <2>1. DatasOf(r) \in Seq(Seq(BytePlaces)) BY DatasType
  <2>2. DOMAIN r = 1 .. Len(r) /\ DOMAIN s = 1 .. Len(r) + 1 BY <1>1
  <2>3. Len(DatasOf(r)) = Len(r) BY <2>2, <1>1 DEF DatasOf
  <2>4. Append(DatasOf(r), c.data) = [i \in 1 .. Len(r) + 1 |-> IF i = Len(r) + 1 THEN c.data ELSE DatasOf(r)[i]]
        BY <2>1, <2>3, AppendIs
  <2>5. \A i \in 1 .. Len(r) + 1 : s[i].data = IF i = Len(r) + 1 THEN c.data ELSE DatasOf(r)[i]
    <3> SUFFICES ASSUME NEW i \in 1 .. Len(r) + 1 PROVE s[i].data = IF i = Len(r) + 1 THEN c.data ELSE DatasOf(r)[i]
        OBVIOUS
    <3>1. CASE i = Len(r) + 1 BY <1>1, <3>1
    <3>2. CASE i # Len(r) + 1
      <4>1. i \in 1 .. Len(r) BY <1>1, <3>2
      <4>2. DatasOf(r)[i] = r[i].data BY <2>2, <4>1 DEF DatasOf
      <4>3. s[i] = r[i] BY <1>1, <4>1
      <4> QED BY <3>2, <4>2, <4>3
    <3> QED BY <3>1, <3>2
  <2>6. DatasOf(s) = [i \in 1 .. Len(r) + 1 |-> s[i].data] BY <2>2, Zenon DEF DatasOf
  <2> HIDE DEF s
  <2> QED BY <2>4, <2>5, <2>6, Zenon
<1>4. c.data \in Seq(BytePlaces) /\ DatasOf(r) \in Seq(Seq(BytePlaces)) BY PeerData, DatasType
<1>5. FlattenSeq(Append(DatasOf(r), c.data)) = FlattenSeq(DatasOf(r)) \o c.data BY <1>4, FlattenSnoc, Zenon
<1> QED BY <1>2, <1>3, <1>5

\* The bytes of the first i records of a frame.
FirstBytes(f, i) == BytesOf(SubSeq(f, 1, i))

\* The bytes up to a record are those before it and its own,
LEMMA FirstBytesGrow ==
  ASSUME NEW f \in Seq(PeerRecords), NEW i \in 1 .. Len(f)
  PROVE /\ FirstBytes(f, i) = FirstBytes(f, i - 1) \o f[i].data
        /\ FirstBytes(f, i) \in Seq(BytePlaces) /\ FirstBytes(f, i - 1) \in Seq(BytePlaces)
<1>1. SubSeq(f, 1, i) = Append(SubSeq(f, 1, i - 1), f[i]) OBVIOUS
<1>2. SubSeq(f, 1, i - 1) \in Seq(PeerRecords) /\ f[i] \in PeerRecords /\ SubSeq(f, 1, i) \in Seq(PeerRecords) OBVIOUS
<1> QED BY <1>1, <1>2, BytesSnoc, BytesType, Zenon DEF FirstBytes

\* none before the first and all at the last.
LEMMA FirstBytesEnds ==
  ASSUME NEW f \in Seq(PeerRecords)
  PROVE FirstBytes(f, 0) = <<>> /\ FirstBytes(f, Len(f)) = BytesOf(f)
<1>1. SubSeq(f, 1, 0) = <<>> /\ SubSeq(f, 1, Len(f)) = f OBVIOUS
<1> QED BY <1>1, BytesEmpty, Zenon DEF FirstBytes

\* A frame named m is one plain record, or chunks that agree on its name, count and length
\* and are numbered in order.  The two frames of the pipe have different names.
ChunkAt(c, f, m, i) ==
  c \in ChunkRecords /\ c.id = m /\ c.index = i - 1 /\ c.count = Len(f) /\ c.length = f[1].length
WrittenAs(f, m) ==
  /\ f \in Seq(PeerRecords) /\ Len(f) # 0
  /\ \/ Len(f) = 1 /\ f[1] \in PlainRecords
     \/ \A i \in 1 .. Len(f) : ChunkAt(f[i], f, m, i)
NameOf(k, m) == IF k = 1 THEN 1 ELSE m
TwoFrames(fs, m) == m \in {2, OddFrame} /\ \A k \in 1 .. 2 : WrittenAs(fs[k], NameOf(k, m))
\* The sequence under way is the beginning of the frame f, within the limits; or there is
\* none.
Continuing(p, f) ==
  /\ p \in Partials /\ f[1] \in ChunkRecords /\ Len(f) >= 2 /\ p.id = f[1].id /\ p.count = Len(f) /\ p.length = f[1].length
  /\ p.next \in 1 .. Len(f) /\ p.data = FirstBytes(f, p.next) /\ \A i \in 1 .. p.next : WithinLimits(f[i])
RightSoFar(p, fs) == p = NoChunks \/ \E k \in 1 .. 2 : Continuing(p, fs[k])

\* In a frame with one chunk all records are chunks.
LEMMA ChunksOf ==
  ASSUME NEW f, NEW m, WrittenAs(f, m), NEW i \in 1 .. Len(f), f[i] \in ChunkRecords
  PROVE \A j \in 1 .. Len(f) : ChunkAt(f[j], f, m, j)
<1>1. CASE Len(f) = 1 /\ f[1] \in PlainRecords
  <2>1. i = 1 BY <1>1
  <2> QED BY <1>1, <2>1, RecordFields, PlainFields, Zenon
<1>2. CASE \A j \in 1 .. Len(f) : ChunkAt(f[j], f, m, j) BY <1>2
<1> QED BY <1>1, <1>2 DEF WrittenAs

\* A chunk of a frame that is accepted continues that very frame, at its place.
LEMMA AcceptedFollows ==
  ASSUME NEW fs, NEW m, TwoFrames(fs, m), NEW p \in ChunkStates, RightSoFar(p, fs), NEW k \in 1 .. 2, NEW i \in 1 .. Len(fs[k]),
         fs[k][i] \in ChunkRecords, Accepts(p, fs[k][i])
  PROVE LET g == Grown(p, fs[k][i]) IN Continuing(g, fs[k]) /\ g.next = i
<1> DEFINE n == NameOf(k, m)
<1>1. PICK f \in Seq(PeerRecords) : f = fs[k] /\ WrittenAs(f, n) BY DEF TwoFrames, WrittenAs
<1>2. PICK c \in ChunkRecords : c = f[i] BY <1>1
<1>3. i \in 1 .. Len(f) /\ Len(f) \in Nat BY <1>1
<1>4. \A j \in 1 .. Len(f) : ChunkAt(f[j], f, n, j) BY <1>1, <1>2, <1>3, ChunksOf
<1>5. c.id = n /\ c.index = i - 1 /\ c.count = Len(f) /\ c.length = f[1].length BY <1>2, <1>3, <1>4 DEF ChunkAt
<1>6. Accepts(p, c) BY <1>1, <1>2
<1> DEFINE g == Grown(p, c)
<1>7. g \in Partials /\ g.id = c.id /\ g.count = c.count /\ g.length = c.length /\ g.next = c.index + 1
      /\ g.data = DataOf(p) \o c.data BY <1>6, GrownIs, Zenon
<1>8. Len(f) >= 2 /\ WithinLimits(f[i]) BY <1>2, <1>5, <1>6 DEF Accepts, ValidChunk
<1>9. f[1] \in ChunkRecords /\ f[1].id = n
  <2>1. 1 \in 1 .. Len(f) BY <1>8, <1>3
  <2> QED BY <1>4, <2>1 DEF ChunkAt
<1>10. DataOf(p) = FirstBytes(f, i - 1) /\ \A j \in 1 .. i - 1 : WithinLimits(f[j])
  <2>1. CASE p = NoChunks
    <3>1. i = 1 BY <1>3, <1>5, <1>6, <2>1 DEF Accepts
    <3>2. FirstBytes(f, 0) = <<>> BY FirstBytesEnds
    <3> QED BY <2>1, <3>1, <3>2 DEF DataOf
  <2>2. CASE p # NoChunks
    <3>1. PICK l \in 1 .. 2 : Continuing(p, fs[l]) BY <2>2 DEF RightSoFar
    <3>2. Continues(p, c) BY <1>6, <2>2 DEF Accepts
    <3>3. p.id = n /\ p.next = i - 1 BY <1>5, <3>2 DEF Continues
    <3>4. fs[l][1].id = n BY <3>1, <3>3 DEF Continuing
    <3>5. fs[l][1].id = NameOf(l, m)
      <4>1. fs[l][1] \in ChunkRecords /\ Len(fs[l]) >= 2 /\ WrittenAs(fs[l], NameOf(l, m)) BY <3>1 DEF Continuing, TwoFrames
      <4>2. 1 \in 1 .. Len(fs[l])
        <5>1. Len(fs[l]) \in Nat BY <4>1 DEF WrittenAs
        <5> QED BY <4>1, <5>1
      <4>3. ChunkAt(fs[l][1], fs[l], NameOf(l, m), 1) BY <4>1, <4>2, ChunksOf
      <4> QED BY <4>3 DEF ChunkAt
    <3>6. l = k
      <4>1. m \in {2, 3} BY DEF TwoFrames, OddFrame
      <4> QED BY <3>4, <3>5, <4>1 DEF NameOf
    <3>7. p.data = FirstBytes(f, p.next) /\ \A j \in 1 .. p.next : WithinLimits(f[j]) BY <3>1, <3>6, <1>1 DEF Continuing
    <3> QED BY <2>2, <3>3, <3>7 DEF DataOf
  <2> QED BY <2>1, <2>2
<1>11. g.data = FirstBytes(f, i) BY <1>2, <1>3, <1>7, <1>10, FirstBytesGrow, Zenon
<1>12. g.next = i BY <1>3, <1>5, <1>7
<1>13. \A j \in 1 .. i : WithinLimits(f[j])
  <2> SUFFICES ASSUME NEW j \in 1 .. i PROVE WithinLimits(f[j]) OBVIOUS
  <2>1. j = i \/ j \in 1 .. i - 1 BY <1>3
  <2> QED BY <2>1, <1>8, <1>10
<1> HIDE DEF g
<1>14. Continuing(g, f) BY <1>3, <1>5, <1>7, <1>8, <1>9, <1>11, <1>12, <1>13 DEF Continuing
<1> QED BY <1>1, <1>2, <1>12, <1>14 DEF g

\* A record as its frame has it keeps the sequence right, yields the whole frame or
\* nothing, and leaves the sequence behind the chunk, as it was or ended.
LEMMA GenuineStep ==
  ASSUME NEW fs, NEW m, TwoFrames(fs, m), NEW p \in ChunkStates, RightSoFar(p, fs), NEW k \in 1 .. 2, NEW i \in 1 .. Len(fs[k])
  PROVE LET c == fs[k][i]
            a == AssembleChunk(p, c) IN
        /\ RightSoFar(a.pending, fs)
        /\ a.yields = <<>> \/ (Deliverable(fs[k]) /\ a.yields = <<BytesOf(fs[k])>>)
        /\ \/ a.pending \in {p, NoChunks}
           \/ c \in ChunkRecords /\ a.pending.id = c.id /\ a.pending.next = c.index + 1
<1>1. PICK f \in Seq(PeerRecords) : f = fs[k] /\ WrittenAs(f, NameOf(k, m)) BY DEF TwoFrames, WrittenAs
<1>2. PICK c \in PeerRecords : c = f[i] BY <1>1
<1>3. i \in 1 .. Len(f) /\ Len(f) \in Nat BY <1>1
<1> DEFINE a == AssembleChunk(p, c)
<1>4. TRUE \in BOOLEAN /\ FALSE \in BOOLEAN OBVIOUS
<1>5. CASE c \in PlainRecords
  <2>1. Len(f) = 1 /\ i = 1
    <3>1. ~ChunkAt(f[i], f, NameOf(k, m), i) BY <1>2, <1>5, RecordFields, PlainFields, Zenon DEF ChunkAt
    <3>2. Len(f) = 1 BY <1>1, <1>3, <3>1 DEF WrittenAs
    <3> QED BY <1>3, <3>2
  <2>2. c.chunk = FALSE BY <1>5, PlainFields, Zenon
  <2>3. Deliverable(f) BY <1>2, <2>1, <2>2 DEF Deliverable
  <2>4. BytesOf(f) = c.data
    <3>0. 1 \in 1 .. Len(f) /\ 1 - 1 = 0 BY <2>1
    <3>1. FirstBytes(f, 1) = FirstBytes(f, 0) \o f[1].data
      <4>1. FirstBytes(f, 1) = FirstBytes(f, 1 - 1) \o f[1].data BY <3>0, FirstBytesGrow, Zenon
      <4> QED BY <3>0, <4>1
    <3>2. FirstBytes(f, 0) = <<>> /\ FirstBytes(f, 1) = BytesOf(f) BY <2>1, FirstBytesEnds, Zenon
    <3>3. PICK d \in Seq(BytePlaces) : d = c.data BY PeerData
    <3>4. <<>> \o d = d OBVIOUS
    <3> QED BY <1>2, <2>1, <3>1, <3>2, <3>3, <3>4, Zenon
  <2>5. /\ p = NoChunks => a = AssembledTo(p, <<c.data>>, FALSE)
        /\ p # NoChunks => a = AssembledTo(p, <<>>, TRUE) BY <2>2, AssemblePlain, Zenon
  <2> HIDE DEF a
  <2>6. /\ p = NoChunks => a.pending = p /\ a.yields = <<BytesOf(f)>>
        /\ p # NoChunks => a.pending = p /\ a.yields = <<>>
    <3> DEFINE y == <<c.data>>
    <3>1. y = <<BytesOf(f)>> BY <2>4
    <3>2. p = NoChunks => a = AssembledTo(p, y, FALSE) BY <2>5
    <3> HIDE DEF y
    <3>3. p = NoChunks => a.pending = p /\ a.yields = y BY <3>2, AssembledFields, Zenon
    <3>4. p # NoChunks => a.pending = p /\ a.yields = <<>> BY <2>5, AssembledFields, Zenon
    <3> QED BY <3>1, <3>3, <3>4, Zenon
  <2>7. /\ RightSoFar(a.pending, fs)
        /\ a.yields = <<>> \/ (Deliverable(f) /\ a.yields = <<BytesOf(f)>>)
        /\ a.pending \in {p, NoChunks} BY <2>3, <2>6
  <2> QED BY <1>1, <1>2, <2>7, Zenon DEF a
<1>6. CASE c \in ChunkRecords /\ ~Accepts(p, c)
  <2>1. a = AssembledTo(p, <<>>, TRUE) BY <1>6, AssembleRefused, Zenon
  <2>2. a.pending = p /\ a.yields = <<>> BY <1>4, <2>1, AssembledFields, Zenon
  <2> HIDE DEF a
  <2>3. RightSoFar(a.pending, fs) /\ a.yields = <<>> /\ a.pending \in {p, NoChunks} BY <2>2
  <2> QED BY <1>1, <1>2, <2>3, Zenon DEF a
<1>7. CASE c \in ChunkRecords /\ Accepts(p, c)
  <2> DEFINE g == Grown(p, c)
  <2>1. Continuing(g, f) /\ g.next = i
    <3>1. fs[k][i] \in ChunkRecords /\ Accepts(p, fs[k][i]) /\ fs[k][i] = c /\ i \in 1 .. Len(fs[k]) BY <1>1, <1>2, <1>7
    <3>2. LET h == Grown(p, fs[k][i]) IN Continuing(h, fs[k]) /\ h.next = i BY <3>1, AcceptedFollows
    <3> QED BY <3>1, <3>2, <1>1
  <2>2. g \in Partials /\ g.id = c.id /\ g.next = c.index + 1 /\ g.count = Len(f) BY <1>7, <2>1, GrownIs, Zenon DEF Continuing
  <2>3. /\ Len(g.data) > g.length => a = AssembledTo(g, <<>>, TRUE)
        /\ Len(g.data) <= g.length /\ g.next < g.count => a = AssembledTo(g, <<>>, FALSE)
        /\ g.next >= g.count /\ Len(g.data) < g.length => a = AssembledTo(g, <<>>, TRUE)
        /\ g.next >= g.count /\ Len(g.data) = g.length =>
              a = IF IsObject(g.data) THEN AssembledTo(NoChunks, <<g.data>>, FALSE) ELSE AssembledTo(NoChunks, <<>>, TRUE)
        BY <1>7, AssembleAccepted, Zenon
  <2> HIDE DEF g, a
  <2>4. PICK l \in Nat : l = Len(g.data)
    <3>1. PICK d \in Seq(BytePlaces) : d = g.data BY <2>2, PartialIs
    <3>2. Len(d) \in Nat OBVIOUS
    <3> QED BY <3>1, <3>2
  <2>5. g.length \in Nat BY <2>2, PartialIs
  <2>6. \/ a = AssembledTo(g, <<>>, TRUE)
        \/ a = AssembledTo(g, <<>>, FALSE)
        \/ a = AssembledTo(NoChunks, <<>>, TRUE)
        \/ a = AssembledTo(NoChunks, <<g.data>>, FALSE) /\ g.next >= g.count /\ IsObject(g.data)
    <3>1. CASE l > g.length BY <3>1, <2>3, <2>4
    <3>2. CASE l <= g.length /\ g.next < g.count BY <3>2, <2>3, <2>4
    <3>3. CASE g.next >= g.count /\ l < g.length BY <3>3, <2>3, <2>4
    <3>4. CASE g.next >= g.count /\ l = g.length
      <4>1. a = IF IsObject(g.data) THEN AssembledTo(NoChunks, <<g.data>>, FALSE) ELSE AssembledTo(NoChunks, <<>>, TRUE) BY <3>4, <2>3, <2>4, Zenon
      <4> QED BY <3>4, <4>1, Zenon
    <3>5. (l > g.length) \/ (l <= g.length /\ g.next < g.count) \/ (g.next >= g.count /\ l < g.length)
          \/ (g.next >= g.count /\ l = g.length) BY <1>3, <2>1, <2>2, <2>5
    <3> QED BY <3>1, <3>2, <3>3, <3>4, <3>5, Zenon
  <2>7. CASE a = AssembledTo(NoChunks, <<g.data>>, FALSE) /\ g.next >= g.count /\ IsObject(g.data)
    <3>1. a.pending = NoChunks /\ a.yields = <<g.data>>
      <4> DEFINE y == <<g.data>>
      <4>1. a = AssembledTo(NoChunks, y, FALSE) BY <2>7
      <4> HIDE DEF y
      <4>2. a.pending = NoChunks /\ a.yields = y BY <4>1, AssembledFields, Zenon
      <4> QED BY <4>2 DEF y
    <3>2. i = Len(f) BY <1>3, <2>1, <2>2, <2>7
    <3>3. g.data = BytesOf(f)
      <4>1. g.data = FirstBytes(f, Len(f)) BY <2>1, <3>2 DEF Continuing
      <4> QED BY <4>1, FirstBytesEnds
    <3>4. Deliverable(f)
      <4>1. Len(f) > 1 BY <1>3, <2>1 DEF Continuing
      <4>2. \A j \in DOMAIN f : WithinLimits(f[j])
        <5>1. DOMAIN f = 1 .. Len(f) OBVIOUS
        <5> QED BY <2>1, <3>2, <5>1 DEF Continuing
      <4> QED BY <2>7, <3>3, <4>1, <4>2, Zenon DEF Deliverable
    <3>5. RightSoFar(a.pending, fs) /\ a.pending \in {p, NoChunks} BY <3>1 DEF RightSoFar
    <3>6. Deliverable(f) /\ a.yields = <<BytesOf(f)>> BY <3>1, <3>3, <3>4, Zenon
    <3> QED BY <1>1, <1>2, <3>5, <3>6, Zenon DEF a
  <2>8. CASE \E t \in BOOLEAN : a = AssembledTo(g, <<>>, t)
    <3>1. a.pending = g /\ a.yields = <<>> BY <2>8, AssembledFields
    <3>2. RightSoFar(a.pending, fs) BY <1>1, <2>1, <3>1 DEF RightSoFar
    <3>3. a.pending.id = c.id /\ a.pending.next = c.index + 1 BY <2>2, <3>1
    <3> QED BY <1>1, <1>2, <1>7, <3>1, <3>2, <3>3, Zenon DEF a
  <2>9. CASE a = AssembledTo(NoChunks, <<>>, TRUE)
    <3>1. a.pending = NoChunks /\ a.yields = <<>> BY <1>4, <2>9, AssembledFields, Zenon
    <3>2. RightSoFar(a.pending, fs) /\ a.pending \in {p, NoChunks} BY <3>1 DEF RightSoFar
    <3> QED BY <1>1, <1>2, <3>1, <3>2, Zenon DEF a
  <2> QED BY <1>4, <2>6, <2>7, <2>8, <2>9, Zenon
<1> QED BY <1>5, <1>6, <1>7 DEF PeerRecords

\* What is to come: a record as a frame has it; nothing that continues the sequence under
\* way; one mistaken record whose neighbours are in order.
Genuine(c, fs) == \E k \in 1 .. 2 : \E i \in 1 .. Len(fs[k]) : c = fs[k][i]
StuckFor(p, rest) == p # NoChunks /\ \A r \in DOMAIN rest : rest[r] \in ChunkRecords => ~Continues(p, rest[r])
\* A sequence that took a mistaken chunk in place of record j of frame f.
Strays(p, f, j) ==
  p \in Partials /\ p.id = f[j].id /\ (p.count # Len(f) \/ p.length # f[1].length \/ p.next < j)
MistakeAhead(p, rest, fs) ==
  \E q \in DOMAIN rest, k \in 1 .. 2 : \E j \in 1 .. Len(fs[k]) :
     /\ fs[k][j] \in ChunkRecords /\ rest[q] \in Mistaken(fs[k][j])
     /\ \A r \in DOMAIN rest : r # q => Genuine(rest[r], fs)
     /\ \A r \in DOMAIN rest : r < q /\ rest[r] \in ChunkRecords /\ rest[r].id = fs[k][j].id => rest[r].index < j - 1
     /\ \A r \in DOMAIN rest : r > q /\ rest[r] \in ChunkRecords /\ rest[r].id = fs[k][j].id => rest[r].index > j - 1
     /\ p # NoChunks /\ p.id = fs[k][j].id => p.next <= j - 1
\* The heart of the invariant of the chunk pipe: the sequence under way and what is to come.
Onward(p, rest, fs) ==
  \/ RightSoFar(p, fs) /\ \A r \in DOMAIN rest : Genuine(rest[r], fs)
  \/ RightSoFar(p, fs) /\ MistakeAhead(p, rest, fs)
  \/ StuckFor(p, rest)

\* The two frames have different names.
LEMMA SameName ==
  ASSUME NEW fs, NEW m, TwoFrames(fs, m), NEW k \in 1 .. 2, NEW l \in 1 .. 2, NameOf(k, m) = NameOf(l, m)
  PROVE k = l
<1>1. m \in {2, 3} BY DEF TwoFrames, OddFrame
<1> QED BY <1>1 DEF NameOf

\* What the metadata of a chunk in a frame says.
LEMMA RecordIs ==
  ASSUME NEW fs, NEW m, TwoFrames(fs, m), NEW k \in 1 .. 2, NEW j \in 1 .. Len(fs[k]), fs[k][j] \in ChunkRecords
  PROVE ChunkAt(fs[k][j], fs[k], NameOf(k, m), j) /\ Len(fs[k]) \in Nat
<1>1. WrittenAs(fs[k], NameOf(k, m)) BY DEF TwoFrames
<1>2. fs[k] \in Seq(PeerRecords) BY <1>1 DEF WrittenAs
<1>3. Len(fs[k]) \in Nat BY <1>2
<1> QED BY <1>1, <1>3, ChunksOf

\* A mistaken chunk is invalid or differs in exactly one of count, index and length.
LEMMA MistakenIs ==
  ASSUME NEW b \in ChunkRecords, NEW c \in Mistaken(b), c # b
  PROVE /\ c \in ChunkRecords
        /\ \/ ~(ValidChunk(c) /\ DecodesToBytes(c))
           \/ c.id = b.id /\ c.index = b.index /\ c.length = b.length /\ c.count # b.count
           \/ c.id = b.id /\ c.count = b.count /\ c.length = b.length /\ c.index # b.index
           \/ c.id = b.id /\ c.count = b.count /\ c.index = b.index /\ c.length # b.length
<1>0. b.chunk = TRUE BY RecordFields, Zenon
<1>1. \/ c \in {[b EXCEPT !.id = 0], [b EXCEPT !.base64 = FALSE], [b EXCEPT !.data = <<>>]}
      \/ \E k \in 1 .. 4 : c = [b EXCEPT !.count = k]
      \/ \E k \in 0 .. 3 : c = [b EXCEPT !.index = k]
      \/ \E k \in 0 .. LogicalLimit + 1 : c = [b EXCEPT !.length = k] BY <1>0 DEF Mistaken
<1>2. CASE c = [b EXCEPT !.id = 0]
  <2>1. c \in ChunkRecords /\ c.id = 0 BY <1>2, Zenon DEF ChunkRecords
  <2> QED BY <2>1 DEF ValidChunk
<1>3. CASE c = [b EXCEPT !.base64 = FALSE]
  <2> DEFINE t == FALSE
  <2>1. t \in BOOLEAN /\ c = [b EXCEPT !.base64 = t] BY <1>3
  <2> HIDE DEF t
  <2>2. c \in ChunkRecords /\ c.base64 = t BY <2>1, Zenon DEF ChunkRecords
  <2> QED BY <2>2 DEF DecodesToBytes, t
<1>4. CASE c = [b EXCEPT !.data = <<>>]
  <2> DEFINE e == <<>>
  <2>1. e \in Seq(BytePlaces) /\ c = [b EXCEPT !.data = e] BY <1>4
  <2> HIDE DEF e
  <2>2. c \in ChunkRecords /\ c.data = e BY <2>1, Zenon DEF ChunkRecords
  <2> QED BY <2>2 DEF DecodesToBytes, e
<1>5. CASE \E k \in 1 .. 4 : c = [b EXCEPT !.count = k]
  <2>1. PICK k \in Nat : c = [b EXCEPT !.count = k] BY <1>5
  <2>2. c \in ChunkRecords /\ c.id = b.id /\ c.index = b.index /\ c.length = b.length /\ c.count = k BY <2>1, Zenon DEF ChunkRecords
  <2>3. c = b \/ c.count # b.count BY <2>1, <2>2 DEF ChunkRecords
  <2> QED BY <2>2, <2>3
<1>6. CASE \E k \in 0 .. 3 : c = [b EXCEPT !.index = k]
  <2>1. PICK k \in Nat : c = [b EXCEPT !.index = k] BY <1>6
  <2>2. c \in ChunkRecords /\ c.id = b.id /\ c.count = b.count /\ c.length = b.length /\ c.index = k BY <2>1, Zenon DEF ChunkRecords
  <2>3. c = b \/ c.index # b.index BY <2>1, <2>2 DEF ChunkRecords
  <2> QED BY <2>2, <2>3
<1>7. CASE \E k \in 0 .. LogicalLimit + 1 : c = [b EXCEPT !.length = k]
  <2>1. PICK k \in Nat : c = [b EXCEPT !.length = k] BY <1>7
  <2>2. c \in ChunkRecords /\ c.id = b.id /\ c.count = b.count /\ c.index = b.index /\ c.length = k BY <2>1, Zenon DEF ChunkRecords
  <2>3. c = b \/ c.length # b.length BY <2>1, <2>2 DEF ChunkRecords
  <2> QED BY <2>2, <2>3
<1> QED BY <1>1, <1>2, <1>3, <1>4, <1>5, <1>6, <1>7

\* An accepted chunk that is not the last yields nothing.
LEMMA Unfinished ==
  ASSUME NEW p \in ChunkStates, NEW c \in ChunkRecords, Accepts(p, c), c.index + 1 < c.count
  PROVE \E t \in BOOLEAN : AssembleChunk(p, c) = AssembledTo(Grown(p, c), <<>>, t)
<1> DEFINE g == Grown(p, c)
           a == AssembleChunk(p, c)
<1>1. g \in Partials /\ g.next = c.index + 1 /\ g.count = c.count BY GrownIs, Zenon
<1>2. /\ Len(g.data) > g.length => a = AssembledTo(g, <<>>, TRUE)
      /\ Len(g.data) <= g.length /\ g.next < g.count => a = AssembledTo(g, <<>>, FALSE) BY AssembleAccepted, Zenon
<1>3. g.next < g.count BY <1>1
<1> HIDE DEF g, a
<1>4. PICK l \in Nat : l = Len(g.data)
  <2>1. PICK d \in Seq(BytePlaces) : d = g.data BY <1>1, PartialIs
  <2>2. Len(d) \in Nat OBVIOUS
  <2> QED BY <2>1, <2>2
<1>5. g.length \in Nat BY <1>1, PartialIs
<1>6. l > g.length \/ l <= g.length BY <1>5
<1>7. TRUE \in BOOLEAN /\ FALSE \in BOOLEAN OBVIOUS
<1>8. a = AssembledTo(g, <<>>, TRUE) \/ a = AssembledTo(g, <<>>, FALSE) BY <1>2, <1>3, <1>4, <1>6, Zenon
<1> QED BY <1>7, <1>8, Zenon DEF g, a

\* A mistaken chunk yields nothing and, if it is accepted at all, leaves a sequence no
\* later chunk of its frame continues.
LEMMA MistakenStep ==
  ASSUME NEW fs, NEW m, TwoFrames(fs, m), NEW p \in ChunkStates, RightSoFar(p, fs), NEW k \in 1 .. 2, NEW j \in 1 .. Len(fs[k]),
         fs[k][j] \in ChunkRecords, NEW c \in Mistaken(fs[k][j]), c # fs[k][j],
         p # NoChunks /\ p.id = fs[k][j].id => p.next <= j - 1
  PROVE LET a == AssembleChunk(p, c) IN a.yields = <<>> /\ (a.pending = p \/ Strays(a.pending, fs[k], j))
<1> DEFINE a == AssembleChunk(p, c)
           f == fs[k]
           n == NameOf(k, m)
           g == Grown(p, c)
<1>1. PICK b \in ChunkRecords : b = f[j] OBVIOUS
<1>2. b.id = n /\ b.index = j - 1 /\ b.count = Len(f) /\ b.length = f[1].length /\ Len(f) \in Nat BY <1>1, RecordIs DEF ChunkAt
<1>3. /\ c \in ChunkRecords
      /\ \/ ~(ValidChunk(c) /\ DecodesToBytes(c))
         \/ c.id = b.id /\ c.index = b.index /\ c.length = b.length /\ c.count # b.count
         \/ c.id = b.id /\ c.count = b.count /\ c.length = b.length /\ c.index # b.index
         \/ c.id = b.id /\ c.count = b.count /\ c.index = b.index /\ c.length # b.length BY <1>1, MistakenIs
<1>4. CASE ~Accepts(p, c)
  <2>1. a = AssembledTo(p, <<>>, TRUE) BY <1>3, <1>4, AssembleRefused, Zenon
  <2> HIDE DEF a
  <2>2. a.pending = p /\ a.yields = <<>> BY <2>1, AssembledFields, ZenonT(30)
  <2> QED BY <2>2 DEF a
<1>5. CASE Accepts(p, c)
  <2>1. ValidChunk(c) /\ DecodesToBytes(c) BY <1>5 DEF Accepts
  <2>2. c.id = n /\ c.index \in Nat /\ c.count \in Nat BY <1>2, <1>3, <2>1, RecordFields, Zenon
  <2>3. c.count >= 2 BY <2>1 DEF ValidChunk
  <2>4. g \in Partials /\ g.id = c.id /\ g.count = c.count /\ g.length = c.length /\ g.next = c.index + 1 BY <1>3, <1>5, GrownIs, Zenon
  <2>5. Strays(g, f, j) /\ g.next < g.count
    <3>1. CASE p = NoChunks
      <4>1. c.index = 0 BY <1>5, <3>1 DEF Accepts
      <4>2. g.next = 1 /\ g.next < g.count BY <2>3, <2>2, <2>4, <4>1
      <4>3. c.count # Len(f) \/ c.length # f[1].length \/ c.index # b.index BY <1>2, <1>3, <2>1
      <4>4. c.index # b.index => g.next < j BY <1>2, <4>1, <4>2
      <4> QED BY <1>1, <1>2, <2>2, <2>4, <4>2, <4>3, <4>4 DEF Strays
    <3>2. CASE p # NoChunks
      <4>1. PICK l \in 1 .. 2 : Continuing(p, fs[l]) BY <3>2 DEF RightSoFar
      <4>2. p.id = c.id /\ p.count = c.count /\ p.length = c.length /\ p.next = c.index BY <1>5, <3>2 DEF Accepts, Continues
      <4>3. fs[l][1] \in ChunkRecords /\ Len(fs[l]) >= 2 /\ p.id = fs[l][1].id /\ p.count = Len(fs[l]) /\ p.length = fs[l][1].length
            BY <4>1 DEF Continuing
      <4>4. fs[l][1].id = NameOf(l, m)
        <5>1. Len(fs[l]) \in Nat BY DEF TwoFrames, WrittenAs
        <5>2. 1 \in 1 .. Len(fs[l]) BY <4>3, <5>1
        <5> QED BY <4>3, <5>2, RecordIs DEF ChunkAt
      <4>5. l = k
        <5>1. NameOf(k, m) = NameOf(l, m) BY <2>2, <4>2, <4>3, <4>4
        <5> QED BY <5>1, SameName
      <4>6. c.count = b.count /\ c.length = b.length BY <1>2, <4>2, <4>3, <4>5
      <4>7. c.index # b.index BY <1>3, <2>1, <4>6
      <4>8. p.next <= j - 1 BY <1>1, <1>2, <2>2, <3>2, <4>2
      <4>9. c.index < j - 1 BY <1>2, <2>2, <4>2, <4>7, <4>8
      <4>10. g.next < j /\ g.next < g.count BY <1>2, <2>2, <2>4, <4>6, <4>9
      <4> QED BY <1>1, <1>2, <2>2, <2>4, <4>10 DEF Strays
    <3> QED BY <3>1, <3>2
  <2>6. PICK t \in BOOLEAN : a = AssembledTo(g, <<>>, t) BY <1>3, <1>5, <2>4, <2>5, Unfinished
  <2> HIDE DEF a, g
  <2>7. a.pending = g /\ a.yields = <<>> BY <2>6, AssembledFields
  <2>8. a.yields = <<>> /\ (a.pending = p \/ Strays(a.pending, f, j)) BY <2>5, <2>7
  <2> QED BY <2>8 DEF a
<1> QED BY <1>4, <1>5

\* Such a sequence is stuck: no record to come continues it.
LEMMA StraysStuck ==
  ASSUME NEW fs, NEW m, TwoFrames(fs, m), NEW k \in 1 .. 2, NEW j \in 1 .. Len(fs[k]), fs[k][j] \in ChunkRecords,
         NEW p, Strays(p, fs[k], j), NEW rest,
         \A r \in DOMAIN rest : Genuine(rest[r], fs),
         \A r \in DOMAIN rest : rest[r] \in ChunkRecords /\ rest[r].id = fs[k][j].id => rest[r].index > j - 1
  PROVE StuckFor(p, rest)
<1>1. p # NoChunks BY PartialIsSome DEF Strays
<1>2. SUFFICES ASSUME NEW r \in DOMAIN rest, rest[r] \in ChunkRecords, Continues(p, rest[r]) PROVE FALSE
      BY <1>1 DEF StuckFor
<1>3. PICK l \in 1 .. 2 : \E i \in 1 .. Len(fs[l]) : rest[r] = fs[l][i] BY DEF Genuine
<1>4. PICK i \in 1 .. Len(fs[l]) : rest[r] = fs[l][i] BY <1>3
<1>5. PICK c \in ChunkRecords : c = rest[r] BY <1>2
<1>6. c.id = NameOf(l, m) /\ c.index = i - 1 /\ c.count = Len(fs[l]) /\ c.length = fs[l][1].length
      BY <1>4, <1>5, RecordIs, SMTT(30) DEF ChunkAt
<1>7. p.id = c.id /\ p.count = c.count /\ p.length = c.length /\ p.next = c.index BY <1>2, <1>5 DEF Continues
<1>8. p.id = NameOf(k, m) /\ fs[k][j].id = NameOf(k, m) BY RecordIs DEF Strays, ChunkAt
<1>9. l = k BY <1>6, <1>7, <1>8, SameName, Zenon
<1>10. c.index > j - 1 BY <1>5, <1>6, <1>7, <1>8
<1>11. p.next < j BY <1>6, <1>7, <1>9 DEF Strays
<1>12. c.index \in Nat /\ Len(fs[k]) \in Nat BY <1>5, RecordFields, RecordIs, Zenon
<1> QED BY <1>7, <1>10, <1>11, <1>12

\* The records behind the first.
LEMMA TailRecords ==
  ASSUME NEW rest \in Seq(PeerRecords), rest # <<>>
  PROVE /\ Head(rest) = rest[1] /\ rest[1] \in PeerRecords /\ 1 \in DOMAIN rest
        /\ Tail(rest) \in Seq(PeerRecords)
        /\ \A r \in DOMAIN Tail(rest) : r \in Nat /\ r + 1 \in DOMAIN rest /\ Tail(rest)[r] = rest[r + 1]
        /\ \A r \in DOMAIN rest : r \in Nat /\ (r # 1 => r - 1 \in DOMAIN Tail(rest) /\ (r - 1) + 1 = r)
OBVIOUS

Yields(y, fs) == y = <<>> \/ \E k \in 1 .. 2 : Deliverable(fs[k]) /\ y = <<BytesOf(fs[k])>>

\* GenuineStep, for a record of either frame.
LEMMA GenuineOnward ==
  ASSUME NEW fs, NEW m, TwoFrames(fs, m), NEW p \in ChunkStates, RightSoFar(p, fs), NEW c \in PeerRecords, Genuine(c, fs)
  PROVE LET a == AssembleChunk(p, c) IN
        /\ RightSoFar(a.pending, fs) /\ Yields(a.yields, fs)
        /\ \/ a.pending \in {p, NoChunks}
           \/ c \in ChunkRecords /\ a.pending.id = c.id /\ a.pending.next = c.index + 1
<1>1. PICK k \in 1 .. 2 : \E i \in 1 .. Len(fs[k]) : c = fs[k][i] BY DEF Genuine
<1>2. PICK i \in 1 .. Len(fs[k]) : c = fs[k][i] BY <1>1
<1> DEFINE a == AssembleChunk(p, c)
<1>3. /\ RightSoFar(a.pending, fs)
      /\ a.yields = <<>> \/ (Deliverable(fs[k]) /\ a.yields = <<BytesOf(fs[k])>>)
      /\ \/ a.pending \in {p, NoChunks}
         \/ c \in ChunkRecords /\ a.pending.id = c.id /\ a.pending.next = c.index + 1
  <2> DEFINE d == fs[k][i]
             b == AssembleChunk(p, d)
  <2>1. /\ RightSoFar(b.pending, fs)
        /\ b.yields = <<>> \/ (Deliverable(fs[k]) /\ b.yields = <<BytesOf(fs[k])>>)
        /\ \/ b.pending \in {p, NoChunks}
           \/ d \in ChunkRecords /\ b.pending.id = d.id /\ b.pending.next = d.index + 1 BY GenuineStep, ZenonT(30)
  <2>2. d = c BY <1>2
  <2> HIDE DEF d
  <2> QED BY <2>1, <2>2
<1> HIDE DEF a
<1>4. Yields(a.yields, fs) BY <1>3 DEF Yields
<1> QED BY <1>3, <1>4 DEF a

\* Whatever record comes, what is to come stays one of three: genuine records, a mistake
\* ahead, or a stuck sequence; and only whole frames are yielded.
LEMMA OnwardStep ==
  ASSUME NEW fs, NEW m, TwoFrames(fs, m), NEW p \in ChunkStates, NEW rest \in Seq(PeerRecords), rest # <<>>, Onward(p, rest, fs)
  PROVE LET a == AssembleChunk(p, Head(rest)) IN Onward(a.pending, Tail(rest), fs) /\ Yields(a.yields, fs)
<1>1. PICK c \in PeerRecords : c = rest[1] /\ c = Head(rest) BY TailRecords
<1>2. PICK t \in Seq(PeerRecords) : t = Tail(rest) BY TailRecords, Zenon
<1>3. 1 \in DOMAIN rest BY TailRecords
<1>4. \A r \in DOMAIN t : r \in Nat /\ r + 1 \in DOMAIN rest /\ t[r] = rest[r + 1] BY <1>2, TailRecords
<1>5. \A r \in DOMAIN rest : r \in Nat /\ (r # 1 => r - 1 \in DOMAIN t /\ (r - 1) + 1 = r) BY <1>2, TailRecords
<1> DEFINE a == AssembleChunk(p, c)
<1>6. CASE RightSoFar(p, fs) /\ \A r \in DOMAIN rest : Genuine(rest[r], fs)
  <2>1. Genuine(c, fs) BY <1>1, <1>3, <1>6
  <2>2. RightSoFar(a.pending, fs) /\ Yields(a.yields, fs) BY <1>6, <2>1, GenuineOnward
  <2>3. \A r \in DOMAIN t : Genuine(t[r], fs) BY <1>4, <1>6
  <2> QED BY <1>1, <1>2, <2>2, <2>3 DEF Onward
<1>7. CASE RightSoFar(p, fs) /\ MistakeAhead(p, rest, fs)
  <2>1. PICK q \in DOMAIN rest, k \in 1 .. 2 : \E j \in 1 .. Len(fs[k]) :
         /\ fs[k][j] \in ChunkRecords /\ rest[q] \in Mistaken(fs[k][j])
         /\ \A r \in DOMAIN rest : r # q => Genuine(rest[r], fs)
         /\ \A r \in DOMAIN rest : r < q /\ rest[r] \in ChunkRecords /\ rest[r].id = fs[k][j].id => rest[r].index < j - 1
         /\ \A r \in DOMAIN rest : r > q /\ rest[r] \in ChunkRecords /\ rest[r].id = fs[k][j].id => rest[r].index > j - 1
         /\ p # NoChunks /\ p.id = fs[k][j].id => p.next <= j - 1 BY <1>7, Zenon DEF MistakeAhead
  <2>2. PICK j \in 1 .. Len(fs[k]) :
         /\ fs[k][j] \in ChunkRecords /\ rest[q] \in Mistaken(fs[k][j])
         /\ \A r \in DOMAIN rest : r # q => Genuine(rest[r], fs)
         /\ \A r \in DOMAIN rest : r < q /\ rest[r] \in ChunkRecords /\ rest[r].id = fs[k][j].id => rest[r].index < j - 1
         /\ \A r \in DOMAIN rest : r > q /\ rest[r] \in ChunkRecords /\ rest[r].id = fs[k][j].id => rest[r].index > j - 1
         /\ p # NoChunks /\ p.id = fs[k][j].id => p.next <= j - 1 BY <2>1, Zenon
  <2>3. CASE q = 1
    <3>1. \A r \in DOMAIN t : Genuine(t[r], fs) /\ (t[r] \in ChunkRecords /\ t[r].id = fs[k][j].id => t[r].index > j - 1)
      <4> SUFFICES ASSUME NEW r \in DOMAIN t
                   PROVE Genuine(t[r], fs) /\ (t[r] \in ChunkRecords /\ t[r].id = fs[k][j].id => t[r].index > j - 1)
          OBVIOUS
      <4>1. r + 1 \in DOMAIN rest /\ t[r] = rest[r + 1] /\ r \in Nat /\ r # 0
        <5>1. DOMAIN t = 1 .. Len(t) OBVIOUS
        <5> QED BY <1>4, <5>1
      <4>2. r + 1 > 1 /\ r + 1 # 1 BY <4>1
      <4> QED BY <2>2, <2>3, <4>1, <4>2, Zenon
    <3>2. CASE c = fs[k][j]
      <4>1. Genuine(c, fs) BY <3>2 DEF Genuine
      <4>2. RightSoFar(a.pending, fs) /\ Yields(a.yields, fs) BY <1>7, <4>1, GenuineOnward
      <4> QED BY <1>1, <1>2, <3>1, <4>2 DEF Onward
    <3>3. CASE c # fs[k][j]
      <4>1. c \in Mistaken(fs[k][j]) BY <1>1, <2>2, <2>3
      <4>2. p # NoChunks /\ p.id = fs[k][j].id => p.next <= j - 1 BY <2>2
      <4>3. a.yields = <<>> /\ (a.pending = p \/ Strays(a.pending, fs[k], j)) BY <1>7, <2>2, <3>3, <4>1, <4>2, MistakenStep, Zenon
      <4> HIDE DEF a
      <4>4. Yields(a.yields, fs) BY <4>3 DEF Yields
      <4>5. a.pending = p => Onward(a.pending, t, fs) BY <1>7, <3>1 DEF Onward
      <4>6. ASSUME Strays(a.pending, fs[k], j) PROVE StuckFor(a.pending, t)
        <5>1. fs[k][j] \in ChunkRecords BY <2>2
        <5>2. \A r \in DOMAIN t : Genuine(t[r], fs) BY <3>1, Zenon
        <5>3. \A r \in DOMAIN t : t[r] \in ChunkRecords /\ t[r].id = fs[k][j].id => t[r].index > j - 1 BY <3>1, Zenon
        <5> QED BY <4>6, <5>1, <5>2, <5>3, StraysStuck, SMTT(30)
      <4>7. Onward(a.pending, t, fs) BY <4>3, <4>5, <4>6 DEF Onward
      <4> QED BY <1>1, <1>2, <4>4, <4>7 DEF a
    <3> QED BY <3>2, <3>3
  <2>4. CASE q # 1
    <3>1. Genuine(c, fs) BY <1>1, <1>3, <2>2, <2>4
    <3>2. /\ RightSoFar(a.pending, fs) /\ Yields(a.yields, fs)
          /\ \/ a.pending \in {p, NoChunks}
             \/ c \in ChunkRecords /\ a.pending.id = c.id /\ a.pending.next = c.index + 1 BY <1>7, <3>1, GenuineOnward
    <3> HIDE DEF a
    <3>3. a.pending # NoChunks /\ a.pending.id = fs[k][j].id => a.pending.next <= j - 1
      <4>1. CASE a.pending \in {p, NoChunks} BY <2>2, <4>1
      <4>2. CASE c \in ChunkRecords /\ a.pending.id = c.id /\ a.pending.next = c.index + 1 /\ c.id = fs[k][j].id
        <5>1. 1 < q
          <6>1. DOMAIN rest = 1 .. Len(rest) OBVIOUS
          <6> QED BY <2>4, <6>1
        <5>2. c.index < j - 1 BY <1>1, <1>3, <2>2, <4>2, <5>1
        <5>3. c.index \in Nat /\ j \in Nat
          <6>1. Len(fs[k]) \in Nat BY <2>2, RecordIs
          <6>2. c.index \in Nat BY <4>2, RecordFields, Zenon
          <6> QED BY <6>1, <6>2
        <5> QED BY <4>2, <5>2, <5>3
      <4> QED BY <3>2, <4>1, <4>2
    <3>4. PICK o \in DOMAIN t : o + 1 = q /\ o \in Nat
      <4>1. q - 1 \in DOMAIN t /\ (q - 1) + 1 = q BY <1>5, <2>4
      <4> QED BY <4>1, <1>4
    <3>5. t[o] \in Mistaken(fs[k][j]) BY <1>4, <2>2, <3>4
    <3>6. \A r \in DOMAIN t : r # o => Genuine(t[r], fs)
      <4> SUFFICES ASSUME NEW r \in DOMAIN t, r # o PROVE Genuine(t[r], fs) OBVIOUS
      <4>1. r + 1 \in DOMAIN rest /\ t[r] = rest[r + 1] /\ r \in Nat BY <1>4
      <4>2. r + 1 # q BY <3>4, <4>1
      <4> QED BY <2>2, <4>1, <4>2
    <3>7. \A r \in DOMAIN t : r < o /\ t[r] \in ChunkRecords /\ t[r].id = fs[k][j].id => t[r].index < j - 1
      <4> SUFFICES ASSUME NEW r \in DOMAIN t, r < o, t[r] \in ChunkRecords, t[r].id = fs[k][j].id PROVE t[r].index < j - 1 OBVIOUS
      <4>1. r + 1 \in DOMAIN rest /\ t[r] = rest[r + 1] /\ r \in Nat BY <1>4
      <4>2. r + 1 < q BY <3>4, <4>1
      <4> QED BY <2>2, <4>1, <4>2, Zenon
    <3>8. \A r \in DOMAIN t : r > o /\ t[r] \in ChunkRecords /\ t[r].id = fs[k][j].id => t[r].index > j - 1
      <4> SUFFICES ASSUME NEW r \in DOMAIN t, r > o, t[r] \in ChunkRecords, t[r].id = fs[k][j].id PROVE t[r].index > j - 1 OBVIOUS
      <4>1. r + 1 \in DOMAIN rest /\ t[r] = rest[r + 1] /\ r \in Nat BY <1>4
      <4>2. r + 1 > q BY <3>4, <4>1
      <4> QED BY <2>2, <4>1, <4>2, Zenon
    <3>9. MistakeAhead(a.pending, t, fs) BY <2>2, <3>3, <3>5, <3>6, <3>7, <3>8, Zenon DEF MistakeAhead
    <3>10. Onward(a.pending, t, fs) BY <3>2, <3>9 DEF Onward
    <3> QED BY <1>1, <1>2, <3>2, <3>10 DEF a
  <2> QED BY <2>3, <2>4
<1>8. CASE StuckFor(p, rest)
  <2>1. a.pending = p /\ a.yields = <<>>
    <3>1. CASE c \in PlainRecords
      <4>1. ~c.chunk BY <3>1, PlainFields, Zenon
      <4>2. a = AssembledTo(p, <<>>, TRUE) BY <1>8, <4>1, AssemblePlain, Zenon DEF StuckFor
      <4> HIDE DEF a
      <4> QED BY <4>2, AssembledFields, Zenon
    <3>2. CASE c \in ChunkRecords
      <4>1. ~Accepts(p, c) BY <1>1, <1>3, <1>8, <3>2 DEF StuckFor, Accepts
      <4>2. a = AssembledTo(p, <<>>, TRUE) BY <3>2, <4>1, AssembleRefused, Zenon
      <4> HIDE DEF a
      <4> QED BY <4>2, AssembledFields, Zenon
    <3> QED BY <3>1, <3>2 DEF PeerRecords
  <2> HIDE DEF a
  <2>2. StuckFor(p, t) BY <1>4, <1>8 DEF StuckFor
  <2>3. Onward(a.pending, t, fs) /\ Yields(a.yields, fs) BY <2>1, <2>2 DEF Onward, Yields
  <2> QED BY <1>1, <1>2, <2>3 DEF a
<1> QED BY <1>6, <1>7, <1>8 DEF Onward

\* The chunks of a frame are not empty and add up to the length they announce.
Measured(f) ==
  f[1] \in ChunkRecords =>
     /\ Len(f) <= f[1].length /\ Len(BytesOf(f)) = f[1].length
     /\ \A i \in 1 .. Len(f) : /\ f[i].id # 0 /\ DecodesToBytes(f[i])
                               /\ Len(FirstBytes(f, i)) <= f[1].length
\* The first i records of the frame have been read.
StandsAt(p, f, i) == IF i = 0 THEN p = NoChunks ELSE Continuing(p, f) /\ p.next = i

\* A frame that can be delivered, read record by record: each continues the sequence, the
\* last one yields the frame, and none is an error.
LEMMA TrackStep ==
  ASSUME NEW fs, NEW m, TwoFrames(fs, m), NEW k \in 1 .. 2, Measured(fs[k]), Deliverable(fs[k]), NEW p \in ChunkStates,
         NEW i \in 1 .. Len(fs[k]), StandsAt(p, fs[k], i - 1)
  PROVE LET a == AssembleChunk(p, fs[k][i]) IN
        /\ a.throws = FALSE
        /\ i < Len(fs[k]) => StandsAt(a.pending, fs[k], i) /\ a.yields = <<>>
        /\ i = Len(fs[k]) => a.pending = NoChunks /\ a.yields = <<BytesOf(fs[k])>>
<1> DEFINE n == NameOf(k, m)
<1>1. PICK f \in Seq(PeerRecords) : f = fs[k] /\ WrittenAs(f, n) BY DEF TwoFrames, WrittenAs
<1>2. PICK c \in PeerRecords : c = f[i] BY <1>1
<1>3. i \in 1 .. Len(f) /\ Len(f) \in Nat /\ 1 \in 1 .. Len(f) BY <1>1
<1> DEFINE a == AssembleChunk(p, c)
<1>5. CASE c \in PlainRecords
  <2>1. Len(f) = 1 /\ i = 1
    <3>1. ~ChunkAt(f[i], f, n, i) BY <1>2, <1>5, RecordFields, PlainFields, Zenon DEF ChunkAt
    <3>2. Len(f) = 1 BY <1>1, <1>3, <3>1 DEF WrittenAs
    <3> QED BY <1>3, <3>2
  <2>2. ~c.chunk BY <1>5, PlainFields, Zenon
  <2>3. p = NoChunks BY <2>1 DEF StandsAt
  <2> DEFINE y == <<c.data>>
  <2>4. a = AssembledTo(p, y, FALSE) BY <2>2, <2>3, AssemblePlain, Zenon
  <2>5. BytesOf(f) = c.data
    <3>1. FirstBytes(f, 1) = FirstBytes(f, 1 - 1) \o f[1].data BY <1>3, FirstBytesGrow, Zenon
    <3>2. FirstBytes(f, 0) = <<>> /\ FirstBytes(f, 1) = BytesOf(f) BY <2>1, FirstBytesEnds, Zenon
    <3>3. PICK d \in Seq(BytePlaces) : d = c.data BY PeerData
    <3>4. <<>> \o d = d /\ 1 - 1 = 0 OBVIOUS
    <3> QED BY <1>2, <2>1, <3>1, <3>2, <3>3, <3>4, Zenon
  <2>6. y = <<BytesOf(f)>> BY <2>5
  <2> HIDE DEF y, a
  <2>7. a.pending = p /\ a.yields = y /\ a.throws = FALSE BY <2>4, AssembledFields, Zenon
  <2>8. /\ a.throws = FALSE /\ i = Len(f) /\ ~(i < Len(f))
        /\ a.pending = NoChunks /\ a.yields = <<BytesOf(f)>> BY <2>1, <2>3, <2>6, <2>7
  <2> QED BY <1>1, <1>2, <2>8, Zenon DEF a
<1>6. CASE c \in ChunkRecords
  <2>1. \A j \in 1 .. Len(f) : ChunkAt(f[j], f, n, j) BY <1>1, <1>2, <1>3, <1>6, ChunksOf
  <2>2. c.id = n /\ c.index = i - 1 /\ c.count = Len(f) /\ c.length = f[1].length BY <1>2, <1>3, <2>1 DEF ChunkAt
  <2>3. f[1] \in ChunkRecords /\ f[1].id = n BY <1>3, <2>1 DEF ChunkAt
  <2>4. /\ Len(f) <= c.length /\ Len(BytesOf(f)) = c.length
        /\ c.id # 0 /\ DecodesToBytes(c) /\ Len(FirstBytes(f, i)) <= c.length BY <1>1, <1>2, <1>3, <2>2, <2>3 DEF Measured
  <2>5. Len(f) > 1 /\ IsObject(BytesOf(f)) /\ WithinLimits(c)
    <3>1. f[1].chunk = TRUE BY <2>3, RecordFields, Zenon
    <3>2. i \in DOMAIN f BY <1>3
    <3> QED BY <1>1, <1>2, <3>1, <3>2 DEF Deliverable
  <2>6. ValidChunk(c)
    <3>1. c.length \in Nat BY <1>6, RecordFields, Zenon
    <3> QED BY <1>3, <2>2, <2>4, <2>5, <3>1 DEF ValidChunk
  <2>7. Accepts(p, c)
    <3>1. CASE i = 1
      <4>1. p = NoChunks BY <3>1 DEF StandsAt
      <4> QED BY <2>2, <2>4, <2>5, <2>6, <3>1, <4>1 DEF Accepts
    <3>2. CASE i # 1
      <4>1. Continuing(p, f) /\ p.next = i - 1 BY <1>1, <1>3, <3>2 DEF StandsAt
      <4>2. p # NoChunks BY <4>1, PartialIsSome DEF Continuing
      <4>3. Continues(p, c) BY <2>2, <2>3, <4>1 DEF Continuing, Continues
      <4> QED BY <2>4, <2>5, <2>6, <4>2, <4>3 DEF Accepts
    <3> QED BY <3>1, <3>2
  <2> DEFINE g == Grown(p, c)
  <2>8. Continuing(g, f) /\ g.next = i
    <3>0. RightSoFar(p, fs)
      <4>1. CASE i = 1 BY <4>1 DEF StandsAt, RightSoFar
      <4>2. CASE i # 1
        <5>1. Continuing(p, fs[k]) BY <1>3, <4>2 DEF StandsAt
        <5> QED BY <5>1 DEF RightSoFar
      <4> QED BY <4>1, <4>2
    <3>1. fs[k][i] \in ChunkRecords /\ Accepts(p, fs[k][i]) /\ fs[k][i] = c /\ i \in 1 .. Len(fs[k]) BY <1>1, <1>2, <1>6, <2>7
    <3>2. LET h == Grown(p, fs[k][i]) IN Continuing(h, fs[k]) /\ h.next = i BY <3>0, <3>1, AcceptedFollows
    <3> QED BY <3>1, <3>2, <1>1
  <2>9. g.count = Len(f) /\ g.length = c.length /\ g.data = FirstBytes(f, i) BY <2>2, <2>3, <2>8 DEF Continuing
  <2>10. /\ Len(g.data) <= g.length /\ g.next < g.count => a = AssembledTo(g, <<>>, FALSE)
         /\ g.next >= g.count /\ Len(g.data) = g.length =>
              a = IF IsObject(g.data) THEN AssembledTo(NoChunks, <<g.data>>, FALSE) ELSE AssembledTo(NoChunks, <<>>, TRUE)
        BY <1>6, <2>7, AssembleAccepted, Zenon
  <2> HIDE DEF g, a
  <2>11. CASE i < Len(f)
    <3>1. a = AssembledTo(g, <<>>, FALSE) BY <2>4, <2>8, <2>9, <2>10, <2>11, Zenon
    <3>2. a.pending = g /\ a.yields = <<>> /\ a.throws = FALSE BY <3>1, AssembledFields, Zenon
    <3>3. i # 0 /\ i # Len(f) BY <1>3, <2>11
    <3>4. StandsAt(a.pending, f, i) BY <2>8, <3>2, <3>3 DEF StandsAt
    <3> QED BY <1>1, <1>2, <3>2, <3>3, <3>4, Zenon DEF a
  <2>12. CASE i = Len(f)
    <3>1. g.data = BytesOf(f) BY <2>9, <2>12, FirstBytesEnds
    <3>2. g.next >= g.count BY <1>3, <2>8, <2>9, <2>12
    <3>3. IsObject(g.data) /\ Len(g.data) = g.length BY <2>4, <2>5, <2>9, <3>1
    <3> DEFINE y == <<g.data>>
    <3>4. a = AssembledTo(NoChunks, y, FALSE) BY <2>10, <3>2, <3>3, Zenon
    <3>5. y = <<BytesOf(f)>> BY <3>1
    <3> HIDE DEF y
    <3>6. a.pending = NoChunks /\ a.yields = y /\ a.throws = FALSE BY <3>4, AssembledFields, Zenon
    <3>7. ~(i < Len(f)) BY <1>3, <2>12
    <3> QED BY <1>1, <1>2, <2>12, <3>5, <3>6, <3>7, Zenon DEF a
  <2>13. i < Len(f) \/ i = Len(f) BY <1>3
  <2> QED BY <2>11, <2>12, <2>13, Zenon
<1> QED BY <1>5, <1>6, Zenon DEF PeerRecords

-----------------------------------------------------------------------------
ChunkPipes == [rest : Seq(PeerRecords), frames : Seq(Seq(PeerRecords)), sound : BOOLEAN, pending : ChunkStates,
               delivered : Seq(Seq(BytePlaces)), fatal : BOOLEAN]
\* A peer that errs nowhere: the first frame is under way, the second is, or both are done.
InFirst(p, d, rest, fs) ==
  \E i \in 1 .. Len(fs[1]) : StandsAt(p, fs[1], i - 1) /\ d = <<>> /\ rest = SubSeq(fs[1], i, Len(fs[1])) \o fs[2]
InSecond(p, d, rest, fs) ==
  \E i \in 1 .. Len(fs[2]) : StandsAt(p, fs[2], i - 1) /\ d = <<BytesOf(fs[1])>> /\ rest = SubSeq(fs[2], i, Len(fs[2]))
BothDone(p, d, rest, fs) == p = NoChunks /\ d = <<BytesOf(fs[1])>> \o <<BytesOf(fs[2])>> /\ rest = <<>>
OnTrack(p, d, rest, fs) == InFirst(p, d, rest, fs) \/ InSecond(p, d, rest, fs) \/ BothDone(p, d, rest, fs)
\* What is delivered are whole frames, and what is under way is within the limits.
Delivers(d, fs) == \A i \in DOMAIN d : \E k \in 1 .. 2 : Deliverable(fs[k]) /\ d[i] = BytesOf(fs[k])
WithinLength(p) == p # NoChunks => Len(p.data) <= p.length /\ p.length <= LogicalLimit
\* The inductive invariant of the chunk pipe, for the two frames it is about.
PipeRight(c, m) ==
  /\ c \in ChunkPipes /\ Len(c.frames) = 2 /\ TwoFrames(c.frames, m) /\ \A k \in 1 .. 2 : Measured(c.frames[k])
  /\ Onward(c.pending, c.rest, c.frames)
  /\ Delivers(c.delivered, c.frames)
  /\ ~c.fatal => WithinLength(c.pending)
  /\ c.sound /\ (\A k \in 1 .. 2 : Deliverable(c.frames[k])) => ~c.fatal /\ OnTrack(c.pending, c.delivered, c.rest, c.frames)
ChunkInv == chunkPipe = IdleChunks \/ \E m : PipeRight(chunkPipe, m)

\* The records from a place of the frame on.
RestFrom(s, f, j) ==
  s = SubSeq(f, j, Len(f)) /\ Len(s) = Len(f) - j + 1 /\ \A i \in 1 .. Len(f) - j + 1 : s[i] = f[j + i - 1]
AfterHead(rest, f, j, h) ==
  /\ Head(rest) = f[j]
  /\ j < Len(f) => Tail(rest) = SubSeq(f, j + 1, Len(f)) \o h
  /\ j = Len(f) => Tail(rest) = h

\* The records of a frame from a place on.
LEMMA RestOf ==
  ASSUME NEW S, NEW f \in Seq(S), NEW j \in 1 .. Len(f) + 1
  PROVE \E s \in Seq(S) : RestFrom(s, f, j)
<1> DEFINE s == SubSeq(f, j, Len(f))
<1>1. j \in Int /\ Len(f) \in Int /\ \A i \in j .. Len(f) : f[i] \in S OBVIOUS
<1>2. s \in Seq(S) /\ Len(s) = (IF j <= Len(f) THEN Len(f) - j + 1 ELSE 0) /\ \A i \in 1 .. Len(f) - j + 1 : s[i] = f[j + i - 1]
      BY <1>1, SubSeqProperties
<1>3. Len(s) = Len(f) - j + 1
  <2> HIDE DEF s
  <2>1. Len(f) \in Nat OBVIOUS
  <2> QED BY <1>2, <2>1
<1>4. RestFrom(s, f, j) BY <1>2, <1>3, Zenon DEF RestFrom
<1> HIDE DEF s
<1> QED BY <1>2, <1>4

\* The first of them, and those behind it.
LEMMA FirstRest ==
  ASSUME NEW S, NEW f \in Seq(S), NEW h \in Seq(S), NEW j \in 1 .. Len(f), NEW rest, rest = SubSeq(f, j, Len(f)) \o h
  PROVE AfterHead(rest, f, j, h)
<1> DEFINE n == Len(f)
<1>0. n \in Nat /\ j \in 1 .. n + 1 /\ j + 1 \in 1 .. n + 1 /\ n \in j - 1 .. n /\ n \in (j + 1) - 1 .. n OBVIOUS
<1>a. PICK s \in Seq(S) : RestFrom(s, f, j) BY <1>0, RestOf
<1>1. s = SubSeq(f, j, n) /\ Len(s) = n - j + 1 /\ \A i \in 1 .. n - j + 1 : s[i] = f[j + i - 1] BY <1>a, Zenon DEF RestFrom
<1>b. PICK k \in 1 .. n + 1 : k = j + 1 BY <1>0
<1>c. PICK t \in Seq(S) : RestFrom(t, f, k) BY RestOf
<1>2. t = SubSeq(f, j + 1, n) /\ Len(t) = n - j /\ \A i \in 1 .. n - j : t[i] = f[j + i]
  <2>2. t = SubSeq(f, k, n) /\ Len(t) = n - k + 1 /\ \A i \in 1 .. n - k + 1 : t[i] = f[k + i - 1] BY <1>c, Zenon DEF RestFrom
  <2> HIDE DEF n
  <2>4. n - k + 1 = n - j BY <1>b, <1>0
  <2>5. \A i \in 1 .. n - j : k + i - 1 = j + i BY <1>b, <1>0
  <2> QED BY <1>b, <2>2, <2>4, <2>5
<1> HIDE DEF n
<1>3. Len(s) = Len(t) + 1 /\ s[1] = f[j] /\ \A i \in 1 .. Len(t) : t[i] = s[i + 1]
  <2>1. 1 \in 1 .. n - j + 1 /\ j + 1 - 1 = j BY <1>0
  <2>2. \A i \in 1 .. n - j : i + 1 \in 1 .. n - j + 1 /\ j + (i + 1) - 1 = j + i BY <1>0
  <2>3. Len(s) = Len(t) + 1 BY <1>0, <1>1, <1>2
  <2>4. s[1] = f[j] BY <1>1, <2>1
  <2>5. ASSUME NEW i \in 1 .. Len(t) PROVE t[i] = s[i + 1]
    <3>1. i \in 1 .. n - j BY <1>2
    <3>2. s[i + 1] = f[j + (i + 1) - 1] BY <1>1, <2>2, <3>1, Zenon
    <3> QED BY <1>2, <2>2, <3>1, <3>2
  <2> QED BY <2>3, <2>4, <2>5
<1>4. Head(s) = f[j] /\ Tail(s) = t /\ s # <<>> BY <1>3
<1>5. Head(s \o h) = Head(s) /\ Tail(s \o h) = Tail(s) \o h BY <1>4
<1>6. j = n => t = <<>>
  <2>1. j = n => Len(t) = 0 BY <1>0, <1>2
  <2> QED BY <2>1
<1>7. <<>> \o h = h OBVIOUS
<1>8. rest = s \o h BY <1>1 DEF n
<1>9. Head(rest) = f[j] BY <1>4, <1>5, <1>8
<1>10. Tail(rest) = t \o h BY <1>4, <1>5, <1>8, Zenon
<1>11. j = n => Tail(rest) = h BY <1>6, <1>7, <1>10, Zenon
<1> QED BY <1>2, <1>9, <1>10, <1>11, Zenon DEF n, AfterHead

\* The empty sequence adds nothing.
LEMMA AddNothing == ASSUME NEW S, NEW s \in Seq(S) PROVE <<>> \o s = s /\ s \o <<>> = s
OBVIOUS

\* What a record on track makes of the sequence.
Tracks(a, f, i) ==
  /\ a.throws = FALSE
  /\ i < Len(f) => StandsAt(a.pending, f, i) /\ a.yields = <<>>
  /\ i = Len(f) => a.pending = NoChunks /\ a.yields = <<BytesOf(f)>>

\* TrackStep, for the record at the head.
LEMMA TrackHead ==
  ASSUME NEW fs, NEW m, TwoFrames(fs, m), NEW k \in 1 .. 2, Measured(fs[k]), Deliverable(fs[k]), NEW p \in ChunkStates,
         NEW i \in 1 .. Len(fs[k]), StandsAt(p, fs[k], i - 1), NEW c, c = fs[k][i]
  PROVE Tracks(AssembleChunk(p, c), fs[k], i)
BY TrackStep, Zenon DEF Tracks

\* Two frames within the limits, read record by record: no error, and each is delivered
\* when its last record is read.
LEMMA OnTrackStep ==
  ASSUME NEW fs, NEW m, TwoFrames(fs, m), \A k \in 1 .. 2 : Measured(fs[k]) /\ Deliverable(fs[k]),
         NEW p \in ChunkStates, NEW d, NEW rest \in Seq(PeerRecords), rest # <<>>, OnTrack(p, d, rest, fs)
  PROVE LET a == AssembleChunk(p, Head(rest)) IN a.throws = FALSE /\ OnTrack(a.pending, d \o a.yields, Tail(rest), fs)
<1>1. PICK f \in Seq(PeerRecords) : f = fs[1] /\ Len(f) # 0 BY DEF TwoFrames, WrittenAs
<1>2. PICK h \in Seq(PeerRecords) : h = fs[2] /\ Len(h) # 0 BY DEF TwoFrames, WrittenAs
<1> DEFINE a == AssembleChunk(p, Head(rest))
<1>3. Len(f) \in Nat /\ Len(h) \in Nat OBVIOUS
<1>4. BytesOf(f) \in Seq(BytePlaces) /\ BytesOf(h) \in Seq(BytePlaces) BY BytesType
<1>4a. <<BytesOf(f)>> \in Seq(Seq(BytePlaces)) BY <1>4
<1>5. CASE InFirst(p, d, rest, fs)
  <2>1. PICK j \in 1 .. Len(f) : StandsAt(p, fs[1], j - 1) /\ d = <<>> /\ rest = SubSeq(f, j, Len(f)) \o h
        BY <1>1, <1>2, <1>5, Zenon DEF InFirst
  <2>2. /\ Head(rest) = f[j]
        /\ j < Len(f) => Tail(rest) = SubSeq(f, j + 1, Len(f)) \o h
        /\ j = Len(f) => Tail(rest) = h
    <3>1. AfterHead(rest, f, j, h) BY <2>1, FirstRest, Zenon
    <3> QED BY <3>1, Zenon DEF AfterHead
  <2>4. /\ a.throws = FALSE
        /\ j < Len(fs[1]) => StandsAt(a.pending, fs[1], j) /\ a.yields = <<>>
        /\ j = Len(fs[1]) => a.pending = NoChunks /\ a.yields = <<BytesOf(fs[1])>>
    <3>1. StandsAt(p, fs[1], j - 1) /\ Measured(fs[1]) /\ Deliverable(fs[1]) /\ j \in 1 .. Len(fs[1]) /\ 1 \in 1 .. 2 BY <1>1, <2>1
    <3>2. Head(rest) = fs[1][j] BY <1>1, <2>2
    <3>3. Tracks(a, fs[1], j) BY <3>1, <3>2, TrackHead
    <3> QED BY <3>3, Zenon DEF Tracks
  <2> HIDE DEF a
  <2>5. CASE j < Len(f)
    <3>1. StandsAt(a.pending, fs[1], j) /\ a.yields = <<>> BY <1>1, <2>4, <2>5
    <3>2. PICK l \in 1 .. Len(fs[1]) : l = j + 1 /\ l - 1 = j BY <1>1, <1>3, <2>5
    <3>3. Tail(rest) = SubSeq(fs[1], l, Len(fs[1])) \o fs[2]
      <4>1. Tail(rest) = SubSeq(f, j + 1, Len(f)) \o h BY <2>2, <2>5, Zenon
      <4> QED BY <1>1, <1>2, <3>2, <4>1, Zenon
    <3>4. d \o a.yields = <<>> BY <2>1, <3>1
    <3>5. InFirst(a.pending, d \o a.yields, Tail(rest), fs) BY <3>1, <3>2, <3>3, <3>4, Zenon DEF InFirst
    <3> QED BY <2>4, <3>5, Zenon DEF OnTrack, a
  <2>6. CASE j = Len(f)
    <3>1. a.pending = NoChunks /\ a.yields = <<BytesOf(f)>> BY <1>1, <2>4, <2>6
    <3>2. Tail(rest) = h BY <2>2, <2>6
    <3>3. Tail(rest) = SubSeq(fs[2], 1, Len(fs[2]))
      <4>1. SubSeq(h, 1, Len(h)) = h OBVIOUS
      <4> QED BY <3>2, <4>1, <1>2, Zenon
    <3>4. d \o a.yields = <<BytesOf(fs[1])>>
      <4> DEFINE y == <<BytesOf(f)>>
      <4>1. y \in Seq(Seq(BytePlaces)) /\ a.yields = y BY <1>4a, <3>1
      <4> HIDE DEF y
      <4>2. <<>> \o y = y BY <4>1, AddNothing
      <4>3. d \o a.yields = y BY <2>1, <4>1, <4>2
      <4> QED BY <4>3, <1>1 DEF y
    <3>5. StandsAt(a.pending, fs[2], 0) /\ 1 - 1 = 0 BY <3>1 DEF StandsAt
    <3>6. 1 \in 1 .. Len(fs[2]) BY <1>2, <1>3
    <3>7. InSecond(a.pending, d \o a.yields, Tail(rest), fs) BY <3>3, <3>4, <3>5, <3>6, Zenon DEF InSecond
    <3> QED BY <2>4, <3>7, Zenon DEF OnTrack, a
  <2>7. j < Len(f) \/ j = Len(f) BY <1>3
  <2> QED BY <2>5, <2>6, <2>7, Zenon
<1>6. CASE InSecond(p, d, rest, fs)
  <2>1. PICK j \in 1 .. Len(h) : StandsAt(p, fs[2], j - 1) /\ d = <<BytesOf(f)>> /\ rest = SubSeq(h, j, Len(h))
        BY <1>1, <1>2, <1>6 DEF InSecond
  <2>0. rest = SubSeq(h, j, Len(h)) \o <<>> /\ <<>> \in Seq(PeerRecords) BY <2>1, AddNothing
  <2>2. /\ Head(rest) = h[j]
        /\ j < Len(h) => Tail(rest) = SubSeq(h, j + 1, Len(h)) \o <<>>
        /\ j = Len(h) => Tail(rest) = <<>>
    <3>1. AfterHead(rest, h, j, <<>>) BY <2>0, FirstRest, Zenon
    <3> QED BY <3>1, Zenon DEF AfterHead
  <2>4. /\ a.throws = FALSE
        /\ j < Len(fs[2]) => StandsAt(a.pending, fs[2], j) /\ a.yields = <<>>
        /\ j = Len(fs[2]) => a.pending = NoChunks /\ a.yields = <<BytesOf(fs[2])>>
    <3>1. StandsAt(p, fs[2], j - 1) /\ Measured(fs[2]) /\ Deliverable(fs[2]) /\ j \in 1 .. Len(fs[2]) /\ 2 \in 1 .. 2 BY <1>2, <2>1
    <3>2. Head(rest) = fs[2][j] BY <1>2, <2>2
    <3>3. Tracks(a, fs[2], j) BY <3>1, <3>2, TrackHead
    <3> QED BY <3>3, Zenon DEF Tracks
  <2> HIDE DEF a
  <2>5. CASE j < Len(h)
    <3>1. StandsAt(a.pending, fs[2], j) /\ a.yields = <<>> BY <1>2, <2>4, <2>5
    <3>2. PICK l \in 1 .. Len(fs[2]) : l = j + 1 /\ l - 1 = j BY <1>2, <1>3, <2>5
    <3>3. Tail(rest) = SubSeq(fs[2], l, Len(fs[2]))
      <4>1. Tail(rest) = SubSeq(h, j + 1, Len(h)) \o <<>> BY <2>2, <2>5, Zenon
      <4>2. SubSeq(h, l, Len(h)) \in Seq(PeerRecords)
        <5>1. l \in 1 .. Len(h) + 1 /\ Len(h) \in l - 1 .. Len(h) BY <1>2, <1>3, <3>2
        <5> QED BY <5>1, SubSeqProperties
      <4>3. SubSeq(h, l, Len(h)) \o <<>> = SubSeq(h, l, Len(h)) BY <4>2, AddNothing
      <4> QED BY <1>2, <3>2, <4>1, <4>3, Zenon
    <3>4. d \o a.yields = <<BytesOf(fs[1])>>
      <4> DEFINE y == <<BytesOf(f)>>
      <4>1. y \in Seq(Seq(BytePlaces)) /\ d = y BY <1>4a, <2>1
      <4> HIDE DEF y
      <4>2. y \o <<>> = y BY <4>1, AddNothing
      <4>3. d \o a.yields = y BY <3>1, <4>1, <4>2
      <4> QED BY <4>3, <1>1 DEF y
    <3>5. InSecond(a.pending, d \o a.yields, Tail(rest), fs) BY <3>1, <3>2, <3>3, <3>4, Zenon DEF InSecond
    <3> QED BY <2>4, <3>5, Zenon DEF OnTrack, a
  <2>6. CASE j = Len(h)
    <3>1. a.pending = NoChunks /\ a.yields = <<BytesOf(h)>> BY <1>2, <2>4, <2>6
    <3>2. Tail(rest) = <<>> BY <2>2, <2>6
    <3>4. d \o a.yields = <<BytesOf(fs[1])>> \o <<BytesOf(fs[2])>> BY <1>1, <1>2, <2>1, <3>1
    <3>5. BothDone(a.pending, d \o a.yields, Tail(rest), fs) BY <3>1, <3>2, <3>4, Zenon DEF BothDone
    <3> QED BY <2>4, <3>5, Zenon DEF OnTrack, a
  <2>7. j < Len(h) \/ j = Len(h) BY <1>3
  <2> QED BY <2>5, <2>6, <2>7, Zenon
<1>7. ~BothDone(p, d, rest, fs) BY DEF BothDone
<1> QED BY <1>5, <1>6, <1>7, Zenon DEF OnTrack

\* The fields of the chunk pipe.
LEMMA PipeFields == ASSUME NEW c \in ChunkPipes
  PROVE /\ c.rest \in Seq(PeerRecords) /\ c.frames \in Seq(Seq(PeerRecords)) /\ c.sound \in BOOLEAN /\ c.pending \in ChunkStates
        /\ c.delivered \in Seq(Seq(BytePlaces)) /\ c.fatal \in BOOLEAN
BY DEF ChunkPipes

\* Each element of a sequence with one more is an old one or the new one.
LEMMA OneMore ==
  ASSUME NEW S, NEW d \in Seq(S), NEW y \in Seq(S), Len(y) = 1, NEW i \in DOMAIN (d \o y)
  PROVE (i \in DOMAIN d /\ (d \o y)[i] = d[i]) \/ (d \o y)[i] = y[1]
<1>1. Len(d \o y) = Len(d) + 1 /\ d \o y \in Seq(S) /\ Len(d) \in Nat
      /\ \A j \in 1 .. Len(d) + 1 : (d \o y)[j] = IF j <= Len(d) THEN d[j] ELSE y[j - Len(d)] BY ConcatProperties, SMTT(30)
<1>2. i \in 1 .. Len(d) + 1
  <2> DEFINE w == d \o y
  <2>1. w \in Seq(S) /\ Len(w) = Len(d) + 1 /\ i \in DOMAIN w BY <1>1
  <2> HIDE DEF w
  <2>2. DOMAIN w = 1 .. Len(w) BY <2>1
  <2> QED BY <2>1, <2>2
<1>3. CASE i <= Len(d)
  <2>1. i \in DOMAIN d BY <1>1, <1>2, <1>3
  <2> QED BY <1>1, <1>2, <1>3, <2>1
<1>4. CASE ~(i <= Len(d))
  <2>1. i - Len(d) = 1 BY <1>1, <1>2, <1>4
  <2> QED BY <1>1, <1>2, <1>4, <2>1
<1> QED BY <1>3, <1>4

\* A sequence of two is made of its elements.
LEMMA PairIs ==
  ASSUME NEW S, NEW ss \in Seq(S), Len(ss) = 2
  PROVE ss = Append(Append(<<>>, ss[1]), ss[2])
<1>1. PICK x \in S : x = ss[1] OBVIOUS
<1>2. PICK y \in S : y = ss[2] OBVIOUS
<1>3. PICK one \in Seq(S) : one = Append(<<>>, x) /\ Len(one) = 1 /\ one[1] = x
  <2>1. Append(<<>>, x) \in Seq(S) /\ Len(Append(<<>>, x)) = 1 /\ Append(<<>>, x)[1] = x OBVIOUS
  <2> QED BY <2>1, Zenon
<1>4. PICK two \in Seq(S) : two = Append(one, y) /\ Len(two) = 2 /\ two[1] = x /\ two[2] = y
  <2>1. Append(one, y)[1] = one[1] /\ Append(one, y)[2] = y /\ Len(Append(one, y)) = 2 /\ Append(one, y) \in Seq(S) BY <1>3
  <2>2. PICK two \in Seq(S) : two = Append(one, y) BY <2>1, Zenon
  <2> QED BY <1>3, <2>1, <2>2, Zenon
<1>5. \A i \in 1 .. Len(ss) : ss[i] = two[i]
  <2>1. \A i \in 1 .. 2 : i = 1 \/ i = 2 OBVIOUS
  <2> QED BY <1>1, <1>2, <1>4, <2>1
<1>6. Len(ss) = Len(two) BY <1>4
<1>7. ss = two BY <1>5, <1>6, SeqEqual
<1> QED BY <1>1, <1>2, <1>3, <1>4, <1>7

\* Delivering what is yielded delivers only whole frames.
LEMMA DeliversMore ==
  ASSUME NEW fs, NEW d \in Seq(Seq(BytePlaces)), NEW y \in Seq(Seq(BytePlaces)), Delivers(d, fs), Yields(y, fs)
  PROVE Delivers(d \o y, fs)
<1>1. SUFFICES ASSUME NEW i \in DOMAIN (d \o y) PROVE \E k \in 1 .. 2 : Deliverable(fs[k]) /\ (d \o y)[i] = BytesOf(fs[k])
      BY DEF Delivers
<1>2. CASE y = <<>>
  <2>1. d \o y = d BY <1>2, AddNothing
  <2>2. i \in DOMAIN d /\ (d \o y)[i] = d[i] BY <2>1
  <2> QED BY <2>2 DEF Delivers
<1>3. CASE y # <<>>
  <2>1. PICK k \in 1 .. 2 : Deliverable(fs[k]) /\ y = <<BytesOf(fs[k])>> BY <1>3 DEF Yields
  <2>2. Len(y) = 1 /\ y[1] = BytesOf(fs[k]) BY <2>1
  <2>3. (i \in DOMAIN d /\ (d \o y)[i] = d[i]) \/ (d \o y)[i] = y[1]
    <3> DEFINE X == Seq(BytePlaces)
    <3>1. d \in Seq(X) /\ y \in Seq(X) OBVIOUS
    <3> HIDE DEF X
    <3> QED BY <1>1, <2>2, <3>1, OneMore
  <2> QED BY <2>1, <2>2, <2>3 DEF Delivers
<1> QED BY <1>2, <1>3, Zenon

\* The pipe after a record.
PipeOf(c, rest, q, d, t) == [c EXCEPT !.rest = rest, !.pending = q, !.delivered = d, !.fatal = t]

\* The fields of the chunk pipe after a record.
LEMMA PipeMoves ==
  ASSUME NEW c \in ChunkPipes, NEW rest \in Seq(PeerRecords), NEW q \in ChunkStates, NEW d \in Seq(Seq(BytePlaces)), NEW t \in BOOLEAN
  PROVE LET n == PipeOf(c, rest, q, d, t) IN
        /\ n \in ChunkPipes /\ n.rest = rest /\ n.frames = c.frames /\ n.sound = c.sound /\ n.pending = q
        /\ n.delivered = d /\ n.fatal = t
<1> DEFINE w == [c EXCEPT !.rest = rest]
           x == [w EXCEPT !.pending = q]
           y == [x EXCEPT !.delivered = d]
           z == [y EXCEPT !.fatal = t]
<1>1. w \in ChunkPipes /\ w.rest = rest /\ w.frames = c.frames /\ w.sound = c.sound BY Zenon DEF ChunkPipes
<1>2. PipeOf(c, rest, q, d, t) = z BY Zenon DEF PipeOf
<1> HIDE DEF w
<1>3. x \in ChunkPipes /\ x.rest = rest /\ x.frames = c.frames /\ x.sound = c.sound /\ x.pending = q BY <1>1, Zenon DEF ChunkPipes
<1> HIDE DEF x
<1>4. y \in ChunkPipes /\ y.rest = rest /\ y.frames = c.frames /\ y.sound = c.sound /\ y.pending = q /\ y.delivered = d
      BY <1>3, Zenon DEF ChunkPipes
<1> HIDE DEF y
<1>5. z \in ChunkPipes /\ z.rest = rest /\ z.frames = c.frames /\ z.sound = c.sound /\ z.pending = q /\ z.delivered = d /\ z.fatal = t
      BY <1>4, Zenon DEF ChunkPipes
<1> HIDE DEF z
<1> QED BY <1>2, <1>5, Zenon

\* A record keeps the invariant of the chunk pipe (handleRecord, PiRpcConnection.ts).
LEMMA HandleFrameKeeps == ASSUME ChunkInv, HandleFrame PROVE ChunkInv'
<1>1. chunkPipe # IdleChunks /\ chunkPipe.rest # <<>>
  <2>1. chunkPipe.rest # <<>> BY DEF HandleFrame
  <2>2. IdleChunks.rest = <<>> BY DEF IdleChunks
  <2> QED BY <2>1, <2>2
<1>2. PICK m : PipeRight(chunkPipe, m) BY <1>1, Zenon DEF ChunkInv
<1>3. PICK c \in ChunkPipes : c = chunkPipe BY <1>2 DEF PipeRight
<1>4. PICK fs : fs = c.frames OBVIOUS
<1>5. PICK p \in ChunkStates : p = c.pending BY PipeFields
<1>6. PICK rest \in Seq(PeerRecords) : rest = c.rest BY PipeFields
<1>7. PICK d \in Seq(Seq(BytePlaces)) : d = c.delivered BY PipeFields
<1>8. PICK fatal \in BOOLEAN : fatal = c.fatal BY PipeFields
<1>9. rest # <<>> /\ TwoFrames(fs, m) /\ Onward(p, rest, fs) /\ Delivers(d, fs) BY <1>1, <1>2, <1>3, <1>4, <1>5, <1>6, <1>7 DEF PipeRight
<1> DEFINE a == AssembleChunk(p, Head(rest))
<1>10. PICK q \in ChunkStates, y \in Seq(Seq(BytePlaces)), t \in BOOLEAN :
           /\ a = AssembledTo(q, y, t)
           /\ ~t /\ q # NoChunks => Len(q.data) <= q.length /\ q.length <= LogicalLimit
  <2>1. PICK h \in PeerRecords : h = Head(rest) BY <1>9, TailRecords
  <2> QED BY <2>1, AssembleShape, Zenon
<1>11. Onward(a.pending, Tail(rest), fs) /\ Yields(a.yields, fs) BY <1>9, OnwardStep
<1>12. c.sound /\ (\A k \in 1 .. 2 : Deliverable(fs[k])) => a.throws = FALSE /\ OnTrack(a.pending, d \o a.yields, Tail(rest), fs)
  <2> SUFFICES ASSUME c.sound, \A k \in 1 .. 2 : Deliverable(fs[k])
               PROVE a.throws = FALSE /\ OnTrack(a.pending, d \o a.yields, Tail(rest), fs) BY Zenon
  <2>1. \A k \in 1 .. 2 : Measured(fs[k]) /\ Deliverable(fs[k]) BY <1>2, <1>3, <1>4 DEF PipeRight
  <2>2. OnTrack(p, d, rest, fs) BY <1>2, <1>3, <1>4, <1>5, <1>6, <1>7 DEF PipeRight
  <2> QED BY <1>9, <2>1, <2>2, OnTrackStep, Zenon
<1>13. PICK tail \in Seq(PeerRecords) : tail = Tail(rest) BY <1>9, TailRecords, Zenon
<1> DEFINE nd == d \o y
           nf == fatal \/ t
           n == PipeOf(c, tail, q, nd, nf)
<1>14. nd \in Seq(Seq(BytePlaces)) /\ nf \in BOOLEAN OBVIOUS
<1> HIDE DEF a
<1>15. a.pending = q /\ a.yields = y /\ a.throws = t
  <2>1. a = AssembledTo(q, y, t) BY <1>10
  <2> QED BY <2>1, AssembledFields
<1>16. chunkPipe' = n
  <2>1. AssembleChunk(chunkPipe.pending, Head(chunkPipe.rest)) = a BY <1>3, <1>5, <1>6 DEF a
  <2>2. chunkPipe' = [chunkPipe EXCEPT !.rest = Tail(@), !.pending = a.pending,
                                       !.delivered = @ \o a.yields, !.fatal = @ \/ a.throws] BY <2>1, Zenon DEF HandleFrame
  <2>3. chunkPipe' = [c EXCEPT !.rest = Tail(rest), !.pending = q, !.delivered = d \o y, !.fatal = fatal \/ t]
        BY <1>3, <1>5, <1>6, <1>7, <1>8, <1>15, <2>2, Zenon
  <2> QED BY <1>13, <2>3, Zenon DEF PipeOf
<1> HIDE DEF nd, nf
<1>17. /\ n \in ChunkPipes /\ n.rest = tail /\ n.frames = c.frames /\ n.sound = c.sound /\ n.pending = q
       /\ n.delivered = nd /\ n.fatal = nf BY <1>14, PipeMoves
<1> HIDE DEF n
<1>18. Onward(n.pending, n.rest, n.frames) BY <1>4, <1>11, <1>13, <1>15, <1>17
<1>19. Delivers(n.delivered, n.frames)
  <2>1. Yields(y, fs) BY <1>11, <1>15
  <2>2. Delivers(nd, fs) BY <1>9, <2>1, DeliversMore DEF nd
  <2> QED BY <1>4, <1>17, <2>2
<1>20. ~n.fatal => WithinLength(n.pending)
  <2>1. ~n.fatal => ~t BY <1>17 DEF nf
  <2> QED BY <1>10, <1>17, <2>1 DEF WithinLength
<1>21. n.sound /\ (\A k \in 1 .. 2 : Deliverable(n.frames[k])) => ~n.fatal /\ OnTrack(n.pending, n.delivered, n.rest, n.frames)
  <2> SUFFICES ASSUME n.sound, \A k \in 1 .. 2 : Deliverable(n.frames[k])
               PROVE ~n.fatal /\ OnTrack(n.pending, n.delivered, n.rest, n.frames) OBVIOUS
  <2>1. c.sound /\ \A k \in 1 .. 2 : Deliverable(fs[k]) BY <1>4, <1>17
  <2>2. t = FALSE /\ OnTrack(q, nd, tail, fs) BY <1>12, <1>13, <1>15, <2>1 DEF nd
  <2>3. ~fatal BY <1>2, <1>3, <1>4, <1>8, <2>1 DEF PipeRight
  <2>4. ~nf BY <2>2, <2>3 DEF nf
  <2> QED BY <1>4, <1>17, <2>2, <2>4
<1>22. Len(n.frames) = 2 /\ TwoFrames(n.frames, m) /\ \A k \in 1 .. 2 : Measured(n.frames[k]) BY <1>2, <1>3, <1>17 DEF PipeRight
<1>23. PipeRight(n, m) BY <1>17, <1>18, <1>19, <1>20, <1>21, <1>22 DEF PipeRight
<1> QED BY <1>16, <1>23 DEF ChunkInv

-----------------------------------------------------------------------------
\* What a frame owes, and what two do.
DueOf(f) == IF Deliverable(f) THEN <<BytesOf(f)>> ELSE <<>>

\* What two frames owe, flattened.
LEMMA DueIs ==
  ASSUME NEW fs \in Seq(Seq(PeerRecords)), Len(fs) = 2
  PROVE FlattenSeq([i \in 1 .. 2 |-> DueOf(fs[i])]) = DueOf(fs[1]) \o DueOf(fs[2])
        /\ DueOf(fs[1]) \in Seq(Seq(BytePlaces)) /\ DueOf(fs[2]) \in Seq(Seq(BytePlaces))
<1> DEFINE X == Seq(BytePlaces)
           e == <<>>
<1>1. \A i \in 1 .. 2 : DueOf(fs[i]) \in Seq(X)
  <2> TAKE i \in 1 .. 2
  <2>1. fs[i] \in Seq(PeerRecords) BY ElementOfSeq, Zenon
  <2>2. BytesOf(fs[i]) \in X BY <2>1, BytesType
  <2>3. <<BytesOf(fs[i])>> \in Seq(X) /\ <<>> \in Seq(X) BY <2>2
  <2> QED BY <2>3 DEF DueOf
<1>2. PICK x \in Seq(X) : x = DueOf(fs[1]) BY <1>1
<1>3. PICK y \in Seq(X) : y = DueOf(fs[2]) BY <1>1
<1> DEFINE ss == [i \in 1 .. 2 |-> DueOf(fs[i])]
           one == Append(e, x)
           two == Append(one, y)
<1>4. e \in Seq(Seq(X)) /\ one \in Seq(Seq(X)) /\ two \in Seq(Seq(X)) /\ Len(two) = 2 /\ two[1] = x /\ two[2] = y BY <1>2, <1>3
<1>5. ss \in Seq(Seq(X)) /\ Len(ss) = 2 /\ ss[1] = x /\ ss[2] = y
  <2> HIDE DEF X
  <2>1. ss \in Seq(Seq(X)) BY <1>1, TableIsSeq
  <2> QED BY <1>2, <1>3, <2>1
<1>6. ss = two
  <2> DEFINE Y == Seq(X)
  <2> HIDE DEF ss, X, Y
  <2>1. ss \in Seq(Y) /\ Len(ss) = 2 BY <1>5 DEF Y
  <2>2. ss = Append(Append(<<>>, ss[1]), ss[2]) BY <2>1, PairIs
  <2> QED BY <1>5, <2>2
<1>7. FlattenSeq(two) = FlattenSeq(one) \o y
  <2> HIDE DEF one, X
  <2> QED BY <1>4, FlattenSnoc
<1>8. FlattenSeq(one) = FlattenSeq(e) \o x
  <2> HIDE DEF e, X
  <2> QED BY <1>4, FlattenSnoc
<1>9. <<>> \o x = x
  <2> HIDE DEF X
  <2> QED BY AddNothing
<1>10. FlattenSeq(ss) = x \o y
  <2> HIDE DEF ss, two, one, X
  <2> QED BY <1>6, <1>7, <1>8, <1>9, FlattenEmpty, Zenon
<1> QED BY <1>1, <1>2, <1>3, <1>10, Zenon

DueIn(fs) ==
  LET emitted == [i \in DOMAIN fs |-> BytesOf(fs[i])]
  IN  FlattenSeq([i \in DOMAIN emitted |-> IF Deliverable(fs[i]) THEN <<emitted[i]>> ELSE <<>>])

\* FramesWhole in terms of what is due.
LEMMA FramesWholeIs ==
  FramesWhole <=>
   /\ \A i \in DOMAIN chunkPipe.delivered : \E j \in DOMAIN DueIn(chunkPipe.frames) : chunkPipe.delivered[i] = DueIn(chunkPipe.frames)[j]
   /\ chunkPipe.sound /\ Len(DueIn(chunkPipe.frames)) = 2 => ~chunkPipe.fatal /\ IsPrefix(chunkPipe.delivered, DueIn(chunkPipe.frames))
   /\ chunkPipe.sound /\ Len(DueIn(chunkPipe.frames)) = 2 /\ chunkPipe.rest = <<>> => chunkPipe.delivered = DueIn(chunkPipe.frames)
   /\ ~chunkPipe.fatal /\ chunkPipe.pending # NoChunks => Len(chunkPipe.pending.data) <= LogicalLimit
BY Zenon DEF FramesWhole, DueIn

\* The invariant of the chunk pipe says that frames arrive whole.
LEMMA ChunkSays == ASSUME ChunkInv PROVE FramesWhole
<1>1. CASE chunkPipe = IdleChunks
  <2>1. chunkPipe.frames = <<>> /\ chunkPipe.delivered = <<>> /\ chunkPipe.pending = NoChunks BY <1>1 DEF IdleChunks
  <2>2. DueIn(<<>>) = <<>>
    <3> DEFINE fs == <<>>
               emitted == [i \in DOMAIN fs |-> BytesOf(fs[i])]
    <3>1. DOMAIN emitted = {} OBVIOUS
    <3>2. [i \in DOMAIN emitted |-> IF Deliverable(fs[i]) THEN <<emitted[i]>> ELSE <<>>] = <<>>
      <4> HIDE DEF emitted
      <4> QED BY <3>1
    <3>3. DueIn(<<>>) = FlattenSeq(<<>>) BY <3>2, Zenon DEF DueIn
    <3> QED BY <3>3, FlattenEmpty
  <2>3. DOMAIN chunkPipe.delivered = {} /\ Len(DueIn(chunkPipe.frames)) = 0 BY <2>1, <2>2
  <2>4. ~(Len(DueIn(chunkPipe.frames)) = 2) BY <2>3
  <2>5. \A i \in DOMAIN chunkPipe.delivered : \E j \in DOMAIN DueIn(chunkPipe.frames) : chunkPipe.delivered[i] = DueIn(chunkPipe.frames)[j]
        BY <2>3, Zenon
  <2> QED BY <2>1, <2>4, <2>5, FramesWholeIs, Zenon
<1>2. CASE chunkPipe # IdleChunks
  <2>1. PICK m : PipeRight(chunkPipe, m) BY <1>2, Zenon DEF ChunkInv
  <2>2. PICK c \in ChunkPipes : c = chunkPipe BY <2>1 DEF PipeRight
  <2>3. PICK fs \in Seq(Seq(PeerRecords)) : fs = c.frames BY PipeFields
  <2>4. Len(fs) = 2 /\ DOMAIN fs = 1 .. 2 BY <2>1, <2>2, <2>3 DEF PipeRight
  <2>5. PICK d \in Seq(Seq(BytePlaces)) : d = c.delivered BY PipeFields
  <2> DEFINE due == DueIn(fs)
  <2>6. due = DueOf(fs[1]) \o DueOf(fs[2])
    <3>1. due = FlattenSeq([i \in 1 .. 2 |-> DueOf(fs[i])]) BY <2>4, Zenon DEF DueIn, DueOf
    <3> HIDE DEF due
    <3> QED BY <2>4, <3>1, DueIs, Zenon
  <2> HIDE DEF due
  <2>7. FramesWhole <=>
         /\ \A i \in DOMAIN d : \E j \in DOMAIN due : d[i] = due[j]
         /\ c.sound /\ Len(due) = 2 => ~c.fatal /\ IsPrefix(d, due)
         /\ c.sound /\ Len(due) = 2 /\ c.rest = <<>> => d = due
         /\ ~c.fatal /\ c.pending # NoChunks => Len(c.pending.data) <= LogicalLimit
        BY <2>2, <2>3, <2>5, FramesWholeIs DEF due
  <2>8. PICK x \in Seq(Seq(BytePlaces)) : x = DueOf(fs[1]) BY <2>4, DueIs, Zenon
  <2>9. PICK y \in Seq(Seq(BytePlaces)) : y = DueOf(fs[2]) BY <2>4, DueIs, Zenon
  <2>10. /\ Deliverable(fs[1]) => x = <<BytesOf(fs[1])>> /\ Len(x) = 1 /\ x[1] = BytesOf(fs[1])
         /\ ~Deliverable(fs[1]) => x = <<>> /\ Len(x) = 0 BY <2>8 DEF DueOf
  <2>11. /\ Deliverable(fs[2]) => y = <<BytesOf(fs[2])>> /\ Len(y) = 1 /\ y[1] = BytesOf(fs[2])
         /\ ~Deliverable(fs[2]) => y = <<>> /\ Len(y) = 0 BY <2>9 DEF DueOf
  <2>12. due = x \o y BY <2>6, <2>8, <2>9
  <2>12a. due \in Seq(Seq(BytePlaces)) /\ Len(due) = Len(x) + Len(y) /\ Len(x) \in Nat /\ Len(y) \in Nat
          /\ \A i \in 1 .. Len(x) + Len(y) : due[i] = IF i <= Len(x) THEN x[i] ELSE y[i - Len(x)]
          BY <2>12, ConcatProperties
  <2>12b. DOMAIN due = 1 .. Len(x) + Len(y) BY <2>12a
  <2>13. ASSUME NEW i \in DOMAIN d PROVE \E j \in DOMAIN due : d[i] = due[j]
    <3>1. Delivers(d, fs) BY <2>1, <2>2, <2>3, <2>5 DEF PipeRight
    <3>2. PICK k \in 1 .. 2 : Deliverable(fs[k]) /\ d[i] = BytesOf(fs[k]) BY <3>1 DEF Delivers
    <3>3. CASE k = 1
      <4>1. Len(x) = 1 /\ x[1] = d[i] BY <2>10, <3>2, <3>3
      <4>2. 1 \in DOMAIN due /\ due[1] = x[1] BY <2>12a, <2>12b, <4>1
      <4> QED BY <4>1, <4>2
    <3>4. CASE k = 2
      <4>1. Len(y) = 1 /\ y[1] = d[i] BY <2>11, <3>2, <3>4
      <4>2. Len(x) + 1 \in DOMAIN due /\ due[Len(x) + 1] = y[1]
        <5>1. PICK l \in Nat : l = Len(x) BY <2>12a
        <5>2. l + 1 \in 1 .. l + 1 /\ ~(l + 1 <= l) /\ (l + 1) - l = 1 OBVIOUS
        <5>3. \A j \in 1 .. l + 1 : due[j] = IF j <= l THEN x[j] ELSE y[j - l] BY <2>12a, <4>1, <5>1
        <5>4. due[l + 1] = y[(l + 1) - l] BY <5>2, <5>3
        <5>5. due[l + 1] = y[1] BY <5>2, <5>4, Zenon
        <5> QED BY <2>12b, <4>1, <5>1, <5>2, <5>5
      <4> QED BY <4>1, <4>2
    <3> QED BY <3>3, <3>4
  <2>14. ASSUME c.sound, Len(due) = 2 PROVE ~c.fatal /\ IsPrefix(d, due) /\ (c.rest = <<>> => d = due)
    <3>1. Deliverable(fs[1]) /\ Deliverable(fs[2])
      <4>1. Len(x) + Len(y) = 2 BY <2>12a, <2>14, Zenon
      <4>a. Len(x) = 1 \/ Len(x) = 0 BY <2>10, Zenon
      <4>b. Len(y) = 1 \/ Len(y) = 0 BY <2>11, Zenon
      <4>2. Len(x) # 0 /\ Len(y) # 0
        <5> DEFINE l == Len(x)
                   n == Len(y)
        <5>1. (l = 1 \/ l = 0) /\ (n = 1 \/ n = 0) /\ l + n = 2 BY <4>1, <4>a, <4>b
        <5> HIDE DEF l, n
        <5>2. l # 0 /\ n # 0 BY <5>1
        <5> QED BY <5>2 DEF l, n
      <4> QED BY <2>10, <2>11, <4>2
    <3>2. \A k \in 1 .. 2 : Deliverable(fs[k]) BY <3>1
    <3>3. ~c.fatal /\ OnTrack(c.pending, d, c.rest, fs) BY <2>1, <2>2, <2>3, <2>5, <2>14, <3>2 DEF PipeRight
    <3>4. c.pending \in ChunkStates /\ \A k \in 1 .. 2 : WrittenAs(fs[k], NameOf(k, m))
          BY <2>1, <2>2, <2>3, PipeFields DEF PipeRight, TwoFrames
    <3>5. x = <<BytesOf(fs[1])>> /\ y = <<BytesOf(fs[2])>> BY <2>10, <2>11, <3>1
    <3>6. PICK f \in Seq(PeerRecords) : f = fs[1] /\ Len(f) # 0 /\ Len(f) \in Nat BY <3>4 DEF WrittenAs
    <3>7. PICK h \in Seq(PeerRecords) : h = fs[2] /\ Len(h) # 0 /\ Len(h) \in Nat BY <3>4 DEF WrittenAs
    <3>8. CASE InFirst(c.pending, d, c.rest, fs)
      <4>1. PICK j \in 1 .. Len(f) : d = <<>> /\ c.rest = SubSeq(f, j, Len(f)) \o h BY <3>6, <3>7, <3>8, Zenon DEF InFirst
      <4>2. IsPrefix(d, due)
        <5>1. due \in Seq(Seq(BytePlaces)) BY <2>12
        <5>2. Len(d) = 0 /\ SubSeq(d, 1, 0) = SubSeq(due, 1, 0) BY <4>1, <5>1
        <5> QED BY <5>1, <5>2 DEF IsPrefix
      <4>3. c.rest # <<>>
        <5>1. j \in 1 .. Len(f) + 1 BY <3>6
        <5>2. PICK s \in Seq(PeerRecords) : RestFrom(s, f, j) BY <5>1, RestOf
        <5>3. c.rest = s \o h BY <4>1, <5>2, Zenon DEF RestFrom
        <5>4. Len(s \o h) # 0 BY <3>7
        <5> QED BY <5>3, <5>4
      <4> QED BY <3>3, <4>2, <4>3
    <3>9. CASE InSecond(c.pending, d, c.rest, fs)
      <4>1. PICK j \in 1 .. Len(h) : d = <<BytesOf(fs[1])>> /\ c.rest = SubSeq(h, j, Len(h)) BY <3>7, <3>9, Zenon DEF InSecond
      <4>2. IsPrefix(d, due)
        <5>1. d = x BY <3>5, <4>1
        <5>2. Len(x) <= Len(x \o y) /\ SubSeq(x, 1, Len(x)) = SubSeq(x \o y, 1, Len(x)) OBVIOUS
        <5> QED BY <2>12, <5>1, <5>2 DEF IsPrefix
      <4>3. c.rest # <<>>
        <5>1. j \in 1 .. Len(h) + 1 BY <3>7
        <5>2. PICK s \in Seq(PeerRecords) : RestFrom(s, h, j) BY <5>1, RestOf
        <5>3. c.rest = s /\ Len(s) = Len(h) - j + 1 BY <4>1, <5>2, Zenon DEF RestFrom
        <5>4. Len(s) # 0 BY <3>7, <5>3
        <5> QED BY <5>3, <5>4
      <4> QED BY <3>3, <4>2, <4>3
    <3>10. CASE BothDone(c.pending, d, c.rest, fs)
      <4>1. d = due BY <2>12, <3>5, <3>10 DEF BothDone
      <4>2. IsPrefix(d, due)
        <5>1. Len(d) \in Nat OBVIOUS
        <5> QED BY <4>1, <5>1 DEF IsPrefix
      <4> QED BY <3>3, <4>1, <4>2
    <3> QED BY <3>3, <3>8, <3>9, <3>10 DEF OnTrack
  <2>15. ASSUME ~c.fatal, c.pending # NoChunks PROVE Len(c.pending.data) <= LogicalLimit
    <3>1. WithinLength(c.pending) BY <2>1, <2>2, <2>15 DEF PipeRight
    <3>2. c.pending \in Partials BY <2>15, PipeFields DEF ChunkStates
    <3>3. PICK b \in Seq(BytePlaces) : b = c.pending.data BY <3>2, PartialIs
    <3>4. Len(b) \in Nat /\ c.pending.length \in Nat /\ LogicalLimit \in Nat BY <3>2, PartialIs, FramingAssumption
    <3>5. Len(b) <= c.pending.length /\ c.pending.length <= LogicalLimit BY <2>15, <3>1, <3>3 DEF WithinLength
    <3>6. Len(b) <= LogicalLimit BY <3>4, <3>5
    <3> QED BY <3>3, <3>6
  <2> QED BY <2>7, <2>13, <2>14, <2>15
<1> QED BY <1>1, <1>2

\* A plain frame is written as one record.
LEMMA PlainWritten ==
  ASSUME NEW m \in Nat PROVE WrittenAs(PlainFrame(m), m) /\ Measured(PlainFrame(m))
<1> DEFINE t == FALSE
           d == <<<<m, 1>>>>
           c == [chunk |-> t, data |-> d]
           f == <<c>>
<1>1. d \in Seq(BytePlaces)
  <2>1. <<m, 1>> \in BytePlaces BY DEF BytePlaces
  <2> QED BY <2>1
<1>2. t \in {FALSE} OBVIOUS
<1> HIDE DEF t, d
<1>3. c \in PlainRecords BY <1>1, <1>2 DEF PlainRecords
<1>4. PlainFrame(m) = f BY Zenon DEF PlainFrame, t, d
<1> HIDE DEF c
<1>5. f \in Seq(PeerRecords) /\ Len(f) = 1 /\ f[1] = c
  <2>1. c \in PeerRecords BY <1>3 DEF PeerRecords
  <2> QED BY <2>1
<1> HIDE DEF f
<1>6. f[1] \in PlainRecords /\ f[1] \notin ChunkRecords BY <1>3, <1>5, RecordFields, PlainFields, Zenon
<1> QED BY <1>4, <1>5, <1>6 DEF WrittenAs, Measured

-----------------------------------------------------------------------------
\* The sum of the first i sizes.
FirstSum(sizes, i) == SumOf(SubSeq(sizes, 1, i))

\* The sum of the first sizes grows by each size,
LEMMA FirstSumGrows ==
  ASSUME NEW sizes \in Seq(Nat), NEW i \in 1 .. Len(sizes)
  PROVE /\ FirstSum(sizes, i) = FirstSum(sizes, i - 1) + sizes[i]
        /\ FirstSum(sizes, i) \in Nat /\ FirstSum(sizes, i - 1) \in Nat
<1>0. SubSeq(sizes, 1, i - 1) \in Seq(Nat)
  <2>1. \A j \in 1 .. i - 1 : sizes[j] \in Nat OBVIOUS
  <2> QED BY <2>1, SubSeqProperties
<1>1. PICK s \in Seq(Nat) : s = SubSeq(sizes, 1, i - 1) BY <1>0, Zenon
<1>2. PICK x \in Nat : x = sizes[i] OBVIOUS
<1>3. SubSeq(sizes, 1, i) = Append(s, x) BY <1>1, <1>2
<1>4. SumOf(Append(s, x)) = SumOf(s) + x /\ SumOf(s) \in Nat BY SumSnoc
<1>5. SumOf(s) + x \in Nat BY <1>4
<1> QED BY <1>1, <1>2, <1>3, <1>4, <1>5, Zenon DEF FirstSum

\* from zero to the sum of all,
LEMMA FirstSumEnds == ASSUME NEW sizes \in Seq(Nat) PROVE FirstSum(sizes, 0) = 0 /\ FirstSum(sizes, Len(sizes)) = SumOf(sizes)
<1>1. SubSeq(sizes, 1, 0) = <<>> /\ SubSeq(sizes, 1, Len(sizes)) = sizes OBVIOUS
<1> QED BY <1>1, SumEmpty, Zenon DEF FirstSum

\* and by at least one each time.
LEMMA FirstSumBounds ==
  ASSUME NEW sizes \in Seq(Nat), \A i \in 1 .. Len(sizes) : sizes[i] >= 1
  PROVE \A j \in 0 .. Len(sizes) : FirstSum(sizes, j) \in Nat /\ j <= FirstSum(sizes, j)
                                   /\ \A i \in 0 .. j : FirstSum(sizes, i) <= FirstSum(sizes, j)
<1> DEFINE F(i) == FirstSum(sizes, i)
           Good(j) == F(j) \in Nat /\ j <= F(j) /\ \A i \in 0 .. j : F(i) <= F(j)
           T == {j \in Nat : j <= Len(sizes) => Good(j)}
<1>1. 0 \in T
  <2>1. F(0) = 0 BY FirstSumEnds
  <2>2. \A i \in 0 .. 0 : i = 0 OBVIOUS
  <2> HIDE DEF F
  <2> QED BY <2>1, <2>2
<1>2. ASSUME NEW j \in Nat, j \in T PROVE j + 1 \in T
  <2> SUFFICES ASSUME j + 1 <= Len(sizes) PROVE Good(j + 1) OBVIOUS
  <2>1. Good(j) BY <1>2
  <2>2. PICK k \in 1 .. Len(sizes) : k = j + 1 /\ k - 1 = j OBVIOUS
  <2>3. F(k) = F(k - 1) + sizes[k] BY FirstSumGrows
  <2>4. PICK x \in Nat : x = sizes[k] /\ x >= 1 OBVIOUS
  <2>5. F(j + 1) = F(j) + x BY <2>2, <2>3, <2>4
  <2> HIDE DEF F
  <2>6. F(j + 1) \in Nat /\ j + 1 <= F(j + 1) BY <2>1, <2>4, <2>5
  <2>7. ASSUME NEW i \in 0 .. j + 1 PROVE F(i) <= F(j + 1)
    <3>1. CASE i = j + 1 BY <2>6, <3>1
    <3>2. CASE i # j + 1
      <4>1. i \in 0 .. j BY <3>2
      <4>2. F(i) <= F(j) BY <2>1, <4>1
      <4>3. F(i) \in Int
        <5>1. CASE i = 0
          <6>1. F(0) = 0 BY FirstSumEnds DEF F
          <6> QED BY <5>1, <6>1
        <5>2. CASE i # 0
          <6>1. i \in 1 .. Len(sizes) BY <4>1, <5>2
          <6>2. F(i) \in Nat BY <6>1, FirstSumGrows DEF F
          <6> QED BY <6>2
        <5> QED BY <5>1, <5>2
      <4> QED BY <2>1, <2>4, <2>5, <4>2, <4>3
    <3> QED BY <3>1, <3>2
  <2> QED BY <2>6, <2>7
<1>3. Nat \subseteq T
  <2> HIDE DEF T
  <2> QED BY <1>1, <1>2, Decoding!NatSetInduction, Zenon
<1>4. ASSUME NEW j \in 0 .. Len(sizes) PROVE Good(j)
  <2>1. j \in Nat /\ j <= Len(sizes) OBVIOUS
  <2> HIDE DEF Good
  <2> QED BY <1>3, <2>1
<1> QED BY <1>4

\* A payload has as many bytes as asked for.
LEMMA PayloadType ==
  ASSUME NEW m \in Nat, NEW from \in Nat, NEW n \in Nat, from >= 1
  PROVE Payload(m, from, from + n - 1) \in Seq(BytePlaces) /\ Len(Payload(m, from, from + n - 1)) = n
<1>1. (from + n - 1) - from + 1 = n OBVIOUS
<1>2. Payload(m, from, from + n - 1) = [i \in 1 .. n |-> <<m, from + i - 1>>] BY <1>1 DEF Payload
<1>3. \A i \in 1 .. n : <<m, from + i - 1>> \in BytePlaces
  <2> TAKE i \in 1 .. n
  <2>1. from + i - 1 \in Nat OBVIOUS
  <2> QED BY <2>1 DEF BytePlaces
<1>4. [i \in 1 .. n |-> <<m, from + i - 1>>] \in Seq(BytePlaces) BY <1>3, TableIsSeq
<1>5. Len([i \in 1 .. n |-> <<m, from + i - 1>>]) = n OBVIOUS
<1> QED BY <1>2, <1>4, <1>5, Zenon

\* A frame cut into chunks of any sizes is written as such a frame: every chunk with
\* its own index, the same count and length, and the lengths of the chunks add up.
LEMMA ChunkedWritten ==
  ASSUME NEW m \in Nat \ {0}, NEW sizes \in Seq(Nat), Len(sizes) # 0, \A i \in 1 .. Len(sizes) : sizes[i] >= 1
  PROVE WrittenAs(ChunkedFrame(m, sizes), m) /\ Measured(ChunkedFrame(m, sizes))
<1> DEFINE n == Len(sizes)
           t == TRUE
           From(i) == 1 + SumOf(SubSeq(sizes, 1, i - 1))
           Data(i) == Payload(m, From(i), From(i) + sizes[i] - 1)
           total == SumOf(sizes)
           C(i) == [chunk |-> t, id |-> m, index |-> i - 1, count |-> n, length |-> total, size |-> sizes[i],
                    base64 |-> t, data |-> Data(i)]
           f == ChunkedFrame(m, sizes)
<1>1. n \in Nat /\ \A j \in 0 .. n : FirstSum(sizes, j) \in Nat /\ j <= FirstSum(sizes, j)
                                   /\ \A i \in 0 .. j : FirstSum(sizes, i) <= FirstSum(sizes, j) BY FirstSumBounds
<1>2. total = FirstSum(sizes, n) /\ total \in Nat /\ n <= total
  <2>1. n \in 0 .. n /\ total = FirstSum(sizes, n) BY FirstSumEnds, <1>1
  <2> HIDE DEF n, total
  <2> QED BY <1>1, <2>1
<1>3. \A i \in 1 .. n : Data(i) \in Seq(BytePlaces) /\ Len(Data(i)) = sizes[i] /\ sizes[i] \in Nat /\ sizes[i] >= 1
  <2> TAKE i \in 1 .. n
  <2>1. PICK k \in Nat : k = From(i) /\ k >= 1
    <3>1. FirstSum(sizes, i - 1) \in Nat BY FirstSumGrows
    <3> QED BY <3>1 DEF FirstSum
  <2>2. PICK s \in Nat : s = sizes[i] /\ s >= 1 OBVIOUS
  <2>3. Payload(m, k, k + s - 1) \in Seq(BytePlaces) /\ Len(Payload(m, k, k + s - 1)) = s BY <2>1, PayloadType, ZenonT(30)
  <2> QED BY <2>1, <2>2, <2>3
<1>4. t \in {TRUE} /\ t \in BOOLEAN OBVIOUS
<1>5. f = [i \in 1 .. n |-> C(i)] BY Zenon DEF ChunkedFrame
<1> HIDE DEF t, Data, total
<1>6. \A i \in 1 .. n : /\ C(i) \in ChunkRecords /\ C(i).id = m /\ C(i).index = i - 1 /\ C(i).count = n /\ C(i).length = total
                        /\ C(i).base64 = t /\ C(i).data = Data(i)
  <2> TAKE i \in 1 .. n
  <2>1. i - 1 \in Nat /\ sizes[i] \in Nat /\ Data(i) \in Seq(BytePlaces) BY <1>3
  <2>2. PICK d \in Seq(BytePlaces) : d = Data(i) BY <2>1
  <2>3. PICK s \in Nat : s = sizes[i] BY <2>1
  <2>4. PICK k \in Nat : k = i - 1 BY <2>1
  <2> DEFINE c == [chunk |-> t, id |-> m, index |-> k, count |-> n, length |-> total, size |-> s, base64 |-> t, data |-> d]
  <2>5. C(i) = c BY <2>2, <2>3, <2>4
  <2> HIDE DEF n
  <2>6. c \in ChunkRecords BY <1>1, <1>2, <1>4 DEF ChunkRecords
  <2>7. c.id = m /\ c.index = k /\ c.count = n /\ c.length = total /\ c.base64 = t /\ c.data = d OBVIOUS
  <2> HIDE DEF c
  <2> QED BY <2>2, <2>4, <2>5, <2>6, <2>7 DEF n
<1> HIDE DEF C
<1>7. f \in Seq(PeerRecords) /\ Len(f) = n /\ \A i \in 1 .. n : f[i] = C(i)
  <2>1. \A i \in 1 .. n : C(i) \in PeerRecords BY <1>6 DEF PeerRecords
  <2> HIDE DEF n, f
  <2>2. [i \in 1 .. n |-> C(i)] \in Seq(PeerRecords) BY <1>1, <2>1, TableIsSeq
  <2>3. Len([i \in 1 .. n |-> C(i)]) = n BY <1>1
  <2> QED BY <1>5, <2>2, <2>3, Zenon
<1> HIDE DEF f
<1>8. n # 0 /\ 1 \in 1 .. n BY <1>1
<1> HIDE DEF n
<1>9. f[1].length = total BY <1>6, <1>7, <1>8
<1>10. WrittenAs(f, m)
  <2>1. \A i \in 1 .. n : ChunkAt(f[i], f, m, i) BY <1>6, <1>7, <1>9 DEF ChunkAt
  <2> QED BY <1>7, <1>8, <2>1 DEF WrittenAs
<1>11. \A i \in 1 .. n : f[i].id # 0 /\ DecodesToBytes(f[i])
  <2> TAKE i \in 1 .. n
  <2>1. f[i].id = m /\ f[i].base64 = t /\ f[i].data = Data(i) BY <1>6, <1>7, Zenon
  <2>2. PICK d \in Seq(BytePlaces) : d = Data(i) /\ Len(d) >= 1 BY <1>3
  <2>3. d # <<>> BY <2>2
  <2> QED BY <2>1, <2>2, <2>3, <1>4 DEF DecodesToBytes
<1> DEFINE T == {j \in Nat : j <= n => Len(FirstBytes(f, j)) = FirstSum(sizes, j)}
<1>12. 0 \in T
  <2>1. FirstBytes(f, 0) = <<>> BY <1>7, FirstBytesEnds
  <2>2. Len(FirstBytes(f, 0)) = 0 BY <2>1
  <2> QED BY <2>2, FirstSumEnds
<1>13. ASSUME NEW j \in Nat, j \in T PROVE j + 1 \in T
  <2> SUFFICES ASSUME j + 1 <= n PROVE Len(FirstBytes(f, j + 1)) = FirstSum(sizes, j + 1) OBVIOUS
  <2>1. PICK k \in 1 .. n : k = j + 1 /\ k - 1 = j BY <1>1
  <2>2. FirstBytes(f, k) = FirstBytes(f, k - 1) \o f[k].data /\ FirstBytes(f, k - 1) \in Seq(BytePlaces) BY <1>7, FirstBytesGrow, Zenon
  <2>3. FirstSum(sizes, k) = FirstSum(sizes, k - 1) + sizes[k] BY FirstSumGrows DEF n
  <2>4. PICK a \in Seq(BytePlaces) : a = FirstBytes(f, j) BY <2>1, <2>2
  <2>5. PICK b \in Seq(BytePlaces) : b = f[k].data /\ Len(b) = sizes[k] BY <1>3, <1>6, <1>7, Zenon
  <2>6. Len(a \o b) = Len(a) + Len(b) OBVIOUS
  <2>7. Len(a) = FirstSum(sizes, j) BY <1>1, <1>13, <2>4
  <2> QED BY <2>1, <2>2, <2>3, <2>4, <2>5, <2>6, <2>7, Zenon
<1>14. Nat \subseteq T
  <2> HIDE DEF T
  <2> QED BY <1>12, <1>13, Decoding!NatSetInduction, Zenon
<1>15. \A j \in 0 .. n : Len(FirstBytes(f, j)) = FirstSum(sizes, j) BY <1>1, <1>14
<1>16. Measured(f)
  <2>1. Len(BytesOf(f)) = total
    <3>1. FirstBytes(f, n) = BytesOf(f) BY <1>7, FirstBytesEnds
    <3>2. n \in 0 .. n BY <1>1
    <3> QED BY <1>2, <1>15, <3>1, <3>2
  <2>2. \A i \in 1 .. n : Len(FirstBytes(f, i)) <= total
    <3> TAKE i \in 1 .. n
    <3>1. i \in 0 .. n /\ n \in 0 .. n BY <1>1
    <3>2. FirstSum(sizes, i) <= FirstSum(sizes, n) BY <1>1, <3>1
    <3> QED BY <1>2, <1>15, <3>1, <3>2
  <2> QED BY <1>2, <1>7, <1>9, <1>11, <2>1, <2>2 DEF Measured
<1> QED BY <1>10, <1>16 DEF f

\* The sizes of a cut are positive.
LEMMA CutSizes ==
  ASSUME NEW sizes \in Cuts
  PROVE sizes \in Seq(Nat) /\ Len(sizes) # 0 /\ \A i \in 1 .. Len(sizes) : sizes[i] >= 1
<1>1. PICK n \in 1 .. 3 : sizes \in [1 .. n -> 1 .. FrameLimit + 1] BY DEF Cuts
<1>2. FrameLimit + 1 \in Nat BY FramingAssumption
<1>3. \A i \in 1 .. n : sizes[i] \in Nat /\ sizes[i] >= 1 BY <1>1, <1>2
<1>4. Len(sizes) = n /\ DOMAIN sizes = 1 .. n /\ sizes = [i \in 1 .. n |-> sizes[i]] BY <1>1
<1>5. [i \in 1 .. n |-> sizes[i]] \in Seq(Nat) BY <1>3, TableIsSeq
<1>6. sizes \in Seq(Nat) BY <1>4, <1>5, Zenon
<1>7. n # 0 BY <1>1
<1> QED BY <1>3, <1>4, <1>6, <1>7

\* Each first writing is a frame named 1.
LEMMA FirstsWritten ==
  ASSUME NEW first \in FirstWritings
  PROVE WrittenAs(first, 1) /\ Measured(first)
<1>1. CASE first = PlainFrame(1) BY <1>1, PlainWritten
<1>2. CASE \E sizes \in Cuts : first = ChunkedFrame(1, sizes)
  <2>1. PICK sizes \in Cuts : first = ChunkedFrame(1, sizes) BY <1>2
  <2> QED BY <2>1, CutSizes, ChunkedWritten
<1> QED BY <1>1, <1>2 DEF FirstWritings

\* Two equal sizes.
LEMMA TwoSizes ==
  ASSUME NEW a \in Nat, a >= 1
  PROVE <<a, a>> \in Seq(Nat) /\ Len(<<a, a>>) # 0 /\ \A i \in 1 .. Len(<<a, a>>) : <<a, a>>[i] >= 1
OBVIOUS

\* Each second writing is a frame of another name.
LEMMA SecondsWritten ==
  ASSUME NEW second \in SecondWritings
  PROVE \E m \in {2, OddFrame} : WrittenAs(second, m) /\ Measured(second)
<1>1. FrameLimit \in Nat /\ FrameLimit >= 1 BY FramingAssumption
<1>2. 2 \in Nat \ {0} /\ OddFrame \in Nat \ {0} BY DEF OddFrame
<1>3. CASE second = PlainFrame(2) BY <1>2, <1>3, PlainWritten
<1>4. CASE \E a \in {1, FrameLimit}, m \in {2, OddFrame} : second = ChunkedFrame(m, <<a, a>>)
  <2>1. PICK a \in {1, FrameLimit}, m \in {2, OddFrame} : second = ChunkedFrame(m, <<a, a>>) BY <1>4
  <2>2. a \in Nat /\ a >= 1 /\ m \in Nat \ {0} BY <1>1, <1>2
  <2>3. PICK s \in Seq(Nat) : s = <<a, a>> /\ Len(s) # 0 /\ \A i \in 1 .. Len(s) : s[i] >= 1 BY <2>2, TwoSizes, Zenon
  <2>4. WrittenAs(ChunkedFrame(m, s), m) /\ Measured(ChunkedFrame(m, s)) BY <2>2, <2>3, ChunkedWritten, Zenon
  <2> QED BY <2>1, <2>3, <2>4
<1> QED BY <1>3, <1>4 DEF SecondWritings

-----------------------------------------------------------------------------
\* Each record of the two frames is one of the first or one of the second, in order.
LEMMA Located ==
  ASSUME NEW fs, NEW m, TwoFrames(fs, m), NEW r \in DOMAIN (fs[1] \o fs[2])
  PROVE \E k \in 1 .. 2 : \E j \in 1 .. Len(fs[k]) :
           (fs[1] \o fs[2])[r] = fs[k][j] /\ r = IF k = 1 THEN j ELSE Len(fs[1]) + j
<1>1. fs[1] \in Seq(PeerRecords) /\ fs[2] \in Seq(PeerRecords) BY DEF TwoFrames, WrittenAs
<1>2. PICK f \in Seq(PeerRecords) : f = fs[1] BY <1>1
<1>3. PICK g \in Seq(PeerRecords) : g = fs[2] BY <1>1
<1>7. DOMAIN (f \o g) = 1 .. Len(f) + Len(g) BY ConcatProperties
<1>8. r \in DOMAIN (f \o g) BY <1>2, <1>3, Zenon
<1>4. r \in 1 .. Len(f) + Len(g) /\ (f \o g)[r] = IF r <= Len(f) THEN f[r] ELSE g[r - Len(f)]
      BY <1>7, <1>8, ConcatProperties
<1>5. CASE r <= Len(f)
  <2>1. r \in 1 .. Len(fs[1]) /\ (fs[1] \o fs[2])[r] = fs[1][r] BY <1>2, <1>3, <1>4, <1>5
  <2> QED BY <2>1
<1>6. CASE r > Len(f)
  <2>1. PICK j \in 1 .. Len(g) : r = Len(f) + j /\ j = r - Len(f) BY <1>4, <1>6
  <2>2. j \in 1 .. Len(fs[2]) /\ (fs[1] \o fs[2])[r] = fs[2][j] /\ r = Len(fs[1]) + j BY <1>2, <1>3, <1>4, <1>6, <2>1
  <2> QED BY <2>2
<1> QED BY <1>4, <1>5, <1>6

Genuines(fs) == {c \in PeerRecords : Genuine(c, fs)}

\* A sequence of genuine records.
LEMMA GenuinesAre ==
  ASSUME NEW fs, NEW rs \in Seq(Genuines(fs))
  PROVE rs \in Seq(PeerRecords) /\ \A r \in 1 .. Len(rs) : rs[r] \in PeerRecords /\ Genuine(rs[r], fs)
<1>1. PICK G \in SUBSET PeerRecords : G = Genuines(fs) BY DEF Genuines
<1>2. rs \in Seq(PeerRecords) BY <1>1
<1>3. \A r \in 1 .. Len(rs) : rs[r] \in Genuines(fs) OBVIOUS
<1> QED BY <1>2, <1>3 DEF Genuines

\* All records of the two frames are genuine.
LEMMA RecordsGenuine ==
  ASSUME NEW fs, NEW m, TwoFrames(fs, m)
  PROVE fs[1] \o fs[2] \in Seq(Genuines(fs))
<1>1. ASSUME NEW k \in 1 .. 2 PROVE fs[k] \in Seq(Genuines(fs))
  <2>1. fs[k] \in Seq(PeerRecords) BY DEF TwoFrames, WrittenAs
  <2>2. \A j \in 1 .. Len(fs[k]) : fs[k][j] \in Genuines(fs) BY <2>1 DEF Genuines, Genuine
  <2>3. fs[k] = [j \in 1 .. Len(fs[k]) |-> fs[k][j]] /\ Len(fs[k]) \in Nat BY <2>1
  <2> QED BY <2>2, <2>3, TableIsSeq
<1> QED BY <1>1, ConcatProperties

\* The records, or what one mistake leaves of them.
Damages(damage, records) == damage = records \/ damage \in Mistakes(records)
OneIsWrong(damage, records) == \E i \in 1 .. Len(records) : \E c \in Mistaken(records[i]) : damage = [records EXCEPT ![i] = c]

\* Missing and repeated records leave genuine ones; else one record is wrong.
LEMMA DamageIs ==
  ASSUME NEW S, NEW records \in Seq(S), NEW damage, Damages(damage, records)
  PROVE damage \in Seq(S) \/ OneIsWrong(damage, records)
<1> DEFINE n == Len(records)
<1>0. n \in Nat /\ \A i \in 1 .. n : records[i] \in S OBVIOUS
<1>1. ASSUME NEW i \in 1 .. n, NEW j \in 1 .. n, damage = SubSeq(records, 1, i - 1) \o SubSeq(records, j + 1, n)
      PROVE damage \in Seq(S)
  <2>1. SubSeq(records, 1, i - 1) \in Seq(S)
    <3>1. \A h \in 1 .. i - 1 : records[h] \in S BY <1>0
    <3> QED BY <3>1, SubSeqProperties
  <2>2. SubSeq(records, j + 1, n) \in Seq(S)
    <3>1. \A h \in j + 1 .. n : records[h] \in S BY <1>0
    <3> QED BY <1>0, <3>1, SubSeqProperties
  <2> QED BY <1>1, <2>1, <2>2, ConcatProperties
<1>2. ASSUME NEW i \in 1 .. n, NEW j \in 1 .. n, damage = InsertAt(records, i, records[j])
      PROVE damage \in Seq(S)
  <2>1. SubSeq(records, 1, i - 1) \in Seq(S)
    <3>1. \A h \in 1 .. i - 1 : records[h] \in S BY <1>0
    <3> QED BY <3>1, SubSeqProperties
  <2>2. SubSeq(records, i, n) \in Seq(S)
    <3>1. \A h \in i .. n : records[h] \in S BY <1>0
    <3> QED BY <1>0, <3>1, SubSeqProperties
  <2>3. <<records[j]>> \in Seq(S) BY <1>0
  <2>4. SubSeq(records, 1, i - 1) \o <<records[j]>> \in Seq(S) BY <2>1, <2>3, ConcatProperties
  <2>5. damage = (SubSeq(records, 1, i - 1) \o <<records[j]>>) \o SubSeq(records, i, n) BY <1>2, Zenon DEF InsertAt
  <2> QED BY <2>2, <2>4, <2>5, ConcatProperties
<1>3. \/ damage = records
      \/ \E i, j \in 1 .. n : damage = SubSeq(records, 1, i - 1) \o SubSeq(records, j + 1, n)
      \/ \E i \in 1 .. n, j \in 1 .. n : damage = InsertAt(records, i, records[j])
      \/ \E i \in 1 .. n : \E c \in Mistaken(records[i]) : damage = [records EXCEPT ![i] = c]
  <2> DEFINE Cut(i, j) == SubSeq(records, 1, i - 1) \o SubSeq(records, j + 1, n)
             A == {Cut(i, j) : i, j \in 1 .. n}
             B == {InsertAt(records, i, records[j]) : i \in 1 .. n, j \in 1 .. n}
             C == UNION {{[records EXCEPT ![i] = c] : c \in Mistaken(records[i])} : i \in 1 .. n}
  <2>1. Mistakes(records) = (A \cup B) \cup C BY DEF Mistakes
  <2>2. damage \in A => \E i, j \in 1 .. n : damage = Cut(i, j)
    <3> HIDE DEF Cut
    <3> QED OBVIOUS
  <2>3. damage \in B => \E i \in 1 .. n, j \in 1 .. n : damage = InsertAt(records, i, records[j]) OBVIOUS
  <2>4. damage \in C => \E i \in 1 .. n : \E c \in Mistaken(records[i]) : damage = [records EXCEPT ![i] = c] BY Zenon
  <2>5. damage \in A => \E i, j \in 1 .. n : damage = SubSeq(records, 1, i - 1) \o SubSeq(records, j + 1, n)
    <3> HIDE DEF A
    <3> QED BY <2>2, Zenon
  <2>6. damage = records \/ damage \in Mistakes(records) BY DEF Damages
  <2> HIDE DEF A, B, C, n
  <2> QED BY <2>1, <2>3, <2>4, <2>5, <2>6, Zenon
<1>4. CASE damage = records BY <1>4
<1>5. CASE \E i, j \in 1 .. n : damage = SubSeq(records, 1, i - 1) \o SubSeq(records, j + 1, n) BY <1>1, <1>5
<1>6. CASE \E i \in 1 .. n, j \in 1 .. n : damage = InsertAt(records, i, records[j]) BY <1>2, <1>6
<1>7. CASE \E i \in 1 .. n : \E c \in Mistaken(records[i]) : damage = [records EXCEPT ![i] = c] BY <1>7, Zenon DEF OneIsWrong
<1> QED BY <1>3, <1>4, <1>5, <1>6, <1>7, Zenon

\* With one record wrong, those before it come earlier in its frame and those behind it
\* later.
LEMMA DamagedOnward ==
  ASSUME NEW fs, NEW m, TwoFrames(fs, m), NEW q \in 1 .. Len(fs[1] \o fs[2]), NEW c \in Mistaken((fs[1] \o fs[2])[q]),
         NEW rest, rest = [fs[1] \o fs[2] EXCEPT ![q] = c]
  PROVE rest \in Seq(PeerRecords) /\ Onward(NoChunks, rest, fs)
<1>1. PICK rs \in Seq(Genuines(fs)) : rs = fs[1] \o fs[2] BY RecordsGenuine, Zenon
<1>13. q \in 1 .. Len(rs) BY <1>1, Zenon
<1>11. DOMAIN rs = 1 .. Len(rs) /\ q \in 1 .. Len(rs) BY <1>13
<1>12. rs \in Seq(PeerRecords) /\ \A r \in 1 .. Len(rs) : rs[r] \in PeerRecords /\ Genuine(rs[r], fs) BY GenuinesAre
<1>2. /\ DOMAIN rs = 1 .. Len(rs) /\ q \in 1 .. Len(rs) /\ rs \in Seq(PeerRecords)
      /\ \A r \in 1 .. Len(rs) : rs[r] \in PeerRecords /\ Genuine(rs[r], fs)
      BY <1>11, <1>12
<1>0. q \in DOMAIN (fs[1] \o fs[2]) BY <1>1, <1>2, Zenon
<1>10. PICK k \in 1 .. 2 : \E j \in 1 .. Len(fs[k]) : rs[q] = fs[k][j] /\ q = IF k = 1 THEN j ELSE Len(fs[1]) + j
      BY <1>0, <1>1, Located, Zenon
<1>3. PICK j \in 1 .. Len(fs[k]) : rs[q] = fs[k][j] /\ q = IF k = 1 THEN j ELSE Len(fs[1]) + j BY <1>10
<1>4. rs[q] \in ChunkRecords
  <2>1. rs[q] \in PlainRecords => Mistaken(rs[q]) = {} BY PlainFields, Zenon DEF Mistaken
  <2> QED BY <1>1, <1>2, <2>1, Zenon DEF PeerRecords
<1>9. rest = [rs EXCEPT ![q] = c] BY <1>1
<1>5. DOMAIN rest = DOMAIN rs /\ rest[q] = c /\ \A r \in DOMAIN rs : r # q => rest[r] = rs[r] BY <1>1, <1>2, Zenon
<1>6. RightSoFar(NoChunks, fs) BY DEF RightSoFar
<1>7. CASE c = rs[q]
  <2>1. rest = rs
    <3>1. PICK s \in Seq(PeerRecords) : s = rs BY <1>2
    <3>2. PICK d \in PeerRecords : d = s[q] BY <1>2, <3>1
    <3>3. [s EXCEPT ![q] = d] \in Seq(PeerRecords) /\ Len([s EXCEPT ![q] = d]) = Len(s) BY <1>2, <3>1, <3>2
    <3>4. \A i \in 1 .. Len(s) : [s EXCEPT ![q] = d][i] = s[i] BY <3>2
    <3>5. [s EXCEPT ![q] = d] = s BY <3>3, <3>4, SeqEqual
    <3> QED BY <1>7, <1>9, <3>1, <3>2, <3>5, Zenon
  <2>2. \A r \in DOMAIN rest : Genuine(rest[r], fs) BY <1>2, <2>1, Zenon
  <2>3. rest \in Seq(PeerRecords) BY <1>2, <2>1, Zenon
  <2> QED BY <1>6, <2>2, <2>3, Zenon DEF Onward
<1>8. CASE c # rs[q]
  <2>1. c \in ChunkRecords BY <1>1, <1>4, <1>8, MistakenIs
  <2>2. c \in PeerRecords BY <2>1 DEF PeerRecords
  <2>3. rest \in Seq(PeerRecords)
    <3>1. PICK s \in Seq(PeerRecords) : s = rs BY <1>2
    <3>2. [s EXCEPT ![q] = c] \in Seq(PeerRecords) BY <1>2, <2>2, <3>1
    <3> QED BY <1>9, <3>1, <3>2, Zenon
  <2>4. \A r \in DOMAIN rest : r # q => Genuine(rest[r], fs) BY <1>2, <1>5, Zenon
  <2>5. ASSUME NEW r \in DOMAIN rest, r # q, rest[r] \in ChunkRecords, rest[r].id = fs[k][j].id
        PROVE (r < q => rest[r].index < j - 1) /\ (r > q => rest[r].index > j - 1)
    <3>12. r \in DOMAIN rs BY <1>5, Zenon
    <3>1. rest[r] = rs[r] /\ r \in DOMAIN (fs[1] \o fs[2]) BY <1>1, <1>5, <2>5, <3>12, Zenon
    <3>11. PICK l \in 1 .. 2 : \E i \in 1 .. Len(fs[l]) : rs[r] = fs[l][i] /\ r = IF l = 1 THEN i ELSE Len(fs[1]) + i
      <4>1. \E l \in 1 .. 2 : \E i \in 1 .. Len(fs[l]) :
               (fs[1] \o fs[2])[r] = fs[l][i] /\ r = IF l = 1 THEN i ELSE Len(fs[1]) + i BY <3>1, Located, ZenonT(30)
      <4> QED BY <1>1, <4>1, Zenon
    <3>2. PICK i \in 1 .. Len(fs[l]) : rs[r] = fs[l][i] /\ r = IF l = 1 THEN i ELSE Len(fs[1]) + i BY <3>11
    <3>3. ChunkAt(fs[k][j], fs[k], NameOf(k, m), j) BY <1>3, <1>4, RecordIs
    <3>4. ChunkAt(fs[l][i], fs[l], NameOf(l, m), i) BY <2>5, <3>1, <3>2, RecordIs, Zenon
    <3>5. NameOf(k, m) = NameOf(l, m) BY <2>5, <3>1, <3>2, <3>3, <3>4, Zenon DEF ChunkAt
    <3>6. k = l BY <3>5, SameName
    <3>7. Len(fs[1]) \in Nat BY DEF TwoFrames, WrittenAs
    <3>8. (r < q => i < j) /\ (r > q => i > j) BY <1>3, <3>2, <3>6, <3>7
    <3>9. rest[r].index = i - 1 BY <3>1, <3>2, <3>4, Zenon DEF ChunkAt
    <3>10. i \in Int /\ j \in Int OBVIOUS
    <3> QED BY <3>8, <3>9, <3>10
  <2>6. rest[q] \in Mistaken(fs[k][j]) /\ fs[k][j] \in ChunkRecords /\ q \in DOMAIN rest BY <1>1, <1>2, <1>3, <1>4, <1>5, Zenon
  <2>7. MistakeAhead(NoChunks, rest, fs)
    <3>1. \A r \in DOMAIN rest : r < q /\ rest[r] \in ChunkRecords /\ rest[r].id = fs[k][j].id => rest[r].index < j - 1
      <4> TAKE r \in DOMAIN rest
      <4> HAVE r < q /\ rest[r] \in ChunkRecords /\ rest[r].id = fs[k][j].id
      <4>1. r # q BY <1>2
      <4> QED BY <2>5, <4>1, Zenon
    <3>2. \A r \in DOMAIN rest : r > q /\ rest[r] \in ChunkRecords /\ rest[r].id = fs[k][j].id => rest[r].index > j - 1
      <4> TAKE r \in DOMAIN rest
      <4> HAVE r > q /\ rest[r] \in ChunkRecords /\ rest[r].id = fs[k][j].id
      <4>1. r # q BY <1>2
      <4> QED BY <2>5, <4>1, Zenon
    <3> DEFINE Body(x, y, z) ==
          /\ fs[y][z] \in ChunkRecords /\ rest[x] \in Mistaken(fs[y][z])
          /\ \A r \in DOMAIN rest : r # x => Genuine(rest[r], fs)
          /\ \A r \in DOMAIN rest : r < x /\ rest[r] \in ChunkRecords /\ rest[r].id = fs[y][z].id => rest[r].index < z - 1
          /\ \A r \in DOMAIN rest : r > x /\ rest[r] \in ChunkRecords /\ rest[r].id = fs[y][z].id => rest[r].index > z - 1
          /\ NoChunks # NoChunks /\ NoChunks.id = fs[y][z].id => NoChunks.next <= z - 1
    <3>3. Body(q, k, j) BY <2>4, <2>6, <3>1, <3>2, Zenon
    <3>4. MistakeAhead(NoChunks, rest, fs) <=> \E x \in DOMAIN rest, y \in 1 .. 2 : \E z \in 1 .. Len(fs[y]) : Body(x, y, z)
          BY Zenon DEF MistakeAhead
    <3> HIDE DEF Body
    <3> QED BY <2>6, <3>3, <3>4, Zenon
  <2> QED BY <1>6, <2>3, <2>7, Zenon DEF Onward
<1> QED BY <1>7, <1>8, Zenon

\* The pipe before the first record.
StartsChunks(first, second, damage) ==
  chunkPipe = [IdleChunks EXCEPT !.rest = damage, !.frames = <<first, second>>, !.sound = damage = first \o second]
IsWhole(damage, first, second) == damage = first \o second
ChunkPipe(rest, frames, sound, pending, delivered, fatal) ==
  [rest |-> rest, frames |-> frames, sound |-> sound, pending |-> pending, delivered |-> delivered, fatal |-> fatal]

\* The first state of the chunk pipe, field by field.
LEMMA StartIs ==
  ASSUME NEW first, NEW second, NEW damage, StartsChunks(first, second, damage)
  PROVE chunkPipe = ChunkPipe(damage, <<first, second>>, IsWhole(damage, first, second), NoChunks, <<>>, FALSE)
<1> DEFINE fs == <<first, second>>
           t == IsWhole(damage, first, second)
           e == <<>>
           u == FALSE
           i == [rest |-> e, frames |-> e, sound |-> TRUE, pending |-> NoChunks, delivered |-> e, fatal |-> u]
<1>1. IdleChunks = i BY Zenon DEF IdleChunks
<1>2. chunkPipe = [[[i EXCEPT !.rest = damage] EXCEPT !.frames = fs] EXCEPT !.sound = t] BY <1>1, Zenon DEF StartsChunks, IsWhole
<1> HIDE DEF fs, t, e, u
<1>3. chunkPipe = [rest |-> damage, frames |-> fs, sound |-> t, pending |-> NoChunks, delivered |-> e, fatal |-> u] BY <1>2, Zenon
<1> QED BY <1>3, Zenon DEF ChunkPipe, fs, t, e, u

\* A pair is a sequence of two.
LEMMA PairOf ==
  ASSUME NEW S, NEW a \in S, NEW b \in S
  PROVE <<a, b>> \in Seq(S) /\ Len(<<a, b>>) = 2 /\ <<a, b>>[1] = a /\ <<a, b>>[2] = b
OBVIOUS

\* Whatever single mistake the peer makes, the invariant of the chunk pipe holds before
\* the first record.
LEMMA ChunkStartInv ==
  ASSUME NEW first \in FirstWritings, NEW second \in SecondWritings,
         NEW damage \in {first \o second} \cup Mistakes(first \o second), StartsChunks(first, second, damage)
  PROVE ChunkInv
<1>1. WrittenAs(first, 1) /\ Measured(first) BY FirstsWritten
<1>2. PICK m \in {2, OddFrame} : WrittenAs(second, m) /\ Measured(second) BY SecondsWritten
<1>3. first \in Seq(PeerRecords) /\ second \in Seq(PeerRecords) BY <1>1, <1>2 DEF WrittenAs
<1>4. PICK fs \in Seq(Seq(PeerRecords)) : fs = <<first, second>> /\ Len(fs) = 2 /\ fs[1] = first /\ fs[2] = second
  <2>1. PICK S : S = Seq(PeerRecords) OBVIOUS
  <2>2. <<first, second>> \in Seq(S) /\ Len(<<first, second>>) = 2 /\ <<first, second>>[1] = first /\ <<first, second>>[2] = second
        BY <1>3, <2>1, PairOf
  <2> QED BY <2>1, <2>2, Zenon
<1>5. TwoFrames(fs, m)
  <2>1. WrittenAs(fs[1], NameOf(1, m)) BY <1>1, <1>4 DEF NameOf
  <2>2. WrittenAs(fs[2], NameOf(2, m)) BY <1>2, <1>4 DEF NameOf
  <2>3. \A k \in 1 .. 2 : k = 1 \/ k = 2 OBVIOUS
  <2> QED BY <2>1, <2>2, <2>3 DEF TwoFrames
<1>6. \A k \in 1 .. 2 : Measured(fs[k])
  <2>1. \A k \in 1 .. 2 : k = 1 \/ k = 2 OBVIOUS
  <2> QED BY <1>1, <1>2, <1>4, <2>1
<1>7. damage \in Seq(PeerRecords) /\ Onward(NoChunks, damage, fs)
  <2>1. PICK rs \in Seq(Genuines(fs)) : rs = fs[1] \o fs[2] BY <1>5, RecordsGenuine, Zenon
  <2>2. rs = first \o second BY <1>4, <2>1
  <2>6. Damages(damage, rs)
    <3>1. damage = first \o second \/ damage \in Mistakes(first \o second) BY Zenon
    <3> QED BY <2>2, <3>1, Zenon DEF Damages
  <2>3. damage \in Seq(Genuines(fs)) \/ OneIsWrong(damage, rs) BY <2>6, DamageIs
  <2>4. CASE damage \in Seq(Genuines(fs))
    <3>1. damage \in Seq(PeerRecords) /\ \A r \in 1 .. Len(damage) : Genuine(damage[r], fs) BY <2>4, GenuinesAre
    <3>2. DOMAIN damage = 1 .. Len(damage) BY <3>1
    <3>3. RightSoFar(NoChunks, fs) BY DEF RightSoFar
    <3> QED BY <3>1, <3>2, <3>3, Zenon DEF Onward
  <2>5. CASE OneIsWrong(damage, rs)
    <3>1. \E i \in 1 .. Len(fs[1] \o fs[2]) : \E c \in Mistaken((fs[1] \o fs[2])[i]) : damage = [fs[1] \o fs[2] EXCEPT ![i] = c]
          BY <2>1, <2>5, Zenon DEF OneIsWrong
    <3> QED BY <1>5, <3>1, DamagedOnward, Zenon
  <2> QED BY <2>3, <2>4, <2>5
<1> DEFINE t == IsWhole(damage, first, second)
           e == <<>>
           u == FALSE
<1>8. t \in BOOLEAN /\ u \in BOOLEAN /\ e \in Seq(Seq(BytePlaces)) /\ DOMAIN e = {} BY DEF IsWhole
<1>9. NoChunks \in ChunkStates BY DEF ChunkStates
<1>10. PICK c \in ChunkPipes : /\ c = chunkPipe /\ c.rest = damage /\ c.frames = fs /\ c.sound = t /\ c.pending = NoChunks
                               /\ c.delivered = e /\ c.fatal = u
  <2>1. chunkPipe = ChunkPipe(damage, fs, t, NoChunks, e, u)
    <3>1. chunkPipe = ChunkPipe(damage, <<first, second>>, IsWhole(damage, first, second), NoChunks, <<>>, FALSE) BY StartIs, Zenon
    <3>2. fs = <<first, second>> BY <1>4
    <3> QED BY <3>1, <3>2, Zenon
  <2> HIDE DEF t, e, u
  <2> DEFINE c == [rest |-> damage, frames |-> fs, sound |-> t, pending |-> NoChunks, delivered |-> e, fatal |-> u]
  <2>3. chunkPipe = c BY <2>1, Zenon DEF ChunkPipe
  <2>2. /\ c \in ChunkPipes /\ c.rest = damage /\ c.frames = fs /\ c.sound = t /\ c.pending = NoChunks
        /\ c.delivered = e /\ c.fatal = u BY <1>7, <1>8, <1>9 DEF ChunkPipes
  <2> HIDE DEF c
  <2> QED BY <2>2, <2>3
<1>11. c.sound => OnTrack(NoChunks, e, damage, fs)
  <2> SUFFICES ASSUME damage = first \o second PROVE InFirst(NoChunks, e, damage, fs) BY <1>10, Zenon DEF OnTrack, IsWhole
  <2>1. PICK f \in Seq(PeerRecords) : f = fs[1] /\ Len(f) # 0 BY <1>1, <1>3, <1>4 DEF WrittenAs
  <2>2. SubSeq(f, 1, Len(f)) = f /\ 1 \in 1 .. Len(f) BY <2>1
  <2>3. damage = SubSeq(fs[1], 1, Len(fs[1])) \o fs[2] BY <1>4, <2>1, <2>2, Zenon
  <2>4. StandsAt(NoChunks, fs[1], 1 - 1) BY DEF StandsAt
  <2>5. 1 \in 1 .. Len(fs[1]) BY <2>1, <2>2
  <2> QED BY <2>3, <2>4, <2>5, Zenon DEF InFirst
<1>12. Delivers(e, fs) /\ WithinLength(NoChunks) BY <1>8 DEF Delivers, WithinLength
<1> HIDE DEF t, e, u
<1>13. u = FALSE BY DEF u
<1>14. PipeRight(c, m)
  <2>1. c \in ChunkPipes /\ Len(c.frames) = 2 /\ TwoFrames(c.frames, m) /\ \A k \in 1 .. 2 : Measured(c.frames[k])
        BY <1>4, <1>5, <1>6, <1>10
  <2>2. Onward(c.pending, c.rest, c.frames) BY <1>7, <1>10
  <2>3. Delivers(c.delivered, c.frames) /\ WithinLength(c.pending) BY <1>10, <1>12
  <2>4. c.sound => ~c.fatal /\ OnTrack(c.pending, c.delivered, c.rest, c.frames) BY <1>10, <1>11, <1>13
  <2> QED BY <2>1, <2>2, <2>3, <2>4 DEF PipeRight
<1> QED BY <1>10, <1>14 DEF ChunkInv

-----------------------------------------------------------------------------
\* The inductive invariant of the three pipes.
FramingInv == TextInv /\ ChunkInv /\ WireInv

\* A bounded text is a sequence.
LEMMA TextsAreSeqs == ASSUME NEW S, NEW n, NEW text \in BoundedSeq(S, n) PROVE text \in Seq(S)
BY DEF BoundedSeq, SeqOf

\* An idle pipe satisfies its invariant.
LEMMA IdleStarts ==
  /\ textPipe = IdleText => TextInv
  /\ chunkPipe = IdleChunks => ChunkInv
  /\ desktopPipe = IdleWire => WireInv
<1>1. <<>> \in Seq(StreamBytes) /\ <<>> \in Seq(WireBytes) OBVIOUS
<1>2. (textPipe = IdleText => textPipe = FreshText(<<>>)) /\ (desktopPipe = IdleWire => desktopPipe = FreshWire(<<>>))
      BY TextStarts, WireStarts
<1>3. ASSUME textPipe = IdleText PROVE TextInv BY <1>1, <1>2, <1>3, IdleTextInv, Zenon
<1>4. ASSUME desktopPipe = IdleWire PROVE WireInv BY <1>1, <1>2, <1>4, IdleWireInv, Zenon
<1> QED BY <1>3, <1>4 DEF ChunkInv

\* The invariant of the three pipes holds at first,
LEMMA FramingStartInv == ASSUME FramingStarts PROVE FramingInv
<1>1. CASE /\ \E text \in BoundedSeq(StreamBytes, MaxText) : textPipe = [IdleText EXCEPT !.rest = text, !.whole = text]
           /\ chunkPipe = IdleChunks /\ desktopPipe = IdleWire
  <2>1. PICK text \in BoundedSeq(StreamBytes, MaxText) : StartsText(text) BY <1>1, Zenon DEF StartsText
  <2>2. TextInv BY <2>1, TextsAreSeqs, TextStarts, IdleTextInv
  <2> QED BY <1>1, <2>2, IdleStarts DEF FramingInv
<1>2. CASE /\ \E first \in FirstWritings, second \in SecondWritings :
                LET records == first \o second IN
                \E damage \in {records} \union Mistakes(records) :
                   chunkPipe = [IdleChunks EXCEPT !.rest = damage, !.frames = <<first, second>>, !.sound = damage = records]
           /\ textPipe = IdleText /\ desktopPipe = IdleWire
  <2>1. PICK first \in FirstWritings, second \in SecondWritings :
          \E damage \in {first \o second} \cup Mistakes(first \o second) : StartsChunks(first, second, damage)
        BY <1>2, Zenon DEF StartsChunks
  <2>2. ChunkInv BY <2>1, ChunkStartInv
  <2> QED BY <1>2, <2>2, IdleStarts DEF FramingInv
<1>3. CASE /\ \E text \in BoundedSeq(WireBytes, MaxText) : desktopPipe = [IdleWire EXCEPT !.rest = text, !.whole = text]
           /\ textPipe = IdleText /\ chunkPipe = IdleChunks
  <2>1. PICK text \in BoundedSeq(WireBytes, MaxText) : StartsWire(text) BY <1>3, Zenon DEF StartsWire
  <2>2. WireInv BY <2>1, TextsAreSeqs, WireStarts, IdleWireInv
  <2> QED BY <1>3, <2>2, IdleStarts DEF FramingInv
<1> QED BY <1>1, <1>2, <1>3, Zenon DEF FramingStarts

\* A pipe that rests keeps its invariant.
LEMMA PipesRest ==
  /\ TextInv /\ UNCHANGED textPipe => TextInv'
  /\ ChunkInv /\ UNCHANGED chunkPipe => ChunkInv'
  /\ WireInv /\ UNCHANGED desktopPipe => WireInv'
<1>1. ASSUME TextInv, UNCHANGED textPipe PROVE TextInv' BY <1>1, Zenon DEF TextInv
<1>2. ASSUME ChunkInv, UNCHANGED chunkPipe PROVE ChunkInv' BY <1>2, Zenon DEF ChunkInv
<1>3. ASSUME WireInv, UNCHANGED desktopPipe PROVE WireInv' BY <1>3, Zenon DEF WireInv
<1> QED BY <1>1, <1>2, <1>3

\* every step keeps it,
LEMMA FramingStepKeeps == ASSUME FramingInv, FramingSteps \/ UNCHANGED framingVars PROVE FramingInv'
<1>1. TextInv /\ ChunkInv /\ WireInv BY DEF FramingInv
<1>2. ASSUME NEW n \in 1 .. Len(textPipe.rest), PushText(n) PROVE FramingInv'
  <2>1. UNCHANGED <<chunkPipe, desktopPipe>> BY <1>2, Zenon DEF PushText
  <2>2. TextInv' BY <1>1, <1>2, PushTextKeeps
  <2> QED BY <1>1, <2>1, <2>2, PipesRest DEF FramingInv
<1>3. ASSUME EndText PROVE FramingInv'
  <2>1. UNCHANGED <<chunkPipe, desktopPipe>> BY <1>3, Zenon DEF EndText
  <2>2. TextInv' BY <1>1, <1>3, EndTextKeeps
  <2> QED BY <1>1, <2>1, <2>2, PipesRest DEF FramingInv
<1>4. ASSUME HandleFrame PROVE FramingInv'
  <2>1. UNCHANGED <<textPipe, desktopPipe>> BY <1>4, Zenon DEF HandleFrame
  <2>2. ChunkInv' BY <1>1, <1>4, HandleFrameKeeps
  <2> QED BY <1>1, <2>1, <2>2, PipesRest DEF FramingInv
<1>5. ASSUME UNCHANGED <<textPipe, chunkPipe>>, WireInv' PROVE FramingInv' BY <1>1, <1>5, PipesRest DEF FramingInv
<1>6. ASSUME NEW n \in 1 .. Len(desktopPipe.rest), ReceiveData(n) PROVE FramingInv'
  <2>1. UNCHANGED <<textPipe, chunkPipe>> BY <1>6, Zenon DEF ReceiveData
  <2> QED BY <1>1, <1>5, <1>6, <2>1, ReceiveDataKeeps
<1>7. ASSUME EndInput PROVE FramingInv'
  <2>1. UNCHANGED <<textPipe, chunkPipe>> BY <1>7, Zenon DEF EndInput
  <2> QED BY <1>1, <1>5, <1>7, <2>1, EndInputKeeps
<1>8. ASSUME NEW input \in {"open", "failed"}, StreamFails(input) PROVE FramingInv'
  <2>1. UNCHANGED <<textPipe, chunkPipe>> BY <1>8, Zenon DEF StreamFails
  <2> QED BY <1>1, <1>5, <1>8, <2>1, StreamFailsKeeps
<1>9. ASSUME NEW size \in 1 .. FrameLimit + 1, SendPacket(size) PROVE FramingInv'
  <2>1. UNCHANGED <<textPipe, chunkPipe>> BY <1>9, Zenon DEF SendPacket
  <2> QED BY <1>1, <1>5, <1>9, <2>1, SendPacketKeeps
<1>10. ASSUME NEW ok \in BOOLEAN, WriteEnds(ok) PROVE FramingInv'
  <2>1. UNCHANGED <<textPipe, chunkPipe>> BY <1>10, Zenon DEF WriteEnds
  <2> QED BY <1>1, <1>5, <1>10, <2>1, WriteEndsKeeps
<1>11. ASSUME UNCHANGED framingVars PROVE FramingInv'
  <2>1. UNCHANGED textPipe /\ UNCHANGED chunkPipe /\ UNCHANGED desktopPipe BY <1>11 DEF framingVars
  <2> QED BY <1>1, <2>1, PipesRest DEF FramingInv
<1> QED BY <1>2, <1>3, <1>4, <1>6, <1>7, <1>8, <1>9, <1>10, <1>11 DEF FramingSteps

\* and it says what the three pipes promise: records arrive whole (JsonlDecoder.ts), frames
\* arrive whole (RpcChunkAssembler.ts) and the wire is honest (DesktopWire.ts).
LEMMA FramingInvSays == FramingInv => FramingHonest
BY TextSays, ChunkSays, WireSays DEF FramingInv, FramingHonest

\* However streams are cut into reads, the decoder yields the lines of what it received, each
\* frame of Oh My Pi arrives whole and once or not at all, and the desktop wire hears the frames
\* before the first bad one and loses none it accepted (JsonlDecoder.ts, RpcChunkAssembler.ts,
\* DesktopWire.ts).
THEOREM FramingStaysHonest == FramingStarts /\ [][FramingSteps]_framingVars => []FramingHonest
<1>1. FramingStarts => FramingInv BY FramingStartInv
<1>2. FramingInv /\ [FramingSteps]_framingVars => FramingInv' BY FramingStepKeeps
<1>3. FramingInv => FramingHonest BY FramingInvSays
<1> QED BY <1>1, <1>2, <1>3, PTL
=============================================================================
