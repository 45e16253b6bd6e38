----------------------------- MODULE FoldLemmas -----------------------------
(***************************************************************************)
(* What the folds of the community modules compute, for every sequence and *)
(* every finite set.  The induction they need is stated over sets of       *)
(* numbers, so that a proof can name the set; a fold's step is a function, *)
(* so that a proof can name it too.                                        *)
(***************************************************************************)
EXTENDS Integers, SequencesExt, FiniteSetsExt, FunctionTheorems, FiniteSetTheorems,
        SequenceTheorems, TLAPS

\* The numbers up to n outside P would be as many as the numbers below them.
LEMMA Induction ==
  ASSUME NEW P, 0 \in P, \A n \in Nat : n \in P => n + 1 \in P
  PROVE  \A n \in Nat : n \in P
<1> SUFFICES ASSUME NEW n \in Nat, n \notin P
             PROVE  FALSE
  OBVIOUS
<1> DEFINE Q == {k \in 0..n : k \notin P}
           f == [k \in Q |-> k - 1]
<1>1. ASSUME NEW k \in Q PROVE k - 1 \in Q
  <2>1. k \in Nat /\ k # 0 /\ k <= n
    OBVIOUS
  <2>2. k - 1 \in Nat /\ (k - 1) + 1 = k
    BY <2>1
  <2> QED
    BY <2>1, <2>2
<1>2. f \in [Q -> Q] /\ \A j, k \in Q : f[j] = f[k] => j = k
  BY <1>1
<1>3. f \in Injection(Q, Q)
  BY <1>2, Fun_IsInj
<1>4. IsFiniteSet(Q)
  <2>1. IsFiniteSet(0..n) /\ Q \in SUBSET (0..n)
    BY FS_Interval
  <2> QED
    BY <2>1, FS_Subset
<1>5. f \in Surjection(Q, Q)
  BY <1>3, <1>4, FS_Injection
<1>6. PICK k \in Q : f[k] = n
  BY <1>5, Fun_SurjectionProperties
<1> QED
  BY <1>6

\* Sequences grow at the end.
LEMMA SeqInduction ==
  ASSUME NEW X, NEW P, <<>> \in P,
         \A s \in Seq(X), x \in X : s \in P => Append(s, x) \in P
  PROVE  \A s \in Seq(X) : s \in P
<1> DEFINE Q == {n \in Nat : \A s \in Seq(X) : Len(s) = n => s \in P}
<1>1. 0 \in Q
  BY EmptySeq
<1>2. ASSUME NEW n \in Nat, n \in Q PROVE n + 1 \in Q
  <2> SUFFICES ASSUME NEW s \in Seq(X), Len(s) = n + 1 PROVE s \in P
    OBVIOUS
  <2>1. PICK r \in Seq(X), x \in X : s = Append(r, x) /\ Len(s) = Len(r) + 1
    <3>1. s # <<>>
      BY EmptySeq
    <3>2. PICK r \in Seq(X), x \in X : s = Append(r, x)
      BY <3>1, SequenceEmptyOrAppend
    <3> QED
      BY <3>2, AppendProperties
  <2>2. Len(r) = n
    BY <2>1, LenProperties
  <2> QED
    BY <1>2, <2>1, <2>2
<1> HIDE DEF Q
<1>3. \A n \in Nat : n \in Q
  BY <1>1, <1>2, Induction
<1> QED
  BY <1>3, LenProperties DEF Q

-----------------------------------------------------------------------------
(* MapThenFoldSet                                                          *)

\* A finite set without one of its elements.
LEMMA OneLess ==
  ASSUME NEW T, IsFiniteSet(T), NEW x \in T
  PROVE  Cardinality(T \ {x}) = Cardinality(T) - 1
BY FS_RemoveElement

Picks(pick, S) == \A T \in SUBSET S : T # {} => pick[T] \in T

\* A function of type V that MapThenFoldSet may take its value from.
IsFold(it, S, V, base, pick, step) ==
  /\ it \in [SUBSET S -> V]
  /\ it = [T \in SUBSET S |-> IF T = {} THEN base ELSE step[pick[T]][it[T \ {pick[T]}]]]

\* MapThenFoldSet has a function to take its value from.
LEMMA FoldExists ==
  ASSUME NEW S, IsFiniteSet(S), NEW V, NEW base \in V,
         NEW pick, Picks(pick, S),
         NEW step, \A x \in S, v \in V : step[x][v] \in V
  PROVE  \E it : IsFold(it, S, V, base, pick, step)
<1> DEFINE Sub(n) == {T \in SUBSET S : Cardinality(T) <= n}
           Upto(g, n) == \A T \in Sub(n) :
             g[T] = IF T = {} THEN base ELSE step[pick[T]][g[T \ {pick[T]}]]
           P == {n \in Nat : \E g \in [Sub(n) -> V] : Upto(g, n)}
<1>1. \A T \in SUBSET S : Cardinality(T) \in Nat /\ (Cardinality(T) = 0 <=> T = {})
  BY FS_Subset, FS_CardinalityType, FS_EmptySet
<1>2. 0 \in P
  <2>1. \A T \in Sub(0) : T = {}
    BY <1>1
  <2>2. [T \in Sub(0) |-> base] \in [Sub(0) -> V]
    OBVIOUS
  <2>3. Upto([T \in Sub(0) |-> base], 0)
    BY <2>1
  <2> QED
    BY <2>2, <2>3
<1>3. ASSUME NEW n \in Nat, n \in P PROVE n + 1 \in P
  <2>1. PICK g \in [Sub(n) -> V] : Upto(g, n)
    BY <1>3
  <2> DEFINE h == [T \in Sub(n + 1) |->
                     IF T = {} THEN base ELSE step[pick[T]][g[T \ {pick[T]}]]]
  <2>2. ASSUME NEW T \in Sub(n + 1), T # {}
        PROVE  pick[T] \in T /\ T \ {pick[T]} \in Sub(n)
    <3>1. pick[T] \in T /\ IsFiniteSet(T)
      BY <2>2, FS_Subset DEF Picks
    <3>2. Cardinality(T \ {pick[T]}) = Cardinality(T) - 1
      BY <3>1, OneLess
    <3> QED
      BY <3>1, <3>2, <1>1
  <2>3. ASSUME NEW T \in Sub(n) PROVE T \in Sub(n + 1) /\ h[T] = g[T]
    <3>1. T \in Sub(n + 1)
      BY <1>1
    <3>2. g[T] = IF T = {} THEN base ELSE step[pick[T]][g[T \ {pick[T]}]]
      BY <2>1
    <3> QED
      BY <3>1, <3>2
  <2>4. h \in [Sub(n + 1) -> V]
    <3> SUFFICES ASSUME NEW T \in Sub(n + 1)
                 PROVE  (IF T = {} THEN base ELSE step[pick[T]][g[T \ {pick[T]}]]) \in V
      OBVIOUS
    <3> QED
      BY <2>1, <2>2
  <2>5. Upto(h, n + 1)
    BY <2>2, <2>3
  <2> HIDE DEF h, Upto, Sub
  <2> QED
    BY <2>4, <2>5
<1> HIDE DEF P
<1>4. Cardinality(S) \in P
  BY <1>1, <1>2, <1>3, Induction
<1> USE DEF P
<1>5. Sub(Cardinality(S)) = SUBSET S
  BY <1>1, FS_Subset
<1>6. PICK g \in [SUBSET S -> V] : Upto(g, Cardinality(S))
  BY <1>4, <1>5
<1>7. \A T \in SUBSET S :
        g[T] = IF T = {} THEN base ELSE step[pick[T]][g[T \ {pick[T]}]]
  BY <1>5, <1>6
<1>8. g = [T \in SUBSET S |-> g[T]]
  BY <1>6
<1>9. g = [T \in SUBSET S |-> IF T = {} THEN base ELSE step[pick[T]][g[T \ {pick[T]}]]]
  BY <1>7, <1>8
<1> QED
  BY <1>6, <1>9 DEF IsFold

\* The equation, where the values are of type V.
Follows(it, S, V, base, pick, step) ==
  /\ it[{}] = base
  /\ \A T \in SUBSET S : T # {} /\ it[T \ {pick[T]}] \in V
                           => it[T] = step[pick[T]][it[T \ {pick[T]}]]

\* It has no other.
LEMMA FoldUnique ==
  ASSUME NEW S, IsFiniteSet(S), NEW V, NEW base \in V,
         NEW pick, Picks(pick, S),
         NEW step, NEW g, IsFold(g, S, V, base, pick, step),
         NEW it, Follows(it, S, V, base, pick, step)
  PROVE  \A T \in SUBSET S : it[T] = g[T]
<1> DEFINE P == {n \in Nat : \A T \in SUBSET S : Cardinality(T) = n => it[T] = g[T]}
<1>0. \A T \in SUBSET S : g[T] = IF T = {} THEN base ELSE step[pick[T]][g[T \ {pick[T]}]]
  BY DEF IsFold
<1>1. \A T \in SUBSET S : Cardinality(T) \in Nat /\ (Cardinality(T) = 0 <=> T = {})
  BY FS_Subset, FS_CardinalityType, FS_EmptySet
<1>2. 0 \in P
  BY <1>0, <1>1 DEF Follows
<1>3. ASSUME NEW n \in Nat, n \in P PROVE n + 1 \in P
  <2> SUFFICES ASSUME NEW T \in SUBSET S, Cardinality(T) = n + 1
               PROVE  it[T] = g[T]
    OBVIOUS
  <2>1. T # {} /\ pick[T] \in T /\ IsFiniteSet(T)
    BY <1>1, FS_Subset DEF Picks
  <2>2. Cardinality(T \ {pick[T]}) = n
    <3>1. Cardinality(T \ {pick[T]}) = Cardinality(T) - 1
      BY <2>1, OneLess
    <3> QED
      BY <3>1
  <2>3. it[T \ {pick[T]}] = g[T \ {pick[T]}]
    BY <1>3, <2>2
  <2>4. g[T \ {pick[T]}] \in V
    BY DEF IsFold
  <2> QED
    BY <1>0, <2>1, <2>3, <2>4 DEF Follows
<1> HIDE DEF P
<1>4. \A n \in Nat : n \in P
  BY <1>2, <1>3, Induction
<1> QED
  BY <1>1, <1>4 DEF P

-----------------------------------------------------------------------------
(* FoldLeft                                                                *)

\* A set of numbers up to n has a maximum.
LEMMA MaxIn ==
  ASSUME NEW n \in Nat, NEW T \in SUBSET (1..n), T # {}
  PROVE  Max(T) \in T /\ \A y \in T : y <= Max(T)
<1> DEFINE Has(S) == \E x \in S : \A y \in S : x >= y
           P == {m \in Nat : \A S \in SUBSET (1..m) : S # {} => Has(S)}
<1>1. 0 \in P
  <2>1. 1..0 = {}
    OBVIOUS
  <2> QED
    BY <2>1
<1>2. ASSUME NEW m \in Nat, m \in P PROVE m + 1 \in P
  <2> SUFFICES ASSUME NEW S \in SUBSET (1..(m + 1)), S # {}
               PROVE  Has(S)
    OBVIOUS
  <2>1. CASE m + 1 \in S
    BY <2>1
  <2>2. CASE m + 1 \notin S
    <3>1. S \in SUBSET (1..m)
      BY <2>2
    <3> QED
      BY <1>2, <3>1
  <2> QED
    BY <2>1, <2>2
<1> HIDE DEF P
<1>3. n \in P
  BY <1>1, <1>2, Induction
<1>4. Has(T)
  BY <1>3 DEF P
<1> QED
  BY <1>4 DEF Max

IsStep(F, V, X) == F \in [V -> [X -> V]]

\* The function FoldLeft takes its value from, for a step F that is a function.
LeftFold(it, V, F, base, s) ==
  /\ it \in [SUBSET DOMAIN s -> V]
  /\ it = [T \in SUBSET DOMAIN s |->
             IF T = {} THEN base ELSE F[it[T \ {Max(T)}]][s[Max(T)]]]

\* What satisfies the same equation where its values are of type V.
LeftFollows(it, V, F, base, s) ==
  /\ it[{}] = base
  /\ \A T \in SUBSET DOMAIN s : T # {} /\ it[T \ {Max(T)}] \in V
                                  => it[T] = F[it[T \ {Max(T)}]][s[Max(T)]]

\* The index FoldLeft treats last.
LEMMA LeftFoldTurn ==
  ASSUME NEW X, NEW s \in Seq(X), NEW T \in SUBSET DOMAIN s, T # {}
  PROVE  /\ Max(T) \in T /\ Max(T) \in DOMAIN s /\ s[Max(T)] \in X
         /\ T \ {Max(T)} \in SUBSET DOMAIN s
<1>1. Len(s) \in Nat /\ DOMAIN s = 1..Len(s)
  BY LenProperties
<1>2. Max(T) \in T
  BY <1>1, MaxIn
<1> QED
  BY <1>1, <1>2, ElementOfSeq

\* FoldLeft has a function to take its value from.
LEMMA LeftFoldExists ==
  ASSUME NEW V, NEW X, NEW base \in V, NEW F, IsStep(F, V, X), NEW s \in Seq(X)
  PROVE  \E it : LeftFold(it, V, F, base, s)
<1> DEFINE D == DOMAIN s
           pick == [T \in SUBSET D |-> Max(T)]
           step == [i \in D |-> [v \in V |-> F[v][s[i]]]]
<1>1. IsFiniteSet(D)
  <2>1. Len(s) \in Nat /\ D = 1..Len(s)
    BY LenProperties
  <2> QED
    BY <2>1, FS_Interval
<1>2. \A T \in SUBSET D : T # {} => pick[T] \in T /\ pick[T] = Max(T) /\ T \ {Max(T)} \in SUBSET D
  BY LeftFoldTurn
<1>3. \A i \in D, v \in V : step[i][v] \in V /\ step[i][v] = F[v][s[i]]
  BY LenProperties DEF IsStep
<1>4. PICK it : IsFold(it, D, V, base, pick, step)
  <2>1. Picks(pick, D)
    BY <1>2 DEF Picks
  <2> HIDE DEF pick, step, D
  <2> QED
    BY <1>1, <1>3, <2>1, FoldExists
<1>5. ASSUME NEW T \in SUBSET D, T # {}
      PROVE  step[pick[T]][it[T \ {pick[T]}]] = F[it[T \ {Max(T)}]][s[Max(T)]]
  <2> HIDE DEF pick, step
  <2> QED
    BY <1>2, <1>3, <1>4, <1>5 DEF IsFold
<1>6. it = [T \in SUBSET D |-> IF T = {} THEN base ELSE step[pick[T]][it[T \ {pick[T]}]]]
  BY <1>4 DEF IsFold
<1>7. it = [T \in SUBSET D |-> IF T = {} THEN base ELSE F[it[T \ {Max(T)}]][s[Max(T)]]]
  <2> HIDE DEF pick, step
  <2> QED
    BY <1>5, <1>6
<1> QED
  BY <1>4, <1>7 DEF LeftFold, IsFold

\* A function whose values follow F as long as they are of type V is the one
\* FoldLeft takes its value from.
LEMMA LeftFoldUnique ==
  ASSUME NEW V, NEW X, NEW base \in V, NEW F, IsStep(F, V, X), NEW s \in Seq(X),
         NEW g, LeftFold(g, V, F, base, s), NEW it, LeftFollows(it, V, F, base, s)
  PROVE  \A T \in SUBSET DOMAIN s : it[T] = g[T]
<1> DEFINE D == DOMAIN s
           pick == [T \in SUBSET D |-> Max(T)]
           step == [i \in D |-> [v \in V |-> F[v][s[i]]]]
<1>1. IsFiniteSet(D)
  <2>1. Len(s) \in Nat /\ D = 1..Len(s)
    BY LenProperties
  <2> QED
    BY <2>1, FS_Interval
<1>2. \A T \in SUBSET D : T # {} => pick[T] \in T /\ pick[T] = Max(T) /\ T \ {Max(T)} \in SUBSET D
  BY LeftFoldTurn
<1>3. \A i \in D, v \in V : step[i][v] = F[v][s[i]]
  OBVIOUS
<1>4. /\ g \in [SUBSET D -> V]
      /\ g = [T \in SUBSET D |-> IF T = {} THEN base ELSE F[g[T \ {Max(T)}]][s[Max(T)]]]
  BY DEF LeftFold
<1>5. ASSUME NEW T \in SUBSET D, T # {}
      PROVE  F[g[T \ {Max(T)}]][s[Max(T)]] = step[pick[T]][g[T \ {pick[T]}]]
  <2>1. pick[T] = Max(T) /\ Max(T) \in D /\ g[T \ {Max(T)}] \in V
    BY <1>4, <1>5, LeftFoldTurn
  <2> HIDE DEF pick, step
  <2> QED
    BY <1>3, <2>1
<1>6. IsFold(g, D, V, base, pick, step)
  <2> HIDE DEF pick, step
  <2> QED
    BY <1>4, <1>5 DEF IsFold
<1>7. ASSUME NEW T \in SUBSET D, T # {}, it[T \ {pick[T]}] \in V
      PROVE  it[T] = step[pick[T]][it[T \ {pick[T]}]]
  <2>1. pick[T] = Max(T) /\ Max(T) \in D
    BY <1>7, LeftFoldTurn
  <2> HIDE DEF pick, step
  <2> QED
    BY <1>3, <1>7, <2>1 DEF LeftFollows
<1>8. Picks(pick, D)
  BY <1>2 DEF Picks
<1>9. it[{}] = base
  BY DEF LeftFollows
<1> HIDE DEF pick, step, D
<1>10. Follows(it, D, V, base, pick, step)
  BY <1>7, <1>9 DEF Follows
<1>11. \A T \in SUBSET D : it[T] = g[T]
  BY <1>1, <1>6, <1>8, <1>10, FoldUnique
<1> QED
  BY <1>11 DEF D

\* FoldLeft with a step that is a function: the form the lemmas speak of.
FoldOf(F, base, s) == FoldLeft(LAMBDA v, x : F[v][x], base, s)

\* The value of the fold, by the function it is taken from.
Whole(it, s) == it[DOMAIN s]

\* Whatever follows the equation gives the value of the fold.
LEMMA FoldOfIs ==
  ASSUME NEW V, NEW X, NEW base \in V, NEW F, IsStep(F, V, X), NEW s \in Seq(X),
         NEW it, LeftFollows(it, V, F, base, s)
  PROVE  Whole(it, s) = FoldOf(F, base, s)
<1> DEFINE Eq(f) == f = [T \in SUBSET DOMAIN s |->
                           IF T = {} THEN base ELSE F[f[T \ {Max(T)}]][s[Max(T)]]]
           c == CHOOSE f : Eq(f)
<1>1. PICK g : LeftFold(g, V, F, base, s)
  BY LeftFoldExists
<1>2. Eq(g)
  BY <1>1 DEF LeftFold
<1>3. Eq(c)
  <2> HIDE DEF Eq
  <2> QED
    BY <1>2
<1>4. FoldOf(F, base, s) = c[DOMAIN s]
  BY DEF FoldOf, FoldLeft, MapThenFoldSet
<1> HIDE DEF c
<1>5. c[{}] = base /\ \A T \in SUBSET DOMAIN s : T # {} => c[T] = F[c[T \ {Max(T)}]][s[Max(T)]]
  BY <1>3
<1>6. LeftFollows(c, V, F, base, s)
  BY <1>5 DEF LeftFollows
<1>7. \A T \in SUBSET DOMAIN s : c[T] = g[T]
  BY <1>1, <1>6, LeftFoldUnique
<1>8. \A T \in SUBSET DOMAIN s : it[T] = g[T]
  BY <1>1, LeftFoldUnique
<1> QED
  BY <1>4, <1>7, <1>8 DEF Whole

\* The value of the fold is that of a function of the right type.
LEMMA FoldFrom ==
  ASSUME NEW V, NEW X, NEW base \in V, NEW F, IsStep(F, V, X), NEW s \in Seq(X)
  PROVE  \E g : LeftFold(g, V, F, base, s) /\ Whole(g, s) = FoldOf(F, base, s)
<1>1. PICK g : LeftFold(g, V, F, base, s)
  BY LeftFoldExists
<1>2. LeftFollows(g, V, F, base, s)
  BY <1>1 DEF LeftFold, LeftFollows
<1>3. Whole(g, s) = FoldOf(F, base, s)
  BY <1>2, FoldOfIs
<1> QED
  BY <1>1, <1>3

\* The fold of nothing is the base.
LEMMA FoldOfDone ==
  ASSUME NEW V, NEW X, NEW base \in V, NEW F, IsStep(F, V, X), NEW e \in Seq(X)
  PROVE  DOMAIN e = {} => FoldOf(F, base, e) = base
<1>1. PICK g : LeftFold(g, V, F, base, e) /\ Whole(g, e) = FoldOf(F, base, e)
  BY FoldFrom
<1> QED
  BY <1>1 DEF LeftFold, Whole

\* The fold of the empty sequence is the base.
LEMMA FoldOfEmpty ==
  ASSUME NEW V, NEW X, NEW base \in V, NEW F, IsStep(F, V, X)
  PROVE  FoldOf(F, base, <<>>) = base
<1>1. <<>> \in Seq(X) /\ DOMAIN <<>> = {}
  BY EmptySeq
<1> QED
  BY <1>1, FoldOfDone

\* The fold has the type of the base.
LEMMA FoldOfType ==
  ASSUME NEW V, NEW X, NEW base \in V, NEW F, IsStep(F, V, X), NEW s \in Seq(X)
  PROVE  FoldOf(F, base, s) \in V
<1>1. PICK g : LeftFold(g, V, F, base, s)
  BY LeftFoldExists
<1>2. Whole(g, s) \in V /\ LeftFollows(g, V, F, base, s)
  BY <1>1 DEF LeftFold, LeftFollows, Whole
<1>3. Whole(g, s) = FoldOf(F, base, s)
  BY <1>2, FoldOfIs
<1> QED
  BY <1>2, <1>3

\* The fold of one element more is one step more.
LEMMA FoldOfAppend ==
  ASSUME NEW V, NEW X, NEW base \in V, NEW F, IsStep(F, V, X),
         NEW s \in Seq(X), NEW x \in X
  PROVE  FoldOf(F, base, Append(s, x)) = F[FoldOf(F, base, s)][x]
<1> DEFINE r == Append(s, x)
           n == Len(s)
<1>1. /\ r \in Seq(X) /\ n \in Nat
      /\ DOMAIN s = 1..n /\ DOMAIN r = 1..(n + 1)
      /\ r[n + 1] = x /\ \A i \in 1..n : r[i] = s[i]
  BY AppendProperties, LenProperties
<1>2. PICK g : LeftFold(g, V, F, base, r)
  BY <1>1, LeftFoldExists
<1>3. /\ g[{}] = base
      /\ \A T \in SUBSET DOMAIN r : T # {} => g[T] = F[g[T \ {Max(T)}]][r[Max(T)]]
  BY <1>2 DEF LeftFold
<1>4. LeftFollows(g, V, F, base, r)
  BY <1>3 DEF LeftFollows
<1>5. ASSUME NEW T \in SUBSET DOMAIN s, T # {} PROVE g[T] = F[g[T \ {Max(T)}]][s[Max(T)]]
  <2>1. T \in SUBSET DOMAIN r
    BY <1>1
  <2>2. r[Max(T)] = s[Max(T)]
    BY <1>1, <1>5, LeftFoldTurn
  <2> QED
    BY <1>3, <1>5, <2>1, <2>2
<1>6. LeftFollows(g, V, F, base, s)
  BY <1>3, <1>5 DEF LeftFollows
<1>7. Whole(g, s) = FoldOf(F, base, s) /\ Whole(g, r) = FoldOf(F, base, r)
  <2> HIDE DEF r
  <2>1. Whole(g, s) = FoldOf(F, base, s)
    BY <1>6, FoldOfIs
  <2>2. r \in Seq(X)
    BY <1>1
  <2>3. Whole(g, r) = FoldOf(F, base, r)
    BY <1>4, <2>2, FoldOfIs
  <2> QED
    BY <2>1, <2>3
<1>8. Max(DOMAIN r) = n + 1 /\ DOMAIN r # {}
  <2>1. n + 1 \in DOMAIN r /\ DOMAIN r \in SUBSET (1..(n + 1)) /\ n + 1 \in Nat
    BY <1>1
  <2>2. Max(DOMAIN r) \in DOMAIN r /\ n + 1 <= Max(DOMAIN r)
    BY <2>1, MaxIn
  <2> QED
    BY <1>1, <2>2
<1>9. (DOMAIN r) \ {n + 1} = DOMAIN s
  BY <1>1
<1>10. Whole(g, r) = F[Whole(g, s)][x]
  BY <1>1, <1>3, <1>8, <1>9 DEF Whole
<1> QED
  BY <1>7, <1>10

-----------------------------------------------------------------------------
(* FlattenSeq                                                              *)

\* What FlattenSeq takes its value from.
IsFlatten(f, ss) ==
  f = [i \in 1..Len(ss) |-> IF i = 1 THEN ss[i] ELSE f[i - 1] \o ss[i]]

\* There is such a function.
LEMMA FlattenExists ==
  ASSUME NEW X, NEW ss \in Seq(Seq(X))
  PROVE  \E f : f \in [1..Len(ss) -> Seq(X)] /\ IsFlatten(f, ss)
<1> DEFINE Upto(f, n) == /\ f \in [1..n -> Seq(X)]
                         /\ f = [i \in 1..n |-> IF i = 1 THEN ss[i] ELSE f[i - 1] \o ss[i]]
           P == {n \in Nat : n <= Len(ss) => \E f : Upto(f, n)}
<1>0. Len(ss) \in Nat /\ \A i \in 1..Len(ss) : ss[i] \in Seq(X)
  BY LenProperties, ElementOfSeq
<1>1. 0 \in P
  <2>1. 1..0 = {}
    OBVIOUS
  <2>2. Upto([i \in 1..0 |-> <<>>], 0)
    BY <2>1
  <2> HIDE DEF Upto
  <2> QED
    BY <2>2
<1>2. ASSUME NEW n \in Nat, n \in P PROVE n + 1 \in P
  <2> HIDE DEF Upto
  <2> SUFFICES ASSUME n + 1 <= Len(ss) PROVE \E f : Upto(f, n + 1)
    OBVIOUS
  <2> USE DEF Upto
  <2>1. n <= Len(ss)
    BY <1>0
  <2>2. PICK f : Upto(f, n)
    BY <1>2, <2>1
  <2> DEFINE h == [i \in 1..(n + 1) |-> IF i = 1 THEN ss[i] ELSE f[i - 1] \o ss[i]]
  <2>3. ASSUME NEW i \in 1..n PROVE h[i] = f[i]
    <3>1. f[i] = IF i = 1 THEN ss[i] ELSE f[i - 1] \o ss[i]
      BY <2>2
    <3>2. i \in 1..(n + 1)
      OBVIOUS
    <3> QED
      BY <3>1, <3>2
  <2>4. ASSUME NEW i \in 1..(n + 1) PROVE h[i] \in Seq(X)
    <3>1. ss[i] \in Seq(X)
      BY <1>0
    <3>2. i # 1 => f[i - 1] \in Seq(X)
      BY <2>2
    <3> QED
      BY <3>1, <3>2, ConcatProperties
  <2>5. h \in [1..(n + 1) -> Seq(X)]
    BY <2>4
  <2>6. h = [i \in 1..(n + 1) |-> IF i = 1 THEN ss[i] ELSE h[i - 1] \o ss[i]]
    <3>1. ASSUME NEW i \in 1..(n + 1), i # 1 PROVE h[i - 1] = f[i - 1]
      <4>1. i - 1 \in 1..n
        BY <3>1
      <4> HIDE DEF h
      <4> QED
        BY <2>3, <4>1
    <3> QED
      BY <3>1
  <2>7. Upto(h, n + 1)
    BY <2>5, <2>6
  <2> HIDE DEF Upto, h
  <2> QED
    BY <2>7
<1> HIDE DEF P
<1>3. Len(ss) \in P
  BY <1>0, <1>1, <1>2, Induction
<1> HIDE DEF Upto
<1>4. PICK f : Upto(f, Len(ss))
  BY <1>0, <1>3 DEF P
<1> QED
  BY <1>4 DEF Upto, IsFlatten

\* FlattenSeq is its last value.
LEMMA FlattenIs ==
  ASSUME NEW X, NEW ss \in Seq(Seq(X)), ss # <<>>
  PROVE  \E f : /\ f \in [1..Len(ss) -> Seq(X)] /\ IsFlatten(f, ss)
                /\ FlattenSeq(ss) = f[Len(ss)]
<1> DEFINE c == CHOOSE f : IsFlatten(f, ss)
<1>1. PICK f : f \in [1..Len(ss) -> Seq(X)] /\ IsFlatten(f, ss)
  BY FlattenExists
<1>2. IsFlatten(c, ss)
  BY <1>1
<1>3. Len(ss) # 0 /\ Len(ss) \in Nat
  BY EmptySeq, LenProperties
<1>4. FlattenSeq(ss) = c[Len(ss)]
  BY <1>3 DEF FlattenSeq, IsFlatten
<1> DEFINE P == {n \in Nat : n + 1 <= Len(ss) => c[n + 1] = f[n + 1]}
<1> HIDE DEF c
<1>5. \A i \in 1..Len(ss) : /\ c[i] = IF i = 1 THEN ss[i] ELSE c[i - 1] \o ss[i]
                            /\ f[i] = IF i = 1 THEN ss[i] ELSE f[i - 1] \o ss[i]
  BY <1>1, <1>2 DEF IsFlatten
<1>6. 0 \in P
  BY <1>3, <1>5
<1>7. ASSUME NEW n \in Nat, n \in P PROVE n + 1 \in P
  <2> SUFFICES ASSUME (n + 1) + 1 <= Len(ss) PROVE c[(n + 1) + 1] = f[(n + 1) + 1]
    OBVIOUS
  <2>1. /\ (n + 1) + 1 \in 1..Len(ss) /\ (n + 1) + 1 # 1 /\ ((n + 1) + 1) - 1 = n + 1
        /\ n + 1 <= Len(ss)
    BY <1>3
  <2>2. c[n + 1] = f[n + 1]
    BY <1>7, <2>1
  <2> QED
    BY <1>5, <2>1, <2>2
<1> HIDE DEF P
<1>8. \A n \in Nat : n \in P
  BY <1>6, <1>7, Induction
<1>9. Len(ss) - 1 \in Nat /\ (Len(ss) - 1) + 1 = Len(ss)
  BY <1>3
<1>10. Len(ss) - 1 \in P
  BY <1>8, <1>9
<1>11. c[Len(ss)] = f[Len(ss)]
  BY <1>9, <1>10 DEF P
<1> QED
  BY <1>1, <1>4, <1>11

\* Nothing flattens to nothing.
LEMMA FlattenEmpty == FlattenSeq(<<>>) = <<>>
BY DEF FlattenSeq

\* FlattenSeq gives a sequence of the elements.
LEMMA FlattenType ==
  ASSUME NEW X, NEW ss \in Seq(Seq(X))
  PROVE  FlattenSeq(ss) \in Seq(X)
<1>1. CASE ss = <<>>
  BY <1>1, FlattenEmpty, EmptySeq
<1>2. CASE ss # <<>>
  <2>1. PICK f : f \in [1..Len(ss) -> Seq(X)] /\ FlattenSeq(ss) = f[Len(ss)]
    BY <1>2, FlattenIs
  <2>2. Len(ss) \in 1..Len(ss)
    BY <1>2, EmptySeq
  <2> QED
    BY <2>1, <2>2
<1> QED
  BY <1>1, <1>2

\* The last sequence comes last.
LEMMA FlattenAppend ==
  ASSUME NEW X, NEW ss \in Seq(Seq(X)), NEW s \in Seq(X)
  PROVE  FlattenSeq(Append(ss, s)) = FlattenSeq(ss) \o s
<1> DEFINE r == Append(ss, s)
           n == Len(ss)
<1>1. /\ r \in Seq(Seq(X)) /\ r # <<>> /\ n \in Nat /\ Len(r) = n + 1
      /\ r[n + 1] = s /\ \A i \in 1..n : r[i] = ss[i]
  BY AppendProperties, LenProperties
<1> HIDE DEF r
<1>2. PICK f : /\ f \in [1..Len(r) -> Seq(X)] /\ IsFlatten(f, r)
               /\ FlattenSeq(r) = f[Len(r)]
  BY <1>1, FlattenIs
<1>3. \A i \in 1..(n + 1) : f[i] = IF i = 1 THEN r[i] ELSE f[i - 1] \o r[i]
  BY <1>1, <1>2 DEF IsFlatten
<1>4. n + 1 \in 1..(n + 1) /\ (n + 1) - 1 = n
  BY <1>1
<1>5. CASE n = 0
  <2>1. ss = <<>>
    BY <1>5, EmptySeq
  <2>2. FlattenSeq(r) = s
    BY <1>1, <1>2, <1>3, <1>4, <1>5
  <2> QED
    BY <2>1, <2>2, FlattenEmpty, ConcatEmptySeq DEF r
<1>6. CASE n # 0
  <2>1. ss # <<>>
    BY <1>6, EmptySeq
  <2>2. PICK g : /\ g \in [1..n -> Seq(X)] /\ IsFlatten(g, ss)
                 /\ FlattenSeq(ss) = g[n]
    BY <2>1, FlattenIs
  <2>3. \A i \in 1..n : g[i] = IF i = 1 THEN ss[i] ELSE g[i - 1] \o ss[i]
    BY <2>2 DEF IsFlatten
  <2> DEFINE P == {k \in Nat : k + 1 <= n => f[k + 1] = g[k + 1]}
  <2>4. 0 \in P
    <3> SUFFICES f[1] = g[1]
      OBVIOUS
    <3>1. 1 \in 1..n /\ 1 \in 1..(n + 1)
      BY <1>1, <1>6
    <3> QED
      BY <1>1, <1>3, <2>3, <3>1
  <2>5. ASSUME NEW k \in Nat, k \in P PROVE k + 1 \in P
    <3> SUFFICES ASSUME (k + 1) + 1 <= n PROVE f[(k + 1) + 1] = g[(k + 1) + 1]
      OBVIOUS
    <3>1. /\ (k + 1) + 1 \in 1..n /\ (k + 1) + 1 \in 1..(n + 1)
          /\ (k + 1) + 1 # 1 /\ ((k + 1) + 1) - 1 = k + 1 /\ k + 1 <= n
      BY <1>1
    <3>2. f[k + 1] = g[k + 1]
      BY <2>5, <3>1
    <3>3. r[(k + 1) + 1] = ss[(k + 1) + 1]
      BY <1>1, <3>1
    <3> QED
      BY <1>3, <2>3, <3>1, <3>2, <3>3
  <2> HIDE DEF P
  <2>6. \A k \in Nat : k \in P
    BY <2>4, <2>5, Induction
  <2>7. n - 1 \in Nat /\ (n - 1) + 1 = n /\ n <= n
    BY <1>1, <1>6
  <2>8. n - 1 \in P
    BY <2>6, <2>7
  <2>9. f[n] = g[n]
    BY <2>7, <2>8 DEF P
  <2>10. f[n + 1] = f[n] \o s
    <3>1. n + 1 # 1
      BY <1>1, <1>6
    <3>2. f[n + 1] = f[(n + 1) - 1] \o r[n + 1]
      BY <1>3, <1>4, <3>1
    <3> QED
      BY <1>1, <1>4, <3>2
  <2> QED
    BY <1>1, <1>2, <2>2, <2>9, <2>10 DEF r
<1> QED
  BY <1>5, <1>6

-----------------------------------------------------------------------------
(* MapThenSumSet                                                           *)

\* MapThenSumSet of costs that are a function.
SumOf(c, S) == MapThenSumSet(LAMBDA x : c[x], S)

SumPick(S) == [T \in SUBSET S |-> CHOOSE x \in T : TRUE]
SumStep(c, S) == [x \in S |-> [v \in Nat |-> c[x] + v]]

\* MapThenSumSet is a fold of naturals.
LEMMA SumIs ==
  ASSUME NEW U, NEW c \in [U -> Nat], NEW S \in SUBSET U, IsFiniteSet(S)
  PROVE  \E g : /\ IsFold(g, S, Nat, 0, SumPick(S), SumStep(c, S))
                /\ SumOf(c, S) = g[S]
<1> DEFINE Eq(f) == f = [T \in SUBSET S |->
                           IF T = {} THEN 0
                           ELSE c[CHOOSE x \in T : TRUE] + f[T \ {CHOOSE x \in T : TRUE}]]
           k == CHOOSE f : Eq(f)
<1>1. Picks(SumPick(S), S)
  BY DEF Picks, SumPick
<1>2. \A x \in S, v \in Nat : SumStep(c, S)[x][v] \in Nat /\ SumStep(c, S)[x][v] = c[x] + v
  BY DEF SumStep
<1>3. PICK g : IsFold(g, S, Nat, 0, SumPick(S), SumStep(c, S))
  BY <1>1, <1>2, FoldExists
<1>4. ASSUME NEW T \in SUBSET S, T # {}
      PROVE  /\ SumPick(S)[T] = (CHOOSE x \in T : TRUE)
             /\ SumPick(S)[T] \in S
  BY <1>1, <1>4 DEF SumPick, Picks
<1>5. ASSUME NEW T \in SUBSET S, T # {}
      PROVE  SumStep(c, S)[SumPick(S)[T]][g[T \ {SumPick(S)[T]}]]
               = c[CHOOSE x \in T : TRUE] + g[T \ {CHOOSE x \in T : TRUE}]
  BY <1>2, <1>3, <1>4, <1>5 DEF IsFold
<1>6. Eq(g)
  BY <1>3, <1>5 DEF IsFold
<1>7. Eq(k)
  <2> HIDE DEF Eq
  <2> QED
    BY <1>6
<1>8. SumOf(c, S) = k[S]
  BY DEF SumOf, MapThenSumSet, MapThenFoldSet
<1> HIDE DEF k
<1>9. k[{}] = 0 /\ \A T \in SUBSET S : T # {} =>
        k[T] = c[CHOOSE x \in T : TRUE] + k[T \ {CHOOSE x \in T : TRUE}]
  BY <1>7
<1>10. Follows(k, S, Nat, 0, SumPick(S), SumStep(c, S))
  <2>1. ASSUME NEW T \in SUBSET S, T # {}, k[T \ {SumPick(S)[T]}] \in Nat
        PROVE  k[T] = SumStep(c, S)[SumPick(S)[T]][k[T \ {SumPick(S)[T]}]]
    <3>1. k[T] = c[SumPick(S)[T]] + k[T \ {SumPick(S)[T]}]
      BY <1>4, <1>9, <2>1
    <3> QED
      BY <1>2, <1>4, <2>1, <3>1
  <2> QED
    BY <1>9, <2>1 DEF Follows
<1>11. \A T \in SUBSET S : k[T] = g[T]
  <2>1. 0 \in Nat
    OBVIOUS
  <2>2. PICK pick : pick = SumPick(S)
    OBVIOUS
  <2>3. PICK step : step = SumStep(c, S)
    OBVIOUS
  <2>4. PICK z : z = 0
    OBVIOUS
  <2>5. IsFold(g, S, Nat, z, pick, step) /\ Picks(pick, S) /\ Follows(k, S, Nat, z, pick, step) /\ z \in Nat
    BY <1>1, <1>3, <1>10, <2>2, <2>3, <2>4
  <2> QED
    BY ONLY <2>5, FoldUnique, IsFiniteSet(S)
<1> QED
  BY <1>3, <1>8, <1>11

\* The sum over the empty set.
LEMMA SumEmpty ==
  ASSUME NEW U, NEW c \in [U -> Nat]
  PROVE  SumOf(c, {}) = 0
<1>1. {} \in SUBSET U /\ IsFiniteSet({})
  BY FS_EmptySet
<1>2. PICK g : IsFold(g, {}, Nat, 0, SumPick({}), SumStep(c, {})) /\ SumOf(c, {}) = g[{}]
  BY <1>1, SumIs
<1> QED
  BY <1>2 DEF IsFold

\* The sum of naturals is a natural.
LEMMA SumType ==
  ASSUME NEW U, NEW c \in [U -> Nat], NEW S \in SUBSET U, IsFiniteSet(S)
  PROVE  SumOf(c, S) \in Nat
<1>1. PICK g : IsFold(g, S, Nat, 0, SumPick(S), SumStep(c, S)) /\ SumOf(c, S) = g[S]
  BY SumIs
<1> QED
  BY <1>1 DEF IsFold

\* The element the sum takes first.
AnyOf(S) == CHOOSE x \in S : TRUE

\* The sum is what it takes first and the sum of the rest.
LEMMA SumTurn ==
  ASSUME NEW U, NEW c \in [U -> Nat], NEW S \in SUBSET U, IsFiniteSet(S), S # {}
  PROVE  AnyOf(S) \in S /\ SumOf(c, S) = c[AnyOf(S)] + SumOf(c, S \ {AnyOf(S)})
<1> DEFINE R == S \ {AnyOf(S)}
<1>1. AnyOf(S) \in S
  BY DEF AnyOf
<1>2. R \in SUBSET U /\ R \in SUBSET S /\ IsFiniteSet(R)
  BY FS_Subset
<1>3. PICK g : IsFold(g, S, Nat, 0, SumPick(S), SumStep(c, S)) /\ SumOf(c, S) = g[S]
  BY SumIs
<1>4. PICK h : IsFold(h, R, Nat, 0, SumPick(R), SumStep(c, R)) /\ SumOf(c, R) = h[R]
  <2> HIDE DEF R
  <2> QED
    BY <1>2, SumIs
<1>5. ASSUME NEW T \in SUBSET S, T # {}
      PROVE  g[T] = c[AnyOf(T)] + g[T \ {AnyOf(T)}] /\ AnyOf(T) \in T /\ g[T \ {AnyOf(T)}] \in Nat
  <2>1. AnyOf(T) \in T /\ SumPick(S)[T] = AnyOf(T)
    BY <1>5 DEF AnyOf, SumPick
  <2>2. g[T \ {AnyOf(T)}] \in Nat
    BY <1>3 DEF IsFold
  <2>3. g[T] = SumStep(c, S)[SumPick(S)[T]][g[T \ {SumPick(S)[T]}]]
    BY <1>3, <1>5 DEF IsFold
  <2> QED
    BY <2>1, <2>2, <2>3 DEF SumStep
<1>6. ASSUME NEW T \in SUBSET R, T # {}
      PROVE  g[T] = SumStep(c, R)[SumPick(R)[T]][g[T \ {SumPick(R)[T]}]]
  <2>1. SumPick(R)[T] = AnyOf(T)
    BY DEF AnyOf, SumPick
  <2>2. T \in SUBSET S
    BY <1>2
  <2>3. g[T] = c[AnyOf(T)] + g[T \ {AnyOf(T)}] /\ AnyOf(T) \in R /\ g[T \ {AnyOf(T)}] \in Nat
    BY <1>5, <1>6, <2>2
  <2> QED
    BY <2>1, <2>3 DEF SumStep
<1>7. g[{}] = 0
  BY <1>3 DEF IsFold
<1>8. PICK pick : pick = SumPick(R)
  OBVIOUS
<1>9. PICK step : step = SumStep(c, R)
  OBVIOUS
<1>10. PICK z \in Nat : z = 0
  OBVIOUS
<1>11. /\ Follows(g, R, Nat, z, pick, step)
       /\ IsFold(h, R, Nat, z, pick, step)
       /\ Picks(pick, R)
  <2>1. Picks(pick, R)
    BY <1>8 DEF SumPick, Picks
  <2>2. Follows(g, R, Nat, z, pick, step)
    BY <1>6, <1>7, <1>8, <1>9, <1>10 DEF Follows
  <2> QED
    BY <1>4, <1>8, <1>9, <1>10, <2>1, <2>2
<1> HIDE DEF R
<1>12. \A T \in SUBSET R : g[T] = h[T]
  BY ONLY <1>2, <1>11, FoldUnique
<1>13. g[R] = h[R]
  BY <1>12
<1>14. g[S] = c[AnyOf(S)] + g[R]
  BY <1>5 DEF R
<1> QED
  BY <1>1, <1>3, <1>4, <1>13, <1>14 DEF R

\* It is any element and the sum of the rest.
LEMMA SumRemove ==
  ASSUME NEW U, NEW c \in [U -> Nat], NEW S \in SUBSET U, IsFiniteSet(S), NEW x \in S
  PROVE  SumOf(c, S) = c[x] + SumOf(c, S \ {x})
<1> DEFINE Right(T) == \A y \in T : SumOf(c, T) = c[y] + SumOf(c, T \ {y})
           P == {n \in Nat : \A T \in SUBSET S : Cardinality(T) = n => Right(T)}
<1>1. \A T \in SUBSET S : /\ T \in SUBSET U /\ IsFiniteSet(T) /\ Cardinality(T) \in Nat
                          /\ (Cardinality(T) = 0 <=> T = {}) /\ SumOf(c, T) \in Nat
  BY FS_Subset, FS_CardinalityType, FS_EmptySet, SumType
<1>2. 0 \in P
  BY <1>1
<1>3. ASSUME NEW n \in Nat, n \in P PROVE n + 1 \in P
  <2> SUFFICES ASSUME NEW T \in SUBSET S, Cardinality(T) = n + 1, NEW y \in T
               PROVE  SumOf(c, T) = c[y] + SumOf(c, T \ {y})
    OBVIOUS
  <2>1. T # {} /\ IsFiniteSet(T) /\ T \in SUBSET U
    BY <1>1
  <2>2. AnyOf(T) \in T /\ SumOf(c, T) = c[AnyOf(T)] + SumOf(c, T \ {AnyOf(T)})
    BY <2>1, SumTurn
  <2>3. PICK a : a = AnyOf(T)
    OBVIOUS
  <2>4. CASE a = y
    BY <2>2, <2>3, <2>4
  <2>5. CASE a # y
    <3>1. Cardinality(T \ {a}) = n /\ Cardinality(T \ {y}) = n
      <4>1. Cardinality(T \ {a}) = Cardinality(T) - 1 /\ Cardinality(T \ {y}) = Cardinality(T) - 1
        BY <2>1, <2>2, <2>3, OneLess
      <4> QED
        BY <4>1
    <3>2. T \ {a} \in SUBSET S /\ T \ {y} \in SUBSET S
      OBVIOUS
    <3>3. Right(T \ {a}) /\ Right(T \ {y})
      BY <1>3, <3>1, <3>2
    <3>4. y \in T \ {a} /\ a \in T \ {y} /\ (T \ {a}) \ {y} = (T \ {y}) \ {a}
      BY <2>2, <2>3, <2>5
    <3>5. /\ SumOf(c, T \ {a}) = c[y] + SumOf(c, (T \ {a}) \ {y})
          /\ SumOf(c, T \ {y}) = c[a] + SumOf(c, (T \ {a}) \ {y})
      BY <3>3, <3>4
    <3>6. PICK w \in Nat : w = SumOf(c, (T \ {a}) \ {y})
      <4>1. (T \ {a}) \ {y} \in SUBSET S
        OBVIOUS
      <4> QED
        BY <1>1, <4>1
    <3>7. c[y] \in Nat /\ c[a] \in Nat
      BY <2>2, <2>3
    <3>8. SumOf(c, T) = c[a] + SumOf(c, T \ {a})
      BY <2>2, <2>3
    <3> QED
      BY <3>5, <3>6, <3>7, <3>8
  <2> QED
    BY <2>4, <2>5
<1> HIDE DEF P
<1>4. \A n \in Nat : n \in P
  BY <1>2, <1>3, Induction
<1>5. Right(S)
  BY <1>1, <1>4 DEF P
<1> QED
  BY <1>5

\* A new element adds its own.
LEMMA SumAdd ==
  ASSUME NEW U, NEW c \in [U -> Nat], NEW S \in SUBSET U, IsFiniteSet(S),
         NEW x \in U, x \notin S
  PROVE  SumOf(c, S \cup {x}) = c[x] + SumOf(c, S)
<1> DEFINE T == S \cup {x}
<1>1. T \in SUBSET U /\ IsFiniteSet(T) /\ x \in T /\ T \ {x} = S
  BY FS_AddElement
<1> HIDE DEF T
<1>2. SumOf(c, T) = c[x] + SumOf(c, T \ {x})
  BY <1>1, SumRemove
<1> QED
  BY <1>1, <1>2 DEF T

=============================================================================
