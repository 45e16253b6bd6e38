---------------------------- MODULE CanvasProofs ----------------------------
(***************************************************************************)
(* Shapes that validation lets onto one canvas have no pixel in common,    *)
(* whatever they are and however many.  So their order does not matter,    *)
(* their lines do not meet anywhere in the plane, and none ends in the     *)
(* fill of another.  Like the model, the proofs take slopes to be exact.   *)
(***************************************************************************)
EXTENDS Canvas, FoldLemmas

Blank == NewPixelArray(CanvasXMax, CanvasYMax)

Fits(op) == ~Past(Blank, Sub[op])

\* The pixels of any of some operations.
Inked(ops) == UNION {Sub[op].bits : op \in ops}

Apart(ops) == \A s, t \in ops : s # t => Sub[s].bits \cap Sub[t].bits = {}

\* The inductive invariant: the shapes on the canvas lie on it and no two of
\* them have a pixel in common.
CanvasInv ==
  /\ drawn \in SUBSET Drawable
  /\ IsFiniteSet(drawn)
  /\ \A op \in drawn : Fits(op)
  /\ Apart(drawn)

-----------------------------------------------------------------------------
(* The array the shapes are merged into                                    *)

\* The blank canvas with some pixels set.
Painted(bits) == [width |-> maxByte(CanvasXMax + 1), height |-> CanvasYMax + 1, bits |-> bits]

LEMMA BlankIs == Blank = Painted({})
BY DEF Blank, NewPixelArray, Painted

\* Merging a shape that lies on the canvas adds its pixels, one that does not is
\* passed over: the size stays.
LEMMA MergeIs ==
  ASSUME NEW bits, NEW sub
  PROVE  /\ Past(Painted(bits), sub) <=> Past(Blank, sub)
         /\ MergeSubArray(Painted(bits), sub)
              = Painted(IF Past(Blank, sub) THEN bits ELSE bits \cup sub.bits)
         /\ HasConflict(Painted(bits), sub) <=> Past(Blank, sub) \/ bits \cap sub.bits # {}
<1>1. Past(Painted(bits), sub) <=> Past(Blank, sub)
  BY BlankIs DEF Painted, Past
<1>2. Painted(bits).bits = bits
  BY DEF Painted
<1>3. [Painted(bits) EXCEPT !.bits = @ \cup sub.bits] = Painted(bits \cup sub.bits)
  <2>1. PICK w, h, b : w = maxByte(CanvasXMax + 1) /\ h = CanvasYMax + 1 /\ b = bits \cup sub.bits
    OBVIOUS
  <2>2. [[width |-> w, height |-> h, bits |-> bits] EXCEPT !.bits = b]
          = [width |-> w, height |-> h, bits |-> b]
    OBVIOUS
  <2> QED
    BY <1>2, <2>1, <2>2 DEF Painted
<1> QED
  BY <1>1, <1>2, <1>3 DEF MergeSubArray, HasConflict

\* The fold that merges them, with its step as a function.
Merged(S) == {Painted(bits) : bits \in SUBSET Inked(S)}
MergePick(S) == [T \in SUBSET S |-> CHOOSE x \in T : TRUE]
MergeStep(S) == [x \in S |-> [v \in Merged(S) |-> MergeSubArray(v, Sub[x])]]

LEMMA PixelArrIs ==
  ASSUME NEW S \in SUBSET Drawable, IsFiniteSet(S)
  PROVE  \E g : /\ IsFold(g, S, Merged(S), Blank, MergePick(S), MergeStep(S))
                /\ PixelArr(S) = g[S]
<1> DEFINE Eq(f) == f = [T \in SUBSET S |->
                           IF T = {} THEN Blank
                           ELSE MergeSubArray(f[T \ {CHOOSE x \in T : TRUE}],
                                              Sub[CHOOSE x \in T : TRUE])]
           k == CHOOSE f : Eq(f)
<1>1. Picks(MergePick(S), S)
  BY DEF Picks, MergePick
<1>2. \A x \in S, v \in Merged(S) : MergeStep(S)[x][v] = MergeSubArray(v, Sub[x])
  BY DEF MergeStep
<1>3. \A x \in S, v \in Merged(S) : MergeStep(S)[x][v] \in Merged(S)
  <2> SUFFICES ASSUME NEW x \in S, NEW bits \in SUBSET Inked(S)
               PROVE  MergeSubArray(Painted(bits), Sub[x]) \in Merged(S)
    BY <1>2 DEF Merged
  <2>1. MergeSubArray(Painted(bits), Sub[x])
          = Painted(IF Past(Blank, Sub[x]) THEN bits ELSE bits \cup Sub[x].bits)
    BY MergeIs
  <2>2. bits \cup Sub[x].bits \in SUBSET Inked(S)
    BY DEF Inked
  <2> QED
    BY <2>1, <2>2 DEF Merged
<1>4. Blank \in Merged(S)
  BY BlankIs DEF Merged
<1>5. PICK g : IsFold(g, S, Merged(S), Blank, MergePick(S), MergeStep(S))
  <2>1. PICK pick : pick = MergePick(S)
    OBVIOUS
  <2>2. PICK step : step = MergeStep(S)
    OBVIOUS
  <2>3. PICK V : V = Merged(S)
    OBVIOUS
  <2>4. PICK z \in V : z = Blank
    BY <1>4, <2>3
  <2>5. Picks(pick, S) /\ \A x \in S, v \in V : step[x][v] \in V
    BY <1>1, <1>3, <2>1, <2>2, <2>3
  <2>6. \E g : IsFold(g, S, V, z, pick, step)
    BY ONLY <2>5, FoldExists, IsFiniteSet(S), z \in V
  <2> QED
    BY <2>1, <2>2, <2>3, <2>4, <2>6
<1>6. ASSUME NEW T \in SUBSET S, T # {}
      PROVE  /\ MergePick(S)[T] = (CHOOSE x \in T : TRUE)
             /\ MergePick(S)[T] \in S
  BY <1>1, <1>6 DEF MergePick, Picks
<1>7. ASSUME NEW T \in SUBSET S, T # {}
      PROVE  MergeStep(S)[MergePick(S)[T]][g[T \ {MergePick(S)[T]}]]
               = MergeSubArray(g[T \ {CHOOSE x \in T : TRUE}], Sub[CHOOSE x \in T : TRUE])
  <2>1. g[T \ {MergePick(S)[T]}] \in Merged(S)
    BY <1>5 DEF IsFold
  <2> QED
    BY <1>2, <1>6, <1>7, <2>1
<1>8. Eq(g)
  BY <1>5, <1>7 DEF IsFold
<1>9. Eq(k)
  <2> HIDE DEF Eq
  <2> QED
    BY <1>8
<1>10. PixelArr(S) = k[S]
  BY DEF PixelArr, FoldSet, MapThenFoldSet, Blank
<1> HIDE DEF k
<1>11. k[{}] = Blank /\ \A T \in SUBSET S : T # {} =>
         k[T] = MergeSubArray(k[T \ {CHOOSE x \in T : TRUE}], Sub[CHOOSE x \in T : TRUE])
  BY <1>9
<1>12. Follows(k, S, Merged(S), Blank, MergePick(S), MergeStep(S))
  <2>1. ASSUME NEW T \in SUBSET S, T # {}, k[T \ {MergePick(S)[T]}] \in Merged(S)
        PROVE  k[T] = MergeStep(S)[MergePick(S)[T]][k[T \ {MergePick(S)[T]}]]
    <3>1. k[T] = MergeSubArray(k[T \ {MergePick(S)[T]}], Sub[MergePick(S)[T]])
      BY <1>6, <1>11, <2>1
    <3> QED
      BY <1>2, <1>6, <2>1, <3>1
  <2> QED
    BY <1>11, <2>1 DEF Follows
<1>13. \A T \in SUBSET S : k[T] = g[T]
  <2>1. PICK pick : pick = MergePick(S)
    OBVIOUS
  <2>2. PICK step : step = MergeStep(S)
    OBVIOUS
  <2>3. PICK V : V = Merged(S)
    OBVIOUS
  <2>4. PICK z \in V : z = Blank
    BY <1>4, <2>3
  <2>5. IsFold(g, S, V, z, pick, step) /\ Picks(pick, S) /\ Follows(k, S, V, z, pick, step) /\ z \in V
    BY <1>1, <1>5, <1>12, <2>1, <2>2, <2>3, <2>4
  <2> QED
    BY ONLY <2>5, FoldUnique, IsFiniteSet(S)
<1> QED
  BY <1>5, <1>10, <1>13

\* Whatever the order of the merges, the array has the pixels of the shapes that
\* lie on the canvas (pixelarray.go:39-58).
LEMMA PixelArrPaints ==
  ASSUME NEW S \in SUBSET Drawable, IsFiniteSet(S)
  PROVE  PixelArr(S) = Painted(Inked({op \in S : Fits(op)}))
<1> DEFINE Ink(T) == Painted(Inked({op \in T : Fits(op)}))
<1>1. PICK g : /\ IsFold(g, S, Merged(S), Blank, MergePick(S), MergeStep(S))
               /\ PixelArr(S) = g[S]
  BY PixelArrIs
<1>2. \A T \in SUBSET S : /\ IsFiniteSet(T) /\ Cardinality(T) \in Nat
                          /\ (Cardinality(T) = 0 <=> T = {})
  BY FS_Subset, FS_CardinalityType, FS_EmptySet
<1> DEFINE P == {n \in Nat : \A T \in SUBSET S : Cardinality(T) = n => g[T] = Ink(T)}
<1>3. 0 \in P
  <2>1. g[{}] = Blank
    BY <1>1 DEF IsFold
  <2>2. Ink({}) = Painted({})
    BY DEF Inked
  <2> QED
    BY <1>2, <2>1, <2>2, BlankIs
<1>4. ASSUME NEW n \in Nat, n \in P PROVE n + 1 \in P
  <2> SUFFICES ASSUME NEW T \in SUBSET S, Cardinality(T) = n + 1
               PROVE  g[T] = Ink(T)
    OBVIOUS
  <2>1. T # {} /\ IsFiniteSet(T)
    BY <1>2
  <2>2. PICK x \in T : x = MergePick(S)[T]
    BY <2>1 DEF MergePick
  <2>3. g[T \ {x}] \in Merged(S) /\ g[T] = MergeStep(S)[x][g[T \ {x}]]
    BY <1>1, <2>1, <2>2 DEF IsFold
  <2>4. g[T] = MergeSubArray(g[T \ {x}], Sub[x])
    BY <2>3 DEF MergeStep
  <2>5. Cardinality(T \ {x}) = n
    <3>1. Cardinality(T \ {x}) = Cardinality(T) - 1
      BY <2>1, OneLess
    <3> QED
      BY <3>1
  <2>6. g[T \ {x}] = Ink(T \ {x})
    BY <1>4, <2>5
  <2>7. g[T] = Painted(IF Past(Blank, Sub[x]) THEN Inked({op \in T \ {x} : Fits(op)})
                       ELSE Inked({op \in T \ {x} : Fits(op)}) \cup Sub[x].bits)
    BY <2>4, <2>6, MergeIs
  <2>8. CASE Fits(x)
    <3>1. {op \in T : Fits(op)} = {op \in T \ {x} : Fits(op)} \cup {x}
      BY <2>8
    <3>2. Inked({op \in T : Fits(op)}) = Inked({op \in T \ {x} : Fits(op)}) \cup Sub[x].bits
      BY <3>1 DEF Inked
    <3> QED
      BY <2>7, <2>8, <3>2 DEF Fits
  <2>9. CASE ~Fits(x)
    <3>1. {op \in T : Fits(op)} = {op \in T \ {x} : Fits(op)}
      BY <2>9
    <3> QED
      BY <2>7, <2>9, <3>1 DEF Fits
  <2> QED
    BY <2>8, <2>9
<1> HIDE DEF P
<1>5. \A n \in Nat : n \in P
  BY <1>3, <1>4, Induction
<1> QED
  BY <1>1, <1>2, <1>5 DEF P

\* The test against shapes on the canvas is a test against each of them.
LEMMA ConflictIs ==
  ASSUME NEW S \in SUBSET Drawable, IsFiniteSet(S), \A op \in S : Fits(op), NEW x
  PROVE  HasConflict(PixelArr(S), Sub[x])
           <=> ~Fits(x) \/ \E op \in S : Sub[op].bits \cap Sub[x].bits # {}
<1>1. {op \in S : Fits(op)} = S
  OBVIOUS
<1>2. PixelArr(S) = Painted(Inked(S))
  BY <1>1, PixelArrPaints
<1>3. Inked(S) \cap Sub[x].bits # {} <=> \E op \in S : Sub[op].bits \cap Sub[x].bits # {}
  BY DEF Inked
<1> QED
  BY <1>2, <1>3, MergeIs DEF Fits

-----------------------------------------------------------------------------
(* The steps                                                               *)

LEMMA CanvasInvInit == Init => CanvasInv
BY FS_EmptySet DEF Init, CanvasInv, Apart

LEMMA CanvasInvNext == CanvasInv /\ [Next]_drawn => CanvasInv'
<1> SUFFICES ASSUME CanvasInv, [Next]_drawn
             PROVE  CanvasInv'
  OBVIOUS
<1>1. ASSUME NEW op \in Drawable, Draw(op, PixelArr(drawn))
      PROVE  CanvasInv'
  <2>1. drawn' = drawn \cup {op} /\ ~HasConflict(PixelArr(drawn), Sub[op])
    BY <1>1 DEF Draw
  <2>2. Fits(op) /\ \A s \in drawn : Sub[s].bits \cap Sub[op].bits = {}
    BY <2>1, ConflictIs DEF CanvasInv
  <2>3. drawn' \in SUBSET Drawable /\ IsFiniteSet(drawn')
    BY <2>1, FS_AddElement DEF CanvasInv
  <2>4. \A s \in drawn' : Fits(s)
    BY <2>1, <2>2 DEF CanvasInv
  <2>5. Apart(drawn')
    BY <2>1, <2>2 DEF CanvasInv, Apart
  <2> QED
    BY <2>3, <2>4, <2>5 DEF CanvasInv, Fits, Apart
<1>2. CASE UNCHANGED drawn
  BY <1>2 DEF CanvasInv, Fits, Apart
<1> QED
  BY <1>1, <1>2 DEF Next

-----------------------------------------------------------------------------
(* From words to points                                                    *)

\* What the parser reads, and what it makes of it.
Words == Seq(STRING \X Int) \ {<<>>}

Commands == [type : {"M", "L", "H", "V", "Z"}, relative : BOOLEAN, X : Int, Y : Int]

Points == [Moved : BOOLEAN, X : Int, Y : Int]

\* What GetParsedSVG makes of the words from i on, with the rest that follows.
Turn(words, i, rest) ==
  LET n     == Len(words)
      w     == words[i][1]
      wide  == Parameters(Upper(w))
      given == i + wide <= n
  IN  IF i = 1 /\ Upper(w) # "M" THEN Invalid
      ELSE IF Upper(w) \notin {"M", "L", "H", "V", "Z"} THEN <<>>
      ELSE IF given /\ \E j \in 1..wide : words[i + j][1] # "#" THEN Invalid
      ELSE IF rest = Invalid THEN Invalid
      ELSE << Command(w, IF given /\ wide > 0 THEN words[i + 1][2] ELSE 0,
                         IF given /\ wide > 1 THEN words[i + 2][2] ELSE 0) >> \o rest

\* Where the next command is, after the one at i.
Jump(words, i) == i + Parameters(Upper(words[i][1])) + 1

\* The function of GetParsedSVG.
IsParse(f, words) ==
  f = [i \in 1..(Len(words) + 3) |->
         IF i > Len(words) THEN <<>> ELSE Turn(words, i, f[Jump(words, i)])]

\* The parse is the function GetParsedSVG chooses, at the first word.
LEMMA ParseIs ==
  ASSUME NEW words
  PROVE  GetParsedSVG(words) = (CHOOSE f : IsParse(f, words))[1]
BY DEF GetParsedSVG, IsParse, Turn, Jump

\* A command takes up to two numbers after its letter.
LEMMA JumpIs ==
  ASSUME NEW words, Len(words) \in Nat, NEW i \in 1..Len(words)
  PROVE  Jump(words, i) \in (i + 1)..(Len(words) + 3)
<1>1. Parameters(Upper(words[i][1])) \in 0..2
  BY DEF Parameters
<1> QED
  BY <1>1 DEF Jump

\* The words are gone through from the first to the last.
LEMMA ParseExists ==
  ASSUME NEW words, Len(words) \in Nat
  PROVE  \E f : IsParse(f, words)
<1> DEFINE n == Len(words)
           Upto(g, k) == g = [i \in (n + 3 - k)..(n + 3) |->
                                IF i > n THEN <<>> ELSE Turn(words, i, g[Jump(words, i)])]
           P == {k \in Nat : k <= n + 2 => \E g : Upto(g, k)}
<1>1. 0 \in P
  <2> DEFINE g == [i \in (n + 3 - 0)..(n + 3) |-> <<>>]
  <2>1. \A i \in (n + 3 - 0)..(n + 3) : i > n
    OBVIOUS
  <2>2. Upto(g, 0)
    BY <2>1
  <2> HIDE DEF Upto, g
  <2> QED
    BY <2>2
<1>2. ASSUME NEW k \in Nat, k \in P PROVE k + 1 \in P
  <2> HIDE DEF Upto
  <2> SUFFICES ASSUME k + 1 <= n + 2 PROVE \E g : Upto(g, k + 1)
    OBVIOUS
  <2>1. PICK g : Upto(g, k)
    BY <1>2
  <2> DEFINE lo == n + 3 - (k + 1)
             h == [i \in lo..(n + 3) |->
                     IF i > n THEN <<>> ELSE Turn(words, i, g[Jump(words, i)])]
  <2>2. lo \in Nat /\ lo \in 1..(n + 3) /\ n + 3 - k = lo + 1
    OBVIOUS
  <2>3. ASSUME NEW i \in (lo + 1)..(n + 3) PROVE h[i] = g[i]
    <3>1. g[i] = IF i > n THEN <<>> ELSE Turn(words, i, g[Jump(words, i)])
      BY <2>1, <2>2 DEF Upto
    <3>2. i \in lo..(n + 3)
      BY <2>2
    <3> QED
      BY <3>1, <3>2
  <2>4. ASSUME NEW i \in lo..(n + 3), ~(i > n) PROVE h[Jump(words, i)] = g[Jump(words, i)]
    <3>1. Jump(words, i) \in (i + 1)..(n + 3)
      BY <2>2, <2>4, JumpIs
    <3>2. Jump(words, i) \in (lo + 1)..(n + 3)
      BY <2>2, <3>1
    <3> HIDE DEF h
    <3> QED
      BY <2>3, <3>2
  <2>5. h = [i \in lo..(n + 3) |->
               IF i > n THEN <<>> ELSE Turn(words, i, h[Jump(words, i)])]
    BY <2>4
  <2>6. Upto(h, k + 1)
    BY <2>5 DEF Upto
  <2> HIDE DEF h
  <2> QED
    BY <2>6
<1> HIDE DEF P
<1>3. \A k \in Nat : k \in P
  BY <1>1, <1>2, Induction
<1>4. n + 2 \in P /\ n + 3 - (n + 2) = 1
  BY <1>3
<1> HIDE DEF Upto
<1>5. PICK g : Upto(g, n + 2)
  BY <1>4 DEF P
<1>6. IsParse(g, words)
  BY <1>4, <1>5 DEF Upto, IsParse
<1> QED
  BY <1>6

\* A known letter gives a command.
LEMMA CommandType ==
  ASSUME NEW w, Upper(w) \in {"M", "L", "H", "V", "Z"}, NEW x \in Int, NEW y \in Int
  PROVE  Command(w, x, y) \in Commands
<1>1. Upper(w) = "V" => w = "v" \/ w = "V"
  BY DEF Upper
<1> QED
  BY <1>1 DEF Command, Commands, Upper

\* A word and a parse of what follows give an error or commands, of the first
\* word one at least.
LEMMA TurnType ==
  ASSUME NEW words \in Words, NEW i \in 1..Len(words), NEW rest,
         rest = Invalid \/ rest \in Seq(Commands)
  PROVE  /\ Turn(words, i, rest) = Invalid \/ Turn(words, i, rest) \in Seq(Commands)
         /\ i = 1 => Turn(words, i, rest) = Invalid \/ Turn(words, i, rest) # <<>>
<1> DEFINE w == words[i][1]
           wide == Parameters(Upper(w))
           x == IF i + wide <= Len(words) /\ wide > 0 THEN words[i + 1][2] ELSE 0
           y == IF i + wide <= Len(words) /\ wide > 1 THEN words[i + 2][2] ELSE 0
           c == Command(w, x, y)
<1>1. Len(words) \in Nat /\ \A j \in 1..Len(words) : words[j] \in STRING \X Int
  BY LenProperties, ElementOfSeq DEF Words
<1>2. wide \in 0..2
  BY DEF Parameters
<1>3. x \in Int /\ y \in Int
  <2>1. i + wide <= Len(words) /\ wide > 0 => i + 1 \in 1..Len(words)
    BY <1>1, <1>2
  <2>2. i + wide <= Len(words) /\ wide > 1 => i + 2 \in 1..Len(words)
    BY <1>1, <1>2
  <2>3. i + wide <= Len(words) /\ wide > 0 => words[i + 1][2] \in Int
    BY <1>1, <2>1
  <2>4. i + wide <= Len(words) /\ wide > 1 => words[i + 2][2] \in Int
    BY <1>1, <2>2
  <2> HIDE DEF wide
  <2> QED
    BY <2>3, <2>4
<1>4. CASE i = 1 /\ Upper(w) # "M"
  BY <1>4 DEF Turn
<1>5. CASE ~(i = 1 /\ Upper(w) # "M") /\ Upper(w) \notin {"M", "L", "H", "V", "Z"}
  <2>1. Turn(words, i, rest) = <<>> /\ i # 1
    BY <1>5 DEF Turn
  <2> QED
    BY <2>1, EmptySeq
<1>6. CASE ~(i = 1 /\ Upper(w) # "M") /\ Upper(w) \in {"M", "L", "H", "V", "Z"}
  <2>1. c \in Commands
    BY <1>3, <1>6, CommandType
  <2>2. \/ Turn(words, i, rest) = Invalid
        \/ rest # Invalid /\ Turn(words, i, rest) = <<c>> \o rest
    <3>1. c = Command(w, x, y)
      OBVIOUS
    <3> QED
      BY <1>6 DEF Turn
  <2> HIDE DEF c
  <2>3. rest # Invalid => /\ <<c>> \in Seq(Commands) /\ rest \in Seq(Commands)
                          /\ <<c>> \o rest \in Seq(Commands)
                          /\ Len(<<c>> \o rest) = 1 + Len(rest)
    BY <2>1, ConcatProperties
  <2>4. rest # Invalid => <<c>> \o rest # <<>>
    BY <2>3, LenProperties, EmptySeq
  <2> QED
    BY <2>2, <2>3, <2>4
<1> QED
  BY <1>4, <1>5, <1>6

\* A string is parsed into commands, one at least, or not at all.
LEMMA ParsedType ==
  ASSUME NEW words \in Words, GetParsedSVG(words) # Invalid
  PROVE  GetParsedSVG(words) \in Seq(Commands) /\ GetParsedSVG(words) # <<>>
<1> DEFINE f == CHOOSE g : IsParse(g, words)
           n == Len(words)
           Fine(r) == r = Invalid \/ r \in Seq(Commands)
           P == {k \in Nat : \A i \in 1..(n + 3) : i >= n + 3 - k => Fine(f[i])}
<1>1. n \in Nat /\ n # 0
  BY LenProperties, EmptySeq DEF Words
<1>2. IsParse(f, words)
  BY <1>1, ParseExists
<1>3. GetParsedSVG(words) = f[1]
  BY ParseIs
<1> HIDE DEF f
<1>4. \A i \in 1..(n + 3) :
        f[i] = IF i > n THEN <<>> ELSE Turn(words, i, f[Jump(words, i)])
  BY <1>2 DEF IsParse
<1>5. 0 \in P
  <2>1. ASSUME NEW i \in 1..(n + 3), i >= n + 3 - 0 PROVE Fine(f[i])
    <3>1. i > n
      BY <1>1, <2>1
    <3>2. f[i] = <<>>
      BY <1>4, <3>1
    <3> QED
      BY <3>2, EmptySeq
  <2> QED
    BY <2>1
<1>6. ASSUME NEW k \in Nat, k \in P PROVE k + 1 \in P
  <2> SUFFICES ASSUME NEW i \in 1..(n + 3), i >= n + 3 - (k + 1) PROVE Fine(f[i])
    OBVIOUS
  <2>1. CASE i > n
    BY <1>4, <2>1, EmptySeq
  <2>2. CASE ~(i > n)
    <3>1. i \in 1..n /\ Jump(words, i) \in (i + 1)..(n + 3)
      BY <1>1, <2>2, JumpIs
    <3>2. Jump(words, i) \in 1..(n + 3) /\ Jump(words, i) >= n + 3 - k
      BY <1>1, <3>1
    <3>3. Fine(f[Jump(words, i)])
      BY <1>6, <3>2
    <3>4. f[i] = Turn(words, i, f[Jump(words, i)])
      BY <1>4, <2>2
    <3> QED
      BY <3>1, <3>3, <3>4, TurnType
  <2> QED
    BY <2>1, <2>2
<1> HIDE DEF P
<1>7. \A k \in Nat : k \in P
  BY <1>5, <1>6, Induction
<1>8. n + 2 \in P
  BY <1>1, <1>7
<1>9. \A i \in 1..(n + 3) : Fine(f[i])
  <2> SUFFICES ASSUME NEW i \in 1..(n + 3) PROVE Fine(f[i])
    OBVIOUS
  <2>1. i >= n + 3 - (n + 2)
    BY <1>1
  <2> QED
    BY <1>8, <2>1 DEF P
<1>10. 1 \in 1..n /\ ~(1 > n) /\ Jump(words, 1) \in 1..(n + 3) /\ 1 \in 1..(n + 3)
  <2>1. 1 \in 1..n
    BY <1>1
  <2>2. Jump(words, 1) \in (1 + 1)..(n + 3)
    BY <1>1, <2>1, JumpIs
  <2> QED
    BY <1>1, <2>1, <2>2
<1>11. f[1] = Turn(words, 1, f[Jump(words, 1)])
  BY <1>4, <1>10
<1>12. f[1] # Invalid /\ Fine(f[Jump(words, 1)])
  BY <1>3, <1>9, <1>10
<1> QED
  BY <1>3, <1>10, <1>11, <1>12, TurnType

\* A turn of the loop of SVGToPoints.
Visit(done, c) ==
  LET p == Point(c, done[1], done[Len(done)])
  IN  IF done = <<>> THEN <<Point(c, c, c)>> ELSE Append(done, p)

VisitStep == [done \in Seq(Points) |-> [c \in Commands |-> Visit(done, c)]]

PointsOf(commands) == FoldOf(VisitStep, <<>>, commands)

\* A command leads to a point.
LEMMA PointType ==
  ASSUME NEW c \in Commands, NEW first, NEW prev,
         first.X \in Int, first.Y \in Int, prev.X \in Int, prev.Y \in Int
  PROVE  Point(c, first, prev) \in Points
<1>1. c.type \in {"M", "L", "H", "V", "Z"} /\ c.relative \in BOOLEAN /\ c.X \in Int /\ c.Y \in Int
  BY DEF Commands
<1>2. (c.type = "M") \in BOOLEAN
  OBVIOUS
<1>3. (CASE c.type = "Z" -> first.X
         [] c.type = "V" -> prev.X
         [] c.relative   -> prev.X + c.X
         [] OTHER        -> c.X) \in Int
  BY <1>1
<1>4. (CASE c.type = "Z" -> first.Y
         [] c.type = "H" -> prev.Y
         [] c.relative   -> prev.Y + c.Y
         [] OTHER        -> c.Y) \in Int
  BY <1>1
<1> QED
  BY <1>2, <1>3, <1>4 DEF Point, Points

\* A command adds a point to those there are.
LEMMA VisitType ==
  ASSUME NEW done \in Seq(Points), NEW c \in Commands
  PROVE  Visit(done, c) \in Seq(Points) /\ Visit(done, c) # <<>>
<1>1. CASE done = <<>>
  <2>1. c.X \in Int /\ c.Y \in Int
    BY DEF Commands
  <2>2. Point(c, c, c) \in Points
    BY <2>1, PointType
  <2>3. Visit(done, c) = <<Point(c, c, c)>>
    BY <1>1 DEF Visit
  <2> QED
    BY <2>2, <2>3
<1>2. CASE done # <<>>
  <2>1. Len(done) \in Nat /\ Len(done) # 0
    BY <1>2, LenProperties, EmptySeq
  <2>2. done[1] \in Points /\ done[Len(done)] \in Points
    BY <2>1, ElementOfSeq
  <2>3. PICK p : p = Point(c, done[1], done[Len(done)])
    OBVIOUS
  <2>4. p \in Points
    BY <2>2, <2>3, PointType DEF Points
  <2>5. Visit(done, c) = Append(done, p)
    BY <1>2, <2>3 DEF Visit
  <2> QED
    BY <2>4, <2>5, AppendProperties
<1> QED
  BY <1>1, <1>2

\* What SVGToPoints goes through is the fold of its step.
LEMMA PointsAre ==
  ASSUME NEW commands \in Seq(Commands)
  PROVE  FoldLeft(LAMBDA done, c :
                    LET p == Point(c, done[1], done[Len(done)])
                    IN  IF done = <<>> THEN <<Point(c, c, c)>> ELSE Append(done, p),
                  <<>>, commands) = PointsOf(commands)
<1> DEFINE F == VisitStep
           V == Seq(Points)
           Eq(f) == f = [T \in SUBSET DOMAIN commands |->
                           IF T = {} THEN <<>> ELSE Visit(f[T \ {Max(T)}], commands[Max(T)])]
           k == CHOOSE f : Eq(f)
<1>1. \A done \in V, c \in Commands : F[done][c] = Visit(done, c)
  BY DEF VisitStep
<1>2. IsStep(F, V, Commands)
  BY VisitType DEF IsStep, VisitStep
<1>3. <<>> \in V
  BY EmptySeq
<1> HIDE DEF F, V
<1>4. PICK g : LeftFold(g, V, F, <<>>, commands)
  <2>1. PICK z \in V : z = <<>>
    BY <1>3
  <2>2. \E g : LeftFold(g, V, F, z, commands)
    BY ONLY <1>2, LeftFoldExists, z \in V, commands \in Seq(Commands)
  <2> QED
    BY <2>1, <2>2
<1>5. \A T \in SUBSET DOMAIN commands : T # {} =>
        T \ {Max(T)} \in SUBSET DOMAIN commands /\ commands[Max(T)] \in Commands
  BY LeftFoldTurn
<1>6. \A T \in SUBSET DOMAIN commands : T # {} =>
        F[g[T \ {Max(T)}]][commands[Max(T)]] = Visit(g[T \ {Max(T)}], commands[Max(T)])
  BY <1>1, <1>4, <1>5 DEF LeftFold
<1>7. Eq(g)
  BY <1>4, <1>6 DEF LeftFold
<1>8. Eq(k)
  <2> HIDE DEF Eq
  <2> QED
    BY <1>7
<1>9. FoldLeft(LAMBDA done, c :
                 LET p == Point(c, done[1], done[Len(done)])
                 IN  IF done = <<>> THEN <<Point(c, c, c)>> ELSE Append(done, p),
               <<>>, commands) = k[DOMAIN commands]
  BY DEF FoldLeft, MapThenFoldSet, Visit
<1> HIDE DEF k
<1>10. k[{}] = <<>> /\ \A T \in SUBSET DOMAIN commands : T # {} =>
        k[T] = Visit(k[T \ {Max(T)}], commands[Max(T)])
  BY <1>8
<1>11. LeftFollows(k, V, F, <<>>, commands)
  BY <1>1, <1>5, <1>10 DEF LeftFollows
<1>12. Whole(k, commands) = FoldOf(F, <<>>, commands)
  <2>1. PICK z \in V : z = <<>>
    BY <1>3
  <2>2. LeftFollows(k, V, F, z, commands)
    BY <1>11, <2>1
  <2>3. Whole(k, commands) = FoldOf(F, z, commands)
    BY ONLY <1>2, <2>2, FoldOfIs, z \in V, commands \in Seq(Commands)
  <2> QED
    BY <2>1, <2>3
<1> QED
  BY <1>9, <1>12 DEF Whole, F, PointsOf

\* So the points of a path are a sequence, and not an empty one.
LEMMA PointsType ==
  ASSUME NEW commands \in Seq(Commands)
  PROVE  /\ PointsOf(commands) \in Seq(Points)
         /\ commands # <<>> => PointsOf(commands) # <<>>
<1>1. IsStep(VisitStep, Seq(Points), Commands)
  BY VisitType DEF IsStep, VisitStep
<1>2. <<>> \in Seq(Points)
  BY EmptySeq
<1>3. PICK F, z, V : F = VisitStep /\ z = <<>> /\ V = Seq(Points)
  OBVIOUS
<1>4. z \in V /\ IsStep(F, V, Commands)
  BY <1>1, <1>2, <1>3
<1>5. \A s \in Seq(Commands) : FoldOf(F, z, s) \in V
  BY ONLY <1>4, FoldOfType
<1>6. CASE commands # <<>>
  <2>1. PICK r \in Seq(Commands), c \in Commands : commands = Append(r, c)
    BY <1>6, SequenceEmptyOrAppend
  <2>2. FoldOf(F, z, Append(r, c)) = F[FoldOf(F, z, r)][c]
    BY ONLY <1>4, FoldOfAppend, r \in Seq(Commands), c \in Commands
  <2>3. PointsOf(commands) = Visit(FoldOf(F, z, r), c)
    BY <1>3, <1>5, <2>1, <2>2 DEF PointsOf, VisitStep
  <2>4. FoldOf(F, z, r) \in Seq(Points)
    BY <1>3, <1>5
  <2> QED
    BY <2>3, <2>4, VisitType
<1>7. PointsOf(commands) \in Seq(Points)
  BY <1>3, <1>5 DEF PointsOf
<1> QED
  BY <1>6, <1>7

\* A set of natural numbers has a minimum.
LEMMA MinIn ==
  ASSUME NEW n \in Nat, NEW T \in SUBSET (0..n), T # {}
  PROVE  Min(T) \in T /\ \A y \in T : Min(T) <= y
<1> DEFINE S == {n + 1 - x : x \in T}
<1>1. S \in SUBSET (1..(n + 1)) /\ S # {} /\ n + 1 \in Nat
  <2>1. \A x \in T : n + 1 - x \in 1..(n + 1)
    <3> SUFFICES ASSUME NEW x \in T PROVE n + 1 - x \in 1..(n + 1)
      OBVIOUS
    <3>1. x \in 0..n
      OBVIOUS
    <3> QED
      BY ONLY <3>1, n \in Nat
  <2>2. PICK x \in T : TRUE
    OBVIOUS
  <2>3. n + 1 - x \in S
    OBVIOUS
  <2> QED
    BY <2>1, <2>3
<1>2. PICK M : M = S
  OBVIOUS
<1>3. Max(M) \in M /\ \A y \in M : y <= Max(M)
  BY <1>1, <1>2, MaxIn
<1>4. PICK x \in T : Max(M) = n + 1 - x
  BY <1>2, <1>3
<1>5. \A y \in T : x <= y
  <2> SUFFICES ASSUME NEW y \in T PROVE x <= y
    OBVIOUS
  <2>1. n + 1 - y \in M
    BY <1>2
  <2>2. n + 1 - y <= n + 1 - x
    BY <1>3, <1>4, <2>1
  <2> QED
    BY <2>2
<1> QED
  BY <1>5 DEF Min

\* The points SVGToPoints lets through.
InCanvas == [Moved : BOOLEAN, X : 0..CanvasXMax, Y : 0..CanvasXMax]

\* What an operation's shape can be.
LEMMA ShapeIs ==
  ASSUME NEW op \in Drawable
  PROVE  \/ /\ IsPath(Shape[op])
            /\ \E points \in Seq(InCanvas) \ {<<>>} :
                 /\ Shape[op] = NewPath(points, op.Filled)
                 /\ op.Filled => Closed(points)
         \/ /\ ~IsPath(Shape[op])
            /\ \E x, y, r \in Nat : Shape[op] = NewCircle(x, y, r, op.Filled)
<1> DEFINE commands == GetParsedSVG(op.SVGString)
           words == op.SVGString
<1>1. /\ op \in Operations /\ Shape[op] # Invalid
      /\ Shape[op] = IF commands # Invalid
                     THEN SVGToPoints(commands, CanvasXMax, CanvasXMax, op.Filled)
                     ELSE GetParsedCirc(words, op.Filled, CanvasXMax, CanvasXMax)
  BY DEF Drawable, Shape, getShapeFromOp
<1>2. words \in Words
  BY <1>1, CanvasAssumption DEF Words
<1> HIDE DEF commands, words
<1>3. CASE commands # Invalid
  <2>1. commands \in Seq(Commands) /\ commands # <<>>
    BY <1>2, <1>3, ParsedType DEF commands, words
  <2>2. PICK points : points = PointsOf(commands)
    OBVIOUS
  <2>3. points \in Seq(Points) /\ points # <<>>
    BY <2>1, <2>2, PointsType
  <2>4. Shape[op] = IF \/ \E i \in DOMAIN points : OutOfBounds(points[i], CanvasXMax, CanvasXMax)
                       \/ op.Filled /\ ~Closed(points)
                    THEN Invalid
                    ELSE NewPath(points, op.Filled)
    BY <1>1, <1>3, <2>1, <2>2, PointsAre DEF SVGToPoints
  <2>5. /\ \A i \in DOMAIN points : ~OutOfBounds(points[i], CanvasXMax, CanvasXMax)
        /\ op.Filled => Closed(points)
        /\ Shape[op] = NewPath(points, op.Filled)
    BY <1>1, <2>4
  <2>6. points \in Seq(InCanvas)
    <3>1. Len(points) \in Nat /\ DOMAIN points = 1..Len(points)
      BY <2>3, LenProperties
    <3>2. \A i \in 1..Len(points) : points[i] \in InCanvas
      <4> SUFFICES ASSUME NEW i \in 1..Len(points) PROVE points[i] \in InCanvas
        OBVIOUS
      <4>1. points[i] \in Points /\ ~OutOfBounds(points[i], CanvasXMax, CanvasXMax)
        BY <2>3, <2>5, <3>1, ElementOfSeq
      <4> QED
        BY <4>1, SvgPathAssumption DEF Points, OutOfBounds, InCanvas
    <3>3. points = [i \in 1..Len(points) |-> points[i]]
      BY <2>3, LenProperties
    <3>4. points \in [1..Len(points) -> InCanvas]
      BY <3>2, <3>3
    <3> QED
      BY <3>1, <3>4, SeqDef
  <2>7. IsPath(Shape[op])
    BY <2>5 DEF IsPath, NewPath
  <2> QED
    BY <2>3, <2>5, <2>6, <2>7
<1>4. CASE commands = Invalid
  <2>1. PICK k : k = Min(MatchesCircle(words))
    OBVIOUS
  <2>2. /\ MatchesCircle(words) # {}
        /\ Shape[op] = NewCircle(words[k + 1][2], words[k + 2][2], words[k + 3][2], op.Filled)
    BY <1>1, <1>4, <2>1 DEF GetParsedCirc
  <2>3. k \in MatchesCircle(words) /\ Len(words) \in Nat
    <3>1. Len(words) \in Nat
      BY <1>2, LenProperties DEF Words
    <3>2. MatchesCircle(words) \in SUBSET (0..Len(words))
      BY <3>1 DEF MatchesCircle
    <3> QED
      BY <2>1, <2>2, <3>1, <3>2, MinIn
  <2>4. \A i \in (k + 1)..(k + 3) : words[i][2] \in Nat
    <3> SUFFICES ASSUME NEW i \in (k + 1)..(k + 3) PROVE words[i][2] \in Nat
      OBVIOUS
    <3>1. k \in 1..(Len(words) - 3) /\ words[i][2] >= 0
      BY <2>3 DEF MatchesCircle
    <3>2. i \in 1..Len(words)
      BY <2>3, <3>1
    <3>3. words[i] \in STRING \X Int
      BY <1>2, <3>2, ElementOfSeq DEF Words
    <3> QED
      BY <3>1, <3>3
  <2>5. words[k + 1][2] \in Nat /\ words[k + 2][2] \in Nat /\ words[k + 3][2] \in Nat
    <3>1. k \in Int
      BY <2>3 DEF MatchesCircle
    <3>2. k + 1 \in (k + 1)..(k + 3) /\ k + 2 \in (k + 1)..(k + 3) /\ k + 3 \in (k + 1)..(k + 3)
      BY ONLY <3>1
    <3> QED
      BY <2>4, <3>2
  <2>6. ~IsPath(Shape[op])
    BY <2>2 DEF IsPath, NewCircle
  <2> QED
    BY <2>2, <2>6, <2>5
<1> QED
  BY <1>3, <1>4

-----------------------------------------------------------------------------
(* Filled paths are closed                                                 *)

\* Where the section of line i starts.
Starts(points, i) == {s \in 1..i : s = 1 \/ points[s].Moved}

\* The line that goes on where line i ends: the next one of its section, or the
\* first one.
Onward(points) ==
  [i \in Drawn(points) |-> IF i + 1 \in Drawn(points) THEN i + 1 ELSE Max(Starts(points, i))]

\* The section of a line is started by a line.
LEMMA OnwardIs ==
  ASSUME NEW points \in Seq(InCanvas), NEW i \in Drawn(points)
  PROVE  LET s == Max(Starts(points, i))
         IN  /\ s \in Drawn(points) /\ s <= i
             /\ s = 1 \/ points[s].Moved
             /\ \A k \in (s + 1)..(i + 1) : ~points[k].Moved
<1> DEFINE S == Starts(points, i)
           s == Max(S)
<1>1. Len(points) \in Nat /\ i \in 1..(Len(points) - 1) /\ ~points[i + 1].Moved
  BY LenProperties DEF Drawn
<1>2. S \in SUBSET (1..i) /\ 1 \in S
  BY <1>1 DEF Starts
<1>3. s \in S /\ \A y \in S : y <= s
  <2>1. i \in Nat /\ S # {}
    BY <1>1, <1>2
  <2> HIDE DEF S
  <2> QED
    BY <1>2, <2>1, MaxIn
<1>4. s \in 1..i /\ (s = 1 \/ points[s].Moved)
  BY <1>3 DEF Starts
<1>5. \A k \in (s + 1)..(i + 1) : ~points[k].Moved
  <2> SUFFICES ASSUME NEW k \in (s + 1)..(i + 1) PROVE ~points[k].Moved
    OBVIOUS
  <2>1. CASE k = i + 1
    BY <1>1, <2>1
  <2>2. CASE k # i + 1
    <3>1. k \in 1..i /\ k > s
      BY <1>1, <1>4, <2>2
    <3>2. k \notin S
      BY <1>3, <1>4, <3>1
    <3> QED
      BY <3>1, <3>2 DEF Starts
  <2> QED
    BY <2>1, <2>2
<1>6. s \in Drawn(points)
  <2>1. s \in 1..(Len(points) - 1) /\ s + 1 \in (s + 1)..(i + 1)
    BY <1>1, <1>4
  <2> QED
    BY <1>5, <2>1 DEF Drawn
<1> QED
  BY <1>1, <1>4, <1>5, <1>6

\* Going on from line to line comes to each line once.
LEMMA OnwardBijects ==
  ASSUME NEW points \in Seq(InCanvas)
  PROVE  /\ IsFiniteSet(Drawn(points))
         /\ Onward(points) \in Bijection(Drawn(points), Drawn(points))
<1> DEFINE D == Drawn(points)
           f == Onward(points)
           s(i) == Max(Starts(points, i))
<1>1. Len(points) \in Nat /\ D \subseteq 1..(Len(points) - 1)
  BY LenProperties DEF Drawn
<1>2. IsFiniteSet(D)
  <2>1. IsFiniteSet(1..(Len(points) - 1))
    BY <1>1, FS_Interval
  <2> HIDE DEF D
  <2> QED
    BY <1>1, <2>1, FS_Subset
<1>3. \A i \in D : /\ s(i) \in D /\ s(i) <= i
                   /\ s(i) = 1 \/ points[s(i)].Moved
                   /\ \A k \in (s(i) + 1)..(i + 1) : ~points[k].Moved
  BY OnwardIs
<1>4. \A i \in D : f[i] = IF i + 1 \in D THEN i + 1 ELSE s(i)
  BY DEF Onward
<1>5. f \in [D -> D]
  BY <1>3 DEF Onward
<1>6. ASSUME NEW i \in D, NEW j \in D, i < j PROVE f[i] # f[j]
  <2>1. /\ i \in 1..(Len(points) - 1) /\ j \in 1..(Len(points) - 1)
        /\ ~points[i + 1].Moved /\ ~points[j + 1].Moved
    BY <1>1 DEF Drawn
  <2>2. s(i) \in 1..i /\ s(j) \in 1..j
    BY <1>1, <1>3, <2>1
  <2>3. CASE i + 1 \in D
    <3>1. f[i] = i + 1
      BY <1>4, <2>3
    <3>2. CASE j + 1 \in D
      BY <1>4, <1>6, <2>1, <3>1, <3>2
    <3>3. CASE j + 1 \notin D
      <4>1. f[j] = s(j) /\ (s(j) = 1 \/ points[s(j)].Moved)
        BY <1>3, <1>4, <3>3
      <4> QED
        BY <2>1, <3>1, <4>1
    <3> QED
      BY <3>2, <3>3
  <2>4. CASE i + 1 \notin D
    <3>1. f[i] = s(i)
      BY <1>4, <2>4
    <3>2. CASE j + 1 \in D
      BY <1>4, <1>6, <2>1, <2>2, <3>1, <3>2
    <3>3. CASE j + 1 \notin D
      <4>1. f[j] = s(j)
        BY <1>4, <3>3
      <4>2. i + 1 # j
        BY <2>4
      <4>3. i + 1 \in 1..(Len(points) - 1) /\ i + 2 \in (i + 2)..j
        BY <1>6, <2>1, <4>2
      <4>4. points[(i + 1) + 1].Moved
        BY <2>4, <4>3 DEF Drawn
      <4>5. (i + 1) + 1 \notin (s(j) + 1)..(j + 1)
        BY <1>3, <4>4
      <4> QED
        BY <2>1, <2>2, <3>1, <4>1, <4>3, <4>5
    <3> QED
      BY <3>2, <3>3
  <2> QED
    BY <2>3, <2>4
<1>7. \A a, b \in D : f[a] = f[b] => a = b
  <2> SUFFICES ASSUME NEW a \in D, NEW b \in D, f[a] = f[b], a # b PROVE FALSE
    OBVIOUS
  <2>1. a < b \/ b < a
    BY <1>1
  <2> HIDE DEF D, f
  <2> QED
    BY <1>6, <2>1
<1> HIDE DEF D, f
<1>8. f \in Injection(D, D)
  BY <1>5, <1>7, Fun_IsInj
<1>9. f \in Surjection(D, D)
  BY <1>2, <1>8, FS_Injection
<1>10. f \in Bijection(D, D)
  BY <1>8, <1>9, Fun_IsBij
<1> QED
  BY <1>2, <1>10 DEF D, f

\* Where the path is closed, the line that goes on starts where the other ends.
LEMMA OnwardJoins ==
  ASSUME NEW points \in Seq(InCanvas), Closed(points), NEW i \in Drawn(points)
  PROVE  Place(points[Onward(points)[i]]) = Place(points[i + 1])
<1> DEFINE s == Max(Starts(points, i))
<1>1. /\ Len(points) \in Nat /\ DOMAIN points = 1..Len(points)
      /\ i \in 1..(Len(points) - 1)
  BY LenProperties DEF Drawn
<1>2. CASE i + 1 \in Drawn(points)
  BY <1>2 DEF Onward
<1>3. CASE i + 1 \notin Drawn(points)
  <2>1. Onward(points)[i] = s
    BY <1>3 DEF Onward
  <2>2. /\ s \in Drawn(points) /\ s <= i
        /\ s = 1 \/ points[s].Moved
        /\ \A k \in (s + 1)..(i + 1) : ~points[k].Moved
    BY OnwardIs
  <2>3. i + 1 = Len(points) \/ points[(i + 1) + 1].Moved
    <3>1. CASE i + 1 \in 1..(Len(points) - 1)
      BY <1>3, <3>1 DEF Drawn
    <3>2. CASE i + 1 \notin 1..(Len(points) - 1)
      <4>1. \A n \in Nat : \A j \in 1..(n - 1) : j + 1 \notin 1..(n - 1) => j + 1 = n
        OBVIOUS
      <4>2. i + 1 = Len(points)
        BY <1>1, <3>2, <4>1
      <4> QED
        BY <4>2
    <3> QED
      BY <3>1, <3>2
  <2>4. s \in 1..Len(points)
    BY <1>1, <2>2 DEF Drawn
  <2>5. s \in DOMAIN points /\ i + 1 \in DOMAIN points /\ s <= i + 1
    BY <1>1, <2>2, <2>4
  <2>6. points[s].X = points[i + 1].X /\ points[s].Y = points[i + 1].Y
    BY <2>2, <2>3, <2>5 DEF Closed
  <2> QED
    BY <2>1, <2>6 DEF Place
<1> QED
  BY <1>2, <1>3

\* The ends of lines at z.
EndsAt(points, z) == {d \in Drawn(points) \X {0, 1} : Place(points[d[1] + d[2]]) = z}

\* An end of a line at z is paired with the start of the one that goes on.
LEMMA EndsAreEven ==
  ASSUME NEW points \in Seq(InCanvas), Closed(points), NEW z
  PROVE  Cardinality(EndsAt(points, z)) % 2 = 0
<1> DEFINE D == Drawn(points)
           P(k) == Place(points[k])
           all == {d \in D \X {0, 1} : P(d[1] + d[2]) = z}
           from == {d \in all : d[2] = 0}
           to == {d \in all : d[2] = 1}
           f == Onward(points)
           g == [d \in to |-> <<f[d[1]], 0>>]
<1>1. \A n \in Int : n + 0 = n
  OBVIOUS
<1>2. D \subseteq Int
  BY DEF Drawn
<1>3. IsFiniteSet(D) /\ f \in Bijection(D, D)
  BY OnwardBijects
<1>4. f \in [D -> D] /\ (\A a, b \in D : f[a] = f[b] => a = b) /\ (\A t \in D : \E i \in D : f[i] = t)
  <2> HIDE DEF f, D
  <2> QED
    BY <1>3, Fun_BijectionProperties
<1>5. \A i \in D : P(f[i]) = P(i + 1)
  BY OnwardJoins
<1> HIDE DEF D, f, P
<1>6. g \in [to -> from]
  <2> SUFFICES ASSUME NEW d \in to PROVE <<f[d[1]], 0>> \in from
    OBVIOUS
  <2>1. d[1] \in D /\ d[2] = 1 /\ P(d[1] + 1) = z
    OBVIOUS
  <2>2. f[d[1]] \in D /\ P(f[d[1]]) = z
    BY <1>4, <1>5, <2>1
  <2>3. f[d[1]] + 0 = f[d[1]]
    BY ONLY <1>2, <1>1, <2>2
  <2>4. <<f[d[1]], 0>> \in D \X {0, 1} /\ <<f[d[1]], 0>>[1] = f[d[1]] /\ <<f[d[1]], 0>>[2] = 0
    BY <2>2
  <2> QED
    BY <2>2, <2>3, <2>4
<1>7. \A a, b \in to : g[a] = g[b] => a = b
  <2> SUFFICES ASSUME NEW a \in to, NEW b \in to, g[a] = g[b] PROVE a = b
    OBVIOUS
  <2>1. a = <<a[1], a[2]>> /\ b = <<b[1], b[2]>> /\ a[1] \in D /\ b[1] \in D /\ a[2] = 1 /\ b[2] = 1
    OBVIOUS
  <2>2. f[a[1]] = f[b[1]]
    OBVIOUS
  <2> QED
    BY <1>4, <2>1, <2>2
<1>8. \A t \in from : \E d \in to : g[d] = t
  <2> SUFFICES ASSUME NEW t \in from PROVE \E d \in to : g[d] = t
    OBVIOUS
  <2>1. t = <<t[1], t[2]>> /\ t[1] \in D /\ t[2] = 0 /\ P(t[1] + 0) = z
    OBVIOUS
  <2>2. P(t[1]) = z
    <3>1. t[1] + 0 = t[1]
      BY ONLY <1>2, <1>1, <2>1
    <3> QED
      BY <2>1, <3>1
  <2>3. PICK i \in D : f[i] = t[1]
    BY <1>4, <2>1
  <2>4. P(i + 1) = z
    BY <1>5, <2>2, <2>3
  <2>5. <<i, 1>> \in to
    BY <2>4
  <2>6. g[<<i, 1>>] = t
    BY <2>1, <2>3, <2>5
  <2> QED
    BY <2>5, <2>6
<1>9. IsFiniteSet(all)
  <2>1. IsFiniteSet({0, 1})
    <3>1. {0, 1} = {0} \cup {1}
      OBVIOUS
    <3>2. IsFiniteSet({0})
      BY FS_Singleton
    <3>3. IsFiniteSet({0} \cup {1})
      BY <3>2, FS_AddElement
    <3> QED
      BY <3>1, <3>3
  <2>2. IsFiniteSet(D \X {0, 1})
    BY <1>3, <2>1, FS_Product
  <2> QED
    BY <2>2, FS_Subset
<1>10. /\ from \cup to = all /\ from \cap to = {}
  OBVIOUS
<1> HIDE DEF from, to, all, g
<1>11. g \in Bijection(to, from)
  BY <1>6, <1>7, <1>8, Fun_IsBij
<1>12. IsFiniteSet(from) /\ IsFiniteSet(to)
  <2>1. from \in SUBSET all /\ to \in SUBSET all
    BY DEF from, to
  <2> QED
    BY <1>9, <2>1, FS_Subset
<1>13. Cardinality(from) = Cardinality(to) /\ Cardinality(to) \in Nat
  <2>1. ExistsBijection(to, from)
    BY <1>11 DEF ExistsBijection
  <2> QED
    BY <1>12, <2>1, FS_Bijection, FS_CardinalityType
<1>14. Cardinality(all) = 2 * Cardinality(to)
  <2>1. Cardinality(from \cup to) = Cardinality(from) + Cardinality(to) - Cardinality(from \cap to)
    BY <1>12, FS_Union
  <2>2. Cardinality({}) = 0
    BY FS_EmptySet
  <2> QED
    <3>1. Cardinality(from \cap to) = 0 /\ Cardinality(all) = Cardinality(from \cup to)
      BY <1>10, <2>2
    <3> QED
      BY ONLY <1>13, <2>1, <3>1
<1>15. Cardinality(all) % 2 = 0
  BY <1>13, <1>14
<1> QED
  BY <1>15 DEF all, D, P, EndsAt

\* The fields of a path's shape.
LEMMA PathFields ==
  ASSUME NEW points, NEW filled
  PROVE  /\ NewPath(points, filled).Points = points
         /\ NewPath(points, filled).Filled = filled
BY DEF NewPath

\* The shape of a path is given by its points, and closed when it is filled.
LEMMA PathIs ==
  ASSUME NEW op \in Drawable, IsPath(Shape[op])
  PROVE  /\ Shape[op].Points \in Seq(InCanvas) \ {<<>>}
         /\ Shape[op] = NewPath(Shape[op].Points, Shape[op].Filled)
         /\ Shape[op].Filled \in BOOLEAN
         /\ Shape[op].Filled => Closed(Shape[op].Points)
<1>1. \E points \in Seq(InCanvas) \ {<<>>} :
        Shape[op] = NewPath(points, op.Filled) /\ (op.Filled => Closed(points))
  BY ShapeIs
<1>2. PICK points \in Seq(InCanvas) \ {<<>>} :
        Shape[op] = NewPath(points, op.Filled) /\ (op.Filled => Closed(points))
  BY <1>1
<1>3. Shape[op].Points = points /\ Shape[op].Filled = op.Filled
  BY <1>2, PathFields
<1>4. op.Filled \in BOOLEAN
  BY CanvasAssumption DEF Drawable
<1> QED
  BY <1>2, <1>3, <1>4

\* Every place on the canvas is the end of an even number of a filled path's lines.
LEMMA FilledBoundRegions ==
  ASSUME drawn \subseteq Drawable
  PROVE  FilledAreClosed
<1> SUFFICES ASSUME NEW op \in drawn, IsPath(Shape[op]), Shape[op].Filled,
                    NEW c \in Drawn(Shape[op].Points) \X {0, 1}
             PROVE  Cardinality(EndsAt(Shape[op].Points,
                                       Place(Shape[op].Points[c[1] + c[2]]))) % 2 = 0
  BY DEF FilledAreClosed, EndsAt
<1>1. Shape[op].Points \in Seq(InCanvas) /\ Closed(Shape[op].Points)
  BY PathIs
<1> QED
  BY <1>1, EndsAreEven

-----------------------------------------------------------------------------
(* The pixels of a line: rounding, then the rows it passes                 *)

\* What division rounds to.
LEMMA DivIs ==
  ASSUME NEW n \in Int, NEW d \in Nat, d > 0
  PROVE  n \div d \in Int /\ d * (n \div d) <= n /\ n < d * (n \div d) + d
OBVIOUS

\* r is the row of the rounded value of n / w.
Rounds(r, n, w) == 2 * w * r <= 2 * n + w /\ 2 * n + w < 2 * w * r + 2 * w

\* Rounding is what YThresh computes.
LEMMA RoundsTo ==
  ASSUME NEW n \in Int, NEW w \in Nat, w > 0
  PROVE  (2 * n + w) \div (2 * w) \in Int /\ Rounds((2 * n + w) \div (2 * w), n, w)
<1>1. 2 * n + w \in Int /\ 2 * w \in Nat /\ 2 * w > 0
  OBVIOUS
<1>2. PICK m, d : m = 2 * n + w /\ d = 2 * w
  OBVIOUS
<1>3. m \div d \in Int /\ d * (m \div d) <= m /\ m < d * (m \div d) + d
  BY <1>1, <1>2, DivIs
<1> QED
  BY <1>2, <1>3 DEF Rounds

\* Rounding keeps the order.
LEMMA RoundsInOrder ==
  ASSUME NEW v \in Nat, NEW w \in Nat, v > 0, w > 0, NEW m \in Int, NEW n \in Int,
         NEW r \in Int, NEW s \in Int, Rounds(r, m, v), Rounds(s, n, w), m * w <= n * v
  PROVE  r <= s
<1> SUFFICES ASSUME r >= s + 1 PROVE FALSE
  OBVIOUS
<1>1. 2 * m + v >= 2 * v * (s + 1)
  <2>1. v * r >= v * (s + 1)
    OBVIOUS
  <2> QED
    BY <2>1 DEF Rounds
<1>2. 2 * n + w < 2 * w * (s + 1)
  BY DEF Rounds
<1>3. w * (2 * m + v) >= w * (2 * v * (s + 1))
  <2>1. \A a, b \in Int : a >= b => w * a >= w * b
    OBVIOUS
  <2> QED
    BY <1>1, <2>1
<1>4. v * (2 * n + w) < v * (2 * w * (s + 1))
  <2>1. \A a, b \in Int : a < b => v * a < v * b
    OBVIOUS
  <2> QED
    BY <1>2, <2>1
<1>5. w * (2 * m + v) = 2 * (m * w) + w * v /\ v * (2 * n + w) = 2 * (n * v) + w * v
  OBVIOUS
<1>6. w * (2 * v * (s + 1)) = v * (2 * w * (s + 1))
  OBVIOUS
<1> QED
  BY <1>3, <1>4, <1>5, <1>6

\* What is within half of a whole number rounds to it.
LEMMA RoundsExact ==
  ASSUME NEW w \in Nat, w > 0, NEW n \in Int, NEW r \in Int, NEW y \in Int, Rounds(r, n, w)
  PROVE  /\ n <= w * y => r <= y
         /\ n >= w * y => r >= y
<1>1. Rounds(y, w * y, w)
  BY DEF Rounds
<1>2. w * y \in Int
  OBVIOUS
<1>3. (n <= w * y => n * w <= (w * y) * w) /\ (n >= w * y => n * w >= (w * y) * w)
  OBVIOUS
<1> QED
  BY <1>1, <1>2, <1>3, RoundsInOrder

\* A whole number is not changed.
LEMMA RoundsWhole ==
  ASSUME NEW w \in Nat, w > 0, NEW r \in Int, NEW y \in Int, Rounds(r, w * y, w)
  PROVE  r = y
<1>1. PICK n : n = w * y
  OBVIOUS
<1>2. n \in Int /\ n <= w * y /\ n >= w * y
  BY <1>1
<1>3. Rounds(r, n, w)
  BY <1>1
<1>4. r <= y /\ r >= y
  BY <1>2, <1>3, RoundsExact
<1> QED
  BY <1>4

\* The columns from p to q, and the height of the line k columns on, by Width.
Width(p, q) == Distance(p.X, q.X)

Climb(p, q, k) == p.Y * Width(p, q) + (q.Y - p.Y) * k

\* How far a line goes, and which way.
LEMMA WidthIs ==
  ASSUME NEW p \in InCanvas, NEW q \in InCanvas
  PROVE  /\ p.X \in Nat /\ p.Y \in Nat /\ q.X \in Nat /\ q.Y \in Nat
         /\ Width(p, q) \in Nat /\ (p.X # q.X => Width(p, q) > 0) /\ (p.X = q.X => Width(p, q) = 0)
         /\ q.X = p.X + Sign(q.X - p.X) * Width(p, q)
         /\ Sign(q.X - p.X) \in {-1, 0, 1} /\ Sign(q.Y - p.Y) \in {-1, 0, 1}
<1>1. p.X \in Nat /\ p.Y \in Nat /\ q.X \in Nat /\ q.Y \in Nat
  BY SvgPathAssumption DEF InCanvas
<1> QED
  BY <1>1 DEF Width, Distance, Sign

\* The row of a line in each column is a rounding.
LEMMA RowIs ==
  ASSUME NEW p \in InCanvas, NEW q \in InCanvas, p.X # q.X, NEW k \in 0..Width(p, q)
  PROVE  /\ Climb(p, q, k) \in Int
         /\ YThresh(p, q, k) \in Int
         /\ Rounds(YThresh(p, q, k), Climb(p, q, k), Width(p, q))
<1>1. /\ p.X \in Nat /\ p.Y \in Nat /\ q.X \in Nat /\ q.Y \in Nat
      /\ Width(p, q) \in Nat /\ Width(p, q) > 0
  BY WidthIs
<1>2. PICK w, n : w = Width(p, q) /\ n = Climb(p, q, k)
  OBVIOUS
<1>3. n \in Int
  BY <1>1, <1>2 DEF Climb
<1>4. YThresh(p, q, k) = (2 * n + w) \div (2 * w)
  BY <1>1, <1>2 DEF YThresh, Climb, Width
<1> QED
  BY <1>1, <1>2, <1>3, <1>4, RoundsTo

\* A column has a row.
LEMMA ThreshType ==
  ASSUME NEW p \in InCanvas, NEW q \in InCanvas, NEW k \in 0..Width(p, q)
  PROVE  YThresh(p, q, k) \in Int
<1>1. p.X \in Nat /\ q.X \in Nat /\ q.Y \in Nat
  BY WidthIs
<1>2. CASE p.X = q.X
  BY <1>1, <1>2 DEF YThresh, Distance
<1>3. CASE p.X # q.X
  BY <1>3, RowIs
<1> QED
  BY <1>2, <1>3

\* The first column's row is the first point's, the last column's the last point's.
LEMMA RowEnds ==
  ASSUME NEW p \in InCanvas, NEW q \in InCanvas, p.X # q.X
  PROVE  YThresh(p, q, 0) = p.Y /\ YThresh(p, q, Width(p, q)) = q.Y
<1>1. /\ p.X \in Nat /\ p.Y \in Nat /\ q.X \in Nat /\ q.Y \in Nat
      /\ Width(p, q) \in Nat /\ Width(p, q) > 0
  BY WidthIs
<1>2. 0 \in 0..Width(p, q) /\ Width(p, q) \in 0..Width(p, q)
  BY <1>1
<1>3. PICK w, r, s : w = Width(p, q) /\ r = YThresh(p, q, 0) /\ s = YThresh(p, q, w)
  OBVIOUS
<1>4. Climb(p, q, 0) = w * p.Y /\ Climb(p, q, w) = w * q.Y
  BY <1>1, <1>3 DEF Climb
<1>5. r \in Int /\ Rounds(r, w * p.Y, w) /\ s \in Int /\ Rounds(s, w * q.Y, w)
  BY <1>2, <1>3, <1>4, RowIs
<1>6. \A y, t \in Int : Rounds(t, w * y, w) => t = y
  BY <1>1, <1>3, RoundsWhole
<1>7. p.Y \in Int /\ q.Y \in Int
  BY <1>1
<1>8. r = p.Y
  BY <1>5, <1>6, <1>7
<1>9. s = q.Y
  BY <1>5, <1>6, <1>7
<1> QED
  BY <1>3, <1>8, <1>9

\* Further columns have rows at least as far.
LEMMA RowMonotone ==
  ASSUME NEW p \in InCanvas, NEW q \in InCanvas, p.X # q.X,
         NEW j \in 0..Width(p, q), NEW k \in 0..Width(p, q), j <= k
  PROVE  /\ q.Y >= p.Y => YThresh(p, q, j) <= YThresh(p, q, k)
         /\ q.Y <= p.Y => YThresh(p, q, j) >= YThresh(p, q, k)
<1>1. /\ p.X \in Nat /\ p.Y \in Nat /\ q.X \in Nat /\ q.Y \in Nat
      /\ Width(p, q) \in Nat /\ Width(p, q) > 0
  BY WidthIs
<1>2. PICK w, r, s, m, n : /\ w = Width(p, q) /\ r = YThresh(p, q, j) /\ s = YThresh(p, q, k)
                           /\ m = Climb(p, q, j) /\ n = Climb(p, q, k)
  OBVIOUS
<1>3. /\ r \in Int /\ Rounds(r, m, w) /\ s \in Int /\ Rounds(s, n, w)
      /\ m \in Int /\ n \in Int
  BY <1>2, RowIs
<1>4. n - m = (q.Y - p.Y) * (k - j)
  BY <1>1, <1>2 DEF Climb
<1>5. /\ q.Y >= p.Y => (q.Y - p.Y) * (k - j) >= 0
      /\ q.Y <= p.Y => (q.Y - p.Y) * (k - j) <= 0
  <2>1. \A a, b \in Int : b >= 0 => (a >= 0 => a * b >= 0) /\ (a <= 0 => a * b <= 0)
    OBVIOUS
  <2> QED
    BY <1>1, <2>1
<1>6. /\ q.Y >= p.Y => m * w <= n * w
      /\ q.Y <= p.Y => n * w <= m * w
  <2>1. (q.Y >= p.Y => m <= n) /\ (q.Y <= p.Y => n <= m)
    BY <1>3, <1>4, <1>5, <1>1
  <2>2. \A a, b \in Int : a <= b => a * w <= b * w
    BY <1>1, <1>2
  <2> QED
    BY <1>3, <2>1, <2>2
<1>7. /\ q.Y >= p.Y => r <= s
      /\ q.Y <= p.Y => s <= r
  BY <1>1, <1>2, <1>3, <1>6, RoundsInOrder
<1> QED
  BY <1>2, <1>3, <1>7

\* How far from its first row a line is only grows, up to the last row.
LEMMA RowReaches ==
  ASSUME NEW p \in InCanvas, NEW q \in InCanvas, p.X # q.X,
         NEW j \in 0..Width(p, q), NEW k \in 0..Width(p, q), j <= k
  PROVE  /\ YThresh(p, q, k) \in To(p.Y, q.Y)
         /\ Distance(YThresh(p, q, j), p.Y) <= Distance(YThresh(p, q, k), p.Y)
<1>1. /\ p.X \in Nat /\ p.Y \in Nat /\ q.X \in Nat /\ q.Y \in Nat
      /\ Width(p, q) \in Nat /\ Width(p, q) > 0
  BY WidthIs
<1>2. 0 \in 0..Width(p, q) /\ Width(p, q) \in 0..Width(p, q) /\ 0 <= j /\ k <= Width(p, q)
  BY <1>1
<1>3. PICK r, s : r = YThresh(p, q, j) /\ s = YThresh(p, q, k)
  OBVIOUS
<1>4. r \in Int /\ s \in Int
  BY <1>3, RowIs
<1>5. YThresh(p, q, 0) = p.Y /\ YThresh(p, q, Width(p, q)) = q.Y
  BY RowEnds
<1>6. (q.Y >= p.Y => p.Y <= r) /\ (q.Y <= p.Y => p.Y >= r)
  BY <1>2, <1>3, <1>5, RowMonotone
<1>7. (q.Y >= p.Y => s <= q.Y) /\ (q.Y <= p.Y => s >= q.Y)
  BY <1>2, <1>3, <1>5, RowMonotone
<1>8. (q.Y >= p.Y => r <= s) /\ (q.Y <= p.Y => r >= s)
  BY <1>3, RowMonotone
<1>9. s \in To(p.Y, q.Y) /\ Distance(r, p.Y) <= Distance(s, p.Y)
  BY <1>1, <1>4, <1>6, <1>7, <1>8 DEF To, Distance
<1> QED
  BY <1>3, <1>9

\* e is the number of columns from p to where row y is entered.
IsEntry(p, q, y, e) ==
  /\ e \in 0..Width(p, q)
  /\ EntryX(p, q, y) = p.X + Sign(q.X - p.X) * e
  /\ Distance(YThresh(p, q, e), p.Y) >= Distance(y, p.Y)
  /\ \A k \in 0..Width(p, q) : k < e => Distance(YThresh(p, q, k), p.Y) < Distance(y, p.Y)

\* Each row is entered.
LEMMA EntryExists ==
  ASSUME NEW p \in InCanvas, NEW q \in InCanvas, NEW y \in To(p.Y, q.Y)
  PROVE  \E e \in 0..Width(p, q) : IsEntry(p, q, y, e)
<1>1. /\ p.X \in Nat /\ p.Y \in Nat /\ q.X \in Nat /\ q.Y \in Nat
      /\ Width(p, q) \in Nat /\ (p.X # q.X => Width(p, q) > 0) /\ (p.X = q.X => Width(p, q) = 0)
  BY WidthIs
<1>2. PICK w : w = Width(p, q)
  OBVIOUS
<1> DEFINE reached == {k \in 0..w : Distance(YThresh(p, q, k), p.Y) >= Distance(y, p.Y)}
<1>3. EntryX(p, q, y) = p.X + Sign(q.X - p.X) * Min(reached)
  BY <1>2 DEF EntryX, Width
<1>4. YThresh(p, q, w) = q.Y
  <2>1. CASE p.X = q.X
    BY <1>1, <1>2, <2>1 DEF YThresh, Width
  <2>2. CASE p.X # q.X
    BY <1>2, <2>2, RowEnds
  <2> QED
    BY <2>1, <2>2
<1>5. Distance(q.Y, p.Y) >= Distance(y, p.Y)
  BY <1>1 DEF Distance, To
<1>6. w \in reached /\ reached \in SUBSET (0..w) /\ w \in Nat
  BY <1>1, <1>2, <1>4, <1>5
<1>7. \A k \in 0..w : YThresh(p, q, k) \in Int
  BY <1>2, ThreshType
<1>8. PICK e : e = Min(reached)
  OBVIOUS
<1>9. e \in reached /\ \A k \in reached : e <= k
  <2> HIDE DEF reached
  <2> QED
    BY <1>6, <1>8, MinIn
<1>10. \A k \in 0..w : k < e => Distance(YThresh(p, q, k), p.Y) < Distance(y, p.Y)
  <2> SUFFICES ASSUME NEW k \in 0..w, k < e
               PROVE  Distance(YThresh(p, q, k), p.Y) < Distance(y, p.Y)
    OBVIOUS
  <2>1. ~(Distance(YThresh(p, q, k), p.Y) >= Distance(y, p.Y))
    BY <1>9, <1>6
  <2>2. Distance(YThresh(p, q, k), p.Y) \in Int /\ Distance(y, p.Y) \in Int
    BY <1>1, <1>7 DEF Distance, To
  <2> QED
    BY <2>1, <2>2
<1> QED
  BY <1>2, <1>3, <1>8, <1>9, <1>10 DEF IsEntry

\* A pixel k columns from p is set when the line has reached its row there and
\* not yet the next one in the column before.
LEMMA Held ==
  ASSUME NEW p \in InCanvas, NEW q \in InCanvas, NEW k \in 0..Width(p, q), NEW y \in To(p.Y, q.Y),
         Distance(YThresh(p, q, k), p.Y) >= Distance(y, p.Y),
         \A j \in 0..Width(p, q) : j < k => Distance(YThresh(p, q, j), p.Y) <= Distance(y, p.Y)
  PROVE  <<p.X + Sign(q.X - p.X) * k, y>> \in Outline(p, q)
<1>1. /\ p.X \in Nat /\ p.Y \in Nat /\ q.X \in Nat /\ q.Y \in Nat
      /\ Width(p, q) \in Nat /\ q.X = p.X + Sign(q.X - p.X) * Width(p, q)
      /\ Sign(q.X - p.X) \in {-1, 0, 1}
  BY WidthIs
<1>2. PICK e \in 0..Width(p, q) : IsEntry(p, q, y, e)
  BY EntryExists
<1>3. e <= k
  <2>1. CASE k < e
    <3>1. Distance(YThresh(p, q, k), p.Y) < Distance(y, p.Y)
      BY <1>2, <2>1 DEF IsEntry
    <3>2. YThresh(p, q, k) \in Int /\ y \in Int
      BY <1>1, ThreshType DEF To
    <3>3. Distance(YThresh(p, q, k), p.Y) \in Int /\ Distance(y, p.Y) \in Int
      BY <1>1, <3>2 DEF Distance
    <3> QED
      BY <3>1, <3>3
  <2>2. CASE ~(k < e)
    BY <1>1, <2>2
  <2> QED
    BY <2>1, <2>2
<1>4. PICK to : to = IF y = q.Y THEN q.X ELSE EntryX(p, q, y + Sign(q.Y - p.Y))
  OBVIOUS
<1>5. \E f \in 0..Width(p, q) : k <= f /\ to = p.X + Sign(q.X - p.X) * f
  <2>1. CASE y = q.Y
    BY <1>1, <1>4, <2>1
  <2>2. CASE y # q.Y
    <3>1. PICK z : z = y + Sign(q.Y - p.Y)
      OBVIOUS
    <3>2. z \in To(p.Y, q.Y) /\ Distance(z, p.Y) = Distance(y, p.Y) + 1 /\ Distance(y, p.Y) \in Nat
      BY <1>1, <2>2, <3>1 DEF Sign, Distance, To
    <3>3. PICK f \in 0..Width(p, q) : IsEntry(p, q, z, f)
      BY <3>2, EntryExists
    <3>4. Distance(YThresh(p, q, f), p.Y) >= Distance(y, p.Y) + 1
      BY <3>2, <3>3 DEF IsEntry
    <3>5. k <= f
      <4>1. CASE f < k
        <5>1. Distance(YThresh(p, q, f), p.Y) <= Distance(y, p.Y)
          BY <4>1
        <5>2. YThresh(p, q, f) \in Int
          BY ThreshType
        <5>3. Distance(YThresh(p, q, f), p.Y) \in Int
          BY <1>1, <5>2 DEF Distance
        <5> QED
          BY <3>2, <3>4, <5>1, <5>3
      <4>2. CASE ~(f < k)
        BY <4>2, <1>1
      <4> QED
        BY <4>1, <4>2
    <3>6. to = p.X + Sign(q.X - p.X) * f
      BY <1>4, <2>2, <3>1, <3>3 DEF IsEntry
    <3> QED
      BY <3>5, <3>6
  <2> QED
    BY <2>1, <2>2
<1>6. PICK f \in 0..Width(p, q) : k <= f /\ to = p.X + Sign(q.X - p.X) * f
  BY <1>5
<1>7. EntryX(p, q, y) = p.X + Sign(q.X - p.X) * e
  BY <1>2 DEF IsEntry
<1>8. p.X + Sign(q.X - p.X) * k \in To(EntryX(p, q, y), to)
  BY <1>1, <1>3, <1>6, <1>7 DEF To
<1> QED
  BY <1>4, <1>8 DEF Outline

\* In each column the row of the line is set.
LEMMA RowHeld ==
  ASSUME NEW p \in InCanvas, NEW q \in InCanvas, p.X # q.X, NEW k \in 0..Width(p, q)
  PROVE  <<p.X + Sign(q.X - p.X) * k, YThresh(p, q, k)>> \in Outline(p, q)
<1>1. Width(p, q) \in Nat /\ p.Y \in Nat
  BY WidthIs
<1>2. PICK y : y = YThresh(p, q, k)
  OBVIOUS
<1>3. y \in To(p.Y, q.Y) /\ Distance(y, p.Y) <= Distance(YThresh(p, q, k), p.Y)
  BY <1>1, <1>2, RowReaches
<1>4. \A j \in 0..Width(p, q) : j < k => Distance(YThresh(p, q, j), p.Y) <= Distance(y, p.Y)
  BY <1>1, <1>2, RowReaches
<1>5. Distance(y, p.Y) \in Int
  BY <1>1, <1>2, RowIs DEF Distance
<1>6. Distance(YThresh(p, q, k), p.Y) >= Distance(y, p.Y)
  BY <1>2, <1>5
<1> QED
  BY <1>2, <1>3, <1>4, <1>6, Held

\* In each column but the first all rows are set from the one before.
LEMMA StepHeld ==
  ASSUME NEW p \in InCanvas, NEW q \in InCanvas, p.X # q.X, NEW k \in Nat, k + 1 \in 0..Width(p, q),
         NEW y \in To(YThresh(p, q, k), YThresh(p, q, k + 1))
  PROVE  <<p.X + Sign(q.X - p.X) * (k + 1), y>> \in Outline(p, q)
<1>1. Width(p, q) \in Nat /\ p.Y \in Nat /\ q.Y \in Nat
  BY WidthIs
<1>2. k \in 0..Width(p, q)
  BY <1>1
<1>3. PICK r, s : r = YThresh(p, q, k) /\ s = YThresh(p, q, k + 1)
  OBVIOUS
<1>4. /\ r \in Int /\ s \in Int /\ r \in To(p.Y, q.Y) /\ s \in To(p.Y, q.Y)
      /\ Distance(r, p.Y) <= Distance(s, p.Y)
  BY <1>2, <1>3, RowIs, RowReaches
<1>5. /\ y \in To(p.Y, q.Y)
      /\ Distance(s, p.Y) >= Distance(y, p.Y) /\ Distance(r, p.Y) <= Distance(y, p.Y)
  BY <1>1, <1>3, <1>4 DEF To, Distance
<1>6. \A j \in 0..Width(p, q) : j < k + 1 => Distance(YThresh(p, q, j), p.Y) <= Distance(y, p.Y)
  <2> SUFFICES ASSUME NEW j \in 0..Width(p, q), j < k + 1
               PROVE  Distance(YThresh(p, q, j), p.Y) <= Distance(y, p.Y)
    OBVIOUS
  <2>1. j <= k
    OBVIOUS
  <2>2. Distance(YThresh(p, q, j), p.Y) <= Distance(r, p.Y)
    BY <1>2, <1>3, <2>1, RowReaches
  <2>3. YThresh(p, q, j) \in Int /\ y \in Int
    BY <1>5, <1>1, RowIs DEF To
  <2>4. Distance(YThresh(p, q, j), p.Y) \in Int /\ Distance(y, p.Y) \in Int /\ Distance(r, p.Y) \in Int
    BY <1>1, <1>4, <2>3 DEF Distance
  <2> QED
    BY <1>5, <2>2, <2>4
<1> QED
  BY <1>3, <1>5, <1>6, Held

\* The row of the line from p to q in column x.
At(p, q, x) == YThresh(p, q, Distance(x, p.X))

\* The slope of a line, by its Width and from left to right.
Slope(p, q) == Sign(q.X - p.X) * (q.Y - p.Y)

\* The height of the line in column x, times its width.
Rise(p, q, x) == p.Y * Width(p, q) + Slope(p, q) * (x - p.X)

\* Each column of a line is some columns from the first point.
LEMMA ColumnIs ==
  ASSUME NEW p \in InCanvas, NEW q \in InCanvas, p.X # q.X, NEW x \in To(p.X, q.X)
  PROVE  /\ Distance(x, p.X) \in 0..Width(p, q) /\ x \in Nat
         /\ x = p.X + Sign(q.X - p.X) * Distance(x, p.X)
         /\ Rise(p, q, x) = Climb(p, q, Distance(x, p.X))
<1>1. p.X \in Nat /\ p.Y \in Nat /\ q.X \in Nat /\ q.Y \in Nat
  BY WidthIs
<1>2. /\ Distance(x, p.X) \in 0..Width(p, q) /\ x \in Nat
      /\ x = p.X + Sign(q.X - p.X) * Distance(x, p.X)
  BY <1>1 DEF To, Distance, Width, Sign
<1>3. Sign(q.X - p.X) * (x - p.X) = Distance(x, p.X)
  BY <1>1 DEF To, Distance, Sign
<1>4. PICK s, d, w, h : s = Sign(q.X - p.X) /\ d = Distance(x, p.X) /\ w = Width(p, q) /\ h = q.Y - p.Y
  OBVIOUS
<1>5. s \in Int /\ d \in Int /\ w \in Int /\ h \in Int /\ x - p.X \in Int
  BY <1>1, <1>2, <1>4, WidthIs
<1>6. (s * h) * (x - p.X) = h * (s * (x - p.X))
  BY ONLY <1>5
<1>7. (s * h) * (x - p.X) = h * d
  BY <1>3, <1>4, <1>6
<1>8. Rise(p, q, x) = Climb(p, q, Distance(x, p.X))
  BY <1>4, <1>7 DEF Rise, Climb, Slope
<1> QED
  BY <1>2, <1>8

\* Slopes and rises are integers.
LEMMA RiseType ==
  ASSUME NEW p \in InCanvas, NEW q \in InCanvas, NEW x \in Int, NEW y \in Int
  PROVE  /\ Rise(p, q, x) \in Int /\ Slope(p, q) \in Int
         /\ Rise(p, q, x) - Rise(p, q, y) = Slope(p, q) * (x - y)
<1>1. /\ p.X \in Nat /\ p.Y \in Nat /\ q.X \in Nat /\ q.Y \in Nat
      /\ Width(p, q) \in Nat /\ Sign(q.X - p.X) \in {-1, 0, 1}
  BY WidthIs
<1>2. PICK s, w : s = Slope(p, q) /\ w = Width(p, q)
  OBVIOUS
<1>3. s \in Int /\ w \in Int
  BY <1>1, <1>2 DEF Slope
<1> QED
  BY <1>1, <1>2, <1>3 DEF Rise

\* The row of a column is its height rounded, and the pixel there is set.
LEMMA AtIs ==
  ASSUME NEW p \in InCanvas, NEW q \in InCanvas, p.X # q.X, NEW x \in To(p.X, q.X)
  PROVE  /\ At(p, q, x) \in Int
         /\ Rounds(At(p, q, x), Rise(p, q, x), Width(p, q))
         /\ <<x, At(p, q, x)>> \in Outline(p, q)
BY ColumnIs, RowIs, RowHeld DEF At

\* From one column to the next the pixels between the rows of both are set.
LEMMA AtStep ==
  ASSUME NEW p \in InCanvas, NEW q \in InCanvas, p.X # q.X,
         NEW x \in To(p.X, q.X), x + 1 \in To(p.X, q.X), NEW y \in To(At(p, q, x), At(p, q, x + 1))
  PROVE  /\ p.X < q.X => <<x + 1, y>> \in Outline(p, q)
         /\ p.X > q.X => <<x, y>> \in Outline(p, q)
<1>1. p.X \in Nat /\ q.X \in Nat /\ Width(p, q) \in Nat
  BY WidthIs
<1>2. /\ x \in Nat
      /\ Distance(x, p.X) \in 0..Width(p, q) /\ Distance(x + 1, p.X) \in 0..Width(p, q)
      /\ x = p.X + Sign(q.X - p.X) * Distance(x, p.X)
      /\ x + 1 = p.X + Sign(q.X - p.X) * Distance(x + 1, p.X)
  BY ColumnIs
<1>3. CASE p.X < q.X
  <2>1. PICK k : k = Distance(x, p.X)
    OBVIOUS
  <2>2. k \in Nat /\ Distance(x + 1, p.X) = k + 1
    BY <1>1, <1>2, <1>3, <2>1 DEF Distance, To
  <2>3. y \in To(YThresh(p, q, k), YThresh(p, q, k + 1))
    BY <2>1, <2>2 DEF At
  <2>4. <<p.X + Sign(q.X - p.X) * (k + 1), y>> \in Outline(p, q)
    BY <1>2, <2>2, <2>3, StepHeld
  <2> QED
    BY <1>1, <1>2, <1>3, <2>2, <2>4
<1>4. CASE p.X > q.X
  <2>1. PICK k : k = Distance(x + 1, p.X)
    OBVIOUS
  <2>2. k \in Nat /\ Distance(x, p.X) = k + 1
    BY <1>1, <1>2, <1>4, <2>1 DEF Distance, To
  <2>3. y \in To(YThresh(p, q, k), YThresh(p, q, k + 1))
    BY <2>1, <2>2 DEF At, To
  <2>4. <<p.X + Sign(q.X - p.X) * (k + 1), y>> \in Outline(p, q)
    BY <1>2, <2>2, <2>3, StepHeld
  <2> QED
    BY <1>1, <1>2, <1>4, <2>2, <2>4
<1> QED
  BY <1>1, <1>3, <1>4

\* Two lines that change places from one column to the next share a pixel.
LEMMA NeighboursShare ==
  ASSUME NEW p \in InCanvas, NEW q \in InCanvas, p.X # q.X,
         NEW u \in InCanvas, NEW v \in InCanvas, u.X # v.X,
         NEW x \in To(p.X, q.X), x + 1 \in To(p.X, q.X), x \in To(u.X, v.X), x + 1 \in To(u.X, v.X),
         At(p, q, x) <= At(u, v, x), At(p, q, x + 1) >= At(u, v, x + 1)
  PROVE  \E c : c \in Outline(p, q) /\ c \in Outline(u, v)
<1>1. p.X \in Nat /\ q.X \in Nat /\ u.X \in Nat /\ v.X \in Nat /\ x \in Nat
  BY WidthIs, ColumnIs
<1>2. PICK a, b, c, d : /\ a = At(p, q, x) /\ b = At(p, q, x + 1)
                        /\ c = At(u, v, x) /\ d = At(u, v, x + 1)
  OBVIOUS
<1>3. /\ a \in Int /\ b \in Int /\ c \in Int /\ d \in Int /\ a <= c /\ b >= d
      /\ <<x, a>> \in Outline(p, q) /\ <<x + 1, b>> \in Outline(p, q)
      /\ <<x, c>> \in Outline(u, v) /\ <<x + 1, d>> \in Outline(u, v)
  BY <1>2, AtIs
<1>4. \A y \in To(a, b) : /\ p.X < q.X => <<x + 1, y>> \in Outline(p, q)
                          /\ p.X > q.X => <<x, y>> \in Outline(p, q)
  BY <1>2, AtStep
<1>5. \A y \in To(c, d) : /\ u.X < v.X => <<x + 1, y>> \in Outline(u, v)
                          /\ u.X > v.X => <<x, y>> \in Outline(u, v)
  BY <1>2, AtStep
<1>6. \E y \in To(a, b) : y \in To(c, d)
  BY <1>3 DEF To
<1>7. (p.X < q.X \/ p.X > q.X) /\ (u.X < v.X \/ u.X > v.X)
  BY <1>1
<1>8. CASE p.X < q.X /\ u.X < v.X
  BY <1>4, <1>5, <1>6, <1>8
<1>9. CASE p.X > q.X /\ u.X > v.X
  BY <1>4, <1>5, <1>6, <1>9
<1>10. CASE p.X < q.X /\ u.X > v.X
  <2>1. CASE d >= a
    <3>1. d \in To(a, b)
      BY <1>3, <2>1 DEF To
    <3> QED
      BY <1>3, <1>4, <1>10, <3>1
  <2>2. CASE d < a
    <3>1. a \in To(c, d)
      BY <1>3, <2>2 DEF To
    <3> QED
      BY <1>3, <1>5, <1>10, <3>1
  <2> QED
    BY <1>3, <2>1, <2>2
<1>11. CASE p.X > q.X /\ u.X < v.X
  <2>1. CASE c <= b
    <3>1. c \in To(a, b)
      BY <1>3, <2>1 DEF To
    <3> QED
      BY <1>3, <1>4, <1>11, <3>1
  <2>2. CASE c > b
    <3>1. b \in To(c, d)
      BY <1>3, <2>2 DEF To
    <3> QED
      BY <1>3, <1>5, <1>11, <3>1
  <2> QED
    BY <1>3, <2>1, <2>2
<1> QED
  BY <1>7, <1>8, <1>9, <1>10, <1>11

\* So do lines that change places between two columns.
LEMMA GraphsShare ==
  ASSUME NEW p \in InCanvas, NEW q \in InCanvas, p.X # q.X,
         NEW u \in InCanvas, NEW v \in InCanvas, u.X # v.X,
         NEW A \in Nat, NEW B \in Nat, A <= B,
         \A x \in A..B : x \in To(p.X, q.X) /\ x \in To(u.X, v.X),
         At(p, q, A) <= At(u, v, A), At(p, q, B) >= At(u, v, B)
  PROVE  \E c : c \in Outline(p, q) /\ c \in Outline(u, v)
<1> DEFINE T == {n \in 0..(B - A) : At(p, q, A + n) >= At(u, v, A + n)}
<1>1. A + (B - A) = B /\ B - A \in Nat /\ A + 0 = A
  OBVIOUS
<1>2. B - A \in T /\ T \in SUBSET (0..(B - A))
  BY <1>1
<1>3. PICK n : n = Min(T)
  OBVIOUS
<1>4. n \in T /\ \A y \in T : n <= y
  <2> HIDE DEF T
  <2> QED
    BY <1>1, <1>2, <1>3, MinIn
<1>5. n \in 0..(B - A) /\ At(p, q, A + n) >= At(u, v, A + n)
  BY <1>4
<1>6. \A x \in A..B : At(p, q, x) \in Int /\ At(u, v, x) \in Int
                      /\ <<x, At(p, q, x)>> \in Outline(p, q) /\ <<x, At(u, v, x)>> \in Outline(u, v)
  BY AtIs
<1>7. CASE n = 0
  <2>1. A \in A..B /\ A + n = A
    BY <1>7
  <2>2. At(p, q, A) \in Int /\ At(u, v, A) \in Int
    BY <1>6, <2>1
  <2>3. At(p, q, A) >= At(u, v, A)
    BY <1>5, <2>1
  <2>4. At(p, q, A) = At(u, v, A)
    BY <2>2, <2>3
  <2> QED
    BY <1>6, <2>1, <2>4
<1>8. CASE n # 0
  <2>1. PICK x : x = A + (n - 1)
    OBVIOUS
  <2>2. x \in A..B /\ x + 1 \in A..B /\ x + 1 = A + n /\ n - 1 \in 0..(B - A)
    BY <1>5, <1>8, <2>1
  <2>3. n - 1 \notin T
    BY <1>4, <1>5, <2>2
  <2>4. ~(At(p, q, x) >= At(u, v, x))
    BY <2>1, <2>2, <2>3
  <2>5. At(p, q, x) \in Int /\ At(u, v, x) \in Int
    BY <1>6, <2>2
  <2>6. At(p, q, x) <= At(u, v, x)
    BY <2>4, <2>5
  <2>7. At(p, q, x + 1) >= At(u, v, x + 1)
    BY <1>5, <2>2
  <2> QED
    BY <2>2, <2>6, <2>7, NeighboursShare
<1> QED
  BY <1>7, <1>8

-----------------------------------------------------------------------------
(* Lines that meet share a pixel                                           *)

\* How far r is off the line through p and q, to one side or the other.
Off(p, q, r) == (q.X - p.X) * (r.Y - p.Y) - (q.Y - p.Y) * (r.X - p.X)

\* The side is the sign of the offset.
LEMMA SideIs ==
  ASSUME NEW p, NEW q, NEW r
  PROVE  Side(Place(p), Place(q), Place(r)) = Sign(Off(p, q, r))
BY DEF Side, Place, Off

\* The offset, by the height of the line at the column.
LEMMA OffIs ==
  ASSUME NEW p \in InCanvas, NEW q \in InCanvas, NEW r \in InCanvas
  PROVE  /\ Off(p, q, r) \in Int
         /\ p.X # q.X =>
              Sign(q.X - p.X) * Off(p, q, r) = Width(p, q) * r.Y - Rise(p, q, r.X)
<1>1. /\ p.X \in Nat /\ p.Y \in Nat /\ q.X \in Nat /\ q.Y \in Nat /\ r.X \in Nat /\ r.Y \in Nat
      /\ Width(p, q) \in Nat /\ q.X = p.X + Sign(q.X - p.X) * Width(p, q)
      /\ Sign(q.X - p.X) \in {-1, 0, 1}
  BY WidthIs
<1>2. Off(p, q, r) \in Int
  BY <1>1 DEF Off
<1>3. ASSUME p.X # q.X
      PROVE  Sign(q.X - p.X) * Off(p, q, r) = Width(p, q) * r.Y - Rise(p, q, r.X)
  <2>1. PICK s, w, h, g, d : /\ s = Sign(q.X - p.X) /\ w = Width(p, q) /\ h = q.Y - p.Y
                             /\ g = r.Y - p.Y /\ d = r.X - p.X
    OBVIOUS
  <2>2. s \in {-1, 1}
    BY <1>1, <1>3, <2>1 DEF Sign
  <2>3. w \in Int /\ h \in Int /\ g \in Int /\ d \in Int /\ q.X - p.X = s * w
    BY <1>1, <2>1
  <2>4. Off(p, q, r) = (s * w) * g - h * d
    BY <2>1, <2>3 DEF Off
  <2>5. s * ((s * w) * g - h * d) = w * g - (s * h) * d
    BY ONLY <2>2, <2>3
  <2>6. Rise(p, q, r.X) = p.Y * w + (s * h) * d
    BY <2>1 DEF Rise, Slope
  <2>7. w * r.Y = p.Y * w + w * g
    BY <1>1, <2>1, <2>3
  <2>8. (s * h) * d \in Int /\ w * g \in Int /\ p.Y * w \in Int
    BY <1>1, <2>2, <2>3
  <2>9. s * Off(p, q, r) = w * r.Y - Rise(p, q, r.X)
    BY <2>4, <2>5, <2>6, <2>7, <2>8
  <2> QED
    BY <2>1, <2>9
<1> QED
  BY <1>2, <1>3

\* The height of a line at its ends.
LEMMA RiseEnds ==
  ASSUME NEW p \in InCanvas, NEW q \in InCanvas, p.X # q.X
  PROVE  /\ Rise(p, q, p.X) = Width(p, q) * p.Y
         /\ Rise(p, q, q.X) = Width(p, q) * q.Y
<1>1. /\ p.X \in Nat /\ p.Y \in Nat /\ q.X \in Nat /\ q.Y \in Nat /\ Width(p, q) \in Nat
  BY WidthIs
<1>2. Off(p, q, p) = 0 /\ Off(p, q, q) = 0
  BY <1>1 DEF Off
<1>3. Sign(q.X - p.X) * 0 = 0
  BY <1>1 DEF Sign
<1>4. 0 = Width(p, q) * p.Y - Rise(p, q, p.X) /\ 0 = Width(p, q) * q.Y - Rise(p, q, q.X)
  BY <1>2, <1>3, OffIs
<1>5. Rise(p, q, p.X) \in Int /\ Rise(p, q, q.X) \in Int
  BY <1>1, RiseType
<1>6. PICK a, b, c, d : /\ a = Width(p, q) * p.Y /\ b = Width(p, q) * q.Y
                        /\ c = Rise(p, q, p.X) /\ d = Rise(p, q, q.X)
  OBVIOUS
<1>7. a \in Int /\ b \in Int /\ c \in Int /\ d \in Int /\ 0 = a - c /\ 0 = b - d
  BY <1>1, <1>4, <1>5, <1>6
<1>8. c = a /\ d = b
  BY ONLY <1>7
<1> QED
  BY <1>6, <1>8

\* How far the first line is above the second in column x, times both widths.
Gap(p, q, u, v, x) == Rise(p, q, x) * Width(u, v) - Rise(u, v, x) * Width(p, q)

\* How the gap between two lines changes from column to column.
Tilt(p, q, u, v) == Slope(p, q) * Width(u, v) - Slope(u, v) * Width(p, q)

\* Gaps grow with the tilt.
LEMMA GapIs ==
  ASSUME NEW p \in InCanvas, NEW q \in InCanvas, NEW u \in InCanvas, NEW v \in InCanvas,
         NEW x \in Int, NEW y \in Int
  PROVE  /\ Gap(p, q, u, v, x) \in Int /\ Tilt(p, q, u, v) \in Int
         /\ Gap(p, q, u, v, x) - Gap(p, q, u, v, y) = Tilt(p, q, u, v) * (x - y)
         /\ Gap(u, v, p, q, x) = -Gap(p, q, u, v, x)
         /\ Tilt(u, v, p, q) = -Tilt(p, q, u, v)
<1>1. PICK a, b, c, d, i, j, k, l : /\ a = Rise(p, q, x) /\ b = Rise(u, v, x)
                                    /\ c = Rise(p, q, y) /\ d = Rise(u, v, y)
                                    /\ i = Width(p, q) /\ j = Width(u, v)
                                    /\ k = Slope(p, q) /\ l = Slope(u, v)
  OBVIOUS
<1>2. /\ a \in Int /\ b \in Int /\ c \in Int /\ d \in Int
      /\ i \in Int /\ j \in Int /\ k \in Int /\ l \in Int
      /\ a - c = k * (x - y) /\ b - d = l * (x - y)
  BY <1>1, RiseType, WidthIs
<1>3. (a * j - b * i) - (c * j - d * i) = (k * j - l * i) * (x - y)
  <2>1. (a * j - b * i) - (c * j - d * i) = (a - c) * j - (b - d) * i
    BY ONLY <1>2
  <2>2. (k * (x - y)) * j - (l * (x - y)) * i = (k * j - l * i) * (x - y)
    BY ONLY <1>2, x \in Int, y \in Int
  <2> QED
    BY <1>2, <2>1, <2>2
<1>4. /\ a * j - b * i \in Int /\ k * j - l * i \in Int
      /\ b * i - a * j = -(a * j - b * i) /\ l * i - k * j = -(k * j - l * i)
  BY ONLY <1>2
<1> QED
  BY <1>1, <1>3, <1>4 DEF Gap, Tilt

\* On which side a point of the second line lies is the sign of the gap.
LEMMA GapSide ==
  ASSUME NEW p \in InCanvas, NEW q \in InCanvas, NEW u \in InCanvas, NEW v \in InCanvas,
         p.X # q.X, u.X # v.X, NEW r \in {u, v}
  PROVE  (Width(u, v) * Sign(q.X - p.X)) * Off(p, q, r) = -Gap(p, q, u, v, r.X)
<1>1. r \in InCanvas /\ r.X \in Nat /\ r.Y \in Nat
  BY WidthIs
<1>2. Rise(u, v, r.X) = Width(u, v) * r.Y
  BY RiseEnds
<1>3. Sign(q.X - p.X) * Off(p, q, r) = Width(p, q) * r.Y - Rise(p, q, r.X)
  BY <1>1, OffIs
<1>4. PICK s, o, i, j, a, b : /\ s = Sign(q.X - p.X) /\ o = Off(p, q, r) /\ i = Width(p, q)
                              /\ j = Width(u, v) /\ a = Rise(p, q, r.X) /\ b = Rise(u, v, r.X)
  OBVIOUS
<1>5. s \in Int /\ o \in Int /\ i \in Int /\ j \in Int /\ a \in Int /\ b \in Int
  BY <1>1, <1>4, WidthIs, OffIs, RiseType
<1>6. s * o = i * r.Y - a /\ b = j * r.Y
  BY <1>2, <1>3, <1>4
<1>7. (j * s) * o = j * (i * r.Y - a)
  <2>1. (j * s) * o = j * (s * o)
    BY ONLY <1>5
  <2> QED
    BY <1>6, <2>1
<1>8. j * (i * r.Y - a) = -(a * j - (j * r.Y) * i)
  BY ONLY <1>1, <1>5
<1>9. (j * s) * o = -(a * j - b * i)
  BY <1>6, <1>7, <1>8
<1> QED
  BY <1>4, <1>9 DEF Gap

\* Where the ends of the second line are on different sides of the first, the
\* gap at them has different signs.
LEMMA GapSigns ==
  ASSUME NEW p \in InCanvas, NEW q \in InCanvas, NEW u \in InCanvas, NEW v \in InCanvas,
         p.X # q.X, u.X # v.X, Sign(Off(p, q, u)) # Sign(Off(p, q, v))
  PROVE  Sign(Gap(p, q, u, v, u.X)) # Sign(Gap(p, q, u, v, v.X))
<1>1. PICK f, a, b, c, d : /\ f = Width(u, v) * Sign(q.X - p.X)
                           /\ a = Off(p, q, u) /\ b = Off(p, q, v)
                           /\ c = Gap(p, q, u, v, u.X) /\ d = Gap(p, q, u, v, v.X)
  OBVIOUS
<1>2. /\ p.X \in Nat /\ q.X \in Nat /\ u.X \in Nat /\ v.X \in Nat
      /\ Width(u, v) \in Nat /\ Width(u, v) > 0
  BY WidthIs
<1>3. a \in Int /\ b \in Int /\ c \in Int /\ d \in Int
  BY <1>1, <1>2, OffIs, GapIs
<1>4. f \in Int /\ f # 0
  <2>1. Sign(q.X - p.X) = 1 \/ Sign(q.X - p.X) = -1
    BY <1>2 DEF Sign
  <2> QED
    BY <1>1, <1>2, <2>1
<1>5. f * a = -c /\ f * b = -d
  BY <1>1, GapSide
<1>6. Sign(a) # Sign(b)
  BY <1>1
<1>7. /\ f > 0 => (a > 0 <=> c < 0) /\ (a < 0 <=> c > 0) /\ (b > 0 <=> d < 0) /\ (b < 0 <=> d > 0)
      /\ f < 0 => (a > 0 <=> c > 0) /\ (a < 0 <=> c < 0) /\ (b > 0 <=> d > 0) /\ (b < 0 <=> d < 0)
  <2>1. \A g, n \in Int : /\ g > 0 => (n > 0 <=> g * n > 0) /\ (n < 0 <=> g * n < 0)
                          /\ g < 0 => (n > 0 <=> g * n < 0) /\ (n < 0 <=> g * n > 0)
    OBVIOUS
  <2>2. /\ f > 0 => (a > 0 <=> f * a > 0) /\ (a < 0 <=> f * a < 0)
        /\ f < 0 => (a > 0 <=> f * a < 0) /\ (a < 0 <=> f * a > 0)
    BY <1>3, <1>4, <2>1
  <2>3. /\ f > 0 => (b > 0 <=> f * b > 0) /\ (b < 0 <=> f * b < 0)
        /\ f < 0 => (b > 0 <=> f * b < 0) /\ (b < 0 <=> f * b > 0)
    BY <1>3, <1>4, <2>1
  <2> QED
    BY <1>3, <1>5, <2>2, <2>3
<1>8. Sign(c) # Sign(d)
  BY <1>3, <1>4, <1>6, <1>7 DEF Sign
<1> QED
  BY <1>1, <1>8

\* A gap that grows is not positive where it has the sign it loses and not
\* negative where it has the other.
LEMMA GapTurns ==
  ASSUME NEW p \in InCanvas, NEW q \in InCanvas, NEW u \in InCanvas, NEW v \in InCanvas,
         Tilt(p, q, u, v) > 0, NEW a \in Nat, NEW b \in Nat, a < b,
         Sign(Gap(p, q, u, v, a)) # Sign(Gap(p, q, u, v, b))
  PROVE  Gap(p, q, u, v, a) <= 0 /\ 0 <= Gap(p, q, u, v, b)
<1>1. PICK k, c, d : k = Tilt(p, q, u, v) /\ c = Gap(p, q, u, v, a) /\ d = Gap(p, q, u, v, b)
  OBVIOUS
<1>2. k \in Int /\ c \in Int /\ d \in Int /\ d - c = k * (b - a) /\ k > 0
  BY <1>1, GapIs
<1>3. k * (b - a) > 0
  BY ONLY <1>2, a \in Nat, b \in Nat, a < b
<1>4. Sign(c) # Sign(d)
  BY <1>1
<1>5. c <= 0 /\ 0 <= d
  BY <1>2, <1>3, <1>4 DEF Sign
<1> QED
  BY <1>1, <1>5

\* Two slanting lines that cross share a pixel.
LEMMA SlantsShare ==
  ASSUME NEW p \in InCanvas, NEW q \in InCanvas, NEW u \in InCanvas, NEW v \in InCanvas,
         p.X # q.X, u.X # v.X, Tilt(p, q, u, v) > 0,
         Sign(Off(p, q, u)) # Sign(Off(p, q, v)), Sign(Off(u, v, p)) # Sign(Off(u, v, q))
  PROVE  \E c : c \in Outline(p, q) /\ c \in Outline(u, v)
<1> DEFINE G(x) == Gap(p, q, u, v, x)
<1>1. /\ p.X \in Nat /\ q.X \in Nat /\ u.X \in Nat /\ v.X \in Nat
      /\ Width(p, q) \in Nat /\ Width(p, q) > 0 /\ Width(u, v) \in Nat /\ Width(u, v) > 0
  BY WidthIs
<1>2. \A x \in Int : /\ G(x) \in Int /\ Gap(u, v, p, q, x) = -G(x)
                     /\ \A y \in Int : G(x) - G(y) = Tilt(p, q, u, v) * (x - y)
  BY GapIs
<1>3. Sign(G(u.X)) # Sign(G(v.X))
  BY GapSigns
<1>4. Sign(G(p.X)) # Sign(G(q.X))
  <2>1. Sign(Gap(u, v, p, q, p.X)) # Sign(Gap(u, v, p, q, q.X))
    BY GapSigns
  <2>2. PICK c, d : c = G(p.X) /\ d = G(q.X)
    OBVIOUS
  <2>3. c \in Int /\ d \in Int /\ Gap(u, v, p, q, p.X) = -c /\ Gap(u, v, p, q, q.X) = -d
    <3>1. p.X \in Int /\ q.X \in Int
      BY <1>1
    <3> QED
      BY <1>2, <2>2, <3>1
  <2>4. Sign(-c) # Sign(-d)
    BY <2>1, <2>3
  <2>5. Sign(c) # Sign(d)
    BY <2>3, <2>4 DEF Sign
  <2> QED
    BY <2>2, <2>5
<1>5. PICK a \in Nat, b \in Nat : /\ a < b /\ {a, b} = {p.X, q.X}
                                  /\ \A x \in a..b : x \in To(p.X, q.X)
  <2>1. CASE p.X < q.X
    BY <1>1, <2>1 DEF To
  <2>2. CASE q.X < p.X
    BY <1>1, <2>2 DEF To
  <2>3. p.X < q.X \/ q.X < p.X
    BY <1>1
  <2> QED
    BY ONLY <2>1, <2>2, <2>3
<1>6. PICK c \in Nat, d \in Nat : /\ c < d /\ {c, d} = {u.X, v.X}
                                  /\ \A x \in c..d : x \in To(u.X, v.X)
  <2>1. CASE u.X < v.X
    BY <1>1, <2>1 DEF To
  <2>2. CASE v.X < u.X
    BY <1>1, <2>2 DEF To
  <2>3. u.X < v.X \/ v.X < u.X
    BY <1>1
  <2> QED
    BY ONLY <2>1, <2>2, <2>3
<1>7. G(a) <= 0 /\ 0 <= G(b)
  <2>1. Sign(G(a)) # Sign(G(b))
    BY <1>4, <1>5
  <2> QED
    BY <1>5, <2>1, GapTurns
<1>8. G(c) <= 0 /\ 0 <= G(d)
  <2>1. Sign(G(c)) # Sign(G(d))
    BY <1>3, <1>6
  <2> QED
    BY <1>6, <2>1, GapTurns
<1>9. PICK A \in {a, c} : a <= A /\ c <= A
  BY <1>5, <1>6
<1>10. PICK B \in {b, d} : B <= b /\ B <= d
  BY <1>5, <1>6
<1>11. G(A) <= 0 /\ 0 <= G(B) /\ A \in Nat /\ B \in Nat
  BY <1>5, <1>6, <1>7, <1>8, <1>9, <1>10
<1>12. A <= B
  <2> SUFFICES ASSUME B < A PROVE FALSE
    BY <1>11
  <2>1. PICK k, e, f : k = Tilt(p, q, u, v) /\ e = G(A) /\ f = G(B)
    OBVIOUS
  <2>2. k \in Int /\ e \in Int /\ f \in Int /\ e - f = k * (A - B) /\ k > 0
    BY <1>11, <2>1, GapIs
  <2>3. k * (A - B) > 0
    BY ONLY <1>11, <2>2, B < A
  <2> QED
    BY <1>11, <2>1, <2>2, <2>3
<1>13. \A x \in A..B : x \in To(p.X, q.X) /\ x \in To(u.X, v.X)
  <2> SUFFICES ASSUME NEW x \in A..B PROVE x \in a..b /\ x \in c..d
    BY <1>5, <1>6
  <2> QED
    BY <1>5, <1>6, <1>9, <1>10, <1>11
<1>14. A \in A..B /\ B \in A..B
  BY <1>11, <1>12
<1>15. At(p, q, A) <= At(u, v, A)
  <2>1. /\ At(p, q, A) \in Int /\ Rounds(At(p, q, A), Rise(p, q, A), Width(p, q))
        /\ At(u, v, A) \in Int /\ Rounds(At(u, v, A), Rise(u, v, A), Width(u, v))
    BY <1>13, <1>14, AtIs
  <2>2. Rise(p, q, A) \in Int /\ Rise(u, v, A) \in Int
    BY <1>11, RiseType
  <2>3. Rise(p, q, A) * Width(u, v) <= Rise(u, v, A) * Width(p, q)
    <3>1. Rise(p, q, A) * Width(u, v) \in Int /\ Rise(u, v, A) * Width(p, q) \in Int
      BY <1>1, <2>2
    <3> QED
      BY <1>11, <3>1 DEF Gap
  <2> QED
    BY <1>1, <2>1, <2>2, <2>3, RoundsInOrder
<1>16. At(p, q, B) >= At(u, v, B)
  <2>1. /\ At(p, q, B) \in Int /\ Rounds(At(p, q, B), Rise(p, q, B), Width(p, q))
        /\ At(u, v, B) \in Int /\ Rounds(At(u, v, B), Rise(u, v, B), Width(u, v))
    BY <1>13, <1>14, AtIs
  <2>2. Rise(p, q, B) \in Int /\ Rise(u, v, B) \in Int
    BY <1>11, RiseType
  <2>3. Rise(u, v, B) * Width(p, q) <= Rise(p, q, B) * Width(u, v)
    <3>1. Rise(p, q, B) * Width(u, v) \in Int /\ Rise(u, v, B) * Width(p, q) \in Int
      BY <1>1, <2>2
    <3> QED
      BY <1>11, <3>1 DEF Gap
  <2>4. At(u, v, B) <= At(p, q, B)
    BY <1>1, <2>1, <2>2, <2>3, RoundsInOrder
  <2> QED
    BY <2>1, <2>4
<1> HIDE DEF G
<1> QED
  BY <1>11, <1>12, <1>13, <1>15, <1>16, GraphsShare

\* The pixels of a vertical line.
LEMMA UprightIs ==
  ASSUME NEW p \in InCanvas, NEW q \in InCanvas, p.X = q.X, NEW y \in To(p.Y, q.Y)
  PROVE  <<p.X, y>> \in Outline(p, q)
<1>1. /\ p.X \in Nat /\ p.Y \in Nat /\ q.Y \in Nat /\ Width(p, q) = 0
      /\ Sign(q.X - p.X) \in {-1, 0, 1}
  BY WidthIs
<1>2. 0 \in 0..Width(p, q) /\ YThresh(p, q, 0) = q.Y
  BY <1>1 DEF YThresh, Width
<1>3. /\ Distance(q.Y, p.Y) >= Distance(y, p.Y)
      /\ \A j \in 0..Width(p, q) : j < 0 => Distance(YThresh(p, q, j), p.Y) <= Distance(y, p.Y)
  BY <1>1 DEF Distance, To
<1>4. <<p.X + Sign(q.X - p.X) * 0, y>> \in Outline(p, q)
  BY <1>2, <1>3, Held
<1> QED
  BY <1>1, <1>4

\* A vertical line and one that is not.
LEMMA UprightShares ==
  ASSUME NEW p \in InCanvas, NEW q \in InCanvas, NEW u \in InCanvas, NEW v \in InCanvas,
         p.X = q.X, u.X # v.X,
         Sign(Off(p, q, u)) # Sign(Off(p, q, v)), Sign(Off(u, v, p)) # Sign(Off(u, v, q))
  PROVE  \E c : c \in Outline(p, q) /\ c \in Outline(u, v)
<1>1. /\ p.X \in Nat /\ p.Y \in Nat /\ q.X \in Nat /\ q.Y \in Nat /\ u.X \in Nat /\ v.X \in Nat
      /\ u.Y \in Nat /\ v.Y \in Nat /\ Width(u, v) \in Nat /\ Width(u, v) > 0
  BY WidthIs
<1>2. p.X \in To(u.X, v.X)
  <2>1. PICK h, d, e : h = q.Y - p.Y /\ d = u.X - p.X /\ e = v.X - p.X
    OBVIOUS
  <2>2. h \in Int /\ d \in Int /\ e \in Int
    BY <1>1, <2>1
  <2>3. Off(p, q, u) = -(h * d) /\ Off(p, q, v) = -(h * e)
    <3>1. q.X - p.X = 0 /\ 0 * (u.Y - p.Y) = 0 /\ 0 * (v.Y - p.Y) = 0
      BY <1>1
    <3> QED
      BY <2>1, <2>2, <3>1 DEF Off
  <2>4. Sign(-(h * d)) # Sign(-(h * e))
    BY <2>3
  <2>5. ~(d > 0 /\ e > 0) /\ ~(d < 0 /\ e < 0)
    <3>1. \A g, n, m \in Int : n > 0 /\ m > 0 => Sign(-(g * n)) = Sign(-(g * m))
      <4> SUFFICES ASSUME NEW g \in Int, NEW n \in Int, NEW m \in Int, n > 0, m > 0
                   PROVE  Sign(-(g * n)) = Sign(-(g * m))
        OBVIOUS
      <4>1. \A k \in Int : k > 0 => (g > 0 => g * k > 0) /\ (g < 0 => g * k < 0) /\ (g = 0 => g * k = 0)
        OBVIOUS
      <4>2. (g > 0 => g * n > 0) /\ (g < 0 => g * n < 0) /\ (g = 0 => g * n = 0)
        BY <4>1
      <4>3. (g > 0 => g * m > 0) /\ (g < 0 => g * m < 0) /\ (g = 0 => g * m = 0)
        BY <4>1
      <4>4. PICK i, j \in Int : i = g * n /\ j = g * m
        OBVIOUS
      <4> QED
        BY <4>2, <4>3, <4>4 DEF Sign
    <3>2. \A g, n, m \in Int : n < 0 /\ m < 0 => Sign(-(g * n)) = Sign(-(g * m))
      <4> SUFFICES ASSUME NEW g \in Int, NEW n \in Int, NEW m \in Int, n < 0, m < 0
                   PROVE  Sign(-(g * n)) = Sign(-(g * m))
        OBVIOUS
      <4>1. \A k \in Int : k < 0 => (g > 0 => g * k < 0) /\ (g < 0 => g * k > 0) /\ (g = 0 => g * k = 0)
        OBVIOUS
      <4>2. (g > 0 => g * n < 0) /\ (g < 0 => g * n > 0) /\ (g = 0 => g * n = 0)
        BY <4>1
      <4>3. (g > 0 => g * m < 0) /\ (g < 0 => g * m > 0) /\ (g = 0 => g * m = 0)
        BY <4>1
      <4>4. PICK i, j \in Int : i = g * n /\ j = g * m
        OBVIOUS
      <4> QED
        BY <4>2, <4>3, <4>4 DEF Sign
    <3> QED
      BY <2>2, <2>4, <3>1, <3>2
  <2> QED
    BY <1>1, <2>1, <2>5 DEF To
<1>3. PICK w, n, s, r, f, g : /\ w = Width(u, v) /\ n = Rise(u, v, p.X) /\ s = Sign(v.X - u.X)
                              /\ r = At(u, v, p.X) /\ f = Off(u, v, p) /\ g = Off(u, v, q)
  OBVIOUS
<1>4. /\ w \in Nat /\ w > 0 /\ n \in Int /\ s \in {-1, 1} /\ f \in Int /\ g \in Int
      /\ s * f = w * p.Y - n /\ s * g = w * q.Y - n
  <2>1. s \in {-1, 1}
    BY <1>1, <1>3 DEF Sign
  <2> QED
    BY <1>1, <1>3, <2>1, OffIs, RiseType
<1>5. r \in Int /\ Rounds(r, n, w) /\ <<p.X, r>> \in Outline(u, v)
  BY <1>2, <1>3, AtIs
<1>6. Sign(f) # Sign(g)
  BY <1>3
<1>7. PICK a, b \in Int : a = w * p.Y /\ b = w * q.Y
  BY <1>1, <1>4
<1>8. (a <= n /\ n <= b) \/ (b <= n /\ n <= a)
  <2>1. s * f = a - n /\ s * g = b - n
    BY <1>4, <1>7
  <2>2. ~(a > n /\ b > n) /\ ~(a < n /\ b < n)
    BY <1>4, <1>6, <1>7, <2>1 DEF Sign
  <2> QED
    BY <1>4, <1>7, <2>2
<1>9. \A y \in Int : (n <= w * y => r <= y) /\ (n >= w * y => r >= y)
  BY <1>4, <1>5, RoundsExact
<1>10. /\ (n <= a => r <= p.Y) /\ (n >= a => r >= p.Y)
       /\ (n <= b => r <= q.Y) /\ (n >= b => r >= q.Y)
  BY <1>1, <1>7, <1>9
<1>11. r \in To(p.Y, q.Y)
  BY <1>1, <1>4, <1>5, <1>7, <1>8, <1>10 DEF To
<1> QED
  BY <1>5, <1>11, UprightIs

\* A place on the line is one of its pixels.
LEMMA OnHeld ==
  ASSUME NEW p \in InCanvas, NEW q \in InCanvas, NEW r \in InCanvas,
         On(Place(r), <<Place(p), Place(q)>>)
  PROVE  Place(r) \in Outline(p, q)
<1>1. /\ p.X \in Nat /\ p.Y \in Nat /\ q.X \in Nat /\ q.Y \in Nat /\ r.X \in Nat /\ r.Y \in Nat
      /\ Width(p, q) \in Nat /\ (p.X # q.X => Width(p, q) > 0) /\ Sign(q.X - p.X) \in {-1, 0, 1}
  BY WidthIs
<1>2. /\ Side(Place(p), Place(q), Place(r)) = 0
      /\ r.X \in To(p.X, q.X) /\ r.Y \in To(p.Y, q.Y)
  BY DEF On, Place
<1>3. Off(p, q, r) = 0
  BY <1>2, SideIs, OffIs DEF Sign
<1>4. CASE p.X = q.X
  <2>1. r.X = p.X
    BY <1>1, <1>2, <1>4 DEF To
  <2> QED
    BY <1>2, <1>4, <2>1, UprightIs DEF Place
<1>5. CASE p.X # q.X
  <2>1. PICK w, n, y : w = Width(p, q) /\ n = Rise(p, q, r.X) /\ y = At(p, q, r.X)
    OBVIOUS
  <2>2. y \in Int /\ Rounds(y, n, w) /\ <<r.X, y>> \in Outline(p, q)
    BY <1>2, <1>5, <2>1, AtIs
  <2>3. Sign(q.X - p.X) * 0 = w * r.Y - n
    BY <1>3, <1>5, <2>1, OffIs
  <2>4. n \in Int /\ w \in Nat /\ w > 0
    BY <1>1, <1>5, <2>1, RiseType
  <2>5. PICK m \in Int : m = w * r.Y
    BY <1>1, <2>4
  <2>6. n = m
    <3>1. Sign(q.X - p.X) * 0 = 0
      BY ONLY <1>1
    <3>2. 0 = m - n
      BY <2>3, <2>5, <3>1
    <3> QED
      BY ONLY <2>4, <2>5, <3>2
  <2>7. r.Y \in Int /\ \A z \in Int : Rounds(y, w * z, w) => y = z
    <3>1. w > 0 /\ w \in Nat /\ y \in Int
      BY <2>2, <2>4
    <3>2. \A z \in Int : Rounds(y, w * z, w) => y = z
      BY ONLY <3>1, RoundsWhole
    <3> QED
      BY <1>1, <3>2
  <2>8. y = r.Y
    BY <2>2, <2>5, <2>6, <2>7
  <2> QED
    BY <2>2, <2>8 DEF Place
<1> QED
  BY <1>4, <1>5

\* So are its ends.
LEMMA EndsHeld ==
  ASSUME NEW p \in InCanvas, NEW q \in InCanvas
  PROVE  Place(p) \in Outline(p, q) /\ Place(q) \in Outline(p, q)
<1>1. /\ p.X \in Nat /\ p.Y \in Nat /\ q.X \in Nat /\ q.Y \in Nat
  BY WidthIs
<1>2. Off(p, q, p) = 0 /\ Off(p, q, q) = 0
  BY <1>1 DEF Off
<1>3. Side(Place(p), Place(q), Place(p)) = 0 /\ Side(Place(p), Place(q), Place(q)) = 0
  <2>1. Sign(0) = 0
    BY DEF Sign
  <2> QED
    BY <1>2, <2>1, SideIs
<1>4. /\ p.X \in To(p.X, q.X) /\ p.Y \in To(p.Y, q.Y)
      /\ q.X \in To(p.X, q.X) /\ q.Y \in To(p.Y, q.Y)
  BY <1>1 DEF To
<1>5. On(Place(p), <<Place(p), Place(q)>>) /\ On(Place(q), <<Place(p), Place(q)>>)
  BY <1>3, <1>4 DEF On, Place
<1> QED
  BY <1>5, OnHeld

\* Lines that meet share a pixel.
LEMMA MeetShare ==
  ASSUME NEW p \in InCanvas, NEW q \in InCanvas, NEW u \in InCanvas, NEW v \in InCanvas,
         Meet(<<Place(p), Place(q)>>, <<Place(u), Place(v)>>)
  PROVE  \E c : c \in Outline(p, q) /\ c \in Outline(u, v)
<1>1. CASE \/ On(Place(p), <<Place(u), Place(v)>>) \/ On(Place(q), <<Place(u), Place(v)>>)
           \/ On(Place(u), <<Place(p), Place(q)>>) \/ On(Place(v), <<Place(p), Place(q)>>)
  BY <1>1, OnHeld, EndsHeld
<1>2. CASE /\ Sign(Off(p, q, u)) # Sign(Off(p, q, v))
           /\ Sign(Off(u, v, p)) # Sign(Off(u, v, q))
  <2>1. CASE p.X = q.X /\ u.X = v.X
    <3>1. /\ p.X \in Nat /\ p.Y \in Nat /\ q.X \in Nat /\ q.Y \in Nat
          /\ u.X \in Nat /\ u.Y \in Nat /\ v.X \in Nat /\ v.Y \in Nat
      BY WidthIs
    <3>2. Off(p, q, u) = Off(p, q, v)
      BY <2>1, <3>1 DEF Off
    <3> QED
      BY <1>2, <3>2
  <2>2. CASE p.X = q.X /\ u.X # v.X
    BY <1>2, <2>2, UprightShares
  <2>3. CASE p.X # q.X /\ u.X = v.X
    <3>1. \E c : c \in Outline(u, v) /\ c \in Outline(p, q)
      BY <1>2, <2>3, UprightShares
    <3> QED
      BY <3>1
  <2>4. CASE p.X # q.X /\ u.X # v.X
    <3>1. CASE Tilt(p, q, u, v) > 0
      BY <1>2, <2>4, <3>1, SlantsShare
    <3>2. CASE Tilt(p, q, u, v) < 0
      <4>1. Tilt(u, v, p, q) > 0
        <5>1. 0 \in Int
          OBVIOUS
        <5>2. Tilt(p, q, u, v) \in Int /\ Tilt(u, v, p, q) = -Tilt(p, q, u, v)
          BY <5>1, GapIs
        <5> QED
          BY <3>2, <5>2
      <4>2. \E c : c \in Outline(u, v) /\ c \in Outline(p, q)
        BY <1>2, <2>4, <4>1, SlantsShare
      <4> QED
        BY <4>2
    <3>3. CASE Tilt(p, q, u, v) = 0
      <4>1. u.X \in Int /\ v.X \in Int
        BY WidthIs
      <4>2. PICK c, d : c = Gap(p, q, u, v, u.X) /\ d = Gap(p, q, u, v, v.X)
        OBVIOUS
      <4>3. c \in Int /\ d \in Int /\ c - d = 0 * (u.X - v.X)
        BY <3>3, <4>1, <4>2, GapIs
      <4>4. c = d
        BY <4>1, <4>3
      <4>5. Sign(c) # Sign(d)
        BY <1>2, <2>4, <4>2, GapSigns
      <4> QED
        BY <4>4, <4>5
    <3>4. Tilt(p, q, u, v) \in Int
      <4>1. 0 \in Int
        OBVIOUS
      <4> QED
        BY <4>1, GapIs
    <3> QED
      BY <3>1, <3>2, <3>3, <3>4
  <2> QED
    BY <2>1, <2>2, <2>3, <2>4
<1> QED
  BY <1>1, <1>2, SideIs DEF Meet

\* The pixels of each line of an operation's shape are among the shape's.
LEMMA LineInked ==
  ASSUME NEW op \in Drawable, NEW l \in Lines(Shape[op])
  PROVE  \E p, q \in InCanvas : l = <<Place(p), Place(q)>> /\ Outline(p, q) \subseteq Sub[op].bits
<1>1. IsPath(Shape[op])
  BY DEF Lines
<1>2. PICK points, filled :
        /\ points \in Seq(InCanvas) \ {<<>>}
        /\ Shape[op] = NewPath(points, filled) /\ Shape[op].Points = points
  BY <1>1, PathIs
<1>3. PICK i \in Drawn(points) : l = Line(points, i)
  BY <1>1, <1>2 DEF Lines
<1>4. Len(points) \in Nat /\ i \in 1..(Len(points) - 1) /\ i + 1 \in 1..Len(points) /\ i \in 1..Len(points)
  BY <1>2, LenProperties DEF Drawn
<1>5. points[i] \in InCanvas /\ points[i + 1] \in InCanvas
  BY <1>2, <1>4, ElementOfSeq
<1>6. Outline(points[i], points[i + 1]) \subseteq Sub[op].bits
  <2>1. "R" \notin DOMAIN Shape[op]
    BY <1>2 DEF NewPath
  <2>2. Sub[op] = PathSubArray(Shape[op])
    BY <2>1 DEF Sub, SubArray
  <2>3. "bits" \in DOMAIN Bounds(Shape[op])
    BY DEF Bounds, NewPixelSubArray
  <2>4. UNION {Outline(points[j], points[j + 1]) : j \in Drawn(points)} \subseteq PathSubArray(Shape[op]).bits
    BY <1>2, <2>3 DEF PathSubArray, Drawn
  <2> QED
    BY <1>3, <2>2, <2>4
<1> QED
  BY <1>3, <1>5, <1>6 DEF Line

\* So lines of shapes that have no pixel in common do not meet.
LEMMA LinesApart ==
  ASSUME drawn \subseteq Drawable,
         \A s, t \in drawn : s # t => Sub[s].bits \cap Sub[t].bits = {}
  PROVE  LinesNeverCross
<1> SUFFICES ASSUME NEW s \in drawn, NEW t \in drawn, s # t,
                    NEW l \in Lines(Shape[s]), NEW m \in Lines(Shape[t]), Meet(l, m)
             PROVE  FALSE
  BY DEF LinesNeverCross
<1>1. PICK p \in InCanvas, q \in InCanvas :
        l = <<Place(p), Place(q)>> /\ Outline(p, q) \subseteq Sub[s].bits
  BY LineInked
<1>2. PICK u \in InCanvas, v \in InCanvas :
        m = <<Place(u), Place(v)>> /\ Outline(u, v) \subseteq Sub[t].bits
  BY LineInked
<1>3. \E c : c \in Outline(p, q) /\ c \in Outline(u, v)
  BY <1>1, <1>2, MeetShare
<1> QED
  BY <1>1, <1>2, <1>3

-----------------------------------------------------------------------------
(* What a line flips, and on which side of it a pixel is                   *)

\* Passing to the left, by the rows of the ends and the side.
LEMMA PassIs ==
  ASSUME NEW p \in InCanvas, NEW q \in InCanvas, NEW r \in InCanvas
  PROVE  PassesLeft(<<Place(p), Place(q)>>, Place(r)) <=>
           \/ p.Y <= r.Y /\ r.Y < q.Y /\ Off(p, q, r) < 0
           \/ q.Y <= r.Y /\ r.Y < p.Y /\ Off(p, q, r) > 0
<1>1. Off(p, q, r) \in Int
  BY OffIs
<1>2. Sign(Off(p, q, r)) = -1 <=> Off(p, q, r) < 0
  BY <1>1 DEF Sign
<1>3. Sign(Off(p, q, r)) = 1 <=> Off(p, q, r) > 0
  BY <1>1 DEF Sign
<1>4. <<Place(p), Place(q)>>[1] = Place(p) /\ <<Place(p), Place(q)>>[2] = Place(q)
  OBVIOUS
<1>5. Place(p)[2] = p.Y /\ Place(q)[2] = q.Y /\ Place(r)[2] = r.Y
  BY DEF Place
<1> QED
  BY <1>2, <1>3, <1>4, <1>5, SideIs DEF PassesLeft

\* The pixel where a row is entered is set.
LEMMA EntryHeld ==
  ASSUME NEW p \in InCanvas, NEW q \in InCanvas, NEW y \in To(p.Y, q.Y)
  PROVE  /\ EntryX(p, q, y) \in Int
         /\ <<EntryX(p, q, y), y>> \in Outline(p, q)
         /\ y = q.Y => To(EntryX(p, q, y), q.X) \X {y} \subseteq Outline(p, q)
         /\ y = p.Y => EntryX(p, q, y) = p.X
<1>1. /\ p.X \in Nat /\ p.Y \in Nat /\ q.X \in Nat /\ q.Y \in Nat
      /\ Width(p, q) \in Nat /\ Sign(q.X - p.X) \in {-1, 0, 1} /\ Sign(q.Y - p.Y) \in {-1, 0, 1}
  BY WidthIs
<1>2. PICK e \in 0..Width(p, q) : IsEntry(p, q, y, e)
  BY EntryExists
<1>3. EntryX(p, q, y) \in Int
  BY <1>1, <1>2 DEF IsEntry
<1>4. PICK to : to = IF y = q.Y THEN q.X ELSE EntryX(p, q, y + Sign(q.Y - p.Y))
  OBVIOUS
<1>5. to \in Int
  <2>1. CASE y = q.Y
    BY <1>1, <1>4, <2>1
  <2>2. CASE y # q.Y
    <3>1. PICK z : z = y + Sign(q.Y - p.Y)
      OBVIOUS
    <3>2. z \in To(p.Y, q.Y)
      BY <1>1, <2>2, <3>1 DEF To, Sign
    <3>3. PICK f \in 0..Width(p, q) : IsEntry(p, q, z, f)
      BY <3>2, EntryExists
    <3>4. EntryX(p, q, z) \in Int
      BY <1>1, <3>3 DEF IsEntry
    <3> QED
      BY <1>4, <2>2, <3>1, <3>4
  <2> QED
    BY <2>1, <2>2
<1>6. To(EntryX(p, q, y), to) \X {y} \subseteq Outline(p, q)
  BY <1>4 DEF Outline
<1>7. EntryX(p, q, y) \in To(EntryX(p, q, y), to)
  BY <1>3, <1>5 DEF To
<1>8. y = p.Y => EntryX(p, q, y) = p.X
  <2> SUFFICES ASSUME y = p.Y PROVE EntryX(p, q, y) = p.X
    OBVIOUS
  <2>1. 0 \in 0..Width(p, q) /\ YThresh(p, q, 0) \in Int
    BY <1>1, ThreshType
  <2>2. ~(Distance(YThresh(p, q, 0), p.Y) < Distance(y, p.Y))
    BY <1>1, <2>1 DEF Distance
  <2>3. e = 0
    BY <1>1, <1>2, <2>1, <2>2 DEF IsEntry
  <2> QED
    BY <1>1, <1>2, <2>3 DEF IsEntry
<1> QED
  BY <1>3, <1>4, <1>6, <1>7, <1>8

\* A line that comes to the row of r.
LEMMA ArriveSide ==
  ASSUME NEW p \in InCanvas, NEW q \in InCanvas, NEW r \in InCanvas, q.Y = r.Y, p.Y # r.Y,
         Place(r) \notin Outline(p, q)
  PROVE  /\ EntryX(p, q, r.Y) <= r.X <=> q.X < r.X
         /\ PassesLeft(<<Place(p), Place(q)>>, Place(r)) <=> p.Y > r.Y /\ q.X < r.X
<1>1. /\ p.X \in Nat /\ p.Y \in Nat /\ q.X \in Nat /\ q.Y \in Nat /\ r.X \in Nat /\ r.Y \in Nat
  BY WidthIs
<1>2. r.Y \in To(p.Y, q.Y)
  BY <1>1 DEF To
<1>3. PICK e : e = EntryX(p, q, r.Y)
  OBVIOUS
<1>4. e \in Int /\ To(e, q.X) \X {r.Y} \subseteq Outline(p, q)
  BY <1>2, <1>3, EntryHeld
<1>5. r.X \notin To(e, q.X)
  BY <1>4 DEF Place
<1>6. e <= r.X <=> q.X < r.X
  BY <1>1, <1>4, <1>5 DEF To
<1>7. PICK h, d \in Int : h = q.Y - p.Y /\ d = q.X - r.X
  BY <1>1
<1>8. h \in Int /\ d \in Int /\ r.Y - p.Y = h
  BY <1>7
<1>9. Off(p, q, r) = h * d
  <2>1. PICK a, b \in Int : a = q.X - p.X /\ b = r.X - p.X
    BY <1>1
  <2>2. d = a - b
    BY <1>1, <1>7, <2>1
  <2>3. Off(p, q, r) = a * h - h * b
    BY <1>7, <1>8, <2>1 DEF Off
  <2>4. a * h - h * b = h * (a - b)
    BY ONLY <1>8, <2>1
  <2> QED
    BY <2>2, <2>3, <2>4
<1>10. h < 0 => (h * d > 0 <=> d < 0)
  BY ONLY <1>8
<1>11. PassesLeft(<<Place(p), Place(q)>>, Place(r)) <=> p.Y > r.Y /\ q.X < r.X
  <2>1. ~(r.Y < q.Y) /\ q.Y <= r.Y /\ (h < 0 <=> r.Y < p.Y) /\ (d < 0 <=> q.X < r.X)
    BY <1>1, <1>7
  <2>2. (r.Y < p.Y) <=> (p.Y > r.Y)
    BY <1>1
  <2> QED
    BY <1>9, <1>10, <2>1, <2>2, PassIs
<1> QED
  BY <1>3, <1>6, <1>11

\* A line that leaves the row of r.
LEMMA DepartSide ==
  ASSUME NEW p \in InCanvas, NEW q \in InCanvas, NEW r \in InCanvas, p.Y = r.Y, q.Y # r.Y,
         Place(r) \notin Outline(p, q)
  PROVE  /\ EntryX(p, q, r.Y) <= r.X <=> p.X < r.X
         /\ PassesLeft(<<Place(p), Place(q)>>, Place(r)) <=> q.Y > r.Y /\ p.X < r.X
<1>1. /\ p.X \in Nat /\ p.Y \in Nat /\ q.X \in Nat /\ q.Y \in Nat /\ r.X \in Nat /\ r.Y \in Nat
  BY WidthIs
<1>2. r.Y \in To(p.Y, q.Y)
  BY <1>1 DEF To
<1>3. EntryX(p, q, r.Y) = p.X /\ <<p.X, r.Y>> \in Outline(p, q)
  BY <1>2, EntryHeld
<1>4. r.X # p.X
  BY <1>3 DEF Place
<1>5. PICK h, d \in Int : h = q.Y - p.Y /\ d = r.X - p.X
  BY <1>1
<1>6. Off(p, q, r) = -(h * d)
  <2>1. r.Y - p.Y = 0 /\ (q.X - p.X) * 0 = 0
    BY <1>1
  <2> QED
    BY <1>5, <2>1 DEF Off
<1>7. h > 0 => (-(h * d) < 0 <=> d > 0)
  BY ONLY <1>5
<1>8. ~(r.Y < p.Y) /\ p.Y <= r.Y /\ (h > 0 <=> r.Y < q.Y) /\ (d > 0 <=> p.X < r.X)
  BY <1>1, <1>5
<1>9. PassesLeft(<<Place(p), Place(q)>>, Place(r)) <=> q.Y > r.Y /\ p.X < r.X
  <2>1. (r.Y < q.Y) <=> (q.Y > r.Y)
    BY <1>1
  <2> QED
    BY <1>6, <1>7, <1>8, <2>1, PassIs
<1> QED
  BY <1>1, <1>3, <1>4, <1>9

\* In a column of the line: the rounding keeps the side of a pixel that is not set.
LEMMA ColumnSide ==
  ASSUME NEW p \in InCanvas, NEW q \in InCanvas, NEW r \in InCanvas, p.X # q.X,
         r.X \in To(p.X, q.X), Place(r) \notin Outline(p, q)
  PROVE  /\ At(p, q, r.X) \in Int /\ At(p, q, r.X) # r.Y
         /\ At(p, q, r.X) > r.Y => Sign(q.X - p.X) * Off(p, q, r) < 0
         /\ At(p, q, r.X) < r.Y => Sign(q.X - p.X) * Off(p, q, r) > 0
<1>1. /\ r.X \in Nat /\ r.Y \in Nat /\ Width(p, q) \in Nat /\ Width(p, q) > 0
  BY WidthIs
<1>2. PICK w, n, a : w = Width(p, q) /\ n = Rise(p, q, r.X) /\ a = At(p, q, r.X)
  OBVIOUS
<1>3. a \in Int /\ Rounds(a, n, w) /\ <<r.X, a>> \in Outline(p, q) /\ w \in Nat /\ w > 0 /\ n \in Int
  BY <1>1, <1>2, AtIs, RiseType
<1>4. a # r.Y
  BY <1>3 DEF Place
<1>5. Sign(q.X - p.X) * Off(p, q, r) = w * r.Y - n
  BY <1>2, OffIs
<1>6. PICK y \in Int : y = r.Y
  BY <1>1
<1>7. a > y => w * y - n < 0
  <2> SUFFICES ASSUME a > y PROVE w * y - n < 0
    OBVIOUS
  <2>1. w * a >= w * (y + 1)
    BY ONLY <1>3, <1>6, a > y
  <2> QED
    BY ONLY <1>3, <1>6, <2>1 DEF Rounds
<1>8. a < y => w * y - n > 0
  <2> SUFFICES ASSUME a < y PROVE w * y - n > 0
    OBVIOUS
  <2>1. w * (a + 1) <= w * y
    BY ONLY <1>3, <1>6, a < y
  <2> QED
    BY ONLY <1>3, <1>6, <2>1 DEF Rounds
<1> QED
  BY <1>2, <1>3, <1>4, <1>5, <1>6, <1>7, <1>8

\* Beside a line, left of all its columns or right of them.
LEMMA BesideSide ==
  ASSUME NEW p \in InCanvas, NEW q \in InCanvas, NEW r \in InCanvas,
         (p.Y < r.Y /\ r.Y < q.Y) \/ (q.Y < r.Y /\ r.Y < p.Y)
  PROVE  /\ r.X < p.X /\ r.X < q.X => IF p.Y < q.Y THEN Off(p, q, r) > 0 ELSE Off(p, q, r) < 0
         /\ p.X < r.X /\ q.X < r.X => IF p.Y < q.Y THEN Off(p, q, r) < 0 ELSE Off(p, q, r) > 0
<1>1. /\ p.X \in Nat /\ p.Y \in Nat /\ q.X \in Nat /\ q.Y \in Nat /\ r.X \in Nat /\ r.Y \in Nat
  BY WidthIs
<1>2. PICK a, b, c, d \in Int : a = r.Y - p.Y /\ b = q.Y - r.Y /\ c = q.X - r.X /\ d = p.X - r.X
  <2>1. /\ r.Y - p.Y \in Int /\ q.Y - r.Y \in Int
        /\ q.X - r.X \in Int /\ p.X - r.X \in Int
    BY <1>1
  <2> QED
    BY <2>1
<1>3. Off(p, q, r) = c * a + d * b
  <2>1. q.X - p.X = c - d /\ q.Y - p.Y = a + b /\ r.X - p.X = -d
    BY <1>1, <1>2
  <2>2. (c - d) * a - (a + b) * (-d) = c * a + d * b
    BY ONLY <1>2
  <2> QED
    BY <1>2, <2>1, <2>2 DEF Off
<1>4. p.Y < q.Y => a > 0 /\ b > 0
  BY <1>1, <1>2
<1>5. ~(p.Y < q.Y) => a < 0 /\ b < 0
  BY <1>1, <1>2
<1>6. \A n, m \in Int : /\ n > 0 /\ m > 0 => n * m > 0
                        /\ n > 0 /\ m < 0 => n * m < 0
                        /\ n < 0 /\ m > 0 => n * m < 0
                        /\ n < 0 /\ m < 0 => n * m > 0
  OBVIOUS
<1>7. PICK f, g \in Int : f = c * a /\ g = d * b
  BY ONLY <1>2
<1>8. /\ c > 0 /\ a > 0 => f > 0
      /\ c > 0 /\ a < 0 => f < 0
      /\ c < 0 /\ a > 0 => f < 0
      /\ c < 0 /\ a < 0 => f > 0
  BY <1>2, <1>6, <1>7
<1>9. /\ d > 0 /\ b > 0 => g > 0
      /\ d > 0 /\ b < 0 => g < 0
      /\ d < 0 /\ b > 0 => g < 0
      /\ d < 0 /\ b < 0 => g > 0
  BY <1>2, <1>6, <1>7
<1>10. CASE r.X < p.X /\ r.X < q.X
  <2>1. c > 0 /\ d > 0
    BY <1>1, <1>2, <1>10
  <2>2. IF p.Y < q.Y THEN f + g > 0 ELSE f + g < 0
    BY <1>4, <1>5, <1>7, <1>8, <1>9, <2>1
  <2> QED
    BY <1>1, <1>3, <1>7, <1>10, <2>2
<1>11. CASE p.X < r.X /\ q.X < r.X
  <2>1. c < 0 /\ d < 0
    BY <1>1, <1>2, <1>11
  <2>2. IF p.Y < q.Y THEN f + g < 0 ELSE f + g > 0
    BY <1>4, <1>5, <1>7, <1>8, <1>9, <2>1
  <2> QED
    BY <1>1, <1>3, <1>7, <1>11, <2>2
<1> QED
  BY <1>10, <1>11

\* A line that crosses the row of r.
LEMMA SpanSide ==
  ASSUME NEW p \in InCanvas, NEW q \in InCanvas, NEW r \in InCanvas,
         (p.Y < r.Y /\ r.Y < q.Y) \/ (q.Y < r.Y /\ r.Y < p.Y),
         Place(r) \notin Outline(p, q)
  PROVE  EntryX(p, q, r.Y) <= r.X <=> PassesLeft(<<Place(p), Place(q)>>, Place(r))
<1>1. /\ p.X \in Nat /\ p.Y \in Nat /\ q.X \in Nat /\ q.Y \in Nat /\ r.X \in Nat /\ r.Y \in Nat
      /\ Width(p, q) \in Nat /\ q.X = p.X + Sign(q.X - p.X) * Width(p, q)
  BY WidthIs
<1>2. r.Y \in To(p.Y, q.Y)
  BY <1>1 DEF To
<1>3. PICK x : x = EntryX(p, q, r.Y)
  OBVIOUS
<1>4. x \in Int /\ x # r.X
  <2>1. x \in Int /\ <<x, r.Y>> \in Outline(p, q)
    BY <1>2, <1>3, EntryHeld
  <2> QED
    BY <2>1 DEF Place
<1>5. PICK o : o = Off(p, q, r)
  OBVIOUS
<1>6. o \in Int
  BY <1>5, OffIs
<1>7. PassesLeft(<<Place(p), Place(q)>>, Place(r)) <=> IF p.Y < q.Y THEN o < 0 ELSE o > 0
  <2>1. p.Y < q.Y => p.Y <= r.Y /\ r.Y < q.Y /\ ~(r.Y < p.Y)
    BY <1>1
  <2>2. ~(p.Y < q.Y) => q.Y <= r.Y /\ r.Y < p.Y /\ ~(r.Y < q.Y)
    BY <1>1
  <2> QED
    BY <1>5, <2>1, <2>2, PassIs
<1>8. PICK e \in 0..Width(p, q) : IsEntry(p, q, r.Y, e)
  BY <1>2, EntryExists
<1>9. x = p.X + Sign(q.X - p.X) * e
  BY <1>3, <1>8 DEF IsEntry
<1>10. x \in To(p.X, q.X)
  <2>1. CASE p.X < q.X
    <3>1. x = p.X + e /\ q.X = p.X + Width(p, q)
      BY <1>1, <1>9, <2>1 DEF Sign
    <3> QED
      BY <1>1, <3>1 DEF To
  <2>2. CASE p.X > q.X
    <3>1. x = p.X - e /\ q.X = p.X - Width(p, q)
      BY <1>1, <1>9, <2>2 DEF Sign
    <3> QED
      BY <1>1, <3>1 DEF To
  <2>3. CASE p.X = q.X
    <3>1. x = p.X
      BY <1>1, <1>9, <2>3 DEF Sign
    <3> QED
      BY <1>1, <2>3, <3>1 DEF To
  <2> QED
    BY <1>1, <2>1, <2>2, <2>3
<1>11. CASE r.X < p.X /\ r.X < q.X
  <2>1. ~(x <= r.X)
    BY <1>1, <1>4, <1>10, <1>11 DEF To
  <2>2. IF p.Y < q.Y THEN o > 0 ELSE o < 0
    BY <1>5, <1>11, BesideSide
  <2> QED
    BY <1>3, <1>6, <1>7, <2>1, <2>2
<1>12. CASE p.X < r.X /\ q.X < r.X
  <2>1. x <= r.X
    BY <1>1, <1>4, <1>10, <1>12 DEF To
  <2>2. IF p.Y < q.Y THEN o < 0 ELSE o > 0
    BY <1>5, <1>12, BesideSide
  <2> QED
    BY <1>3, <1>6, <1>7, <2>1, <2>2
<1>13. CASE r.X \in To(p.X, q.X) /\ p.X # q.X
  <2>1. PICK k, a, s : k = Distance(r.X, p.X) /\ a = At(p, q, r.X) /\ s = Sign(q.X - p.X)
    OBVIOUS
  <2>2. /\ k \in 0..Width(p, q) /\ r.X = p.X + s * k /\ a = YThresh(p, q, k)
    BY <1>13, <2>1, ColumnIs DEF At
  <2>3. /\ a \in Int /\ a # r.Y /\ (a > r.Y => s * o < 0) /\ (a < r.Y => s * o > 0)
    BY <1>5, <1>13, <2>1, ColumnSide
  <2>4. k < e <=> Distance(a, p.Y) < Distance(r.Y, p.Y)
    <3>1. /\ \A j \in 0..Width(p, q) : j < e => Distance(YThresh(p, q, j), p.Y) < Distance(r.Y, p.Y)
          /\ Distance(YThresh(p, q, e), p.Y) >= Distance(r.Y, p.Y)
      BY <1>8 DEF IsEntry
    <3>2. k < e => Distance(a, p.Y) < Distance(r.Y, p.Y)
      BY <2>2, <3>1
    <3>3. ASSUME ~(k < e) PROVE ~(Distance(a, p.Y) < Distance(r.Y, p.Y))
      <4>1. e <= k
        BY <1>1, <2>2, <3>3
      <4>2. Distance(YThresh(p, q, e), p.Y) <= Distance(a, p.Y)
        BY <1>13, <2>2, <4>1, RowReaches
      <4>3. YThresh(p, q, e) \in Int
        BY ThreshType
      <4>4. Distance(YThresh(p, q, e), p.Y) \in Int /\ Distance(a, p.Y) \in Int /\ Distance(r.Y, p.Y) \in Int
        BY <1>1, <2>3, <4>3 DEF Distance
      <4> QED
        BY <3>1, <4>2, <4>4
    <3> QED
      BY <3>2, <3>3
  <2>5. a \in To(p.Y, q.Y)
    BY <1>13, <2>2, RowReaches
  <2>6. p.Y < q.Y => (k < e <=> a < r.Y)
    BY <1>1, <2>3, <2>4, <2>5 DEF Distance, To
  <2>7. ~(p.Y < q.Y) => (k < e <=> a > r.Y)
    BY <1>1, <2>3, <2>4, <2>5 DEF Distance, To
  <2>8. CASE p.X < q.X
    <3>1. s = 1
      BY <1>1, <2>1, <2>8 DEF Sign
    <3>2. x = p.X + e /\ r.X = p.X + k
      BY <1>1, <1>9, <2>1, <2>2, <3>1
    <3>3. x <= r.X <=> ~(k < e)
      BY <1>1, <2>2, <3>2
    <3>4. (a > r.Y => o < 0) /\ (a < r.Y => o > 0)
      BY <1>6, <2>3, <3>1
    <3>5. IF p.Y < q.Y THEN o < 0 <=> ~(k < e) ELSE o > 0 <=> ~(k < e)
      BY <1>1, <1>6, <2>3, <2>6, <2>7, <3>4
    <3> QED
      BY <1>3, <1>7, <3>3, <3>5
  <2>9. CASE p.X > q.X
    <3>1. s = -1
      BY <1>1, <2>1, <2>9 DEF Sign
    <3>2. x = p.X - e /\ r.X = p.X - k
      BY <1>1, <1>9, <2>1, <2>2, <3>1
    <3>3. x <= r.X <=> k < e
      BY <1>1, <1>4, <2>2, <3>2
    <3>4. (a > r.Y => o > 0) /\ (a < r.Y => o < 0)
      BY <1>6, <2>3, <3>1
    <3>5. IF p.Y < q.Y THEN o < 0 <=> k < e ELSE o > 0 <=> k < e
      BY <1>1, <1>6, <2>3, <2>6, <2>7, <3>4
    <3> QED
      BY <1>3, <1>7, <3>3, <3>5
  <2> QED
    BY <1>1, <1>13, <2>8, <2>9
<1>14. \/ r.X < p.X /\ r.X < q.X
       \/ p.X < r.X /\ q.X < r.X
       \/ r.X \in To(p.X, q.X) /\ p.X # q.X
  <2>1. p.X = q.X => r.X # p.X
    BY <1>1, <1>4, <1>10 DEF To
  <2> QED
    BY <1>1, <2>1 DEF To
<1> QED
  BY <1>11, <1>12, <1>13, <1>14

\* A line whose rows r is not among.
LEMMA AwaySide ==
  ASSUME NEW p \in InCanvas, NEW q \in InCanvas, NEW r \in InCanvas, r.Y \notin To(p.Y, q.Y)
  PROVE  ~PassesLeft(<<Place(p), Place(q)>>, Place(r))
<1>1. p.Y \in Nat /\ q.Y \in Nat /\ r.Y \in Nat
  BY WidthIs
<1>2. ~(p.Y <= r.Y /\ r.Y < q.Y) /\ ~(q.Y <= r.Y /\ r.Y < p.Y)
  BY <1>1 DEF To
<1> QED
  BY <1>2, PassIs

\* The rows of a line that are flipped, with the first one or not.
RowsOf(p, q, turns) ==
  {y \in To(p.Y, q.Y) : IF y = p.Y THEN turns ELSE VertDirection(p, q) # 0}

\* What a line flips on the row of r that its passing does not account for, at
\* the point it leaves and at the one it comes to.
FlipsPass(p, q, r, turns) ==
  /\ ( (r.Y \in RowsOf(p, q, turns) /\ EntryX(p, q, r.Y) <= r.X)
       <=> PassesLeft(<<Place(p), Place(q)>>, Place(r)) )
     <=> ( (p.Y = r.Y /\ p.X < r.X /\ (turns <=> VertDirection(p, q) # 1))
           <=> (q.Y = r.Y /\ q.X < r.X /\ VertDirection(p, q) = 1) )
  /\ ( r.Y \in RowsOf(p, q, turns) <=> (p.Y <= r.Y <=> ~(q.Y <= r.Y)) )
     <=> ( (p.Y = r.Y /\ (turns <=> VertDirection(p, q) # 1))
           <=> (q.Y = r.Y /\ VertDirection(p, q) = 1) )

\* Each line that is not along the row keeps that account.
LEMMA LineFlips ==
  ASSUME NEW p \in InCanvas, NEW q \in InCanvas, NEW r \in InCanvas, NEW turns \in BOOLEAN,
         {p.Y, q.Y} # {r.Y}, Place(r) \notin Outline(p, q)
  PROVE  FlipsPass(p, q, r, turns)
<1> DEFINE rows == RowsOf(p, q, turns)
           dir == VertDirection(p, q)
           left == PassesLeft(<<Place(p), Place(q)>>, Place(r))
           covers == EntryX(p, q, r.Y) <= r.X
           first == /\ (r.Y \in rows /\ covers <=> left)
                       <=> ( (p.Y = r.Y /\ p.X < r.X /\ (turns <=> dir # 1))
                             <=> (q.Y = r.Y /\ q.X < r.X /\ dir = 1) )
                    /\ (r.Y \in rows <=> (p.Y <= r.Y <=> ~(q.Y <= r.Y)))
                       <=> ((p.Y = r.Y /\ (turns <=> dir # 1)) <=> (q.Y = r.Y /\ dir = 1))
<1> SUFFICES first
  BY DEF FlipsPass
<1>1. /\ p.X \in Nat /\ p.Y \in Nat /\ q.X \in Nat /\ q.Y \in Nat /\ r.X \in Nat /\ r.Y \in Nat
  BY WidthIs
<1>2. p.Y < q.Y => dir = 1
  BY <1>1 DEF VertDirection, Sign
<1>3. q.Y < p.Y => dir = -1
  BY <1>1 DEF VertDirection, Sign
<1>4. r.Y \in rows <=> r.Y \in To(p.Y, q.Y) /\ IF r.Y = p.Y THEN turns ELSE dir # 0
  BY DEF RowsOf
<1>5. CASE p.Y = r.Y
  <2>1. q.Y # r.Y
    BY <1>5
  <2>2. (covers <=> p.X < r.X) /\ (left <=> q.Y > r.Y /\ p.X < r.X)
    BY <1>5, <2>1, DepartSide
  <2>3. r.Y \in rows <=> turns
    BY <1>1, <1>4, <1>5 DEF To
  <2>4. CASE q.Y > r.Y
    <3>1. dir = 1 /\ ~(q.Y <= r.Y) /\ p.Y <= r.Y
      BY <1>1, <1>2, <1>5, <2>4
    <3> HIDE DEF rows, dir, left, covers
    <3> QED
      BY <1>5, <2>1, <2>2, <2>3, <2>4, <3>1
  <2>5. CASE q.Y < r.Y
    <3>1. q.Y <= r.Y /\ p.Y <= r.Y /\ ~(q.Y > r.Y) /\ dir # 1
      BY <1>1, <1>3, <1>5, <2>5
    <3> HIDE DEF rows, dir, left, covers
    <3> QED
      BY <1>5, <2>1, <2>2, <2>3, <3>1
  <2> HIDE DEF first
  <2> QED
    BY <1>1, <2>1, <2>4, <2>5
<1>6. CASE q.Y = r.Y
  <2>1. p.Y # r.Y
    BY <1>6
  <2>2. (covers <=> q.X < r.X) /\ (left <=> p.Y > r.Y /\ q.X < r.X)
    BY <1>6, <2>1, ArriveSide
  <2>3. r.Y \in rows
    <3>1. dir # 0 /\ r.Y \in To(p.Y, q.Y)
      BY <1>1, <1>2, <1>3, <1>6, <2>1 DEF To
    <3> QED
      BY <1>4, <2>1, <3>1
  <2>4. CASE p.Y > r.Y
    <3>1. ~(p.Y <= r.Y) /\ q.Y <= r.Y /\ dir # 1
      BY <1>1, <1>3, <1>6, <2>4
    <3> HIDE DEF rows, dir, left, covers
    <3> QED
      BY <1>6, <2>1, <2>2, <2>3, <2>4, <3>1
  <2>5. CASE p.Y < r.Y
    <3>1. dir = 1 /\ p.Y <= r.Y /\ q.Y <= r.Y /\ ~(p.Y > r.Y)
      BY <1>1, <1>2, <1>6, <2>5
    <3> HIDE DEF rows, dir, left, covers
    <3> QED
      BY <1>6, <2>1, <2>2, <2>3, <3>1
  <2> HIDE DEF first
  <2> QED
    BY <1>1, <2>1, <2>4, <2>5
<1>7. CASE p.Y # r.Y /\ q.Y # r.Y /\ r.Y \in To(p.Y, q.Y)
  <2>1. (p.Y < r.Y /\ r.Y < q.Y) \/ (q.Y < r.Y /\ r.Y < p.Y)
    BY <1>1, <1>7 DEF To
  <2>2. covers <=> left
    BY <2>1, SpanSide
  <2>3. r.Y \in rows
    BY <1>1, <1>2, <1>3, <1>4, <1>7, <2>1
  <2>4. p.Y <= r.Y <=> ~(q.Y <= r.Y)
    BY <1>1, <2>1
  <2> HIDE DEF rows, dir, left, covers
  <2> QED
    BY <1>7, <2>2, <2>3, <2>4
<1>8. CASE p.Y # r.Y /\ q.Y # r.Y /\ r.Y \notin To(p.Y, q.Y)
  <2>1. ~left /\ r.Y \notin rows
    BY <1>4, <1>8, AwaySide
  <2>2. p.Y <= r.Y <=> q.Y <= r.Y
    BY <1>1, <1>8 DEF To
  <2> HIDE DEF rows, dir, left, covers
  <2> QED
    BY <1>8, <2>1, <2>2
<1> HIDE DEF first
<1> QED
  BY <1>5, <1>6, <1>7, <1>8

-----------------------------------------------------------------------------
(* The fill is even-odd                                                    *)

\* The variables of the fill loop.
Fills == [bits : SUBSET (Int \X Int), prevVertDir : Int, yStart : Int, yPrev : Int,
          yStartFillCount : Nat]

FillStart(path) == [bits |-> {}, prevVertDir |-> -2, yStart |-> path.Points[1].Y,
                    yPrev |-> 0, yStartFillCount |-> 0]

FillNext(path, fill, i) == IF i = Len(path.Points) THEN fill ELSE FillSegment(path, fill, i)

FillStep(path) ==
  [fill \in Fills |-> [i \in 1..Len(path.Points) |-> FillNext(path, fill, i)]]

Turns(path, fill, i) ==
  LET dir == VertDirection(path.Points[i], path.Points[i + 1])
  IN  fill.prevVertDir # dir /\ fill.prevVertDir # 0

\* The rows of line i that are flipped.
Flipped(path, fill, i) == RowsOf(path.Points[i], path.Points[i + 1], Turns(path, fill, i))

\* The pixels that are.
FlippedBits(path, fill, i) ==
  UNION {AllRight(Bounds(path), EntryX(path.Points[i], path.Points[i + 1], y), y) :
           y \in Flipped(path, fill, i)}

\* A turn of the loop.
LEMMA SegmentIs ==
  ASSUME NEW path, NEW fill, NEW i
  PROVE  FillSegment(path, fill, i) =
           IF path.Points[i + 1].Moved
           THEN [Balanced(path, fill) EXCEPT !.yStartFillCount = 0,
                   !.yStart = path.Points[i + 1].Y, !.prevVertDir = -2]
           ELSE [bits |-> Flip(fill.bits, FlippedBits(path, fill, i)),
                 yStartFillCount |-> fill.yStartFillCount
                                       + Cardinality(Flipped(path, fill, i) \cap {fill.yStart}),
                 yStart |-> fill.yStart, yPrev |-> path.Points[i + 1].Y,
                 prevVertDir |-> VertDirection(path.Points[i], path.Points[i + 1])]
BY DEF FillSegment, FlippedBits, Flipped, Turns, RowsOf

\* A row is counted once.
LEMMA OneOrNone ==
  ASSUME NEW S, NEW y
  PROVE  Cardinality(S \cap {y}) = IF y \in S THEN 1 ELSE 0
<1>1. CASE y \in S
  <2>1. S \cap {y} = {y}
    BY <1>1
  <2> QED
    BY <1>1, <2>1, FS_Singleton
<1>2. CASE y \notin S
  <2>1. S \cap {y} = {}
    BY <1>2
  <2> QED
    BY <1>2, <2>1, FS_EmptySet
<1> QED
  BY <1>1, <1>2

\* Flipping the start row back leaves a fill.
LEMMA BalancedType ==
  ASSUME NEW path, NEW fill \in Fills
  PROVE  Balanced(path, fill) \in Fills
<1> DEFINE more == AllRight(Bounds(path), path.Points[Len(path.Points)].X, fill.yPrev)
<1>1. /\ fill.bits \in SUBSET (Int \X Int) /\ fill.yPrev \in Int
  BY DEF Fills
<1>2. more \subseteq Int \X Int
  BY <1>1 DEF AllRight
<1>3. Flip(fill.bits, more) \in SUBSET (Int \X Int)
  BY <1>1, <1>2 DEF Flip
<1> HIDE DEF more
<1>4. [fill EXCEPT !.bits = Flip(@, more)] \in Fills
  BY <1>3 DEF Fills
<1> QED
  BY <1>4 DEF Balanced, more

\* A turn leaves a fill.
LEMMA SegmentType ==
  ASSUME NEW points \in Seq(InCanvas), NEW path, path.Points = points, NEW fill \in Fills,
         NEW i \in 1..Len(points), i # Len(points)
  PROVE  FillSegment(path, fill, i) \in Fills
<1> DEFINE p == points[i]
           q == points[i + 1]
<1>1. Len(points) \in Nat /\ i + 1 \in 1..Len(points)
  BY LenProperties
<1>2. p \in InCanvas /\ q \in InCanvas
  BY <1>1, ElementOfSeq
<1>3. p.Y \in Nat /\ q.Y \in Nat
  BY <1>2, WidthIs
<1>4. CASE q.Moved
  <2>1. PICK b \in Fills : b = Balanced(path, fill)
    BY BalancedType
  <2>2. [b EXCEPT !.yStartFillCount = 0, !.yStart = q.Y, !.prevVertDir = -2] \in Fills
    <3>1. PICK z, m \in Int : z = q.Y /\ m = -2
      BY <1>3
    <3>2. \A v \in Fills : [v EXCEPT !.yStartFillCount = 0] \in Fills
      BY DEF Fills
    <3>3. \A v \in Fills : [v EXCEPT !.yStart = z] \in Fills
      BY DEF Fills
    <3>4. \A v \in Fills : [v EXCEPT !.prevVertDir = m] \in Fills
      BY DEF Fills
    <3>5. [b EXCEPT !.yStartFillCount = 0, !.yStart = z, !.prevVertDir = m] \in Fills
      BY <3>2, <3>3, <3>4
    <3> QED
      BY <3>1, <3>5
  <2> QED
    BY <1>4, <2>1, <2>2, SegmentIs
<1>5. CASE ~q.Moved
  <2>1. PICK s : s = FillSegment(path, fill, i)
    OBVIOUS
  <2>2. s = [bits |-> Flip(fill.bits, FlippedBits(path, fill, i)),
                 yStartFillCount |-> fill.yStartFillCount
                                       + Cardinality(Flipped(path, fill, i) \cap {fill.yStart}),
                 yStart |-> fill.yStart, yPrev |-> q.Y,
                 prevVertDir |-> VertDirection(p, q)]
    BY <1>5, <2>1, SegmentIs
  <2>3. fill.bits \in SUBSET (Int \X Int) /\ fill.yStart \in Int /\ fill.yStartFillCount \in Nat
    BY DEF Fills
  <2>4. FlippedBits(path, fill, i) \subseteq Int \X Int
    <3>1. Flipped(path, fill, i) \subseteq Int
      BY <1>3 DEF Flipped, RowsOf, To
    <3> QED
      BY <3>1 DEF FlippedBits, AllRight
  <2>5. Flip(fill.bits, FlippedBits(path, fill, i)) \in SUBSET (Int \X Int)
    BY <2>3, <2>4 DEF Flip
  <2>6. Cardinality(Flipped(path, fill, i) \cap {fill.yStart}) \in {0, 1}
    BY OneOrNone
  <2>7. VertDirection(p, q) \in Int
    BY DEF VertDirection, Sign
  <2>8. fill.yStartFillCount + Cardinality(Flipped(path, fill, i) \cap {fill.yStart}) \in Nat
    BY <2>3, <2>6
  <2>9. s \in Fills
    BY <1>3, <2>2, <2>3, <2>5, <2>7, <2>8 DEF Fills
  <2> QED
    BY <2>1, <2>9
<1> QED
  BY <1>4, <1>5

\* The turns of the fill loop, from before the first to after the last.
IsLoop(f, points, path) ==
  /\ f \in [0..Len(points) -> Fills]
  /\ f[0] = FillStart(path)
  /\ \A j \in 1..(Len(points) - 1) : f[j] = FillSegment(path, f[j - 1], j)

\* The fill is what the loop's turns leave, one for each line.
LEMMA FillIs ==
  ASSUME NEW points \in Seq(InCanvas) \ {<<>>}, NEW path, path.Points = points
  PROVE  \E f : IsLoop(f, points, path) /\ Fill(path) = Balanced(path, f[Len(points) - 1]).bits
<1> DEFINE n == Len(points)
           V == Fills
           F == FillStep(path)
           X == 1..Len(points)
           s == [i \in DOMAIN path.Points |-> i]
           start == FillStart(path)
           Eq(f) == f = [T \in SUBSET DOMAIN s |->
                           IF T = {} THEN start ELSE FillNext(path, f[T \ {Max(T)}], s[Max(T)])]
           k == CHOOSE f : Eq(f)
<1>1. Len(points) \in Nat /\ Len(points) > 0 /\ DOMAIN points = 1..Len(points)
  BY LenProperties, EmptySeq
<1>2. points[1].Y \in Nat
  <2>1. points[1] \in InCanvas
    BY <1>1, ElementOfSeq
  <2> QED
    BY <2>1, WidthIs
<1>3. start \in V
  BY <1>2 DEF FillStart, Fills
<1>4. \A v \in V, i \in X : FillNext(path, v, i) \in V
  BY SegmentType DEF FillNext
<1>5. \A v \in V, i \in X : F[v][i] = FillNext(path, v, i)
  BY DEF FillStep
<1>6. IsStep(F, V, X)
  BY <1>4 DEF IsStep, FillStep
<1>7. s \in Seq(X) /\ DOMAIN s = 1..n
  BY <1>1
<1> HIDE DEF F, V, X, start
<1>8. PICK g : LeftFold(g, V, F, start, s)
  <2> HIDE DEF s
  <2> QED
    BY <1>3, <1>6, <1>7, LeftFoldExists
<1>9. \A T \in SUBSET DOMAIN s : T # {} =>
        T \ {Max(T)} \in SUBSET DOMAIN s /\ s[Max(T)] \in X
  <2> HIDE DEF s
  <2> QED
    BY <1>7, LeftFoldTurn
<1>10. Eq(g)
  <2>1. g \in [SUBSET DOMAIN s -> V]
    BY <1>8 DEF LeftFold
  <2>2. \A T \in SUBSET DOMAIN s : T # {} =>
          F[g[T \ {Max(T)}]][s[Max(T)]] = FillNext(path, g[T \ {Max(T)}], s[Max(T)])
    <3> HIDE DEF s
    <3> SUFFICES ASSUME NEW T \in SUBSET DOMAIN s, T # {}
                 PROVE  F[g[T \ {Max(T)}]][s[Max(T)]] = FillNext(path, g[T \ {Max(T)}], s[Max(T)])
      OBVIOUS
    <3>1. PICK v \in V, i \in X : v = g[T \ {Max(T)}] /\ i = s[Max(T)]
      BY <1>9, <2>1
    <3> QED
      BY <1>5, <3>1
  <2> QED
    BY <1>8, <2>2 DEF LeftFold
<1>11. Eq(k)
  <2> HIDE DEF Eq
  <2> QED
    BY <1>10
<1>12. Fill(path) = Balanced(path, k[DOMAIN s]).bits
  BY DEF Fill, FoldLeftDomain, FoldLeft, MapThenFoldSet, FillNext, start, FillStart
<1> HIDE DEF k
<1>13. k[{}] = start /\ \A T \in SUBSET DOMAIN s : T # {} =>
         k[T] = FillNext(path, k[T \ {Max(T)}], s[Max(T)])
  BY <1>11
<1>14. \A j \in 1..n : k[1..j] = FillNext(path, k[1..(j - 1)], j)
  <2> SUFFICES ASSUME NEW j \in 1..n PROVE k[1..j] = FillNext(path, k[1..(j - 1)], j)
    OBVIOUS
  <2>1. 1..j \in SUBSET DOMAIN s /\ 1..j # {} /\ j \in Nat
    BY <1>1, <1>7
  <2>2. Max(1..j) = j
    <3>1. PICK T : T = 1..j
      OBVIOUS
    <3>2. Max(T) \in T /\ \A y \in T : y <= Max(T)
      BY <2>1, <3>1, MaxIn
    <3> QED
      BY <1>1, <3>1, <3>2
  <2>3. (1..j) \ {j} = 1..(j - 1)
    BY <2>1
  <2>4. s[j] = j
    BY <1>1
  <2> QED
    BY <1>13, <2>1, <2>2, <2>3, <2>4
<1>15. \A T \in SUBSET DOMAIN s : k[T] \in V
  <2>1. LeftFollows(k, V, F, start, s)
    BY <1>5, <1>9, <1>13 DEF LeftFollows
  <2>2. \A T \in SUBSET DOMAIN s : k[T] = g[T]
    <3> HIDE DEF s
    <3> QED
      BY <1>3, <1>6, <1>7, <1>8, <2>1, LeftFoldUnique
  <2>3. g \in [SUBSET DOMAIN s -> V]
    BY <1>8 DEF LeftFold
  <2> QED
    BY <2>2, <2>3
<1>16. PICK f : f = [j \in 0..n |-> k[1..j]]
  OBVIOUS
<1>17. f \in [0..n -> V]
  <2>1. \A j \in 0..n : 1..j \in SUBSET DOMAIN s
    BY <1>1, <1>7
  <2> QED
    BY <1>15, <1>16, <2>1
<1>18. f[0] = start
  <2>1. 1..0 = {}
    OBVIOUS
  <2> QED
    BY <1>1, <1>13, <1>16, <2>1
<1>19. \A j \in 1..(n - 1) : f[j] = FillSegment(path, f[j - 1], j)
  <2> SUFFICES ASSUME NEW j \in 1..(n - 1) PROVE f[j] = FillSegment(path, f[j - 1], j)
    OBVIOUS
  <2>1. j \in 1..n /\ j - 1 \in 0..n /\ j \in 0..n /\ j # n
    <3>1. \A m \in Nat : \A i \in 1..(m - 1) :
            i \in 1..m /\ i - 1 \in 0..m /\ i \in 0..m /\ i # m
      OBVIOUS
    <3> QED
      BY <1>1, <3>1
  <2>2. f[j] = k[1..j] /\ f[j - 1] = k[1..(j - 1)]
    BY <1>16, <2>1
  <2> QED
    BY <1>14, <2>1, <2>2 DEF FillNext
<1>20. k[DOMAIN s] = f[n - 1]
  <2>1. n \in 1..n /\ n - 1 \in 0..n
    BY <1>1
  <2>2. k[1..n] = FillNext(path, k[1..(n - 1)], n)
    BY <1>14, <2>1
  <2>3. f[n - 1] = k[1..(n - 1)]
    BY <1>16, <2>1
  <2> QED
    BY <1>7, <2>2, <2>3 DEF FillNext
<1> QED
  BY <1>12, <1>17, <1>18, <1>19, <1>20 DEF V, start, IsLoop

\* The first j lines that pass left of c, and whether they are odd in number.
Passed(points, j, c) == {i \in 1..j : PassesLeft(Line(points, i), c)}

Odd(points, j, c) == Cardinality(Passed(points, j, c)) % 2 = 1

\* Whether the path is on the other side of row y after j lines than before.
Changed(points, j, y) == (points[1].Y <= y) # (points[j + 1].Y <= y)

\* No line has passed at first.
LEMMA OddNone ==
  ASSUME NEW points, NEW c
  PROVE  Odd(points, 0, c) = FALSE
<1>1. Passed(points, 0, c) = {}
  BY DEF Passed
<1>2. Cardinality({}) = 0
  BY FS_EmptySet
<1> QED
  BY <1>1, <1>2 DEF Odd

\* Each line that passes changes whether they are odd.
LEMMA OddStep ==
  ASSUME NEW points, NEW c, NEW j \in Nat, j > 0
  PROVE  Odd(points, j, c) = (Odd(points, j - 1, c) # PassesLeft(Line(points, j), c))
<1> DEFINE S == Passed(points, j - 1, c)
           T == Passed(points, j, c)
<1>1. S \subseteq 1..(j - 1)
  BY DEF Passed
<1>2. IsFiniteSet(S)
  <2>1. IsFiniteSet(1..(j - 1))
    BY FS_Interval
  <2> HIDE DEF S
  <2> QED
    BY <1>1, <2>1, FS_Subset
<1>3. Cardinality(S) \in Nat
  BY <1>2, FS_CardinalityType
<1>4. j \notin S
  BY <1>1
<1>5. PassesLeft(Line(points, j), c) \in BOOLEAN
  BY DEF PassesLeft
<1>6. CASE PassesLeft(Line(points, j), c)
  <2>1. T = S \cup {j}
    BY <1>6 DEF Passed
  <2> HIDE DEF S, T
  <2>2. Cardinality(T) = Cardinality(S) + 1
    BY <1>2, <1>4, <2>1, FS_AddElement
  <2>3. (Cardinality(T) % 2 = 1) = ~(Cardinality(S) % 2 = 1)
    BY <1>3, <2>2
  <2> QED
    BY <1>6, <2>3 DEF Odd, S, T
<1>7. CASE ~PassesLeft(Line(points, j), c)
  <2>1. T = S
    BY <1>7 DEF Passed
  <2> QED
    BY <1>5, <1>7, <2>1 DEF Odd
<1> QED
  BY <1>6, <1>7

\* Right of both ends of a line.
LEMMA RightSide ==
  ASSUME NEW p \in InCanvas, NEW q \in InCanvas, NEW r \in InCanvas, p.X < r.X, q.X < r.X
  PROVE  PassesLeft(<<Place(p), Place(q)>>, Place(r)) = ((p.Y <= r.Y) # (q.Y <= r.Y))
<1>1. /\ p.X \in Nat /\ p.Y \in Nat /\ q.X \in Nat /\ q.Y \in Nat /\ r.X \in Nat /\ r.Y \in Nat
  BY WidthIs
<1>2. /\ r.Y - p.Y \in Int /\ q.Y - r.Y \in Int /\ q.X - r.X \in Int /\ p.X - r.X \in Int
  BY <1>1
<1>3. PICK a, b, c, d \in Int : a = r.Y - p.Y /\ b = q.Y - r.Y /\ c = q.X - r.X /\ d = p.X - r.X
  BY <1>2
<1>4. Off(p, q, r) = c * a + d * b
  <2>1. q.X - p.X = c - d /\ q.Y - p.Y = a + b /\ r.X - p.X = -d
    BY <1>1, <1>3
  <2>2. (c - d) * a - (a + b) * (-d) = c * a + d * b
    BY ONLY <1>3
  <2> QED
    BY <1>3, <2>1, <2>2 DEF Off
<1>5. c < 0 /\ d < 0
  BY <1>1, <1>3
<1>6. \A n, m \in Int : /\ n < 0 /\ m > 0 => n * m < 0
                        /\ n < 0 /\ m < 0 => n * m > 0
                        /\ n < 0 /\ m = 0 => n * m = 0
  OBVIOUS
<1>7. PICK f, g \in Int : f = c * a /\ g = d * b
  BY ONLY <1>3
<1>8. (a > 0 => f < 0) /\ (a < 0 => f > 0) /\ (a = 0 => f = 0)
  BY <1>3, <1>5, <1>6, <1>7
<1>9. (b > 0 => g < 0) /\ (b < 0 => g > 0) /\ (b = 0 => g = 0)
  BY <1>3, <1>5, <1>6, <1>7
<1>10. Off(p, q, r) = f + g
  BY <1>4, <1>7
<1>11. p.Y <= r.Y /\ r.Y < q.Y => Off(p, q, r) < 0
  BY <1>1, <1>3, <1>7, <1>8, <1>9, <1>10
<1>12. q.Y <= r.Y /\ r.Y < p.Y => Off(p, q, r) > 0
  BY <1>1, <1>3, <1>7, <1>8, <1>9, <1>10
<1>13. PassesLeft(<<Place(p), Place(q)>>, Place(r)) <=>
         (p.Y <= r.Y /\ r.Y < q.Y) \/ (q.Y <= r.Y /\ r.Y < p.Y)
  BY <1>11, <1>12, PassIs
<1>14. PassesLeft(<<Place(p), Place(q)>>, Place(r)) \in BOOLEAN
  BY DEF PassesLeft
<1>15. ((p.Y <= r.Y) # (q.Y <= r.Y)) <=>
         (p.Y <= r.Y /\ r.Y < q.Y) \/ (q.Y <= r.Y /\ r.Y < p.Y)
  BY <1>1
<1> QED
  BY <1>13, <1>14, <1>15

\* Right of all its points no closed path passes left an odd number of times.
LEMMA RightIsEven ==
  ASSUME NEW points \in Seq(InCanvas), NEW r \in InCanvas,
         \A i \in 1..Len(points) : points[i].X < r.X
  PROVE  \A j \in Nat : j + 1 <= Len(points) =>
           Odd(points, j, Place(r)) = Changed(points, j, r.Y)
<1> DEFINE P == {j \in Nat : j + 1 <= Len(points) =>
                               Odd(points, j, Place(r)) = Changed(points, j, r.Y)}
<1>1. Len(points) \in Nat /\ \A i \in 1..Len(points) : points[i] \in InCanvas
  BY LenProperties, ElementOfSeq
<1>2. 0 \in P
  <2>1. 0 + 1 = 1 /\ 0 \in Nat
    OBVIOUS
  <2>2. Changed(points, 0, r.Y) = FALSE
    BY <2>1 DEF Changed
  <2>3. Odd(points, 0, Place(r)) = FALSE
    BY OddNone
  <2> QED
    BY <2>1, <2>2, <2>3
<1>3. ASSUME NEW m \in Nat, m \in P PROVE m + 1 \in P
  <2> SUFFICES ASSUME (m + 1) + 1 <= Len(points)
               PROVE  Odd(points, m + 1, Place(r)) = Changed(points, m + 1, r.Y)
    OBVIOUS
  <2>1. m + 1 \in 1..Len(points) /\ (m + 1) + 1 \in 1..Len(points) /\ m + 1 <= Len(points)
    BY <1>1
  <2>2. Odd(points, m, Place(r)) = Changed(points, m, r.Y)
    BY <1>3, <2>1
  <2>3. Odd(points, m + 1, Place(r)) = (Odd(points, m, Place(r)) # PassesLeft(Line(points, m + 1), Place(r)))
    <3>1. m + 1 \in Nat /\ m + 1 > 0 /\ (m + 1) - 1 = m
      OBVIOUS
    <3> QED
      BY <3>1, OddStep
  <2>4. PassesLeft(Line(points, m + 1), Place(r))
          = ((points[m + 1].Y <= r.Y) # (points[(m + 1) + 1].Y <= r.Y))
    BY <1>1, <2>1, RightSide DEF Line
  <2> QED
    BY <2>2, <2>3, <2>4 DEF Changed
<1> HIDE DEF P
<1>4. \A j \in Nat : j \in P
  BY <1>2, <1>3, Induction
<1> QED
  BY <1>4 DEF P

\* A set of numbers up to n has a maximum, from zero on.
LEMMA MaxNat ==
  ASSUME NEW n \in Nat, NEW T \in SUBSET (0..n), T # {}
  PROVE  Max(T) \in T /\ \A y \in T : y <= Max(T)
<1> DEFINE S == {n - x : x \in T}
<1>1. S \in SUBSET (0..n) /\ S # {}
  <2>1. \A x \in T : n - x \in 0..n
    <3> SUFFICES ASSUME NEW x \in T PROVE n - x \in 0..n
      OBVIOUS
    <3>1. x \in 0..n
      OBVIOUS
    <3> QED
      BY ONLY <3>1, n \in Nat
  <2>2. PICK x \in T : TRUE
    OBVIOUS
  <2>3. n - x \in S
    OBVIOUS
  <2> QED
    BY <2>1, <2>3
<1>2. PICK M : M = S
  OBVIOUS
<1>3. Min(M) \in M /\ \A y \in M : Min(M) <= y
  BY <1>1, <1>2, MinIn
<1>4. PICK x \in T : Min(M) = n - x
  BY <1>2, <1>3
<1>5. \A y \in T : x >= y
  <2> SUFFICES ASSUME NEW y \in T PROVE x >= y
    OBVIOUS
  <2>1. n - y \in M
    BY <1>2
  <2>2. n - x <= n - y
    BY <1>3, <1>4, <2>1
  <2>3. x \in Nat /\ y \in Nat
    OBVIOUS
  <2> QED
    BY <2>2, <2>3
<1>6. Max(T) \in T /\ \A y \in T : Max(T) >= y
  BY <1>5 DEF Max
<1>7. T \subseteq Int
  OBVIOUS
<1> QED
  BY <1>6, <1>7

\* The rows of a path's array reach past its last column.
LEMMA BoundsReach ==
  ASSUME NEW points \in Seq(InCanvas) \ {<<>>}, NEW filled
  PROVE  /\ LastBit(Bounds(NewPath(points, filled))) \in Int
         /\ \A i \in 1..Len(points) : points[i].X <= LastBit(Bounds(NewPath(points, filled)))
<1> DEFINE xs == {points[i].X : i \in DOMAIN points}
<1>1. Len(points) \in Nat /\ Len(points) > 0 /\ DOMAIN points = 1..Len(points)
  BY LenProperties, EmptySeq
<1>2. \A i \in 1..Len(points) : points[i].X \in 0..CanvasXMax
  <2> SUFFICES ASSUME NEW i \in 1..Len(points) PROVE points[i].X \in 0..CanvasXMax
    OBVIOUS
  <2>1. points[i] \in InCanvas
    BY ElementOfSeq
  <2> QED
    BY <2>1 DEF InCanvas
<1>3. xs \in SUBSET (0..CanvasXMax) /\ xs # {}
  BY <1>1, <1>2
<1>4. PICK T : T = xs
  OBVIOUS
<1>5. /\ Min(T) \in T /\ Max(T) \in T /\ \A x \in T : x <= Max(T)
  BY <1>3, <1>4, MinIn, MaxNat, SvgPathAssumption
<1>6. PICK lo, hi \in Nat : lo = Min(T) /\ hi = Max(T)
  <2>1. Min(T) \in 0..CanvasXMax /\ Max(T) \in 0..CanvasXMax
    BY <1>3, <1>4, <1>5
  <2> QED
    BY <2>1, SvgPathAssumption
<1>7. NewPath(points, filled).XMin = lo /\ NewPath(points, filled).XMax = hi
  BY <1>4, <1>6 DEF NewPath
<1>8. LastBit(Bounds(NewPath(points, filled))) = 8 * (lo \div 8 + (maxByte(hi + 1) - lo \div 8)) - 1
  BY <1>7 DEF LastBit, Bounds, NewPixelSubArray
<1>9. maxByte(hi + 1) \in Int /\ 8 * maxByte(hi + 1) >= hi + 1
  BY DEF maxByte
<1>10. lo \div 8 \in Int
  OBVIOUS
<1>11. PICK b, d \in Int : b = maxByte(hi + 1) /\ d = lo \div 8
  BY <1>9, <1>10
<1>12. LastBit(Bounds(NewPath(points, filled))) = 8 * b - 1 /\ 8 * b - 1 >= hi
  BY <1>8, <1>9, <1>11
<1>13. \A i \in 1..Len(points) : points[i].X \in T /\ points[i].X \in Nat
  BY <1>1, <1>2, <1>4, SvgPathAssumption
<1> QED
  BY <1>5, <1>6, <1>11, <1>12, <1>13

\* Whether an even or an odd number of the rows was the one the path starts on.
OddCount(fill) == fill.yStartFillCount % 2 = 1

\* A turn of the loop flips r when the line's row does, and counts it on the
\* row the path starts on.
TurnFlipped(points, path, fill, next, j, r) ==
  /\ Place(r) \in next.bits
       <=> ~( Place(r) \in fill.bits
              <=> ( /\ r.Y \in Flipped(path, fill, j)
                    /\ EntryX(points[j], points[j + 1], r.Y) <= r.X ) )
  /\ fill.yStart = r.Y => (OddCount(next) <=> ~(OddCount(fill) <=> r.Y \in Flipped(path, fill, j)))
  /\ next.yStart = fill.yStart /\ next.yPrev = points[j + 1].Y
  /\ next.prevVertDir = VertDirection(points[j], points[j + 1])

\* Each turn past a line does.
LEMMA TurnFlips ==
  ASSUME NEW points \in Seq(InCanvas) \ {<<>>}, NEW path, path = NewPath(points, TRUE),
         NEW r \in InCanvas, r.X <= LastBit(Bounds(path)),
         NEW fill \in Fills, NEW j \in 1..(Len(points) - 1), ~points[j + 1].Moved
  PROVE  TurnFlipped(points, path, fill, FillSegment(path, fill, j), j, r)
<1> DEFINE p == points[j]
           q == points[j + 1]
           next == FillSegment(path, fill, j)
           flips == r.Y \in Flipped(path, fill, j)
           more == FlippedBits(path, fill, j)
           extra == Cardinality(Flipped(path, fill, j) \cap {fill.yStart})
<1>1. path.Points = points
  BY PathFields
<1>2. Len(points) \in Nat /\ j \in 1..Len(points) /\ j + 1 \in 1..Len(points)
  BY LenProperties
<1>3. p \in InCanvas /\ q \in InCanvas /\ r.X \in Nat /\ r.Y \in Nat
  BY <1>2, ElementOfSeq, WidthIs
<1>4. /\ next.bits = Flip(fill.bits, more)
      /\ next.yStartFillCount = fill.yStartFillCount + extra
      /\ next.yStart = fill.yStart /\ next.yPrev = q.Y /\ next.prevVertDir = VertDirection(p, q)
  BY <1>1, SegmentIs
<1>5. Place(r) \in more <=> flips /\ EntryX(p, q, r.Y) <= r.X
  <2>1. flips => EntryX(p, q, r.Y) \in Int
    <3> SUFFICES ASSUME flips PROVE EntryX(p, q, r.Y) \in Int
      OBVIOUS
    <3>1. r.Y \in To(p.Y, q.Y)
      BY <1>1 DEF Flipped, RowsOf
    <3> QED
      BY <1>3, <3>1, EntryHeld
  <2>2. LastBit(Bounds(path)) \in Int
    BY BoundsReach
  <2>3. \A y : Place(r) \in AllRight(Bounds(path), EntryX(p, q, y), y) <=>
                 y = r.Y /\ r.X \in EntryX(p, q, y)..LastBit(Bounds(path))
    BY DEF AllRight, Place
  <2>4. Place(r) \in more <=> flips /\ r.X \in EntryX(p, q, r.Y)..LastBit(Bounds(path))
    BY <1>1, <2>3 DEF FlippedBits
  <2>5. flips => (r.X \in EntryX(p, q, r.Y)..LastBit(Bounds(path)) <=> EntryX(p, q, r.Y) <= r.X)
    <3> SUFFICES ASSUME flips
                 PROVE  r.X \in EntryX(p, q, r.Y)..LastBit(Bounds(path)) <=> EntryX(p, q, r.Y) <= r.X
      OBVIOUS
    <3>1. PICK e, l \in Int : e = EntryX(p, q, r.Y) /\ l = LastBit(Bounds(path))
      BY <2>1, <2>2
    <3>2. r.X \in Int
      BY ONLY <1>3
    <3>3. r.X <= l
      BY ONLY <3>1, r.X <= LastBit(Bounds(path))
    <3>4. r.X \in e..l <=> e <= r.X
      BY ONLY <3>2, <3>3, e \in Int, l \in Int
    <3> QED
      BY <3>1, <3>4
  <2> QED
    BY <2>4, <2>5
<1>6. Place(r) \in Flip(fill.bits, more) <=> ~(Place(r) \in fill.bits <=> Place(r) \in more)
  <2>1. \A A, B, z : z \in Flip(A, B) <=> (z \in A /\ z \notin B) \/ (z \in B /\ z \notin A)
    BY DEF Flip
  <2> HIDE DEF more
  <2>2. Place(r) \in Flip(fill.bits, more) <=>
          (Place(r) \in fill.bits /\ Place(r) \notin more) \/ (Place(r) \in more /\ Place(r) \notin fill.bits)
    BY <2>1
  <2> QED
    BY <2>2
<1>7. Place(r) \in next.bits <=> ~(Place(r) \in fill.bits <=> (flips /\ EntryX(p, q, r.Y) <= r.X))
  <2> HIDE DEF more, next, flips
  <2> QED
    BY <1>4, <1>5, <1>6
<1>8. fill.yStart = r.Y => (OddCount(next) <=> ~(OddCount(fill) <=> flips))
  <2> SUFFICES ASSUME fill.yStart = r.Y PROVE (OddCount(next) <=> ~(OddCount(fill) <=> flips))
    OBVIOUS
  <2>1. extra = IF flips THEN 1 ELSE 0
    BY OneOrNone
  <2>2. PICK n \in Nat : n = fill.yStartFillCount
    BY DEF Fills
  <2>3. ((n + 1) % 2 = 1 <=> ~(n % 2 = 1)) /\ n + 0 = n
    OBVIOUS
  <2> HIDE DEF extra, flips, next
  <2>4. next.yStartFillCount = n + extra
    BY <1>4, <2>2
  <2>5. CASE flips
    BY <2>1, <2>2, <2>3, <2>4, <2>5 DEF OddCount
  <2>6. CASE ~flips
    BY <2>1, <2>2, <2>3, <2>4, <2>6 DEF OddCount
  <2> QED
    BY <2>5, <2>6
<1> QED
  BY <1>4, <1>7, <1>8 DEF TurnFlipped

\* Whether the path starts on row y and leaves it upwards: its first line was
\* flipped there and passes no place of the row.
Owed(points, y) == points[1].Y = y /\ VertDirection(points[1], points[2]) = -1

\* Whether the path is on row y after j lines, and the next line is to pass
\* what has been flipped already.
Due(points, j, fill, y) ==
  points[j + 1].Y = y /\ IF j = 0 THEN VertDirection(points[1], points[2]) = -1
                                  ELSE fill.prevVertDir = 1

\* The invariant of the fill loop, after j turns.
LoopInv(points, fill, j, r) ==
  /\ fill.yStart = points[1].Y
  /\ IF j = 0 THEN fill.prevVertDir = -2
     ELSE /\ fill.prevVertDir = VertDirection(points[j], points[j + 1])
          /\ fill.yPrev = points[j + 1].Y
  /\ (Place(r) \in fill.bits <=> Odd(points, j, Place(r)))
       <=> ( (Owed(points, r.Y) /\ points[1].X < r.X)
             <=> (Due(points, j, fill, r.Y) /\ points[j + 1].X < r.X) )
  /\ points[1].Y = r.Y =>
       ((OddCount(fill) <=> Changed(points, j, r.Y)) <=> (Owed(points, r.Y) <=> Due(points, j, fill, r.Y)))

\* What the loop is proved for: a path of one section, and a pixel that is not
\* of its outline, on a row no line runs along.
Clear(points, r) ==
  \A i \in 1..(Len(points) - 1) :
    /\ ~points[i + 1].Moved
    /\ {points[i].Y, points[i + 1].Y} # {r.Y}
    /\ Place(r) \notin Outline(points[i], points[i + 1])

\* The invariant holds before the first turn.
LEMMA LoopStarts ==
  ASSUME NEW points \in Seq(InCanvas) \ {<<>>}, NEW path, path.Points = points, NEW r \in InCanvas
  PROVE  LoopInv(points, FillStart(path), 0, r)
<1>1. 0 + 1 = 1
  OBVIOUS
<1>2. ~Odd(points, 0, Place(r))
  BY OddNone
<1>3. ~Changed(points, 0, r.Y)
  BY <1>1 DEF Changed
<1>4. Due(points, 0, FillStart(path), r.Y) <=> Owed(points, r.Y)
  BY <1>1 DEF Due, Owed
<1>5. ~OddCount(FillStart(path))
  BY DEF OddCount, FillStart
<1>6. Place(r) \notin FillStart(path).bits
  BY DEF FillStart
<1>7. FillStart(path).yStart = points[1].Y /\ FillStart(path).prevVertDir = -2
  BY DEF FillStart
<1>8. (Place(r) \in FillStart(path).bits <=> Odd(points, 0, Place(r)))
       <=> ( (Owed(points, r.Y) /\ points[1].X < r.X)
             <=> (Due(points, 0, FillStart(path), r.Y) /\ points[1].X < r.X) )
  BY <1>2, <1>4, <1>6
<1>9. (OddCount(FillStart(path)) <=> Changed(points, 0, r.Y))
        <=> (Owed(points, r.Y) <=> Due(points, 0, FillStart(path), r.Y))
  BY <1>3, <1>4, <1>5
<1> QED
  BY <1>1, <1>7, <1>8, <1>9 DEF LoopInv

\* A line that comes to a row or leaves it goes up or down.
LEMMA RowIsLeft ==
  ASSUME NEW p \in InCanvas, NEW q \in InCanvas, NEW r \in InCanvas,
         p.Y = r.Y \/ q.Y = r.Y, {p.Y, q.Y} # {r.Y}
  PROVE  VertDirection(p, q) \in {-1, 1}
<1>1. p.Y \in Nat /\ q.Y \in Nat /\ r.Y \in Nat
  BY WidthIs
<1>2. p.Y # q.Y
  OBVIOUS
<1> QED
  BY <1>1, <1>2 DEF VertDirection, Sign

\* Leaving the row of r, a line is flipped there exactly when that was not due.
LEMMA TurnsDue ==
  ASSUME NEW points \in Seq(InCanvas) \ {<<>>}, NEW path, path.Points = points,
         NEW r \in InCanvas, Clear(points, r), NEW fill,
         NEW j \in 1..(Len(points) - 1), points[j].Y = r.Y, LoopInv(points, fill, j - 1, r)
  PROVE  (Turns(path, fill, j) <=> VertDirection(points[j], points[j + 1]) # 1)
           <=> Due(points, j - 1, fill, r.Y)
<1> DEFINE dir == VertDirection(points[j], points[j + 1])
           prev == fill.prevVertDir
<1>1. Len(points) \in Nat /\ \A i \in 1..Len(points) : points[i] \in InCanvas
  BY LenProperties, ElementOfSeq
<1>2. \A i \in 1..(Len(points) - 1) : i \in 1..Len(points) /\ i + 1 \in 1..Len(points)
  BY <1>1
<1>3. \A i \in 1..(Len(points) - 1) :
        points[i].Y = r.Y \/ points[i + 1].Y = r.Y => VertDirection(points[i], points[i + 1]) \in {-1, 1}
  <2> SUFFICES ASSUME NEW i \in 1..(Len(points) - 1), points[i].Y = r.Y \/ points[i + 1].Y = r.Y
               PROVE  VertDirection(points[i], points[i + 1]) \in {-1, 1}
    OBVIOUS
  <2>1. points[i] \in InCanvas /\ points[i + 1] \in InCanvas
    BY <1>1, <1>2
  <2>2. {points[i].Y, points[i + 1].Y} # {r.Y}
    BY DEF Clear
  <2> QED
    BY <2>1, <2>2, RowIsLeft
<1>4. dir = -1 \/ dir = 1
  BY <1>3
<1>5. Turns(path, fill, j) <=> prev # dir /\ prev # 0
  BY DEF Turns
<1>6. CASE j = 1
  <2>1. j - 1 = 0 /\ j + 1 = 2 /\ 0 + 1 = 1
    BY <1>6
  <2>2. prev = -2
    BY <2>1 DEF LoopInv
  <2>3. Due(points, 0, fill, r.Y) <=> dir = -1
    BY <1>6, <2>1 DEF Due
  <2>4. Turns(path, fill, j)
    BY <1>4, <1>5, <2>2
  <2>5. dir # 1 <=> dir = -1
    BY <1>4
  <2> QED
    BY <2>1, <2>3, <2>4, <2>5
<1>7. CASE j # 1
  <2>1. j - 1 \in 1..(Len(points) - 1) /\ (j - 1) + 1 = j /\ j - 1 # 0
    BY <1>1, <1>7
  <2>2. prev = VertDirection(points[j - 1], points[j])
    BY <2>1 DEF LoopInv
  <2>3. prev = -1 \/ prev = 1
    BY <1>3, <2>1, <2>2
  <2>4. Due(points, j - 1, fill, r.Y) <=> prev = 1
    BY <2>1 DEF Due
  <2>5. (Turns(path, fill, j) <=> dir # 1) <=> prev = 1
    <3>1. Turns(path, fill, j) <=> prev # dir
      BY <1>5, <2>3
    <3> HIDE DEF prev, dir
    <3>2. CASE dir = 1
      BY <2>3, <3>1, <3>2
    <3>3. CASE dir = -1
      BY <2>3, <3>1, <3>3
    <3> QED
      BY <1>4, <3>2, <3>3
  <2> QED
    BY <2>4, <2>5
<1> QED
  BY <1>6, <1>7

\* A turn keeps the invariant.
LEMMA LoopGoesOn ==
  ASSUME NEW points \in Seq(InCanvas) \ {<<>>}, NEW path, path = NewPath(points, TRUE),
         NEW r \in InCanvas, r.X <= LastBit(Bounds(path)), Clear(points, r), NEW fill \in Fills,
         NEW j \in 1..(Len(points) - 1), LoopInv(points, fill, j - 1, r)
  PROVE  LoopInv(points, FillSegment(path, fill, j), j, r)
<1> DEFINE p == points[j]
           q == points[j + 1]
           next == FillSegment(path, fill, j)
           dir == VertDirection(p, q)
           turns == Turns(path, fill, j)
           c == Place(r)
           flips == r.Y \in Flipped(path, fill, j)
           left == PassesLeft(Line(points, j), c)
           covers == EntryX(p, q, r.Y) <= r.X
           up == p.Y <= r.Y <=> ~(q.Y <= r.Y)
<1>1. path.Points = points
  BY PathFields
<1>2. /\ Len(points) \in Nat /\ j \in 1..Len(points) /\ j + 1 \in 1..Len(points)
      /\ j \in Nat /\ j > 0 /\ (j - 1) + 1 = j /\ j # 0
  BY LenProperties
<1>3. p \in InCanvas /\ q \in InCanvas
  BY <1>2, ElementOfSeq
<1>4. ~q.Moved /\ {p.Y, q.Y} # {r.Y} /\ c \notin Outline(p, q)
  BY DEF Clear
<1>5. /\ (c \in next.bits) <=> ~(c \in fill.bits <=> (flips /\ covers))
      /\ fill.yStart = r.Y => (OddCount(next) <=> ~(OddCount(fill) <=> flips))
      /\ next.yStart = fill.yStart /\ next.yPrev = q.Y /\ next.prevVertDir = dir
  <2>1. TurnFlipped(points, path, fill, next, j, r)
    BY <1>4, TurnFlips
  <2> HIDE DEF next
  <2> QED
    BY <2>1 DEF TurnFlipped
<1>6. turns \in BOOLEAN /\ left \in BOOLEAN
  BY DEF Turns, PassesLeft
<1>7. flips <=> r.Y \in RowsOf(p, q, turns)
  BY <1>1 DEF Flipped
<1>8. /\ ((flips /\ covers) <=> left)
           <=> ((p.Y = r.Y /\ p.X < r.X /\ (turns <=> dir # 1)) <=> (q.Y = r.Y /\ q.X < r.X /\ dir = 1))
      /\ (flips <=> up) <=> ((p.Y = r.Y /\ (turns <=> dir # 1)) <=> (q.Y = r.Y /\ dir = 1))
  <2> HIDE DEF turns
  <2>1. FlipsPass(p, q, r, turns)
    BY <1>3, <1>4, <1>6, LineFlips
  <2> HIDE DEF p, q
  <2> QED
    BY <1>7, <2>1 DEF FlipsPass, Line, p, q
<1>9. p.Y = r.Y => ((turns <=> dir # 1) <=> Due(points, j - 1, fill, r.Y))
  BY <1>1, TurnsDue
<1>10. Due(points, j - 1, fill, r.Y) => p.Y = r.Y
  BY <1>2 DEF Due
<1>11. Due(points, j, next, r.Y) <=> q.Y = r.Y /\ dir = 1
  BY <1>2, <1>5 DEF Due
<1>12. Odd(points, j, c) = (Odd(points, j - 1, c) # left)
  BY <1>2, OddStep
<1>13. Changed(points, j, r.Y) <=> ~(Changed(points, j - 1, r.Y) <=> up)
  BY <1>2 DEF Changed
<1>14. /\ fill.yStart = points[1].Y
       /\ (c \in fill.bits <=> Odd(points, j - 1, c))
            <=> ( (Owed(points, r.Y) /\ points[1].X < r.X)
                <=> (Due(points, j - 1, fill, r.Y) /\ p.X < r.X) )
       /\ points[1].Y = r.Y =>
            ((OddCount(fill) <=> Changed(points, j - 1, r.Y))
              <=> (Owed(points, r.Y) <=> Due(points, j - 1, fill, r.Y)))
  BY <1>2 DEF LoopInv
<1>15. Odd(points, j, c) <=> ~(Odd(points, j - 1, c) <=> left)
  <2>1. Odd(points, j - 1, c) \in BOOLEAN /\ Odd(points, j, c) \in BOOLEAN
    BY DEF Odd
  <2> HIDE DEF left, c
  <2> QED
    BY <1>6, <1>12, <2>1
<1> HIDE DEF next, flips, covers, left, turns, c, dir, up, p, q
<1>16. (c \in next.bits <=> Odd(points, j, c))
         <=> ( (Owed(points, r.Y) /\ points[1].X < r.X) <=> (Due(points, j, next, r.Y) /\ q.X < r.X) )
  <2>1. (p.Y = r.Y /\ p.X < r.X /\ (turns <=> dir # 1)) <=> (Due(points, j - 1, fill, r.Y) /\ p.X < r.X)
    BY <1>9, <1>10
  <2>2. (q.Y = r.Y /\ q.X < r.X /\ dir = 1) <=> (Due(points, j, next, r.Y) /\ q.X < r.X)
    BY <1>11
  <2> QED
    BY <1>5, <1>8, <1>14, <1>15, <2>1, <2>2
<1>17. points[1].Y = r.Y =>
         ((OddCount(next) <=> Changed(points, j, r.Y)) <=> (Owed(points, r.Y) <=> Due(points, j, next, r.Y)))
  <2>1. (p.Y = r.Y /\ (turns <=> dir # 1)) <=> Due(points, j - 1, fill, r.Y)
    BY <1>9, <1>10
  <2> QED
    BY <1>5, <1>8, <1>11, <1>13, <1>14, <2>1
<1>18. next.yStart = points[1].Y /\ next.prevVertDir = dir /\ next.yPrev = q.Y
  BY <1>5, <1>14
<1> USE DEF next, dir, c, q, p
<1>19. LoopInv(points, next, j, r)
  <2> HIDE DEF next
  <2> QED
    BY <1>2, <1>16, <1>17, <1>18 DEF LoopInv
<1> QED
  BY <1>19

\* So it holds after the last.
LEMMA LoopHolds ==
  ASSUME NEW points \in Seq(InCanvas) \ {<<>>}, NEW path, path = NewPath(points, TRUE),
         NEW r \in InCanvas, r.X <= LastBit(Bounds(path)), Clear(points, r),
         NEW f, IsLoop(f, points, path)
  PROVE  LoopInv(points, f[Len(points) - 1], Len(points) - 1, r)
<1> DEFINE P == {j \in Nat : j <= Len(points) - 1 => LoopInv(points, f[j], j, r)}
<1>1. path.Points = points
  BY PathFields
<1>2. Len(points) \in Nat /\ Len(points) > 0
  BY LenProperties, EmptySeq
<1>3. 0 \in P
  BY <1>1, <1>2, LoopStarts DEF IsLoop
<1>4. ASSUME NEW m \in Nat, m \in P PROVE m + 1 \in P
  <2> SUFFICES ASSUME m + 1 <= Len(points) - 1
               PROVE  LoopInv(points, f[m + 1], m + 1, r)
    OBVIOUS
  <2>1. m + 1 \in 1..(Len(points) - 1) /\ (m + 1) - 1 = m /\ m \in 0..Len(points) /\ m <= Len(points) - 1
    BY <1>2
  <2>2. LoopInv(points, f[m], m, r) /\ f[m] \in Fills
    BY <1>4, <2>1 DEF IsLoop
  <2>3. f[m + 1] = FillSegment(path, f[m], m + 1)
    BY <2>1 DEF IsLoop
  <2>4. LoopInv(points, FillSegment(path, f[m], m + 1), m + 1, r)
    BY <2>1, <2>2, LoopGoesOn
  <2> QED
    BY <2>3, <2>4
<1> HIDE DEF P
<1>5. \A j \in Nat : j \in P
  BY <1>3, <1>4, Induction
<1>6. Len(points) - 1 \in Nat /\ Len(points) - 1 <= Len(points) - 1
  BY <1>2
<1> QED
  BY <1>5, <1>6 DEF P

\* A closed path of one section ends where it starts.
LEMMA ClosedEnds ==
  ASSUME NEW points \in Seq(InCanvas) \ {<<>>}, Closed(points),
         \A i \in 1..(Len(points) - 1) : ~points[i + 1].Moved
  PROVE  points[1].X = points[Len(points)].X /\ points[1].Y = points[Len(points)].Y
<1>1. Len(points) \in Nat /\ Len(points) > 0 /\ DOMAIN points = 1..Len(points)
  BY LenProperties, EmptySeq
<1>2. \A k \in (1 + 1)..Len(points) : ~points[k].Moved
  <2> SUFFICES ASSUME NEW k \in (1 + 1)..Len(points) PROVE ~points[k].Moved
    OBVIOUS
  <2>1. k - 1 \in 1..(Len(points) - 1) /\ (k - 1) + 1 = k
    BY <1>1
  <2> QED
    BY <2>1
<1>3. 1 \in DOMAIN points /\ Len(points) \in DOMAIN points /\ 1 <= Len(points)
  BY <1>1
<1> QED
  BY <1>2, <1>3 DEF Closed

\* Off its outline a closed path's fill is the even-odd rule's.
LEMMA FillIsParity ==
  ASSUME NEW points \in Seq(InCanvas) \ {<<>>}, Closed(points), Len(points) > 1,
         NEW path, path = NewPath(points, TRUE),
         NEW r \in InCanvas, r.X <= LastBit(Bounds(path)), Clear(points, r)
  PROVE  Place(r) \in Fill(path) <=> Odd(points, Len(points) - 1, Place(r))
<1> DEFINE n == Len(points)
           last == points[n]
           c == Place(r)
           more == AllRight(Bounds(path), last.X, last.Y)
<1>1. /\ n \in Nat /\ n - 1 \in Nat /\ n - 1 # 0 /\ (n - 1) + 1 = n /\ n - 1 \in 0..n
      /\ n - 1 \in 1..(n - 1) /\ n - 1 \in 1..n /\ n \in 1..n /\ 1 \in 1..n
  <2>1. n \in Nat
    BY LenProperties
  <2>2. n > 1
    OBVIOUS
  <2> HIDE DEF n
  <2> QED
    BY <2>1, <2>2
<1>2. path.Points = points
  BY PathFields
<1>3. \E f : IsLoop(f, points, path) /\ Fill(path) = Balanced(path, f[Len(points) - 1]).bits
  BY <1>2, FillIs
<1>4. PICK f : IsLoop(f, points, path) /\ Fill(path) = Balanced(path, f[n - 1]).bits
  BY <1>3
<1>5. LoopInv(points, f[n - 1], n - 1, r)
  BY <1>4, LoopHolds
<1>6. PICK fill \in Fills : fill = f[n - 1]
  BY <1>1, <1>4 DEF IsLoop
<1>7. points[1].X = last.X /\ points[1].Y = last.Y
  BY ClosedEnds DEF Clear
<1>8. /\ fill.yPrev = last.Y
      /\ (c \in fill.bits <=> Odd(points, n - 1, c))
           <=> ((Owed(points, r.Y) /\ last.X < r.X) <=> (Due(points, n - 1, fill, r.Y) /\ last.X < r.X))
      /\ last.Y = r.Y =>
           ((OddCount(fill) <=> Changed(points, n - 1, r.Y))
             <=> (Owed(points, r.Y) <=> Due(points, n - 1, fill, r.Y)))
  BY <1>1, <1>5, <1>6, <1>7 DEF LoopInv
<1>9. ~Changed(points, n - 1, r.Y)
  BY <1>1, <1>7 DEF Changed
<1>10. (Owed(points, r.Y) => last.Y = r.Y) /\ (Due(points, n - 1, fill, r.Y) => last.Y = r.Y)
  BY <1>1, <1>7 DEF Owed, Due
<1>11. last \in InCanvas /\ last.X \in Nat /\ r.X \in Nat /\ last.Y = r.Y => last.X # r.X
  <2>1. last \in InCanvas /\ points[n - 1] \in InCanvas
    BY <1>1, ElementOfSeq
  <2>2. Place(last) \in Outline(points[n - 1], last)
    BY <2>1, EndsHeld
  <2>3. Place(r) \notin Outline(points[n - 1], last)
    BY <1>1 DEF Clear
  <2> QED
    BY <2>2, <2>3 DEF Place
<1>12. c \in more <=> last.Y = r.Y /\ last.X < r.X
  <2>1. last \in InCanvas
    BY <1>1, ElementOfSeq
  <2>2. last.X \in Nat /\ r.X \in Nat
    BY <2>1, WidthIs
  <2>3. PICK l \in Int : l = LastBit(Bounds(path))
    BY BoundsReach
  <2>4. c \in more <=> r.X \in last.X..l /\ last.Y = r.Y
    BY <2>3 DEF AllRight, Place
  <2>5. r.X <= l
    BY <2>3
  <2>6. r.X \in last.X..l <=> last.X <= r.X
    BY <2>2, <2>5
  <2>7. last.Y = r.Y => last.X # r.X
    BY <1>11, <2>1, <2>2
  <2> HIDE DEF c, more, last
  <2> QED
    BY <2>2, <2>4, <2>6, <2>7
<1>13. c \in Fill(path) <=> ~(c \in fill.bits <=> (OddCount(fill) /\ c \in more))
  <2>1. Fill(path) = Balanced(path, fill).bits
    BY <1>4, <1>6
  <2>2. CASE OddCount(fill)
    <3>1. Balanced(path, fill) = [fill EXCEPT !.bits = Flip(@, more)]
      BY <1>8, <1>2, <2>2 DEF Balanced, OddCount
    <3>2. PICK fl : fl = Flip(fill.bits, more)
      OBVIOUS
    <3>3. [fill EXCEPT !.bits = fl].bits = fl
      BY DEF Fills
    <3>4. Fill(path) = Flip(fill.bits, more)
      <4> HIDE DEF more
      <4> QED
        BY <2>1, <3>1, <3>2, <3>3
    <3> HIDE DEF more
    <3> QED
      BY <2>2, <3>4 DEF Flip
  <2>3. CASE ~OddCount(fill)
    <3>1. Balanced(path, fill) = fill
      BY <2>3 DEF Balanced, OddCount
    <3> HIDE DEF more
    <3> QED
      BY <2>1, <2>3, <3>1
  <2> QED
    BY <2>2, <2>3
<1> HIDE DEF c, more, last, n
<1> QED
  BY <1>8, <1>9, <1>10, <1>12, <1>13 DEF c, n

\* The pixels of a filled path: those of its outline, and its fill.
LEMMA PathBits ==
  ASSUME NEW path, NEW points, path.Points = points, path.Filled = TRUE
  PROVE  /\ UNION {Outline(points[i], points[i + 1]) : i \in Drawn(points)} \subseteq PathSubArray(path).bits
         /\ Fill(path) \subseteq PathSubArray(path).bits
<1>1. "bits" \in DOMAIN Bounds(path)
  BY DEF Bounds, NewPixelSubArray
<1> QED
  BY <1>1 DEF PathSubArray, Drawn

\* What is inside a filled path is among its pixels.
LEMMA EnclosedHeld ==
  ASSUME NEW op \in Drawable, IsPath(Shape[op]), NEW r \in InCanvas,
         Enclosed(Place(r), Shape[op]), Plain(Place(r), Shape[op])
  PROVE  Place(r) \in Sub[op].bits
<1> DEFINE path == Shape[op]
           points == path.Points
           n == Len(points)
           c == Place(r)
<1>1. /\ points \in Seq(InCanvas) \ {<<>>} /\ path = NewPath(points, TRUE)
      /\ path.Filled = TRUE /\ Closed(points)
  BY PathIs DEF Enclosed
<1>2. n \in Nat /\ n > 0
  BY <1>1, LenProperties, EmptySeq
<1>3. /\ \A i \in 1..(n - 1) : ~points[i + 1].Moved
      /\ \A i \in 1..(n - 1) : {points[i].Y, points[i + 1].Y} # {r.Y}
  BY DEF Plain, Place
<1>4. Drawn(points) = 1..(n - 1)
  BY <1>3 DEF Drawn
<1>5. Odd(points, n - 1, c)
  BY <1>4 DEF Enclosed, Odd, Passed
<1>6. n > 1
  <2> HIDE DEF n
  <2> SUFFICES ASSUME ~(n > 1) PROVE FALSE
    OBVIOUS
  <2>1. n - 1 = 0
    BY <1>2
  <2> QED
    BY <1>5, <2>1, OddNone
<1>7. r.X <= LastBit(Bounds(path))
  <2> SUFFICES ASSUME ~(r.X <= LastBit(Bounds(path))) PROVE FALSE
    OBVIOUS
  <2>1. LastBit(Bounds(path)) \in Int /\ \A i \in 1..n : points[i].X <= LastBit(Bounds(path))
    <3> HIDE DEF path
    <3> QED
      BY <1>1, BoundsReach
  <2>2. \A i \in 1..n : points[i].X < r.X
    <3> SUFFICES ASSUME NEW i \in 1..n PROVE points[i].X < r.X
      OBVIOUS
    <3>1. points[i] \in InCanvas
      BY <1>1, ElementOfSeq
    <3>2. points[i].X \in Nat /\ r.X \in Nat
      BY <3>1, WidthIs
    <3>3. PICK l \in Int : l = LastBit(Bounds(path))
      BY <2>1
    <3>4. points[i].X <= l /\ ~(r.X <= l)
      BY <2>1, <3>3
    <3> HIDE DEF points
    <3> QED
      BY <3>2, <3>4
  <2>3. Odd(points, n - 1, c) = Changed(points, n - 1, r.Y)
    <3>1. n - 1 \in Nat /\ (n - 1) + 1 <= n
      BY <1>2
    <3> QED
      BY <1>1, <2>2, <3>1, RightIsEven
  <2>4. points[1].Y = points[n].Y
    BY <1>1, <1>3, ClosedEnds
  <2>5. ~Changed(points, n - 1, r.Y)
    <3>1. (n - 1) + 1 = n
      BY <1>2
    <3> QED
      BY <2>4, <3>1 DEF Changed
  <2> QED
    BY <1>5, <2>3, <2>5
<1>8. /\ UNION {Outline(points[i], points[i + 1]) : i \in Drawn(points)} \subseteq Sub[op].bits
      /\ Fill(path) \subseteq Sub[op].bits
  <2>1. "R" \notin DOMAIN path
    <3> HIDE DEF path
    <3> QED
      BY <1>1 DEF NewPath
  <2>2. Sub[op] = PathSubArray(path)
    BY <2>1 DEF Sub, SubArray
  <2> QED
    BY <1>1, <2>2, PathBits
<1>9. CASE \E i \in 1..(n - 1) : c \in Outline(points[i], points[i + 1])
  BY <1>4, <1>8, <1>9
<1>10. CASE \A i \in 1..(n - 1) : c \notin Outline(points[i], points[i + 1])
  <2>1. Clear(points, r)
    BY <1>3, <1>10 DEF Clear
  <2>2. c \in Fill(path)
    <3> HIDE DEF points, path
    <3> QED
      BY <1>1, <1>5, <1>6, <1>7, <2>1, FillIsParity
  <2> QED
    BY <1>8, <2>2
<1> QED
  BY <1>9, <1>10

-----------------------------------------------------------------------------
(* Circles                                                                 *)

\* Squares.
LEMMA Squares ==
  /\ \A m, n \in Nat : m * m <= n * n => m <= n
  /\ \A m \in Nat : m > 0 => (2 * m - 1) * (2 * m - 1) <= 4 * (m * m)
  /\ \A m \in Nat : m > 0 => (m - 1) * (m - 1) <= m * m
  /\ \A m \in Int : m * m = (-m) * (-m)
<1>1. \A m, n \in Nat : m * m <= n * n => m <= n
  <2> SUFFICES ASSUME NEW m \in Nat, NEW n \in Nat, n < m PROVE n * n < m * m
    OBVIOUS
  <2>1. PICK d \in Nat : m = n + d /\ d > 0
    <3>1. m - n \in Nat /\ m - n > 0 /\ m = n + (m - n)
      OBVIOUS
    <3> QED
      BY <3>1
  <2>2. m * m = n * n + 2 * (n * d) + d * d
    BY <2>1
  <2>3. n * d >= 0 /\ d * d > 0
    BY <2>1
  <2>4. PICK a, b, c \in Int : a = n * n /\ b = n * d /\ c = d * d
    BY <2>1
  <2> QED
    BY ONLY <2>2, <2>3, <2>4
<1>2. \A m \in Nat : m > 0 => (2 * m - 1) * (2 * m - 1) <= 4 * (m * m)
  <2> SUFFICES ASSUME NEW m \in Nat, m > 0 PROVE (2 * m - 1) * (2 * m - 1) <= 4 * (m * m)
    OBVIOUS
  <2>1. (2 * m - 1) * (2 * m - 1) = 4 * (m * m) - 4 * m + 1
    OBVIOUS
  <2>2. PICK s \in Int : s = m * m
    OBVIOUS
  <2> QED
    BY <2>1, <2>2
<1>3. \A m \in Nat : m > 0 => (m - 1) * (m - 1) <= m * m
  <2> SUFFICES ASSUME NEW m \in Nat, m > 0 PROVE (m - 1) * (m - 1) <= m * m
    OBVIOUS
  <2>1. (m - 1) * (m - 1) = m * m - 2 * m + 1
    OBVIOUS
  <2>2. PICK s \in Int : s = m * m
    OBVIOUS
  <2> QED
    BY <2>1, <2>2
<1>4. \A m \in Int : m * m = (-m) * (-m)
  OBVIOUS
<1> QED
  BY <1>1, <1>2, <1>3, <1>4

\* The columns of a circle's row.
Reach(r, y) == {0} \cup {k \in 1..r : (2 * k - 1) * (2 * k - 1) <= 4 * (r * r - y * y)}

\* A circle's row reaches as far as its furthest column.
LEMMA ReachIs ==
  ASSUME NEW r \in Nat, NEW y
  PROVE  /\ XLen(r, y) \in Reach(r, y) /\ Reach(r, y) \subseteq 0..r
         /\ \A k \in Reach(r, y) : k <= XLen(r, y)
<1>1. Reach(r, y) \in SUBSET (0..r) /\ 0 \in Reach(r, y)
  BY DEF Reach
<1>2. PICK T : T = Reach(r, y)
  OBVIOUS
<1>3. Max(T) \in T /\ \A k \in T : k <= Max(T)
  BY <1>1, <1>2, MaxNat
<1>4. XLen(r, y) = Max(T)
  BY <1>2 DEF XLen, Reach
<1> QED
  BY <1>1, <1>2, <1>3, <1>4

\* It reaches all places within the radius.
LEMMA XLenReaches ==
  ASSUME NEW r \in Nat, NEW u \in Nat, NEW v \in Nat, u * u + v * v <= r * r
  PROVE  u <= XLen(r, v)
<1>1. PICK a, b, c \in Nat : a = u * u /\ b = v * v /\ c = r * r
  OBVIOUS
<1>2. u * u <= r * r
  BY <1>1
<1>3. u <= r
  BY <1>2, Squares
<1>4. u > 0 => (2 * u - 1) * (2 * u - 1) <= 4 * (r * r - v * v)
  <2> SUFFICES ASSUME u > 0 PROVE (2 * u - 1) * (2 * u - 1) <= 4 * (r * r - v * v)
    OBVIOUS
  <2>1. (2 * u - 1) * (2 * u - 1) <= 4 * (u * u)
    BY Squares
  <2>2. PICK d \in Int : d = (2 * u - 1) * (2 * u - 1)
    OBVIOUS
  <2> QED
    BY <1>1, <2>1, <2>2
<1>5. u \in Reach(r, v)
  BY <1>3, <1>4 DEF Reach
<1> QED
  BY <1>5, ReachIs

\* A row further from the centre reaches less far.
LEMMA XLenFalls ==
  ASSUME NEW r \in Nat, NEW v \in Nat, v > 0
  PROVE  XLen(r, v) <= XLen(r, v - 1)
<1>1. Reach(r, v) \subseteq Reach(r, v - 1)
  <2> SUFFICES ASSUME NEW k \in 1..r, (2 * k - 1) * (2 * k - 1) <= 4 * (r * r - v * v)
               PROVE  (2 * k - 1) * (2 * k - 1) <= 4 * (r * r - (v - 1) * (v - 1))
    BY DEF Reach
  <2>1. (v - 1) * (v - 1) <= v * v
    BY Squares
  <2>2. PICK a, b, c, d \in Int : a = (2 * k - 1) * (2 * k - 1) /\ b = r * r /\ c = v * v
                                  /\ d = (v - 1) * (v - 1)
    OBVIOUS
  <2> QED
    BY <2>1, <2>2
<1> QED
  BY <1>1, ReachIs

\* fillBetween covers the columns from the one to the other.
LEMMA BetweenHolds ==
  ASSUME NEW xl \in Int, NEW xr \in Int, NEW x \in xl..xr, NEW y
  PROVE  <<x, y>> \in Between(xl, xr, y)
<1>1. PICK a, b \in Int : a = xl \div 8 /\ b = xr \div 8
  OBVIOUS
<1>2. x \in xl..(8 * a + 7) \/ x \in (8 * b)..xr \/ x \in (8 * a + 8)..(8 * b - 1)
  BY <1>1
<1> QED
  BY <1>1, <1>2 DEF Between

\* What is in a filled circle is among its pixels.
LEMMA CircleHeld ==
  ASSUME NEW x \in Nat, NEW y \in Nat, NEW r \in Nat, NEW m \in Nat, NEW n \in Nat,
         (m - x) * (m - x) + (n - y) * (n - y) <= r * r
  PROVE  <<m, n>> \in CircleSubArray(NewCircle(x, y, r, TRUE)).bits
<1> DEFINE circle == NewCircle(x, y, r, TRUE)
<1>1. PICK u \in Nat : (m = x + u \/ m = x - u) /\ (m - x) * (m - x) = u * u
  <2>1. CASE m >= x
    BY <2>1
  <2>2. CASE m < x
    <3>1. x - m \in Nat /\ m = x - (x - m) /\ m - x = -(x - m) /\ x - m \in Int
      BY <2>2
    <3>2. (m - x) * (m - x) = (x - m) * (x - m)
      BY <3>1, Squares
    <3> QED
      BY <3>1, <3>2
  <2> QED
    BY <2>1, <2>2
<1>2. PICK v \in Nat : (n = y + v \/ n = y - v) /\ (n - y) * (n - y) = v * v
  <2>1. CASE n >= y
    BY <2>1
  <2>2. CASE n < y
    <3>1. y - n \in Nat /\ n = y - (y - n) /\ n - y = -(y - n) /\ y - n \in Int
      BY <2>2
    <3>2. (n - y) * (n - y) = (y - n) * (y - n)
      BY <3>1, Squares
    <3> QED
      BY <3>1, <3>2
  <2> QED
    BY <2>1, <2>2
<1>3. u * u + v * v <= r * r
  BY <1>1, <1>2
<1>4. u <= r /\ v <= r
  <2>1. PICK a, b, c \in Nat : a = u * u /\ b = v * v /\ c = r * r
    OBVIOUS
  <2>2. u * u <= r * r /\ v * v <= r * r
    BY <1>3, <2>1
  <2> QED
    BY <2>2, Squares
<1>5. u <= XLen(r, v)
  BY <1>3, XLenReaches
<1>6. u <= XLenPrev(r, v) /\ XLen(r, v) <= XLenPrev(r, v)
  <2>1. CASE v = 0
    <3>1. XLen(r, v) \in 0..r
      BY ReachIs
    <3> QED
      BY <1>4, <2>1, <3>1 DEF XLenPrev
  <2>2. CASE v # 0
    <3>1. v - 1 \in Nat /\ v > 0
      BY <2>2
    <3>2. (v - 1) * (v - 1) <= v * v
      BY <3>1, Squares
    <3>3. u * u + (v - 1) * (v - 1) <= r * r
      <4>1. PICK a, b, c, d \in Int : a = u * u /\ b = v * v /\ c = r * r /\ d = (v - 1) * (v - 1)
        OBVIOUS
      <4> QED
        BY <1>3, <3>2, <4>1
    <3>4. u <= XLen(r, v - 1)
      BY <3>1, <3>3, XLenReaches
    <3> QED
      BY <2>2, <3>1, <3>4, XLenFalls DEF XLenPrev
  <2> QED
    BY <2>1, <2>2
<1>7. XLen(r, v) \in Int /\ XLenPrev(r, v) \in Int
  <2>1. \A z : XLen(r, z) \in Int
    BY ReachIs
  <2> QED
    BY <2>1 DEF XLenPrev
<1>8. PICK e, f \in Int : e = XLen(r, v) /\ f = XLenPrev(r, v)
  BY <1>7
<1>9. circle.C.X = x /\ circle.C.Y = y /\ circle.R = r /\ circle.Filled = TRUE
  BY DEF NewCircle
<1>10. n \in {y + v, y - v} /\ m \in {x + u, x - u}
  BY <1>1, <1>2
<1> HIDE DEF circle
<1>11. <<m, n>> \in Arc(circle, v) \cup Disc(circle, v)
  <2>1. CASE u = f
    <3>1. u \in XLen(r, v)..XLenPrev(r, v)
      BY <1>5, <1>6, <1>8, <2>1
    <3>2. <<m, n>> \in {x + u, x - u} \X {y + v, y - v}
      BY <1>10
    <3>3. <<m, n>> \in Arc(circle, v)
      BY <1>9, <3>1, <3>2 DEF Arc
    <3> QED
      BY <3>3
  <2>2. CASE u # f
    <3>1. m \in (x - (f - 1))..(x + (f - 1))
      BY <1>1, <1>6, <1>8, <2>2
    <3>2. x - (f - 1) \in Int /\ x + (f - 1) \in Int
      OBVIOUS
    <3>3. <<m, n>> \in Between(x - (f - 1), x + (f - 1), n)
      BY <3>1, <3>2, BetweenHolds
    <3>4. <<m, n>> \in Disc(circle, v)
      BY <1>8, <1>9, <1>10, <3>3 DEF Disc
    <3> QED
      BY <3>4
  <2> QED
    BY <2>1, <2>2
<1>12. UNION {Arc(circle, z) \cup Disc(circle, z) : z \in 0..r} \subseteq CircleSubArray(circle).bits
  BY <1>9 DEF CircleSubArray, NewPixelSubArray
<1>13. v \in 0..r
  BY <1>4
<1>14. <<m, n>> \in CircleSubArray(circle).bits
  BY <1>11, <1>12, <1>13
<1> QED
  BY <1>14 DEF circle

\* So what is inside a shape by the even-odd rule is among its pixels, but for
\* paths of several sections and rows that a line runs along.
LEMMA InsideHeld ==
  ASSUME NEW op \in Drawable, NEW r \in InCanvas, Enclosed(Place(r), Shape[op]),
         IsPath(Shape[op]) => Plain(Place(r), Shape[op])
  PROVE  Place(r) \in Sub[op].bits
<1>1. CASE IsPath(Shape[op])
  BY <1>1, EnclosedHeld
<1>2. CASE ~IsPath(Shape[op])
  <2>1. \E x, y, n \in Nat : Shape[op] = NewCircle(x, y, n, op.Filled)
    BY <1>2, ShapeIs
  <2>2. PICK x, y, n \in Nat : Shape[op] = NewCircle(x, y, n, op.Filled)
    BY <2>1
  <2>3. /\ Shape[op].C.X = x /\ Shape[op].C.Y = y /\ Shape[op].R = n /\ Shape[op].Filled = op.Filled
        /\ "R" \in DOMAIN Shape[op]
    BY <2>2 DEF NewCircle
  <2>4. op.Filled = TRUE
    <3>1. op.Filled \in BOOLEAN
      BY CanvasAssumption DEF Drawable
    <3> QED
      BY <2>3, <3>1 DEF Enclosed
  <2>5. r.X \in Nat /\ r.Y \in Nat
    BY WidthIs
  <2>6. (r.X - x) * (r.X - x) + (r.Y - y) * (r.Y - y) <= n * n
    BY <1>2, <2>3 DEF Enclosed, Place
  <2>7. <<r.X, r.Y>> \in CircleSubArray(NewCircle(x, y, n, TRUE)).bits
    BY <2>5, <2>6, CircleHeld
  <2>8. Sub[op] = CircleSubArray(NewCircle(x, y, n, TRUE))
    BY <2>2, <2>3, <2>4 DEF Sub, SubArray
  <2> QED
    BY <2>7, <2>8 DEF Place
<1> QED
  BY <1>1, <1>2

\* So no line of a shape that has no pixel in common with it ends inside.
LEMMA NothingInside ==
  ASSUME drawn \subseteq Drawable,
         \A s, t \in drawn : s # t => Sub[s].bits \cap Sub[t].bits = {}
  PROVE  NothingWithin
<1> SUFFICES ASSUME NEW s \in drawn, NEW t \in drawn, s # t,
                    NEW l \in Lines(Shape[s]), NEW c \in {l[1], l[2]}, Enclosed(c, Shape[t]),
                    IsPath(Shape[t]) => Plain(c, Shape[t])
             PROVE  FALSE
  BY DEF NothingWithin
<1>1. PICK p \in InCanvas, q \in InCanvas :
        l = <<Place(p), Place(q)>> /\ Outline(p, q) \subseteq Sub[s].bits
  BY LineInked
<1>2. PICK r \in {p, q} : c = Place(r)
  BY <1>1
<1>3. Place(r) \in Sub[s].bits
  BY <1>1, <1>2, EndsHeld
<1>4. Place(r) \in Sub[t].bits
  BY <1>2, InsideHeld
<1> QED
  BY <1>3, <1>4

-----------------------------------------------------------------------------
(* Theorems                                                                *)

\* No pixel belongs to two of the shapes that validation let onto the canvas,
\* and none lies off the canvas (pixelarray.go:60-101).
THEOREM PixelsHaveOneOwner == Spec => []CanvasInv
<1>1. Init => CanvasInv
  BY CanvasInvInit
<1>2. CanvasInv /\ [Next]_drawn => CanvasInv'
  BY CanvasInvNext
<1> QED
  BY <1>1, <1>2, PTL DEF Spec

\* Each shape on the canvas could have been the last one: miners that see the
\* operations in different orders agree on them (validation.go:166-183).
THEOREM OrderDoesNotMatter == Spec => []AnyCouldBeLast
<1>1. CanvasInv => AnyCouldBeLast
  <2> SUFFICES ASSUME CanvasInv, NEW op \in drawn
               PROVE  ~HasConflict(PixelArr(drawn \ {op}), Sub[op])
    BY DEF AnyCouldBeLast
  <2>1. drawn \ {op} \in SUBSET Drawable /\ IsFiniteSet(drawn \ {op})
    BY FS_Subset DEF CanvasInv
  <2>2. Fits(op) /\ \A s \in drawn \ {op} : Fits(s) /\ Sub[s].bits \cap Sub[op].bits = {}
    BY DEF CanvasInv, Apart
  <2> QED
    BY <2>1, <2>2, ConflictIs
<1> QED
  BY <1>1, PixelsHaveOneOwner, PTL

\* No line of a shape on the canvas crosses or touches a line of another, for
\* lines of any length and slope: lines that meet have a pixel in common
\* (shapes.go:115-137, shapelib.go:196-355).
THEOREM LinesStayApart == Spec => []LinesNeverCross
<1>1. CanvasInv => LinesNeverCross
  BY LinesApart DEF CanvasInv, Apart
<1> QED
  BY <1>1, PixelsHaveOneOwner, PTL

\* The lines of a filled shape bound a region, however many sections its path
\* has (utils.go:229-277).
THEOREM FilledStayClosed == Spec => []FilledAreClosed
<1>1. CanvasInv => FilledAreClosed
  BY FilledBoundRegions DEF CanvasInv
<1> QED
  BY <1>1, PixelsHaveOneOwner, PTL

\* No line of a shape ends in a filled circle, nor inside a filled path of one
\* section where none of its lines runs along the row: there the fill is the
\* even-odd rule's (shapes.go:55-113, 243-274).
THEOREM NothingGetsWithin == Spec => []NothingWithin
<1>1. CanvasInv => NothingWithin
  BY NothingInside DEF CanvasInv, Apart
<1> QED
  BY <1>1, PixelsHaveOneOwner, PTL
=============================================================================
