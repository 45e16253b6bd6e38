---------------------------- MODULE LedgerProofs ----------------------------
(***************************************************************************)
(* What a chain says of its operations and of the ink of its keys, for any *)
(* operations, keys and costs and for a chain of any length.               *)
(*                                                                         *)
(* The ledger is made of folds: over a chain (Mined), over its history     *)
(* (Drawn, ShapesExisting) and over the operations of a block              *)
(* (ValidateOps).  Each is first shown to be FoldOf with a step that is a  *)
(* function, so that FoldLemmas tells what one more element does to it.    *)
(***************************************************************************)
EXTENDS Ledger, FoldLemmas

-----------------------------------------------------------------------------
(* Sequences of operations                                                 *)

\* One element more in a sequence is one more in its set.
LEMMA AppendSet ==
  ASSUME NEW X, NEW s \in Seq(X), NEW x \in X
  PROVE  ToSet(Append(s, x)) = ToSet(s) \cup {x} /\ ToSet(s) \in SUBSET X
<1>1. /\ Len(s) \in Nat /\ DOMAIN s = 1..Len(s) /\ DOMAIN Append(s, x) = 1..(Len(s) + 1)
      /\ \A i \in 1..Len(s) : Append(s, x)[i] = s[i]
      /\ Append(s, x)[Len(s) + 1] = x
      /\ \A i \in 1..Len(s) : s[i] \in X
  BY AppendProperties, LenProperties, ElementOfSeq
<1> QED
  BY <1>1 DEF ToSet

\* Two sequences in a row have the elements of both.
LEMMA ConcatSet ==
  ASSUME NEW X, NEW s \in Seq(X), NEW t \in Seq(X)
  PROVE  ToSet(s \o t) = ToSet(s) \cup ToSet(t)
<1>1. PICK r : r = s \o t
  OBVIOUS
<1>2. /\ Len(s) \in Nat /\ DOMAIN s = 1..Len(s) /\ Len(t) \in Nat /\ DOMAIN t = 1..Len(t)
      /\ r \in Seq(X) /\ DOMAIN r = 1..(Len(s) + Len(t))
      /\ \A i \in 1..(Len(s) + Len(t)) : r[i] = IF i <= Len(s) THEN s[i] ELSE t[i - Len(s)]
  BY <1>1, ConcatProperties, LenProperties
<1>3. ASSUME NEW i \in 1..Len(t) PROVE r[Len(s) + i] = t[i] /\ Len(s) + i \in DOMAIN r
  <2>1. /\ Len(s) + i \in 1..(Len(s) + Len(t)) /\ ~(Len(s) + i <= Len(s))
        /\ (Len(s) + i) - Len(s) = i
    BY <1>2
  <2> QED
    BY <1>2, <2>1
<1>4. ASSUME NEW i \in 1..Len(s) PROVE r[i] = s[i] /\ i \in DOMAIN r
  BY <1>2
<1>5. ASSUME NEW i \in DOMAIN r PROVE r[i] \in ToSet(s) \cup ToSet(t)
  <2>1. CASE i <= Len(s)
    BY <1>2, <2>1 DEF ToSet
  <2>2. CASE ~(i <= Len(s))
    <3>1. i - Len(s) \in 1..Len(t)
      BY <1>2, <2>2
    <3> QED
      BY <1>2, <2>2, <3>1 DEF ToSet
  <2> QED
    BY <2>1, <2>2
<1>6. ToSet(s) \subseteq ToSet(r)
  BY <1>2, <1>4 DEF ToSet
<1>7. ToSet(t) \subseteq ToSet(r)
  BY <1>2, <1>3 DEF ToSet
<1>8. ToSet(r) \subseteq ToSet(s) \cup ToSet(t)
  <2>1. ToSet(r) = {r[i] : i \in DOMAIN r}
    BY DEF ToSet
  <2> QED
    BY <1>5, <2>1
<1> QED
  BY <1>1, <1>6, <1>7, <1>8

-----------------------------------------------------------------------------
(* Chains and histories                                                    *)

\* The sequence that History flattens.
Histories(c) == [i \in DOMAIN c |-> c[i].OpHistory]

\* Each block of a chain has its sequence of operations.
LEMMA HistoriesType ==
  ASSUME NEW c \in Seq(ChainBlocks)
  PROVE  /\ Histories(c) \in Seq(Seq(Ops)) /\ Len(Histories(c)) = Len(c)
         /\ \A i \in 1..Len(c) : Histories(c)[i] = c[i].OpHistory
<1>1. Len(c) \in Nat /\ DOMAIN c = 1..Len(c) /\ \A i \in 1..Len(c) : c[i].OpHistory \in Seq(Ops)
  <2>1. Len(c) \in Nat /\ DOMAIN c = 1..Len(c) /\ \A i \in 1..Len(c) : c[i] \in ChainBlocks
    BY LenProperties, ElementOfSeq
  <2>2. \A block \in ChainBlocks : block.OpHistory \in Seq(Ops)
    BY DEF ChainBlocks
  <2> QED
    BY <2>1, <2>2
<1>2. Histories(c) \in [1..Len(c) -> Seq(Ops)] /\ \A i \in 1..Len(c) : Histories(c)[i] = c[i].OpHistory
  BY <1>1 DEF Histories
<1> HIDE DEF Histories
<1>3. PICK h : h = Histories(c)
  OBVIOUS
<1>4. h \in Seq(Seq(Ops)) /\ DOMAIN h = 1..Len(c)
  BY <1>1, <1>2, <1>3, SeqDef
<1>5. Len(h) \in Nat /\ DOMAIN h = 1..Len(h)
  BY <1>4, LenProperties
<1>6. Len(h) = Len(c)
  BY <1>1, <1>4, <1>5
<1> QED
  BY <1>2, <1>3, <1>4, <1>6

\* A block on top of the chain adds its own.
LEMMA HistoriesAppend ==
  ASSUME NEW c \in Seq(ChainBlocks), NEW block \in ChainBlocks
  PROVE  Histories(Append(c, block)) = Append(Histories(c), block.OpHistory)
<1>1. PICK r : r = Append(c, block)
  OBVIOUS
<1>2. PICK o : o = block.OpHistory
  OBVIOUS
<1>3. /\ r \in Seq(ChainBlocks) /\ Len(c) \in Nat /\ Len(r) = Len(c) + 1
      /\ \A i \in 1..Len(c) : r[i] = c[i]
      /\ r[Len(c) + 1] = block
  BY <1>1, AppendProperties, LenProperties
<1>4. o \in Seq(Ops)
  BY <1>2 DEF ChainBlocks
<1>5. PICK h : h = Histories(c)
  OBVIOUS
<1>6. PICK g : g = Histories(r)
  OBVIOUS
<1>7. /\ h \in Seq(Seq(Ops)) /\ Len(h) = Len(c) /\ \A i \in 1..Len(c) : h[i] = c[i].OpHistory
      /\ g \in Seq(Seq(Ops)) /\ Len(g) = Len(r) /\ \A i \in 1..Len(r) : g[i] = r[i].OpHistory
  BY <1>3, <1>5, <1>6, HistoriesType
<1>8. PICK q : q = Append(h, o)
  OBVIOUS
<1>9. /\ q \in Seq(Seq(Ops)) /\ Len(q) = Len(h) + 1
      /\ \A i \in 1..Len(h) : q[i] = h[i]
      /\ q[Len(h) + 1] = o
  BY <1>4, <1>7, <1>8, AppendProperties
<1>10. \A i \in 1..Len(g) : g[i] = q[i]
  <2> SUFFICES ASSUME NEW i \in 1..(Len(c) + 1) PROVE g[i] = q[i]
    BY <1>3, <1>7
  <2>1. CASE i = Len(c) + 1
    BY <1>2, <1>3, <1>7, <1>9, <2>1
  <2>2. CASE i # Len(c) + 1
    <3>1. i \in 1..Len(c)
      BY <1>3, <2>2
    <3> QED
      BY <1>3, <1>7, <1>9, <3>1
  <2> QED
    BY <2>1, <2>2
<1>11. g = q
  BY <1>3, <1>7, <1>9, <1>10, SeqEqual
<1> QED
  BY <1>1, <1>2, <1>5, <1>6, <1>8, <1>11

\* The history of a chain is a sequence of operations.
LEMMA HistoryType ==
  ASSUME NEW c \in Seq(ChainBlocks)
  PROVE  History(c) \in Seq(Ops)
BY HistoriesType, FlattenType DEF History, Histories

\* A block appends its operations to the history.
LEMMA HistoryAppend ==
  ASSUME NEW c \in Seq(ChainBlocks), NEW block \in ChainBlocks
  PROVE  History(Append(c, block)) = History(c) \o block.OpHistory
<1>1. \A x : History(x) = FlattenSeq(Histories(x))
  BY DEF History, Histories
<1>2. Histories(c) \in Seq(Seq(Ops)) /\ block.OpHistory \in Seq(Ops)
  BY HistoriesType DEF ChainBlocks
<1>3. PICK ss \in Seq(Seq(Ops)) : ss = Histories(c)
  BY <1>2
<1>4. FlattenSeq(Append(ss, block.OpHistory)) = FlattenSeq(ss) \o block.OpHistory
  BY <1>2, FlattenAppend
<1> QED
  BY <1>1, <1>3, <1>4, HistoriesAppend

-----------------------------------------------------------------------------
(* The folds of Validation                                                 *)

MineStep(key) ==
  [ink \in Nat |-> [block \in ChainBlocks |->
     IF block.MinerPubKey = key THEN ink + Reward(block) ELSE ink]]

\* Mined is the fold of its step.
LEMMA MinedIs ==
  ASSUME NEW key, NEW c \in Seq(ChainBlocks)
  PROVE  /\ Mined(c, key) = FoldOf(MineStep(key), 0, c)
         /\ IsStep(MineStep(key), Nat, ChainBlocks)
<1> DEFINE F == MineStep(key)
           Turn(ink, block) == IF block.MinerPubKey = key THEN ink + Reward(block) ELSE ink
           Eq(f) == f = [T \in SUBSET DOMAIN c |->
                           IF T = {} THEN 0 ELSE Turn(f[T \ {Max(T)}], c[Max(T)])]
           k == CHOOSE f : Eq(f)
<1>1. \A ink \in Nat, block \in ChainBlocks : F[ink][block] = Turn(ink, block)
  BY DEF MineStep
<1>2. IsStep(F, Nat, ChainBlocks)
  BY InkAssumption DEF IsStep, MineStep, Reward
<1> HIDE DEF F
<1>3. PICK g : LeftFold(g, Nat, F, 0, c)
  BY <1>2, LeftFoldExists
<1>4. \A T \in SUBSET DOMAIN c : T # {} => T \ {Max(T)} \in SUBSET DOMAIN c /\ c[Max(T)] \in ChainBlocks
  BY LeftFoldTurn
<1>5. \A T \in SUBSET DOMAIN c : T # {} =>
        F[g[T \ {Max(T)}]][c[Max(T)]] = Turn(g[T \ {Max(T)}], c[Max(T)])
  <2> HIDE DEF Turn
  <2> QED
    BY <1>1, <1>3, <1>4 DEF LeftFold
<1>6. Eq(g)
  <2> HIDE DEF Turn
  <2> QED
    BY <1>3, <1>5 DEF LeftFold
<1>7. Eq(k)
  <2> HIDE DEF Eq
  <2> QED
    BY <1>6
<1>8. Mined(c, key) = k[DOMAIN c]
  BY DEF Mined, FoldLeft, MapThenFoldSet
<1> HIDE DEF k, Turn
<1>9. k[{}] = 0 /\ \A T \in SUBSET DOMAIN c : T # {} => k[T] = Turn(k[T \ {Max(T)}], c[Max(T)])
  BY <1>7
<1>10. LeftFollows(k, Nat, F, 0, c)
  BY <1>1, <1>4, <1>9 DEF LeftFollows
<1>11. Whole(k, c) = FoldOf(F, 0, c)
  <2>1. PICK V, z : V = Nat /\ z = 0
    OBVIOUS
  <2>2. /\ IsStep(F, V, ChainBlocks) /\ z \in V /\ c \in Seq(ChainBlocks)
        /\ LeftFollows(k, V, F, z, c)
    BY <1>2, <1>10, <2>1
  <2>3. Whole(k, c) = FoldOf(F, z, c)
    BY ONLY <2>2, FoldOfIs
  <2> QED
    BY <2>1, <2>3
<1> QED
  BY <1>2, <1>8, <1>11 DEF Whole, F

DrawStep(key) ==
  [ink \in Int |-> [op \in Ops |->
     IF PubKey[op] # key \/ op \notin WellFormed THEN ink
     ELSE IF OpType[op] = "ADD" THEN ink + Cost[op] ELSE ink - Cost[op]]]

\* Drawn is the fold of its step.
LEMMA DrawnIs ==
  ASSUME NEW key, NEW c \in Seq(ChainBlocks)
  PROVE  /\ Drawn(c, key) = FoldOf(DrawStep(key), 0, History(c))
         /\ IsStep(DrawStep(key), Int, Ops)
<1> DEFINE F == DrawStep(key)
           Turn(ink, op) == IF PubKey[op] # key \/ op \notin WellFormed THEN ink
                            ELSE IF OpType[op] = "ADD" THEN ink + Cost[op] ELSE ink - Cost[op]
           Eq(f) == f = [T \in SUBSET DOMAIN History(c) |->
                           IF T = {} THEN 0 ELSE Turn(f[T \ {Max(T)}], History(c)[Max(T)])]
           k == CHOOSE f : Eq(f)
<1>0. History(c) \in Seq(Ops)
  BY HistoryType
<1>1. \A ink \in Int, op \in Ops : F[ink][op] = Turn(ink, op)
  BY DEF DrawStep
<1>2. IsStep(F, Int, Ops)
  BY InkAssumption DEF IsStep, DrawStep
<1> HIDE DEF F
<1>3. PICK g : LeftFold(g, Int, F, 0, History(c))
  <2>1. 0 \in Int
    OBVIOUS
  <2> QED
    BY <1>0, <1>2, <2>1, LeftFoldExists
<1>4. \A T \in SUBSET DOMAIN History(c) : T # {} => T \ {Max(T)} \in SUBSET DOMAIN History(c) /\ History(c)[Max(T)] \in Ops
  BY <1>0, LeftFoldTurn
<1>5. \A T \in SUBSET DOMAIN History(c) : T # {} =>
        F[g[T \ {Max(T)}]][History(c)[Max(T)]] = Turn(g[T \ {Max(T)}], History(c)[Max(T)])
  <2> HIDE DEF Turn
  <2> QED
    BY <1>1, <1>3, <1>4 DEF LeftFold
<1>6. Eq(g)
  <2> HIDE DEF Turn
  <2> QED
    BY <1>3, <1>5 DEF LeftFold
<1>7. Eq(k)
  <2> HIDE DEF Eq
  <2> QED
    BY <1>6
<1>8. Drawn(c, key) = k[DOMAIN History(c)]
  BY DEF Drawn, FoldLeft, MapThenFoldSet
<1> HIDE DEF k, Turn
<1>9. k[{}] = 0 /\ \A T \in SUBSET DOMAIN History(c) : T # {} => k[T] = Turn(k[T \ {Max(T)}], History(c)[Max(T)])
  BY <1>7
<1>10. LeftFollows(k, Int, F, 0, History(c))
  BY <1>1, <1>4, <1>9 DEF LeftFollows
<1>11. Whole(k, History(c)) = FoldOf(F, 0, History(c))
  <2>1. PICK V, z : V = Int /\ z = 0
    OBVIOUS
  <2>2. /\ IsStep(F, V, Ops) /\ z \in V /\ History(c) \in Seq(Ops)
        /\ LeftFollows(k, V, F, z, History(c))
    BY <1>0, <1>2, <1>10, <2>1
  <2>3. Whole(k, History(c)) = FoldOf(F, z, History(c))
    BY ONLY <2>2, FoldOfIs
  <2> QED
    BY <2>1, <2>3
<1> QED
  BY <1>2, <1>8, <1>11 DEF Whole, F

ShapeStep(key) ==
  [shapes \in SUBSET Ops |-> [op \in Ops |->
     IF PubKey[op] = key THEN shapes
     ELSE IF OpType[op] = "ADD" THEN shapes \cup {op} ELSE shapes \ {op}]]

\* ShapesExisting is the fold of its step.
LEMMA ShapesIs ==
  ASSUME NEW key, NEW c \in Seq(ChainBlocks)
  PROVE  /\ ShapesExisting(c, key) = FoldOf(ShapeStep(key), {}, History(c))
         /\ IsStep(ShapeStep(key), (SUBSET Ops), Ops)
<1> DEFINE F == ShapeStep(key)
           Turn(shapes, op) == IF PubKey[op] = key THEN shapes
                               ELSE IF OpType[op] = "ADD" THEN shapes \cup {op} ELSE shapes \ {op}
           Eq(f) == f = [T \in SUBSET DOMAIN History(c) |->
                           IF T = {} THEN {} ELSE Turn(f[T \ {Max(T)}], History(c)[Max(T)])]
           k == CHOOSE f : Eq(f)
<1>0. History(c) \in Seq(Ops)
  BY HistoryType
<1>1. \A shapes \in (SUBSET Ops), op \in Ops : F[shapes][op] = Turn(shapes, op)
  BY DEF ShapeStep
<1>2. IsStep(F, (SUBSET Ops), Ops)
  BY DEF IsStep, ShapeStep
<1> HIDE DEF F
<1>3. PICK g : LeftFold(g, (SUBSET Ops), F, {}, History(c))
  <2>1. {} \in (SUBSET Ops)
    OBVIOUS
  <2> QED
    BY <1>0, <1>2, <2>1, LeftFoldExists
<1>4. \A T \in SUBSET DOMAIN History(c) : T # {} => T \ {Max(T)} \in SUBSET DOMAIN History(c) /\ History(c)[Max(T)] \in Ops
  BY <1>0, LeftFoldTurn
<1>5. \A T \in SUBSET DOMAIN History(c) : T # {} =>
        F[g[T \ {Max(T)}]][History(c)[Max(T)]] = Turn(g[T \ {Max(T)}], History(c)[Max(T)])
  <2> HIDE DEF Turn
  <2> QED
    BY <1>1, <1>3, <1>4 DEF LeftFold
<1>6. Eq(g)
  <2> HIDE DEF Turn
  <2> QED
    BY <1>3, <1>5 DEF LeftFold
<1>7. Eq(k)
  <2> HIDE DEF Eq
  <2> QED
    BY <1>6
<1>8. ShapesExisting(c, key) = k[DOMAIN History(c)]
  BY DEF ShapesExisting, FoldLeft, MapThenFoldSet
<1> HIDE DEF k, Turn
<1>9. k[{}] = {} /\ \A T \in SUBSET DOMAIN History(c) : T # {} => k[T] = Turn(k[T \ {Max(T)}], History(c)[Max(T)])
  BY <1>7
<1>10. LeftFollows(k, (SUBSET Ops), F, {}, History(c))
  BY <1>1, <1>4, <1>9 DEF LeftFollows
<1>11. Whole(k, History(c)) = FoldOf(F, {}, History(c))
  <2>1. PICK V, z : V = (SUBSET Ops) /\ z = {}
    OBVIOUS
  <2>2. /\ IsStep(F, V, Ops) /\ z \in V /\ History(c) \in Seq(Ops)
        /\ LeftFollows(k, V, F, z, History(c))
    BY <1>0, <1>2, <1>10, <2>1
  <2>3. Whole(k, History(c)) = FoldOf(F, z, History(c))
    BY ONLY <2>2, FoldOfIs
  <2> QED
    BY <2>1, <2>3
<1> QED
  BY <1>2, <1>8, <1>11 DEF Whole, F

KeepStep(c) ==
  [kept \in Seq(Ops) |-> [op \in Ops |->
     IF Accepts(op, Append(c, TestBlock(kept))) THEN Append(kept, op) ELSE kept]]

\* ValidateOps is the fold of its step.
LEMMA ValidateIs ==
  ASSUME NEW c, NEW ops \in Seq(Ops)
  PROVE  /\ ValidateOps(ops, c) = FoldOf(KeepStep(c), <<>>, ops)
         /\ IsStep(KeepStep(c), Seq(Ops), Ops)
<1> DEFINE F == KeepStep(c)
           Turn(kept, op) == IF Accepts(op, Append(c, TestBlock(kept))) THEN Append(kept, op) ELSE kept
           Eq(f) == f = [T \in SUBSET DOMAIN ops |->
                           IF T = {} THEN <<>> ELSE Turn(f[T \ {Max(T)}], ops[Max(T)])]
           k == CHOOSE f : Eq(f)
<1>0. ops \in Seq(Ops)
  OBVIOUS
<1>1. \A kept \in Seq(Ops), op \in Ops : F[kept][op] = Turn(kept, op)
  BY DEF KeepStep
<1>2. IsStep(F, Seq(Ops), Ops)
  BY AppendProperties DEF IsStep, KeepStep
<1> HIDE DEF F
<1>3. PICK g : LeftFold(g, Seq(Ops), F, <<>>, ops)
  <2>1. <<>> \in Seq(Ops)
    BY EmptySeq
  <2> QED
    BY <1>0, <1>2, <2>1, LeftFoldExists
<1>4. \A T \in SUBSET DOMAIN ops : T # {} => T \ {Max(T)} \in SUBSET DOMAIN ops /\ ops[Max(T)] \in Ops
  BY <1>0, LeftFoldTurn
<1>5. \A T \in SUBSET DOMAIN ops : T # {} =>
        F[g[T \ {Max(T)}]][ops[Max(T)]] = Turn(g[T \ {Max(T)}], ops[Max(T)])
  <2> HIDE DEF Turn
  <2> QED
    BY <1>1, <1>3, <1>4 DEF LeftFold
<1>6. Eq(g)
  <2> HIDE DEF Turn
  <2> QED
    BY <1>3, <1>5 DEF LeftFold
<1>7. Eq(k)
  <2> HIDE DEF Eq
  <2> QED
    BY <1>6
<1>8. ValidateOps(ops, c) = k[DOMAIN ops]
  BY DEF ValidateOps, FoldLeft, MapThenFoldSet
<1> HIDE DEF k, Turn
<1>9. k[{}] = <<>> /\ \A T \in SUBSET DOMAIN ops : T # {} => k[T] = Turn(k[T \ {Max(T)}], ops[Max(T)])
  BY <1>7
<1>10. LeftFollows(k, Seq(Ops), F, <<>>, ops)
  BY <1>1, <1>4, <1>9 DEF LeftFollows
<1>11. Whole(k, ops) = FoldOf(F, <<>>, ops)
  <2>1. PICK V, z : V = Seq(Ops) /\ z = <<>>
    OBVIOUS
  <2>2. /\ IsStep(F, V, Ops) /\ z \in V /\ ops \in Seq(Ops)
        /\ LeftFollows(k, V, F, z, ops)
    BY <1>0, <1>2, <1>10, <2>1, EmptySeq
  <2>3. Whole(k, ops) = FoldOf(F, z, ops)
    BY ONLY <2>2, FoldOfIs
  <2> QED
    BY <2>1, <2>3
<1> QED
  BY <1>2, <1>8, <1>11 DEF Whole, F

-----------------------------------------------------------------------------
(* The folds, one operation or one block at a time                         *)

\* The folds over a history, of the operations rather than the chain.
DrawnIn(h, key) == FoldOf(DrawStep(key), 0, h)
ShapesIn(h, key) == FoldOf(ShapeStep(key), {}, h)

\* The ink mined, one block at a time: a block pays its miner.
LEMMA MinedRules ==
  ASSUME NEW key
  PROVE  /\ Mined(<<>>, key) = 0
         /\ \A c \in Seq(ChainBlocks) : Mined(c, key) \in Nat
         /\ \A c \in Seq(ChainBlocks), block \in ChainBlocks :
              Mined(Append(c, block), key)
                = IF block.MinerPubKey = key THEN Mined(c, key) + Reward(block) ELSE Mined(c, key)
<1>1. IsStep(MineStep(key), Nat, ChainBlocks)
  BY EmptySeq, MinedIs
<1>2. PICK V, z, F : V = Nat /\ z = 0 /\ F = MineStep(key)
  OBVIOUS
<1>3. z \in V /\ IsStep(F, V, ChainBlocks)
  BY <1>1, <1>2
<1>4. FoldOf(F, z, <<>>) = z
  BY ONLY <1>3, FoldOfEmpty
<1>5. \A c \in Seq(ChainBlocks) : FoldOf(F, z, c) \in V
  BY ONLY <1>3, FoldOfType
<1>6. \A c \in Seq(ChainBlocks), block \in ChainBlocks :
        FoldOf(F, z, Append(c, block)) = F[FoldOf(F, z, c)][block]
  BY ONLY <1>3, FoldOfAppend
<1>7. \A c \in Seq(ChainBlocks) : Mined(c, key) = FoldOf(F, z, c)
  BY <1>2, MinedIs
<1>8. \A c \in Seq(ChainBlocks), block \in ChainBlocks : Append(c, block) \in Seq(ChainBlocks)
  BY AppendProperties
<1>9. \A ink \in Nat, block \in ChainBlocks :
        F[ink][block] = IF block.MinerPubKey = key THEN ink + Reward(block) ELSE ink
  BY <1>2 DEF MineStep
<1>10. <<>> \in Seq(ChainBlocks)
  BY EmptySeq
<1>11. Mined(<<>>, key) = 0
  BY <1>2, <1>4, <1>7, <1>10
<1>12. \A c \in Seq(ChainBlocks) : Mined(c, key) \in Nat
  BY <1>2, <1>5, <1>7
<1>13. ASSUME NEW c \in Seq(ChainBlocks), NEW block \in ChainBlocks
       PROVE  Mined(Append(c, block), key)
                = IF block.MinerPubKey = key THEN Mined(c, key) + Reward(block) ELSE Mined(c, key)
  <2>1. Mined(Append(c, block), key) = F[Mined(c, key)][block]
    BY <1>6, <1>7, <1>8
  <2> QED
    BY <1>9, <1>12, <2>1
<1> QED
  BY <1>11, <1>12, <1>13

\* The ink drawn, one operation at a time.
LEMMA DrawnRules ==
  ASSUME NEW key
  PROVE  /\ DrawnIn(<<>>, key) = 0
         /\ \A h \in Seq(Ops) : DrawnIn(h, key) \in Int
         /\ \A h \in Seq(Ops), op \in Ops :
              DrawnIn(Append(h, op), key)
                = IF PubKey[op] # key \/ op \notin WellFormed THEN DrawnIn(h, key)
                  ELSE IF OpType[op] = "ADD" THEN DrawnIn(h, key) + Cost[op]
                  ELSE DrawnIn(h, key) - Cost[op]
         /\ \A c \in Seq(ChainBlocks) : Drawn(c, key) = DrawnIn(History(c), key)
<1>1. IsStep(DrawStep(key), Int, Ops)
  BY EmptySeq, DrawnIs
<1>2. PICK V, z, F : V = Int /\ z = 0 /\ F = DrawStep(key)
  OBVIOUS
<1>3. z \in V /\ IsStep(F, V, Ops)
  BY <1>1, <1>2
<1>4. FoldOf(F, z, <<>>) = z
  BY ONLY <1>3, FoldOfEmpty
<1>5. \A h \in Seq(Ops) : FoldOf(F, z, h) \in V
  BY ONLY <1>3, FoldOfType
<1>6. \A h \in Seq(Ops), op \in Ops : FoldOf(F, z, Append(h, op)) = F[FoldOf(F, z, h)][op]
  BY ONLY <1>3, FoldOfAppend
<1>7. \A ink \in Int, op \in Ops :
        F[ink][op] = IF PubKey[op] # key \/ op \notin WellFormed THEN ink
                     ELSE IF OpType[op] = "ADD" THEN ink + Cost[op] ELSE ink - Cost[op]
  BY <1>2 DEF DrawStep
<1>8. \A h : DrawnIn(h, key) = FoldOf(F, z, h)
  BY <1>2 DEF DrawnIn
<1>9. \A h \in Seq(Ops) : DrawnIn(h, key) \in Int
  BY <1>2, <1>5, <1>8
<1>10. ASSUME NEW h \in Seq(Ops), NEW op \in Ops
       PROVE  DrawnIn(Append(h, op), key)
                = IF PubKey[op] # key \/ op \notin WellFormed THEN DrawnIn(h, key)
                  ELSE IF OpType[op] = "ADD" THEN DrawnIn(h, key) + Cost[op]
                  ELSE DrawnIn(h, key) - Cost[op]
  <2>1. DrawnIn(Append(h, op), key) = F[DrawnIn(h, key)][op]
    BY <1>6, <1>8
  <2> QED
    BY <1>7, <1>9, <2>1
<1>11. \A c \in Seq(ChainBlocks) : Drawn(c, key) = DrawnIn(History(c), key)
  BY DrawnIs DEF DrawnIn
<1>12. DrawnIn(<<>>, key) = 0
  BY <1>2, <1>4, <1>8
<1> QED
  BY <1>9, <1>10, <1>11, <1>12

\* A DELETE is never among the shapes, so nothing leaves them.
LEMMA ShapesAre ==
  ASSUME NEW key, NEW c \in Seq(ChainBlocks)
  PROVE  ShapesExisting(c, key)
           = {x \in ToSet(History(c)) : PubKey[x] # key /\ OpType[x] = "ADD"}
<1> DEFINE Foreign(h) == {x \in ToSet(h) : PubKey[x] # key /\ OpType[x] = "ADD"}
           P == {h \in Seq(Ops) : ShapesIn(h, key) = Foreign(h)}
<1>1. PICK V, z, F : V = SUBSET Ops /\ z = {} /\ F = ShapeStep(key)
  OBVIOUS
<1>2. z \in V /\ IsStep(F, V, Ops)
  BY <1>1, ShapesIs
<1>3. FoldOf(F, z, <<>>) = z
  BY ONLY <1>2, FoldOfEmpty
<1>4. \A h \in Seq(Ops) : FoldOf(F, z, h) \in V
  BY ONLY <1>2, FoldOfType
<1>5. \A h \in Seq(Ops), op \in Ops : FoldOf(F, z, Append(h, op)) = F[FoldOf(F, z, h)][op]
  BY ONLY <1>2, FoldOfAppend
<1>6. \A h : ShapesIn(h, key) = FoldOf(F, z, h)
  BY <1>1 DEF ShapesIn
<1>7. \A shapes \in SUBSET Ops, op \in Ops :
        F[shapes][op] = IF PubKey[op] = key THEN shapes
                        ELSE IF OpType[op] = "ADD" THEN shapes \cup {op} ELSE shapes \ {op}
  BY <1>1 DEF ShapeStep
<1>8. <<>> \in P
  BY <1>1, <1>3, <1>6, EmptySeq DEF ToSet
<1>9. ASSUME NEW h \in Seq(Ops), NEW op \in Ops, h \in P
      PROVE  Append(h, op) \in P
  <2>1. ToSet(Append(h, op)) = ToSet(h) \cup {op} /\ ToSet(h) \in SUBSET Ops
    BY AppendSet
  <2>2. ShapesIn(Append(h, op), key) = F[ShapesIn(h, key)][op] /\ ShapesIn(h, key) \in SUBSET Ops
    BY <1>1, <1>4, <1>5, <1>6
  <2>3. ShapesIn(h, key) = Foreign(h)
    BY <1>9
  <2>4. F[Foreign(h)][op] = Foreign(Append(h, op))
    <3>1. Foreign(h) \in SUBSET Ops /\ op \in Ops
      BY <2>1
    <3>2. F[Foreign(h)][op] = IF PubKey[op] = key THEN Foreign(h)
                              ELSE IF OpType[op] = "ADD" THEN Foreign(h) \cup {op}
                              ELSE Foreign(h) \ {op}
      <4> HIDE DEF Foreign
      <4> QED
        BY <1>7, <3>1
    <3>3. CASE PubKey[op] = key \/ OpType[op] # "ADD"
      BY <2>1, <3>2, <3>3
    <3>4. CASE PubKey[op] # key /\ OpType[op] = "ADD"
      BY <2>1, <3>2, <3>4
    <3> QED
      BY <3>3, <3>4
  <2>5. Append(h, op) \in Seq(Ops)
    BY AppendProperties
  <2> QED
    BY <2>2, <2>3, <2>4, <2>5
<1> HIDE DEF P
<1>10. \A h \in Seq(Ops) : h \in P
  BY <1>8, <1>9, SeqInduction
<1>11. ShapesIn(History(c), key) = Foreign(History(c))
  BY <1>10, HistoryType DEF P
<1> QED
  BY <1>11, ShapesIs DEF ShapesIn

-----------------------------------------------------------------------------
(* An operation that the chain accepts                                     *)

\* The conjuncts of the properties of a history.
Once(h) == \A i, j \in DOMAIN h : h[i] = h[j] => i = j

Owned(h) ==
  \A i \in DOMAIN h : OpType[h[i]] = "DELETE" =>
    /\ \E j \in 1..(i - 1) : h[j] = AddSig[h[i]] /\ PubKey[h[j]] = PubKey[h[i]]
    /\ \A j \in DOMAIN h : AddSig[h[j]] = AddSig[h[i]] => j = i

Disjoint(S) == \A x, y \in S : PubKey[x] # PubKey[y] => Pixels[x] \cap Pixels[y] = {}

Apart(h) == \A n \in DOMAIN h : Disjoint(Live(Prefix(h, n)))

Sound(h) ==
  /\ h \in Seq(Ops)
  /\ ToSet(h) \subseteq WellFormed
  /\ Once(h)
  /\ Owned(h)
  /\ Apart(h)

\* What Accepts asks of an operation, but for the ink.
Fits(h, op) ==
  /\ op \in WellFormed
  /\ OpType[op] = "ADD" =>
       /\ op \notin ToSet(h)
       /\ \A s \in ToSet(h) : OpType[s] = "ADD" /\ PubKey[s] # PubKey[op]
                                => Pixels[s] \cap Pixels[op] = {}
  /\ OpType[op] = "DELETE" =>
       /\ AddSig[op] \in ToSet(h)
       /\ PubKey[AddSig[op]] = PubKey[op]
       /\ \A s \in ToSet(h) : PubKey[s] = PubKey[op] => AddSig[s] # AddSig[op]

\* What the error checks of Accepts come to.
LEMMA AcceptsMeans ==
  ASSUME NEW c \in Seq(ChainBlocks), NEW op \in Ops
  PROVE  Accepts(op, c) <=>
           /\ Fits(History(c), op)
           /\ OpType[op] = "ADD" => Cost[op] <= CalculateInk(c, PubKey[op])
<1>1. PICK h \in Seq(Ops) : h = History(c)
  BY HistoryType
<1>2. OnChain(c) = ToSet(h)
  BY <1>1 DEF OnChain, ToSet
<1>3. OpType[op] = "ADD" \/ (OpType[op] = "DELETE" /\ OpType[op] # "ADD")
  <2>1. OpType[op] \in {"ADD", "DELETE"}
    BY OpsAssumption
  <2> QED
    BY <2>1
<1>4. Cost[op] \in Nat /\ CalculateInk(c, PubKey[op]) \in Int
  <2>1. Mined(c, PubKey[op]) \in Nat
    BY MinedRules
  <2>2. DrawnIn(h, PubKey[op]) \in Int
    BY DrawnRules
  <2>3. Drawn(c, PubKey[op]) \in Int
    BY <1>1, <2>2, DrawnRules
  <2>4. Wrap \in Nat \ {0} /\ Cost[op] \in Nat
    BY InkAssumption
  <2> QED
    BY <2>1, <2>3, <2>4 DEF CalculateInk
<1>5. CASE OpType[op] = "ADD"
  <2>1. ShapesExisting(c, PubKey[op]) = {x \in ToSet(h) : PubKey[x] # PubKey[op] /\ OpType[x] = "ADD"}
    BY <1>1, ShapesAre
  <2>2. CheckInkAndConflicts(op, c) = "nil" <=>
          /\ op \notin ToSet(h)
          /\ ~(Cost[op] > CalculateInk(c, PubKey[op]))
          /\ \A s \in ShapesExisting(c, PubKey[op]) : Pixels[s] \cap Pixels[op] = {}
    BY <1>2 DEF CheckInkAndConflicts
  <2> QED
    BY <1>1, <1>4, <1>5, <2>1, <2>2 DEF Accepts, Fits
<1>6. CASE OpType[op] = "DELETE" /\ OpType[op] # "ADD"
  <2>1. CheckDeletion(AddSig[op], PubKey[op], c) = "nil" <=>
          /\ AddSig[op] \in ToSet(h) /\ PubKey[AddSig[op]] = PubKey[op]
          /\ \A s \in ToSet(h) : PubKey[s] = PubKey[op] => AddSig[s] # AddSig[op]
    BY <1>2 DEF CheckDeletion
  <2> QED
    BY <1>1, <1>6, <2>1 DEF Accepts, Fits
<1> QED
  BY <1>3, <1>5, <1>6

\* What an operation of the history names is in the history and has its key.
LEMMA NamesAre ==
  ASSUME NEW h \in Seq(Ops), Owned(h), NEW x \in ToSet(h), AddSig[x] \in Ops
  PROVE  AddSig[x] \in ToSet(h) /\ PubKey[AddSig[x]] = PubKey[x]
<1>1. Len(h) \in Nat /\ DOMAIN h = 1..Len(h)
  BY LenProperties
<1>2. PICK i \in 1..Len(h) : h[i] = x
  BY <1>1 DEF ToSet
<1>3. x \in Ops
  BY <1>2, ElementOfSeq
<1>4. OpType[x] = "DELETE"
  BY <1>3, OpsAssumption, SignedAssumption
<1>5. PICK j \in 1..(i - 1) : h[j] = AddSig[h[i]] /\ PubKey[h[j]] = PubKey[h[i]]
  BY <1>1, <1>2, <1>4 DEF Owned
<1>6. j \in DOMAIN h
  BY <1>1
<1> QED
  BY <1>2, <1>5, <1>6 DEF ToSet

\* An ADD that fits adds a live shape, a DELETE takes one off.
LEMMA LiveAppend ==
  ASSUME NEW h, Sound(h), NEW op \in Ops, Fits(h, op)
  PROVE  /\ OpType[op] = "ADD" =>
              Live(Append(h, op)) = Live(h) \cup {op} /\ op \notin Live(h)
         /\ OpType[op] = "DELETE" =>
              Live(Append(h, op)) = Live(h) \ {AddSig[op]} /\ AddSig[op] \in Live(h)
<1>1. h \in Seq(Ops) /\ Owned(h)
  BY DEF Sound
<1>2. ToSet(Append(h, op)) = ToSet(h) \cup {op} /\ ToSet(h) \in SUBSET Ops
  BY <1>1, AppendSet
<1>3. PICK S : S = ToSet(h)
  OBVIOUS
<1>4. \A x \in S : AddSig[x] \in Ops => AddSig[x] \in S /\ PubKey[AddSig[x]] = PubKey[x]
  BY <1>1, <1>3, NamesAre
<1>5. /\ Live(h) = {x \in S : OpType[x] = "ADD" /\ \A d \in S : AddSig[d] # x}
      /\ Live(Append(h, op))
           = {x \in S \cup {op} : OpType[x] = "ADD" /\ \A d \in S \cup {op} : AddSig[d] # x}
  BY <1>2, <1>3 DEF Live
<1>6. ASSUME OpType[op] = "ADD"
      PROVE  Live(Append(h, op)) = Live(h) \cup {op} /\ op \notin Live(h)
  <2>1. op \notin S
    BY <1>3, <1>6 DEF Fits
  <2>2. \A d \in S : AddSig[d] # op
    BY <1>4, <2>1
  <2>3. AddSig[op] = NoOp /\ NoOp \notin S \cup {op}
    BY <1>2, <1>3, <1>6, SignedAssumption, OpsAssumption
  <2> QED
    BY <1>5, <1>6, <2>1, <2>2, <2>3
<1>7. ASSUME OpType[op] = "DELETE"
      PROVE  Live(Append(h, op)) = Live(h) \ {AddSig[op]} /\ AddSig[op] \in Live(h)
  <2>1. /\ AddSig[op] \in S /\ PubKey[AddSig[op]] = PubKey[op]
        /\ \A s \in S : PubKey[s] = PubKey[op] => AddSig[s] # AddSig[op]
    BY <1>3, <1>7 DEF Fits
  <2>2. AddSig[op] \in Ops
    BY <1>2, <1>3, <2>1
  <2>3. OpType[AddSig[op]] = "ADD"
    BY <1>7, <2>2, SignedAssumption
  <2>4. \A d \in S : AddSig[d] # AddSig[op]
    BY <1>4, <2>1, <2>2
  <2> QED
    BY <1>5, <1>7, <2>1, <2>3, <2>4
<1> QED
  BY <1>6, <1>7

\* Prefixes of a sequence are sequences.
LEMMA PrefixType ==
  ASSUME NEW X, NEW s \in Seq(X)
  PROVE  \A n \in 1..Len(s) : /\ Prefix(s, n) \in Seq(X) /\ Len(Prefix(s, n)) = n
                              /\ Prefix(s, n - 1) \in Seq(X)
<1> SUFFICES ASSUME NEW n \in 1..Len(s)
             PROVE  /\ Prefix(s, n) \in Seq(X) /\ Len(Prefix(s, n)) = n
                    /\ Prefix(s, n - 1) \in Seq(X)
  OBVIOUS
<1>1. Len(s) \in Nat /\ \A i \in 1..Len(s) : s[i] \in X
  BY LenProperties, ElementOfSeq
<1>2. PICK m \in Int : m = n - 1
  OBVIOUS
<1>3. (\A i \in 1..n : s[i] \in X) /\ \A i \in 1..m : s[i] \in X
  BY <1>1, <1>2
<1>4. SubSeq(s, 1, n) \in Seq(X) /\ Len(SubSeq(s, 1, n)) = IF 1 <= n THEN n - 1 + 1 ELSE 0
  BY <1>3, SubSeqProperties
<1>5. SubSeq(s, 1, m) \in Seq(X)
  BY <1>3, SubSeqProperties
<1> QED
  BY <1>2, <1>4, <1>5 DEF Prefix

\* What is appended is in no shorter prefix.
LEMMA PrefixAppend ==
  ASSUME NEW X, NEW s \in Seq(X), NEW x \in X
  PROVE  /\ \A n \in 0..Len(s) : Prefix(Append(s, x), n) = Prefix(s, n)
         /\ Prefix(Append(s, x), Len(s) + 1) = Append(s, x)
<1>1. PICK r : r = Append(s, x)
  OBVIOUS
<1>2. r \in Seq(X) /\ Len(r) = Len(s) + 1 /\ Len(s) \in Nat /\ \A i \in 1..Len(s) : r[i] = s[i]
  BY <1>1, AppendProperties, LenProperties
<1>3. ASSUME NEW n \in 0..Len(s) PROVE Prefix(r, n) = Prefix(s, n)
  <2>1. /\ \A i \in 1..n : i \in 1..Len(s) /\ i \in 1..Len(r)
        /\ n \in Nat
    BY <1>2
  <2>2. \A i \in 1..n : s[i] \in X /\ r[i] \in X
    BY <1>2, <2>1, ElementOfSeq
  <2>3. PICK p, q : p = SubSeq(r, 1, n) /\ q = SubSeq(s, 1, n)
    OBVIOUS
  <2>4. p \in Seq(X) /\ Len(p) = n /\ \A i \in 1..n : p[i] = r[i]
    <3>1. /\ SubSeq(r, 1, n) \in Seq(X) /\ Len(SubSeq(r, 1, n)) = IF 1 <= n THEN n - 1 + 1 ELSE 0
          /\ \A i \in 1..(n - 1 + 1) : SubSeq(r, 1, n)[i] = r[1 + i - 1]
      BY <2>1, <2>2, SubSeqProperties
    <3> QED
      BY <2>1, <2>3, <3>1
  <2>5. q \in Seq(X) /\ Len(q) = n /\ \A i \in 1..n : q[i] = s[i]
    <3>1. /\ SubSeq(s, 1, n) \in Seq(X) /\ Len(SubSeq(s, 1, n)) = IF 1 <= n THEN n - 1 + 1 ELSE 0
          /\ \A i \in 1..(n - 1 + 1) : SubSeq(s, 1, n)[i] = s[1 + i - 1]
      BY <2>1, <2>2, SubSeqProperties
    <3> QED
      BY <2>1, <2>3, <3>1
  <2>6. \A i \in 1..n : p[i] = q[i]
    BY <1>2, <2>1, <2>4, <2>5
  <2>7. p = q
    BY <2>4, <2>5, <2>6, SeqEqual
  <2> QED
    BY <2>3, <2>7 DEF Prefix
<1>4. Prefix(r, Len(s) + 1) = r
  BY <1>2, SubSeqFull DEF Prefix
<1> QED
  BY <1>1, <1>3, <1>4

\* The live shapes of a sound history do not overlap.
LEMMA LiveDisjoint ==
  ASSUME NEW h, Sound(h)
  PROVE  Disjoint(Live(h))
<1>1. h \in Seq(Ops) /\ Len(h) \in Nat /\ DOMAIN h = 1..Len(h)
  BY LenProperties DEF Sound
<1>2. CASE Len(h) = 0
  BY <1>1, <1>2 DEF Disjoint, Live, ToSet
<1>3. CASE Len(h) # 0
  <2>1. Len(h) \in DOMAIN h
    BY <1>1, <1>3
  <2>2. Prefix(h, Len(h)) = h
    BY <1>1, SubSeqFull DEF Prefix
  <2>3. Disjoint(Live(Prefix(h, Len(h))))
    BY <2>1 DEF Sound, Apart
  <2> QED
    BY <2>2, <2>3
<1> QED
  BY <1>2, <1>3

\* An operation that fits is new, and so is what it deletes.
LEMMA FitsIsNew ==
  ASSUME NEW h, Sound(h), NEW op \in Ops, Fits(h, op)
  PROVE  /\ op \notin ToSet(h)
         /\ OpType[op] = "DELETE" => \A x \in ToSet(h) : AddSig[x] # AddSig[op]
<1>1. h \in Seq(Ops) /\ Owned(h) /\ ToSet(h) \in SUBSET Ops
  BY AppendSet DEF Sound
<1>2. OpType[op] = "ADD" \/ OpType[op] = "DELETE"
  <2>1. OpType[op] \in {"ADD", "DELETE"}
    BY OpsAssumption
  <2> QED
    BY <2>1
<1>3. ASSUME OpType[op] = "DELETE", NEW x \in ToSet(h) PROVE AddSig[x] # AddSig[op]
  <2>1. /\ AddSig[op] \in ToSet(h) /\ PubKey[AddSig[op]] = PubKey[op]
        /\ PubKey[x] = PubKey[op] => AddSig[x] # AddSig[op]
    BY <1>3 DEF Fits
  <2>2. AddSig[op] \in Ops
    BY <1>1, <2>1
  <2>3. AddSig[x] = AddSig[op] => PubKey[AddSig[x]] = PubKey[x]
    BY <1>1, <2>2, NamesAre
  <2> QED
    BY <2>1, <2>3
<1> QED
  BY <1>2, <1>3 DEF Fits

\* A sound history stays sound with an operation that fits.
LEMMA SoundAppend ==
  ASSUME NEW h, Sound(h), NEW op \in Ops, Fits(h, op)
  PROVE  Sound(Append(h, op))
<1>1. PICK r, n : r = Append(h, op) /\ n = Len(h)
  OBVIOUS
<1>2. /\ h \in Seq(Ops) /\ r \in Seq(Ops) /\ n \in Nat
      /\ DOMAIN h = 1..n /\ DOMAIN r = 1..(n + 1)
      /\ \A i \in 1..n : r[i] = h[i] /\ h[i] \in ToSet(h) /\ h[i] \in Ops
      /\ r[n + 1] = op
  <2>1. h \in Seq(Ops) /\ n \in Nat /\ DOMAIN h = 1..n /\ \A i \in 1..n : h[i] \in Ops
    BY <1>1, LenProperties, ElementOfSeq DEF Sound
  <2>2. r \in Seq(Ops) /\ Len(r) = n + 1 /\ r[n + 1] = op /\ \A i \in 1..n : r[i] = h[i]
    BY <1>1, <2>1, AppendProperties
  <2>3. DOMAIN r = 1..(n + 1)
    BY <2>2, LenProperties
  <2>4. \A i \in 1..n : h[i] \in ToSet(h)
    BY <2>1 DEF ToSet
  <2> QED
    BY <2>1, <2>2, <2>3, <2>4
<1>3. ToSet(r) = ToSet(h) \cup {op}
  BY <1>1, <1>2, AppendSet
<1>4. /\ op \notin ToSet(h)
      /\ OpType[op] = "DELETE" => \A x \in ToSet(h) : AddSig[x] # AddSig[op]
  BY FitsIsNew
<1>5. \A i \in 1..(n + 1) : i = n + 1 \/ i \in 1..n
  BY <1>2
<1>6. Once(r)
  <2> SUFFICES ASSUME NEW i \in 1..(n + 1), NEW j \in 1..(n + 1), r[i] = r[j]
               PROVE  i = j
    BY <1>2 DEF Once
  <2>1. CASE i = n + 1 /\ j \in 1..n
    BY <1>2, <1>4, <2>1
  <2>2. CASE j = n + 1 /\ i \in 1..n
    BY <1>2, <1>4, <2>2
  <2>3. CASE i \in 1..n /\ j \in 1..n
    BY <1>2, <2>3 DEF Sound, Once
  <2> QED
    BY <1>5, <2>1, <2>2, <2>3
<1>7. Owned(r)
  <2> SUFFICES ASSUME NEW i \in 1..(n + 1), OpType[r[i]] = "DELETE"
               PROVE  /\ \E j \in 1..(i - 1) : r[j] = AddSig[r[i]] /\ PubKey[r[j]] = PubKey[r[i]]
                      /\ \A j \in 1..(n + 1) : AddSig[r[j]] = AddSig[r[i]] => j = i
    BY <1>2 DEF Owned
  <2>1. CASE i = n + 1
    <3>1. AddSig[op] \in ToSet(h) /\ PubKey[AddSig[op]] = PubKey[op] /\ r[i] = op
      BY <1>2, <2>1 DEF Fits
    <3>2. PICK j \in 1..n : h[j] = AddSig[op]
      BY <1>2, <3>1 DEF ToSet
    <3>3. j \in 1..(i - 1) /\ r[j] = AddSig[r[i]] /\ PubKey[r[j]] = PubKey[r[i]]
      BY <1>2, <2>1, <3>1, <3>2
    <3>4. ASSUME NEW k \in 1..n PROVE AddSig[r[k]] # AddSig[r[i]]
      BY <1>2, <1>4, <3>1
    <3> QED
      BY <1>5, <2>1, <3>3, <3>4
  <2>2. CASE i \in 1..n
    <3>1. r[i] = h[i] /\ h[i] \in ToSet(h) /\ OpType[h[i]] = "DELETE"
      BY <1>2, <2>2
    <3>2. PICK j \in 1..(i - 1) : h[j] = AddSig[h[i]] /\ PubKey[h[j]] = PubKey[h[i]]
      BY <1>2, <2>2, <3>1 DEF Sound, Owned
    <3>3. j \in 1..n
      BY <1>2, <2>2
    <3>4. \E k \in 1..(i - 1) : r[k] = AddSig[r[i]] /\ PubKey[r[k]] = PubKey[r[i]]
      BY <1>2, <3>1, <3>2, <3>3
    <3>5. AddSig[op] # AddSig[h[i]]
      <4>1. AddSig[h[i]] \in Ops
        BY <1>2, <3>2, <3>3
      <4>2. AddSig[op] \in Ops => OpType[op] = "DELETE"
        <5>1. OpType[op] \in {"ADD", "DELETE"} /\ NoOp \notin Ops
          BY OpsAssumption
        <5>2. OpType[op] = "ADD" => AddSig[op] = NoOp
          BY SignedAssumption
        <5> QED
          BY <5>1, <5>2
      <4> QED
        BY <1>4, <3>1, <4>1, <4>2
    <3>6. ASSUME NEW k \in 1..n, AddSig[h[k]] = AddSig[h[i]] PROVE k = i
      BY <1>2, <2>2, <3>1, <3>6 DEF Sound, Owned
    <3>7. ASSUME NEW k \in 1..(n + 1), AddSig[r[k]] = AddSig[r[i]] PROVE k = i
      <4>1. CASE k = n + 1
        BY <1>2, <3>1, <3>5, <3>7, <4>1
      <4>2. CASE k \in 1..n
        BY <1>2, <3>1, <3>6, <3>7, <4>2
      <4> QED
        BY <1>5, <4>1, <4>2
    <3> QED
      BY <3>4, <3>7
  <2> QED
    BY <1>5, <2>1, <2>2
<1>8. Disjoint(Live(r))
  <2>1. Disjoint(Live(h))
    BY LiveDisjoint
  <2>2. OpType[op] = "ADD" \/ OpType[op] = "DELETE"
    <3>1. OpType[op] \in {"ADD", "DELETE"}
      BY OpsAssumption
    <3> QED
      BY <3>1
  <2>3. CASE OpType[op] = "ADD"
    <3>1. Live(r) = Live(h) \cup {op}
      BY <1>1, <2>3, LiveAppend
    <3>2. \A s \in Live(h) : PubKey[s] # PubKey[op] => Pixels[s] \cap Pixels[op] = {}
      BY <2>3 DEF Fits, Live
    <3> QED
      BY <2>1, <3>1, <3>2 DEF Disjoint
  <2>4. CASE OpType[op] = "DELETE"
    <3>1. Live(r) \subseteq Live(h)
      BY <1>1, <2>4, LiveAppend
    <3> QED
      BY <2>1, <3>1 DEF Disjoint
  <2> QED
    BY <2>2, <2>3, <2>4
<1>9. Apart(r)
  <2> SUFFICES ASSUME NEW i \in 1..(n + 1) PROVE Disjoint(Live(Prefix(r, i)))
    BY <1>2 DEF Apart
  <2>1. CASE i = n + 1
    <3>1. Prefix(r, n + 1) = r
      BY <1>1, <1>2, PrefixAppend
    <3> QED
      BY <1>8, <2>1, <3>1
  <2>2. CASE i \in 1..n
    <3>1. Prefix(r, i) = Prefix(h, i)
      <4>1. i \in 0..Len(h)
        BY <1>1, <1>2, <2>2
      <4> QED
        BY <1>1, <1>2, <4>1, PrefixAppend
    <3>2. Disjoint(Live(Prefix(h, i)))
      BY <1>2, <2>2 DEF Sound, Apart
    <3> QED
      BY <3>1, <3>2
  <2> QED
    BY <1>5, <2>1, <2>2
<1> QED
  BY <1>1, <1>2, <1>3, <1>6, <1>7, <1>9 DEF Sound, Fits

-----------------------------------------------------------------------------
(* The ink of the live shapes                                              *)

LiveOf(h, key) == {op \in Live(h) : PubKey[op] = key}

\* What CalculateInk takes off is the cost of the live shapes.
Costed(h) == \A key \in Keys : DrawnIn(h, key) = SumOf(Cost, LiveOf(h, key))

\* The live shapes of a key are finitely many.
LEMMA LiveOfType ==
  ASSUME NEW h \in Seq(Ops), NEW key
  PROVE  LiveOf(h, key) \in SUBSET Ops /\ IsFiniteSet(LiveOf(h, key))
<1> DEFINE P == {s \in Seq(Ops) : IsFiniteSet(ToSet(s))}
<1>1. <<>> \in P
  <2>1. ToSet(<<>>) = {} /\ <<>> \in Seq(Ops)
    BY EmptySeq DEF ToSet
  <2> QED
    BY <2>1, FS_EmptySet
<1>2. ASSUME NEW s \in Seq(Ops), NEW op \in Ops, s \in P PROVE Append(s, op) \in P
  <2>1. Append(s, op) \in Seq(Ops) /\ ToSet(Append(s, op)) = ToSet(s) \cup {op}
    BY AppendProperties, AppendSet
  <2>2. IsFiniteSet(ToSet(s) \cup {op})
    BY <1>2, FS_AddElement
  <2> QED
    BY <2>1, <2>2
<1> HIDE DEF P
<1>3. h \in P
  BY <1>1, <1>2, SeqInduction
<1>4. IsFiniteSet(ToSet(h)) /\ ToSet(h) \in SUBSET Ops
  <2>1. ToSet(h) = {h[i] : i \in DOMAIN h} /\ \A i \in DOMAIN h : h[i] \in Ops
    BY LenProperties, ElementOfSeq DEF ToSet
  <2> QED
    BY <1>3, <2>1 DEF P
<1>5. LiveOf(h, key) \in SUBSET ToSet(h)
  BY DEF LiveOf, Live
<1> QED
  BY <1>4, <1>5, FS_Subset

\* An operation that fits changes the account by what it changes the live
\* shapes.
LEMMA CostedAppend ==
  ASSUME NEW h, Sound(h), NEW op \in Ops, Fits(h, op), Costed(h)
  PROVE  Costed(Append(h, op))
<1> SUFFICES ASSUME NEW key \in Keys
             PROVE  DrawnIn(Append(h, op), key) = SumOf(Cost, LiveOf(Append(h, op), key))
  BY DEF Costed
<1>1. h \in Seq(Ops) /\ op \in WellFormed
  BY DEF Sound, Fits
<1>2. PICK S : S = LiveOf(h, key) /\ S \in SUBSET Ops /\ IsFiniteSet(S)
  BY <1>1, LiveOfType
<1>3. DrawnIn(h, key) = SumOf(Cost, S) /\ DrawnIn(h, key) \in Int
  BY <1>1, <1>2, DrawnRules DEF Costed
<1>4. Cost \in [Ops -> Nat] /\ Cost[op] \in Nat
  BY InkAssumption
<1>5. DrawnIn(Append(h, op), key)
        = IF PubKey[op] # key THEN DrawnIn(h, key)
          ELSE IF OpType[op] = "ADD" THEN DrawnIn(h, key) + Cost[op]
          ELSE DrawnIn(h, key) - Cost[op]
  BY <1>1, DrawnRules
<1>6. OpType[op] = "ADD" \/ OpType[op] = "DELETE"
  <2>1. OpType[op] \in {"ADD", "DELETE"}
    BY OpsAssumption
  <2> QED
    BY <2>1
<1>7. CASE OpType[op] = "ADD"
  <2>1. Live(Append(h, op)) = Live(h) \cup {op} /\ op \notin Live(h)
    BY <1>7, LiveAppend
  <2>2. CASE PubKey[op] # key
    <3>1. LiveOf(Append(h, op), key) = S
      BY <1>2, <2>1, <2>2 DEF LiveOf
    <3> QED
      BY <1>3, <1>5, <2>2, <3>1
  <2>3. CASE PubKey[op] = key
    <3>1. LiveOf(Append(h, op), key) = S \cup {op} /\ op \notin S
      BY <1>2, <2>1, <2>3 DEF LiveOf
    <3>2. SumOf(Cost, S \cup {op}) = Cost[op] + SumOf(Cost, S)
      BY <1>2, <1>4, <3>1, SumAdd
    <3> QED
      BY <1>3, <1>4, <1>5, <1>7, <2>3, <3>1, <3>2
  <2> QED
    BY <2>2, <2>3
<1>8. CASE OpType[op] = "DELETE"
  <2>1. PICK x : /\ x = AddSig[op] /\ x \in Live(h)
                 /\ Live(Append(h, op)) = Live(h) \ {x}
    BY <1>8, LiveAppend
  <2>2. PubKey[x] = PubKey[op] /\ x \in ToSet(h)
    BY <1>8, <2>1 DEF Fits
  <2>3. x \in Ops
    BY <1>1, <2>2, LenProperties, ElementOfSeq DEF ToSet
  <2>4. Cost[op] = Cost[x] /\ Cost[x] \in Nat
    BY <1>4, <1>8, <2>1, <2>3, SignedAssumption
  <2>5. CASE PubKey[op] # key
    <3>1. LiveOf(Append(h, op), key) = S
      BY <1>2, <2>1, <2>2, <2>5 DEF LiveOf
    <3> QED
      BY <1>3, <1>5, <2>5, <3>1
  <2>6. CASE PubKey[op] = key
    <3>1. LiveOf(Append(h, op), key) = S \ {x} /\ x \in S
      BY <1>2, <2>1, <2>2, <2>6 DEF LiveOf
    <3>2. SumOf(Cost, S) = Cost[x] + SumOf(Cost, S \ {x})
      BY <1>2, <1>4, <3>1, SumRemove
    <3>3. SumOf(Cost, S \ {x}) \in Nat
      BY <1>2, <1>4, SumType, FS_Subset
    <3>4. DrawnIn(Append(h, op), key) = DrawnIn(h, key) - Cost[op]
      BY <1>5, <1>8, <2>6
    <3> QED
      BY <1>3, <2>4, <3>1, <3>2, <3>3, <3>4
  <2> QED
    BY <2>5, <2>6
<1> QED
  BY <1>6, <1>7, <1>8

\* What is left after the division by w is never more.
LEMMA ModLess ==
  ASSUME NEW x \in Nat, NEW w \in Nat \ {0}
  PROVE  x % w \in Nat /\ x % w <= x /\ (x < w => x % w = x)
OBVIOUS

-----------------------------------------------------------------------------
(* The operations of one block                                             *)

\* Each operation is accepted after those before it.
AllAccepted(ops, c) ==
  \A i \in DOMAIN ops : Accepts(ops[i], Append(c, TestBlock(Prefix(ops, i - 1))))

\* The block that ValidateOps tests with is a block.
LEMMA TestBlockType ==
  ASSUME NEW ops \in Seq(Ops)
  PROVE  TestBlock(ops) \in ChainBlocks /\ TestBlock(ops).OpHistory = ops
                                        /\ TestBlock(ops).MinerPubKey = Nobody
BY DEF TestBlock, ChainBlocks

\* The last operation is accepted after all the others.
LEMMA AllAcceptedAppend ==
  ASSUME NEW ops \in Seq(Ops), NEW op \in Ops, NEW c
  PROVE  AllAccepted(Append(ops, op), c)
           <=> AllAccepted(ops, c) /\ Accepts(op, Append(c, TestBlock(ops)))
<1>1. PICK r, n : r = Append(ops, op) /\ n = Len(ops)
  OBVIOUS
<1>2. /\ n \in Nat /\ DOMAIN ops = 1..n /\ DOMAIN r = 1..(n + 1)
      /\ r[n + 1] = op /\ \A i \in 1..n : r[i] = ops[i]
  <2>1. r \in Seq(Ops) /\ Len(r) = n + 1 /\ r[n + 1] = op /\ \A i \in 1..n : r[i] = ops[i]
    BY <1>1, AppendProperties
  <2>2. DOMAIN r = 1..(n + 1)
    BY <2>1, LenProperties
  <2> QED
    BY <1>1, <2>1, <2>2, LenProperties
<1>3. \A k \in 0..n : Prefix(r, k) = Prefix(ops, k)
  BY <1>1, PrefixAppend
<1>4. Prefix(ops, n) = ops
  BY <1>1, SubSeqFull DEF Prefix
<1>5. Prefix(r, (n + 1) - 1) = ops
  <2>1. (n + 1) - 1 = n /\ n \in 0..n
    BY <1>2
  <2> QED
    BY <1>3, <1>4, <2>1
<1>6. ASSUME NEW i \in 1..n
      PROVE  Accepts(r[i], Append(c, TestBlock(Prefix(r, i - 1))))
               <=> Accepts(ops[i], Append(c, TestBlock(Prefix(ops, i - 1))))
  <2>1. i - 1 \in 0..n
    BY <1>2
  <2>2. Prefix(r, i - 1) = Prefix(ops, i - 1)
    BY <1>3, <2>1
  <2> QED
    BY <1>2, <2>2
<1>7. \A i \in 1..(n + 1) : i = n + 1 \/ i \in 1..n
  BY <1>2
<1>8. n + 1 \in 1..(n + 1) /\ \A i \in 1..n : i \in 1..(n + 1)
  BY <1>2
<1>9. AllAccepted(r, c) <=>
        \A i \in 1..(n + 1) : Accepts(r[i], Append(c, TestBlock(Prefix(r, i - 1))))
  BY <1>2 DEF AllAccepted
<1>10. AllAccepted(ops, c) <=>
        \A i \in 1..n : Accepts(ops[i], Append(c, TestBlock(Prefix(ops, i - 1))))
  BY <1>2 DEF AllAccepted
<1>11. Accepts(r[n + 1], Append(c, TestBlock(Prefix(r, (n + 1) - 1))))
        <=> Accepts(op, Append(c, TestBlock(ops)))
  BY <1>2, <1>5
<1>12. AllAccepted(r, c) <=> AllAccepted(ops, c) /\ Accepts(op, Append(c, TestBlock(ops)))
  BY <1>6, <1>7, <1>8, <1>9, <1>10, <1>11
<1> QED
  BY <1>1, <1>12

\* Nothing is asked of no operations.
LEMMA NoneToAccept ==
  ASSUME NEW c
  PROVE  AllAccepted(<<>>, c)
<1>1. DOMAIN <<>> = {}
  OBVIOUS
<1> QED
  BY <1>1 DEF AllAccepted

\* What ValidateOps does with one operation more.
LEMMA ValidateRules ==
  ASSUME NEW c
  PROVE  /\ ValidateOps(<<>>, c) = <<>>
         /\ \A ops \in Seq(Ops) : ValidateOps(ops, c) \in Seq(Ops)
         /\ \A ops \in Seq(Ops), op \in Ops :
              ValidateOps(Append(ops, op), c)
                = IF Accepts(op, Append(c, TestBlock(ValidateOps(ops, c))))
                  THEN Append(ValidateOps(ops, c), op) ELSE ValidateOps(ops, c)
<1>1. PICK V, z, F : V = Seq(Ops) /\ z = <<>> /\ F = KeepStep(c)
  OBVIOUS
<1>2. z \in V /\ IsStep(F, V, Ops)
  BY <1>1, EmptySeq, ValidateIs
<1>3. FoldOf(F, z, <<>>) = z
  BY ONLY <1>2, FoldOfEmpty
<1>4. \A ops \in Seq(Ops) : FoldOf(F, z, ops) \in V
  BY ONLY <1>2, FoldOfType
<1>5. \A ops \in Seq(Ops), op \in Ops : FoldOf(F, z, Append(ops, op)) = F[FoldOf(F, z, ops)][op]
  BY ONLY <1>2, FoldOfAppend
<1>6. \A ops \in Seq(Ops) : ValidateOps(ops, c) = FoldOf(F, z, ops)
  BY <1>1, ValidateIs
<1>7. \A kept \in Seq(Ops), op \in Ops :
        F[kept][op] = IF Accepts(op, Append(c, TestBlock(kept))) THEN Append(kept, op) ELSE kept
  BY <1>1 DEF KeepStep
<1>8. ValidateOps(<<>>, c) = <<>>
  <2>1. <<>> \in Seq(Ops)
    BY EmptySeq
  <2>2. ValidateOps(<<>>, c) = FoldOf(F, z, <<>>)
    BY <1>6, <2>1
  <2> QED
    BY <1>1, <1>3, <2>2
<1>9. \A ops \in Seq(Ops) : ValidateOps(ops, c) \in Seq(Ops)
  BY <1>1, <1>4, <1>6
<1>10. ASSUME NEW ops \in Seq(Ops), NEW op \in Ops
       PROVE  ValidateOps(Append(ops, op), c)
                = IF Accepts(op, Append(c, TestBlock(ValidateOps(ops, c))))
                  THEN Append(ValidateOps(ops, c), op) ELSE ValidateOps(ops, c)
  <2>1. Append(ops, op) \in Seq(Ops)
    BY AppendProperties
  <2>2. ValidateOps(Append(ops, op), c) = F[ValidateOps(ops, c)][op]
    BY <1>5, <1>6, <2>1
  <2>3. PICK kept \in Seq(Ops) : kept = ValidateOps(ops, c)
    BY <1>9
  <2> QED
    BY <1>7, <2>2, <2>3
<1> QED
  BY <1>8, <1>9, <1>10

\* What ValidateOps keeps is accepted; if it is as long as what it was
\* given, it is that.
LEMMA ValidateKeeps ==
  ASSUME NEW c, NEW ops \in Seq(Ops)
  PROVE  /\ ValidateOps(ops, c) \in Seq(Ops)
         /\ AllAccepted(ValidateOps(ops, c), c)
         /\ Len(ValidateOps(ops, c)) <= Len(ops)
         /\ Len(ValidateOps(ops, c)) = Len(ops) => ValidateOps(ops, c) = ops
<1> DEFINE Right(s) == /\ AllAccepted(ValidateOps(s, c), c)
                       /\ Len(ValidateOps(s, c)) <= Len(s)
                       /\ Len(ValidateOps(s, c)) = Len(s) => ValidateOps(s, c) = s
           P == {s \in Seq(Ops) : Right(s)}
<1>1. <<>> \in P
  <2>1. ValidateOps(<<>>, c) = <<>> /\ Len(<<>>) = 0 /\ <<>> \in Seq(Ops)
    BY ValidateRules, EmptySeq
  <2> QED
    BY <2>1, NoneToAccept
<1>2. ASSUME NEW s \in Seq(Ops), NEW op \in Ops, s \in P PROVE Append(s, op) \in P
  <2>1. PICK v \in Seq(Ops) : v = ValidateOps(s, c)
    BY ValidateRules
  <2>2. AllAccepted(v, c) /\ Len(v) <= Len(s) /\ (Len(v) = Len(s) => v = s)
    BY <1>2, <2>1
  <2>3. PICK t, u : t = Append(s, op) /\ u = Append(v, op)
    OBVIOUS
  <2>4. /\ t \in Seq(Ops) /\ Len(t) = Len(s) + 1 /\ Len(u) = Len(v) + 1
        /\ Len(s) \in Nat /\ Len(v) \in Nat
    BY <2>3, AppendProperties, LenProperties
  <2>5. ValidateOps(t, c) = IF Accepts(op, Append(c, TestBlock(v))) THEN u ELSE v
    BY <2>1, <2>3, ValidateRules
  <2>6. Right(t)
    <3>1. CASE Accepts(op, Append(c, TestBlock(v)))
      <4>1. AllAccepted(u, c)
        BY <2>2, <2>3, <3>1, AllAcceptedAppend
      <4>2. ValidateOps(t, c) = u
        BY <2>5, <3>1
      <4>3. Len(u) = Len(t) => u = t
        BY <2>2, <2>3, <2>4
      <4>4. Len(u) <= Len(t)
        BY <2>2, <2>4
      <4> QED
        BY <4>1, <4>2, <4>3, <4>4
    <3>2. CASE ~Accepts(op, Append(c, TestBlock(v)))
      <4>1. ValidateOps(t, c) = v
        BY <2>5, <3>2
      <4>2. Len(v) <= Len(t) /\ Len(v) # Len(t)
        BY <2>2, <2>4
      <4> QED
        BY <2>2, <4>1, <4>2
    <3> QED
      BY <3>1, <3>2
  <2> QED
    BY <2>3, <2>4, <2>6
<1> HIDE DEF P
<1>3. \A s \in Seq(Ops) : s \in P
  BY <1>1, <1>2, SeqInduction
<1>4. Right(ops)
  BY <1>3 DEF P
<1> QED
  BY <1>4, ValidateRules

\* ValidateOps keeps all of what is accepted one by one.
LEMMA ValidateAccepted ==
  ASSUME NEW c, NEW ops \in Seq(Ops), AllAccepted(ops, c)
  PROVE  ValidateOps(ops, c) = ops
<1> DEFINE P == {s \in Seq(Ops) : AllAccepted(s, c) => ValidateOps(s, c) = s}
<1>1. <<>> \in P
  BY ValidateRules, EmptySeq
<1>2. ASSUME NEW s \in Seq(Ops), NEW op \in Ops, s \in P PROVE Append(s, op) \in P
  <2>1. PICK t : t = Append(s, op) /\ t \in Seq(Ops)
    BY AppendProperties
  <2>2. AllAccepted(t, c) <=> AllAccepted(s, c) /\ Accepts(op, Append(c, TestBlock(s)))
    BY <2>1, AllAcceptedAppend
  <2>3. ValidateOps(t, c)
          = IF Accepts(op, Append(c, TestBlock(ValidateOps(s, c))))
            THEN Append(ValidateOps(s, c), op) ELSE ValidateOps(s, c)
    BY <2>1, ValidateRules
  <2>4. AllAccepted(t, c) => ValidateOps(t, c) = t
    BY <1>2, <2>1, <2>2, <2>3
  <2> QED
    BY <2>1, <2>4
<1> HIDE DEF P
<1>3. ops \in P
  BY <1>1, <1>2, SeqInduction
<1> QED
  BY <1>3 DEF P

-----------------------------------------------------------------------------
(* A block on top of a chain                                               *)

\* What holds of a history when the keys were paid as the chain c says.
Covered(h, c) ==
  /\ Sound(h)
  /\ Costed(h)
  /\ \A key \in Keys : DrawnIn(h, key) <= Mined(c, key)

\* Appending to the second of two sequences appends to both.
LEMMA ConcatAppend ==
  ASSUME NEW X, NEW s \in Seq(X), NEW t \in Seq(X), NEW x \in X
  PROVE  s \o Append(t, x) = Append(s \o t, x)
<1>1. <<x>> \in Seq(X) /\ s \o t \in Seq(X)
  BY ConcatProperties
<1>2. Append(t, x) = t \o <<x>> /\ Append(s \o t, x) = (s \o t) \o <<x>>
  BY <1>1, AppendIsConcat
<1>3. (s \o t) \o <<x>> = s \o (t \o <<x>>)
  BY <1>1, ConcatAssociative
<1> QED
  BY <1>2, <1>3

\* An accepted operation keeps the history covered: the ink the arithmetic of
\* uint32 leaves is never more than there is.
LEMMA CoveredAppend ==
  ASSUME NEW c \in Seq(ChainBlocks), NEW ops \in Seq(Ops), NEW op \in Ops,
         NEW h \in Seq(Ops), h = History(c) \o ops,
         Covered(h, c), Accepts(op, Append(c, TestBlock(ops)))
  PROVE  Covered(Append(h, op), c)
<1>0. PICK block \in ChainBlocks : /\ block = TestBlock(ops)
                                  /\ block.OpHistory = ops /\ block.MinerPubKey = Nobody
  BY TestBlockType
<1>1. PICK d : d = Append(c, block) /\ d = Append(c, TestBlock(ops))
  BY <1>0
<1>2. d \in Seq(ChainBlocks) /\ History(d) = h
  BY <1>0, <1>1, AppendProperties, HistoryAppend
<1>3. ASSUME NEW key \in Keys PROVE Mined(d, key) = Mined(c, key)
  <2>1. key # Nobody
    BY OpsAssumption
  <2>2. Mined(Append(c, block), key)
          = IF block.MinerPubKey = key THEN Mined(c, key) + Reward(block) ELSE Mined(c, key)
    BY MinedRules
  <2> QED
    BY <1>0, <1>1, <2>1, <2>2
<1>4. Fits(h, op) /\ (OpType[op] = "ADD" => Cost[op] <= CalculateInk(d, PubKey[op]))
  BY <1>1, <1>2, AcceptsMeans
<1>5. Sound(Append(h, op)) /\ Costed(Append(h, op))
  BY <1>4, SoundAppend, CostedAppend DEF Covered
<1>6. ASSUME NEW key \in Keys PROVE DrawnIn(Append(h, op), key) <= Mined(c, key)
  <2>1. PICK drawn \in Int : drawn = DrawnIn(h, key)
    BY DrawnRules
  <2>2. PICK mined \in Nat : mined = Mined(c, key)
    BY MinedRules
  <2>3. drawn <= mined
    BY <2>1, <2>2 DEF Covered
  <2>4. Cost[op] \in Nat
    BY InkAssumption
  <2>5. DrawnIn(Append(h, op), key) = IF PubKey[op] # key \/ op \notin WellFormed THEN drawn
                                      ELSE IF OpType[op] = "ADD" THEN drawn + Cost[op]
                                      ELSE drawn - Cost[op]
    BY <2>1, DrawnRules
  <2>6. PubKey[op] = key /\ OpType[op] = "ADD" => drawn + Cost[op] <= mined
    <3> SUFFICES ASSUME PubKey[op] = key, OpType[op] = "ADD"
                 PROVE  drawn + Cost[op] <= mined
      OBVIOUS
    <3>1. CalculateInk(d, key) = (mined - drawn) % Wrap
      <4>1. Mined(d, key) = mined
        BY <1>3, <2>2
      <4>2. Drawn(d, key) = drawn
        BY <1>2, <2>1, DrawnRules
      <4> QED
        BY <4>1, <4>2 DEF CalculateInk
    <3>2. mined - drawn \in Nat /\ Wrap \in Nat \ {0}
      BY <2>3, InkAssumption
    <3>3. PICK left \in Nat : left = (mined - drawn) % Wrap /\ left <= mined - drawn
      BY <3>2, ModLess
    <3>4. Cost[op] <= left
      BY <1>4, <3>1, <3>3
    <3> QED
      BY <2>4, <3>3, <3>4
  <2> QED
    BY <2>2, <2>3, <2>4, <2>5, <2>6
<1> QED
  BY <1>5, <1>6 DEF Covered

\* So does a block of them.
LEMMA CoveredBlock ==
  ASSUME NEW c \in Seq(ChainBlocks), Covered(History(c), c),
         NEW ops \in Seq(Ops), AllAccepted(ops, c)
  PROVE  Covered(History(c) \o ops, c)
<1> DEFINE P == {s \in Seq(Ops) : AllAccepted(s, c) => Covered(History(c) \o s, c)}
<1>1. History(c) \in Seq(Ops)
  BY HistoryType
<1>2. <<>> \in P
  <2>1. History(c) \o <<>> = History(c) /\ <<>> \in Seq(Ops)
    BY <1>1, ConcatEmptySeq, EmptySeq
  <2> QED
    BY <2>1
<1>3. ASSUME NEW s \in Seq(Ops), NEW op \in Ops, s \in P PROVE Append(s, op) \in P
  <2> SUFFICES ASSUME AllAccepted(Append(s, op), c)
               PROVE  Covered(History(c) \o Append(s, op), c)
    BY AppendProperties
  <2>1. AllAccepted(s, c) /\ Accepts(op, Append(c, TestBlock(s)))
    BY AllAcceptedAppend
  <2>2. PICK h \in Seq(Ops) : h = History(c) \o s
    BY <1>1, ConcatProperties
  <2>3. Covered(h, c)
    BY <1>3, <2>1, <2>2
  <2>4. Covered(Append(h, op), c)
    BY <2>1, <2>2, <2>3, CoveredAppend
  <2>5. History(c) \o Append(s, op) = Append(h, op)
    BY <1>1, <2>2, ConcatAppend
  <2> QED
    BY <2>4, <2>5
<1> HIDE DEF P
<1>4. ops \in P
  BY <1>2, <1>3, SeqInduction
<1> QED
  BY <1>4 DEF P

\* The most that a block pays.
MaxReward == IF InkPerOpBlock >= InkPerNoOpBlock THEN InkPerOpBlock ELSE InkPerNoOpBlock

\* The ink of the keys after each block, from what the blocks before it paid.
PaidTo(before, upTo) ==
  \A key \in Keys :
    /\ DrawnIn(History(upTo), key) = SumOf(Cost, LiveOf(History(upTo), key))
    /\ DrawnIn(History(upTo), key) <= Mined(before, key)
    /\ Mined(before, key) <= Mined(upTo, key)
    /\ Mined(upTo, key) <= (Len(upTo) - 1) * MaxReward

Paid(c) == \A n \in 1..Len(c) : PaidTo(Prefix(c, n - 1), Prefix(c, n))

GoodChain(c) ==
  /\ c \in Seq(ChainBlocks)
  /\ c # <<>>
  /\ Sound(History(c))
  /\ Paid(c)

\* The account at the end of a good chain.
LEMMA GoodChainNow ==
  ASSUME NEW c, GoodChain(c)
  PROVE  /\ Covered(History(c), c)
         /\ \A key \in Keys : Mined(c, key) <= (Len(c) - 1) * MaxReward
<1>1. c \in Seq(ChainBlocks) /\ Len(c) \in Nat \ {0}
  BY EmptySeq DEF GoodChain
<1>2. Len(c) \in 1..Len(c)
  BY <1>1
<1>3. Prefix(c, Len(c)) = c
  BY <1>1, SubSeqFull DEF Prefix
<1>4. PICK b : b = Prefix(c, Len(c) - 1) /\ b \in Seq(ChainBlocks)
  <2>1. \A i \in 1..(Len(c) - 1) : c[i] \in ChainBlocks
    BY <1>1, ElementOfSeq
  <2>2. PICK m \in Int : m = Len(c) - 1
    BY <1>1
  <2>3. SubSeq(c, 1, m) \in Seq(ChainBlocks)
    BY <2>1, <2>2, SubSeqProperties
  <2> QED
    BY <2>2, <2>3 DEF Prefix
<1>5. PaidTo(b, c)
  BY <1>2, <1>3, <1>4 DEF GoodChain, Paid
<1>6. Costed(History(c))
  BY <1>5 DEF PaidTo, Costed
<1>7. ASSUME NEW key \in Keys PROVE DrawnIn(History(c), key) <= Mined(c, key)
  <2>1. DrawnIn(History(c), key) \in Int /\ Mined(b, key) \in Nat /\ Mined(c, key) \in Nat
    BY <1>1, <1>4, HistoryType, DrawnRules, MinedRules
  <2>2. DrawnIn(History(c), key) <= Mined(b, key) /\ Mined(b, key) <= Mined(c, key)
    BY <1>5 DEF PaidTo
  <2> QED
    BY <2>1, <2>2
<1> QED
  BY <1>5, <1>6, <1>7 DEF Covered, GoodChain, PaidTo

\* A good chain stays good with a block whose operations are accepted.
LEMMA GoodAppend ==
  ASSUME NEW c, GoodChain(c), NEW block \in ChainBlocks, AllAccepted(block.OpHistory, c)
  PROVE  GoodChain(Append(c, block))
<1>1. PICK d, n : d = Append(c, block) /\ n = Len(c)
  OBVIOUS
<1>2. PICK ops \in Seq(Ops) : ops = block.OpHistory
  BY DEF ChainBlocks
<1>3. /\ c \in Seq(ChainBlocks) /\ d \in Seq(ChainBlocks) /\ n \in Nat \ {0} /\ Len(d) = n + 1
      /\ d # <<>>
  BY <1>1, AppendProperties, EmptySeq DEF GoodChain
<1>4. History(d) = History(c) \o ops /\ History(d) \in Seq(Ops)
  BY <1>1, <1>2, <1>3, HistoryAppend, HistoryType
<1>5. Covered(History(d), c)
  BY <1>2, <1>3, <1>4, CoveredBlock, GoodChainNow
<1>6. PaidTo(c, d)
  <2> SUFFICES ASSUME NEW key \in Keys
               PROVE  /\ DrawnIn(History(d), key) = SumOf(Cost, LiveOf(History(d), key))
                      /\ DrawnIn(History(d), key) <= Mined(c, key)
                      /\ Mined(c, key) <= Mined(d, key)
                      /\ Mined(d, key) <= (Len(d) - 1) * MaxReward
    BY DEF PaidTo
  <2>1. Mined(c, key) \in Nat /\ Mined(c, key) <= (n - 1) * MaxReward
    BY <1>1, <1>3, MinedRules, GoodChainNow
  <2>2. Mined(d, key) = IF block.MinerPubKey = key THEN Mined(c, key) + Reward(block) ELSE Mined(c, key)
    BY <1>1, <1>3, MinedRules
  <2>3. Reward(block) \in Nat /\ MaxReward \in Nat /\ Reward(block) <= MaxReward
    BY InkAssumption DEF Reward, MaxReward
  <2>4. Mined(c, key) <= Mined(d, key)
    BY <2>1, <2>2, <2>3
  <2>5. (Len(d) - 1) * MaxReward = (n - 1) * MaxReward + MaxReward
    BY <1>3, <2>3
  <2>6. Mined(d, key) <= (Len(d) - 1) * MaxReward
    BY <1>3, <2>1, <2>2, <2>3, <2>5
  <2> QED
    BY <1>5, <2>4, <2>6 DEF Covered, Costed
<1>7. ASSUME NEW i \in 1..(n + 1) PROVE PaidTo(Prefix(d, i - 1), Prefix(d, i))
  <2>1. \A k \in 0..n : Prefix(d, k) = Prefix(c, k)
    BY <1>1, <1>3, PrefixAppend
  <2>2. CASE i = n + 1
    <3>1. Prefix(d, n) = c
      <4>1. n \in 0..n /\ Prefix(c, n) = c
        BY <1>1, <1>3, SubSeqFull DEF Prefix
      <4> QED
        BY <2>1, <4>1
    <3>2. Prefix(d, n + 1) = d
      BY <1>3, SubSeqFull DEF Prefix
    <3>3. i - 1 = n
      BY <1>3, <2>2
    <3> QED
      BY <1>6, <2>2, <3>1, <3>2, <3>3
  <2>3. CASE i \in 1..n
    <3>1. i \in 0..n /\ i - 1 \in 0..n
      BY <1>3, <2>3
    <3>2. PaidTo(Prefix(c, i - 1), Prefix(c, i))
      BY <1>1, <2>3 DEF GoodChain, Paid
    <3> QED
      BY <2>1, <3>1, <3>2
  <2> QED
    BY <1>3, <2>2, <2>3
<1> QED
  BY <1>1, <1>3, <1>5, <1>7 DEF GoodChain, Paid, Covered

-----------------------------------------------------------------------------
(* The invariant                                                           *)

\* Inductive: the chain is good, and what a miner solves on its end is
\* accepted there.  The properties say nothing of the job's operations one by
\* one, nor of the keys' ink before a block, and are not inductive without it.
IInv ==
  /\ GoodChain(chain)
  /\ Len(chain) <= MaxBlocks \/ Len(chain) = 1
  /\ workingSet \in Seq(Ops)
  /\ sent \subseteq 1..Len(chain)
  /\ jobOps \in Seq(Ops)
  /\ jobBase \in 1..Len(chain)
  /\ jobBase = Len(chain) => AllAccepted(jobOps, chain)

\* A good chain holds the dummy block at least.
LEMMA GoodChainLen ==
  ASSUME NEW c, GoodChain(c)
  PROVE  Len(c) \in Nat /\ Len(c) >= 1
BY EmptySeq DEF GoodChain

\* The dummy block alone is a good chain.
LEMMA InitIInv == Init => IInv
<1> SUFFICES ASSUME Init PROVE IInv
  OBVIOUS
<1>1. <<>> \in Seq(Ops) /\ <<>> \in Seq(ChainBlocks)
  BY EmptySeq
<1>2. PICK block \in ChainBlocks : block = TestBlock(<<>>) /\ block.OpHistory = <<>>
                                                         /\ block.MinerPubKey = Nobody
  BY <1>1, TestBlockType
<1>3. PICK c : c = chain
  OBVIOUS
<1>4. c = Append(<<>>, block) /\ c = <<block>>
  BY <1>2, <1>3 DEF Init
<1>5. c \in Seq(ChainBlocks) /\ c # <<>> /\ Len(c) = 1
  BY <1>4
<1>6. History(<<>>) = <<>> /\ History(c) = <<>>
  <2>1. History(<<>>) = <<>>
    <3>1. Histories(<<>>) = <<>>
      <4>1. Histories(<<>>) \in Seq(Seq(Ops)) /\ Len(Histories(<<>>)) = 0
        BY <1>1, EmptySeq, HistoriesType
      <4> QED
        BY <4>1, EmptySeq
    <3> QED
      BY <3>1, FlattenEmpty DEF History, Histories
  <2>2. History(Append(<<>>, block)) = History(<<>>) \o block.OpHistory
    BY <1>1, HistoryAppend
  <2>3. <<>> \o <<>> = <<>>
    BY <1>1, ConcatEmptySeq
  <2> QED
    BY <1>2, <1>4, <2>1, <2>2, <2>3
<1>7. ToSet(<<>>) = {} /\ DOMAIN <<>> = {}
  BY DEF ToSet
<1>8. Sound(<<>>)
  BY <1>1, <1>7 DEF Sound, Once, Owned, Apart
<1>9. \A key : LiveOf(<<>>, key) = {}
  BY <1>7 DEF LiveOf, Live
<1>10. ASSUME NEW key \in Keys
       PROVE  /\ DrawnIn(<<>>, key) = 0 /\ SumOf(Cost, LiveOf(<<>>, key)) = 0
              /\ Mined(<<>>, key) = 0 /\ Mined(c, key) = 0
  <2>1. SumOf(Cost, {}) = 0
    BY InkAssumption, SumEmpty
  <2>2. key # Nobody
    BY OpsAssumption
  <2>3. Mined(Append(<<>>, block), key)
          = IF block.MinerPubKey = key THEN Mined(<<>>, key) + Reward(block) ELSE Mined(<<>>, key)
    BY <1>1, MinedRules
  <2> QED
    BY <1>2, <1>4, <1>9, <2>1, <2>2, <2>3, DrawnRules, MinedRules
<1>11. Prefix(c, 0) = <<>> /\ Prefix(c, 1) = c
  BY <1>5, SubSeqEmpty, SubSeqFull DEF Prefix
<1>12. PaidTo(<<>>, c)
  <2>1. (Len(c) - 1) * MaxReward = 0
    BY <1>5, InkAssumption DEF MaxReward
  <2> QED
    BY <1>6, <1>10, <2>1 DEF PaidTo
<1>13. Paid(c)
  <2> SUFFICES ASSUME NEW n \in 1..1 PROVE PaidTo(Prefix(c, n - 1), Prefix(c, n))
    BY <1>5 DEF Paid
  <2>1. n = 1 /\ n - 1 = 0
    OBVIOUS
  <2> QED
    BY <1>11, <1>12, <2>1
<1>14. GoodChain(chain)
  BY <1>3, <1>5, <1>6, <1>8, <1>13 DEF GoodChain
<1>15. jobOps = <<>> /\ AllAccepted(jobOps, chain)
  BY NoneToAccept DEF Init
<1> QED
  BY <1>1, <1>3, <1>5, <1>14, <1>15 DEF Init, IInv

\* A job of what ValidateOps keeps, on any block of the chain.
LEMMA JobKeepsIInv ==
  ASSUME IInv, NEW ops \in Seq(Ops), UNCHANGED chain, sent' \subseteq sent,
         workingSet' = ValidateOps(ops, chain), jobOps' = workingSet',
         jobBase' \in 1..Len(chain)
  PROVE  IInv'
<1>1. workingSet' \in Seq(Ops) /\ AllAccepted(workingSet', chain)
  BY ValidateKeeps
<1> QED
  BY <1>1 DEF IInv

\* Every step keeps the invariant.
LEMMA NextIInv == IInv /\ [Next]_vars => IInv'
<1> SUFFICES ASSUME IInv, [Next]_vars PROVE IInv'
  OBVIOUS
<1>1. GoodChain(chain) /\ Len(chain) \in Nat /\ Len(chain) >= 1 /\ chain \in Seq(ChainBlocks)
  BY GoodChainLen DEF IInv, GoodChain
<1>2. ASSUME NEW op \in Ops, TakeOp(op) PROVE IInv'
  <2>1. Append(workingSet, op) \in Seq(Ops)
    BY AppendProperties DEF IInv
  <2>2. jobBase' \in 1..Len(chain)
    BY <1>1, <1>2 DEF TakeOp
  <2> QED
    BY <1>2, <2>1, <2>2, JobKeepsIInv DEF TakeOp
<1>3. ASSUME NEW n \in sent, TakeBlock(n) PROVE IInv'
  <2>1. workingSet \in Seq(Ops) /\ n \in 1..Len(chain)
    BY DEF IInv
  <2> QED
    BY <1>3, <2>1, JobKeepsIInv DEF TakeBlock
<1>4. ASSUME NEW block \in ReceivedBlocks, PropagateBlock(block) PROVE IInv'
  <2>1. block \in ChainBlocks /\ block.OpHistory \in Seq(Ops)
    BY SeqDef, LedgerAssumption DEF ReceivedBlocks, ChainBlocks
  <2>2. AllAccepted(block.OpHistory, chain)
    <3>1. Len(ValidateOps(block.OpHistory, chain)) = Len(block.OpHistory)
      BY <1>4 DEF PropagateBlock, ValidateBlock
    <3> QED
      BY <2>1, <3>1, ValidateKeeps
  <2>3. chain' = Append(chain, block) /\ Len(chain) < MaxBlocks
    BY <1>4 DEF PropagateBlock
  <2>4. GoodChain(chain')
    BY <1>1, <2>1, <2>2, <2>3, GoodAppend
  <2>5. Len(chain') = Len(chain) + 1
    BY <1>1, <2>1, <2>3, AppendProperties
  <2>6. sent' \subseteq sent \cup {Len(chain')} /\ UNCHANGED <<workingSet, jobOps, jobBase>>
    BY <1>4 DEF PropagateBlock
  <2>7. jobBase \in 1..Len(chain) /\ sent \subseteq 1..Len(chain)
    BY DEF IInv
  <2>8. jobBase' \in 1..Len(chain') /\ jobBase' # Len(chain')
    BY <1>1, <2>5, <2>6, <2>7
  <2>9. sent' \subseteq 1..Len(chain')
    BY <1>1, <2>5, <2>6, <2>7
  <2>10. Len(chain') <= MaxBlocks
    BY <1>1, <2>3, <2>5, LedgerAssumption
  <2> QED
    BY <2>4, <2>6, <2>8, <2>9, <2>10 DEF IInv
<1>5. ASSUME Solved PROVE IInv'
  <2>1. jobOps' = <<>> /\ jobBase' = Len(chain') /\ UNCHANGED <<sent, workingSet>>
    BY <1>5 DEF Solved
  <2>2. jobOps' \in Seq(Ops) /\ AllAccepted(jobOps', chain')
    BY <2>1, EmptySeq, NoneToAccept
  <2>3. CASE UNCHANGED chain
    BY <1>1, <2>1, <2>2, <2>3 DEF IInv
  <2>4. CASE /\ jobBase = Len(chain) /\ Len(chain) < MaxBlocks
             /\ chain' = Append(chain, [MinerPubKey |-> Me, OpHistory |-> jobOps])
    <3>1. PICK block \in ChainBlocks : /\ block = [MinerPubKey |-> Me, OpHistory |-> jobOps]
                                       /\ block.OpHistory = jobOps
      <4>1. Me \in Keys \cup {Nobody} /\ jobOps \in Seq(Ops)
        BY LedgerAssumption DEF IInv
      <4>2. [MinerPubKey |-> Me, OpHistory |-> jobOps] \in ChainBlocks
        BY <4>1 DEF ChainBlocks
      <4>3. [MinerPubKey |-> Me, OpHistory |-> jobOps].OpHistory = jobOps
        OBVIOUS
      <4> QED
        BY <4>2, <4>3
    <3>2. AllAccepted(block.OpHistory, chain) /\ chain' = Append(chain, block)
      BY <2>4, <3>1 DEF IInv
    <3>3. GoodChain(chain') /\ Len(chain') = Len(chain) + 1
      BY <1>1, <3>2, GoodAppend, AppendProperties
    <3> QED
      BY <1>1, <2>1, <2>2, <2>4, <3>3, LedgerAssumption DEF IInv
  <2> QED
    BY <1>5, <2>3, <2>4 DEF Solved
<1>6. CASE UNCHANGED vars
  BY <1>6 DEF vars, IInv
<1> QED
  BY <1>2, <1>3, <1>4, <1>5, <1>6 DEF Next, Draw, Delete, PropagateOp

\* The invariant holds always.
LEMMA SpecIInv == Spec => []IInv
BY InitIInv, NextIInv, PTL DEF Spec

-----------------------------------------------------------------------------
(* The properties                                                          *)

\* The chain, the working set and the job have the types the code gives them,
\* and a job is on a block of the chain (ink-miner.go:1020-1090).
THEOREM TypeCorrect == Spec => []TypeOK
<1>1. IInv => TypeOK
  BY DEF IInv, GoodChain, TypeOK
<1> QED
  BY <1>1, SpecIInv, PTL

\* No operation is on a chain twice (validation.go:129-131, 210-214).
THEOREM NeverReplayed == Spec => []NoReplay
<1>1. IInv => NoReplay
  <2> SUFFICES ASSUME IInv, NEW op \in Ops
               PROVE  Cardinality(Numbered(History(chain), op)) <= 1
    BY DEF NoReplay
  <2>1. PICK h : h = History(chain) /\ Once(h)
    BY DEF IInv, GoodChain, Sound
  <2>2. CASE Numbered(h, op) = {}
    BY <2>1, <2>2, FS_EmptySet
  <2>3. CASE Numbered(h, op) # {}
    <3>1. PICK i : i \in Numbered(h, op)
      BY <2>3
    <3>2. Numbered(h, op) = {i}
      BY <2>1, <3>1 DEF Numbered, Once
    <3>3. Cardinality({i}) = 1
      BY FS_Singleton
    <3> QED
      BY <2>1, <3>2, <3>3
  <2> QED
    BY <2>2, <2>3
<1> QED
  BY <1>1, SpecIInv, PTL

\* A DELETE is after the operation it names, of the same key, and alone
\* (validation.go:189-225).
THEOREM AlwaysOwned == Spec => []DeletesAreOwned
<1>1. IInv => DeletesAreOwned
  BY DEF IInv, GoodChain, Sound, Owned, DeletesAreOwned
<1> QED
  BY <1>1, SpecIInv, PTL

\* Live shapes of different keys are disjoint after each operation
\* (validation.go:166-183).
THEOREM NeverOverlapping == Spec => []NoOverlap
<1>1. IInv => NoOverlap
  BY DEF IInv, GoodChain, Sound, Apart, Disjoint, NoOverlap
<1> QED
  BY <1>1, SpecIInv, PTL

\* What CalculateInk takes off for a key is the cost of its live shapes, and
\* the blocks before have paid for it.
WithinMeans ==
  \A n \in 1..Len(chain) : \A key \in Keys :
    /\ Drawn(Prefix(chain, n), key)
         = MapThenSumSet(LAMBDA op : Cost[op],
                         {op \in Live(History(Prefix(chain, n))) : PubKey[op] = key})
    /\ Drawn(Prefix(chain, n), key) <= Mined(Prefix(chain, n - 1), key)

\* No key outspends its rewards, whatever they are and however long the chain:
\* an account that wraps gives a key less ink than it has, never more
\* (validation.go:103-164, ink-miner.go:795-827).
THEOREM NeverOverdrawn == Spec => []WithinMeans
<1>1. IInv => WithinMeans
  <2> SUFFICES ASSUME IInv, NEW n \in 1..Len(chain), NEW key \in Keys
               PROVE  /\ Drawn(Prefix(chain, n), key)
                           = SumOf(Cost, LiveOf(History(Prefix(chain, n)), key))
                      /\ Drawn(Prefix(chain, n), key) <= Mined(Prefix(chain, n - 1), key)
    BY DEF WithinMeans, SumOf, LiveOf
  <2>1. PaidTo(Prefix(chain, n - 1), Prefix(chain, n))
    BY DEF IInv, GoodChain, Paid
  <2>2. Prefix(chain, n) \in Seq(ChainBlocks)
    BY PrefixType DEF IInv, GoodChain
  <2>3. Drawn(Prefix(chain, n), key) = DrawnIn(History(Prefix(chain, n)), key)
    BY <2>2, DrawnRules
  <2> QED
    BY <2>1, <2>3 DEF PaidTo
<1> QED
  BY <1>1, SpecIInv, PTL

\* As long as the rewards of the longest chain fit in a uint32, the account
\* that CalculateInk keeps in one is exact, and no key has more ink in its live
\* shapes than it was paid for the blocks before.
THEOREM AlwaysSolvent ==
  ASSUME MaxBlocks * InkPerOpBlock < Wrap, MaxBlocks * InkPerNoOpBlock < Wrap
  PROVE  Spec => []Solvent
<1>1. IInv => Solvent
  <2> SUFFICES ASSUME IInv, NEW n \in 1..Len(chain), NEW key \in Keys
               PROVE  LET upTo  == Prefix(chain, n)
                          spent == Mined(upTo, key) - CalculateInk(upTo, key)
                      IN  /\ Mined(Prefix(chain, n - 1), key) >= spent
                          /\ spent = MapThenSumSet(LAMBDA op : Cost[op],
                                       {op \in Live(History(upTo)) : PubKey[op] = key})
    BY DEF Solvent
  <2>1. PICK c : c = Prefix(chain, n)
    OBVIOUS
  <2>2. PICK b : b = Prefix(chain, n - 1)
    OBVIOUS
  <2>3. c \in Seq(ChainBlocks) /\ b \in Seq(ChainBlocks) /\ Len(c) = n
    BY <2>1, <2>2, PrefixType DEF IInv, GoodChain
  <2>4. PaidTo(b, c)
    BY <2>1, <2>2 DEF IInv, GoodChain, Paid
  <2>5. PICK drawn \in Int : drawn = DrawnIn(History(c), key) /\ drawn = Drawn(c, key)
    BY <2>3, HistoryType, DrawnRules
  <2>6. PICK mined \in Nat : mined = Mined(c, key)
    BY <2>3, MinedRules
  <2>7. PICK before \in Nat : before = Mined(b, key)
    BY <2>3, MinedRules
  <2>8. drawn = SumOf(Cost, LiveOf(History(c), key)) /\ drawn <= before /\ before <= mined
        /\ mined <= (n - 1) * MaxReward
    BY <2>3, <2>4, <2>5, <2>6, <2>7 DEF PaidTo
  <2>9. drawn \in Nat
    <3>1. SumOf(Cost, LiveOf(History(c), key)) \in Nat
      BY <2>3, HistoryType, LiveOfType, InkAssumption, SumType
    <3> QED
      BY <2>8, <3>1
  <2>10. mined < Wrap
    <3>1. MaxReward \in Nat /\ MaxBlocks \in Nat /\ MaxBlocks * MaxReward < Wrap /\ Wrap \in Nat
      BY InkAssumption, LedgerAssumption DEF MaxReward
    <3>2. n - 1 \in Nat /\ n - 1 <= MaxBlocks
      <4>1. PICK top \in Nat : top = Len(chain)
        BY GoodChainLen DEF IInv
      <4>2. n \in 1..top /\ MaxBlocks \in Nat /\ (top <= MaxBlocks \/ top = 1)
        BY <4>1, LedgerAssumption DEF IInv
      <4> QED
        BY ONLY <4>2
    <3>3. PICK m \in Nat : m = n - 1
      BY <3>2
    <3>4. m * MaxReward <= MaxBlocks * MaxReward
      <4>1. PICK k \in Nat : MaxBlocks = m + k
        BY <3>1, <3>2, <3>3
      <4>2. (m + k) * MaxReward = m * MaxReward + k * MaxReward /\ k * MaxReward \in Nat
            /\ m * MaxReward \in Nat
        BY <3>1
      <4> QED
        BY <4>1, <4>2
    <3>5. m * MaxReward \in Nat /\ MaxBlocks * MaxReward \in Nat
      BY <3>1
    <3> QED
      BY <2>8, <3>1, <3>3, <3>4, <3>5
  <2>11. CalculateInk(c, key) = mined - drawn
    <3>1. mined - drawn \in Nat /\ mined - drawn < Wrap /\ Wrap \in Nat \ {0}
      BY <2>8, <2>9, <2>10, InkAssumption
    <3>2. (mined - drawn) % Wrap = mined - drawn
      BY <3>1, ModLess
    <3> QED
      BY <2>5, <2>6, <3>2 DEF CalculateInk
  <2>12. Mined(c, key) - CalculateInk(c, key) = drawn
    BY <2>6, <2>9, <2>11
  <2>13. before >= drawn
    BY <2>8, <2>9
  <2>14. SumOf(Cost, LiveOf(History(c), key))
          = MapThenSumSet(LAMBDA op : Cost[op], {op \in Live(History(c)) : PubKey[op] = key})
    BY DEF SumOf, LiveOf
  <2> QED
    BY <2>1, <2>2, <2>7, <2>8, <2>12, <2>13, <2>14
<1> QED
  BY <1>1, SpecIInv, PTL

\* Every miner with the same chain accepts the block a miner solves on its end
\* (ink-miner.go:1027-1036, 1054-1060).
THEOREM JobAlwaysAccepted == Spec => []JobIsAccepted
<1>1. IInv => JobIsAccepted
  <2> SUFFICES ASSUME IInv, jobBase = Len(chain)
               PROVE  ValidateBlock([MinerPubKey |-> Me, OpHistory |-> jobOps], chain)
    BY DEF JobIsAccepted
  <2>1. ValidateOps(jobOps, chain) = jobOps
    BY ValidateAccepted DEF IInv
  <2> QED
    BY <2>1 DEF ValidateBlock
<1> QED
  BY <1>1, SpecIInv, PTL

\* Only the solution of a job that is behind the chain forgets an operation of
\* the working set (ink-miner.go:1036, 1060, 1081).
THEOREM OnlyStaleForget == Spec => OnlyStaleSolutionsForget
<1>1. IInv /\ [Next]_vars => [Kept => Kept' \/ jobBase < Len(chain)]_vars
  <2> SUFFICES ASSUME IInv, Next, Kept, ~(jobBase < Len(chain)) PROVE Kept'
    OBVIOUS
  <2>1. chain \in Seq(ChainBlocks) /\ jobOps \in Seq(Ops) /\ jobBase = Len(chain)
    BY GoodChainLen DEF IInv, GoodChain
  <2>2. ASSUME NEW block \in ChainBlocks
        PROVE  OnChain(Append(chain, block)) = OnChain(chain) \cup ToSet(block.OpHistory)
    <3>1. History(Append(chain, block)) = History(chain) \o block.OpHistory
      BY <2>1, HistoryAppend
    <3>2. History(chain) \in Seq(Ops) /\ block.OpHistory \in Seq(Ops)
      BY <2>1, HistoryType DEF ChainBlocks
    <3>3. \A d : OnChain(d) = ToSet(History(d))
      BY DEF OnChain, ToSet
    <3> QED
      BY <3>1, <3>2, <3>3, ConcatSet
  <2>3. ASSUME NEW op \in Ops, TakeOp(op) PROVE Kept'
    BY <2>3 DEF TakeOp, Kept
  <2>4. ASSUME NEW n \in sent, TakeBlock(n) PROVE Kept'
    BY <2>4 DEF TakeBlock, Kept
  <2>5. ASSUME NEW block \in ReceivedBlocks, PropagateBlock(block) PROVE Kept'
    <3>1. block \in ChainBlocks
      BY SeqDef, LedgerAssumption DEF ReceivedBlocks, ChainBlocks
    <3>2. chain' = Append(chain, block) /\ UNCHANGED <<workingSet, jobOps>>
      BY <2>5 DEF PropagateBlock
    <3>3. OnChain(chain) \subseteq OnChain(chain)'
      BY <2>2, <3>1, <3>2 DEF OnChain
    <3> QED
      BY <3>2, <3>3 DEF Kept
  <2>6. ASSUME Solved PROVE Kept'
    <3>1. PICK block \in ChainBlocks : /\ block = [MinerPubKey |-> Me, OpHistory |-> jobOps]
                                       /\ block.OpHistory = jobOps
      <4>1. Me \in Keys \cup {Nobody}
        BY LedgerAssumption
      <4>2. [MinerPubKey |-> Me, OpHistory |-> jobOps] \in ChainBlocks
        BY <2>1, <4>1 DEF ChainBlocks
      <4>3. [MinerPubKey |-> Me, OpHistory |-> jobOps].OpHistory = jobOps
        OBVIOUS
      <4> QED
        BY <4>2, <4>3
    <3>2. chain' = Append(chain, block) /\ UNCHANGED workingSet
      BY <2>1, <2>6, <3>1 DEF Solved
    <3>3. OnChain(Append(chain, block)) = OnChain(chain) \cup ToSet(jobOps)
      BY <2>2, <3>1
    <3>4. OnChain(chain)' = OnChain(chain) \cup ToSet(jobOps)
      BY <3>2, <3>3 DEF OnChain
    <3> QED
      BY <3>2, <3>4 DEF Kept
  <2> QED
    BY <2>3, <2>4, <2>5, <2>6 DEF Next, Draw, Delete, PropagateOp
<1> QED
  BY <1>1, SpecIInv, PTL DEF OnlyStaleSolutionsForget, Spec

=============================================================================
