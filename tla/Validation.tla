----------------------------- MODULE Validation -----------------------------
(***************************************************************************)
(* What a chain of blocks allows: miner/validation.go and CalculateInk.    *)
(*                                                                         *)
(* An operation stands for its OpSig, a block for its miner and its        *)
(* operations; a shape is the set of its pixels.  VerifyBlock is not here: *)
(* see Valid in BlockStore.                                                *)
(***************************************************************************)
EXTENDS Integers, Sequences, SequencesExt

CONSTANTS
  Keys,             \* public keys of miners
  Ops,              \* operations
  OpType,           \* op -> "ADD" or "DELETE"
  PubKey,           \* op -> the key that signed it
  AddSig,           \* op -> the operation a DELETE deletes, NoOp for an ADD
  Pixels,           \* op -> the pixels of its shape
  Cost,             \* op -> the ink of its shape
  WellFormed,       \* the operations whose SVG string getShapeFromOp accepts
  NoOp,             \* the empty string as an AddSig
  Nobody,           \* a key no miner has: of the dummy block and of testblock
  InkPerOpBlock,
  InkPerNoOpBlock,
  Wrap              \* one more than the largest uint32

ASSUME OpsAssumption ==
  /\ NoOp \notin Ops
  /\ Nobody \notin Keys
  /\ OpType \in [Ops -> {"ADD", "DELETE"}]
  /\ PubKey \in [Ops -> Keys]
  /\ AddSig \in [Ops -> Ops \cup {NoOp}]
  /\ WellFormed \subseteq Ops

ASSUME InkAssumption ==
  /\ Cost \in [Ops -> Nat]
  /\ InkPerOpBlock \in Nat
  /\ InkPerNoOpBlock \in Nat
  /\ Wrap \in Nat \ {0}

\* What Draw and Delete sign: an ADD names no other operation (ink-miner.go:241);
\* a DELETE names an ADD (356) and has its shape (363-366).
ASSUME SignedAssumption ==
  \A op \in Ops :
    /\ OpType[op] = "ADD" => AddSig[op] = NoOp
    /\ OpType[op] = "DELETE" /\ AddSig[op] \in Ops =>
         /\ OpType[AddSig[op]] = "ADD"
         /\ Pixels[op] = Pixels[AddSig[op]]
         /\ Cost[op] = Cost[AddSig[op]]

ChainBlocks == [MinerPubKey : Keys \cup {Nobody}, OpHistory : Seq(Ops)]

\* The operations of a chain, in order.
History(chain) == FlattenSeq([i \in DOMAIN chain |-> chain[i].OpHistory])

OnChain(chain) == {History(chain)[i] : i \in DOMAIN History(chain)}

Reward(block) == IF block.OpHistory = <<>> THEN InkPerNoOpBlock ELSE InkPerOpBlock

Mined(chain, key) ==
  FoldLeft(LAMBDA ink, block : IF block.MinerPubKey = key THEN ink + Reward(block) ELSE ink,
           0, chain)

Drawn(chain, key) ==
  FoldLeft(LAMBDA ink, op :
             IF PubKey[op] # key \/ op \notin WellFormed THEN ink
             ELSE IF OpType[op] = "ADD" THEN ink + Cost[op] ELSE ink - Cost[op],
           0, History(chain))

\* The ink of a key, in the arithmetic of uint32.
CalculateInk(chain, key) == (Mined(chain, key) - Drawn(chain, key)) % Wrap

\* The shapes of other keys.  A DELETE takes its own signature off the map,
\* which is never there: the shape it deletes stays.
ShapesExisting(chain, key) ==
  FoldLeft(LAMBDA shapes, op :
             IF PubKey[op] = key THEN shapes
             ELSE IF OpType[op] = "ADD" THEN shapes \cup {op} ELSE shapes \ {op},
           {}, History(chain))

\* Faulty: no test for an overlap.
CheckInkOnly(op, chain) ==
  IF op \in OnChain(chain) THEN "DuplicateError"
  ELSE IF Cost[op] > CalculateInk(chain, PubKey[op]) THEN "InsufficientInkError"
  ELSE "nil"

\* Faulty: no test for a duplicate.
CheckConflictsOnly(op, chain) ==
  IF Cost[op] > CalculateInk(chain, PubKey[op]) THEN "InsufficientInkError"
  ELSE IF \E s \in ShapesExisting(chain, PubKey[op]) : Pixels[s] \cap Pixels[op] # {}
  THEN "ShapeOverlapError"
  ELSE "nil"

\* The error of an ADD, in the order the code looks for them.
CheckInkAndConflicts(op, chain) ==
  IF op \in OnChain(chain) THEN "DuplicateError"
  ELSE IF Cost[op] > CalculateInk(chain, PubKey[op]) THEN "InsufficientInkError"
  ELSE IF \E s \in ShapesExisting(chain, PubKey[op]) : Pixels[s] \cap Pixels[op] # {}
  THEN "ShapeOverlapError"
  ELSE "nil"

\* Faulty: the search stops at the shape.
CheckDeletionFirst(sig, key, chain) ==
  IF \E op \in OnChain(chain) : PubKey[op] = key /\ op = sig THEN "nil" ELSE "ShapeOwnerError"

\* A deletion of sig by key: the key's operations on the chain have it, and
\* none of them has deleted it.
CheckDeletion(sig, key, chain) ==
  LET own == {op \in OnChain(chain) : PubKey[op] = key} IN
  IF sig \in own /\ \A op \in own : AddSig[op] # sig THEN "nil" ELSE "ShapeOwnerError"

Accepts(op, chain) ==
  /\ op \in WellFormed
  /\ IF OpType[op] = "ADD" THEN CheckInkAndConflicts(op, chain) = "nil"
     ELSE CheckDeletion(AddSig[op], PubKey[op], chain) = "nil"

TestBlock(ops) == [MinerPubKey |-> Nobody, OpHistory |-> ops]

\* Faulty: each operation is tested against the chain alone.
ValidateOpsApart(ops, chain) == SelectSeq(ops, LAMBDA op : Accepts(op, chain))

\* The operations a block on top of the chain can hold, each tested with those
\* kept before it.
ValidateOps(ops, chain) ==
  FoldLeft(LAMBDA kept, op :
             IF Accepts(op, Append(chain, TestBlock(kept))) THEN Append(kept, op) ELSE kept,
           <<>>, ops)

ValidateBlock(block, chain) == Len(ValidateOps(block.OpHistory, chain)) = Len(block.OpHistory)
=============================================================================
