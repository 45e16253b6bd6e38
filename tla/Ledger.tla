------------------------------- MODULE Ledger -------------------------------
(***************************************************************************)
(* One chain as one miner grows it: blocks it receives and validates,      *)
(* blocks it solves from its own working set, and the operations it is     *)
(* given meanwhile.  Forks are not here: the chain is any path of the      *)
(* block store that stays the longest, and a block solved on another block *)
(* than its end adds nothing to it.                                        *)
(***************************************************************************)
EXTENDS Validation, FiniteSets

CONSTANTS
  Me,         \* the key of this miner
  MaxBlocks,  \* bound on the length of the chain
  MaxOps      \* bound on the operations of a received block

ASSUME LedgerAssumption ==
  /\ Me \in Keys
  /\ MaxBlocks \in Nat
  /\ MaxOps \in Nat

VARIABLES
  chain,       \* GetLongestPath of the genesis hash, the dummy block first
  sent,        \* received blocks on their way to ProblemSolver through sblock,
               \* as lengths of the chain they end; handlers send in any order
  workingSet,  \* the local of that name in ProblemSolver
  jobOps,      \* OpHistory of the block the workers search a nonce for
  jobBase      \* the length of the chain that block extends

vars == <<chain, sent, workingSet, jobOps, jobBase>>

Prefix(seq, n) == SubSeq(seq, 1, n)

Init ==
  /\ chain = << TestBlock(<<>>) >>
  /\ sent = {}
  /\ workingSet = <<>>
  /\ jobOps = <<>>
  /\ jobBase = 1

\* ProblemSolver takes an operation from sop and starts a job on the chain.
TakeOp(op) ==
  /\ workingSet' = ValidateOps(Append(workingSet, op), chain)
  /\ jobOps' = workingSet'
  /\ jobBase' = Len(chain)
  /\ UNCHANGED <<chain, sent>>

\* Draw sends an operation of this miner's key, the first time and each time
\* it gets impatient.
Draw(op) ==
  /\ PubKey[op] = Me
  /\ OpType[op] = "ADD"
  /\ TakeOp(op)

\* Delete does so after a look at the chain, which may have grown since, for a
\* shape that was added.
Delete(op) ==
  /\ PubKey[op] = Me
  /\ OpType[op] = "DELETE"
  /\ \E n \in DOMAIN chain : CheckDeletion(AddSig[op], Me, Prefix(chain, n)) = "nil"
  /\ OpType[AddSig[op]] = "ADD"
  /\ TakeOp(op)

\* PropagateOp sends one that the chain allowed.
PropagateOp(op) ==
  /\ \E n \in DOMAIN chain : Accepts(op, Prefix(chain, n))
  /\ TakeOp(op)

\* A valid block from a peer.  It is sent to ProblemSolver only when its miner
\* is not the miner of the block before.
PropagateBlock(block) ==
  /\ Len(chain) < MaxBlocks
  /\ ValidateBlock(block, chain)
  /\ chain' = Append(chain, block)
  /\ sent' = IF block.MinerPubKey # chain[Len(chain)].MinerPubKey
             THEN sent \cup {Len(chain')} ELSE sent
  /\ UNCHANGED <<workingSet, jobOps, jobBase>>

\* Faulty: the job on a received block has no operations.
TakeBlockIdle(n) ==
  /\ n \in sent
  /\ sent' = sent \ {n}
  /\ workingSet' = ValidateOps(workingSet, chain)
  /\ jobOps' = <<>>
  /\ jobBase' = n
  /\ UNCHANGED chain

\* Faulty: the working set is taken over as it is.
TakeBlockUnchecked(n) ==
  /\ n \in sent
  /\ sent' = sent \ {n}
  /\ jobOps' = workingSet
  /\ jobBase' = n
  /\ UNCHANGED <<chain, workingSet>>

\* ProblemSolver takes a block from sblock: the working set is validated
\* against the chain, and the job builds on the block.
TakeBlock(n) ==
  /\ n \in sent
  /\ sent' = sent \ {n}
  /\ workingSet' = ValidateOps(workingSet, chain)
  /\ jobOps' = workingSet'
  /\ jobBase' = n
  /\ UNCHANGED chain

\* Faulty: the next job builds on the block after its own.
SolvedAhead ==
  /\ \/ /\ jobBase = Len(chain)
        /\ Len(chain) < MaxBlocks
        /\ chain' = Append(chain, [MinerPubKey |-> Me, OpHistory |-> jobOps])
     \/ jobBase < Len(chain) /\ UNCHANGED chain
  /\ jobOps' = <<>>
  /\ jobBase' = Len(chain) + 1
  /\ UNCHANGED <<sent, workingSet>>

\* A worker's solution is inserted as it is, on the chain or beside it; the
\* next job has no operations, whatever the working set holds.
Solved ==
  /\ \/ /\ jobBase = Len(chain)
        /\ Len(chain) < MaxBlocks
        /\ chain' = Append(chain, [MinerPubKey |-> Me, OpHistory |-> jobOps])
     \/ jobBase < Len(chain) /\ UNCHANGED chain
  /\ jobOps' = <<>>
  /\ jobBase' = Len(chain')
  /\ UNCHANGED <<sent, workingSet>>

ReceivedBlocks ==
  [MinerPubKey : Keys \ {Me}, OpHistory : UNION {[1..n -> Ops] : n \in 0..MaxOps}]

Next ==
  \/ \E op \in Ops : Draw(op) \/ Delete(op) \/ PropagateOp(op)
  \/ \E block \in ReceivedBlocks : PropagateBlock(block)
  \/ \E n \in sent : TakeBlock(n)
  \/ Solved

Spec == Init /\ [][Next]_vars

-----------------------------------------------------------------------------
(* Properties                                                              *)

Numbered(seq, op) == {i \in DOMAIN seq : seq[i] = op}

\* The operations whose shape is on the canvas: added, and not deleted.
Live(ops) ==
  {op \in ToSet(ops) : OpType[op] = "ADD" /\ \A d \in ToSet(ops) : AddSig[d] # op}

\* Nothing of the working set is left out.
Kept == ToSet(workingSet) \subseteq ToSet(jobOps) \cup OnChain(chain)

\* Type invariant.
TypeOK ==
  /\ chain \in Seq(ChainBlocks)
  /\ workingSet \in Seq(Ops)
  /\ sent \subseteq 1..Len(chain)
  /\ jobOps \in Seq(Ops)
  /\ jobBase \in 1..Len(chain)

\* No operation is on a chain twice, however often Draw sends it again and
\* however it is spread over blocks and working sets (validation.go:129-131,
\* 210-214).
NoReplay == \A op \in Ops : Cardinality(Numbered(History(chain), op)) <= 1

\* Each DELETE on a chain comes after the operation it names, is signed by the
\* same key, and is the only one to name it (validation.go:189-225).
DeletesAreOwned ==
  LET h == History(chain) IN
  \A i \in DOMAIN h : OpType[h[i]] = "DELETE" =>
    /\ \E j \in 1..(i - 1) : h[j] = AddSig[h[i]] /\ PubKey[h[j]] = PubKey[h[i]]
    /\ \A j \in DOMAIN h : AddSig[h[j]] = AddSig[h[i]] => j = i

\* After each operation of the chain, shapes of different keys that are not
\* deleted are disjoint: no two blocks, and no two operations of one block,
\* draw over each other (validation.go:166-183).
NoOverlap ==
  LET h == History(chain) IN
  \A n \in DOMAIN h : \A a, b \in Live(Prefix(h, n)) :
    PubKey[a] # PubKey[b] => Pixels[a] \cap Pixels[b] = {}

\* No key ever has more ink in its live shapes than it was paid for the blocks
\* before, and the uint32 that counts its ink holds the difference: a key that
\* overspends once would wrap to a fortune (validation.go:103-164,
\* ink-miner.go:795-827).
Solvent ==
  \A n \in 1..Len(chain) : \A key \in Keys :
    LET upTo  == Prefix(chain, n)
        spent == Mined(upTo, key) - CalculateInk(upTo, key)
    IN  /\ Mined(Prefix(chain, n - 1), key) >= spent
        /\ spent = MapThenSumSet(LAMBDA op : Cost[op],
                                 {op \in Live(History(upTo)) : PubKey[op] = key})

\* The block a miner is solving on the end of its chain is one that every
\* miner with that chain accepts, whatever came between the operations and
\* their validation (ink-miner.go:1027-1036, 1054-1060).
JobIsAccepted ==
  jobBase = Len(chain)
    => ValidateBlock([MinerPubKey |-> Me, OpHistory |-> jobOps], chain)

\* An operation of the working set is in the job or on the chain; only the
\* solution of a job that is behind the chain loses one, since the next job is
\* started without a look at the working set (ink-miner.go:1036, 1060, 1081).
OnlyStaleSolutionsForget == [][Kept => Kept' \/ jobBase < Len(chain)]_vars
=============================================================================
