------------------------------ MODULE Drawing -------------------------------
(***************************************************************************)
(* Requests of art nodes at their miner: Draw and Delete send an operation *)
(* and wait until enough blocks follow the one that holds it.  A request   *)
(* is woken by each block that is inserted and looks at the longest chain  *)
(* several times before it answers; the chain may change between looks.    *)
(*                                                                         *)
(* Of the chain only what a request can see is kept: which block holds its *)
(* operation, how many blocks follow it, and how long the chain is.  A     *)
(* block is a number, used again once nothing knows it any more.           *)
(***************************************************************************)
EXTENDS Integers, FiniteSets

CONSTANTS
  Draws, Deletes,            \* requests, each one operation of this miner's key
  Target,                    \* the Draw whose shape a Delete names
  ValidateNum,               \* ValidateNum of each request
  BLOCKS_BEFORE_REPROPAGATE,
  Cap,                       \* bound on the counts of blocks: it stands for
                             \* itself and every larger number
  MaxForks                   \* bound on the changes of the longest branch

Requests == Draws \cup Deletes

ASSUME DrawingAssumption ==
  /\ Draws \cap Deletes = {}
  /\ Target \in [Deletes -> Draws]
  /\ ValidateNum \in [Requests -> Nat]
  /\ IsFiniteSet(Requests)
  /\ Cap \in Nat \ {0} /\ \A r \in Requests : ValidateNum[r] <= Cap
  /\ BLOCKS_BEFORE_REPROPAGATE \in Nat
  /\ MaxForks \in Nat

VARIABLES
  pc,        \* where a request is
  count,     \* the local of that name
  blockHash, \* the local of that name: a number of a block, 0 for ""
  holder,    \* the block of the longest chain that holds the operation, or 0
  depth,     \* the blocks that follow it
  length,    \* of the longest chain
  sent,      \* the operation is in the working set of a solver
  overdrawn, \* the chain holds what rules a draw out: a shape of another key
             \* that it crosses, or too little ink
  forks      \* how often the longest branch changed

local == <<pc, count, blockHash>>
chain == <<holder, depth, length, overdrawn, forks>>
vars == <<local, chain, sent>>

Capped(n) == IF n > Cap THEN Cap ELSE n

OnChain(r) == holder[r] # 0

Init ==
  /\ pc = [r \in Requests |-> "new"]
  /\ count = [r \in Requests |-> 0]
  /\ blockHash = [r \in Requests |-> 0]
  /\ holder = [r \in Requests |-> 0]
  /\ depth = [r \in Requests |-> 0]
  /\ length = 1
  /\ sent = [r \in Requests |-> FALSE]
  /\ overdrawn = [r \in Draws |-> FALSE]
  /\ forks = 0

-----------------------------------------------------------------------------
(* The requests                                                            *)

Goto(r, label) == pc' = [pc EXCEPT ![r] = label]

\* The operation goes to the peers and to ProblemSolver.
Send(r) == sent' = [sent EXCEPT ![r] = TRUE]

\* checkDeletion on the longest chain.
Deletable(r) ==
  /\ OnChain(Target[r])
  /\ ~\E d \in Deletes : Target[d] = Target[r] /\ OnChain(d)

StartDraw(r) ==
  /\ r \in Draws /\ pc[r] = "new"
  /\ Send(r)
  /\ Goto(r, "waiting")
  /\ UNCHANGED <<count, blockHash, chain>>

StartDelete(r) ==
  /\ r \in Deletes /\ pc[r] = "new"
  /\ Goto(r, IF Deletable(r) THEN "finding" ELSE "refused")
  /\ UNCHANGED <<count, blockHash, chain, sent>>

\* Delete looks for the ADD once more, and sends its operation.
FindAdd(r) ==
  /\ pc[r] = "finding"
  /\ IF OnChain(Target[r])
     THEN Send(r) /\ Goto(r, "waiting")
     ELSE UNCHANGED sent /\ Goto(r, "refused")
  /\ UNCHANGED <<count, blockHash, chain>>

\* Faulty: an operation is sent once.
NotYetSilent(r) ==
  /\ count' = [count EXCEPT ![r] = 0]
  /\ UNCHANGED sent

\* Another block without the operation: after too many, it is sent again.
NotYet(r) ==
  IF count[r] + 1 > BLOCKS_BEFORE_REPROPAGATE
  THEN Send(r) /\ count' = [count EXCEPT ![r] = 0]
  ELSE UNCHANGED sent /\ count' = [count EXCEPT ![r] = @ + 1]

\* The error that validation on the longest chain returns.
ValidateOperation(r) ==
  IF OnChain(r) THEN "DuplicateError" ELSE IF overdrawn[r] THEN "other" ELSE "nil"

\* Faulty: any error but a duplicate is waited out.
ValidatePatiently(r) ==
  /\ r \in Draws /\ pc[r] = "woken"
  /\ \/ ValidateOperation(r) = "DuplicateError" /\ Goto(r, "looking") /\ UNCHANGED <<count, sent>>
     \/ ValidateOperation(r) = "other" /\ Goto(r, "waiting") /\ UNCHANGED <<count, sent>>
     \/ ValidateOperation(r) = "nil" /\ Goto(r, "waiting") /\ NotYet(r)
  /\ UNCHANGED <<blockHash, chain>>

\* Draw validates its operation when it is woken: found on the chain, ruled
\* out by it, or neither.
Validate(r) ==
  /\ r \in Draws /\ pc[r] = "woken"
  /\ \/ ValidateOperation(r) = "DuplicateError" /\ Goto(r, "looking") /\ UNCHANGED <<count, sent>>
     \/ ValidateOperation(r) = "other" /\ Goto(r, "refused") /\ UNCHANGED <<count, sent>>
     \/ ValidateOperation(r) = "nil" /\ Goto(r, "waiting") /\ NotYet(r)
  /\ UNCHANGED <<blockHash, chain>>

\* The block of the longest chain that holds the operation, or "".
GetBlockHashOfShapeHash(r) == holder[r]

\* When it finds no block Draw only waits again; Delete, which looks at once,
\* counts the block that woke it.
LookUp(r) ==
  /\ pc[r] = IF r \in Draws THEN "looking" ELSE "woken"
  /\ blockHash' = [blockHash EXCEPT ![r] = GetBlockHashOfShapeHash(r)]
  /\ IF OnChain(r)
     THEN Goto(r, "counting") /\ UNCHANGED <<count, sent>>
     ELSE /\ Goto(r, "waiting")
          /\ IF r \in Draws THEN UNCHANGED <<count, sent>> ELSE NotYet(r)
  /\ UNCHANGED chain

\* The blocks after the one that was found, on the longest chain of now: all of
\* them when it is not there any more.
NumBlocksFollowing(r) == IF holder[r] = blockHash[r] THEN depth[r] ELSE length

\* Faulty: the block itself counts.
CountItself(r) ==
  /\ pc[r] = "counting"
  /\ Goto(r, IF NumBlocksFollowing(r) + 1 >= ValidateNum[r] THEN "confirmed" ELSE "waiting")
  /\ UNCHANGED <<count, blockHash, chain, sent>>

CountBlocks(r) ==
  /\ pc[r] = "counting"
  /\ Goto(r, IF NumBlocksFollowing(r) >= ValidateNum[r] THEN "confirmed" ELSE "waiting")
  /\ UNCHANGED <<count, blockHash, chain, sent>>

Step(r) ==
  StartDraw(r) \/ StartDelete(r) \/ FindAdd(r) \/ Validate(r) \/ LookUp(r) \/ CountBlocks(r)

-----------------------------------------------------------------------------
(* The chain                                                               *)

\* InsertBlock ends with a broadcast; who is not waiting misses it.
Broadcast ==
  pc' = [r \in Requests |-> IF pc[r] = "waiting" THEN "woken" ELSE pc[r]]

\* A block off the longest chain.
InsertBeside ==
  /\ Broadcast
  /\ UNCHANGED <<count, blockHash, chain, sent>>

\* What validation lets into the next block of the chain, or nothing.
Fits(ops) ==
  \A r \in ops :
    /\ sent[r] /\ ~OnChain(r)
    /\ r \in Draws => ~overdrawn[r]
    /\ r \in Deletes =>
         /\ Deletable(r)
         /\ \A d \in ops \cap Deletes : Target[d] = Target[r] => d = r

\* The number of a new block.
Numbers == 1..(2 * Cardinality(Requests) + 1)

Fresh == CHOOSE n \in Numbers : \A r \in Requests : holder[r] # n /\ blockHash[r] # n

\* A block that extends the longest chain, with some of the operations that
\* wait; shapes of other keys come and go.
Extend(ops) ==
  /\ Fits(ops)
  /\ holder' = [r \in Requests |-> IF r \in ops THEN Fresh ELSE holder[r]]
  /\ depth' = [r \in Requests |-> IF OnChain(r) THEN Capped(depth[r] + 1) ELSE 0]
  /\ length' = Capped(length + 1)
  /\ overdrawn' \in [Draws -> BOOLEAN]
  /\ \A r \in Draws : holder'[r] # 0 => ~overdrawn'[r]
  /\ Broadcast
  /\ UNCHANGED <<count, blockHash, sent, forks>>

\* Another chain, longer by that much: below the fork the operations stay in
\* their blocks, above it they are in others or in none.
Rebuild(kept, moved, longer) ==
  LET there == kept \cup moved IN
  /\ holder' = [r \in Requests |->
                  IF r \in kept THEN holder[r] ELSE IF r \in moved THEN Fresh ELSE 0]
  /\ length' = Capped(length + longer)
  /\ depth' \in [Requests -> 0..Cap]
  /\ \A r \in kept : depth'[r] = Capped(depth[r] + longer)
  /\ \A r \in moved : depth'[r] < length'
  /\ \A r \in Requests \ there : depth'[r] = 0
  /\ \A q \in kept, r \in Requests : OnChain(r) /\ depth[r] > depth[q] => r \in kept
  /\ \A d \in Deletes \cap there : Target[d] \in there /\ depth'[d] <= depth'[Target[d]]
  /\ \A d, e \in Deletes \cap there : Target[d] = Target[e] => d = e

\* A block that makes another branch the longest.
Reorganise ==
  /\ forks < MaxForks
  /\ forks' = forks + 1
  /\ \E kept \in SUBSET {r \in Requests : OnChain(r)} :
     \E moved \in SUBSET ({r \in Requests : OnChain(r) \/ sent[r]} \ kept) :
     \E longer \in 1..Cap : Rebuild(kept, moved, longer)
  /\ overdrawn' \in [Draws -> BOOLEAN]
  /\ \A r \in Draws : holder'[r] # 0 => ~overdrawn'[r]
  /\ Broadcast
  /\ UNCHANGED <<count, blockHash, sent>>

\* The operation is dropped from the working set: by ValidateOps, or with the
\* job of a block that came too late.
Forget(r) ==
  /\ sent[r]
  /\ sent' = [sent EXCEPT ![r] = FALSE]
  /\ UNCHANGED <<local, chain>>

Next ==
  \/ \E r \in Requests : Step(r) \/ Forget(r)
  \/ \E ops \in SUBSET Requests : Extend(ops)
  \/ InsertBeside
  \/ Reorganise

Spec == Init /\ [][Next]_vars

\* Requests run, blocks go on being found, and an operation that is in a
\* working set again and again, and fits the chain, is mined at last.
Fairness ==
  /\ WF_vars(\E ops \in SUBSET Requests : Extend(ops))
  /\ \A r \in Requests :
       /\ WF_vars(pc[r] # "new" /\ Step(r))
       /\ SF_vars(\E ops \in SUBSET Requests : r \in ops /\ Extend(ops))

FairSpec == Spec /\ Fairness

-----------------------------------------------------------------------------
(* Properties                                                              *)

\* Type invariant.
TypeOK ==
  /\ pc \in [Requests -> {"new", "finding", "waiting", "woken", "looking", "counting",
                          "confirmed", "refused"}]
  /\ count \in [Requests -> 0..BLOCKS_BEFORE_REPROPAGATE]
  /\ blockHash \in [Requests -> Numbers \cup {0}]
  /\ holder \in [Requests -> Numbers \cup {0}]
  /\ depth \in [Requests -> 0..Cap]
  /\ length \in 1..Cap
  /\ sent \in [Requests -> BOOLEAN]
  /\ overdrawn \in [Draws -> BOOLEAN]
  /\ forks \in 0..MaxForks

\* A request that is answered with success has the blocks it asked for after
\* its operation, unless the chain was reorganised after the look-up: the two
\* looks at the chain need not see the same one (ink-miner.go:289-313, 401-437).
ConfirmedUnlessReorganised ==
  \A r \in Requests :
    pc[r] = "confirmed" /\ holder[r] = blockHash[r] => depth[r] >= ValidateNum[r]

\* Every Draw is answered: blocks that come while it looks are missed, jobs are
\* lost and branches change, but it sends its operation again and is woken
\* again (ink-miner.go:259-314).
DrawsEnd == \A r \in Draws : pc[r] # "new" ~> pc[r] \in {"confirmed", "refused"}

\* Every Delete is answered, unless its shape goes, or another Delete of it is
\* mined, while it waits (ink-miner.go:395-437).
UncontestedDeletesEnd ==
  \A r \in Deletes :
    pc[r] # "new" ~> \/ pc[r] \in {"confirmed", "refused"}
                     \/ ~OnChain(r) /\ ~Deletable(r)
=============================================================================
