--------------------------- MODULE DrawingProofs ----------------------------
(***************************************************************************)
(* What a Draw or a Delete reports is so, for any number of requests, any  *)
(* confirmations they ask for, and any changes of the longest branch.      *)
(***************************************************************************)
EXTENDS Drawing, FiniteSetTheorems, TLAPS

Found == \A r \in Requests : pc[r] \in {"counting", "confirmed"} => blockHash[r] # 0

DInv == TypeOK /\ Found /\ ConfirmedUnlessReorganised

USE DrawingAssumption

\* A new block has a number that no request knows.
LEMMA FreshIsNew ==
  ASSUME TypeOK
  PROVE  Fresh \in Numbers /\ \A r \in Requests : holder[r] # Fresh /\ blockHash[r] # Fresh
<1> DEFINE held == {holder[r] : r \in Requests}
           found == {blockHash[r] : r \in Requests}
           n == Cardinality(Requests)
<1>1. n \in Nat
  BY FS_CardinalityType
<1>2. /\ IsFiniteSet(held) /\ Cardinality(held) <= n
      /\ IsFiniteSet(found) /\ Cardinality(found) <= n
  <2>1. holder \in Surjection(Requests, held) /\ blockHash \in Surjection(Requests, found)
    BY DEF Surjection, TypeOK
  <2>2. IsFiniteSet(held) /\ Cardinality(held) <= n
    BY <2>1, FS_Surjection
  <2>3. IsFiniteSet(found) /\ Cardinality(found) <= n
    BY <2>1, FS_Surjection
  <2> QED
    BY <2>2, <2>3
<1>3. IsFiniteSet(held \cup found) /\ Cardinality(held \cup found) <= 2 * n
  <2>1. /\ IsFiniteSet(held \cup found)
        /\ Cardinality(held \cup found) =
             Cardinality(held) + Cardinality(found) - Cardinality(held \cap found)
    BY <1>2, FS_Union
  <2>2. IsFiniteSet(held \cap found)
    BY <1>2, FS_Intersection
  <2>3. /\ Cardinality(held) \in Nat /\ Cardinality(found) \in Nat
        /\ Cardinality(held \cap found) \in Nat
    BY <1>2, <2>2, FS_CardinalityType
  <2> HIDE DEF held, found, n
  <2> QED
    BY <1>1, <1>2, <2>1, <2>3
<1>4. Cardinality(1..(2 * n + 1)) = 2 * n + 1
  BY <1>1, FS_Interval
<1>5. ~(Numbers \subseteq held \cup found)
  <2> SUFFICES ASSUME Numbers \subseteq held \cup found
               PROVE  FALSE
    OBVIOUS
  <2>1. Cardinality(Numbers) <= Cardinality(held \cup found)
    BY <1>3, FS_Subset
  <2>2. Cardinality(held \cup found) \in Nat
    BY <1>3, FS_CardinalityType
  <2>3. Cardinality(Numbers) = 2 * n + 1
    BY <1>4 DEF Numbers
  <2> HIDE DEF held, found, n
  <2> QED
    BY <1>1, <1>3, <2>1, <2>2, <2>3
<1>6. \E m \in Numbers : \A r \in Requests : holder[r] # m /\ blockHash[r] # m
  BY <1>5
<1> QED
  BY <1>6 DEF Fresh

LEMMA CappedCounts ==
  ASSUME NEW m \in Nat, NEW v \in Nat, v <= Cap
  PROVE  /\ Capped(m) \in 0..Cap
         /\ m > 0 => Capped(m) \in 1..Cap
         /\ m >= v => Capped(m) >= v
BY DEF Capped

LEMMA DInit == Init => DInv
BY DEF Init, DInv, TypeOK, Found, ConfirmedUnlessReorganised

LEMMA NotYetCounts ==
  ASSUME TypeOK, NEW r \in Requests, NotYet(r)
  PROVE  /\ count' \in [Requests -> 0..BLOCKS_BEFORE_REPROPAGATE]
         /\ sent' \in [Requests -> BOOLEAN]
<1>1. count[r] \in 0..BLOCKS_BEFORE_REPROPAGATE
  BY DEF TypeOK
<1>2. CASE count[r] + 1 > BLOCKS_BEFORE_REPROPAGATE
  <2>1. count' = [count EXCEPT ![r] = 0] /\ sent' = [sent EXCEPT ![r] = TRUE]
    BY <1>2 DEF NotYet, Send
  <2> QED
    BY <2>1 DEF TypeOK
<1>3. CASE ~(count[r] + 1 > BLOCKS_BEFORE_REPROPAGATE)
  <2>1. count[r] + 1 \in 0..BLOCKS_BEFORE_REPROPAGATE
    BY <1>1, <1>3
  <2>2. count' = [count EXCEPT ![r] = count[r] + 1] /\ sent' = sent
    BY <1>3 DEF NotYet
  <2> QED
    BY <2>1, <2>2 DEF TypeOK
<1> QED
  BY <1>2, <1>3

\* A request goes on: only its last look at the chain confirms it.
LEMMA StepKeeps ==
  ASSUME DInv, NEW r \in Requests, Step(r)
  PROVE  DInv'
<1> USE DEF DInv, Goto, Send, chain
<1>1. CASE StartDraw(r)
  BY <1>1 DEF StartDraw, TypeOK, Found, ConfirmedUnlessReorganised
<1>2. CASE StartDelete(r)
  BY <1>2 DEF StartDelete, TypeOK, Found, ConfirmedUnlessReorganised
<1>3. CASE FindAdd(r)
  BY <1>3 DEF FindAdd, TypeOK, Found, ConfirmedUnlessReorganised
<1>4. CASE Validate(r)
  <2>1. \/ pc' = [pc EXCEPT ![r] = "looking"]
        \/ pc' = [pc EXCEPT ![r] = "refused"]
        \/ pc' = [pc EXCEPT ![r] = "waiting"]
    BY <1>4 DEF Validate
  <2>2. /\ count' \in [Requests -> 0..BLOCKS_BEFORE_REPROPAGATE]
        /\ sent' \in [Requests -> BOOLEAN]
    BY <1>4, NotYetCounts DEF Validate, TypeOK
  <2>3. UNCHANGED <<blockHash, holder, depth, length, overdrawn, forks>>
    BY <1>4 DEF Validate
  <2> QED
    BY <2>1, <2>2, <2>3 DEF TypeOK, Found, ConfirmedUnlessReorganised
<1>5. CASE LookUp(r)
  <2>1. \/ holder[r] # 0 /\ pc' = [pc EXCEPT ![r] = "counting"]
        \/ pc' = [pc EXCEPT ![r] = "waiting"]
    BY <1>5 DEF LookUp, OnChain
  <2>2. /\ count' \in [Requests -> 0..BLOCKS_BEFORE_REPROPAGATE]
        /\ sent' \in [Requests -> BOOLEAN]
    BY <1>5, NotYetCounts DEF LookUp, TypeOK
  <2>3. /\ blockHash' = [blockHash EXCEPT ![r] = holder[r]]
        /\ UNCHANGED <<holder, depth, length, overdrawn, forks>>
    BY <1>5 DEF LookUp, GetBlockHashOfShapeHash
  <2>4. TypeOK'
    BY <2>1, <2>2, <2>3 DEF TypeOK
  <2> QED
    BY <2>1, <2>3, <2>4 DEF TypeOK, Found, ConfirmedUnlessReorganised
<1>6. CASE CountBlocks(r)
  BY <1>6 DEF CountBlocks, NumBlocksFollowing, TypeOK, Found, ConfirmedUnlessReorganised
<1> QED
  BY <1>1, <1>2, <1>3, <1>4, <1>5, <1>6 DEF Step

\* A broadcast wakes who waits and nobody else.
LEMMA BroadcastWakes ==
  ASSUME TypeOK, Broadcast
  PROVE  /\ pc' \in [Requests -> {"new", "finding", "waiting", "woken", "looking", "counting",
                                  "confirmed", "refused"}]
         /\ \A r \in Requests : pc'[r] \in {"counting", "confirmed"} => pc'[r] = pc[r]
BY DEF Broadcast, TypeOK

\* A block that moves no operation takes no confirmation away.
LEMMA ExtendKeeps ==
  ASSUME DInv, NEW ops \in SUBSET Requests, Extend(ops)
  PROVE  DInv'
<1> USE DEF DInv
<1>1. /\ pc' \in [Requests -> {"new", "finding", "waiting", "woken", "looking", "counting",
                               "confirmed", "refused"}]
      /\ \A r \in Requests : pc'[r] \in {"counting", "confirmed"} => pc'[r] = pc[r]
  BY BroadcastWakes DEF Extend
<1>2. Fresh \in Numbers /\ \A r \in Requests : holder[r] # Fresh /\ blockHash[r] # Fresh
  BY FreshIsNew
<1>3. /\ holder' \in [Requests -> Numbers \cup {0}]
      /\ \A r \in Requests : holder'[r] = IF r \in ops THEN Fresh ELSE holder[r]
  BY <1>2 DEF Extend, TypeOK
<1>4. \A r \in Requests : Capped(depth[r] + 1) \in 0..Cap /\ Capped(depth[r] + 1) >= depth[r]
  BY DEF TypeOK, Capped
<1>5. /\ depth' \in [Requests -> 0..Cap]
      /\ \A r \in Requests : holder[r] # 0 => depth'[r] >= depth[r]
  BY <1>4 DEF Extend, OnChain, TypeOK
<1>6. length' \in 1..Cap
  BY DEF Extend, TypeOK, Capped
<1>7. TypeOK'
  BY <1>1, <1>3, <1>5, <1>6 DEF Extend, TypeOK
<1>8. Found'
  BY <1>1 DEF Extend, Found
<1>9. ConfirmedUnlessReorganised'
  <2> SUFFICES ASSUME NEW r \in Requests, pc'[r] = "confirmed", holder'[r] = blockHash'[r]
               PROVE  depth'[r] >= ValidateNum[r]
    BY DEF ConfirmedUnlessReorganised
  <2>1. pc[r] = "confirmed" /\ blockHash'[r] = blockHash[r] /\ blockHash[r] # 0
    BY <1>1 DEF Extend, Found
  <2>2. holder[r] = blockHash[r]
    BY <1>2, <1>3, <2>1
  <2>3. depth[r] >= ValidateNum[r] /\ depth'[r] >= depth[r]
    BY <1>5, <2>1, <2>2 DEF ConfirmedUnlessReorganised
  <2> QED
    BY <2>3, <1>5 DEF TypeOK
<1> QED
  BY <1>7, <1>8, <1>9

\* Below the fork blocks only get deeper; above it they have new numbers.
LEMMA ReorganiseKeeps ==
  ASSUME DInv, Reorganise
  PROVE  DInv'
<1> USE DEF DInv
<1>1. /\ pc' \in [Requests -> {"new", "finding", "waiting", "woken", "looking", "counting",
                               "confirmed", "refused"}]
      /\ \A r \in Requests : pc'[r] \in {"counting", "confirmed"} => pc'[r] = pc[r]
  BY BroadcastWakes DEF Reorganise
<1>2. Fresh \in Numbers /\ \A r \in Requests : holder[r] # Fresh /\ blockHash[r] # Fresh
  BY FreshIsNew
<1>3. PICK kept \in SUBSET Requests, moved \in SUBSET Requests, longer \in 1..Cap :
        Rebuild(kept, moved, longer)
  BY DEF Reorganise
<1>4. holder' \in [Requests -> Numbers \cup {0}]
  BY <1>2, <1>3 DEF TypeOK, Rebuild
<1>5. length' \in 1..Cap
  BY <1>3 DEF TypeOK, Capped, Rebuild
<1>6. UNCHANGED <<count, blockHash, sent>> /\ forks' \in 0..MaxForks /\ overdrawn' \in [Draws -> BOOLEAN]
  BY DEF Reorganise, TypeOK
<1>7. TypeOK'
  BY <1>1, <1>3, <1>4, <1>5, <1>6 DEF TypeOK, Rebuild
<1>8. Found'
  BY <1>1, <1>6 DEF Found
<1>9. ConfirmedUnlessReorganised'
  <2> SUFFICES ASSUME NEW r \in Requests, pc'[r] = "confirmed", holder'[r] = blockHash'[r]
               PROVE  depth'[r] >= ValidateNum[r]
    BY DEF ConfirmedUnlessReorganised
  <2>1. pc[r] = "confirmed" /\ blockHash'[r] = blockHash[r] /\ blockHash[r] # 0
    BY <1>1, <1>6 DEF Found
  <2>2. r \in kept /\ holder[r] = blockHash[r]
    BY <1>2, <1>3, <2>1 DEF Rebuild
  <2>3. depth[r] >= ValidateNum[r] /\ depth'[r] = Capped(depth[r] + longer)
    BY <1>3, <2>1, <2>2 DEF ConfirmedUnlessReorganised, Rebuild
  <2> QED
    BY <2>3 DEF TypeOK, Capped
<1> QED
  BY <1>7, <1>8, <1>9

LEMMA NextKeeps == DInv /\ [Next]_vars => DInv'
<1> SUFFICES ASSUME DInv, [Next]_vars
             PROVE  DInv'
  OBVIOUS
<1>1. CASE \E r \in Requests : Step(r)
  BY <1>1, StepKeeps
<1>2. CASE \E r \in Requests : Forget(r)
  BY <1>2 DEF Forget, local, chain, DInv, TypeOK, Found, ConfirmedUnlessReorganised
<1>3. CASE \E ops \in SUBSET Requests : Extend(ops)
  BY <1>3, ExtendKeeps
<1>4. CASE InsertBeside
  <2>1. /\ pc' \in [Requests -> {"new", "finding", "waiting", "woken", "looking", "counting",
                                 "confirmed", "refused"}]
        /\ \A r \in Requests : pc'[r] \in {"counting", "confirmed"} => pc'[r] = pc[r]
    BY <1>4, BroadcastWakes DEF InsertBeside, DInv
  <2> QED
    BY <1>4, <2>1 DEF InsertBeside, chain, DInv, TypeOK, Found, ConfirmedUnlessReorganised
<1>5. CASE Reorganise
  BY <1>5, ReorganiseKeeps
<1>6. CASE UNCHANGED vars
  BY <1>6 DEF vars, local, chain, DInv, TypeOK, Found, ConfirmedUnlessReorganised
<1> QED
  BY <1>1, <1>2, <1>3, <1>4, <1>5, <1>6 DEF Next

\* The inductive invariant: types, the block a request has looked up, and what
\* a confirmation is worth (ink-miner.go:259-314, 395-437).
THEOREM DrawingInvariant == Spec => []DInv
<1>1. Init => DInv
  BY DInit
<1>2. DInv /\ [Next]_vars => DInv'
  BY NextKeeps
<1> QED
  BY <1>1, <1>2, PTL DEF Spec

\* A request answered with success has the blocks it asked for after its
\* operation, as long as the operation is in the block it was found in
\* (ink-miner.go:289-313, 401-437).
THEOREM ConfirmedIsDeep == Spec => []ConfirmedUnlessReorganised
<1>1. DInv => ConfirmedUnlessReorganised
  BY DEF DInv
<1> QED
  BY <1>1, DrawingInvariant, PTL
=============================================================================
