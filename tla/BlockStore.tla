----------------------------- MODULE BlockStore -----------------------------
(***************************************************************************)
(* The block store of one miner: InsertBlock and GetLongestPath of         *)
(* miner/ink-miner.go, over the globals BlockNodeArray, BlockHashMap,      *)
(* ParentHashMap and PathMap.                                              *)
(*                                                                         *)
(* InsertBlock runs in several goroutines at once: one per PropagateBlock  *)
(* call that net/rpc serves, ProblemSolver, and ManageConnections fetching *)
(* a peer's chain.  Each map or array access takes its own mutex and the   *)
(* whole is protected by none, so a step here is one critical section.     *)
(*                                                                         *)
(* A block stands for its own hash, and indices start at 1 where Go's      *)
(* start at 0.  0 stands for a missing map entry.                          *)
(***************************************************************************)
EXTENDS Slices, FiniteSets

CONSTANTS
  Blocks,    \* the blocks some miner may present to this one
  Genesis,   \* Settings.GenesisBlockHash, the key of the dummy genesis block
  Empty,     \* blockchain.Block{}: the dummy genesis block, and its MD5 hash,
             \* which is not GenesisBlockHash in any configuration of the server
  PrevHash,  \* block -> the hash its PrevHash field holds
  Valid,     \* the blocks whose hash passes VerifyBlock
  Depth,     \* block -> its height in the tree of hashes, see DepthAssumption
  HashRank,  \* hash -> its position in the order of strings.Compare
  Threads    \* the goroutines that may run InsertBlock at one time

Hashes == Blocks \cup {Genesis, Empty}

ASSUME NamesAssumption ==
  /\ Genesis \notin Blocks
  /\ Empty \notin Blocks
  /\ Genesis # Empty

ASSUME BlocksAssumption ==
  /\ Valid \subseteq Blocks
  /\ PrevHash \in [Blocks -> Hashes]

\* A block contains its parent's hash, so hashes have no cycle.
ASSUME DepthAssumption ==
  /\ Depth \in [Hashes -> Nat \ {0}]
  /\ Depth[Genesis] = 1
  /\ Depth[Empty] = 1
  /\ \A b \in Blocks : PrevHash[b] \in Blocks \cup {Genesis}
                         => Depth[b] = Depth[PrevHash[b]] + 1

ASSUME RankAssumption ==
  /\ HashRank \in [Hashes -> Nat]
  /\ \A g, h \in Hashes : HashRank[g] = HashRank[h] => g = h

ASSUME ThreadsAssumption == IsFiniteSet(Threads)

VARIABLES
  BlockNodeArray,  \* sequence of [block, children]; children is a slice of indices
  BlockHashMap,    \* hash -> index in BlockNodeArray, 0 if absent
  ParentHashMap,   \* hash -> slice of the indices of its orphans, Nil if absent
  PathMap,         \* hash -> slice of blocks (Path; its length is Len), Nil if absent
  blockArrays,     \* heap of the backing arrays of the paths
  indexArrays,     \* heap of the backing arrays of the index lists
  pc,              \* thread -> the next critical section of its InsertBlock
  newBlock,        \* thread -> the argument of its InsertBlock, Empty when idle
  newBlockIndex,   \* thread -> the local of that name
  existingChildren,\* thread -> the local of that name, a slice of indices
  nextChild,       \* thread -> position of the loop over existingChildren
  parentIndex      \* thread -> the local of that name, 0 if the parent is absent

store  == <<BlockNodeArray, BlockHashMap, ParentHashMap, PathMap, blockArrays, indexArrays>>
locals == <<newBlock, newBlockIndex, existingChildren, nextChild, parentIndex>>
vars   == <<BlockNodeArray, BlockHashMap, ParentHashMap, PathMap, blockArrays, indexArrays, pc,
            newBlock, newBlockIndex, existingChildren, nextChild, parentIndex>>

Phases == {"idle", "readOrphans", "writeArray", "writeMap", "writePath",
           "readKids", "reroot", "link"}

Init ==
  /\ BlockNodeArray = << [block |-> Empty, children |-> Nil] >>
  /\ BlockHashMap = [h \in Hashes |-> IF h = Genesis THEN 1 ELSE 0]
  /\ ParentHashMap = [h \in Hashes |-> Nil]
  /\ PathMap = [h \in Hashes |-> IF h = Genesis THEN [arr |-> 1, len |-> 1] ELSE Nil]
  /\ blockArrays = << <<Empty>> >>
  /\ indexArrays = << >>
  /\ pc = [t \in Threads |-> "idle"]
  /\ newBlock = [t \in Threads |-> Empty]
  /\ newBlockIndex = [t \in Threads |-> 0]
  /\ existingChildren = [t \in Threads |-> Nil]
  /\ nextChild = [t \in Threads |-> 0]
  /\ parentIndex = [t \in Threads |-> 0]

-----------------------------------------------------------------------------
(* InsertBlock                                                             *)

Accepts(b) == BlockHashMap[b] = 0 /\ b \in Valid

Return(t) ==
  /\ pc' = [pc EXCEPT ![t] = "idle"]
  /\ newBlock' = [newBlock EXCEPT ![t] = Empty]
  /\ newBlockIndex' = [newBlockIndex EXCEPT ![t] = 0]
  /\ existingChildren' = [existingChildren EXCEPT ![t] = Nil]
  /\ nextChild' = [nextChild EXCEPT ![t] = 0]
  /\ parentIndex' = [parentIndex EXCEPT ![t] = 0]

\* The test at the head of InsertBlock passes.  The map is not locked from
\* here to WriteBlockChainMap.
Call(t, b) ==
  /\ pc[t] = "idle"
  /\ Accepts(b)
  /\ pc' = [pc EXCEPT ![t] = "readOrphans"]
  /\ newBlock' = [newBlock EXCEPT ![t] = b]
  /\ UNCHANGED <<newBlockIndex, existingChildren, nextChild, parentIndex>>
  /\ UNCHANGED store

\* It fails: a stored or invalid block, InsertBlock returns an error.
Reject(t, b) ==
  /\ pc[t] = "idle"
  /\ ~Accepts(b)
  /\ UNCHANGED vars

ReadOrphans(t) ==
  /\ pc[t] = "readOrphans"
  /\ existingChildren' = [existingChildren EXCEPT ![t] = ParentHashMap[newBlock[t]]]
  /\ pc' = [pc EXCEPT ![t] = "writeArray"]
  /\ UNCHANGED <<newBlock, newBlockIndex, nextChild, parentIndex>>
  /\ UNCHANGED store

\* Faulty: the index returned is the length of the longer array.
WriteBlockNodeArrayOffByOne(t) ==
  /\ pc[t] = "writeArray"
  /\ BlockNodeArray' = Append(BlockNodeArray,
                              [block |-> newBlock[t], children |-> existingChildren[t]])
  /\ newBlockIndex' = [newBlockIndex EXCEPT ![t] = Len(BlockNodeArray) + 2]
  /\ pc' = [pc EXCEPT ![t] = "writeMap"]
  /\ UNCHANGED <<newBlock, existingChildren, nextChild, parentIndex>>
  /\ UNCHANGED <<BlockHashMap, ParentHashMap, PathMap, blockArrays, indexArrays>>

\* Faulty: the new node does not take over the orphans.
WriteBlockNodeArrayChildless(t) ==
  /\ pc[t] = "writeArray"
  /\ BlockNodeArray' = Append(BlockNodeArray, [block |-> newBlock[t], children |-> Nil])
  /\ newBlockIndex' = [newBlockIndex EXCEPT ![t] = Len(BlockNodeArray) + 1]
  /\ pc' = [pc EXCEPT ![t] = "writeMap"]
  /\ UNCHANGED <<newBlock, existingChildren, nextChild, parentIndex>>
  /\ UNCHANGED <<BlockHashMap, ParentHashMap, PathMap, blockArrays, indexArrays>>

\* A block another thread has put in BlockHashMap meanwhile is not appended
\* again; one that is in the array only is.
WriteBlockNodeArray(t) ==
  /\ pc[t] = "writeArray"
  /\ LET b == newBlock[t] IN
     \/ /\ BlockHashMap[b] = 0
        /\ BlockNodeArray' = Append(BlockNodeArray,
                                    [block |-> b, children |-> existingChildren[t]])
        /\ newBlockIndex' = [newBlockIndex EXCEPT ![t] = Len(BlockNodeArray) + 1]
     \/ /\ BlockHashMap[b] # 0
        /\ newBlockIndex' = [newBlockIndex EXCEPT ![t] = BlockHashMap[b]]
        /\ UNCHANGED BlockNodeArray
  /\ pc' = [pc EXCEPT ![t] = "writeMap"]
  /\ UNCHANGED <<newBlock, existingChildren, nextChild, parentIndex>>
  /\ UNCHANGED <<BlockHashMap, ParentHashMap, PathMap, blockArrays, indexArrays>>

\* Faulty: a block without a parent is kept out of BlockHashMap.
WriteBlockChainMapReachable(t) ==
  /\ pc[t] = "writeMap"
  /\ BlockHashMap' = IF BlockHashMap[PrevHash[newBlock[t]]] = 0 THEN BlockHashMap
                     ELSE [BlockHashMap EXCEPT ![newBlock[t]] = newBlockIndex[t]]
  /\ pc' = [pc EXCEPT ![t] = "writePath"]
  /\ UNCHANGED locals
  /\ UNCHANGED <<BlockNodeArray, ParentHashMap, PathMap, blockArrays, indexArrays>>

WriteBlockChainMap(t) ==
  /\ pc[t] = "writeMap"
  /\ BlockHashMap' = [BlockHashMap EXCEPT ![newBlock[t]] = newBlockIndex[t]]
  /\ pc' = [pc EXCEPT ![t] = "writePath"]
  /\ UNCHANGED locals
  /\ UNCHANGED <<BlockNodeArray, ParentHashMap, PathMap, blockArrays, indexArrays>>

WriteSomePath(t, path, heap) ==
  /\ pc[t] = "writePath"
  /\ blockArrays' = heap
  /\ PathMap' = [PathMap EXCEPT ![newBlock[t]] = path]
  /\ pc' = [pc EXCEPT ![t] = "readKids"]
  /\ UNCHANGED locals
  /\ UNCHANGED <<BlockNodeArray, BlockHashMap, ParentHashMap, indexArrays>>

\* Faulty: an orphan's path starts at the genesis block.
WritePathFromGenesis(t) ==
  LET b        == newBlock[t]
      existing == IF PathMap[PrevHash[b]] = Nil THEN PathMap[Genesis] ELSE PathMap[PrevHash[b]]
  IN  WriteSomePath(t, Appended(blockArrays, existing),
                    HeapAfterAppend(blockArrays, existing, b, Empty))

\* Faulty: Len is not incremented.
WritePathShort(t) ==
  LET existing == PathMap[PrevHash[newBlock[t]]]
  IN  WriteSomePath(t, IF existing = Nil THEN Fresh(blockArrays, 1) ELSE existing,
                    IF existing = Nil THEN Append(blockArrays, <<newBlock[t]>>) ELSE blockArrays)

\* One critical section of PathMapMutex: the parent's path, read and extended.
WritePath(t) ==
  /\ pc[t] = "writePath"
  /\ LET b        == newBlock[t]
         existing == PathMap[PrevHash[b]] IN
     \/ /\ existing # Nil
        /\ blockArrays' = HeapAfterAppend(blockArrays, existing, b, Empty)
        /\ PathMap' = [PathMap EXCEPT ![b] = Appended(blockArrays, existing)]
     \/ /\ existing = Nil
        /\ blockArrays' = Append(blockArrays, <<b>>)
        /\ PathMap' = [PathMap EXCEPT ![b] = Fresh(blockArrays, 1)]
  /\ pc' = [pc EXCEPT ![t] = "readKids"]
  /\ UNCHANGED locals
  /\ UNCHANGED <<BlockNodeArray, BlockHashMap, ParentHashMap, indexArrays>>

ReadKids(t) ==
  /\ pc[t] = "readKids"
  /\ existingChildren' = [existingChildren EXCEPT ![t] = ParentHashMap[newBlock[t]]]
  /\ nextChild' = [nextChild EXCEPT ![t] = 1]
  /\ pc' = [pc EXCEPT ![t] = "reroot"]
  /\ UNCHANGED <<newBlock, newBlockIndex, parentIndex>>
  /\ UNCHANGED store

\* One turn of the loop over the orphans.  The newPathInfo in scope is the
\* outer one, <<newBlock>> of length 1 in an array of its own that is full:
\* append() copies it.
RerootChild(t) ==
  /\ pc[t] = "reroot"
  /\ nextChild[t] <= existingChildren[t].len
  /\ LET child == BlockNodeArray[At(indexArrays, existingChildren[t], nextChild[t])].block IN
     /\ blockArrays' = Append(blockArrays, <<newBlock[t], child>>)
     /\ PathMap' = [PathMap EXCEPT ![child] = Fresh(blockArrays, 2)]
  /\ nextChild' = [nextChild EXCEPT ![t] = @ + 1]
  /\ UNCHANGED <<pc, newBlock, newBlockIndex, existingChildren, parentIndex>>
  /\ UNCHANGED <<BlockNodeArray, BlockHashMap, ParentHashMap, indexArrays>>

\* The end of the loop and the lookup of the parent.
FindParent(t) ==
  /\ pc[t] = "reroot"
  /\ nextChild[t] > existingChildren[t].len
  /\ parentIndex' = [parentIndex EXCEPT ![t] = BlockHashMap[PrevHash[newBlock[t]]]]
  /\ pc' = [pc EXCEPT ![t] = "link"]
  /\ UNCHANGED <<newBlock, newBlockIndex, existingChildren, nextChild>>
  /\ UNCHANGED store

LinkParent(t) ==
  /\ pc[t] = "link"
  /\ parentIndex[t] # 0
  /\ LET children == BlockNodeArray[parentIndex[t]].children IN
     /\ indexArrays' = HeapAfterAppend(indexArrays, children, newBlockIndex[t], 0)
     /\ BlockNodeArray' = [BlockNodeArray EXCEPT
                             ![parentIndex[t]].children = Appended(indexArrays, children)]
  /\ Return(t)
  /\ UNCHANGED <<BlockHashMap, ParentHashMap, PathMap, blockArrays>>

\* Faulty: the orphan is filed under its own hash.
LinkOrphanUnderItself(t) ==
  /\ pc[t] = "link"
  /\ parentIndex[t] = 0
  /\ LET orphans == ParentHashMap[newBlock[t]] IN
     /\ indexArrays' = HeapAfterAppend(indexArrays, orphans, newBlockIndex[t], 0)
     /\ ParentHashMap' = [ParentHashMap EXCEPT ![newBlock[t]] = Appended(indexArrays, orphans)]
  /\ Return(t)
  /\ UNCHANGED <<BlockNodeArray, BlockHashMap, PathMap, blockArrays>>

\* Faulty: the orphan replaces those that wait for the same parent.
LinkOrphanReplacing(t) ==
  /\ pc[t] = "link"
  /\ parentIndex[t] = 0
  /\ indexArrays' = Append(indexArrays, <<newBlockIndex[t]>>)
  /\ ParentHashMap' = [ParentHashMap EXCEPT ![PrevHash[newBlock[t]]] = Fresh(indexArrays, 1)]
  /\ Return(t)
  /\ UNCHANGED <<BlockNodeArray, BlockHashMap, PathMap, blockArrays>>

LinkOrphan(t) ==
  /\ pc[t] = "link"
  /\ parentIndex[t] = 0
  /\ LET prev    == PrevHash[newBlock[t]]
         orphans == ParentHashMap[prev] IN
     /\ indexArrays' = HeapAfterAppend(indexArrays, orphans, newBlockIndex[t], 0)
     /\ ParentHashMap' = [ParentHashMap EXCEPT ![prev] = Appended(indexArrays, orphans)]
  /\ Return(t)
  /\ UNCHANGED <<BlockNodeArray, BlockHashMap, PathMap, blockArrays>>

Step(t) ==
  \/ ReadOrphans(t)
  \/ WriteBlockNodeArray(t)
  \/ WriteBlockChainMap(t)
  \/ WritePath(t)
  \/ ReadKids(t)
  \/ RerootChild(t)
  \/ FindParent(t)
  \/ LinkParent(t)
  \/ LinkOrphan(t)

Next == \E t \in Threads : Step(t) \/ \E b \in Blocks : Call(t, b) \/ Reject(t, b)

Spec == Init /\ [][Next]_vars

-----------------------------------------------------------------------------
(* GetLongestPath of the genesis hash, the only hash it is asked about     *)

Stored(h) == BlockHashMap[h] # 0

Path(h) == [k \in 1..PathMap[h].len |-> At(blockArrays, PathMap[h], k)]

\* Faulty: ties go to the smaller hash.
LongestTipSmallerHash ==
  CHOOSE h \in Hashes :
    /\ PathMap[h] # Nil
    /\ \A g \in Hashes \ {h} :
         \/ PathMap[g].len < PathMap[h].len
         \/ PathMap[g].len = PathMap[h].len /\ HashRank[g] > HashRank[h]

\* The longest entry of PathMap; of two as long, the one with the larger hash.
LongestTip ==
  CHOOSE h \in Hashes :
    /\ PathMap[h] # Nil
    /\ \A g \in Hashes \ {h} :
         \/ PathMap[g].len < PathMap[h].len
         \/ PathMap[g].len = PathMap[h].len /\ HashRank[g] < HashRank[h]

GetLongestPath == Path(LongestTip)

-----------------------------------------------------------------------------
(* Properties                                                              *)

\* The hash an entry of BlockNodeArray is known under.
EntryHash(i) == IF i = 1 THEN Genesis ELSE BlockNodeArray[i].block

\* Type invariant of the store and of the locals of InsertBlock.
TypeOK ==
  /\ BlockNodeArray \in Seq([block : Blocks \cup {Empty}, children : SlicesOf(indexArrays)])
  /\ BlockHashMap \in [Hashes -> 0..Len(BlockNodeArray)]
  /\ ParentHashMap \in [Hashes -> SlicesOf(indexArrays)]
  /\ PathMap \in [Hashes -> SlicesOf(blockArrays)]
  /\ blockArrays \in Seq(Seq(Blocks \cup {Empty}))
  /\ indexArrays \in Seq(Seq(0..Len(BlockNodeArray)))
  /\ pc \in [Threads -> Phases]
  /\ newBlock \in [Threads -> Blocks \cup {Empty}]
  /\ newBlockIndex \in [Threads -> 0..Len(BlockNodeArray)]
  /\ existingChildren \in [Threads -> SlicesOf(indexArrays)]
  /\ nextChild \in [Threads -> Nat]
  /\ parentIndex \in [Threads -> 0..Len(BlockNodeArray)]

\* The slices that list children of hash h: the orphans waiting for it, the
\* children of its entries, and what a thread inserting it has read.
ChildLists(h) ==
  {ParentHashMap[h]}
  \cup {BlockNodeArray[i].children : i \in {j \in 1..Len(BlockNodeArray) : EntryHash(j) = h}}
  \cup {existingChildren[t] : t \in {u \in Threads : newBlock[u] = h}}

\* The blocks those slices name.
ListedUnder(h) ==
  UNION {{BlockNodeArray[i].block : i \in Cells(indexArrays, s)} : s \in ChildLists(h)}

\* Every index a list of children holds is the index of a real entry whose
\* block names that hash as its parent, whatever threads share the array the
\* list lies in, and every index in BlockHashMap is an entry of that hash
\* (lines 541, 566-569, 582-591).
LinksAreReal ==
  /\ \A h \in Hashes : \A s \in ChildLists(h) : \A i \in Cells(indexArrays, s) :
       /\ i \in 2..Len(BlockNodeArray)
       /\ PrevHash[BlockNodeArray[i].block] = h
  /\ \A h \in Hashes : Stored(h) => EntryHash(BlockHashMap[h]) = h

\* PathMap never credits a block with more height than its chain of hashes
\* has, and the k-th block of a path is never lower than k, although paths
\* share arrays (line 555) and are rewritten for orphans (line 571): no fork
\* can win GetLongestPath by a length it does not have.
LengthNeverOverstated ==
  \A h \in Hashes : \A k \in 1..PathMap[h].len :
    /\ PathMap[h].len <= Depth[h]
    /\ k <= Depth[At(blockArrays, PathMap[h], k)]

CopiesOf(b) == {i \in 2..Len(BlockNodeArray) : BlockNodeArray[i].block = b}

\* The check in WriteBlockNodeArray (lines 729-735) cannot keep two threads
\* from storing a block twice, but there are never more copies of a block
\* than threads: a copy lies between its own append and BlockHashMap's entry.
CopiesBounded == \A b \in Blocks : Cardinality(CopiesOf(b)) <= Cardinality(Threads)

-----------------------------------------------------------------------------
(* Properties of a store whose InsertBlock calls do not overlap, and       *)
(* promises of the comments that forks and overlap break                   *)

Quiet == \A t \in Threads : pc[t] = "idle"

\* The blocks a hash is built on.
Ancestors[b \in Blocks] ==
  IF PrevHash[b] \in Blocks THEN {PrevHash[b]} \cup Ancestors[PrevHash[b]] ELSE {}

\* A stored block that descends from the genesis block, each of whose
\* ancestors was stored before the next one.
InOrder(b) ==
  /\ \E a \in Ancestors[b] \cup {b} : PrevHash[a] = Genesis
  /\ \A a \in Ancestors[b] \cup {b} :
       /\ Stored(a)
       /\ BlockHashMap[PrevHash[a]] \in 1..(BlockHashMap[a] - 1)

\* Once no call is under way, each entry lists each stored child of its block
\* once, and nothing else: the children that came before their parent, those
\* that came after, and those of a parent that shares its orphans' array
\* (lines 541-542, 582-591).
ChildrenExact ==
  Quiet => \A i \in 1..Len(BlockNodeArray) :
    LET s == BlockNodeArray[i].children IN
    /\ Cardinality(Cells(indexArrays, s)) = s.len
    /\ Cells(indexArrays, s) =
         {j \in 2..Len(BlockNodeArray) : PrevHash[BlockNodeArray[j].block] = EntryHash(i)}

\* A block that arrived after all of its ancestors is counted at its full
\* height, its path holds one block of each height, and GetLongestPath is at
\* least as long: forks and the orphans among the other blocks do not hide a
\* chain (lines 550-562, 645-662).
InOrderChainsCount ==
  Quiet => \A b \in Blocks : InOrder(b) =>
    /\ PathMap[b].len = Depth[b]
    /\ \A k \in 1..Depth[b] : Depth[Path(b)[k]] = k
    /\ Len(GetLongestPath) >= Depth[b]

\* The tip moves to a longer path, or to one as long with a larger hash, and
\* never back: rewriting the paths of orphans does not shorten the chain
\* miners build on (lines 547-572, 649-660).
TipOnlyImproves ==
  [][LongestTip' # LongestTip
       => \/ PathMap'[LongestTip'].len > PathMap[LongestTip].len
          \/ /\ PathMap'[LongestTip'].len = PathMap[LongestTip].len
             /\ HashRank[LongestTip'] > HashRank[LongestTip]]_vars

\* ink-miner.go:71 says that an entry of PathMap "contains the path up until
\* itself (inclusive)".
PathEndsInItself ==
  \A b \in Blocks : PathMap[b] # Nil => Path(b)[PathMap[b].len] = b

\* ink-miner.go:581 says of a block whose parent is missing that "When the
\* parent arrives, it will append all the pending children in ParentHashMap".
OrphansAreAdopted ==
  Quiet => \A b \in Blocks :
    Stored(b) /\ Stored(PrevHash[b])
      => b \in {BlockNodeArray[i].block :
                  i \in Cells(indexArrays, BlockNodeArray[BlockHashMap[PrevHash[b]]].children)}

-----------------------------------------------------------------------------
\* The store is a tree of blocks that only grows: see BlockTree.
Tree == INSTANCE BlockTree WITH kids <- [h \in Hashes |-> ListedUnder(h)]

TreeSpec == Tree!Spec
=============================================================================
