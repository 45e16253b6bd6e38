-------------------------- MODULE BlockStoreProofs --------------------------
(***************************************************************************)
(* The store's types, links and path heights hold for any set of blocks    *)
(* and any number of threads.  When calls of InsertBlock do not overlap,   *)
(* lists of children are exact, the store implements BlockTree, chains     *)
(* that came in order count in full, and the tip only improves.            *)
(***************************************************************************)
EXTENDS BlockStore, FoldLemmas

(* What append() does to the slices that are already there.                *)

\* Headers into a heap have natural lengths within the capacity.
LEMMA SliceFacts ==
  ASSUME NEW S, NEW heap \in Seq(Seq(S)), NEW s \in SlicesOf(heap)
  PROVE  /\ s.len \in Nat
         /\ s.arr \in 0..Len(heap)
         /\ Cap(heap, s) \in Nat
         /\ s.len <= Cap(heap, s)
         /\ (s.arr = 0) <=> (s.len = 0)
         /\ s.arr # 0 => /\ s.arr \in 1..Len(heap)
                         /\ heap[s.arr] \in Seq(S)
                         /\ Cap(heap, s) = Len(heap[s.arr])
         /\ \A k \in 1..Cap(heap, s) : At(heap, s, k) \in S
<1>1. CASE s = Nil
  BY <1>1 DEF Nil, Cap, At
<1>2. CASE s # Nil
  <2>1. /\ s \in [arr : 1..Len(heap), len : Nat \ {0}]
        /\ s.len <= Len(heap[s.arr])
    BY <1>2 DEF SlicesOf
  <2>2. heap[s.arr] \in Seq(S)
    BY <2>1, ElementOfSeq
  <2>3. Len(heap[s.arr]) \in Nat
    BY <2>2, LenProperties
  <2> QED
    BY <2>1, <2>2, <2>3, ElementOfSeq DEF Cap, At
<1> QED
  BY <1>1, <1>2

\* The array append() allocates holds the old elements and the new one.
LEMMA GrownFacts ==
  ASSUME NEW S, NEW heap \in Seq(Seq(S)), NEW s \in SlicesOf(heap),
         NEW x \in S, NEW zero \in S
  PROVE  /\ Grown(heap, s, x, zero) \in Seq(S)
         /\ Len(Grown(heap, s, x, zero)) >= s.len + 1
         /\ \A k \in 1..s.len : Grown(heap, s, x, zero)[k] = At(heap, s, k)
         /\ Grown(heap, s, x, zero)[s.len + 1] = x
         /\ \A k \in 1..Len(Grown(heap, s, x, zero)) :
              k > s.len + 1 => Grown(heap, s, x, zero)[k] = zero
<1> DEFINE n == IF s.len = 0 THEN 1 ELSE 2 * s.len
<1>1. /\ s.len \in Nat
      /\ s.len <= Cap(heap, s)
      /\ Cap(heap, s) \in Nat
      /\ \A k \in 1..Cap(heap, s) : At(heap, s, k) \in S
  BY SliceFacts
<1>2. n \in Nat /\ n >= s.len + 1
  BY <1>1
<1>3. \A k \in 1..s.len : At(heap, s, k) \in S
  BY <1>1
<1>4. Grown(heap, s, x, zero) \in [1..n -> S]
  <2> HIDE DEF n
  <2>1. Grown(heap, s, x, zero) =
          [k \in 1..n |-> IF k <= s.len THEN At(heap, s, k)
                          ELSE IF k = s.len + 1 THEN x ELSE zero]
    BY DEF Grown, n
  <2>2. \A k \in 1..n : k <= s.len => At(heap, s, k) \in S
    BY <1>1, <1>2, <1>3
  <2> QED
    BY <2>1, <2>2
<1>5. Grown(heap, s, x, zero) \in Seq(S) /\ Len(Grown(heap, s, x, zero)) = n
  <2> HIDE DEF n
  <2> QED BY <1>2, <1>4
<1> QED
  <2>1. \A k \in 1..n : Grown(heap, s, x, zero)[k] =
          IF k <= s.len THEN At(heap, s, k) ELSE IF k = s.len + 1 THEN x ELSE zero
    BY DEF Grown
  <2> HIDE DEF n
  <2> QED
    BY <1>1, <1>2, <1>5, <2>1

\* A new array at the end of the heap changes no array that is there.
LEMMA NewArrayFacts ==
  ASSUME NEW S, NEW heap \in Seq(Seq(S)), NEW a \in Seq(S)
  PROVE  /\ Append(heap, a) \in Seq(Seq(S))
         /\ Len(Append(heap, a)) = Len(heap) + 1
         /\ Append(heap, a)[Len(heap) + 1] = a
         /\ \A i \in 1..Len(heap) : Append(heap, a)[i] = heap[i]
BY AppendProperties

\* A heap whose arrays are kept at their capacity keeps its slices.
LEMMA SlicesKept ==
  ASSUME NEW S, NEW heap \in Seq(Seq(S)), NEW heap2 \in Seq(Seq(S)),
         Len(heap) <= Len(heap2),
         \A i \in 1..Len(heap) : Len(heap2[i]) = Len(heap[i])
  PROVE  /\ SlicesOf(heap) \subseteq SlicesOf(heap2)
         /\ \A r \in SlicesOf(heap) : Cap(heap2, r) = Cap(heap, r)
<1>1. Len(heap) \in Nat /\ Len(heap2) \in Nat
  OBVIOUS
<1>2. SUFFICES ASSUME NEW r \in SlicesOf(heap)
               PROVE  r \in SlicesOf(heap2) /\ Cap(heap2, r) = Cap(heap, r)
  OBVIOUS
<1>3. CASE r = Nil
  BY <1>3 DEF SlicesOf, Cap, Nil
<1>4. CASE r # Nil
  BY <1>1, <1>4 DEF SlicesOf, Cap
<1> QED
  BY <1>3, <1>4

\* A slice of the whole of a new array.
LEMMA NewSliceSpec ==
  ASSUME NEW S, NEW heap \in Seq(Seq(S)), NEW a \in Seq(S), NEW n \in Nat, n >= 1, Len(a) = n,
         NEW heap2, heap2 = Append(heap, a)
  PROVE  /\ heap2 \in Seq(Seq(S))
         /\ SlicesOf(heap) \subseteq SlicesOf(heap2)
         /\ Fresh(heap, n) \in SlicesOf(heap2)
         /\ \A q \in SlicesOf(heap) :
              /\ Cap(heap2, q) = Cap(heap, q)
              /\ \A k \in 1..Cap(heap, q) : At(heap2, q, k) = At(heap, q, k)
         /\ \A k \in 1..n : At(heap2, Fresh(heap, n), k) = a[k]
<1>1. /\ heap2 \in Seq(Seq(S)) /\ Len(heap2) = Len(heap) + 1
      /\ heap2[Len(heap) + 1] = a
      /\ \A i \in 1..Len(heap) : heap2[i] = heap[i]
      /\ Len(heap) \in Nat
  BY NewArrayFacts
<1>2. /\ SlicesOf(heap) \subseteq SlicesOf(heap2)
      /\ \A q \in SlicesOf(heap) : Cap(heap2, q) = Cap(heap, q)
  <2>1. Len(heap) <= Len(heap2) /\ \A i \in 1..Len(heap) : Len(heap2[i]) = Len(heap[i])
    BY <1>1
  <2> QED
    BY <1>1, <2>1, SlicesKept
<1>3. Fresh(heap, n) \in SlicesOf(heap2)
  BY <1>1 DEF SlicesOf, Fresh
<1>4. \A k \in 1..n : At(heap2, Fresh(heap, n), k) = a[k]
  BY <1>1 DEF At, Fresh
<1>5. ASSUME NEW q \in SlicesOf(heap), NEW k \in 1..Cap(heap, q)
      PROVE  At(heap2, q, k) = At(heap, q, k)
  <2>1. q.arr \in 1..Len(heap)
    BY <1>5, SliceFacts DEF Cap
  <2> QED
    BY <2>1, <1>1 DEF At
<1> QED
  BY <1>1, <1>2, <1>3, <1>4, <1>5

LEMMA NewSliceFacts ==
  ASSUME NEW S, NEW heap \in Seq(Seq(S)), NEW a \in Seq(S), NEW n \in Nat, n >= 1, Len(a) = n,
         NEW heap2, heap2 = Append(heap, a)
  PROVE  /\ heap2 \in Seq(Seq(S))
         /\ SlicesOf(heap) \subseteq SlicesOf(heap2)
         /\ Fresh(heap, n) \in SlicesOf(heap2)
BY NewSliceSpec

LEMMA NewSliceKeepsCells ==
  ASSUME NEW S, NEW heap \in Seq(Seq(S)), NEW a \in Seq(S),
         NEW heap2, heap2 = Append(heap, a),
         NEW q \in SlicesOf(heap), NEW k \in 1..Cap(heap, q)
  PROVE  At(heap2, q, k) = At(heap, q, k)
<1>1. \A i \in 1..Len(heap) : heap2[i] = heap[i]
  BY NewArrayFacts
<1>2. q.arr \in 1..Len(heap)
  BY SliceFacts DEF Cap
<1> QED
  BY <1>1, <1>2 DEF At

\* append(s, x) keeps every slice of the heap, and the arrays' capacities; the
\* only cell it changes is the one after s in the array of s.  The result reads
\* as s followed by x.
LEMMA AppendSpec ==
  ASSUME NEW S, NEW heap \in Seq(Seq(S)), NEW s \in SlicesOf(heap),
         NEW x \in S, NEW zero \in S
  PROVE  LET heap2 == HeapAfterAppend(heap, s, x, zero)
             r     == Appended(heap, s)
         IN  /\ heap2 \in Seq(Seq(S))
             /\ SlicesOf(heap) \subseteq SlicesOf(heap2)
             /\ r \in SlicesOf(heap2)
             /\ r.len = s.len + 1
             /\ \A k \in 1..s.len : At(heap2, r, k) = At(heap, s, k)
             /\ At(heap2, r, s.len + 1) = x
             /\ \A q \in SlicesOf(heap) :
                  /\ Cap(heap2, q) = Cap(heap, q)
                  /\ \A k \in 1..Cap(heap, q) :
                       \/ At(heap2, q, k) = At(heap, q, k)
                       \/ /\ At(heap2, q, k) = x
                          /\ q.arr = s.arr
                          /\ s.len >= 1
                          /\ k = s.len + 1
             /\ \A k \in 1..Cap(heap2, r) :
                  \/ k = s.len + 1
                  \/ At(heap2, r, k) = zero /\ k > s.len
                  \/ k <= Cap(heap, s) /\ At(heap2, r, k) = At(heap, s, k)
<1> DEFINE heap2 == HeapAfterAppend(heap, s, x, zero)
           r     == Appended(heap, s)
<1>1. /\ s.len \in Nat /\ s.arr \in 0..Len(heap) /\ Cap(heap, s) \in Nat
      /\ s.len <= Cap(heap, s)
      /\ (s.arr = 0) <=> (s.len = 0)
      /\ s.arr # 0 => /\ s.arr \in 1..Len(heap)
                      /\ heap[s.arr] \in Seq(S)
                      /\ Cap(heap, s) = Len(heap[s.arr])
  BY SliceFacts
<1>2. Len(heap) \in Nat
  OBVIOUS
<1>3. CASE HasRoom(heap, s)
  <2>1. s.arr \in 1..Len(heap) /\ s.len >= 1 /\ s.len + 1 \in 1..Len(heap[s.arr])
    BY <1>1, <1>3 DEF HasRoom, Cap
  <2>2. heap2 = [heap EXCEPT ![s.arr] = [heap[s.arr] EXCEPT ![s.len + 1] = x]]
    BY <1>3 DEF HeapAfterAppend
  <2>3. /\ [heap[s.arr] EXCEPT ![s.len + 1] = x] \in Seq(S)
        /\ Len([heap[s.arr] EXCEPT ![s.len + 1] = x]) = Len(heap[s.arr])
        /\ \A k \in 1..Len(heap[s.arr]) :
             [heap[s.arr] EXCEPT ![s.len + 1] = x][k]
               = IF k = s.len + 1 THEN x ELSE heap[s.arr][k]
    BY <1>1, <2>1, ExceptSeq
  <2>4. /\ heap2 \in Seq(Seq(S))
        /\ Len(heap2) = Len(heap)
        /\ \A i \in 1..Len(heap) :
             heap2[i] = IF i = s.arr THEN [heap[s.arr] EXCEPT ![s.len + 1] = x] ELSE heap[i]
    BY <2>1, <2>2, <2>3, ExceptSeq
  <2>5. \A i \in 1..Len(heap) : Len(heap2[i]) = Len(heap[i])
    BY <2>3, <2>4
  <2>6. r = [arr |-> s.arr, len |-> s.len + 1]
    BY <1>3 DEF Appended
  <2> HIDE DEF heap2, r
  <2>7. /\ SlicesOf(heap) \subseteq SlicesOf(heap2)
        /\ \A q \in SlicesOf(heap) : Cap(heap2, q) = Cap(heap, q)
    <3>1. Len(heap) <= Len(heap2) /\ \A i \in 1..Len(heap) : Len(heap2[i]) = Len(heap[i])
      BY <1>2, <2>4, <2>5
    <3> QED
      BY <3>1, <2>4, SlicesKept
  <2>8. r \in SlicesOf(heap2) /\ Cap(heap2, r) = Len(heap[s.arr])
    BY <1>1, <2>1, <2>4, <2>5, <2>6 DEF SlicesOf, Cap
  <2>9. \A k \in 1..Cap(heap2, r) :
          At(heap2, r, k) = IF k = s.len + 1 THEN x ELSE At(heap, s, k)
    BY <2>1, <2>3, <2>4, <2>6, <2>8 DEF At
  <2>10. ASSUME NEW q \in SlicesOf(heap), NEW k \in 1..Cap(heap, q)
         PROVE  \/ At(heap2, q, k) = At(heap, q, k)
                \/ /\ At(heap2, q, k) = x
                   /\ q.arr = s.arr
                   /\ s.len >= 1
                   /\ k = s.len + 1
    <3>1. q.arr \in 1..Len(heap) /\ Cap(heap, q) = Len(heap[q.arr])
      BY <2>10, SliceFacts DEF Cap
    <3> QED
      BY <3>1, <2>1, <2>3, <2>4 DEF At
  <2>11. r.len = s.len + 1
    BY <2>6
  <2>12. /\ \A k \in 1..s.len : At(heap2, r, k) = At(heap, s, k)
         /\ At(heap2, r, s.len + 1) = x
    <3>1. /\ Cap(heap2, r) \in Nat /\ s.len + 1 \in 1..Cap(heap2, r)
          /\ \A k \in 1..s.len : k \in 1..Cap(heap2, r) /\ k # s.len + 1
      BY <1>1, <2>1, <2>8
    <3> QED
      BY <3>1, <2>9
  <2>13. \A k \in 1..Cap(heap2, r) :
           \/ k = s.len + 1
           \/ At(heap2, r, k) = zero /\ k > s.len
           \/ k <= Cap(heap, s) /\ At(heap2, r, k) = At(heap, s, k)
    BY <1>1, <2>1, <2>8, <2>9
  <2> QED
    BY <2>4, <2>7, <2>8, <2>10, <2>11, <2>12, <2>13 DEF heap2, r
<1>4. CASE ~HasRoom(heap, s)
  <2> DEFINE g == Grown(heap, s, x, zero)
  <2>1. s.len = Cap(heap, s)
    BY <1>1, <1>4 DEF HasRoom
  <2>2. /\ g \in Seq(S) /\ Len(g) >= s.len + 1 /\ Len(g) \in Nat
        /\ \A k \in 1..s.len : g[k] = At(heap, s, k)
        /\ g[s.len + 1] = x
        /\ \A k \in 1..Len(g) : k > s.len + 1 => g[k] = zero
    <3>1. g \in Seq(S)
      BY GrownFacts
    <3> QED
      BY <3>1, GrownFacts, LenProperties
  <2>3. heap2 = Append(heap, g) /\ r = [arr |-> Len(heap) + 1, len |-> s.len + 1]
    BY <1>4 DEF HeapAfterAppend, Appended
  <2> HIDE DEF g, heap2, r
  <2>4. /\ heap2 \in Seq(Seq(S)) /\ Len(heap2) = Len(heap) + 1
        /\ heap2[Len(heap) + 1] = g
        /\ \A i \in 1..Len(heap) : heap2[i] = heap[i]
    BY <2>2, <2>3, NewArrayFacts
  <2>5. /\ SlicesOf(heap) \subseteq SlicesOf(heap2)
        /\ \A q \in SlicesOf(heap) : Cap(heap2, q) = Cap(heap, q)
    <3>1. Len(heap) <= Len(heap2)
      BY <1>2, <2>4
    <3>2. ASSUME NEW i \in 1..Len(heap) PROVE Len(heap2[i]) = Len(heap[i])
      BY <2>4
    <3> QED
      BY <3>1, <3>2, <2>4, SlicesKept
  <2>6. r \in SlicesOf(heap2) /\ Cap(heap2, r) = Len(g)
    BY <1>1, <1>2, <2>2, <2>3, <2>4 DEF SlicesOf, Cap
  <2>7. \A k \in 1..Len(g) : At(heap2, r, k) = g[k]
    BY <2>3, <2>4 DEF At
  <2>8. ASSUME NEW q \in SlicesOf(heap), NEW k \in 1..Cap(heap, q)
        PROVE  At(heap2, q, k) = At(heap, q, k)
    <3>1. q.arr \in 1..Len(heap)
      BY <2>8, SliceFacts DEF Cap
    <3> QED
      BY <3>1, <2>4 DEF At
  <2>9. \A k \in 1..Cap(heap2, r) :
          \/ k = s.len + 1
          \/ At(heap2, r, k) = zero /\ k > s.len
          \/ k <= Cap(heap, s) /\ At(heap2, r, k) = At(heap, s, k)
    BY <1>1, <2>1, <2>2, <2>6, <2>7
  <2>10. r.len = s.len + 1
    BY <2>3
  <2>11. /\ \A k \in 1..s.len : At(heap2, r, k) = At(heap, s, k)
         /\ At(heap2, r, s.len + 1) = x
    <3>1. Len(g) \in Nat /\ s.len + 1 \in 1..Len(g) /\ \A k \in 1..s.len : k \in 1..Len(g)
      BY <1>1, <2>2
    <3> QED
      BY <3>1, <2>2, <2>7
  <2> QED
    BY <2>4, <2>5, <2>6, <2>8, <2>9, <2>10, <2>11 DEF heap2, r
<1> QED
  BY <1>3, <1>4

\* The parts of it, one lemma for each thing a proof asks of append().
LEMMA AppendTypes ==
  ASSUME NEW S, NEW heap \in Seq(Seq(S)), NEW s \in SlicesOf(heap),
         NEW x \in S, NEW zero \in S
  PROVE  /\ HeapAfterAppend(heap, s, x, zero) \in Seq(Seq(S))
         /\ SlicesOf(heap) \subseteq SlicesOf(HeapAfterAppend(heap, s, x, zero))
         /\ Appended(heap, s) \in SlicesOf(HeapAfterAppend(heap, s, x, zero))
         /\ Appended(heap, s).len = s.len + 1
BY AppendSpec

LEMMA AppendKeepsCap ==
  ASSUME NEW S, NEW heap \in Seq(Seq(S)), NEW s \in SlicesOf(heap),
         NEW x \in S, NEW zero \in S, NEW q \in SlicesOf(heap)
  PROVE  Cap(HeapAfterAppend(heap, s, x, zero), q) = Cap(heap, q)
BY AppendSpec

LEMMA AppendKeepsCells ==
  ASSUME NEW S, NEW heap \in Seq(Seq(S)), NEW s \in SlicesOf(heap),
         NEW x \in S, NEW zero \in S,
         NEW q \in SlicesOf(heap), NEW k \in 1..Cap(heap, q)
  PROVE  \/ At(HeapAfterAppend(heap, s, x, zero), q, k) = At(heap, q, k)
         \/ /\ At(HeapAfterAppend(heap, s, x, zero), q, k) = x
            /\ q.arr = s.arr
            /\ s.len >= 1
            /\ k = s.len + 1
BY AppendSpec

LEMMA AppendedCells ==
  ASSUME NEW S, NEW heap \in Seq(Seq(S)), NEW s \in SlicesOf(heap),
         NEW x \in S, NEW zero \in S
  PROVE  /\ At(HeapAfterAppend(heap, s, x, zero), Appended(heap, s), s.len + 1) = x
         /\ \A k \in 1..s.len :
              At(HeapAfterAppend(heap, s, x, zero), Appended(heap, s), k) = At(heap, s, k)
BY AppendSpec

LEMMA AppendedRest ==
  ASSUME NEW S, NEW heap \in Seq(Seq(S)), NEW s \in SlicesOf(heap),
         NEW x \in S, NEW zero \in S,
         NEW k \in 1..Cap(HeapAfterAppend(heap, s, x, zero), Appended(heap, s))
  PROVE  \/ k = s.len + 1
         \/ At(HeapAfterAppend(heap, s, x, zero), Appended(heap, s), k) = zero /\ k > s.len
         \/ /\ k <= Cap(heap, s)
            /\ At(HeapAfterAppend(heap, s, x, zero), Appended(heap, s), k) = At(heap, s, k)
BY AppendSpec

-----------------------------------------------------------------------------
(***************************************************************************)
(* The inductive invariant.  LinksAreReal alone is not inductive: append() *)
(* through one slice writes a cell another slice may come to see, so the   *)
(* invariant speaks of every cell of an array a list lies in.              *)
(***************************************************************************)

\* Index i is an entry whose block names hash h as its parent.
IsChild(i, h) == i \in 2..Len(BlockNodeArray) /\ PrevHash[BlockNodeArray[i].block] = h

\* The cells of s hold children of h; the rest of its array, such or nothing.
GoodList(s, h) ==
  \A k \in 1..Cap(indexArrays, s) :
    \/ IsChild(At(indexArrays, s, k), h)
    \/ k > s.len /\ At(indexArrays, s, k) = 0

Busy ==
  \A t \in Threads :
    IF pc[t] = "idle" THEN newBlock[t] = Empty /\ existingChildren[t] = Nil
                      ELSE newBlock[t] \in Valid

Entries ==
  /\ Len(BlockNodeArray) >= 1
  /\ BlockNodeArray[1].block = Empty
  /\ \A i \in 2..Len(BlockNodeArray) : BlockNodeArray[i].block \in Valid

Indices ==
  /\ \A h \in Hashes : Stored(h) => EntryHash(BlockHashMap[h]) = h
  /\ \A t \in Threads :
       /\ pc[t] \in {"writeMap", "writePath", "readKids", "reroot", "link"}
            => /\ newBlockIndex[t] \in 2..Len(BlockNodeArray)
               /\ BlockNodeArray[newBlockIndex[t]].block = newBlock[t]
       /\ pc[t] = "link" /\ parentIndex[t] # 0
            => EntryHash(parentIndex[t]) = PrevHash[newBlock[t]]
       /\ pc[t] = "reroot" => nextChild[t] >= 1

Lists ==
  /\ \A h \in Hashes : GoodList(ParentHashMap[h], h)
  /\ \A i \in 1..Len(BlockNodeArray) : GoodList(BlockNodeArray[i].children, EntryHash(i))
  /\ \A t \in Threads : GoodList(existingChildren[t], newBlock[t])

IInv == TypeOK /\ Busy /\ Entries /\ Indices /\ Lists

LEMMA HashFacts ==
  /\ Genesis \in Hashes /\ Empty \in Hashes /\ Blocks \subseteq Hashes
  /\ \A b \in Blocks : PrevHash[b] \in Hashes
  /\ Valid \subseteq Blocks
  /\ Genesis \notin Blocks /\ Empty \notin Blocks
BY NamesAssumption, BlocksAssumption DEF Hashes

\* The parts of TypeOK in the form the steps use.
LEMMA TypeFacts ==
  ASSUME TypeOK
  PROVE  /\ Len(BlockNodeArray) \in Nat
         /\ \A i \in 1..Len(BlockNodeArray) :
              /\ BlockNodeArray[i] \in [block : Blocks \cup {Empty},
                                        children : SlicesOf(indexArrays)]
              /\ BlockNodeArray[i].block \in Blocks \cup {Empty}
              /\ BlockNodeArray[i].children \in SlicesOf(indexArrays)
         /\ \A h \in Hashes : /\ BlockHashMap[h] \in 0..Len(BlockNodeArray)
                              /\ ParentHashMap[h] \in SlicesOf(indexArrays)
                              /\ PathMap[h] \in SlicesOf(blockArrays)
         /\ \A t \in Threads : /\ newBlock[t] \in Blocks \cup {Empty}
                               /\ newBlockIndex[t] \in 0..Len(BlockNodeArray)
                               /\ existingChildren[t] \in SlicesOf(indexArrays)
                               /\ nextChild[t] \in Nat
                               /\ parentIndex[t] \in 0..Len(BlockNodeArray)
<1>1. /\ Len(BlockNodeArray) \in Nat
      /\ \A i \in 1..Len(BlockNodeArray) :
           BlockNodeArray[i] \in [block : Blocks \cup {Empty}, children : SlicesOf(indexArrays)]
  BY ElementOfSeq, LenProperties DEF TypeOK
<1>2. \A i \in 1..Len(BlockNodeArray) :
        /\ BlockNodeArray[i].block \in Blocks \cup {Empty}
        /\ BlockNodeArray[i].children \in SlicesOf(indexArrays)
  BY <1>1
<1>3. \A h \in Hashes : /\ BlockHashMap[h] \in 0..Len(BlockNodeArray)
                        /\ ParentHashMap[h] \in SlicesOf(indexArrays)
                        /\ PathMap[h] \in SlicesOf(blockArrays)
  BY DEF TypeOK
<1>4. \A t \in Threads : /\ newBlock[t] \in Blocks \cup {Empty}
                         /\ newBlockIndex[t] \in 0..Len(BlockNodeArray)
                         /\ existingChildren[t] \in SlicesOf(indexArrays)
                         /\ nextChild[t] \in Nat
                         /\ parentIndex[t] \in 0..Len(BlockNodeArray)
  BY DEF TypeOK
<1> QED
  BY <1>1, <1>2, <1>3, <1>4

LEMMA InitIInv == Init => IInv
<1> SUFFICES ASSUME Init PROVE IInv
  OBVIOUS
<1> USE HashFacts DEF Init
<1>1. /\ Len(BlockNodeArray) = 1
      /\ BlockNodeArray[1] = [block |-> Empty, children |-> Nil]
  OBVIOUS
<1>2. Nil \in SlicesOf(indexArrays) /\ Nil \in SlicesOf(blockArrays)
  BY DEF SlicesOf
<1>3. [arr |-> 1, len |-> 1] \in SlicesOf(blockArrays)
  BY DEF SlicesOf
<1>4. TypeOK
  <2>1. BlockNodeArray \in Seq([block : Blocks \cup {Empty}, children : SlicesOf(indexArrays)])
    BY <1>2
  <2>2. BlockHashMap \in [Hashes -> 0..Len(BlockNodeArray)]
    BY <1>1
  <2>3. ParentHashMap \in [Hashes -> SlicesOf(indexArrays)]
    BY <1>2
  <2>4. PathMap \in [Hashes -> SlicesOf(blockArrays)]
    BY <1>2, <1>3
  <2>5. blockArrays \in Seq(Seq(Blocks \cup {Empty}))
    <3>1. <<Empty>> \in Seq(Blocks \cup {Empty})
      OBVIOUS
    <3> QED
      BY <3>1
  <2>6. indexArrays \in Seq(Seq(0..Len(BlockNodeArray)))
    OBVIOUS
  <2> QED
    BY <1>1, <1>2, <2>1, <2>2, <2>3, <2>4, <2>5, <2>6 DEF TypeOK, Phases
<1>5. Busy /\ Entries
  BY <1>1 DEF Busy, Entries
<1>6. Indices
  BY <1>1 DEF Indices, Stored, EntryHash
<1>7. \A h : GoodList(Nil, h)
  BY DEF GoodList, Cap, Nil
<1>8. Lists
  BY <1>1, <1>7 DEF Lists
<1> QED
  BY <1>4, <1>5, <1>6, <1>8 DEF IInv

-----------------------------------------------------------------------------
(* Each action preserves the invariant.                                    *)

LEMMA NilIsGood == \A h : GoodList(Nil, h)
BY DEF GoodList, Cap, Nil

\* The conjuncts about the store, when an action writes none of it.
LEMMA StoreFrame ==
  ASSUME IInv, UNCHANGED store
  PROVE  /\ Entries'
         /\ \A h \in Hashes : Stored(h)' => EntryHash(BlockHashMap[h])' = h
         /\ \A h \in Hashes : GoodList(ParentHashMap[h], h)'
         /\ \A i \in 1..Len(BlockNodeArray') : GoodList(BlockNodeArray[i].children, EntryHash(i))'
         /\ \A s, h : GoodList(s, h) <=> GoodList(s, h)'
         /\ \A i : EntryHash(i)' = EntryHash(i)
<1> USE DEF store
<1>1. \A s, h : GoodList(s, h) <=> GoodList(s, h)'
  BY DEF GoodList, IsChild
<1>2. Entries'
  BY DEF IInv, Entries
<1>3. \A i : EntryHash(i)' = EntryHash(i)
  BY DEF EntryHash
<1> QED
  BY <1>1, <1>2, <1>3 DEF IInv, Indices, Stored, Lists

LEMMA CallStep ==
  ASSUME IInv, NEW t \in Threads, NEW b \in Blocks, Call(t, b)
  PROVE  IInv'
<1> USE DEF Call, Accepts
<1>1. TypeOK'
  BY DEF IInv, TypeOK, store, Phases
<1>2. Busy'
  BY NilIsGood DEF IInv, TypeOK, Busy
<1>3. Entries'
  BY StoreFrame
<1>4. Indices'
  BY StoreFrame DEF IInv, TypeOK, Indices, store
<1>5. Lists'
  <2>1. \A u \in Threads : GoodList(existingChildren[u], newBlock[u])'
    <3>1. existingChildren'[t] = Nil
      BY DEF IInv, Busy
    <3>2. \A u \in Threads \ {t} : newBlock'[u] = newBlock[u] /\ existingChildren'[u] = existingChildren[u]
      BY DEF IInv, TypeOK
    <3> QED
      BY <3>1, <3>2, NilIsGood, StoreFrame DEF IInv, Lists
  <2> QED
    BY <2>1, StoreFrame DEF Lists
<1> QED
  BY <1>1, <1>2, <1>3, <1>4, <1>5 DEF IInv

LEMMA ReadOrphansStep ==
  ASSUME IInv, NEW t \in Threads, ReadOrphans(t)
  PROVE  IInv'
<1> USE DEF ReadOrphans
<1>0. newBlock[t] \in Hashes
  BY HashFacts, TypeFacts DEF IInv
<1>1. TypeOK'
  BY <1>0 DEF IInv, TypeOK, store, Phases
<1>2. Busy'
  BY DEF IInv, TypeOK, Busy
<1>3. Entries'
  BY StoreFrame
<1>4. Indices'
  BY StoreFrame DEF IInv, TypeOK, Indices, store
<1>5. Lists'
  <2>1. \A u \in Threads : GoodList(existingChildren[u], newBlock[u])'
    BY <1>0, StoreFrame DEF IInv, TypeOK, Lists
  <2> QED
    BY <2>1, StoreFrame DEF Lists
<1> QED
  BY <1>1, <1>2, <1>3, <1>4, <1>5 DEF IInv

LEMMA ReadKidsStep ==
  ASSUME IInv, NEW t \in Threads, ReadKids(t)
  PROVE  IInv'
<1> USE DEF ReadKids
<1>0. newBlock[t] \in Hashes
  BY HashFacts, TypeFacts DEF IInv
<1>1. TypeOK'
  BY <1>0 DEF IInv, TypeOK, store, Phases
<1>2. Busy'
  BY DEF IInv, TypeOK, Busy
<1>3. Entries'
  BY StoreFrame
<1>4. Indices'
  BY StoreFrame DEF IInv, TypeOK, Indices, store
<1>5. Lists'
  <2>1. \A u \in Threads : GoodList(existingChildren[u], newBlock[u])'
    BY <1>0, StoreFrame DEF IInv, TypeOK, Lists
  <2> QED
    BY <2>1, StoreFrame DEF Lists
<1> QED
  BY <1>1, <1>2, <1>3, <1>4, <1>5 DEF IInv

LEMMA FindParentStep ==
  ASSUME IInv, NEW t \in Threads, FindParent(t)
  PROVE  IInv'
<1> USE DEF FindParent
<1>0. newBlock[t] \in Blocks /\ PrevHash[newBlock[t]] \in Hashes
  BY HashFacts DEF IInv, Busy
<1>1. TypeOK'
  BY <1>0 DEF IInv, TypeOK, store, Phases
<1>2. Busy'
  BY DEF IInv, TypeOK, Busy
<1>3. Entries'
  BY StoreFrame
<1>4. Indices'
  <2>1. BlockHashMap[PrevHash[newBlock[t]]] # 0
          => EntryHash(BlockHashMap[PrevHash[newBlock[t]]]) = PrevHash[newBlock[t]]
    BY <1>0 DEF IInv, Indices, Stored
  <2> QED
    BY <2>1, StoreFrame DEF IInv, TypeOK, Indices, store
<1>5. Lists'
  BY StoreFrame DEF IInv, TypeOK, Lists
<1> QED
  BY <1>1, <1>2, <1>3, <1>4, <1>5 DEF IInv

\* An index that is in range stays the index of the same child.
LEMMA ChildKept ==
  ASSUME NEW i, NEW h, IsChild(i, h), TypeOK,
         Len(BlockNodeArray') \in Nat,
         Len(BlockNodeArray) <= Len(BlockNodeArray'),
         \A j \in 1..Len(BlockNodeArray) : BlockNodeArray'[j].block = BlockNodeArray[j].block
  PROVE  IsChild(i, h)'
BY TypeFacts DEF IsChild

LEMMA WriteBlockNodeArrayStep ==
  ASSUME IInv, NEW t \in Threads, WriteBlockNodeArray(t)
  PROVE  IInv'
<1>n. PICK n \in Nat : n = Len(BlockNodeArray)
  BY TypeFacts DEF IInv
<1> USE <1>n
<1> DEFINE b == newBlock[t]
           node == [block |-> b, children |-> existingChildren[t]]
<1> USE DEF WriteBlockNodeArray
<1>0. /\ b \in Valid /\ b \in Blocks /\ b \in Hashes /\ n \in Nat /\ n >= 1
      /\ node \in [block : Blocks \cup {Empty}, children : SlicesOf(indexArrays)]
      /\ b # Genesis
  BY HashFacts, TypeFacts DEF IInv, Busy, Entries
<1>1. CASE BlockHashMap[b] # 0
  <2>1. UNCHANGED store
    BY <1>1 DEF store
  <2>2. newBlockIndex' = [newBlockIndex EXCEPT ![t] = BlockHashMap[b]]
    BY <1>1
  <2>3. /\ BlockHashMap[b] \in 2..n
        /\ BlockNodeArray[BlockHashMap[b]].block = b
    BY <1>0, <1>1, TypeFacts DEF IInv, Indices, Stored, EntryHash
  <2>4. TypeOK'
    BY <2>2, <2>3, <1>0, <1>1 DEF IInv, TypeOK, store, Phases
  <2>5. Busy' /\ Entries'
    BY <2>1, StoreFrame DEF IInv, TypeOK, Busy
  <2>6. Indices'
    BY <2>1, <2>2, <2>3, StoreFrame DEF IInv, TypeOK, Indices, store
  <2>7. Lists'
    BY <2>1, StoreFrame DEF IInv, TypeOK, Lists
  <2> QED
    BY <2>4, <2>5, <2>6, <2>7 DEF IInv
<1>2. CASE BlockHashMap[b] = 0
  <2>1. /\ BlockNodeArray' = Append(BlockNodeArray, node)
        /\ newBlockIndex' = [newBlockIndex EXCEPT ![t] = n + 1]
    BY <1>2
  <2>2. /\ BlockNodeArray' \in Seq([block : Blocks \cup {Empty}, children : SlicesOf(indexArrays)])
        /\ Len(BlockNodeArray') = n + 1
        /\ BlockNodeArray'[n + 1] = node
        /\ \A i \in 1..n : BlockNodeArray'[i] = BlockNodeArray[i]
    BY <2>1, <1>0, AppendProperties DEF IInv, TypeOK
  <2>3. 0..n \subseteq 0..(n + 1)
    BY <1>0
  <2>4. indexArrays' \in Seq(Seq(0..Len(BlockNodeArray')))
    <3>1. Seq(0..n) \subseteq Seq(0..(n + 1))
      BY <2>3, SeqMonotonic
    <3> QED
      BY <3>1, <2>2, SeqMonotonic DEF IInv, TypeOK
  <2>5. TypeOK'
    BY <2>1, <2>2, <2>3, <2>4, <1>0 DEF IInv, TypeOK, Phases
  <2>6. Busy'
    BY DEF IInv, TypeOK, Busy
  <2>7. Entries'
    BY <1>0, <2>2 DEF IInv, Entries
  <2>8. /\ \A i \in 1..n : EntryHash(i)' = EntryHash(i)
        /\ EntryHash(n + 1)' = b
    <3>1. \A i \in 1..n : EntryHash(i)' = EntryHash(i)
      BY <2>2 DEF EntryHash
    <3>2. n + 1 # 1
      BY <1>0
    <3>3. BlockNodeArray'[n + 1].block = b
      BY <2>2
    <3> QED
      BY <3>1, <3>2, <3>3 DEF EntryHash
  <2>9. Indices'
    <3>1. \A h \in Hashes : Stored(h)' => EntryHash(BlockHashMap[h])' = h
      BY <2>8, TypeFacts DEF IInv, Indices, Stored
    <3>2. /\ newBlockIndex'[t] \in 2..Len(BlockNodeArray')
          /\ BlockNodeArray'[newBlockIndex'[t]].block = newBlock'[t]
          /\ pc'[t] = "writeMap"
      BY <1>0, <2>1, <2>2 DEF IInv, TypeOK
    <3>3. \A u \in Threads \ {t} :
            /\ pc'[u] = pc[u] /\ newBlockIndex'[u] = newBlockIndex[u]
            /\ newBlock'[u] = newBlock[u] /\ parentIndex'[u] = parentIndex[u]
            /\ nextChild'[u] = nextChild[u]
      BY <2>1 DEF IInv, TypeOK
    <3>4. \A u \in Threads \ {t} :
            /\ pc'[u] \in {"writeMap", "writePath", "readKids", "reroot", "link"}
                 => /\ newBlockIndex'[u] \in 2..Len(BlockNodeArray')
                    /\ BlockNodeArray'[newBlockIndex'[u]].block = newBlock'[u]
            /\ pc'[u] = "link" /\ parentIndex'[u] # 0
                 => EntryHash(parentIndex[u])' = PrevHash[newBlock'[u]]
            /\ pc'[u] = "reroot" => nextChild'[u] >= 1
      BY <1>0, <2>2, <2>8, <3>3, TypeFacts DEF IInv, Indices
    <3> QED
      BY <3>1, <3>2, <3>4 DEF Indices
  <2>10. \A s, h : GoodList(s, h) => GoodList(s, h)'
    BY <1>0, <2>2, ChildKept DEF GoodList, IInv
  <2>11. Lists'
    <3>1. \A h \in Hashes : GoodList(ParentHashMap[h], h)'
      BY <2>10 DEF IInv, Lists
    <3>2. \A i \in 1..n : GoodList(BlockNodeArray[i].children, EntryHash(i))'
      BY <2>2, <2>8, <2>10 DEF IInv, Lists
    <3>3. GoodList(BlockNodeArray[n + 1].children, EntryHash(n + 1))'
      BY <2>2, <2>8, <2>10 DEF IInv, Lists
    <3>4. \A i \in 1..(n + 1) : GoodList(BlockNodeArray[i].children, EntryHash(i))'
      BY <1>0, <3>2, <3>3
    <3>5. \A u \in Threads : GoodList(existingChildren[u], newBlock[u])'
      BY <2>10 DEF IInv, Lists
    <3> QED
      BY <2>2, <3>1, <3>4, <3>5 DEF Lists
  <2> QED
    BY <2>5, <2>6, <2>7, <2>9, <2>11 DEF IInv
<1> QED
  BY <1>1, <1>2

LEMMA WriteBlockChainMapStep ==
  ASSUME IInv, NEW t \in Threads, WriteBlockChainMap(t)
  PROVE  IInv'
<1> USE DEF WriteBlockChainMap, locals
<1>0. /\ newBlock[t] \in Blocks /\ newBlock[t] \in Hashes /\ newBlock[t] # Genesis
      /\ newBlockIndex[t] \in 2..Len(BlockNodeArray)
      /\ BlockNodeArray[newBlockIndex[t]].block = newBlock[t]
  BY HashFacts DEF IInv, Busy, Indices
<1>1. TypeOK'
  BY <1>0, TypeFacts DEF IInv, TypeOK, Phases
<1>2. Busy'
  BY DEF IInv, TypeOK, Busy
<1>3. Entries'
  BY DEF IInv, Entries
<1>4. Indices'
  <2>1. \A i : EntryHash(i)' = EntryHash(i)
    BY DEF EntryHash
  <2>2. EntryHash(newBlockIndex[t]) = newBlock[t]
    BY <1>0, TypeFacts DEF EntryHash, IInv
  <2>3. \A h \in Hashes : Stored(h)' => EntryHash(BlockHashMap[h])' = h
    BY <2>1, <2>2 DEF IInv, TypeOK, Indices, Stored
  <2> QED
    BY <2>1, <2>3 DEF IInv, TypeOK, Indices
<1>5. Lists'
  BY DEF IInv, Lists, GoodList, IsChild, EntryHash
<1> QED
  BY <1>1, <1>2, <1>3, <1>4, <1>5 DEF IInv

\* Actions that write PathMap and its heap leave the other conjuncts alone.
LEMMA PathFrame ==
  ASSUME IInv, NEW t \in Threads,
         WritePath(t) \/ RerootChild(t),
         PathMap' \in [Hashes -> SlicesOf(blockArrays')],
         blockArrays' \in Seq(Seq(Blocks \cup {Empty}))
  PROVE  IInv'
<1>1. UNCHANGED <<BlockNodeArray, BlockHashMap, ParentHashMap, indexArrays,
                  newBlock, newBlockIndex, existingChildren, parentIndex>>
  BY DEF WritePath, RerootChild, locals
<1>p. \/ /\ pc[t] = "writePath" /\ pc' = [pc EXCEPT ![t] = "readKids"]
         /\ nextChild' = nextChild
      \/ /\ pc[t] = "reroot" /\ pc' = pc
         /\ nextChild' = [nextChild EXCEPT ![t] = nextChild[t] + 1]
  BY DEF WritePath, RerootChild, locals
<1>t. /\ pc \in [Threads -> Phases] /\ nextChild \in [Threads -> Nat]
      /\ \A u \in Threads : pc[u] = "reroot" => nextChild[u] >= 1
  BY DEF IInv, TypeOK, Indices
<1>2. /\ pc' \in [Threads -> Phases]
      /\ nextChild' \in [Threads -> Nat]
  <2>1. CASE pc' = [pc EXCEPT ![t] = "readKids"] /\ nextChild' = nextChild
    BY <2>1, <1>t DEF Phases
  <2>2. CASE pc' = pc /\ nextChild' = [nextChild EXCEPT ![t] = nextChild[t] + 1]
    BY <2>2, <1>t
  <2> QED
    BY <1>p, <2>1, <2>2
<1>3. /\ \A u \in Threads : (pc'[u] = "idle") <=> (pc[u] = "idle")
      /\ \A u \in Threads : pc'[u] \in {"writeMap", "writePath", "readKids", "reroot", "link"}
           => pc[u] \in {"writeMap", "writePath", "readKids", "reroot", "link"}
      /\ \A u \in Threads : pc'[u] = "link" => pc[u] = "link"
      /\ \A u \in Threads : pc'[u] = "reroot" => pc[u] = "reroot" /\ nextChild'[u] >= 1
  <2>1. CASE /\ pc[t] = "writePath" /\ pc' = [pc EXCEPT ![t] = "readKids"]
             /\ nextChild' = nextChild
    BY <2>1, <1>t
  <2>2. CASE /\ pc[t] = "reroot" /\ pc' = pc
             /\ nextChild' = [nextChild EXCEPT ![t] = nextChild[t] + 1]
    BY <2>2, <1>t
  <2> QED
    BY <1>p, <2>1, <2>2
<1>4. TypeOK'
  BY <1>1, <1>2 DEF IInv, TypeOK
<1>5. Busy' /\ Entries'
  BY <1>1, <1>3 DEF IInv, Busy, Entries
<1>6. Indices'
  BY <1>1, <1>3 DEF IInv, Indices, Stored, EntryHash
<1>7. Lists'
  BY <1>1 DEF IInv, Lists, GoodList, IsChild, EntryHash
<1> QED
  BY <1>4, <1>5, <1>6, <1>7 DEF IInv

LEMMA WritePathStep ==
  ASSUME IInv, NEW t \in Threads, WritePath(t)
  PROVE  IInv'
<1> DEFINE b == newBlock[t]
           existing == PathMap[PrevHash[b]]
<1>1. /\ b \in Blocks /\ b \in Hashes
      /\ existing \in SlicesOf(blockArrays)
      /\ b \in Blocks \cup {Empty} /\ Empty \in Blocks \cup {Empty}
      /\ blockArrays \in Seq(Seq(Blocks \cup {Empty}))
  BY HashFacts, TypeFacts DEF IInv, Busy, WritePath, TypeOK
<1>2. CASE existing # Nil
  <2>1. /\ blockArrays' = HeapAfterAppend(blockArrays, existing, b, Empty)
        /\ PathMap' = [PathMap EXCEPT ![b] = Appended(blockArrays, existing)]
    BY <1>2 DEF WritePath
  <2>2. /\ blockArrays' \in Seq(Seq(Blocks \cup {Empty}))
        /\ SlicesOf(blockArrays) \subseteq SlicesOf(blockArrays')
        /\ Appended(blockArrays, existing) \in SlicesOf(blockArrays')
    BY <1>1, <2>1, AppendTypes
  <2>3. PathMap' \in [Hashes -> SlicesOf(blockArrays')]
    BY <1>1, <2>1, <2>2 DEF IInv, TypeOK
  <2> QED
    BY <2>2, <2>3, PathFrame
<1>3. CASE existing = Nil
  <2>1. /\ blockArrays' = Append(blockArrays, <<b>>)
        /\ PathMap' = [PathMap EXCEPT ![b] = Fresh(blockArrays, 1)]
    BY <1>3 DEF WritePath
  <2> DEFINE a == <<b>>
  <2>2. a \in Seq(Blocks \cup {Empty}) /\ Len(a) = 1 /\ 1 \in Nat /\ 1 >= 1
    BY <1>1
  <2> HIDE DEF a
  <2>3. /\ blockArrays' \in Seq(Seq(Blocks \cup {Empty}))
        /\ SlicesOf(blockArrays) \subseteq SlicesOf(blockArrays')
        /\ Fresh(blockArrays, 1) \in SlicesOf(blockArrays')
    <3>1. blockArrays' = Append(blockArrays, a)
      BY <2>1 DEF a
    <3> QED
      BY <1>1, <2>2, <3>1, NewSliceFacts
  <2> QED
    <3>1. PathMap' \in [Hashes -> SlicesOf(blockArrays')]
      BY <1>1, <2>1, <2>3 DEF IInv, TypeOK
    <3> QED
      BY <2>3, <3>1, PathFrame
<1> QED
  BY <1>2, <1>3

\* The orphan the loop is at is a child of newBlock.
LEMMA OrphanFacts ==
  ASSUME IInv, NEW t \in Threads, pc[t] = "reroot", nextChild[t] <= existingChildren[t].len
  PROVE  LET i == At(indexArrays, existingChildren[t], nextChild[t])
         IN  /\ IsChild(i, newBlock[t])
             /\ newBlock[t] \in Blocks
             /\ BlockNodeArray[i].block \in Blocks
<1>1. /\ existingChildren[t] \in SlicesOf(indexArrays)
      /\ nextChild[t] \in Nat /\ nextChild[t] >= 1
      /\ indexArrays \in Seq(Seq(0..Len(BlockNodeArray)))
  BY TypeFacts DEF IInv, Indices, TypeOK
<1>2. /\ existingChildren[t].len <= Cap(indexArrays, existingChildren[t])
      /\ existingChildren[t].len \in Nat
      /\ Cap(indexArrays, existingChildren[t]) \in Nat
  BY <1>1, SliceFacts
<1>3. IsChild(At(indexArrays, existingChildren[t], nextChild[t]), newBlock[t])
  <2>1. nextChild[t] \in 1..Cap(indexArrays, existingChildren[t])
        /\ ~(nextChild[t] > existingChildren[t].len)
    BY <1>1, <1>2
  <2>2. GoodList(existingChildren[t], newBlock[t])
    BY DEF IInv, Lists
  <2> QED
    BY <2>1, <2>2 DEF GoodList
<1> QED
  BY <1>3, HashFacts DEF IsChild, IInv, Entries, Busy

LEMMA RerootChildStep ==
  ASSUME IInv, NEW t \in Threads, RerootChild(t)
  PROVE  IInv'
<1> DEFINE b == newBlock[t]
           child == BlockNodeArray[At(indexArrays, existingChildren[t], nextChild[t])].block
<1>1. b \in Blocks /\ child \in Blocks /\ child \in Hashes
  BY OrphanFacts, HashFacts DEF RerootChild
<1> DEFINE a == <<b, child>>
<1>2. a \in Seq(Blocks \cup {Empty}) /\ Len(a) = 2 /\ 2 \in Nat /\ 2 >= 1
  BY <1>1
<1>3. /\ blockArrays' = Append(blockArrays, a)
      /\ PathMap' = [PathMap EXCEPT ![child] = Fresh(blockArrays, 2)]
  BY DEF RerootChild
<1> HIDE DEF b, child, a
<1>4. /\ blockArrays' \in Seq(Seq(Blocks \cup {Empty}))
      /\ SlicesOf(blockArrays) \subseteq SlicesOf(blockArrays')
      /\ Fresh(blockArrays, 2) \in SlicesOf(blockArrays')
  <2>1. blockArrays \in Seq(Seq(Blocks \cup {Empty}))
    BY DEF IInv, TypeOK
  <2> QED
    BY <1>2, <1>3, <2>1, NewSliceFacts
<1>5. PathMap' \in [Hashes -> SlicesOf(blockArrays')]
  BY <1>1, <1>3, <1>4 DEF IInv, TypeOK
<1> QED
  BY <1>4, <1>5, PathFrame

\* Appending a child of h to a good list of h keeps every good list good, the
\* lists that share its array included: an array that a slice of length 1 or
\* more lies in belongs to the parent of its first cell.
LEMMA GoodAppend ==
  ASSUME IInv, NEW s \in SlicesOf(indexArrays), NEW h, GoodList(s, h),
         NEW c, IsChild(c, h),
         indexArrays' = HeapAfterAppend(indexArrays, s, c, 0),
         NEW r, r = Appended(indexArrays, s),
         Len(BlockNodeArray') = Len(BlockNodeArray),
         \A j \in 1..Len(BlockNodeArray) : BlockNodeArray'[j].block = BlockNodeArray[j].block
  PROVE  /\ indexArrays' \in Seq(Seq(0..Len(BlockNodeArray)))
         /\ SlicesOf(indexArrays) \subseteq SlicesOf(indexArrays')
         /\ r \in SlicesOf(indexArrays')
         /\ GoodList(r, h)'
         /\ \A q \in SlicesOf(indexArrays) : \A g : GoodList(q, g) => GoodList(q, g)'
<1> DEFINE S == 0..Len(BlockNodeArray)
<1>1. /\ indexArrays \in Seq(Seq(S))
      /\ c \in S /\ 0 \in S /\ c # 0
      /\ Len(BlockNodeArray) \in Nat
  BY TypeFacts DEF IInv, TypeOK, IsChild
<1> HIDE DEF S
<1>2. /\ indexArrays' \in Seq(Seq(S))
      /\ SlicesOf(indexArrays) \subseteq SlicesOf(indexArrays')
      /\ r \in SlicesOf(indexArrays')
      /\ r.len = s.len + 1
  <2>1. /\ HeapAfterAppend(indexArrays, s, c, 0) \in Seq(Seq(S))
        /\ SlicesOf(indexArrays) \subseteq SlicesOf(HeapAfterAppend(indexArrays, s, c, 0))
        /\ Appended(indexArrays, s) \in SlicesOf(HeapAfterAppend(indexArrays, s, c, 0))
    BY <1>1, AppendTypes
  <2>2. Appended(indexArrays, s).len = s.len + 1
    BY DEF Appended
  <2> QED
    BY <2>1, <2>2
<1>3. At(indexArrays', r, s.len + 1) = c
  BY <1>1, AppendedCells
<1>8. ASSUME NEW k \in 1..Cap(indexArrays', r)
      PROVE  \/ k = s.len + 1
             \/ At(indexArrays', r, k) = 0 /\ k > s.len
             \/ k <= Cap(indexArrays, s) /\ At(indexArrays', r, k) = At(indexArrays, s, k)
  BY <1>1, <1>8, AppendedRest
<1>9. ASSUME NEW q \in SlicesOf(indexArrays)
      PROVE  Cap(indexArrays', q) = Cap(indexArrays, q)
  BY <1>1, AppendKeepsCap
<1>10. ASSUME NEW q \in SlicesOf(indexArrays), NEW k \in 1..Cap(indexArrays, q)
       PROVE  \/ At(indexArrays', q, k) = At(indexArrays, q, k)
              \/ /\ At(indexArrays', q, k) = c
                 /\ q.arr = s.arr
                 /\ s.len >= 1
                 /\ k = s.len + 1
  BY <1>1, AppendKeepsCells
<1>4. \A i, g : IsChild(i, g) <=> IsChild(i, g)'
  BY <1>1 DEF IsChild
<1>5. /\ s.len \in Nat /\ Cap(indexArrays, s) \in Nat /\ s.len <= Cap(indexArrays, s)
  BY <1>1, SliceFacts
<1>11. \A k \in 1..Cap(indexArrays, s) :
         IsChild(At(indexArrays, s, k), h) \/ (k > s.len /\ At(indexArrays, s, k) = 0)
  BY DEF GoodList
<1>6. GoodList(r, h)'
  <2>1. SUFFICES ASSUME NEW k \in 1..Cap(indexArrays', r)
                 PROVE  \/ IsChild(At(indexArrays', r, k), h)
                        \/ k > r.len /\ At(indexArrays', r, k) = 0
    BY <1>4 DEF GoodList
  <2>2. CASE k = s.len + 1
    BY <2>2, <1>3
  <2>3. CASE k # s.len + 1 /\ k > s.len /\ At(indexArrays', r, k) = 0
    BY <2>3, <1>2, <1>5
  <2>4. CASE /\ k # s.len + 1 /\ k <= Cap(indexArrays, s)
             /\ At(indexArrays', r, k) = At(indexArrays, s, k)
    <3>1. k \in 1..Cap(indexArrays, s)
      BY <2>4, <1>5
    <3>2. IsChild(At(indexArrays, s, k), h) \/ (k > s.len /\ At(indexArrays, s, k) = 0)
      BY <3>1, <1>11
    <3> QED
      BY <2>4, <3>2, <1>2, <1>5
  <2> QED
    BY <2>2, <2>3, <2>4, <1>8, <1>5
<1>7. ASSUME NEW q \in SlicesOf(indexArrays), NEW g, GoodList(q, g)
      PROVE  GoodList(q, g)'
  <2>1. SUFFICES ASSUME NEW k \in 1..Cap(indexArrays, q)
                 PROVE  \/ IsChild(At(indexArrays', q, k), g)
                        \/ k > q.len /\ At(indexArrays', q, k) = 0
    BY <1>9, <1>4 DEF GoodList
  <2>2. CASE At(indexArrays', q, k) = At(indexArrays, q, k)
    BY <2>2, <1>7 DEF GoodList
  <2>3. CASE /\ At(indexArrays', q, k) = c
             /\ q.arr = s.arr
             /\ s.len >= 1
             /\ k = s.len + 1
    <3>1. At(indexArrays, q, 1) = At(indexArrays, s, 1) /\ Cap(indexArrays, q) = Cap(indexArrays, s)
      BY <2>3 DEF At, Cap
    <3>2. 1 \in 1..Cap(indexArrays, s) /\ ~(1 > s.len)
      BY <2>3, <1>5
    <3>3. IsChild(At(indexArrays, s, 1), h)
      BY <3>2 DEF GoodList
    <3>4. At(indexArrays, s, 1) # 0
      BY <3>3, <1>1 DEF IsChild
    <3>5. IsChild(At(indexArrays, s, 1), g)
      BY <3>1, <3>2, <3>4, <1>7 DEF GoodList
    <3>6. g = h
      BY <3>3, <3>5 DEF IsChild
    <3> QED
      BY <2>3, <3>6
  <2> QED
    BY <2>2, <2>3, <1>10
<1> QED
  BY <1>2, <1>6, <1>7 DEF S

\* What Return leaves of the locals' conjuncts.
LEMMA ReturnFrame ==
  ASSUME IInv, NEW t \in Threads, Return(t),
         Len(BlockNodeArray') = Len(BlockNodeArray),
         \A j \in 1..Len(BlockNodeArray) : BlockNodeArray'[j].block = BlockNodeArray[j].block,
         UNCHANGED BlockHashMap,
         SlicesOf(indexArrays) \subseteq SlicesOf(indexArrays')
  PROVE  /\ Busy' /\ Entries' /\ Indices'
         /\ pc' \in [Threads -> Phases]
         /\ newBlock' \in [Threads -> Blocks \cup {Empty}]
         /\ newBlockIndex' \in [Threads -> 0..Len(BlockNodeArray)]
         /\ existingChildren' \in [Threads -> SlicesOf(indexArrays')]
         /\ nextChild' \in [Threads -> Nat]
         /\ parentIndex' \in [Threads -> 0..Len(BlockNodeArray)]
         /\ \A i \in 1..Len(BlockNodeArray) : EntryHash(i)' = EntryHash(i)
<1> USE DEF Return
<1>1. Len(BlockNodeArray) \in Nat /\ Nil \in SlicesOf(indexArrays')
  BY TypeFacts DEF IInv, SlicesOf
<1>2. /\ pc' \in [Threads -> Phases]
      /\ newBlock' \in [Threads -> Blocks \cup {Empty}]
      /\ newBlockIndex' \in [Threads -> 0..Len(BlockNodeArray)]
      /\ existingChildren' \in [Threads -> SlicesOf(indexArrays')]
      /\ nextChild' \in [Threads -> Nat]
      /\ parentIndex' \in [Threads -> 0..Len(BlockNodeArray)]
  BY <1>1 DEF IInv, TypeOK, Phases
<1>3. \A i \in 1..Len(BlockNodeArray) : EntryHash(i)' = EntryHash(i)
  BY DEF EntryHash
<1>4. Busy'
  BY DEF IInv, TypeOK, Busy
<1>5. Entries'
  BY <1>1 DEF IInv, Entries
<1>6. Indices'
  <2>1. \A h \in Hashes : Stored(h)' => EntryHash(BlockHashMap[h])' = h
    BY <1>1, <1>3, TypeFacts DEF IInv, Indices, Stored
  <2>2. \A u \in Threads \ {t} :
          /\ pc'[u] = pc[u] /\ newBlock'[u] = newBlock[u] /\ nextChild'[u] = nextChild[u]
          /\ newBlockIndex'[u] = newBlockIndex[u] /\ parentIndex'[u] = parentIndex[u]
    BY DEF IInv, TypeOK
  <2>3. pc'[t] = "idle"
    BY DEF IInv, TypeOK
  <2>4. \A u \in Threads \ {t} :
          /\ pc'[u] \in {"writeMap", "writePath", "readKids", "reroot", "link"}
               => /\ newBlockIndex'[u] \in 2..Len(BlockNodeArray')
                  /\ BlockNodeArray'[newBlockIndex'[u]].block = newBlock'[u]
          /\ pc'[u] = "link" /\ parentIndex'[u] # 0
               => EntryHash(parentIndex[u])' = PrevHash[newBlock'[u]]
          /\ pc'[u] = "reroot" => nextChild'[u] >= 1
    BY <1>1, <1>3, <2>2, TypeFacts DEF IInv, Indices
  <2> QED
    BY <2>1, <2>3, <2>4 DEF Indices
<1> QED
  BY <1>2, <1>3, <1>4, <1>5, <1>6

LEMMA LinkOrphanStep ==
  ASSUME IInv, NEW t \in Threads, LinkOrphan(t)
  PROVE  IInv'
<1> USE DEF LinkOrphan
<1>1. PICK prev, s, r :
        /\ prev = PrevHash[newBlock[t]] /\ s = ParentHashMap[prev]
        /\ r = Appended(indexArrays, s)
  OBVIOUS
<1>2. /\ prev \in Hashes /\ s \in SlicesOf(indexArrays) /\ GoodList(s, prev)
      /\ IsChild(newBlockIndex[t], prev)
  BY <1>1, HashFacts, TypeFacts DEF IInv, Busy, Indices, Lists, IsChild
<1>3. /\ indexArrays' = HeapAfterAppend(indexArrays, s, newBlockIndex[t], 0)
      /\ ParentHashMap' = [ParentHashMap EXCEPT ![prev] = r]
      /\ UNCHANGED <<BlockNodeArray, BlockHashMap, PathMap, blockArrays>>
      /\ Return(t)
  BY <1>1
<1>4. /\ indexArrays' \in Seq(Seq(0..Len(BlockNodeArray)))
      /\ SlicesOf(indexArrays) \subseteq SlicesOf(indexArrays')
      /\ r \in SlicesOf(indexArrays')
      /\ GoodList(r, prev)'
      /\ \A q \in SlicesOf(indexArrays) : \A g : GoodList(q, g) => GoodList(q, g)'
  BY <1>1, <1>2, <1>3, GoodAppend
<1>5. /\ Busy' /\ Entries' /\ Indices'
      /\ pc' \in [Threads -> Phases]
      /\ newBlock' \in [Threads -> Blocks \cup {Empty}]
      /\ newBlockIndex' \in [Threads -> 0..Len(BlockNodeArray)]
      /\ existingChildren' \in [Threads -> SlicesOf(indexArrays')]
      /\ nextChild' \in [Threads -> Nat]
      /\ parentIndex' \in [Threads -> 0..Len(BlockNodeArray)]
      /\ \A i \in 1..Len(BlockNodeArray) : EntryHash(i)' = EntryHash(i)
  BY <1>3, <1>4, ReturnFrame
<1>6. TypeOK'
  <2>1. [block : Blocks \cup {Empty}, children : SlicesOf(indexArrays)]
          \subseteq [block : Blocks \cup {Empty}, children : SlicesOf(indexArrays')]
    BY <1>4
  <2>2. BlockNodeArray' \in Seq([block : Blocks \cup {Empty}, children : SlicesOf(indexArrays')])
    <3>1. BlockNodeArray \in Seq([block : Blocks \cup {Empty}, children : SlicesOf(indexArrays)])
      BY DEF IInv, TypeOK
    <3>2. BlockNodeArray \in Seq([block : Blocks \cup {Empty}, children : SlicesOf(indexArrays')])
      BY <2>1, <3>1, SeqMonotonic
    <3> QED
      BY <1>3, <3>2
  <2>3. ParentHashMap' \in [Hashes -> SlicesOf(indexArrays')]
    BY <1>2, <1>3, <1>4 DEF IInv, TypeOK
  <2> QED
    BY <1>3, <1>4, <1>5, <2>2, <2>3 DEF IInv, TypeOK
<1>7. Lists'
  <2>1. \A h \in Hashes : GoodList(ParentHashMap[h], h)'
    BY <1>2, <1>3, <1>4, TypeFacts DEF IInv, TypeOK, Lists
  <2>2. \A i \in 1..Len(BlockNodeArray) : GoodList(BlockNodeArray[i].children, EntryHash(i))'
    BY <1>3, <1>4, <1>5, TypeFacts DEF IInv, Lists
  <2>3. \A u \in Threads : GoodList(existingChildren[u], newBlock[u])'
    <3>1. existingChildren'[t] = Nil
      BY DEF Return, IInv, TypeOK
    <3>2. \A u \in Threads \ {t} :
            existingChildren'[u] = existingChildren[u] /\ newBlock'[u] = newBlock[u]
      BY DEF Return, IInv, TypeOK
    <3>3. GoodList(existingChildren[t], newBlock[t])'
      BY <3>1 DEF GoodList, Cap, Nil
    <3>4. \A u \in Threads \ {t} : GoodList(existingChildren[u], newBlock[u])'
      BY <3>2, <1>4, TypeFacts DEF IInv, Lists
    <3> QED
      BY <3>3, <3>4
  <2> QED
    BY <1>3, <2>1, <2>2, <2>3 DEF Lists
<1> QED
  BY <1>5, <1>6, <1>7 DEF IInv

LEMMA LinkParentStep ==
  ASSUME IInv, NEW t \in Threads, LinkParent(t)
  PROVE  IInv'
<1> USE DEF LinkParent
<1>1. PICK p, s, r, n :
        /\ p = parentIndex[t] /\ s = BlockNodeArray[p].children
        /\ r = Appended(indexArrays, s) /\ n = Len(BlockNodeArray)
  OBVIOUS
<1>2. /\ n \in Nat /\ p \in 1..n
      /\ s \in SlicesOf(indexArrays) /\ GoodList(s, EntryHash(p))
      /\ IsChild(newBlockIndex[t], EntryHash(p))
      /\ EntryHash(p) = PrevHash[newBlock[t]]
  BY <1>1, HashFacts, TypeFacts DEF IInv, Busy, Indices, Lists, IsChild
<1>3. /\ indexArrays' = HeapAfterAppend(indexArrays, s, newBlockIndex[t], 0)
      /\ BlockNodeArray' = [BlockNodeArray EXCEPT ![p].children = r]
      /\ UNCHANGED <<BlockHashMap, ParentHashMap, PathMap, blockArrays>>
      /\ Return(t)
  BY <1>1
<1>4. /\ Len(BlockNodeArray') = n
      /\ \A i \in 1..n : BlockNodeArray'[i].block = BlockNodeArray[i].block
      /\ BlockNodeArray'[p].children = r
      /\ \A i \in 1..n : i # p => BlockNodeArray'[i].children = BlockNodeArray[i].children
  BY <1>1, <1>2, <1>3, TypeFacts DEF IInv, TypeOK
<1>5. /\ indexArrays' \in Seq(Seq(0..n))
      /\ SlicesOf(indexArrays) \subseteq SlicesOf(indexArrays')
      /\ r \in SlicesOf(indexArrays')
      /\ GoodList(r, EntryHash(p))'
      /\ \A q \in SlicesOf(indexArrays) : \A g : GoodList(q, g) => GoodList(q, g)'
  <2>1. PICK h : h = EntryHash(p)
    OBVIOUS
  <2>2. EntryHash(p)' = EntryHash(p)
    BY <1>2, <1>4 DEF EntryHash
  <2>3. /\ indexArrays' \in Seq(Seq(0..n))
        /\ SlicesOf(indexArrays) \subseteq SlicesOf(indexArrays')
        /\ r \in SlicesOf(indexArrays')
        /\ GoodList(r, h)'
        /\ \A q \in SlicesOf(indexArrays) : \A g : GoodList(q, g) => GoodList(q, g)'
    BY <1>1, <1>2, <1>3, <1>4, <2>1, GoodAppend
  <2> QED
    BY <2>1, <2>2, <2>3
<1>6. /\ Busy' /\ Entries' /\ Indices'
      /\ pc' \in [Threads -> Phases]
      /\ newBlock' \in [Threads -> Blocks \cup {Empty}]
      /\ newBlockIndex' \in [Threads -> 0..n]
      /\ existingChildren' \in [Threads -> SlicesOf(indexArrays')]
      /\ nextChild' \in [Threads -> Nat]
      /\ parentIndex' \in [Threads -> 0..n]
      /\ \A i \in 1..n : EntryHash(i)' = EntryHash(i)
  BY <1>1, <1>3, <1>4, <1>5, ReturnFrame
<1>7. TypeOK'
  <2> DEFINE Node == [block : Blocks \cup {Empty}, children : SlicesOf(indexArrays')]
  <2>1. BlockNodeArray \in Seq(Node)
    <3>1. [block : Blocks \cup {Empty}, children : SlicesOf(indexArrays)] \subseteq Node
      BY <1>5
    <3>2. BlockNodeArray \in Seq([block : Blocks \cup {Empty}, children : SlicesOf(indexArrays)])
      BY DEF IInv, TypeOK
    <3> HIDE DEF Node
    <3> QED
      BY <3>1, <3>2, SeqMonotonic
  <2>2. [BlockNodeArray[p] EXCEPT !.children = r] \in Node
    <3>1. BlockNodeArray[p] \in Node
      BY <1>1, <1>2, <2>1, ElementOfSeq
    <3> QED
      BY <3>1, <1>5
  <2>3. BlockNodeArray' = [BlockNodeArray EXCEPT ![p] = [BlockNodeArray[p] EXCEPT !.children = r]]
    BY <1>3
  <2>4. BlockNodeArray' \in Seq(Node)
    <3> HIDE DEF Node
    <3> QED
      BY <1>1, <1>2, <2>1, <2>2, <2>3, ExceptSeq
  <2>5. ParentHashMap' \in [Hashes -> SlicesOf(indexArrays')]
    BY <1>3, <1>5 DEF IInv, TypeOK
  <2> QED
    BY <1>1, <1>3, <1>4, <1>5, <1>6, <2>4, <2>5 DEF IInv, TypeOK
<1>8. Lists'
  <2>1. \A h \in Hashes : GoodList(ParentHashMap[h], h)'
    BY <1>3, <1>5, TypeFacts DEF IInv, Lists
  <2>2. \A i \in 1..n : GoodList(BlockNodeArray[i].children, EntryHash(i))'
    <3>1. GoodList(BlockNodeArray[p].children, EntryHash(p))'
      BY <1>4, <1>5
    <3>2. \A i \in 1..n : i # p => GoodList(BlockNodeArray[i].children, EntryHash(i))'
      BY <1>1, <1>4, <1>5, <1>6, TypeFacts DEF IInv, Lists
    <3> QED
      BY <3>1, <3>2
  <2>3. \A u \in Threads : GoodList(existingChildren[u], newBlock[u])'
    <3>1. existingChildren'[t] = Nil
      BY DEF Return, IInv, TypeOK
    <3>2. \A u \in Threads \ {t} :
            existingChildren'[u] = existingChildren[u] /\ newBlock'[u] = newBlock[u]
      BY DEF Return, IInv, TypeOK
    <3>3. GoodList(existingChildren[t], newBlock[t])'
      BY <3>1 DEF GoodList, Cap, Nil
    <3>4. \A u \in Threads \ {t} : GoodList(existingChildren[u], newBlock[u])'
      BY <3>2, <1>5, TypeFacts DEF IInv, Lists
    <3> QED
      BY <3>3, <3>4
  <2> QED
    BY <1>1, <1>4, <2>1, <2>2, <2>3 DEF Lists
<1> QED
  BY <1>6, <1>7, <1>8 DEF IInv

-----------------------------------------------------------------------------
(* The theorems about links.                                               *)

LEMMA NextIInv == IInv /\ [Next]_vars => IInv'
<1> SUFFICES ASSUME IInv, [Next]_vars PROVE IInv'
  OBVIOUS
<1>1. ASSUME NEW t \in Threads, NEW b \in Blocks, Call(t, b)
      PROVE  IInv'
  BY <1>1, CallStep
<1>2. ASSUME NEW t \in Threads, ReadOrphans(t) PROVE IInv'
  BY <1>2, ReadOrphansStep
<1>3. ASSUME NEW t \in Threads, WriteBlockNodeArray(t) PROVE IInv'
  BY <1>3, WriteBlockNodeArrayStep
<1>4. ASSUME NEW t \in Threads, WriteBlockChainMap(t) PROVE IInv'
  BY <1>4, WriteBlockChainMapStep
<1>5. ASSUME NEW t \in Threads, WritePath(t) PROVE IInv'
  BY <1>5, WritePathStep
<1>6. ASSUME NEW t \in Threads, ReadKids(t) PROVE IInv'
  BY <1>6, ReadKidsStep
<1>7. ASSUME NEW t \in Threads, RerootChild(t) PROVE IInv'
  BY <1>7, RerootChildStep
<1>8. ASSUME NEW t \in Threads, FindParent(t) PROVE IInv'
  BY <1>8, FindParentStep
<1>9. ASSUME NEW t \in Threads, LinkParent(t) PROVE IInv'
  BY <1>9, LinkParentStep
<1>10. ASSUME NEW t \in Threads, LinkOrphan(t) PROVE IInv'
  BY <1>10, LinkOrphanStep
<1>11. CASE UNCHANGED vars
  BY <1>11 DEF vars, IInv, TypeOK, Busy, Entries, Indices, Lists, GoodList, IsChild,
               Stored, EntryHash
<1>12. ASSUME NEW t \in Threads, NEW b \in Blocks, Reject(t, b)
       PROVE  IInv'
  BY <1>11, <1>12 DEF Reject
<1> QED
  BY <1>1, <1>2, <1>3, <1>4, <1>5, <1>6, <1>7, <1>8, <1>9, <1>10, <1>11, <1>12
     DEF Next, Step

THEOREM InvariantHolds == Spec => []IInv
BY InitIInv, NextIInv, PTL DEF Spec

\* However many goroutines run InsertBlock and whatever forks and orphans
\* arrive, the store's variables keep their types.
THEOREM TypeCorrect == Spec => []TypeOK
<1>1. IInv => TypeOK
  BY DEF IInv
<1> QED
  BY <1>1, InvariantHolds, PTL

LEMMA LinksFollow == IInv => LinksAreReal
<1> SUFFICES ASSUME IInv PROVE LinksAreReal
  OBVIOUS
<1>1. ASSUME NEW h \in Hashes, NEW s \in ChildLists(h)
      PROVE  GoodList(s, h) /\ s \in SlicesOf(indexArrays)
  BY <1>1, TypeFacts DEF ChildLists, IInv, Lists
<1>2. ASSUME NEW h \in Hashes, NEW s \in ChildLists(h), NEW i \in Cells(indexArrays, s)
      PROVE  i \in 2..Len(BlockNodeArray) /\ PrevHash[BlockNodeArray[i].block] = h
  <2>1. PICK k \in 1..s.len : i = At(indexArrays, s, k)
    BY DEF Cells
  <2>2. /\ s.len \in Nat /\ Cap(indexArrays, s) \in Nat /\ s.len <= Cap(indexArrays, s)
    BY <1>1, SliceFacts DEF IInv, TypeOK
  <2>3. k \in 1..Cap(indexArrays, s) /\ ~(k > s.len)
    BY <2>2
  <2> QED
    BY <1>1, <2>1, <2>3 DEF GoodList, IsChild
<1> QED
  BY <1>2 DEF LinksAreReal, IInv, Indices

\* The lists of children and of orphans name real children of the right block,
\* and BlockHashMap real entries of the right hash, although the lists share
\* arrays and InsertBlock holds no lock from one access to the next.
THEOREM LinksCorrect == Spec => []LinksAreReal
BY LinksFollow, InvariantHolds, PTL

-----------------------------------------------------------------------------
(* Heights.  The hash of the dummy block is no key of PathMap, so a block   *)
(* that names it starts a path of its own.                                 *)

PathTall(q, d) ==
  \A k \in 1..q.len : q.len <= d /\ k <= Depth[At(blockArrays, q, k)]

Heights == (\A h \in Hashes : PathTall(PathMap[h], Depth[h])) /\ PathMap[Empty] = Nil

LEMMA DepthFacts ==
  /\ \A h \in Hashes : Depth[h] \in Nat /\ Depth[h] >= 1
  /\ \A b \in Blocks : PrevHash[b] \in Hashes /\ b \in Hashes
  /\ \A b \in Blocks : PrevHash[b] # Empty => Depth[b] = Depth[PrevHash[b]] + 1
BY HashFacts, DepthAssumption DEF Hashes

LEMMA InitHeights == Init => Heights
<1> SUFFICES ASSUME Init PROVE Heights
  OBVIOUS
<1>1. PathMap[Empty] = Nil
  BY NamesAssumption, HashFacts DEF Init
<1>2. ASSUME NEW h \in Hashes, NEW k \in 1..PathMap[h].len
      PROVE  PathMap[h].len <= Depth[h] /\ k <= Depth[At(blockArrays, PathMap[h], k)]
  <2>1. CASE h = Genesis
    <3>1. PathMap[h] = [arr |-> 1, len |-> 1] /\ At(blockArrays, PathMap[h], 1) = Empty
      BY <2>1, HashFacts DEF Init, At
    <3> QED
      BY <2>1, <3>1, <1>2, DepthAssumption
  <2>2. CASE h # Genesis
    BY <2>2, <1>2 DEF Init, Nil
  <2> QED
    BY <2>1, <2>2
<1> QED
  BY <1>1, <1>2 DEF Heights, PathTall

\* Writing a tall path for one block, over a heap that keeps tall paths tall.
LEMMA HeightsAfterWrite ==
  ASSUME IInv, Heights, NEW h \in Blocks, NEW p,
         PathMap' = [PathMap EXCEPT ![h] = p],
         PathTall(p, Depth[h])',
         \A q \in SlicesOf(blockArrays), d \in Nat : PathTall(q, d) => PathTall(q, d)'
  PROVE  Heights'
<1>1. /\ h \in Hashes /\ h # Empty /\ Empty \in Hashes
      /\ PathMap \in [Hashes -> SlicesOf(blockArrays)]
  BY HashFacts DEF IInv, TypeOK
<1>2. PathMap'[Empty] = Nil
  BY <1>1 DEF Heights
<1>3. \A g \in Hashes : g # h => PathMap'[g] = PathMap[g]
  BY <1>1
<1>4. PathMap'[h] = p
  BY <1>1
<1>5. \A g \in Hashes : g # h => PathTall(PathMap[g], Depth[g])'
  BY <1>1, <1>3, DepthFacts DEF Heights
<1> QED
  BY <1>2, <1>4, <1>5 DEF Heights

LEMMA WritePathHeights ==
  ASSUME IInv, Heights, NEW t \in Threads, WritePath(t)
  PROVE  Heights'
<1>1. PICK b, prev, s, S :
        /\ b = newBlock[t] /\ prev = PrevHash[b] /\ s = PathMap[prev]
        /\ S = Blocks \cup {Empty}
  OBVIOUS
<1>2. /\ b \in Blocks /\ b \in Hashes /\ prev \in Hashes
      /\ s \in SlicesOf(blockArrays)
      /\ b \in S /\ Empty \in S
      /\ blockArrays \in Seq(Seq(S))
      /\ Depth[b] \in Nat /\ Depth[b] >= 1
  BY <1>1, HashFacts, TypeFacts, DepthFacts DEF IInv, Busy, WritePath, TypeOK
<1>3. CASE s # Nil
  <2>1. PICK r : r = Appended(blockArrays, s)
    OBVIOUS
  <2>2. /\ blockArrays' = HeapAfterAppend(blockArrays, s, b, Empty)
        /\ PathMap' = [PathMap EXCEPT ![b] = r]
    BY <1>1, <1>3, <2>1 DEF WritePath
  <2>3. /\ prev # Empty /\ Depth[b] = Depth[prev] + 1 /\ Depth[prev] \in Nat
        /\ PathTall(s, Depth[prev])
    BY <1>1, <1>2, <1>3, DepthFacts DEF Heights
  <2>4. /\ s.len \in Nat /\ Cap(blockArrays, s) \in Nat
    BY <1>2, SliceFacts
  <2>5. s.len >= 1
    BY <1>2, <1>3 DEF SlicesOf
  <2>6. s.len <= Depth[prev]
    BY <2>3, <2>4, <2>5 DEF PathTall
  <2>7. r.len = s.len + 1
    BY <2>1 DEF Appended
  <2>8. At(blockArrays', r, s.len + 1) = b
    BY <1>2, <2>1, <2>2, AppendedCells
  <2>9. \A k \in 1..s.len : At(blockArrays', r, k) = At(blockArrays, s, k)
    BY <1>2, <2>1, <2>2, AppendedCells
  <2>10. PathTall(r, Depth[b])'
    <3>1. SUFFICES ASSUME NEW k \in 1..r.len
                   PROVE  r.len <= Depth[b] /\ k <= Depth[At(blockArrays', r, k)]
      BY DEF PathTall
    <3>2. CASE k = s.len + 1
      BY <3>2, <2>3, <2>4, <2>6, <2>7, <2>8
    <3>3. CASE k # s.len + 1
      <4>1. k \in 1..s.len
        BY <3>3, <2>4, <2>7
      <4>2. k <= Depth[At(blockArrays, s, k)]
        BY <4>1, <2>3 DEF PathTall
      <4> QED
        BY <4>1, <4>2, <2>3, <2>4, <2>6, <2>7, <2>9
    <3> QED
      BY <3>2, <3>3
  <2>11. ASSUME NEW q \in SlicesOf(blockArrays), NEW d \in Nat, PathTall(q, d)
         PROVE  PathTall(q, d)'
    <3>1. SUFFICES ASSUME NEW k \in 1..q.len
                   PROVE  q.len <= d /\ k <= Depth[At(blockArrays', q, k)]
      BY DEF PathTall
    <3>2. q.len <= d /\ k <= Depth[At(blockArrays, q, k)]
      BY <2>11 DEF PathTall
    <3>3. k \in 1..Cap(blockArrays, q)
      BY <1>2, SliceFacts
    <3>4. \/ At(blockArrays', q, k) = At(blockArrays, q, k)
          \/ At(blockArrays', q, k) = b /\ k = s.len + 1
      BY <1>2, <2>2, <3>3, AppendKeepsCells
    <3> QED
      BY <3>2, <3>4, <2>3, <2>4, <2>6
  <2> QED
    BY <1>2, <2>2, <2>10, <2>11, HeightsAfterWrite
<1>4. CASE s = Nil
  <2>1. PICK r, a : r = Fresh(blockArrays, 1) /\ a = <<b>>
    OBVIOUS
  <2>2. blockArrays' = Append(blockArrays, a) /\ PathMap' = [PathMap EXCEPT ![b] = r]
    BY <1>1, <1>4, <2>1 DEF WritePath
  <2>3. a \in Seq(S) /\ Len(a) = 1 /\ 1 \in Nat /\ 1 >= 1 /\ a[1] = b
    BY <1>2, <2>1
  <2>4. /\ At(blockArrays', r, 1) = a[1]
        /\ \A q \in SlicesOf(blockArrays) : \A k \in 1..Cap(blockArrays, q) :
             At(blockArrays', q, k) = At(blockArrays, q, k)
    <3>1. At(blockArrays', r, 1) = a[1]
      <4>1. blockArrays'[Len(blockArrays) + 1] = a
        BY <1>2, <2>2, <2>3, NewArrayFacts
      <4> QED
        BY <2>1, <4>1 DEF At, Fresh
    <3>2. ASSUME NEW q \in SlicesOf(blockArrays), NEW k \in 1..Cap(blockArrays, q)
          PROVE  At(blockArrays', q, k) = At(blockArrays, q, k)
      BY <1>2, <2>2, <2>3, <3>2, NewSliceKeepsCells
    <3> QED
      BY <3>1, <3>2
  <2>5. PathTall(r, Depth[b])'
    <3>1. r.len = 1
      BY <2>1 DEF Fresh
    <3>2. At(blockArrays', r, 1) = b
      BY <2>3, <2>4
    <3> QED
      BY <1>2, <3>1, <3>2 DEF PathTall
  <2>6. ASSUME NEW q \in SlicesOf(blockArrays), NEW d \in Nat, PathTall(q, d)
        PROVE  PathTall(q, d)'
    <3>1. q.len \in Nat /\ Cap(blockArrays, q) \in Nat /\ q.len <= Cap(blockArrays, q)
      BY <1>2, SliceFacts
    <3> QED
      BY <2>4, <2>6, <3>1 DEF PathTall
  <2> QED
    BY <1>2, <2>2, <2>5, <2>6, HeightsAfterWrite
<1> QED
  BY <1>3, <1>4

LEMMA RerootChildHeights ==
  ASSUME IInv, Heights, NEW t \in Threads, RerootChild(t)
  PROVE  Heights'
<1>1. PICK b, i, child, S :
        /\ b = newBlock[t]
        /\ i = At(indexArrays, existingChildren[t], nextChild[t])
        /\ child = BlockNodeArray[i].block
        /\ S = Blocks \cup {Empty}
  OBVIOUS
<1>2. b \in Blocks /\ child \in Blocks /\ PrevHash[child] = b
  BY <1>1, OrphanFacts DEF RerootChild, IsChild
<1>3. /\ Depth[b] \in Nat /\ Depth[b] >= 1 /\ Depth[child] = Depth[b] + 1
  BY <1>2, DepthFacts, HashFacts
<1>4. PICK r, a : r = Fresh(blockArrays, 2) /\ a = <<b, child>>
  OBVIOUS
<1>5. blockArrays' = Append(blockArrays, a) /\ PathMap' = [PathMap EXCEPT ![child] = r]
  BY <1>1, <1>4 DEF RerootChild
<1>6. a \in Seq(S) /\ Len(a) = 2 /\ 2 \in Nat /\ 2 >= 1 /\ a[1] = b /\ a[2] = child
  BY <1>1, <1>2, <1>4
<1>7. blockArrays \in Seq(Seq(S))
  BY <1>1 DEF IInv, TypeOK
<1>8. /\ At(blockArrays', r, 1) = a[1] /\ At(blockArrays', r, 2) = a[2]
      /\ \A q \in SlicesOf(blockArrays) : \A k \in 1..Cap(blockArrays, q) :
           At(blockArrays', q, k) = At(blockArrays, q, k)
  <2>1. At(blockArrays', r, 1) = a[1] /\ At(blockArrays', r, 2) = a[2]
    <3>1. blockArrays'[Len(blockArrays) + 1] = a
      BY <1>5, <1>6, <1>7, NewArrayFacts
    <3> QED
      BY <1>4, <3>1 DEF At, Fresh
  <2>2. ASSUME NEW q \in SlicesOf(blockArrays), NEW k \in 1..Cap(blockArrays, q)
        PROVE  At(blockArrays', q, k) = At(blockArrays, q, k)
    BY <1>5, <1>6, <1>7, <2>2, NewSliceKeepsCells
  <2> QED
    BY <2>1, <2>2
<1>9. PathTall(r, Depth[child])'
  <2>1. r.len = 2
    BY <1>4 DEF Fresh
  <2>2. At(blockArrays', r, 1) = b /\ At(blockArrays', r, 2) = child
    BY <1>6, <1>8
  <2>3. \A k \in 1..r.len : k = 1 \/ k = 2
    BY <2>1
  <2> QED
    BY <1>3, <2>1, <2>2, <2>3 DEF PathTall
<1>10. ASSUME NEW q \in SlicesOf(blockArrays), NEW d \in Nat, PathTall(q, d)
       PROVE  PathTall(q, d)'
  <2>1. q.len \in Nat /\ Cap(blockArrays, q) \in Nat /\ q.len <= Cap(blockArrays, q)
    BY <1>7, SliceFacts
  <2> QED
    BY <1>8, <1>10, <2>1 DEF PathTall
<1> QED
  BY <1>2, <1>5, <1>9, <1>10, HeightsAfterWrite

\* The other actions write neither PathMap nor its heap.
LEMMA NextHeights == IInv /\ Heights /\ [Next]_vars => Heights'
<1> SUFFICES ASSUME IInv, Heights, [Next]_vars PROVE Heights'
  OBVIOUS
<1>1. CASE UNCHANGED <<PathMap, blockArrays>>
  BY <1>1 DEF Heights, PathTall
<1>2. ASSUME NEW t \in Threads, WritePath(t) PROVE Heights'
  BY <1>2, WritePathHeights
<1>3. ASSUME NEW t \in Threads, RerootChild(t) PROVE Heights'
  BY <1>3, RerootChildHeights
<1>4. \/ UNCHANGED <<PathMap, blockArrays>>
      \/ \E t \in Threads : WritePath(t) \/ RerootChild(t)
  BY DEF Next, Step, vars, Call, Reject, ReadOrphans, WriteBlockNodeArray, WriteBlockChainMap,
         ReadKids, FindParent, LinkParent, LinkOrphan, store
<1> QED
  BY <1>1, <1>2, <1>3, <1>4

\* No fork, orphan, shared array or race of goroutines makes PathMap credit a
\* block with more height than its chain of hashes has.
THEOREM HeightsCorrect == Spec => []LengthNeverOverstated
<1>1. Heights => LengthNeverOverstated
  BY DEF Heights, PathTall, LengthNeverOverstated
<1> QED
  BY <1>1, InitHeights, NextHeights, InvariantHolds, PTL DEF Spec

-----------------------------------------------------------------------------
(* The number of copies of a block.                                        *)

\* Until BlockHashMap names a block, each of its copies is the entry of a
\* thread that is about to name it there.
CopiesHeld ==
  \A b \in Blocks : ~Stored(b) =>
    \A i \in CopiesOf(b) : \E t \in Threads :
      pc[t] = "writeMap" /\ newBlock[t] = b /\ newBlockIndex[t] = i

\* Things each held by a thread of its own are no more than the threads.
LEMMA HeldAreFew ==
  ASSUME NEW S, NEW held, \A i \in S : \E t \in Threads : held[t] = i
  PROVE  Cardinality(S) <= Cardinality(Threads)
<1> DEFINE f == [i \in S |-> CHOOSE t \in Threads : held[t] = i]
<1>1. \A i \in S : f[i] \in Threads /\ held[f[i]] = i
  OBVIOUS
<1>2. f \in Injection(S, Threads)
  BY <1>1 DEF Injection, IsInjective
<1> QED
  BY <1>2, FS_Injection, ThreadsAssumption

LEMMA InitCopies == Init => CopiesHeld /\ CopiesBounded
<1> SUFFICES ASSUME Init, NEW b \in Blocks
             PROVE  CopiesOf(b) = {} /\ Cardinality(CopiesOf(b)) <= Cardinality(Threads)
  BY DEF CopiesHeld, CopiesBounded
<1>1. CopiesOf(b) = {}
  BY DEF Init, CopiesOf
<1> QED
  BY <1>1, FS_EmptySet, FS_CardinalityType, ThreadsAssumption

\* A step that adds no entry, leaves BlockHashMap alone and does not move a
\* thread that is about to write there.
LEMMA CopiesFrame ==
  ASSUME CopiesHeld, CopiesBounded, UNCHANGED BlockHashMap,
         \A b \in Blocks : CopiesOf(b)' = CopiesOf(b),
         \A t \in Threads : pc[t] = "writeMap" => UNCHANGED <<pc[t], newBlock[t], newBlockIndex[t]>>
  PROVE  CopiesHeld' /\ CopiesBounded'
BY DEF CopiesHeld, CopiesBounded, Stored

LEMMA WriteBlockNodeArrayCopies ==
  ASSUME IInv, CopiesHeld, CopiesBounded, NEW t \in Threads, WriteBlockNodeArray(t)
  PROVE  CopiesHeld' /\ CopiesBounded'
<1> DEFINE b == newBlock[t]
           n == Len(BlockNodeArray)
<1>1. /\ UNCHANGED <<BlockHashMap, newBlock>>
      /\ pc \in [Threads -> Phases] /\ pc[t] = "writeArray"
      /\ pc' = [pc EXCEPT ![t] = "writeMap"]
      /\ n \in Nat /\ n >= 1 /\ b \in Blocks
      /\ newBlockIndex \in [Threads -> 0..n]
  BY HashFacts, TypeFacts DEF IInv, TypeOK, Busy, Entries, WriteBlockNodeArray
<1>2. CASE BlockHashMap[b] # 0
  <2>1. /\ UNCHANGED BlockNodeArray
        /\ newBlockIndex' = [newBlockIndex EXCEPT ![t] = BlockHashMap[b]]
    BY <1>2 DEF WriteBlockNodeArray
  <2>2. \A u \in Threads : pc[u] = "writeMap"
          => UNCHANGED <<pc[u], newBlock[u], newBlockIndex[u]>>
    BY <1>1, <2>1
  <2>3. \A c \in Blocks : CopiesOf(c)' = CopiesOf(c)
    BY <2>1 DEF CopiesOf
  <2> QED
    BY <1>1, <2>2, <2>3, CopiesFrame
<1>3. CASE BlockHashMap[b] = 0
  <2>1. /\ BlockNodeArray' = Append(BlockNodeArray, [block |-> b, children |-> existingChildren[t]])
        /\ newBlockIndex' = [newBlockIndex EXCEPT ![t] = n + 1]
    BY <1>3 DEF WriteBlockNodeArray
  <2>2. /\ Len(BlockNodeArray') = n + 1
        /\ BlockNodeArray'[n + 1].block = b
        /\ \A i \in 1..n : BlockNodeArray'[i] = BlockNodeArray[i]
    BY <1>1, <2>1, AppendProperties DEF IInv, TypeOK
  <2>3. \A c \in Blocks : CopiesOf(c)' = CopiesOf(c) \cup (IF c = b THEN {n + 1} ELSE {})
    BY <1>1, <2>2 DEF CopiesOf
  <2>4. ASSUME NEW c \in Blocks, ~Stored(c), NEW i \in CopiesOf(c)'
        PROVE  \E u \in Threads :
                 pc'[u] = "writeMap" /\ newBlock'[u] = c /\ newBlockIndex'[u] = i
    <3>1. CASE i \in CopiesOf(c)
      <4>1. PICK u \in Threads : pc[u] = "writeMap" /\ newBlock[u] = c /\ newBlockIndex[u] = i
        BY <2>4, <3>1 DEF CopiesHeld
      <4> QED
        BY <4>1, <1>1, <2>1
    <3>2. CASE c = b /\ i = n + 1
      BY <3>2, <1>1, <2>1
    <3> QED
      BY <2>3, <2>4, <3>1, <3>2
  <2>5. CopiesHeld'
    BY <1>1, <2>4 DEF CopiesHeld, Stored
  <2>6. ~Stored(b)
    BY <1>3 DEF Stored
  <2>7. \A i \in CopiesOf(b)' : \E u \in Threads : newBlockIndex'[u] = i
    BY <1>1, <2>4, <2>6
  <2>8. Cardinality(CopiesOf(b)') <= Cardinality(Threads)
    BY <2>7, HeldAreFew
  <2>9. ASSUME NEW c \in Blocks, c # b
        PROVE  Cardinality(CopiesOf(c)') <= Cardinality(Threads)
    <3>1. CopiesOf(c)' = CopiesOf(c)
      BY <2>3, <2>9
    <3> QED
      BY <3>1 DEF CopiesBounded
  <2>10. \A c \in Blocks : Cardinality(CopiesOf(c)') <= Cardinality(Threads)
    <3>1. TAKE c \in Blocks
    <3>2. CASE c = b
      <4>1. CopiesOf(c)' = CopiesOf(b)'
        BY <1>1, <3>2 DEF CopiesOf
      <4> QED
        BY <4>1, <2>8
    <3> QED
      BY <3>2, <2>9
  <2> QED
    BY <2>5, <2>10 DEF CopiesBounded
<1> QED
  BY <1>2, <1>3

\* The thread names its block in BlockHashMap: of that block no more copies
\* can come.
LEMMA WriteBlockChainMapCopies ==
  ASSUME IInv, CopiesHeld, CopiesBounded, NEW t \in Threads, WriteBlockChainMap(t)
  PROVE  CopiesHeld' /\ CopiesBounded'
<1> DEFINE b == newBlock[t]
<1>1. /\ UNCHANGED <<BlockNodeArray, newBlock, newBlockIndex>>
      /\ pc \in [Threads -> Phases]
      /\ pc' = [pc EXCEPT ![t] = "writePath"]
      /\ BlockHashMap' = [BlockHashMap EXCEPT ![b] = newBlockIndex[t]]
      /\ newBlockIndex[t] # 0 /\ b \in Hashes
      /\ BlockHashMap \in [Hashes -> 0..Len(BlockNodeArray)]
  BY HashFacts DEF IInv, TypeOK, Busy, Indices, WriteBlockChainMap, locals
<1>2. \A c : CopiesOf(c)' = CopiesOf(c)
  BY <1>1 DEF CopiesOf
<1>3. CopiesBounded'
  BY <1>2 DEF CopiesBounded
<1>4. ASSUME NEW c \in Blocks, ~Stored(c)', NEW i \in CopiesOf(c)
      PROVE  \E u \in Threads :
               pc'[u] = "writeMap" /\ newBlock'[u] = c /\ newBlockIndex'[u] = i
  <2>1. c # b /\ ~Stored(c)
    BY <1>1, <1>4, HashFacts DEF Stored
  <2>2. PICK u \in Threads : pc[u] = "writeMap" /\ newBlock[u] = c /\ newBlockIndex[u] = i
    BY <1>4, <2>1 DEF CopiesHeld
  <2> QED
    BY <1>1, <2>1, <2>2
<1> QED
  BY <1>2, <1>3, <1>4 DEF CopiesHeld

LEMMA NextCopies ==
  IInv /\ CopiesHeld /\ CopiesBounded /\ [Next]_vars => CopiesHeld' /\ CopiesBounded'
<1> SUFFICES ASSUME IInv, CopiesHeld, CopiesBounded, [Next]_vars
             PROVE  CopiesHeld' /\ CopiesBounded'
  OBVIOUS
<1>1. ASSUME NEW t \in Threads, WriteBlockNodeArray(t) PROVE CopiesHeld' /\ CopiesBounded'
  BY <1>1, WriteBlockNodeArrayCopies
<1>2. ASSUME NEW t \in Threads, WriteBlockChainMap(t) PROVE CopiesHeld' /\ CopiesBounded'
  BY <1>2, WriteBlockChainMapCopies
<1>3. ASSUME NEW t \in Threads, LinkParent(t) PROVE CopiesHeld' /\ CopiesBounded'
  <2>1. /\ UNCHANGED BlockHashMap
        /\ pc[t] = "link" /\ Return(t)
        /\ \E s : BlockNodeArray' = [BlockNodeArray EXCEPT ![parentIndex[t]].children = s]
    BY <1>3 DEF LinkParent
  <2>2. /\ Len(BlockNodeArray') = Len(BlockNodeArray)
        /\ \A i \in 1..Len(BlockNodeArray) : BlockNodeArray'[i].block = BlockNodeArray[i].block
    BY <2>1, TypeFacts, ExceptSeq DEF IInv, TypeOK
  <2>3. \A b \in Blocks : CopiesOf(b)' = CopiesOf(b)
    BY <2>2, TypeFacts DEF CopiesOf, IInv
  <2>4. \A u \in Threads : pc[u] = "writeMap"
          => UNCHANGED <<pc[u], newBlock[u], newBlockIndex[u]>>
    BY <2>1 DEF Return, IInv, TypeOK
  <2> QED
    BY <2>1, <2>3, <2>4, CopiesFrame
<1>4. ASSUME UNCHANGED <<BlockNodeArray, BlockHashMap>>,
             \A u \in Threads : pc[u] = "writeMap"
               => UNCHANGED <<pc[u], newBlock[u], newBlockIndex[u]>>
      PROVE  CopiesHeld' /\ CopiesBounded'
  <2>1. \A b \in Blocks : CopiesOf(b)' = CopiesOf(b)
    BY <1>4 DEF CopiesOf
  <2> QED
    BY <1>4, <2>1, CopiesFrame
<1>5. CASE UNCHANGED vars
  BY <1>4, <1>5 DEF vars
<1>6. ASSUME NEW t \in Threads,
             \/ \E b \in Blocks : Call(t, b) \/ Reject(t, b)
             \/ ReadOrphans(t) \/ WritePath(t) \/ ReadKids(t) \/ RerootChild(t)
             \/ FindParent(t) \/ LinkOrphan(t)
      PROVE  CopiesHeld' /\ CopiesBounded'
  <2>1. UNCHANGED <<BlockNodeArray, BlockHashMap>>
    BY <1>6 DEF Call, Reject, ReadOrphans, WritePath, ReadKids, RerootChild, FindParent,
                LinkOrphan, store, vars
  <2>2. \A u \in Threads : pc[u] = "writeMap"
          => UNCHANGED <<pc[u], newBlock[u], newBlockIndex[u]>>
    BY <1>6 DEF Call, Reject, ReadOrphans, WritePath, ReadKids, RerootChild, FindParent,
                LinkOrphan, Return, locals, vars, IInv, TypeOK
  <2> QED
    BY <1>4, <2>1, <2>2
<1> QED
  BY <1>1, <1>2, <1>3, <1>5, <1>6 DEF Next, Step

\* Whatever the interleaving, no more copies of a block enter BlockNodeArray
\* than there are goroutines that run InsertBlock.
THEOREM CopiesAreBounded == Spec => []CopiesBounded
BY InitCopies, NextCopies, InvariantHolds, PTL DEF Spec

-----------------------------------------------------------------------------
(* Calls that do not overlap                                               *)

\* Calls do not overlap: there is one thread to run them.
OneThread == \A t, u \in Threads : t = u

\* The phases in which newBlockIndex is set and no list names the block yet.
Late == {"writeMap", "writePath", "readKids", "reroot", "link"}

\* The entries that InsertBlock has put in a list.
Linked ==
  {j \in 2..Len(BlockNodeArray) : \A t \in Threads : pc[t] \in Late => newBlockIndex[t] # j}

InLinked(s) == \A k \in 1..s.len : At(indexArrays, s, k) \in Linked

HasAll(s, h) ==
  \A j \in Linked : PrevHash[BlockNodeArray[j].block] = h
    => \E k \in 1..s.len : At(indexArrays, s, k) = j

NoTwice(s) ==
  \A k, l \in 1..s.len : At(indexArrays, s, k) = At(indexArrays, s, l) => k = l

HasEntry(h) == \E i \in 1..Len(BlockNodeArray) : EntryHash(i) = h

Unique == \A i, j \in 1..Len(BlockNodeArray) : EntryHash(i) = EntryHash(j) => i = j

\* BlockHashMap knows each entry but one that is about to be written there.
Mapped ==
  \A i \in 1..Len(BlockNodeArray) :
    (\A t \in Threads : pc[t] = "writeMap" => newBlockIndex[t] # i)
      => BlockHashMap[EntryHash(i)] = i

OnlyLinked ==
  /\ \A h \in Hashes : InLinked(ParentHashMap[h])
  /\ \A i \in 1..Len(BlockNodeArray) : InLinked(BlockNodeArray[i].children)
  /\ \A t \in Threads : InLinked(existingChildren[t])

\* The children of a hash are in its entry's list, or wait for an entry.
Complete ==
  /\ \A i \in 1..Len(BlockNodeArray) :
       /\ HasAll(BlockNodeArray[i].children, EntryHash(i))
       /\ NoTwice(BlockNodeArray[i].children)
  /\ \A h \in Hashes : ~HasEntry(h) => HasAll(ParentHashMap[h], h) /\ NoTwice(ParentHashMap[h])

\* What the call under way has read is still so.
Current ==
  \A t \in Threads :
    /\ pc[t] \in {"readOrphans", "writeArray"} => BlockHashMap[newBlock[t]] = 0
    /\ pc[t] = "writeArray" => existingChildren[t] = ParentHashMap[newBlock[t]]
    /\ pc[t] = "link" => parentIndex[t] = BlockHashMap[PrevHash[newBlock[t]]]
    /\ pc[t] \in Late => newBlockIndex[t] = Len(BlockNodeArray)

Serial == Unique /\ Mapped /\ OnlyLinked /\ Complete /\ Current

\* The only thread decides which entry is not linked.
LEMMA LinkedIs ==
  ASSUME OneThread, NEW t \in Threads
  PROVE  /\ Linked = {j \in 2..Len(BlockNodeArray) : pc[t] \in Late => newBlockIndex[t] # j}
         /\ Linked' = {j \in 2..Len(BlockNodeArray') : pc'[t] \in Late => newBlockIndex'[t] # j}
BY DEF OneThread, Linked

LEMMA InitSerial == Init => Serial
<1> SUFFICES ASSUME Init PROVE Serial
  OBVIOUS
<1>1. /\ Len(BlockNodeArray) = 1
      /\ BlockNodeArray[1] = [block |-> Empty, children |-> Nil]
      /\ EntryHash(1) = Genesis
  BY DEF Init, EntryHash
<1>2. Linked = {}
  BY <1>1 DEF Linked
<1>3. \A h : InLinked(Nil) /\ HasAll(Nil, h) /\ NoTwice(Nil)
  BY <1>2 DEF InLinked, HasAll, NoTwice, Nil
<1>4. Unique /\ Mapped
  BY <1>1, HashFacts DEF Unique, Mapped, Init
<1>5. OnlyLinked /\ Complete
  BY <1>1, <1>3 DEF OnlyLinked, Complete, Init
<1>6. Current
  BY DEF Current, Init, Late
<1> QED
  BY <1>4, <1>5, <1>6 DEF Serial

\* A step that writes no list and links no block.
LEMMA ListsFrame ==
  ASSUME Serial, UNCHANGED <<BlockNodeArray, ParentHashMap, indexArrays>>, Linked' = Linked
  PROVE  /\ Unique' /\ Complete'
         /\ \A h \in Hashes : InLinked(ParentHashMap[h])'
         /\ \A i \in 1..Len(BlockNodeArray') : InLinked(BlockNodeArray[i].children)'
         /\ \A s : InLinked(s) => InLinked(s)'
<1>1. \A s, h : (InLinked(s) <=> InLinked(s)') /\ (HasAll(s, h) <=> HasAll(s, h)')
                /\ (NoTwice(s) <=> NoTwice(s)')
  BY DEF InLinked, HasAll, NoTwice
<1>2. \A i : EntryHash(i)' = EntryHash(i)
  BY DEF EntryHash
<1>3. \A h : HasEntry(h)' <=> HasEntry(h)
  BY <1>2 DEF HasEntry
<1> QED
  BY <1>1, <1>2, <1>3 DEF Serial, Unique, OnlyLinked, Complete

LEMMA CallSerial ==
  ASSUME OneThread, IInv, Serial, NEW t \in Threads, NEW b \in Blocks, Call(t, b)
  PROVE  Serial'
<1>1. /\ UNCHANGED <<BlockNodeArray, BlockHashMap, ParentHashMap, indexArrays,
                     newBlockIndex, existingChildren>>
      /\ pc[t] = "idle" /\ pc'[t] = "readOrphans"
      /\ newBlock'[t] = b /\ BlockHashMap[b] = 0
      /\ \A u \in Threads : u = t
  BY DEF Call, Accepts, store, OneThread, IInv, TypeOK
<1>2. Linked' = Linked
  BY <1>1, LinkedIs DEF Late
<1>3. Mapped'
  BY <1>1 DEF Serial, Mapped, EntryHash
<1>4. OnlyLinked'
  BY <1>1, <1>2, ListsFrame DEF Serial, OnlyLinked
<1>5. Current'
  BY <1>1 DEF Current, Late
<1> QED
  BY <1>1, <1>2, <1>3, <1>4, <1>5, ListsFrame DEF Serial

LEMMA ReadOrphansSerial ==
  ASSUME OneThread, IInv, Serial, NEW t \in Threads, ReadOrphans(t)
  PROVE  Serial'
<1>1. /\ UNCHANGED <<BlockNodeArray, BlockHashMap, ParentHashMap, indexArrays,
                     newBlock, newBlockIndex>>
      /\ pc[t] = "readOrphans" /\ pc'[t] = "writeArray"
      /\ newBlock[t] \in Hashes
      /\ existingChildren'[t] = ParentHashMap[newBlock[t]]
      /\ \A u \in Threads : u = t
  BY HashFacts, TypeFacts DEF ReadOrphans, store, OneThread, IInv, TypeOK
<1>2. Linked' = Linked
  BY <1>1, LinkedIs DEF Late
<1>3. Mapped'
  BY <1>1 DEF Serial, Mapped, EntryHash
<1>4. OnlyLinked'
  BY <1>1, <1>2, ListsFrame DEF Serial, OnlyLinked
<1>5. Current'
  BY <1>1 DEF Serial, Current, Late
<1> QED
  BY <1>1, <1>2, <1>3, <1>4, <1>5, ListsFrame DEF Serial

LEMMA WriteBlockChainMapSerial ==
  ASSUME OneThread, IInv, Serial, NEW t \in Threads, WriteBlockChainMap(t)
  PROVE  Serial'
<1>1. /\ UNCHANGED <<BlockNodeArray, ParentHashMap, indexArrays, newBlock, newBlockIndex,
                     existingChildren, parentIndex>>
      /\ pc[t] = "writeMap" /\ pc'[t] = "writePath"
      /\ newBlock[t] \in Hashes /\ newBlock[t] # Genesis
      /\ newBlockIndex[t] \in 2..Len(BlockNodeArray)
      /\ BlockNodeArray[newBlockIndex[t]].block = newBlock[t]
      /\ BlockHashMap \in [Hashes -> 0..Len(BlockNodeArray)]
      /\ BlockHashMap' = [BlockHashMap EXCEPT ![newBlock[t]] = newBlockIndex[t]]
      /\ \A u \in Threads : u = t
  BY HashFacts, TypeFacts DEF WriteBlockChainMap, locals, OneThread, IInv, TypeOK, Indices, Busy
<1>2. Linked' = Linked
  BY <1>1, LinkedIs DEF Late
<1>3. Mapped'
  <2> SUFFICES ASSUME NEW i \in 1..Len(BlockNodeArray)
               PROVE  BlockHashMap'[EntryHash(i)] = i
    BY <1>1 DEF Mapped, EntryHash
  <2>1. EntryHash(newBlockIndex[t]) = newBlock[t] /\ newBlockIndex[t] \in 1..Len(BlockNodeArray)
    BY <1>1, TypeFacts DEF EntryHash, IInv
  <2>2. CASE i = newBlockIndex[t]
    BY <1>1, <2>1, <2>2
  <2>3. CASE i # newBlockIndex[t]
    <3>1. EntryHash(i) # newBlock[t]
      BY <2>1, <2>3 DEF Serial, Unique
    <3>2. BlockHashMap[EntryHash(i)] = i
      BY <1>1, <2>3 DEF Serial, Mapped
    <3> QED
      BY <1>1, <3>1, <3>2
  <2> QED
    BY <2>2, <2>3
<1>4. OnlyLinked'
  BY <1>1, <1>2, ListsFrame DEF Serial, OnlyLinked
<1>5. Current'
  BY <1>1 DEF Serial, Current, Late
<1> QED
  BY <1>1, <1>2, <1>3, <1>4, <1>5, ListsFrame DEF Serial

LEMMA WritePathSerial ==
  ASSUME OneThread, IInv, Serial, NEW t \in Threads, WritePath(t)
  PROVE  Serial'
<1>1. /\ UNCHANGED <<BlockNodeArray, BlockHashMap, ParentHashMap, indexArrays, newBlock,
                     newBlockIndex, existingChildren, parentIndex>>
      /\ pc[t] = "writePath" /\ pc'[t] = "readKids"
      /\ \A u \in Threads : u = t
  BY DEF WritePath, locals, OneThread, IInv, TypeOK
<1>2. Linked' = Linked
  BY <1>1, LinkedIs DEF Late
<1>3. Mapped'
  BY <1>1 DEF Serial, Mapped, EntryHash
<1>4. OnlyLinked'
  BY <1>1, <1>2, ListsFrame DEF Serial, OnlyLinked
<1>5. Current'
  BY <1>1 DEF Serial, Current, Late
<1> QED
  BY <1>1, <1>2, <1>3, <1>4, <1>5, ListsFrame DEF Serial

LEMMA ReadKidsSerial ==
  ASSUME OneThread, IInv, Serial, NEW t \in Threads, ReadKids(t)
  PROVE  Serial'
<1>1. /\ UNCHANGED <<BlockNodeArray, BlockHashMap, ParentHashMap, indexArrays, newBlock,
                     newBlockIndex, parentIndex>>
      /\ pc[t] = "readKids" /\ pc'[t] = "reroot"
      /\ newBlock[t] \in Hashes
      /\ existingChildren'[t] = ParentHashMap[newBlock[t]]
      /\ \A u \in Threads : u = t
  BY HashFacts, TypeFacts DEF ReadKids, store, OneThread, IInv, TypeOK
<1>2. Linked' = Linked
  BY <1>1, LinkedIs DEF Late
<1>3. Mapped'
  BY <1>1 DEF Serial, Mapped, EntryHash
<1>4. OnlyLinked'
  BY <1>1, <1>2, ListsFrame DEF Serial, OnlyLinked
<1>5. Current'
  BY <1>1 DEF Serial, Current, Late
<1> QED
  BY <1>1, <1>2, <1>3, <1>4, <1>5, ListsFrame DEF Serial

LEMMA RerootChildSerial ==
  ASSUME OneThread, IInv, Serial, NEW t \in Threads, RerootChild(t)
  PROVE  Serial'
<1>1. /\ UNCHANGED <<BlockNodeArray, BlockHashMap, ParentHashMap, indexArrays, newBlock,
                     newBlockIndex, existingChildren, parentIndex, pc>>
      /\ pc[t] = "reroot"
      /\ \A u \in Threads : u = t
  BY DEF RerootChild, OneThread
<1>2. Linked' = Linked
  BY <1>1, LinkedIs DEF Late
<1>3. Mapped'
  BY <1>1 DEF Serial, Mapped, EntryHash
<1>4. OnlyLinked'
  BY <1>1, <1>2, ListsFrame DEF Serial, OnlyLinked
<1>5. Current'
  BY <1>1 DEF Serial, Current, Late
<1> QED
  BY <1>1, <1>2, <1>3, <1>4, <1>5, ListsFrame DEF Serial

LEMMA FindParentSerial ==
  ASSUME OneThread, IInv, Serial, NEW t \in Threads, FindParent(t)
  PROVE  Serial'
<1>1. /\ UNCHANGED <<BlockNodeArray, BlockHashMap, ParentHashMap, indexArrays, newBlock,
                     newBlockIndex, existingChildren>>
      /\ pc[t] = "reroot" /\ pc'[t] = "link"
      /\ parentIndex'[t] = BlockHashMap[PrevHash[newBlock[t]]]
      /\ \A u \in Threads : u = t
  BY DEF FindParent, store, OneThread, IInv, TypeOK
<1>2. Linked' = Linked
  BY <1>1, LinkedIs DEF Late
<1>3. Mapped'
  BY <1>1 DEF Serial, Mapped, EntryHash
<1>4. OnlyLinked'
  BY <1>1, <1>2, ListsFrame DEF Serial, OnlyLinked
<1>5. Current'
  BY <1>1 DEF Serial, Current, Late
<1> QED
  BY <1>1, <1>2, <1>3, <1>4, <1>5, ListsFrame DEF Serial

\* The new entry takes over the orphans' list, which has all its children; it
\* is itself in no list yet.
LEMMA WriteBlockNodeArraySerial ==
  ASSUME OneThread, IInv, Serial, NEW t \in Threads, WriteBlockNodeArray(t)
  PROVE  Serial' /\ Linked' = Linked
<1>1. PICK n, b : n = Len(BlockNodeArray) /\ b = newBlock[t]
  OBVIOUS
<1>2. /\ UNCHANGED <<BlockHashMap, ParentHashMap, indexArrays, newBlock, existingChildren>>
      /\ pc[t] = "writeArray" /\ pc'[t] = "writeMap"
      /\ b \in Blocks /\ b \in Hashes /\ b # Genesis
      /\ BlockHashMap[b] = 0
      /\ existingChildren[t] = ParentHashMap[b]
      /\ BlockNodeArray' = Append(BlockNodeArray, [block |-> b, children |-> ParentHashMap[b]])
      /\ newBlockIndex'[t] = n + 1
      /\ n \in Nat /\ n >= 1
      /\ \A u \in Threads : u = t
  BY <1>1, HashFacts, TypeFacts
     DEF WriteBlockNodeArray, OneThread, IInv, TypeOK, Busy, Serial, Current, Entries
<1>3. /\ Len(BlockNodeArray') = n + 1
      /\ BlockNodeArray'[n + 1] = [block |-> b, children |-> ParentHashMap[b]]
      /\ \A i \in 1..n : BlockNodeArray'[i] = BlockNodeArray[i]
  BY <1>1, <1>2, AppendProperties DEF IInv, TypeOK
<1>4. /\ \A i \in 1..n : EntryHash(i)' = EntryHash(i)
      /\ EntryHash(n + 1)' = b
  <2>1. n + 1 # 1
    BY <1>2
  <2> QED
    BY <1>3, <2>1 DEF EntryHash
<1>5. \A i \in 1..n : BlockHashMap[EntryHash(i)] = i
  BY <1>1, <1>2 DEF Serial, Mapped
<1>6. \A i \in 1..n : EntryHash(i) # b
  BY <1>2, <1>5
<1>7. Linked = 2..n /\ Linked' = Linked
  <2>1. Linked = 2..n
    BY <1>1, <1>2, LinkedIs DEF Late
  <2>2. Linked' = {j \in 2..(n + 1) : n + 1 # j}
    BY <1>2, <1>3, LinkedIs DEF Late
  <2>3. {j \in 2..(n + 1) : n + 1 # j} = 2..n
    BY <1>2
  <2> QED
    BY <2>1, <2>2, <2>3
<1>8. /\ \A s : InLinked(s) <=> InLinked(s)'
      /\ \A s, h : HasAll(s, h) <=> HasAll(s, h)'
      /\ \A s : NoTwice(s) <=> NoTwice(s)'
  <2>1. \A j \in Linked : BlockNodeArray'[j] = BlockNodeArray[j]
    BY <1>2, <1>3, <1>7
  <2> QED
    BY <1>2, <1>7, <2>1 DEF InLinked, HasAll, NoTwice
<1>9. \A i \in 1..(n + 1) : i \in 1..n \/ i = n + 1
  BY <1>2
<1>10. Unique'
  BY <1>2, <1>3, <1>4, <1>6, <1>9, <1>1 DEF Serial, Unique
<1>11. Mapped'
  <2> SUFFICES ASSUME NEW i \in 1..(n + 1), newBlockIndex'[t] # i
               PROVE  BlockHashMap[EntryHash(i)'] = i
    BY <1>2, <1>3 DEF Mapped
  <2> QED
    BY <1>2, <1>4, <1>5, <1>9
<1>12. ~HasEntry(b)
  BY <1>1, <1>6 DEF HasEntry
<1>13. OnlyLinked'
  <2>1. \A i \in 1..(n + 1) : InLinked(BlockNodeArray[i].children)'
    BY <1>1, <1>2, <1>3, <1>8, <1>9 DEF Serial, OnlyLinked
  <2> QED
    BY <1>2, <1>3, <1>8, <2>1 DEF Serial, OnlyLinked
<1>14. Complete'
  <2>1. ASSUME NEW i \in 1..(n + 1)
        PROVE  HasAll(BlockNodeArray[i].children, EntryHash(i))' /\ NoTwice(BlockNodeArray[i].children)'
    <3>1. CASE i \in 1..n
      BY <1>1, <1>3, <1>4, <1>8, <3>1 DEF Serial, Complete
    <3>2. CASE i = n + 1
      BY <1>2, <1>3, <1>4, <1>8, <1>12, <3>2 DEF Serial, Complete
    <3> QED
      BY <1>9, <3>1, <3>2
  <2>2. \A h \in Hashes : ~HasEntry(h)' => ~HasEntry(h)
    <3>1. \A i \in 1..n : i \in 1..(n + 1)
      BY <1>2
    <3> QED
      BY <1>1, <1>3, <1>4, <3>1 DEF HasEntry
  <2> QED
    BY <1>2, <1>3, <1>8, <2>1, <2>2 DEF Serial, Complete
<1>15. Current'
  BY <1>1, <1>2, <1>3 DEF Current, Late
<1> QED
  BY <1>7, <1>10, <1>11, <1>13, <1>14, <1>15 DEF Serial

\* Appending a block that is in no list yet to a list of its parent: a list of
\* another parent shares no array with that one, and keeps what it names.
LEMMA LinkedAppend ==
  ASSUME IInv, NEW s \in SlicesOf(indexArrays), NEW h, GoodList(s, h), InLinked(s),
         NEW c, IsChild(c, h), c \notin Linked, Linked' = Linked \cup {c},
         indexArrays' = HeapAfterAppend(indexArrays, s, c, 0),
         NEW r, r = Appended(indexArrays, s),
         \A j \in 1..Len(BlockNodeArray) : BlockNodeArray'[j].block = BlockNodeArray[j].block
  PROVE  /\ InLinked(r)'
         /\ HasAll(s, h) /\ NoTwice(s) => HasAll(r, h)' /\ NoTwice(r)'
         /\ \A q \in SlicesOf(indexArrays) : InLinked(q) => InLinked(q)'
         /\ \A q \in SlicesOf(indexArrays) : \A g :
              GoodList(q, g) /\ g # h /\ HasAll(q, g) /\ NoTwice(q) => HasAll(q, g)' /\ NoTwice(q)'
<1> DEFINE S == 0..Len(BlockNodeArray)
<1>1. /\ indexArrays \in Seq(Seq(S)) /\ c \in S /\ 0 \in S /\ c # 0
      /\ c \in 1..Len(BlockNodeArray) /\ PrevHash[BlockNodeArray[c].block] = h
  BY TypeFacts DEF IInv, TypeOK, IsChild
<1>2. \A j \in Linked : j \in 1..Len(BlockNodeArray)
  BY TypeFacts DEF IInv, Linked
<1> HIDE DEF S
<1>3. /\ r.len = s.len + 1
      /\ At(indexArrays', r, s.len + 1) = c
      /\ \A k \in 1..s.len : At(indexArrays', r, k) = At(indexArrays, s, k)
  <2>1. r.len = s.len + 1
    BY DEF Appended
  <2> QED
    BY <1>1, <2>1, AppendedCells
<1>4. /\ s.len \in Nat /\ Cap(indexArrays, s) \in Nat /\ s.len <= Cap(indexArrays, s)
  BY <1>1, SliceFacts
<1>5. \A k \in 1..r.len : k \in 1..s.len \/ k = s.len + 1
  BY <1>3, <1>4
<1>6. ASSUME NEW q \in SlicesOf(indexArrays)
      PROVE  /\ q.len \in Nat
             /\ \A k \in 1..q.len : k \in 1..Cap(indexArrays, q)
  BY <1>1, SliceFacts
<1>7. ASSUME NEW q \in SlicesOf(indexArrays), NEW k \in 1..q.len
      PROVE  \/ At(indexArrays', q, k) = At(indexArrays, q, k)
             \/ At(indexArrays', q, k) = c /\ q.arr = s.arr /\ s.len >= 1
  <2>1. k \in 1..Cap(indexArrays, q)
    BY <1>6
  <2> QED
    BY <1>1, <2>1, AppendKeepsCells
<1>8. InLinked(r)'
  BY <1>3, <1>5 DEF InLinked
<1>9. ASSUME HasAll(s, h), NoTwice(s)
      PROVE  HasAll(r, h)' /\ NoTwice(r)'
  <2>1. \A k \in 1..s.len : At(indexArrays, s, k) # c
    BY DEF InLinked
  <2>2. NoTwice(r)'
    BY <1>3, <1>5, <1>9, <2>1 DEF NoTwice
  <2>3. \A k \in 1..s.len : k \in 1..r.len
    BY <1>3, <1>4
  <2>4. s.len + 1 \in 1..r.len
    BY <1>3, <1>4
  <2>5. ASSUME NEW j \in Linked \cup {c}, PrevHash[BlockNodeArray'[j].block] = h
        PROVE  \E k \in 1..r.len : At(indexArrays', r, k) = j
    <3>1. CASE j = c
      BY <1>3, <2>4, <3>1
    <3>2. CASE j \in Linked
      <4>1. PrevHash[BlockNodeArray[j].block] = h
        BY <1>2, <2>5, <3>2
      <4>2. PICK k \in 1..s.len : At(indexArrays, s, k) = j
        BY <1>9, <3>2, <4>1 DEF HasAll
      <4> QED
        BY <1>3, <2>3, <4>2
    <3> QED
      BY <2>5, <3>1, <3>2
  <2> QED
    BY <2>2, <2>5 DEF HasAll
<1>10. ASSUME NEW q \in SlicesOf(indexArrays), InLinked(q)
       PROVE  InLinked(q)'
  BY <1>7, <1>10 DEF InLinked
<1>11. ASSUME NEW q \in SlicesOf(indexArrays), NEW g,
              GoodList(q, g), g # h, HasAll(q, g), NoTwice(q)
       PROVE  HasAll(q, g)' /\ NoTwice(q)'
  <2>1. ASSUME NEW k \in 1..q.len PROVE At(indexArrays', q, k) = At(indexArrays, q, k)
    <3>1. SUFFICES ASSUME q.arr = s.arr, s.len >= 1 PROVE FALSE
      BY <1>7
    <3>2. /\ 1 \in 1..s.len /\ 1 \in 1..Cap(indexArrays, s) /\ ~(1 > s.len)
          /\ 1 \in 1..q.len /\ 1 \in 1..Cap(indexArrays, q) /\ ~(1 > q.len)
      <4>1. 1 \in 1..s.len /\ 1 \in 1..Cap(indexArrays, s) /\ ~(1 > s.len)
        BY <1>4, <3>1
      <4>2. 1 \in 1..q.len /\ ~(1 > q.len)
        BY <1>6
      <4> QED
        BY <1>6, <4>1, <4>2
    <3>3. At(indexArrays, q, 1) = At(indexArrays, s, 1)
      BY <3>1 DEF At
    <3>4. IsChild(At(indexArrays, s, 1), h) /\ IsChild(At(indexArrays, q, 1), g)
      BY <1>11, <3>2 DEF GoodList
    <3> QED
      BY <1>11, <3>3, <3>4 DEF IsChild
  <2>2. NoTwice(q)'
    BY <1>11, <2>1 DEF NoTwice
  <2>3. ASSUME NEW j \in Linked \cup {c}, PrevHash[BlockNodeArray'[j].block] = g
        PROVE  \E k \in 1..q.len : At(indexArrays', q, k) = j
    <3>1. j # c
      BY <1>1, <1>11, <2>3
    <3>2. PrevHash[BlockNodeArray[j].block] = g
      BY <1>2, <2>3, <3>1
    <3> QED
      BY <1>11, <2>1, <2>3, <3>1, <3>2 DEF HasAll
  <2> QED
    BY <2>2, <2>3 DEF HasAll
<1> QED
  BY <1>8, <1>9, <1>10, <1>11

\* What both ways to link a block have in common.
LEMMA LinkFacts ==
  ASSUME OneThread, IInv, Serial, NEW t \in Threads, pc[t] = "link", Return(t),
         UNCHANGED BlockHashMap,
         Len(BlockNodeArray') = Len(BlockNodeArray),
         \A j \in 1..Len(BlockNodeArray) : BlockNodeArray'[j].block = BlockNodeArray[j].block
  PROVE  /\ newBlock[t] \in Valid /\ PrevHash[newBlock[t]] \in Hashes
         /\ newBlockIndex[t] = Len(BlockNodeArray)
         /\ BlockNodeArray[newBlockIndex[t]].block = newBlock[t]
         /\ IsChild(newBlockIndex[t], PrevHash[newBlock[t]])
         /\ newBlockIndex[t] \notin Linked
         /\ Linked' = Linked \cup {newBlockIndex[t]}
         /\ Linked' = 2..Len(BlockNodeArray)
         /\ \A i : EntryHash(i) = EntryHash(i)' \/ i \notin 1..Len(BlockNodeArray)
         /\ \A i \in 1..Len(BlockNodeArray) : BlockHashMap[EntryHash(i)] = i
         /\ Unique' /\ Mapped' /\ Current'
         /\ \A u \in Threads : existingChildren'[u] = Nil
<1>1. /\ pc'[t] = "idle" /\ existingChildren'[t] = Nil
      /\ newBlockIndex[t] \in 2..Len(BlockNodeArray)
      /\ BlockNodeArray[newBlockIndex[t]].block = newBlock[t]
      /\ \A u \in Threads : u = t
      /\ Len(BlockNodeArray) \in Nat
      /\ newBlock[t] \in Valid /\ PrevHash[newBlock[t]] \in Hashes
  BY HashFacts, TypeFacts DEF Return, OneThread, IInv, TypeOK, Indices, Busy
<1>2. /\ Linked' = 2..Len(BlockNodeArray)
      /\ Linked = {j \in 2..Len(BlockNodeArray) : newBlockIndex[t] # j}
  BY <1>1, LinkedIs DEF Late
<1>3. newBlockIndex[t] \notin Linked /\ Linked' = Linked \cup {newBlockIndex[t]}
  BY <1>1, <1>2
<1>4. \A i : EntryHash(i) = EntryHash(i)' \/ i \notin 1..Len(BlockNodeArray)
  BY DEF EntryHash
<1>5. \A i \in 1..Len(BlockNodeArray) : BlockHashMap[EntryHash(i)] = i
  BY <1>1 DEF Serial, Mapped
<1>6. Unique' /\ Mapped'
  BY <1>4, <1>5 DEF Serial, Unique, Mapped
<1>7. Current'
  BY <1>1 DEF Current, Late
<1>8. newBlockIndex[t] = Len(BlockNodeArray) /\ IsChild(newBlockIndex[t], PrevHash[newBlock[t]])
  BY <1>1 DEF Serial, Current, IsChild, Late
<1> QED
  BY <1>1, <1>2, <1>3, <1>4, <1>5, <1>6, <1>7, <1>8

LEMMA NilIsLinked == \A h : InLinked(Nil)
BY DEF InLinked, Nil

LEMMA LinkOrphanSerial ==
  ASSUME OneThread, IInv, Serial, NEW t \in Threads, LinkOrphan(t)
  PROVE  Serial'
<1>1. PICK h, s, r, c :
        /\ h = PrevHash[newBlock[t]] /\ s = ParentHashMap[h]
        /\ r = Appended(indexArrays, s) /\ c = newBlockIndex[t]
  OBVIOUS
<1>2. /\ indexArrays' = HeapAfterAppend(indexArrays, s, c, 0)
      /\ ParentHashMap' = [ParentHashMap EXCEPT ![h] = r]
      /\ UNCHANGED <<BlockNodeArray, BlockHashMap>>
      /\ pc[t] = "link" /\ Return(t) /\ parentIndex[t] = 0
  BY <1>1 DEF LinkOrphan
<1>3. /\ h \in Hashes /\ IsChild(c, h) /\ c \notin Linked
      /\ Linked' = Linked \cup {c}
      /\ \A i \in 1..Len(BlockNodeArray) : EntryHash(i)' = EntryHash(i)
      /\ \A i \in 1..Len(BlockNodeArray) : BlockHashMap[EntryHash(i)] = i
      /\ Unique' /\ Mapped' /\ Current'
      /\ \A u \in Threads : existingChildren'[u] = Nil
  BY <1>1, <1>2, LinkFacts
<1>4. BlockHashMap[h] = 0
  BY <1>1, <1>2 DEF Serial, Current
<1>5. ~HasEntry(h)
  BY <1>3, <1>4 DEF HasEntry
<1>6. /\ s \in SlicesOf(indexArrays) /\ GoodList(s, h) /\ InLinked(s)
      /\ HasAll(s, h) /\ NoTwice(s)
      /\ ParentHashMap \in [Hashes -> SlicesOf(indexArrays)]
  BY <1>1, <1>3, <1>5, TypeFacts DEF IInv, TypeOK, Lists, Serial, OnlyLinked, Complete
<1>7. /\ InLinked(r)'
      /\ HasAll(r, h)' /\ NoTwice(r)'
      /\ \A q \in SlicesOf(indexArrays) : InLinked(q) => InLinked(q)'
      /\ \A q \in SlicesOf(indexArrays) : \A g :
           GoodList(q, g) /\ g # h /\ HasAll(q, g) /\ NoTwice(q) => HasAll(q, g)' /\ NoTwice(q)'
  <2>1. \A j \in 1..Len(BlockNodeArray) : BlockNodeArray'[j].block = BlockNodeArray[j].block
    BY <1>2
  <2> QED
    BY <1>1, <1>2, <1>3, <1>6, <2>1, LinkedAppend
<1>8. /\ ParentHashMap'[h] = r
      /\ \A g \in Hashes : g # h => ParentHashMap'[g] = ParentHashMap[g]
  BY <1>2, <1>3, <1>6
<1>9. OnlyLinked'
  <2>1. \A g \in Hashes : InLinked(ParentHashMap[g])'
    BY <1>6, <1>7, <1>8 DEF Serial, OnlyLinked
  <2>2. \A i \in 1..Len(BlockNodeArray) : InLinked(BlockNodeArray[i].children)'
    BY <1>2, <1>7, TypeFacts DEF Serial, OnlyLinked, IInv
  <2>3. \A u \in Threads : InLinked(existingChildren[u])'
    BY <1>3 DEF InLinked, Nil
  <2> QED
    BY <1>2, <2>1, <2>2, <2>3 DEF OnlyLinked
<1>10. Complete'
  <2>1. ASSUME NEW i \in 1..Len(BlockNodeArray)
        PROVE  HasAll(BlockNodeArray[i].children, EntryHash(i))' /\ NoTwice(BlockNodeArray[i].children)'
    <3>1. PICK q, g : q = BlockNodeArray[i].children /\ g = EntryHash(i)
      OBVIOUS
    <3>2. /\ q \in SlicesOf(indexArrays) /\ GoodList(q, g) /\ HasAll(q, g) /\ NoTwice(q)
          /\ g # h
      BY <1>5, <3>1, TypeFacts DEF IInv, Lists, Serial, Complete, HasEntry
    <3>3. HasAll(q, g)' /\ NoTwice(q)'
      BY <1>7, <3>2
    <3> QED
      BY <1>2, <1>3, <3>1, <3>3
  <2>2. ASSUME NEW g \in Hashes, ~HasEntry(g)'
        PROVE  HasAll(ParentHashMap[g], g)' /\ NoTwice(ParentHashMap[g])'
    <3>1. CASE g = h
      BY <1>7, <1>8, <3>1
    <3>2. CASE g # h
      <4>1. ~HasEntry(g)
        BY <1>2, <1>3, <2>2 DEF HasEntry
      <4>2. PICK q : q = ParentHashMap[g]
        OBVIOUS
      <4>3. q \in SlicesOf(indexArrays) /\ GoodList(q, g) /\ HasAll(q, g) /\ NoTwice(q)
        BY <1>6, <4>1, <4>2 DEF IInv, Lists, Serial, Complete
      <4>4. HasAll(q, g)' /\ NoTwice(q)'
        BY <1>7, <3>2, <4>3
      <4> QED
        BY <1>8, <3>2, <4>2, <4>4
    <3> QED
      BY <3>1, <3>2
  <2> QED
    BY <1>2, <2>1, <2>2 DEF Complete
<1> QED
  BY <1>3, <1>9, <1>10 DEF Serial

LEMMA LinkParentSerial ==
  ASSUME OneThread, IInv, Serial, NEW t \in Threads, LinkParent(t)
  PROVE  Serial'
<1>1. PICK p, h, s, r, c, n :
        /\ p = parentIndex[t] /\ h = EntryHash(p) /\ s = BlockNodeArray[p].children
        /\ r = Appended(indexArrays, s) /\ c = newBlockIndex[t] /\ n = Len(BlockNodeArray)
  OBVIOUS
<1>2. /\ indexArrays' = HeapAfterAppend(indexArrays, s, c, 0)
      /\ BlockNodeArray' = [BlockNodeArray EXCEPT ![p].children = r]
      /\ UNCHANGED <<ParentHashMap, BlockHashMap>>
      /\ pc[t] = "link" /\ Return(t) /\ p # 0
  BY <1>1 DEF LinkParent
<1>3. /\ n \in Nat /\ p \in 1..n
      /\ h = PrevHash[newBlock[t]]
      /\ ParentHashMap \in [Hashes -> SlicesOf(indexArrays)]
      /\ s \in SlicesOf(indexArrays) /\ GoodList(s, h) /\ InLinked(s)
      /\ HasAll(s, h) /\ NoTwice(s)
  BY <1>1, <1>2, TypeFacts DEF IInv, TypeOK, Indices, Lists, Serial, OnlyLinked, Complete
<1>4. /\ Len(BlockNodeArray') = n
      /\ \A i \in 1..n : BlockNodeArray'[i].block = BlockNodeArray[i].block
      /\ BlockNodeArray'[p].children = r
      /\ \A i \in 1..n : i # p => BlockNodeArray'[i].children = BlockNodeArray[i].children
  BY <1>1, <1>2, <1>3, TypeFacts DEF IInv, TypeOK
<1>5. /\ h \in Hashes /\ IsChild(c, h) /\ c \notin Linked
      /\ Linked' = Linked \cup {c}
      /\ \A i \in 1..n : EntryHash(i)' = EntryHash(i)
      /\ Unique' /\ Mapped' /\ Current'
      /\ \A u \in Threads : existingChildren'[u] = Nil
  BY <1>1, <1>2, <1>3, <1>4, LinkFacts
<1>6. /\ InLinked(r)'
      /\ HasAll(r, h)' /\ NoTwice(r)'
      /\ \A q \in SlicesOf(indexArrays) : InLinked(q) => InLinked(q)'
      /\ \A q \in SlicesOf(indexArrays) : \A g :
           GoodList(q, g) /\ g # h /\ HasAll(q, g) /\ NoTwice(q) => HasAll(q, g)' /\ NoTwice(q)'
  BY <1>1, <1>2, <1>3, <1>4, <1>5, LinkedAppend
<1>7. OnlyLinked'
  <2>1. \A g \in Hashes : InLinked(ParentHashMap[g])'
    BY <1>2, <1>3, <1>6 DEF Serial, OnlyLinked
  <2>2. \A i \in 1..n : InLinked(BlockNodeArray[i].children)'
    <3>1. InLinked(BlockNodeArray[p].children)'
      BY <1>4, <1>6
    <3>2. \A i \in 1..n : i # p => InLinked(BlockNodeArray[i].children)'
      BY <1>1, <1>4, <1>6, TypeFacts DEF Serial, OnlyLinked, IInv
    <3> QED
      BY <3>1, <3>2
  <2>3. \A u \in Threads : InLinked(existingChildren[u])'
    BY <1>5 DEF InLinked, Nil
  <2> QED
    BY <1>4, <2>1, <2>2, <2>3 DEF OnlyLinked
<1>8. Complete'
  <2>1. ASSUME NEW i \in 1..n
        PROVE  HasAll(BlockNodeArray[i].children, EntryHash(i))' /\ NoTwice(BlockNodeArray[i].children)'
    <3>1. CASE i = p
      BY <1>1, <1>3, <1>4, <1>5, <1>6, <3>1
    <3>2. CASE i # p
      <4>1. PICK q, g : q = BlockNodeArray[i].children /\ g = EntryHash(i)
        OBVIOUS
      <4>2. g # h
        BY <1>1, <1>3, <3>2, <4>1 DEF Serial, Unique
      <4>3. q \in SlicesOf(indexArrays) /\ GoodList(q, g) /\ HasAll(q, g) /\ NoTwice(q)
        BY <1>1, <4>1, TypeFacts DEF IInv, Lists, Serial, Complete
      <4>4. HasAll(q, g)' /\ NoTwice(q)'
        BY <1>6, <4>2, <4>3
      <4> QED
        BY <1>4, <1>5, <3>2, <4>1, <4>4
    <3> QED
      BY <3>1, <3>2
  <2>2. ASSUME NEW g \in Hashes, ~HasEntry(g)'
        PROVE  HasAll(ParentHashMap[g], g)' /\ NoTwice(ParentHashMap[g])'
    <3>1. ~HasEntry(g) /\ g # h
      BY <1>1, <1>3, <1>4, <1>5, <2>2 DEF HasEntry
    <3>2. PICK q : q = ParentHashMap[g]
      OBVIOUS
    <3>3. q \in SlicesOf(indexArrays) /\ GoodList(q, g) /\ HasAll(q, g) /\ NoTwice(q)
      BY <1>3, <3>1, <3>2 DEF IInv, Lists, Serial, Complete
    <3>4. HasAll(q, g)' /\ NoTwice(q)'
      BY <1>6, <3>1, <3>3
    <3> QED
      BY <1>2, <3>2, <3>4
  <2> QED
    BY <1>4, <2>1, <2>2 DEF Complete
<1> QED
  BY <1>5, <1>7, <1>8 DEF Serial

LEMMA NextSerial == OneThread /\ IInv /\ Serial /\ [Next]_vars => Serial'
<1> SUFFICES ASSUME OneThread, IInv, Serial, [Next]_vars PROVE Serial'
  OBVIOUS
<1>1. CASE UNCHANGED vars
  BY <1>1 DEF vars, Serial, Unique, Mapped, OnlyLinked, Complete, Current, Linked, InLinked,
              HasAll, NoTwice, HasEntry, EntryHash
<1>2. ASSUME NEW t \in Threads, NEW b \in Blocks, Call(t, b) PROVE Serial'
  BY <1>2, CallSerial
<1>3. ASSUME NEW t \in Threads, ReadOrphans(t) PROVE Serial'
  BY <1>3, ReadOrphansSerial
<1>4. ASSUME NEW t \in Threads, WriteBlockNodeArray(t) PROVE Serial'
  BY <1>4, WriteBlockNodeArraySerial
<1>5. ASSUME NEW t \in Threads, WriteBlockChainMap(t) PROVE Serial'
  BY <1>5, WriteBlockChainMapSerial
<1>6. ASSUME NEW t \in Threads, WritePath(t) PROVE Serial'
  BY <1>6, WritePathSerial
<1>7. ASSUME NEW t \in Threads, ReadKids(t) PROVE Serial'
  BY <1>7, ReadKidsSerial
<1>8. ASSUME NEW t \in Threads, RerootChild(t) PROVE Serial'
  BY <1>8, RerootChildSerial
<1>9. ASSUME NEW t \in Threads, FindParent(t) PROVE Serial'
  BY <1>9, FindParentSerial
<1>10. ASSUME NEW t \in Threads, LinkParent(t) PROVE Serial'
  BY <1>10, LinkParentSerial
<1>11. ASSUME NEW t \in Threads, LinkOrphan(t) PROVE Serial'
  BY <1>11, LinkOrphanSerial
<1>12. ASSUME NEW t \in Threads, NEW b \in Blocks, Reject(t, b) PROVE Serial'
  BY <1>1, <1>12 DEF Reject
<1> QED
  BY <1>1, <1>2, <1>3, <1>4, <1>5, <1>6, <1>7, <1>8, <1>9, <1>10, <1>11, <1>12 DEF Next, Step

LEMMA SerialHolds == ASSUME OneThread PROVE Spec => [](IInv /\ Serial)
<1>1. IInv /\ Serial /\ [Next]_vars => (IInv /\ Serial)'
  BY NextIInv, NextSerial
<1>2. Init => IInv /\ Serial
  BY InitIInv, InitSerial
<1> QED
  BY <1>1, <1>2, PTL DEF Spec

-----------------------------------------------------------------------------
(* The lists of children                                                   *)

\* The cells of a list, when all of them are linked and all that are linked
\* are there.
LEMMA CellsAre ==
  ASSUME IInv, NEW s \in SlicesOf(indexArrays), NEW h, GoodList(s, h), InLinked(s), HasAll(s, h)
  PROVE  Cells(indexArrays, s) = {j \in Linked : PrevHash[BlockNodeArray[j].block] = h}
<1>1. \A k \in 1..s.len : k \in 1..Cap(indexArrays, s) /\ ~(k > s.len)
  BY SliceFacts DEF IInv, TypeOK
<1>2. \A k \in 1..s.len : IsChild(At(indexArrays, s, k), h)
  BY <1>1 DEF GoodList
<1> QED
  BY <1>2 DEF Cells, InLinked, HasAll, IsChild

LEMMA CellsCount ==
  ASSUME IInv, NEW s \in SlicesOf(indexArrays), NoTwice(s)
  PROVE  Cardinality(Cells(indexArrays, s)) = s.len
<1> DEFINE f == [k \in 1..s.len |-> At(indexArrays, s, k)]
<1>1. s.len \in Nat
  BY SliceFacts DEF IInv, TypeOK
<1>2. f \in Bijection(1..s.len, Cells(indexArrays, s))
  <2>1. f \in [1..s.len -> Cells(indexArrays, s)]
    BY DEF Cells
  <2>2. \A k, l \in 1..s.len : f[k] = f[l] => k = l
    BY DEF NoTwice
  <2>3. \A x \in Cells(indexArrays, s) : \E k \in 1..s.len : f[k] = x
    BY DEF Cells
  <2> QED
    BY <2>1, <2>2, <2>3 DEF Bijection, Injection, Surjection, IsInjective
<1>3. ExistsBijection(1..s.len, Cells(indexArrays, s))
  BY <1>2 DEF ExistsBijection
<1> QED
  BY <1>1, <1>3, FS_CountingElements

\* When no call is under way, the children of each entry are exactly the
\* stored blocks that name it, each once: whatever arrived as an orphan is
\* adopted, and lists that share an array do not disturb each other
\* (ink-miner.go:541-542, 582-591).
THEOREM ChildrenAreExact == ASSUME OneThread PROVE Spec => []ChildrenExact
<1>1. IInv /\ Serial => ChildrenExact
  <2> SUFFICES ASSUME IInv, Serial, Quiet, NEW i \in 1..Len(BlockNodeArray),
                      NEW s, s = BlockNodeArray[i].children
               PROVE  /\ Cardinality(Cells(indexArrays, s)) = s.len
                      /\ Cells(indexArrays, s) =
                           {j \in 2..Len(BlockNodeArray) :
                              PrevHash[BlockNodeArray[j].block] = EntryHash(i)}
    BY DEF ChildrenExact
  <2>1. /\ s \in SlicesOf(indexArrays) /\ GoodList(s, EntryHash(i))
        /\ InLinked(s) /\ HasAll(s, EntryHash(i)) /\ NoTwice(s)
    BY TypeFacts DEF IInv, Lists, Serial, OnlyLinked, Complete
  <2>2. Linked = 2..Len(BlockNodeArray)
    BY DEF Quiet, Linked, Late
  <2> QED
    BY <2>1, <2>2, CellsAre, CellsCount
<1> QED
  BY <1>1, SerialHolds, PTL

-----------------------------------------------------------------------------
(* The refinement of BlockTree                                             *)

Hung(h) ==
  {BlockNodeArray[j].block : j \in {i \in Linked : PrevHash[BlockNodeArray[i].block] = h}}

Listed == \A h \in Hashes : ListedUnder(h) = Hung(h)

\* The lists of a hash name together the blocks that are linked under it.
LEMMA ListsNameLinked == IInv /\ Serial => Listed
<1> SUFFICES ASSUME IInv, Serial, NEW h \in Hashes PROVE ListedUnder(h) = Hung(h)
  BY DEF Listed
<1> DEFINE Under == {j \in Linked : PrevHash[BlockNodeArray[j].block] = h}
<1>1. ASSUME NEW s \in ChildLists(h)
      PROVE  Cells(indexArrays, s) \subseteq Under
  <2>1. s \in SlicesOf(indexArrays) /\ GoodList(s, h) /\ InLinked(s)
    BY <1>1, TypeFacts DEF ChildLists, IInv, Lists, Serial, OnlyLinked
  <2>2. \A k \in 1..s.len : k \in 1..Cap(indexArrays, s) /\ ~(k > s.len)
    BY <2>1, SliceFacts DEF IInv, TypeOK
  <2> QED
    BY <2>1, <2>2 DEF GoodList, Cells, InLinked, IsChild
<1>2. PICK s \in ChildLists(h) : Cells(indexArrays, s) = Under
  <2>1. CASE HasEntry(h)
    <3>1. PICK i \in 1..Len(BlockNodeArray) : EntryHash(i) = h
      BY <2>1 DEF HasEntry
    <3>2. PICK s : s = BlockNodeArray[i].children
      OBVIOUS
    <3>3. s \in SlicesOf(indexArrays) /\ GoodList(s, h) /\ InLinked(s) /\ HasAll(s, h)
      BY <3>1, <3>2, TypeFacts DEF IInv, Lists, Serial, OnlyLinked, Complete
    <3>4. s \in ChildLists(h)
      BY <3>1, <3>2 DEF ChildLists
    <3> QED
      BY <3>3, <3>4, CellsAre
  <2>2. CASE ~HasEntry(h)
    <3>1. PICK s : s = ParentHashMap[h]
      OBVIOUS
    <3>2. s \in SlicesOf(indexArrays) /\ GoodList(s, h) /\ InLinked(s) /\ HasAll(s, h)
      BY <2>2, <3>1, TypeFacts DEF IInv, Lists, Serial, OnlyLinked, Complete
    <3>3. s \in ChildLists(h)
      BY <3>1 DEF ChildLists
    <3> QED
      BY <3>2, <3>3, CellsAre
  <2> QED
    BY <2>1, <2>2
<1>3. Hung(h) = {BlockNodeArray[j].block : j \in Under}
  BY DEF Hung
<1> HIDE DEF Under
<1> QED
  BY <1>1, <1>2, <1>3 DEF ListedUnder

\* Only the last step of a call links its block.
LEMMA LinkedKept ==
  ASSUME OneThread, IInv, Serial, NEW t \in Threads,
         \/ \E b \in Blocks : Call(t, b)
         \/ ReadOrphans(t) \/ WriteBlockNodeArray(t) \/ WriteBlockChainMap(t) \/ WritePath(t)
         \/ ReadKids(t) \/ RerootChild(t) \/ FindParent(t)
  PROVE  Linked' = Linked /\ \A j \in Linked : BlockNodeArray'[j].block = BlockNodeArray[j].block
<1>1. CASE WriteBlockNodeArray(t)
  <2>1. Linked' = Linked
    BY <1>1, WriteBlockNodeArraySerial
  <2>2. \/ UNCHANGED BlockNodeArray
        \/ \E node \in [block : Blocks \cup {Empty}, children : SlicesOf(indexArrays)] :
             BlockNodeArray' = Append(BlockNodeArray, node)
    BY <1>1, TypeFacts DEF WriteBlockNodeArray, IInv
  <2>3. \A j \in 1..Len(BlockNodeArray) : BlockNodeArray'[j] = BlockNodeArray[j]
    <3>1. PICK Node : Node = [block : Blocks \cup {Empty}, children : SlicesOf(indexArrays)]
      OBVIOUS
    <3>2. BlockNodeArray \in Seq(Node)
      BY <3>1 DEF IInv, TypeOK
    <3>3. UNCHANGED BlockNodeArray \/ \E node \in Node : BlockNodeArray' = Append(BlockNodeArray, node)
      BY <2>2, <3>1
    <3> QED
      BY ONLY <3>2, <3>3, AppendProperties
  <2>4. \A j \in Linked : j \in 1..Len(BlockNodeArray)
    BY TypeFacts DEF Linked, IInv
  <2> QED
    BY <2>1, <2>3, <2>4
<1>2. CASE ~WriteBlockNodeArray(t)
  <2>1. /\ UNCHANGED <<BlockNodeArray, newBlockIndex>>
        /\ (pc[t] \in Late) <=> (pc'[t] \in Late)
    BY <1>2 DEF Call, ReadOrphans, WriteBlockChainMap, WritePath, ReadKids, RerootChild,
                FindParent, store, locals, IInv, TypeOK, Late
  <2> QED
    BY <2>1, LinkedIs
<1> QED
  BY <1>1, <1>2

LEMMA LinkHangs ==
  ASSUME OneThread, IInv, Serial, NEW t \in Threads, LinkParent(t) \/ LinkOrphan(t)
  PROVE  /\ newBlock[t] \in Blocks /\ newBlock[t] \in Valid
         /\ newBlock[t] \notin Hung(PrevHash[newBlock[t]])
         /\ \A h : Hung(h)' = IF h = PrevHash[newBlock[t]] THEN Hung(h) \cup {newBlock[t]} ELSE Hung(h)
<1>1. PICK b, c, n : b = newBlock[t] /\ c = newBlockIndex[t] /\ n = Len(BlockNodeArray)
  OBVIOUS
<1>2. /\ pc[t] = "link" /\ Return(t) /\ UNCHANGED BlockHashMap
      /\ \/ UNCHANGED BlockNodeArray
         \/ \E s : BlockNodeArray' = [BlockNodeArray EXCEPT ![parentIndex[t]].children = s]
  BY DEF LinkParent, LinkOrphan
<1>3. /\ Len(BlockNodeArray') = n /\ n \in Nat
      /\ \A j \in 1..n : BlockNodeArray'[j].block = BlockNodeArray[j].block
  <2>1. CASE UNCHANGED BlockNodeArray
    BY <1>1, <2>1, TypeFacts DEF IInv
  <2>2. CASE ~UNCHANGED BlockNodeArray
    <3>1. PICK s : BlockNodeArray' = [BlockNodeArray EXCEPT ![parentIndex[t]].children = s]
      BY <1>2, <2>2
    <3> QED
      BY <1>1, <3>1, TypeFacts DEF IInv, TypeOK
  <2> QED
    BY <2>1, <2>2
<1>4. /\ b \in Valid /\ BlockNodeArray[c].block = b
      /\ c \notin Linked /\ Linked' = Linked \cup {c}
      /\ c \in 2..n /\ PrevHash[b] \in Hashes
  BY <1>1, <1>2, <1>3, LinkFacts DEF IsChild
<1>5. \A j \in Linked \cup {c} : j \in 2..n /\ j \in 1..n
  BY <1>1, <1>3, <1>4 DEF Linked
<1>6. b \notin Hung(PrevHash[b])
  <2> SUFFICES ASSUME NEW j \in Linked, BlockNodeArray[j].block = b PROVE FALSE
    BY DEF Hung
  <2>1. j # 1 /\ c # 1
    BY <1>3, <1>4, <1>5
  <2>2. EntryHash(j) = EntryHash(c)
    BY <1>4, <2>1 DEF EntryHash
  <2> QED
    BY <1>1, <1>4, <1>5, <2>2 DEF Serial, Unique
<1>7. ASSUME NEW h
      PROVE  Hung(h)' = IF h = PrevHash[b] THEN Hung(h) \cup {b} ELSE Hung(h)
  <2>1. Hung(h)' = {BlockNodeArray[j].block :
                      j \in {i \in Linked \cup {c} : PrevHash[BlockNodeArray[i].block] = h}}
    BY <1>3, <1>4, <1>5 DEF Hung
  <2> QED
    BY <1>4, <2>1 DEF Hung
<1> QED
  BY <1>1, <1>4, <1>6, <1>7, BlocksAssumption

LEMMA StepHangs ==
  ASSUME OneThread, IInv, Serial, [Next]_vars, Listed, Listed'
  PROVE  [Tree!Next]_([h \in Hashes |-> ListedUnder(h)])
<1>1. ASSUME \A h \in Hashes : Hung(h)' = Hung(h)
      PROVE  UNCHANGED [h \in Hashes |-> ListedUnder(h)]
  BY <1>1 DEF Listed
<1>2. CASE UNCHANGED vars
  <2>1. \A h \in Hashes : Hung(h)' = Hung(h)
    BY <1>2 DEF vars, Hung, Linked
  <2> QED
    BY <1>1, <2>1
<1>3. ASSUME NEW t \in Threads,
             \/ \E b \in Blocks : Call(t, b)
             \/ ReadOrphans(t) \/ WriteBlockNodeArray(t) \/ WriteBlockChainMap(t) \/ WritePath(t)
             \/ ReadKids(t) \/ RerootChild(t) \/ FindParent(t)
      PROVE  UNCHANGED [h \in Hashes |-> ListedUnder(h)]
  <2>1. Linked' = Linked /\ \A j \in Linked : BlockNodeArray'[j].block = BlockNodeArray[j].block
    BY <1>3, LinkedKept
  <2>2. \A h \in Hashes : Hung(h)' = Hung(h)
    BY <2>1 DEF Hung
  <2> QED
    BY <1>1, <2>2
<1>4. ASSUME NEW t \in Threads, LinkParent(t) \/ LinkOrphan(t)
      PROVE  Tree!Next
  <2>1. PICK b : b = newBlock[t]
    OBVIOUS
  <2>2. /\ b \in Blocks /\ b \in Valid /\ PrevHash[b] \in Hashes
        /\ b \notin Hung(PrevHash[b])
        /\ \A h : Hung(h)' = IF h = PrevHash[b] THEN Hung(h) \cup {b} ELSE Hung(h)
    BY <1>4, <2>1, LinkHangs, HashFacts
  <2>3. \A h \in Hashes : ListedUnder(h)' = IF h = PrevHash[b] THEN ListedUnder(h) \cup {b}
                                                               ELSE ListedUnder(h)
    BY <2>2 DEF Listed
  <2>4. b \notin [h \in Hashes |-> ListedUnder(h)][PrevHash[b]]
    BY <2>2 DEF Listed
  <2>5. [h \in Hashes |-> ListedUnder(h)]'
          = [[h \in Hashes |-> ListedUnder(h)] EXCEPT ![PrevHash[b]] = @ \cup {b}]
    BY <2>2, <2>3
  <2>6. Tree!Attach(b)
    BY <2>2, <2>4, <2>5 DEF Tree!Attach
  <2> QED
    BY <2>2, <2>6 DEF Tree!Next
<1>5. ASSUME NEW t \in Threads, NEW b \in Blocks, Reject(t, b)
      PROVE  UNCHANGED vars
  BY <1>5 DEF Reject
<1> QED
  BY <1>2, <1>3, <1>4, <1>5 DEF Next, Step

LEMMA InitHangs == Init => Tree!Init
<1> SUFFICES ASSUME Init PROVE \A h \in Hashes : ListedUnder(h) = {}
  BY DEF Tree!Init
<1>1. Listed
  BY InitIInv, InitSerial, ListsNameLinked
<1>2. Len(BlockNodeArray) = 1
  BY DEF Init
<1>3. Linked = {}
  BY <1>2 DEF Linked
<1> QED
  BY <1>1, <1>3 DEF Listed, Hung

\* Every step of a call hangs its block under the hash it names, once, or
\* changes nothing that the lists of children say: a block once hung there is
\* never lost (ink-miner.go:582-592).
THEOREM StoreIsTree == ASSUME OneThread PROVE Spec => TreeSpec
<1> DEFINE K == [h \in Hashes |-> ListedUnder(h)]
<1>1. Init => Tree!Init
  BY InitHangs
<1>2. IInv /\ Serial /\ Listed /\ Listed' /\ [Next]_vars => [Tree!Next]_K
  BY StepHangs
<1>3. TreeSpec <=> Tree!Init /\ [][Tree!Next]_K
  BY DEF TreeSpec, Tree!Spec
<1> HIDE DEF K
<1> QED
  BY <1>1, <1>2, <1>3, ListsNameLinked, SerialHolds, PTL DEF Spec

-----------------------------------------------------------------------------
(* Paths                                                                   *)

\* The path starts at the dummy block.
Rooted(h) == PathMap[h] # Nil /\ At(blockArrays, PathMap[h], 1) = Empty

\* A slice with one block of each height up to d.
Full(s, d) == s.len = d /\ \A k \in 1..s.len : Depth[At(blockArrays, s, k)] = k

RootedAreFull == \A h \in Hashes : Rooted(h) => Full(PathMap[h], Depth[h])

\* A block stored after a parent whose path starts at the dummy block.
Trunk ==
  \A b \in Blocks :
    /\ PathMap[b] # Nil
    /\ BlockHashMap[PrevHash[b]] \in 1..(BlockHashMap[b] - 1)
    /\ Rooted(PrevHash[b])
    => Rooted(b)

\* PathMap has the blocks that BlockHashMap has, but for one under way.
Walked ==
  /\ \A h \in Hashes : PathMap[h] # Nil => Stored(h)
  /\ \A h \in Hashes :
       Stored(h) /\ (\A t \in Threads : pc[t] = "writePath" => newBlock[t] # h) => PathMap[h] # Nil
  /\ \A t \in Threads : pc[t] \in {"writeMap", "writePath"} => PathMap[newBlock[t]] = Nil

\* The path of an orphan is no longer than the one it gets from its parent.
Waiting(h) ==
  PathMap[h] = Nil \/ \E t \in Threads : newBlock[t] = h /\ pc[t] \in {"readKids", "reroot"}

OrphansShort == \A b \in Blocks : Waiting(PrevHash[b]) => PathMap[b].len <= 2

Known == {h \in Hashes : PathMap[h] # Nil}

Paths ==
  /\ RootedAreFull /\ Rooted(Genesis) /\ Trunk /\ Walked /\ OrphansShort
  /\ IsFiniteSet(Known)

SInv == IInv /\ Serial /\ Heights /\ Paths

LEMMA InitPaths == Init => Paths
<1> SUFFICES ASSUME Init PROVE Paths
  OBVIOUS
<1>1. /\ Genesis \in Hashes
      /\ PathMap[Genesis] = [arr |-> 1, len |-> 1]
      /\ \A h \in Hashes : h # Genesis => PathMap[h] = Nil
      /\ \A b \in Blocks : b \in Hashes /\ b # Genesis
      /\ At(blockArrays, PathMap[Genesis], 1) = Empty
      /\ PathMap[Genesis] # Nil
  BY HashFacts DEF Init, At, Nil
<1>2. Rooted(Genesis)
  BY <1>1 DEF Rooted
<1>3. RootedAreFull
  <2>1. Full(PathMap[Genesis], Depth[Genesis])
    <3>1. Depth[Genesis] = 1 /\ Depth[Empty] = 1
      BY DepthAssumption
    <3> QED
      BY <1>1, <3>1 DEF Full
  <2> QED
    BY <1>1, <2>1 DEF RootedAreFull, Rooted
<1>4. Trunk /\ OrphansShort
  BY <1>1 DEF Trunk, OrphansShort, Nil
<1>5. Walked
  BY <1>1 DEF Walked, Stored, Init
<1>6. Known = {Genesis}
  BY <1>1 DEF Known
<1> QED
  BY <1>2, <1>3, <1>4, <1>5, <1>6, FS_Singleton DEF Paths

\* A step that writes neither PathMap nor BlockHashMap, nor starts to wait.
LEMMA PathsFrame ==
  ASSUME Paths, UNCHANGED <<PathMap, blockArrays, BlockHashMap>>,
         \A t \in Threads : pc'[t] = "writeMap" => PathMap[newBlock'[t]] = Nil,
         \A t \in Threads : (pc'[t] = "writePath") <=> (pc[t] = "writePath"),
         \A t \in Threads : pc[t] = "writePath" => newBlock'[t] = newBlock[t],
         \A t \in Threads : pc'[t] \in {"readKids", "reroot"}
           => pc[t] \in {"readKids", "reroot"} /\ newBlock'[t] = newBlock[t]
  PROVE  Paths'
<1>1. RootedAreFull' /\ Rooted(Genesis)' /\ Trunk' /\ IsFiniteSet(Known')
  BY DEF Paths, RootedAreFull, Rooted, Full, Trunk, Known
<1>2. Walked'
  BY DEF Paths, Walked, Stored
<1>3. OrphansShort'
  BY DEF Paths, OrphansShort, Waiting
<1> QED
  BY <1>1, <1>2, <1>3 DEF Paths

\* The new entry is the last one.
LEMMA LastEntry ==
  ASSUME IInv, Serial, NEW t \in Threads, pc[t] \in Late \ {"writeMap"}, OneThread
  PROVE  /\ BlockHashMap[newBlock[t]] = Len(BlockNodeArray)
         /\ \A h \in Hashes : ~(BlockHashMap[newBlock[t]] < BlockHashMap[h])
<1>1. /\ newBlockIndex[t] \in 2..Len(BlockNodeArray)
      /\ newBlockIndex[t] = Len(BlockNodeArray)
      /\ BlockNodeArray[newBlockIndex[t]].block = newBlock[t]
      /\ Len(BlockNodeArray) \in Nat
      /\ \A u \in Threads : u = t
  BY TypeFacts DEF IInv, Indices, Serial, Current, Late, OneThread
<1>2. EntryHash(newBlockIndex[t]) = newBlock[t]
  BY <1>1 DEF EntryHash
<1>3. BlockHashMap[newBlock[t]] = newBlockIndex[t]
  BY <1>1, <1>2 DEF Serial, Mapped
<1>4. \A h \in Hashes : BlockHashMap[h] \in 0..Len(BlockNodeArray)
  BY TypeFacts DEF IInv
<1> QED
  BY <1>1, <1>3, <1>4

\* A block's new path: rooted or not, it leaves those of the others as they are.
LEMMA PathsAfterWrite ==
  ASSUME OneThread, SInv, NEW t \in Threads, NEW h \in Blocks, NEW r,
         PathMap' = [PathMap EXCEPT ![h] = r], r # Nil,
         UNCHANGED <<BlockHashMap, newBlock>>,
         \A g \in Hashes \ {h} : /\ Rooted(g)' <=> Rooted(g)
                                 /\ Rooted(g) => Full(PathMap[g], Depth[g])',
         Rooted(h)' => Full(r, Depth[h])'
  PROVE  /\ RootedAreFull' /\ Rooted(Genesis)' /\ IsFiniteSet(Known')
         /\ PathMap'[h] = r
         /\ \A g \in Hashes : g # h => PathMap'[g] = PathMap[g]
<1>1. /\ h \in Hashes /\ h # Genesis /\ Genesis \in Hashes
      /\ PathMap \in [Hashes -> SlicesOf(blockArrays)]
  BY HashFacts DEF SInv, IInv, TypeOK
<1>2. /\ PathMap'[h] = r
      /\ \A g \in Hashes : g # h => PathMap'[g] = PathMap[g]
  BY <1>1
<1>3. Known' = Known \cup {h}
  BY <1>1, <1>2 DEF Known
<1>4. IsFiniteSet(Known')
  BY <1>3, FS_AddElement DEF SInv, Paths
<1>5. RootedAreFull'
  BY <1>2 DEF RootedAreFull
<1>6. Rooted(Genesis)'
  BY <1>1 DEF SInv, Paths
<1> QED
  BY <1>2, <1>4, <1>5, <1>6

\* A heap whose rooted slices keep their cells, or get a block of that height.
LEMMA RootedKept ==
  ASSUME NEW q \in SlicesOf(blockArrays), blockArrays \in Seq(Seq(Blocks \cup {Empty})), q # Nil,
         NEW d,
         At(blockArrays', q, 1) = At(blockArrays, q, 1),
         \A k \in 1..q.len :
           \/ At(blockArrays', q, k) = At(blockArrays, q, k)
           \/ At(blockArrays, q, 1) = Empty => Depth[At(blockArrays', q, k)] = k
  PROVE  /\ At(blockArrays', q, 1) = Empty <=> At(blockArrays, q, 1) = Empty
         /\ At(blockArrays, q, 1) = Empty /\ Full(q, d) => Full(q, d)'
BY DEF Full

\* A slice that is not nil has a first cell, and its cells are in its array.
LEMMA SliceRange ==
  ASSUME NEW S, NEW heap \in Seq(Seq(S)), NEW q \in SlicesOf(heap), q # Nil
  PROVE  /\ q.len \in Nat /\ q.len >= 1
         /\ \A k \in 1..q.len : k \in 1..Cap(heap, q)
<1>1. q.len \in Nat /\ Cap(heap, q) \in Nat /\ q.len <= Cap(heap, q)
  BY SliceFacts
<1>2. q.len >= 1
  BY DEF SlicesOf
<1> QED
  BY <1>1, <1>2

\* A new array leaves the paths of the other blocks as they are.
LEMMA FreshKeeps ==
  ASSUME SInv, NEW a \in Seq(Blocks \cup {Empty}), blockArrays' = Append(blockArrays, a),
         NEW g \in Hashes, PathMap'[g] = PathMap[g]
  PROVE  /\ Rooted(g)' <=> Rooted(g)
         /\ Rooted(g) => Full(PathMap[g], Depth[g])'
<1>1. PICK q, d, S : q = PathMap[g] /\ d = Depth[g] /\ S = Blocks \cup {Empty}
  OBVIOUS
<1>2. q \in SlicesOf(blockArrays) /\ blockArrays \in Seq(Seq(S)) /\ a \in Seq(S)
  BY <1>1 DEF SInv, IInv, TypeOK
<1>3. CASE q = Nil
  BY <1>1, <1>3 DEF Rooted
<1>4. CASE q # Nil
  <2>1. q.len >= 1 /\ q.len \in Nat /\ \A k \in 1..q.len : k \in 1..Cap(blockArrays, q)
    BY <1>2, <1>4, SliceRange
  <2>2. ASSUME NEW k \in 1..Cap(blockArrays, q)
        PROVE  At(blockArrays', q, k) = At(blockArrays, q, k)
    BY <1>2, <2>2, NewSliceKeepsCells
  <2>3. 1 \in 1..q.len
    BY <2>1
  <2>4. Rooted(g) => Full(q, d)
    BY <1>1 DEF SInv, Paths, RootedAreFull
  <2> QED
    BY <1>1, <2>1, <2>2, <2>3, <2>4 DEF Rooted, Full
<1> QED
  BY <1>3, <1>4

\* The new path is rooted as its parent's is, and as long as it is high.
LEMMA WritePathRooted ==
  ASSUME OneThread, SInv, NEW t \in Threads, WritePath(t),
         NEW b, b = newBlock[t]
  PROVE  /\ RootedAreFull' /\ Rooted(Genesis)' /\ IsFiniteSet(Known')
         /\ \A g \in Hashes : g # b => PathMap'[g] = PathMap[g]
         /\ \A g \in Hashes : g # b => (Rooted(g)' <=> Rooted(g))
         /\ Rooted(PrevHash[b]) => Rooted(b)'
         /\ PathMap'[b] # Nil
         /\ PathMap[PrevHash[b]] = Nil => PathMap'[b].len <= 2
<1>1. PICK h, s, S : h = PrevHash[b] /\ s = PathMap[h] /\ S = Blocks \cup {Empty}
  OBVIOUS
<1>2. /\ b \in Blocks /\ b \in S /\ Empty \in S /\ h \in Hashes /\ b # Empty
      /\ s \in SlicesOf(blockArrays) /\ blockArrays \in Seq(Seq(S))
      /\ UNCHANGED <<BlockHashMap, newBlock>>
      /\ \A g \in Hashes : PathMap[g] \in SlicesOf(blockArrays)
      /\ PathMap[Empty] = Nil
  BY <1>1, HashFacts, TypeFacts DEF SInv, IInv, Busy, WritePath, TypeOK, locals, Heights
<1>3. CASE s # Nil
  <2>1. PICK r : r = Appended(blockArrays, s)
    OBVIOUS
  <2>2. /\ blockArrays' = HeapAfterAppend(blockArrays, s, b, Empty)
        /\ PathMap' = [PathMap EXCEPT ![b] = r]
    BY <1>1, <1>3, <2>1 DEF WritePath
  <2>3. /\ s.len \in Nat /\ s.len >= 1 /\ Cap(blockArrays, s) \in Nat /\ s.len <= Cap(blockArrays, s)
    BY <1>2, <1>3, SliceFacts DEF Nil, SlicesOf
  <2>4. /\ r.len = s.len + 1 /\ r # Nil
        /\ At(blockArrays', r, s.len + 1) = b
        /\ \A k \in 1..s.len : At(blockArrays', r, k) = At(blockArrays, s, k)
    <3>1. r.len = s.len + 1
      BY <2>1 DEF Appended
    <3> QED
      BY <1>2, <2>1, <2>2, <2>3, <3>1, AppendedCells DEF Nil
  <2>5. Depth[b] = Depth[h] + 1 /\ Depth[h] \in Nat
    <3>1. h # Empty
      BY <1>1, <1>2, <1>3
    <3> QED
      BY <1>1, <1>2, <3>1, DepthFacts
  <2>6. At(blockArrays, s, 1) = Empty => Full(s, Depth[h])
    BY <1>1, <1>2, <1>3 DEF SInv, Paths, RootedAreFull, Rooted
  <2>7. (At(blockArrays', r, 1) = Empty) <=> (At(blockArrays, s, 1) = Empty)
    <3>1. 1 \in 1..s.len
      BY <2>3
    <3> QED
      BY <2>4, <3>1
  <2>8. At(blockArrays', r, 1) = Empty => Full(r, Depth[b])'
    <3> SUFFICES ASSUME At(blockArrays, s, 1) = Empty
                 PROVE  r.len = Depth[b] /\ \A k \in 1..r.len : Depth[At(blockArrays', r, k)] = k
      BY <2>7 DEF Full
    <3>1. s.len = Depth[h] /\ \A k \in 1..s.len : Depth[At(blockArrays, s, k)] = k
      BY <2>6 DEF Full
    <3>2. \A k \in 1..r.len : k \in 1..s.len \/ k = s.len + 1
      BY <2>3, <2>4
    <3> QED
      BY <2>3, <2>4, <2>5, <3>1, <3>2
  <2>9. ASSUME NEW g \in Hashes \ {b}
        PROVE  /\ Rooted(g)' <=> Rooted(g)
               /\ Rooted(g) => Full(PathMap[g], Depth[g])'
    <3>1. PICK q, d : q = PathMap[g] /\ d = Depth[g]
      OBVIOUS
    <3>2. PathMap'[g] = q /\ q \in SlicesOf(blockArrays)
      BY <1>2, <2>2, <3>1 DEF SInv, IInv, TypeOK
    <3>3. CASE q = Nil
      BY <3>1, <3>2, <3>3 DEF Rooted
    <3>4. CASE q # Nil
      <4>1. /\ q.len \in Nat /\ q.len >= 1
            /\ \A k \in 1..q.len : k \in 1..Cap(blockArrays, q)
        BY <1>2, <3>2, <3>4, SliceRange
      <4>2. ASSUME NEW k \in 1..q.len
            PROVE  \/ At(blockArrays', q, k) = At(blockArrays, q, k)
                   \/ At(blockArrays', q, k) = b /\ q.arr = s.arr /\ k = s.len + 1
        BY <1>2, <2>2, <3>2, <4>1, AppendKeepsCells
      <4>3. At(blockArrays', q, 1) = At(blockArrays, q, 1)
        <5>1. 1 \in 1..q.len /\ s.len + 1 # 1
          BY <2>3, <4>1
        <5> QED
          BY <4>2, <5>1
      <4>4. ASSUME NEW k \in 1..q.len
            PROVE  \/ At(blockArrays', q, k) = At(blockArrays, q, k)
                   \/ At(blockArrays, q, 1) = Empty => Depth[At(blockArrays', q, k)] = k
        <5>1. SUFFICES ASSUME At(blockArrays', q, k) = b, q.arr = s.arr, k = s.len + 1,
                              At(blockArrays, q, 1) = Empty
                       PROVE  Depth[b] = k
          BY <4>2
        <5>2. Full(s, Depth[h])
          BY <2>6, <5>1 DEF At
        <5> QED
          BY <2>3, <2>5, <5>1, <5>2 DEF Full
      <4>5. /\ At(blockArrays', q, 1) = Empty <=> At(blockArrays, q, 1) = Empty
            /\ At(blockArrays, q, 1) = Empty /\ Full(q, d) => Full(q, d)'
        BY <1>1, <1>2, <3>2, <3>4, <4>3, <4>4, RootedKept
      <4>6. Rooted(g) => Full(q, d)
        BY <3>1 DEF SInv, Paths, RootedAreFull
      <4> QED
        BY <3>1, <3>2, <4>5, <4>6 DEF Rooted
    <3> QED
      BY <3>3, <3>4
  <2>10. /\ RootedAreFull' /\ Rooted(Genesis)' /\ IsFiniteSet(Known')
         /\ PathMap'[b] = r
         /\ \A g \in Hashes : g # b => PathMap'[g] = PathMap[g]
    <3>1. PathMap'[b] = r
      BY <1>2, <2>2, HashFacts DEF SInv, IInv, TypeOK
    <3>2. Rooted(b)' => Full(r, Depth[b])'
      BY <2>8, <3>1 DEF Rooted
    <3> QED
      BY <1>2, <2>2, <2>4, <2>9, <3>2, PathsAfterWrite
  <2>11. Rooted(h) => Rooted(b)'
    BY <1>1, <2>4, <2>7, <2>10 DEF Rooted
  <2> QED
    BY <1>1, <1>3, <2>4, <2>9, <2>10, <2>11
<1>4. CASE s = Nil
  <2>1. PICK r, a : r = Fresh(blockArrays, 1) /\ a = <<b>>
    OBVIOUS
  <2>2. blockArrays' = Append(blockArrays, a) /\ PathMap' = [PathMap EXCEPT ![b] = r]
    BY <1>1, <1>4, <2>1 DEF WritePath
  <2>3. a \in Seq(S) /\ a[1] = b
    BY <1>2, <2>1
  <2>4. At(blockArrays', r, 1) = b /\ r # Nil /\ r.len = 1
    <3>1. blockArrays'[Len(blockArrays) + 1] = a
      BY <1>2, <2>2, <2>3, NewArrayFacts
    <3> QED
      BY <2>1, <2>3, <3>1 DEF At, Fresh, Nil
  <2>5. ASSUME NEW g \in Hashes \ {b}
        PROVE  /\ Rooted(g)' <=> Rooted(g)
               /\ Rooted(g) => Full(PathMap[g], Depth[g])'
    <3>1. PathMap'[g] = PathMap[g]
      BY <2>2
    <3> QED
      BY <1>1, <2>2, <2>3, <3>1, FreshKeeps
  <2>6. PathMap'[b] = r
    BY <1>2, <2>2, HashFacts DEF SInv, IInv, TypeOK
  <2>7. ~Rooted(b)'
    BY <1>2, <2>4, <2>6 DEF Rooted
  <2>8. /\ RootedAreFull' /\ Rooted(Genesis)' /\ IsFiniteSet(Known')
        /\ \A g \in Hashes : g # b => PathMap'[g] = PathMap[g]
    BY <1>2, <2>2, <2>4, <2>5, <2>7, PathsAfterWrite
  <2>9. ~Rooted(h)
    BY <1>1, <1>4 DEF Rooted
  <2> QED
    BY <1>1, <2>4, <2>5, <2>6, <2>8, <2>9
<1> QED
  BY <1>3, <1>4

LEMMA WritePathPaths ==
  ASSUME OneThread, SInv, NEW t \in Threads, WritePath(t)
  PROVE  Paths' /\ \A h \in Hashes : PathMap[h].len <= PathMap'[h].len
<1>1. PICK b, h : b = newBlock[t] /\ h = PrevHash[b]
  OBVIOUS
<1>2. /\ RootedAreFull' /\ Rooted(Genesis)' /\ IsFiniteSet(Known')
      /\ \A g \in Hashes : g # b => PathMap'[g] = PathMap[g]
      /\ \A g \in Hashes : g # b => (Rooted(g)' <=> Rooted(g))
      /\ Rooted(h) => Rooted(b)'
      /\ PathMap'[b] # Nil
      /\ PathMap[h] = Nil => PathMap'[b].len <= 2
  BY <1>1, WritePathRooted
<1>3. /\ pc[t] = "writePath" /\ pc'[t] = "readKids"
      /\ UNCHANGED <<BlockHashMap, newBlock>>
      /\ \A u \in Threads : u = t
      /\ b \in Blocks /\ b \in Hashes /\ h \in Hashes
      /\ PathMap[b] = Nil
      /\ \A c \in Blocks : c \in Hashes /\ PrevHash[c] \in Hashes
      /\ \A g \in Hashes : /\ PathMap[g] \in SlicesOf(blockArrays)
                           /\ BlockHashMap[g] \in 0..Len(BlockNodeArray)
      /\ Len(BlockNodeArray) \in Nat
  BY <1>1, HashFacts, TypeFacts
     DEF SInv, IInv, TypeOK, Busy, WritePath, locals, OneThread, Paths, Walked
<1>4. /\ BlockHashMap[b] = Len(BlockNodeArray)
      /\ \A g \in Hashes : ~(BlockHashMap[b] < BlockHashMap[g])
      /\ Len(BlockNodeArray) >= 1
  BY <1>1, <1>3, LastEntry DEF SInv, Late, IInv, Entries
<1>5. h # b
  <2>1. SUFFICES ASSUME h = b PROVE FALSE
    OBVIOUS
  <2>2. Depth[b] = Depth[b] + 1 /\ Depth[b] \in Nat
    BY <1>1, <1>3, <2>1, DepthFacts, HashFacts
  <2> QED
    BY <2>2
<1>6. Trunk'
  <2> SUFFICES ASSUME NEW c \in Blocks, PathMap'[c] # Nil,
                      BlockHashMap[PrevHash[c]] \in 1..(BlockHashMap[c] - 1),
                      Rooted(PrevHash[c])'
               PROVE  Rooted(c)'
    BY <1>3 DEF Trunk
  <2>1. CASE c = b
    BY <1>1, <1>2, <1>3, <1>5, <2>1
  <2>2. CASE c # b /\ PrevHash[c] = b
    BY <1>3, <1>4, <2>2
  <2>3. CASE c # b /\ PrevHash[c] # b
    BY <1>2, <1>3, <2>3 DEF SInv, Paths, Trunk
  <2> QED
    BY <2>1, <2>2, <2>3
<1>7. Walked'
  <2>1. Stored(b)
    BY <1>4 DEF Stored
  <2> QED
    BY <1>2, <1>3, <2>1 DEF SInv, Paths, Walked, Stored
<1>8. OrphansShort'
  <2> SUFFICES ASSUME NEW c \in Blocks, Waiting(PrevHash[c])' PROVE PathMap'[c].len <= 2
    BY DEF OrphansShort
  <2>1. PathMap'[PrevHash[c]] = Nil \/ PrevHash[c] = b
    BY <1>1, <1>3 DEF Waiting
  <2>2. CASE c = b
    BY <1>1, <1>2, <1>3, <1>5, <2>1, <2>2
  <2>3. CASE c # b
    <3>1. PathMap[PrevHash[c]] = Nil
      BY <1>2, <1>3, <2>1
    <3>2. PathMap[c].len <= 2
      BY <3>1 DEF SInv, Paths, OrphansShort, Waiting
    <3> QED
      BY <1>2, <1>3, <2>3, <3>2
  <2> QED
    BY <2>2, <2>3
<1>9. ASSUME NEW g \in Hashes PROVE PathMap[g].len <= PathMap'[g].len
  <2>1. \A x \in Hashes : PathMap[x].len \in Nat
    BY <1>3, SliceFacts DEF SInv, IInv, TypeOK
  <2>2. CASE g = b
    <3>1. PathMap'[b] \in SlicesOf(blockArrays')
      <4>1. IInv'
        BY WritePathStep DEF SInv
      <4> QED
        BY <1>3, <4>1 DEF IInv, TypeOK
    <3>2. PathMap'[b].len \in Nat
      BY <1>2, <3>1 DEF SlicesOf, Nil
    <3> QED
      BY <1>3, <2>2, <3>2 DEF Nil
  <2>3. CASE g # b
    BY <1>2, <2>1, <2>3
  <2> QED
    BY <2>2, <2>3
<1> QED
  BY <1>2, <1>6, <1>7, <1>8, <1>9 DEF Paths

\* A new parent's orphans get paths of two blocks, which the parent starts.
LEMMA RerootChildPaths ==
  ASSUME OneThread, SInv, NEW t \in Threads, RerootChild(t)
  PROVE  Paths' /\ \A h \in Hashes : PathMap[h].len <= PathMap'[h].len
<1>1. PICK b, i, child :
        /\ b = newBlock[t]
        /\ i = At(indexArrays, existingChildren[t], nextChild[t])
        /\ child = BlockNodeArray[i].block
  OBVIOUS
<1>2. /\ b \in Blocks /\ child \in Blocks /\ PrevHash[child] = b
      /\ i \in 2..Len(BlockNodeArray)
  BY <1>1, OrphanFacts DEF SInv, RerootChild, IsChild
<1>3. PICK r, a : r = Fresh(blockArrays, 2) /\ a = <<b, child>>
  OBVIOUS
<1>4. /\ blockArrays' = Append(blockArrays, a) /\ PathMap' = [PathMap EXCEPT ![child] = r]
      /\ UNCHANGED <<BlockHashMap, newBlock, pc>> /\ pc[t] = "reroot"
      /\ \A u \in Threads : u = t
      /\ b \in Hashes /\ child \in Hashes /\ b # Empty
      /\ \A c \in Blocks : c \in Hashes /\ PrevHash[c] \in Hashes
      /\ \A g \in Hashes : /\ PathMap[g] \in SlicesOf(blockArrays)
                           /\ BlockHashMap[g] \in 0..Len(BlockNodeArray)
      /\ Len(BlockNodeArray) \in Nat
      /\ blockArrays \in Seq(Seq(Blocks \cup {Empty}))
      /\ a \in Seq(Blocks \cup {Empty}) /\ a[1] = b
  <2>1. /\ blockArrays' = Append(blockArrays, a) /\ PathMap' = [PathMap EXCEPT ![child] = r]
        /\ UNCHANGED <<BlockHashMap, newBlock, pc>> /\ pc[t] = "reroot"
    BY <1>1, <1>3 DEF RerootChild
  <2>2. a \in Seq(Blocks \cup {Empty}) /\ a[1] = b
    BY <1>2, <1>3
  <2>3. /\ \A g \in Hashes : /\ PathMap[g] \in SlicesOf(blockArrays)
                             /\ BlockHashMap[g] \in 0..Len(BlockNodeArray)
        /\ Len(BlockNodeArray) \in Nat
        /\ blockArrays \in Seq(Seq(Blocks \cup {Empty}))
    BY TypeFacts DEF SInv, IInv, TypeOK
  <2>4. /\ b \in Hashes /\ child \in Hashes /\ b # Empty
        /\ \A c \in Blocks : c \in Hashes /\ PrevHash[c] \in Hashes
    BY <1>2, HashFacts
  <2> QED
    BY <2>1, <2>2, <2>3, <2>4 DEF OneThread
<1>5. r.len = 2 /\ r # Nil /\ At(blockArrays', r, 1) = b
  <2>1. blockArrays'[Len(blockArrays) + 1] = a
    BY <1>4, NewArrayFacts
  <2> QED
    BY <1>3, <1>4, <2>1 DEF At, Fresh, Nil
<1>6. /\ PathMap'[child] = r /\ \A g \in Hashes : g # child => PathMap'[g] = PathMap[g]
      /\ ~Rooted(child)'
  <2>1. PathMap'[child] = r /\ \A g \in Hashes : g # child => PathMap'[g] = PathMap[g]
    BY <1>4 DEF SInv, IInv, TypeOK
  <2> QED
    BY <1>4, <1>5, <2>1 DEF Rooted
<1>7. ASSUME NEW g \in Hashes \ {child}
      PROVE  /\ Rooted(g)' <=> Rooted(g)
             /\ Rooted(g) => Full(PathMap[g], Depth[g])'
  BY <1>4, <1>6, FreshKeeps
<1>8. RootedAreFull' /\ Rooted(Genesis)' /\ IsFiniteSet(Known')
  BY <1>2, <1>4, <1>5, <1>6, <1>7, PathsAfterWrite
<1>9. BlockHashMap[child] = i /\ \A g \in Hashes : ~(BlockHashMap[b] < BlockHashMap[g])
  <2>1. EntryHash(i) = child /\ i \in 1..Len(BlockNodeArray)
    BY <1>1, <1>2, <1>4 DEF EntryHash
  <2>2. BlockHashMap[child] = i
    BY <1>4, <2>1 DEF SInv, Serial, Mapped
  <2> QED
    BY <1>1, <1>4, <2>2, LastEntry DEF SInv, Late
<1>10. Trunk'
  <2> SUFFICES ASSUME NEW c \in Blocks, PathMap'[c] # Nil,
                      BlockHashMap[PrevHash[c]] \in 1..(BlockHashMap[c] - 1),
                      Rooted(PrevHash[c])'
               PROVE  Rooted(c)'
    BY <1>4 DEF Trunk
  <2>1. c # child
    BY <1>2, <1>4, <1>9
  <2>2. PrevHash[c] # child
    BY <1>6
  <2> QED
    BY <1>4, <1>6, <1>7, <2>1, <2>2 DEF SInv, Paths, Trunk
<1>11. Walked'
  <2>1. Stored(child)
    BY <1>2, <1>4, <1>9 DEF Stored
  <2> QED
    BY <1>4, <1>5, <1>6, <2>1 DEF SInv, Paths, Walked, Stored
<1>12. OrphansShort'
  <2> SUFFICES ASSUME NEW c \in Blocks, Waiting(PrevHash[c])' PROVE PathMap'[c].len <= 2
    BY DEF OrphansShort
  <2>1. Waiting(PrevHash[c])
    BY <1>4, <1>5, <1>6 DEF Waiting
  <2> QED
    BY <1>4, <1>5, <1>6, <2>1 DEF SInv, Paths, OrphansShort
<1>13. ASSUME NEW g \in Hashes PROVE PathMap[g].len <= PathMap'[g].len
  <2>1. PathMap[g].len \in Nat
    BY <1>4, SliceFacts
  <2>2. PathMap[child].len <= 2
    BY <1>1, <1>2, <1>4 DEF SInv, Paths, OrphansShort, Waiting
  <2> QED
    BY <1>5, <1>6, <2>1, <2>2
<1> QED
  BY <1>8, <1>10, <1>11, <1>12, <1>13 DEF Paths

\* The new block has no path yet when its hash enters BlockHashMap.
LEMMA WriteBlockChainMapPaths ==
  ASSUME OneThread, SInv, NEW t \in Threads, WriteBlockChainMap(t)
  PROVE  Paths'
<1>1. PICK b : b = newBlock[t]
  OBVIOUS
<1>2. /\ UNCHANGED <<PathMap, blockArrays, newBlock>>
      /\ BlockHashMap' = [BlockHashMap EXCEPT ![b] = newBlockIndex[t]]
      /\ pc[t] = "writeMap" /\ pc'[t] = "writePath" /\ b \in Hashes
      /\ \A u \in Threads : u = t
      /\ \A c \in Blocks : PrevHash[c] \in Hashes /\ c \in Hashes
      /\ BlockHashMap \in [Hashes -> 0..Len(BlockNodeArray)]
      /\ newBlockIndex[t] # 0
  BY <1>1, HashFacts DEF SInv, IInv, TypeOK, Busy, Indices, WriteBlockChainMap, locals, OneThread
<1>3. PathMap[b] = Nil /\ \A g \in Hashes : g # b => BlockHashMap'[g] = BlockHashMap[g]
  BY <1>1, <1>2 DEF SInv, Paths, Walked
<1>4. RootedAreFull' /\ Rooted(Genesis)' /\ IsFiniteSet(Known')
  BY <1>2 DEF SInv, Paths, RootedAreFull, Rooted, Full, Known
<1>5. Trunk'
  <2> SUFFICES ASSUME NEW c \in Blocks, PathMap[c] # Nil,
                      BlockHashMap'[PrevHash[c]] \in 1..(BlockHashMap'[c] - 1),
                      Rooted(PrevHash[c])
               PROVE  Rooted(c)
    BY <1>2 DEF Trunk, Rooted
  <2>1. c # b /\ PrevHash[c] # b
    BY <1>3 DEF Rooted
  <2> QED
    BY <1>2, <1>3, <2>1 DEF SInv, Paths, Trunk
<1>6. Walked'
  BY <1>1, <1>2, <1>3 DEF SInv, Paths, Walked, Stored
<1>7. OrphansShort'
  BY <1>2 DEF SInv, Paths, OrphansShort, Waiting
<1> QED
  BY <1>4, <1>5, <1>6, <1>7 DEF Paths

\* In a step no path gets shorter.
LEMMA NextPaths ==
  ASSUME OneThread, SInv, [Next]_vars
  PROVE  Paths' /\ \A h \in Hashes : PathMap[h].len <= PathMap'[h].len
<1>1. ASSUME UNCHANGED PathMap
      PROVE  \A h \in Hashes : PathMap[h].len <= PathMap'[h].len
  <2>1. \A h \in Hashes : PathMap[h].len \in Nat
    <3>1. blockArrays \in Seq(Seq(Blocks \cup {Empty}))
      BY DEF SInv, IInv, TypeOK
    <3> QED
      BY <3>1, SliceFacts, TypeFacts DEF SInv, IInv
  <2> QED
    BY <1>1, <2>1
<1>2. CASE UNCHANGED vars
  <2>1. UNCHANGED <<PathMap, blockArrays, BlockHashMap, pc, newBlock>>
    BY <1>2 DEF vars
  <2>2. \A t \in Threads : pc[t] = "writeMap" => PathMap[newBlock[t]] = Nil
    BY DEF SInv, Paths, Walked
  <2> QED
    BY <1>1, <2>1, <2>2, PathsFrame DEF SInv
<1>3. ASSUME NEW t \in Threads, Step(t) \/ \E b \in Blocks : Call(t, b) \/ Reject(t, b)
      PROVE  Paths' /\ \A h \in Hashes : PathMap[h].len <= PathMap'[h].len
  <2>0. /\ \A u \in Threads : u = t
        /\ pc \in [Threads -> Phases] /\ newBlock \in [Threads -> Blocks \cup {Empty}]
        /\ Phases = {"idle", "readOrphans", "writeArray", "writeMap", "writePath",
                     "readKids", "reroot", "link"}
    BY DEF SInv, IInv, TypeOK, OneThread, Phases
  <2>1. ASSUME UNCHANGED <<PathMap, blockArrays, BlockHashMap>>,
               pc'[t] \notin {"writeMap", "writePath", "readKids", "reroot"},
               pc[t] # "writePath"
        PROVE  Paths'
    BY <2>0, <2>1, PathsFrame DEF SInv
  <2>2. CASE \E b \in Blocks : Call(t, b)
    BY <1>1, <2>0, <2>1, <2>2 DEF Call, store
  <2>3. CASE \E b \in Blocks : Reject(t, b)
    BY <1>2, <2>3 DEF Reject
  <2>4. CASE ReadOrphans(t)
    BY <1>1, <2>0, <2>1, <2>4 DEF ReadOrphans, store
  <2>5. CASE WriteBlockNodeArray(t)
    <3>1. /\ UNCHANGED <<PathMap, blockArrays, BlockHashMap, newBlock>>
          /\ pc[t] = "writeArray" /\ pc'[t] = "writeMap"
      BY <2>0, <2>5 DEF WriteBlockNodeArray
    <3>2. newBlock[t] \in Hashes
      BY <2>0, HashFacts
    <3>3. PathMap[newBlock[t]] = Nil
      BY <3>1, <3>2 DEF SInv, Serial, Current, Paths, Walked, Stored
    <3> QED
      BY <1>1, <2>0, <3>1, <3>3, PathsFrame DEF SInv
  <2>6. CASE WriteBlockChainMap(t)
    BY <1>1, <2>6, WriteBlockChainMapPaths DEF WriteBlockChainMap
  <2>7. CASE WritePath(t)
    BY <2>7, WritePathPaths
  <2>8. CASE ReadKids(t)
    <3>1. /\ UNCHANGED <<PathMap, blockArrays, BlockHashMap, newBlock>>
          /\ pc[t] = "readKids" /\ pc'[t] = "reroot"
      BY <2>0, <2>8 DEF ReadKids, store
    <3> QED
      BY <1>1, <2>0, <3>1, PathsFrame DEF SInv
  <2>9. CASE RerootChild(t)
    BY <2>9, RerootChildPaths
  <2>10. CASE FindParent(t)
    BY <1>1, <2>0, <2>1, <2>10 DEF FindParent, store
  <2>11. CASE LinkParent(t)
    BY <1>1, <2>0, <2>1, <2>11 DEF LinkParent, Return
  <2>12. CASE LinkOrphan(t)
    BY <1>1, <2>0, <2>1, <2>12 DEF LinkOrphan, Return
  <2> QED
    BY <1>3, <2>2, <2>3, <2>4, <2>5, <2>6, <2>7, <2>8, <2>9, <2>10, <2>11, <2>12 DEF Step
<1> QED
  BY <1>2, <1>3 DEF Next

LEMMA SerialPathsHold == ASSUME OneThread PROVE Spec => []SInv
<1>1. Init => SInv
  BY InitIInv, InitSerial, InitHeights, InitPaths DEF SInv
<1>2. SInv /\ [Next]_vars => SInv'
  BY NextIInv, NextSerial, NextHeights, NextPaths DEF SInv
<1> QED
  BY <1>1, <1>2, PTL DEF Spec

-----------------------------------------------------------------------------
(* The longest path.                                                       *)

\* A finite set has an element where f is greatest.
LEMMA FiniteMax ==
  ASSUME NEW S, IsFiniteSet(S), S # {}, NEW f, \A x \in S : f[x] \in Nat
  PROVE  \E m \in S : \A x \in S : f[x] <= f[m]
<1> DEFINE HasMax(T) == T # {} => \E m \in T : \A x \in T : f[x] <= f[m]
           P == {n \in Nat : \A T \in SUBSET S : Cardinality(T) = n => HasMax(T)}
<1>1. \A T \in SUBSET S : IsFiniteSet(T) /\ Cardinality(T) \in Nat
  BY FS_Subset, FS_CardinalityType
<1>2. 0 \in P
  BY <1>1, FS_EmptySet
<1>3. ASSUME NEW n \in Nat, n \in P PROVE n + 1 \in P
  <2> SUFFICES ASSUME NEW T \in SUBSET S, Cardinality(T) = n + 1, T # {}
               PROVE  \E m \in T : \A x \in T : f[x] <= f[m]
    OBVIOUS
  <2>1. PICK x : x \in T
    OBVIOUS
  <2>2. T \ {x} \in SUBSET S /\ Cardinality(T \ {x}) = n
    BY <1>1, <2>1, OneLess
  <2>3. HasMax(T \ {x})
    BY <1>3, <2>2
  <2>4. CASE T \ {x} = {}
    BY <2>1, <2>4
  <2>5. CASE T \ {x} # {}
    <3>1. PICK m \in T \ {x} : \A y \in T \ {x} : f[y] <= f[m]
      BY <2>3, <2>5
    <3>2. f[m] \in Nat /\ f[x] \in Nat /\ \A y \in T : f[y] \in Nat
      BY <2>1
    <3>3. CASE f[m] <= f[x]
      BY <2>1, <3>1, <3>2, <3>3
    <3>4. CASE f[x] <= f[m]
      BY <2>1, <3>1, <3>2, <3>4
    <3> QED
      BY <3>2, <3>3, <3>4
  <2> QED
    BY <2>4, <2>5
<1> HIDE DEF P
<1>4. \A n \in Nat : n \in P
  BY <1>2, <1>3, Induction
<1> QED
  BY <1>1, <1>4 DEF P

\* What GetLongestPath's loop leaves in its locals.
IsTip(h) ==
  /\ PathMap[h] # Nil
  /\ \A g \in Hashes \ {h} :
       \/ PathMap[g].len < PathMap[h].len
       \/ PathMap[g].len = PathMap[h].len /\ HashRank[g] < HashRank[h]

\* There is a longest path, and of those the one with the largest hash.
LEMMA TipIs == SInv => LongestTip \in Hashes /\ IsTip(LongestTip)
<1> SUFFICES ASSUME SInv PROVE \E h \in Hashes : IsTip(h)
  BY DEF LongestTip, IsTip
<1>1. ASSUME NEW h \in Hashes
      PROVE  PathMap[h].len \in Nat /\ (PathMap[h] # Nil => PathMap[h].len >= 1)
  <2>1. PathMap[h] \in SlicesOf(blockArrays) /\ blockArrays \in Seq(Seq(Blocks \cup {Empty}))
    BY DEF SInv, IInv, TypeOK
  <2> QED
    BY <2>1, SliceFacts, SliceRange
<1>2. IsFiniteSet(Known) /\ Known \subseteq Hashes /\ Genesis \in Known
  BY HashFacts DEF SInv, Paths, Known, Rooted
<1>3. PICK f : f = [h \in Hashes |-> PathMap[h].len]
  OBVIOUS
<1>4. PICK m \in Known : \A h \in Known : f[h] <= f[m]
  <2>1. Known # {}
    BY <1>2
  <2>2. ASSUME NEW h \in Known PROVE f[h] \in Nat
    <3>1. h \in Hashes /\ f[h] = PathMap[h].len
      BY <1>2, <1>3
    <3> QED
      BY <1>1, <3>1
  <2> QED
    BY <1>2, <2>1, <2>2, FiniteMax
<1>5. ASSUME NEW h \in Hashes
      PROVE  PathMap[h].len <= PathMap[m].len /\ PathMap[m].len \in Nat
  <2>1. m \in Hashes
    BY <1>2
  <2>2. PathMap[m].len \in Nat /\ PathMap[h].len \in Nat
    BY <1>1, <2>1
  <2>3. CASE h \in Known
    BY <1>3, <1>4, <2>1, <2>3, <2>2
  <2>4. CASE h \notin Known
    <3>1. PathMap[h].len = 0
      BY <2>4 DEF Known, Nil
    <3> QED
      BY <2>2, <3>1
  <2> QED
    BY <2>3, <2>4
<1>6. PICK L : L = {h \in Known : PathMap[h].len = PathMap[m].len}
  OBVIOUS
<1>7. IsFiniteSet(L) /\ L # {} /\ \A h \in L : HashRank[h] \in Nat
  BY <1>2, <1>6, FS_Subset, RankAssumption
<1>8. PICK k \in L : \A h \in L : HashRank[h] <= HashRank[k]
  BY <1>7, FiniteMax
<1>9. k \in Hashes /\ PathMap[k] # Nil /\ PathMap[k].len = PathMap[m].len
  BY <1>2, <1>6 DEF Known
<1>10. ASSUME NEW g \in Hashes \ {k}
       PROVE  \/ PathMap[g].len < PathMap[k].len
              \/ PathMap[g].len = PathMap[k].len /\ HashRank[g] < HashRank[k]
  <2>1. CASE PathMap[g].len = PathMap[k].len
    <3>1. PathMap[g] # Nil
      BY <1>1, <1>9, <2>1 DEF Nil
    <3>2. HashRank[g] <= HashRank[k]
      BY <1>6, <1>8, <1>9, <2>1, <3>1 DEF Known
    <3>3. HashRank[g] \in Nat /\ HashRank[k] \in Nat /\ HashRank[g] # HashRank[k]
      BY <1>9, RankAssumption
    <3> QED
      BY <2>1, <3>2, <3>3
  <2>2. CASE PathMap[g].len # PathMap[k].len
    <3>1. PathMap[g].len \in Nat /\ PathMap[k].len \in Nat
      BY <1>1, <1>9
    <3>2. PathMap[g].len <= PathMap[k].len
      BY <1>5, <1>9
    <3> QED
      BY <2>2, <3>1, <3>2
  <2> QED
    BY <2>1, <2>2
<1> QED
  BY <1>9, <1>10 DEF IsTip

\* When calls do not overlap, a step moves the tip that GetLongestPath finds
\* to a longer path, or to one as long with a larger hash: the paths rewritten
\* for orphans never shorten the chain that miners build on.
THEOREM TipNeverFallsBack == ASSUME OneThread PROVE Spec => TipOnlyImproves
<1>0. SInv' => (LongestTip \in Hashes /\ IsTip(LongestTip))'
  BY TipIs, PTL
<1>1. ASSUME SInv, SInv', [Next]_vars, LongestTip' # LongestTip
      PROVE  \/ PathMap'[LongestTip'].len > PathMap[LongestTip].len
             \/ /\ PathMap'[LongestTip'].len = PathMap[LongestTip].len
                /\ HashRank[LongestTip'] > HashRank[LongestTip]
  <2>1. PICK h, g : h = LongestTip /\ g = LongestTip'
    OBVIOUS
  <2>2. h \in Hashes /\ g \in Hashes /\ h # g
    BY <1>0, <1>1, <2>1, TipIs
  <2>3. \/ PathMap'[h].len < PathMap'[g].len
        \/ PathMap'[h].len = PathMap'[g].len /\ HashRank[h] < HashRank[g]
    <3>1. IsTip(LongestTip)'
      BY <1>0, <1>1
    <3> QED
      BY <2>1, <2>2, <3>1 DEF IsTip
  <2>4. PathMap[h].len <= PathMap'[h].len
    BY <1>1, <2>2, NextPaths
  <2>5. PathMap[h].len \in Nat /\ PathMap'[h].len \in Nat /\ PathMap'[g].len \in Nat
    <3>1. /\ PathMap \in [Hashes -> SlicesOf(blockArrays)]
          /\ PathMap' \in [Hashes -> SlicesOf(blockArrays')]
      BY <1>1 DEF SInv, IInv, TypeOK
    <3> QED
      BY <2>2, <3>1 DEF SlicesOf, Nil
  <2>6. HashRank[h] \in Nat /\ HashRank[g] \in Nat
    BY <2>2, RankAssumption
  <2> QED
    BY <2>1, <2>3, <2>4, <2>5, <2>6
<1>2. SInv /\ SInv' /\ [Next]_vars
        => [LongestTip' # LongestTip
             => \/ PathMap'[LongestTip'].len > PathMap[LongestTip].len
                \/ /\ PathMap'[LongestTip'].len = PathMap[LongestTip].len
                   /\ HashRank[LongestTip'] > HashRank[LongestTip]]_vars
  BY <1>1
<1> QED
  BY <1>2, SerialPathsHold, PTL DEF Spec, TipOnlyImproves

-----------------------------------------------------------------------------
(* Chains that came in order.                                              *)

\* The recursive definition of Ancestors has a solution: the least sets that
\* hold the parent of the block and the parents of their members.
LEMMA AncestorsAre ==
  \A b \in Blocks :
    Ancestors[b] = IF PrevHash[b] \in Blocks THEN {PrevHash[b]} \cup Ancestors[PrevHash[b]]
                   ELSE {}
<1> DEFINE Holds(C, b) == PrevHash[b] \in Blocks => PrevHash[b] \in C
           Up(C, b) == Holds(C, b) /\ \A c \in C : Holds(C, c)
           Least(b) == {a \in Blocks : \A C \in SUBSET Blocks : Up(C, b) => a \in C}
           Eq(f) == f = [b \in Blocks |-> IF PrevHash[b] \in Blocks
                                           THEN {PrevHash[b]} \cup f[PrevHash[b]] ELSE {}]
           R == [b \in Blocks |-> Least(b)]
<1>1. ASSUME NEW b \in Blocks, PrevHash[b] \notin Blocks PROVE Least(b) = {}
  <2>1. PICK C : C = {}
    OBVIOUS
  <2>2. Up(C, b) /\ C \in SUBSET Blocks
    BY <1>1, <2>1
  <2> QED
    BY <2>1, <2>2
<1>2. ASSUME NEW b \in Blocks, NEW p \in Blocks, p = PrevHash[b]
      PROVE  Least(b) = {p} \cup Least(p)
  <2>1. ASSUME NEW C \in SUBSET Blocks, Up(C, b) PROVE p \in C /\ Up(C, p)
    BY <1>2, <2>1
  <2>2. ASSUME NEW a \in Least(b), a \notin Least(p) PROVE a = p
    <3>1. PICK C \in SUBSET Blocks : Up(C, p) /\ a \notin C
      BY <2>2
    <3>2. Up(C \cup {p}, b)
      BY <1>2, <3>1
    <3>3. C \cup {p} \in SUBSET Blocks
      OBVIOUS
    <3> QED
      BY <2>2, <3>1, <3>2, <3>3
  <2>3. p \in Least(b) /\ Least(p) \subseteq Least(b)
    BY <2>1
  <2> QED
    BY <2>2, <2>3
<1> HIDE DEF Least
<1>3. Eq(R)
  BY <1>1, <1>2
<1> HIDE DEF R
<1>4. Ancestors = CHOOSE f : Eq(f)
  BY DEF Ancestors
<1> HIDE DEF Eq
<1>5. Eq(Ancestors)
  BY <1>3, <1>4
<1> QED
  BY <1>5 DEF Eq

LEMMA InOrderIsRooted ==
  ASSUME SInv, Quiet, NEW b \in Blocks, InOrder(b)
  PROVE  Rooted(b)
<1> DEFINE P == {n \in Nat : \A c \in Blocks : Depth[c] <= n /\ InOrder(c) => Rooted(c)}
<1>1. 0 \in P
  BY DepthFacts
<1>2. ASSUME NEW n \in Nat, n \in P PROVE n + 1 \in P
  <2> SUFFICES ASSUME NEW c \in Blocks, Depth[c] <= n + 1, InOrder(c) PROVE Rooted(c)
    OBVIOUS
  <2>1. Stored(c) /\ BlockHashMap[PrevHash[c]] \in 1..(BlockHashMap[c] - 1)
    BY DEF InOrder
  <2>2. PathMap[c] # Nil
    BY <2>1, DepthFacts DEF SInv, Paths, Walked, Quiet
  <2>3. Rooted(PrevHash[c])
    <3>1. CASE PrevHash[c] \in Blocks
      <4>1. PICK p \in Blocks : p = PrevHash[c]
        BY <3>1
      <4>2. Ancestors[c] = {p} \cup Ancestors[p]
        BY <4>1, AncestorsAre
      <4>3. Genesis \notin Blocks /\ Empty \notin Blocks
        BY HashFacts
      <4>4. InOrder(p)
        BY <4>1, <4>2, <4>3 DEF InOrder
      <4>5. Depth[c] = Depth[p] + 1 /\ Depth[p] \in Nat
        BY <4>1, <4>3, DepthFacts
      <4>6. Depth[p] <= n
        BY <4>5
      <4> QED
        BY <1>2, <4>1, <4>4, <4>6
    <3>2. CASE PrevHash[c] \notin Blocks
      <4>1. Ancestors[c] = {}
        BY <3>2, AncestorsAre
      <4>2. PrevHash[c] = Genesis
        BY <4>1 DEF InOrder
      <4> QED
        BY <4>2 DEF SInv, Paths
    <3> QED
      BY <3>1, <3>2
  <2> QED
    BY <2>1, <2>2, <2>3 DEF SInv, Paths, Trunk
<1> HIDE DEF P
<1>3. \A n \in Nat : n \in P
  BY <1>1, <1>2, Induction
<1>4. Depth[b] \in Nat /\ Depth[b] <= Depth[b]
  BY DepthFacts
<1> QED
  BY <1>3, <1>4 DEF P

\* When calls do not overlap, a block that arrived after all of its ancestors
\* is counted at its full height, with one block of each height in its path,
\* and GetLongestPath is at least as long, whatever forks and orphans the
\* other blocks make.
THEOREM InOrderChainsAreCounted == ASSUME OneThread PROVE Spec => []InOrderChainsCount
<1>1. ASSUME SInv, Quiet, NEW b \in Blocks, InOrder(b)
      PROVE  /\ PathMap[b].len = Depth[b]
             /\ \A k \in 1..Depth[b] : Depth[Path(b)[k]] = k
             /\ Len(GetLongestPath) >= Depth[b]
  <2>1. b \in Hashes /\ Depth[b] \in Nat
    BY DepthFacts
  <2>2. Full(PathMap[b], Depth[b])
    BY <1>1, <2>1, InOrderIsRooted DEF SInv, Paths, RootedAreFull
  <2>3. \A k \in 1..Depth[b] : Depth[Path(b)[k]] = k
    BY <2>2 DEF Full, Path
  <2>4. PathMap[LongestTip].len \in Nat /\ PathMap[LongestTip].len >= PathMap[b].len
    <3>1. LongestTip \in Hashes /\ IsTip(LongestTip)
      BY <1>1, TipIs
    <3>2. PathMap[LongestTip].len \in Nat /\ PathMap[b].len \in Nat
      BY <1>1, <2>1, <3>1 DEF SInv, IInv, TypeOK, SlicesOf, Nil
    <3> QED
      BY <2>1, <3>1, <3>2 DEF IsTip
  <2>5. Len(GetLongestPath) = PathMap[LongestTip].len
    BY <2>4 DEF GetLongestPath, Path
  <2> QED
    BY <2>2, <2>3, <2>4, <2>5 DEF Full
<1>2. SInv => InOrderChainsCount
  BY <1>1 DEF InOrderChainsCount
<1> QED
  BY <1>2, SerialPathsHold, PTL
=============================================================================
