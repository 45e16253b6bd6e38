------------------------------- MODULE Slices -------------------------------
(***************************************************************************)
(* Go slices.  The backing arrays are kept in a heap, a sequence of        *)
(* sequences; the length of heap[a] is the capacity of array a.  A slice   *)
(* is a header [arr, len] into the heap: two headers may share an array,   *)
(* and appending through one of them then writes a cell the other can see. *)
(***************************************************************************)
EXTENDS Integers, Sequences

\* The nil slice: no backing array.
Nil == [arr |-> 0, len |-> 0]

\* The headers that point into the heap: none is longer than its array.
SlicesOf(heap) ==
  {Nil} \cup {s \in [arr : 1..Len(heap), len : Nat \ {0}] : s.len <= Len(heap[s.arr])}

\* The header of a new array of n elements, put at the end of the heap.
Fresh(heap, n) == [arr |-> Len(heap) + 1, len |-> n]

Cap(heap, s) == IF s.arr = 0 THEN 0 ELSE Len(heap[s.arr])

HasRoom(heap, s) == s.len < Cap(heap, s)

At(heap, s, k) == heap[s.arr][k]

Cells(heap, s) == {At(heap, s, k) : k \in 1..s.len}

\* The array append() allocates for a full slice: twice the capacity, the
\* cells after the new element hold the zero value of the element type.
Grown(heap, s, x, zero) ==
  [k \in 1..(IF s.len = 0 THEN 1 ELSE 2 * s.len) |->
     IF k <= s.len THEN At(heap, s, k) ELSE IF k = s.len + 1 THEN x ELSE zero]

\* append(s, x): the heap after it, and the header it returns.
HeapAfterAppend(heap, s, x, zero) ==
  IF HasRoom(heap, s)
  THEN [heap EXCEPT ![s.arr] = [@ EXCEPT ![s.len + 1] = x]]
  ELSE Append(heap, Grown(heap, s, x, zero))

Appended(heap, s) ==
  [arr |-> IF HasRoom(heap, s) THEN s.arr ELSE Len(heap) + 1, len |-> s.len + 1]
=============================================================================
