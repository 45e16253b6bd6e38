----------------------------- MODULE BlockTree ------------------------------
(***************************************************************************)
(* What a block store promises: a set of valid blocks, each hung once      *)
(* under the hash it names as its parent, whether or not that parent is    *)
(* there, and never taken off again.                                       *)
(***************************************************************************)
CONSTANTS Blocks, Hashes, PrevHash, Valid

VARIABLE kids  \* hash -> the blocks hung under it

Init == kids = [h \in Hashes |-> {}]

Attach(b) ==
  /\ b \in Valid
  /\ b \notin kids[PrevHash[b]]
  /\ kids' = [kids EXCEPT ![PrevHash[b]] = @ \cup {b}]

Next == \E b \in Blocks : Attach(b)

Spec == Init /\ [][Next]_kids
=============================================================================
