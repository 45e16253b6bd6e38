------------------------------ MODULE MCLedger ------------------------------
(* Two keys, two shapes that overlap, and the deletions a miner can meet.  *)
EXTENDS Ledger, TLC

CONSTANTS k1, k2, a, b, c, delA, delA2, theft, bad

\* a and b are shapes of k1, c one of k2 that overlaps a.  delA and delA2 are
\* two deletions of a by k1; theft is one by k2.
MCOps == {a, b, c, delA, delA2, theft, bad}

MCType == [op \in MCOps |-> IF op \in {delA, delA2, theft} THEN "DELETE" ELSE "ADD"]
MCKey == [op \in MCOps |-> IF op \in {c, theft} THEN k2 ELSE k1]
MCAddSig == [op \in MCOps |-> IF op \in {delA, delA2, theft} THEN a ELSE NoOp]
MCPixels == [op \in MCOps |-> IF op = b THEN {2, 3} ELSE IF op = c THEN {0, 1} ELSE {1, 2}]
MCCost == [op \in MCOps |-> IF op \in {b, c} THEN 3 ELSE 2]
MCWellFormed == MCOps \ {bad}
=============================================================================
