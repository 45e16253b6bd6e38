------------------------------ MODULE MCGossip ------------------------------
(* parent and child are solved by m1, other by m2.                         *)
EXTENDS Gossip

CONSTANTS m1, m2, m3, parent, child, other

MCMinerOf == [b \in Blocks |-> IF b = other THEN m2 ELSE m1]
MCParent == [b \in Blocks |-> IF b = child THEN parent ELSE Genesis]

MCLinked == [m \in Miners |-> Miners \ {m}]
=============================================================================
