----------------------------- MODULE MCRegistry -----------------------------
(* Two miners and two ports, which change hands when both start again.     *)
EXTENDS Registry

CONSTANTS k1, k2, a1, a2
=============================================================================
