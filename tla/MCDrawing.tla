----------------------------- MODULE MCDrawing ------------------------------
(* One shape, and a request to delete it.                                  *)
EXTENDS Drawing

CONSTANTS shape, delete

MCTarget == [r \in Deletes |-> shape]
MCValidateNum == [r \in Requests |-> IF r = shape THEN 2 ELSE 1]
=============================================================================
