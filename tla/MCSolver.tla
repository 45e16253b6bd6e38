------------------------------ MODULE MCSolver ------------------------------
EXTENDS Solver
=============================================================================
