----------------------------- MODULE MCGraphDb -----------------------------
EXTENDS GraphDb, TLC

CONSTANTS p1, p2, index, markdown

ProcSymmetry == Permutations(Procs)
=============================================================================
