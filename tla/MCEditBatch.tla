----------------------------- MODULE MCEditBatch -----------------------------
\* Instances of EditBatch for TLC.
EXTENDS EditBatch, TLC

CONSTANTS e1, e2, a, b

FileSymmetry == Permutations(Files)
BothSymmetry == Permutations(Files) \cup Permutations(Editors)
=============================================================================
