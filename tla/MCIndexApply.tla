---------------------------- MODULE MCIndexApply ----------------------------
\* Instances of IndexApply for TLC.
EXTENDS IndexApply, TLC

CONSTANTS w1, w2, s1, f1, f2, f3

WriterSymmetry == Permutations(Writers) \cup Permutations(Files)
=============================================================================
