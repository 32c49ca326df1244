-------------------------- MODULE MCWorktreeStore --------------------------
\* Instances of WorktreeStore for TLC.
EXTENDS WorktreeStore

CONSTANTS c1, c2, key, alpha, x, y
=============================================================================
