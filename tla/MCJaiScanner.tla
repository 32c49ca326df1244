---------------------------- MODULE MCJaiScanner ----------------------------
EXTENDS JaiScanner, TLC

CONSTANTS v1, v2, short, long

\* Two long words and two short ones just fit the buffer.
WordLengths == (short :> 1) @@ (long :> 124)
=============================================================================
