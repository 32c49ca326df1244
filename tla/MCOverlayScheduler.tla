------------------------- MODULE MCOverlayScheduler -------------------------
\* Instances of OverlayScheduler for TLC.
EXTENDS OverlayScheduler

CONSTANTS alpha, beta, gamma, w1, w2
=============================================================================
