----------------------------- MODULE MCGpuLease -----------------------------
\* Instances of GpuLease for TLC.
EXTENDS GpuLease

CONSTANTS p1, p2, big, small
=============================================================================
