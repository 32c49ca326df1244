---------------------------- MODULE OverlayQueues ----------------------------
(***************************************************************************)
(* What OverlayWriteScheduler promises its callers (worktree_federation,   *)
(* and the storage contract of the architecture document): the writes of   *)
(* an overlay are yielded in the order they were queued, one at a time,    *)
(* and an overlay never waits for another one's write to complete.         *)
(***************************************************************************)
EXTENDS Sequences

CONSTANTS Overlays, Writes

VARIABLES
    queues,         \* the queued writes of each overlay, oldest first
    active          \* the overlays with a write that has not completed

vars == <<queues, active>>

Init == queues = [o \in Overlays |-> <<>>] /\ active = {}

Enqueue(o, w) ==
    /\ queues' = [queues EXCEPT ![o] = Append(@, w)]
    /\ UNCHANGED active

\* Any overlay with work and no active write is eligible.
Yield(o) ==
    /\ o \notin active
    /\ queues[o] # <<>>
    /\ queues' = [queues EXCEPT ![o] = Tail(@)]
    /\ active' = active \cup {o}

Complete(o) ==
    /\ o \in active
    /\ active' = active \ {o}
    /\ UNCHANGED queues

Next ==
    \E o \in Overlays :
        \/ \E w \in Writes : Enqueue(o, w)
        \/ Yield(o)
        \/ Complete(o)

Spec == Init /\ [][Next]_vars
=============================================================================
