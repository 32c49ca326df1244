-------------------------- MODULE OverlayScheduler --------------------------
(***************************************************************************)
(* OverlayWriteScheduler (worktree_federation.rs): the writes of each      *)
(* dirty overlay in a queue of its own, and the overlays that may be       *)
(* yielded next in a ready list. A worker takes a write, commits it or     *)
(* aborts, and completes its overlay. The workers are the callers: there   *)
(* is no worker loop in the repository.                                    *)
(*                                                                         *)
(* Every method takes &mut self, so each is one step.                      *)
(***************************************************************************)
EXTENDS Naturals, Sequences

CONSTANTS
    Overlays,       \* the checkouts
    Writes,         \* the values that are queued
    MaxQueued       \* bound: writes queued at once for an overlay

ASSUME BoundAssumption == MaxQueued \in Nat

VARIABLES
    queues,         \* self.queues; a missing key is the empty queue
    ready,          \* self.ready
    readySet,       \* self.ready_set
    active          \* self.active

vars == <<queues, ready, readySet, active>>

-----------------------------------------------------------------------------
\* The overlays in the ready list.
Listed == {ready[k] : k \in 1 .. Len(ready)}

\* The set and the list hold the same overlays, once each.
TypeOK ==
    /\ queues \in [Overlays -> Seq(Writes)]
    /\ ready \in Seq(Overlays)
    /\ readySet = Listed
    /\ \A j, k \in 1 .. Len(ready) : ready[j] = ready[k] => j = k
    /\ active \subseteq Overlays

Init ==
    /\ queues = [o \in Overlays |-> <<>>]
    /\ ready = <<>>
    /\ readySet = {}
    /\ active = {}

-----------------------------------------------------------------------------
\* Variant of MarkReady: in front of the overlays that wait.
MarkReadyFirst(o) ==
    /\ readySet' = readySet \cup {o}
    /\ ready' = IF o \in readySet THEN ready ELSE <<o>> \o ready

\* mark_ready: to the end of the list, unless the overlay is in it.
MarkReady(o) ==
    /\ readySet' = readySet \cup {o}
    /\ ready' = IF o \in readySet THEN ready ELSE Append(ready, o)

\* Variant of BecomesReady: also while its write is active.
BecomesReadyAnyway(o) == queues[o] = <<>>

\* The first write of a queue makes its overlay ready, if it is not active.
BecomesReady(o) == queues[o] = <<>> /\ o \notin active

Enqueue(o, w) ==
    /\ Len(queues[o]) < MaxQueued
    /\ queues' = [queues EXCEPT ![o] = Append(@, w)]
    /\ \/ BecomesReady(o) /\ MarkReady(o)
       \/ ~BecomesReady(o) /\ UNCHANGED <<ready, readySet>>
    /\ UNCHANGED active

\* An entry yields a write unless its overlay is active or has none.
Yields(o) == o \notin active /\ queues[o] # <<>>

\* The loop of take_ready pops the first k entries: those of active overlays
\* and the first of one that is not.
Pops(k) ==
    /\ \A j \in 1 .. k - 1 : ready[j] \in active
    /\ ready[k] \notin active \/ k = Len(ready)

\* The entries that were popped leave the set as well.
Unmarked(k) == readySet \ {ready[j] : j \in 1 .. k}

\* Variant of Rest: the write that was queued last is popped.
RestButLast(q) == SubSeq(q, 1, Len(q) - 1)

\* pop_front: what is left when the oldest write is yielded.
Rest(q) == Tail(q)

TakeReady(k) ==
    LET o == ready[k] IN
    /\ Pops(k)
    /\ ready' = SubSeq(ready, k + 1, Len(ready))
    /\ readySet' = Unmarked(k)
    /\ queues' = IF Yields(o) THEN [queues EXCEPT ![o] = Rest(@)] ELSE queues
    /\ active' = IF Yields(o) THEN active \cup {o} ELSE active

\* complete: an overlay with more work is ready again.
Complete(o) ==
    /\ o \in active
    /\ active' = active \ {o}
    /\ \/ queues[o] # <<>> /\ MarkReady(o)
       \/ queues[o] = <<>> /\ UNCHANGED <<ready, readySet>>
    /\ UNCHANGED queues

Take == \E k \in 1 .. Len(ready) : TakeReady(k)

Next ==
    \/ \E o \in Overlays, w \in Writes : Enqueue(o, w)
    \/ Take
    \/ \E o \in Overlays : Complete(o)

Spec == Init /\ [][Next]_vars

\* Workers keep taking what is ready and every write they take ends.
FairSpec ==
    Spec /\ WF_vars(Take) /\ \A o \in Overlays : WF_vars(Complete(o))

-----------------------------------------------------------------------------
(***************************************************************************)
(* Properties.                                                             *)
(***************************************************************************)

\* The overlays that can be yielded are exactly those with queued work and
\* no active write: none is forgotten between enqueue, take and complete.
EligibleIsReady == readySet = {o \in Overlays : queues[o] # <<>> /\ o \notin active}

\* Overlay p is in the list in front of o.
Ahead(p, o) == \E j, k \in 1 .. Len(ready) : j < k /\ ready[j] = p /\ ready[k] = o

\* While an overlay waits, no other gets in front of it.
NoOvertaking ==
    [][\A o \in readySet, p \in Overlays : Ahead(p, o)' => Ahead(p, o)]_vars

\* An overlay with queued work gets its turn however busy the others are.
NeverStarved ==
    \A o \in Overlays : queues[o] # <<>> /\ o \notin active ~> o \in active

\* The scheduler implements a queue for each overlay, yielded one at a time.
Queues == INSTANCE OverlayQueues

ImplementsQueues == Queues!Spec

=============================================================================
