----------------------------- MODULE ObjectStore -----------------------------
(***************************************************************************)
(* What WorktreeStore promises those who share it (tsift-index,            *)
(* worktree_store.rs): every call takes effect at one instant between its  *)
(* beginning and its end; an artifact is stored once, an overlay replaced  *)
(* as a whole; and what a power failure leaves of a name is what was       *)
(* acknowledged there last or was stored later. A name whose directory is  *)
(* not on the disk yet may be gone altogether, and so may an artifact that *)
(* a caller has only found present.                                        *)
(***************************************************************************)
CONSTANTS Callers, Artifacts, Overlays, Payloads, None

VARIABLES
    stored,         \* what readers find under each name
    remains,        \* what a power failure may leave there
    request,        \* what each caller has asked for
    done,           \* the callers whose call has taken effect
    answer          \* what each caller was told is stored

vars == <<stored, remains, request, done, answer>>

Paths    == Artifacts \cup Overlays
Requests == [path : Paths, bytes : Payloads]

Init ==
    /\ stored = [p \in Paths |-> None]
    /\ remains = [p \in Paths |-> {None}]
    /\ request = [c \in Callers |-> None]
    /\ done = {}
    /\ answer = [c \in Callers |-> None]

-----------------------------------------------------------------------------
Call(c, r) ==
    /\ request[c] = None
    /\ request' = [request EXCEPT ![c] = r]
    /\ answer' = [answer EXCEPT ![c] = None]
    /\ UNCHANGED <<stored, remains, done>>

\* The instant a call takes effect: nothing is published over an artifact.
Effect(c) ==
    /\ request[c] # None /\ c \notin done
    /\ LET p == request[c].path
           b == request[c].bytes
       IN /\ p \in Artifacts => stored[p] = None
          /\ stored' = [stored EXCEPT ![p] = b]
          /\ remains' = [remains EXCEPT ![p] = @ \cup {b}]
    /\ done' = done \cup {c}
    /\ UNCHANGED <<request, answer>>

\* Syncing a directory settles names in it as they are.
Settles ==
    /\ DOMAIN remains' = Paths
    /\ \A p \in Paths : stored[p] \in remains'[p] /\ remains'[p] \subseteq remains[p]

Sync ==
    /\ Settles
    /\ UNCHANGED <<stored, request, done, answer>>

Over(c) ==
    /\ request' = [request EXCEPT ![c] = None]
    /\ done' = done \ {c}

\* Success: what was asked for has been stored and nothing older will come
\* back, or an artifact of the same bytes was there.
Succeed(c) ==
    /\ request[c] # None
    /\ LET p == request[c].path
       IN \/ c \in done /\ Settles /\ remains'[p] \subseteq {stored[p], None}
          \/ p \in Artifacts /\ stored[p] = request[c].bytes /\ UNCHANGED remains
    /\ answer' = [answer EXCEPT ![c] = request[c]]
    /\ Over(c)
    /\ UNCHANGED stored

\* A failed call may have taken effect or not.
Fail(c) ==
    /\ request[c] # None
    /\ answer' = [answer EXCEPT ![c] = None]
    /\ Over(c)
    /\ UNCHANGED <<stored, remains>>

PowerFails ==
    /\ DOMAIN stored' = Paths
    /\ \A p \in Paths : stored'[p] \in remains[p]
    /\ remains' = [p \in Paths |-> {stored'[p]}]
    /\ request' = [c \in Callers |-> None]
    /\ done' = {}
    /\ answer' = [c \in Callers |-> None]

Next ==
    \/ \E c \in Callers :
           \/ \E r \in Requests : Call(c, r)
           \/ Effect(c) \/ Succeed(c) \/ Fail(c)
    \/ Sync
    \/ PowerFails

Spec == Init /\ [][Next]_vars
=============================================================================
