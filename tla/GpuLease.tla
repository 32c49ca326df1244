------------------------------ MODULE GpuLease ------------------------------
(***************************************************************************)
(* The cooperative GPU lease registry (tsift-local-model) and the commands *)
(* that use it: `tsift lease acquire | renew | release | reap` and         *)
(* `tsift kg extract`.  Every command samples the clock, waits for the     *)
(* advisory lock on <registry>.lock, reads the registry, prunes the stale  *)
(* holders, applies its change and renames the new registry into place;    *)
(* after the lock is released it may ask the provider to unload a model.   *)
(* Processes die between any two of these steps.                           *)
(*                                                                         *)
(* A process stands for a session and its pid; pids are not reused.  Of a  *)
(* lease record the heartbeat and the idle TTL are kept.  CpuOrHash        *)
(* profiles bypass the registry and are not modelled.                      *)
(***************************************************************************)
EXTENDS Naturals

CONSTANTS
    Procs,          \* the sessions' pids
    Profiles,       \* model profiles that need the GPU
    Exclusive,      \* those whose lease mode is Exclusive; the rest are Shared
    Ttls,           \* values of idle_ttl_seconds; 0 never expires
    MaxTime,        \* bound: the clock
    MaxFailures,    \* bound: commands that fail while their session lives on
    None

ASSUME ExclusiveAssumption == Exclusive \subseteq Profiles
ASSUME TtlAssumption == Ttls \subseteq Nat /\ 0 \in Ttls
ASSUME BoundsAssumption == MaxTime \in Nat /\ MaxFailures \in Nat

VARIABLES
    now,            \* the clock, in seconds
    alive,          \* the processes that have not died
    registry,       \* gpu-lease.json: for each profile, each holder's lease
    lock,           \* the process holding the advisory lock
    pc,             \* where each process is in its command
    op,             \* the command it executes
    stamp,          \* the time the command sampled before waiting for the lock
    draft,          \* the registry it is about to rename into place
    granted,        \* what apply_acquire answered
    unload,         \* the profiles it will unload after the lock is released
    holds,          \* the lease it believes it has
    loaded,         \* the profiles whose model is in VRAM
    failures        \* failed commands so far

vars == <<now, alive, registry, lock, pc, op, stamp, draft, granted, unload,
          holds, loaded, failures>>

-----------------------------------------------------------------------------
Times  == 0 .. MaxTime
Leases == [at : Times, ttl : Ttls]
NoHolder == [q \in Procs |-> None]
Registries == [Profiles -> [Procs -> Leases \cup {None}]]
Terms  == [profile : Profiles, ttl : Ttls]
\* Only an acquire carries a TTL.
Ops    == {o \in [kind : {"acquire", "renew", "release", "finish", "reap"},
                  profile : Profiles, ttl : Ttls] : o.kind = "acquire" \/ o.ttl = 0}

ASSUME NoneAssumption == None \notin Procs \cup Profiles \cup Leases \cup Terms \cup Ops

TypeOK ==
    /\ now \in Times
    /\ alive \subseteq Procs
    /\ registry \in Registries
    /\ lock \in Procs \cup {None}
    /\ pc \in [Procs -> {"idle", "wait", "apply", "write", "unlock", "after"}]
    /\ op \in [Procs -> Ops \cup {None}]
    /\ stamp \in [Procs -> Times]
    /\ draft \in [Procs -> Registries \cup {None}]
    /\ granted \in [Procs -> BOOLEAN]
    /\ unload \in [Procs -> SUBSET Profiles]
    /\ holds \in [Procs -> Terms \cup {None}]
    /\ loaded \subseteq Profiles
    /\ failures \in 0 .. MaxFailures

Init ==
    /\ now = 0
    /\ alive = Procs
    /\ registry = [m \in Profiles |-> NoHolder]
    /\ lock = None
    /\ pc = [p \in Procs |-> "idle"]
    /\ op = [p \in Procs |-> None]
    /\ stamp = [p \in Procs |-> 0]
    /\ draft = [p \in Procs |-> None]
    /\ granted = [p \in Procs |-> FALSE]
    /\ unload = [p \in Procs |-> {}]
    /\ holds = [p \in Procs |-> None]
    /\ loaded = {}
    /\ failures = 0

-----------------------------------------------------------------------------
(***************************************************************************)
(* The registry's pure operations.                                         *)
(***************************************************************************)

\* The holders of profile m.
Refs(reg, m) == {q \in Procs : reg[m][q] # None}

\* Variants of the definitions below that a plausible slip would give: each
\* breaks one of the properties at the end.
IsStaleAtTtl(lease, q, t) == q \notin alive \/ (lease.ttl > 0 /\ t >= lease.at + lease.ttl)
IsStaleByTtlOnly(lease, q, t) == lease.ttl > 0 /\ t > lease.at + lease.ttl
MayAcquireShared(reg, m, p) == TRUE

\* A lease is stale when its pid is dead, or its age exceeds a positive TTL.
IsStale(lease, q, t) == q \notin alive \/ (lease.ttl > 0 /\ t > lease.at + lease.ttl)

\* prune_stale_leases: over all profiles, whatever the command is about.
Prune(reg, t) ==
    [m \in Profiles |-> [q \in Procs |->
        IF reg[m][q] # None /\ IsStale(reg[m][q], q, t) THEN None ELSE reg[m][q]]]

\* Variant of WithLease: the record keeps the expiry instead of the heartbeat.
WithLeaseExpiry(reg, m, p, lease) ==
    [reg EXCEPT ![m] = [@ EXCEPT ![p] =
        IF lease = None THEN None ELSE [lease EXCEPT !.at = lease.at + lease.ttl]]]

\* The registry with p's lease on m replaced.
WithLease(reg, m, p, lease) == [reg EXCEPT ![m] = [@ EXCEPT ![p] = lease]]

\* apply_acquire: a holder refreshes its own lease; an exclusive profile
\* refuses anybody else's.
MayAcquire(reg, m, p) == reg[m][p] # None \/ m \notin Exclusive \/ Refs(reg, m) = {}

-----------------------------------------------------------------------------
(***************************************************************************)
(* Commands.                                                               *)
(***************************************************************************)

\* What a session that is granted o believes it has.
TermsOf(o) == [profile |-> o.profile, ttl |-> o.ttl]

\* The caller samples the clock and starts waiting for the lock. A session that
\* has a lease takes it again on the same terms only, and renews or releases no
\* other; one without may renew or release what a failed command of its own has
\* left, or nothing. kg extract ends with its lease. A session stops using its
\* lease before it gives it back.
Call(p, o) ==
    /\ p \in alive /\ pc[p] = "idle"
    /\ o.kind = "acquire" => holds[p] \in {None, TermsOf(o)}
    /\ o.kind \in {"renew", "release"} /\ holds[p] # None => holds[p].profile = o.profile
    /\ o.kind = "finish" => holds[p] # None /\ holds[p].profile = o.profile
    /\ op' = [op EXCEPT ![p] = o]
    /\ stamp' = [stamp EXCEPT ![p] = now]
    /\ holds' = IF o.kind \in {"release", "finish"} THEN [holds EXCEPT ![p] = None] ELSE holds
    /\ pc' = [pc EXCEPT ![p] = "wait"]
    /\ UNCHANGED <<now, alive, registry, lock, draft, granted, unload,
                   loaded, failures>>

\* Variant of Enter: the lock does not exclude.
EnterAnyway(p) ==
    /\ pc[p] = "wait"
    /\ lock' = p
    /\ pc' = [pc EXCEPT ![p] = "apply"]
    /\ UNCHANGED <<now, alive, registry, op, stamp, draft, granted, unload,
                   holds, loaded, failures>>

\* with_registry_lock: lock_exclusive blocks until the file is free.
Enter(p) ==
    /\ pc[p] = "wait"
    /\ lock = None
    /\ lock' = p
    /\ pc' = [pc EXCEPT ![p] = "apply"]
    /\ UNCHANGED <<now, alive, registry, op, stamp, draft, granted, unload,
                   holds, loaded, failures>>

\* apply_acquire on the pruned registry: record the lease, or answer Conflict.
Acquire(p, pruned) ==
    LET m    == op[p].profile
        mine == [at |-> stamp[p], ttl |-> op[p].ttl]
    IN /\ op[p].kind = "acquire"
       /\ granted' = [granted EXCEPT ![p] = MayAcquire(pruned, m, p)]
       /\ draft' = [draft EXCEPT ![p] =
              IF MayAcquire(pruned, m, p) THEN WithLease(pruned, m, p, mine) ELSE pruned]
       /\ UNCHANGED unload

\* apply_renew: slide the heartbeat of a lease that is still there.
Renew(p, pruned) ==
    LET m == op[p].profile
    IN /\ op[p].kind = "renew"
       /\ draft' = [draft EXCEPT ![p] =
              IF pruned[m][p] = None THEN pruned
              ELSE WithLease(pruned, m, p, [pruned[m][p] EXCEPT !.at = stamp[p]])]
       /\ UNCHANGED <<granted, unload>>

\* apply_release. lease release --unload-on-last-release asks for the outcome
\* Released as well, the end of kg extract only for no remaining holder.
Release(p, pruned) ==
    LET m    == op[p].profile
        gone == WithLease(pruned, m, p, None)
    IN /\ op[p].kind \in {"release", "finish"}
       /\ draft' = [draft EXCEPT ![p] = gone]
       /\ unload' = [unload EXCEPT ![p] =
              IF Refs(gone, m) = {} /\ (op[p].kind = "finish" \/ pruned[m][p] # None)
              THEN {m} ELSE {}]
       /\ UNCHANGED granted

\* reap_leases; lease reap --unload-empty unloads the profiles it emptied.
ReapLeases(p, pruned) ==
    /\ op[p].kind = "reap"
    /\ draft' = [draft EXCEPT ![p] = pruned]
    /\ unload' = [unload EXCEPT ![p] =
           {n \in Profiles : Refs(registry, n) # {} /\ Refs(pruned, n) = {}}]
    /\ UNCHANGED granted

\* read_lease_registry, then the command's apply function on the pruned copy.
Apply(p) ==
    /\ pc[p] = "apply"
    /\ LET pruned == Prune(registry, stamp[p])
       IN Acquire(p, pruned) \/ Renew(p, pruned) \/ Release(p, pruned) \/ ReapLeases(p, pruned)
    /\ pc' = [pc EXCEPT ![p] = "write"]
    /\ UNCHANGED <<now, alive, registry, lock, op, stamp, holds, loaded, failures>>

\* write_lease_registry: rename the temporary file over the registry.
Write(p) ==
    /\ pc[p] = "write"
    /\ registry' = draft[p]
    /\ draft' = [draft EXCEPT ![p] = None]
    /\ pc' = [pc EXCEPT ![p] = "unlock"]
    /\ UNCHANGED <<now, alive, lock, op, stamp, granted, unload, holds,
                   loaded, failures>>

\* Drop the lock and act on the answer: a granted session may load its model,
\* a refused one knows that it has no lease, or no longer one.
Unlock(p) ==
    /\ pc[p] = "unlock"
    /\ lock' = None
    /\ holds' = [holds EXCEPT ![p] =
           IF op[p].kind # "acquire" THEN @
           ELSE IF granted[p] THEN TermsOf(op[p]) ELSE None]
    /\ granted' = [granted EXCEPT ![p] = FALSE]
    /\ op' = [op EXCEPT ![p] = None]
    /\ stamp' = [stamp EXCEPT ![p] = 0]
    /\ pc' = [pc EXCEPT ![p] = "after"]
    /\ UNCHANGED <<now, alive, registry, draft, unload, loaded, failures>>

\* After the lock: keep_alive:0 to the provider for each emptied profile.
Unload(p, m) ==
    /\ pc[p] = "after" /\ m \in unload[p]
    /\ unload' = [unload EXCEPT ![p] = @ \ {m}]
    /\ loaded' = loaded \ {m}
    /\ UNCHANGED <<now, alive, registry, lock, pc, op, stamp, draft, granted,
                   holds, failures>>

Return(p) ==
    /\ pc[p] = "after" /\ unload[p] = {}
    /\ pc' = [pc EXCEPT ![p] = "idle"]
    /\ UNCHANGED <<now, alive, registry, lock, op, stamp, draft, granted,
                   unload, holds, loaded, failures>>

-----------------------------------------------------------------------------
(***************************************************************************)
(* The rest of the world.                                                  *)
(***************************************************************************)

\* The session prompts the model it leased; the provider loads it on demand.
Load(p) ==
    /\ pc[p] = "idle" /\ holds[p] # None
    /\ loaded' = loaded \cup {holds[p].profile}
    /\ UNCHANGED <<now, alive, registry, lock, pc, op, stamp, draft, granted,
                   unload, holds, failures>>

\* Variant of Stopped: the lock of a dead process stays.
StoppedWithLock(p) ==
    /\ lock' = lock
    /\ pc' = [pc EXCEPT ![p] = "idle"]
    /\ op' = [op EXCEPT ![p] = None]
    /\ stamp' = [stamp EXCEPT ![p] = 0]
    /\ draft' = [draft EXCEPT ![p] = None]
    /\ granted' = [granted EXCEPT ![p] = FALSE]
    /\ unload' = [unload EXCEPT ![p] = {}]

\* What a command in progress leaves behind when it stops: nothing but the
\* registry it may have written.
Stopped(p) ==
    /\ lock' = IF lock = p THEN None ELSE lock
    /\ pc' = [pc EXCEPT ![p] = "idle"]
    /\ op' = [op EXCEPT ![p] = None]
    /\ stamp' = [stamp EXCEPT ![p] = 0]
    /\ draft' = [draft EXCEPT ![p] = None]
    /\ granted' = [granted EXCEPT ![p] = FALSE]
    /\ unload' = [unload EXCEPT ![p] = {}]

\* The command fails (unreadable registry, full disk) or is killed; the
\* session lives on, without the lease it asked for or had.
Abort(p) ==
    /\ p \in alive /\ pc[p] # "idle"
    /\ failures < MaxFailures
    /\ failures' = failures + 1
    /\ Stopped(p)
    /\ UNCHANGED <<now, alive, registry, holds, loaded>>

\* The process dies, or exits with an error: only its lease outlives it.
Die(p) ==
    /\ p \in alive
    /\ alive' = alive \ {p}
    /\ Stopped(p)
    /\ holds' = [holds EXCEPT ![p] = None]
    /\ UNCHANGED <<now, registry, loaded, failures>>

Tick ==
    /\ now < MaxTime
    /\ now' = now + 1
    /\ UNCHANGED <<alive, registry, lock, pc, op, stamp, draft, granted,
                   unload, holds, loaded, failures>>

\* The steps a command takes by itself.
Step(p) ==
    \/ Apply(p) \/ Write(p) \/ Unlock(p) \/ Return(p)
    \/ \E m \in Profiles : Unload(p, m)

Next ==
    \/ \E p \in Procs :
        \/ \E o \in Ops : Call(p, o)
        \/ Enter(p) \/ Step(p) \/ Load(p) \/ Abort(p) \/ Die(p)
    \/ Tick

Spec == Init /\ [][Next]_vars

\* Commands in progress are scheduled, the kernel hands the lock to each
\* waiter in turn, and while anybody lives somebody keeps calling reap.
Reap == \E p \in Procs, o \in Ops : o.kind = "reap" /\ Call(p, o)

Fairness ==
    /\ \A p \in Procs : WF_vars(Step(p)) /\ SF_vars(Enter(p))
    /\ SF_vars(Reap)

FairSpec == Spec /\ Fairness

-----------------------------------------------------------------------------
(***************************************************************************)
(* Safety.                                                                 *)
(***************************************************************************)

\* A live session that was granted a lease without a TTL is in the registry
\* until it gives the lease back: no interleaving of read-modify-write cycles,
\* deaths or reaps loses or reclaims it.
HoldersAreRegistered ==
    \A p \in Procs : holds[p] # None /\ holds[p].ttl = 0 =>
        registry[holds[p].profile][p] # None

\* An exclusive profile never has two holders in the registry.
ExclusiveHasOneHolder ==
    \A m \in Exclusive : \A p, q \in Refs(registry, m) : p = q

\* Two sessions use the same exclusive profile at once only if one of them let
\* its lease expire: "concurrent extracts serialize on one GPU"
\* (local-kg-model.md:200-201).
ExclusiveUse ==
    \A p, q \in Procs :
        /\ p # q
        /\ holds[p] # None /\ holds[q] # None
        /\ holds[p].profile = holds[q].profile
        /\ holds[p].profile \in Exclusive
        => holds[p].ttl > 0 \/ holds[q].ttl > 0

\* A lease leaves the registry only by its holder's release, after its
\* holder's death, or a full TTL after its last heartbeat.
LeavesOnlyByRight ==
    [][\A m \in Profiles, q \in Procs :
        registry[m][q] # None /\ registry'[m][q] = None =>
            \/ pc[q] = "write" /\ op[q].kind \in {"release", "finish"}
            \/ q \notin alive
            \/ registry[m][q].ttl > 0 /\ now > registry[m][q].at + registry[m][q].ttl]_vars

\* "VRAM is freed exactly when no session still references the model"
\* (local-kg-model.md:197-198): no command unloads a model somebody holds.
FreedOnlyWhenUnreferenced ==
    [][\A m \in Profiles : m \in loaded /\ m \notin loaded' => Refs(registry, m) = {}]_vars

\* The registry is linearizable: to the sessions the lock, the file that is
\* read, the copy that is changed and the rename are one instant, at which the
\* command takes effect on the leases as they are (with_registry_lock around
\* every read-modify-write).
Table == INSTANCE LeaseTable WITH
    table <- registry,
    Commands <- Ops,
    done <- {p \in Procs : pc[p] = "unlock"},
    granted <- {p \in Procs : pc[p] = "unlock" /\ granted[p]}

ImplementsTable == Table!Spec

-----------------------------------------------------------------------------
(***************************************************************************)
(* Liveness.                                                               *)
(***************************************************************************)

\* "a crashed holder can never wedge the registry" (lib.rs:1425): whoever
\* waits for the lock gets it, or dies waiting.
RegistryNeverWedged == \A p \in Procs : pc[p] = "wait" ~> pc[p] # "wait"

\* The lease of a dead session is reclaimed as long as anybody lives.
DeadLeasesReclaimed ==
    \A m \in Profiles, q \in Procs :
        q \notin alive /\ registry[m][q] # None ~> registry[m][q] = None \/ alive = {}
=============================================================================
