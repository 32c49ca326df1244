--------------------------- MODULE GpuLeaseProofs ---------------------------
(***************************************************************************)
(* What holds of the GPU lease registry for any number of sessions and     *)
(* profiles, any TTLs, deaths and failed commands.                         *)
(***************************************************************************)
EXTENDS GpuLease, TLAPS

USE ExclusiveAssumption, TtlAssumption, BoundsAssumption, NoneAssumption

Locked == {"apply", "write", "unlock"}

-----------------------------------------------------------------------------
(***************************************************************************)
(* The registry's operators.                                               *)
(***************************************************************************)

\* Pruning keeps a registry a registry, and drops only stale leases.
LEMMA PruneFacts ==
    ASSUME NEW reg \in Registries, NEW t \in Times
    PROVE  /\ Prune(reg, t) \in Registries
           /\ \A m \in Profiles, q \in Procs :
                \/ Prune(reg, t)[m][q] = reg[m][q]
                \/ /\ Prune(reg, t)[m][q] = None
                   /\ reg[m][q] # None
                   /\ IsStale(reg[m][q], q, t)
  BY DEF Registries, Prune

\* WithLease changes the one entry it is asked to change.
LEMMA WithLeaseFacts ==
    ASSUME NEW reg \in Registries, NEW m \in Profiles, NEW p \in Procs,
           NEW lease \in Leases \cup {None}
    PROVE  /\ WithLease(reg, m, p, lease) \in Registries
           /\ WithLease(reg, m, p, lease)[m][p] = lease
           /\ \A n \in Profiles, q \in Procs :
                n # m \/ q # p => WithLease(reg, m, p, lease)[n][q] = reg[n][q]
  BY DEF Registries, WithLease

-----------------------------------------------------------------------------
(***************************************************************************)
(* Type correctness, the lock, and what a command in progress knows.       *)
(***************************************************************************)

\* The lock is held by the process in the critical section, and nobody else
\* is in it.
LockInv == \A p \in Procs : pc[p] \in Locked <=> lock = p

\* A command in progress has its arguments and a time that is past; whoever
\* uses a lease is alive; whoever acquires has no other lease than the one it
\* asks for, and whoever gives back has none to lose.
CommandInv ==
    \A p \in Procs :
        /\ pc[p] \in Locked \cup {"wait"} => op[p] \in Ops
        /\ pc[p] = "write" => draft[p] \in Registries
        /\ stamp[p] <= now
        /\ pc[p] # "idle" \/ holds[p] # None => p \in alive
        /\ granted[p] => pc[p] \in {"write", "unlock"} /\ op[p].kind = "acquire"
        /\ pc[p] \in Locked \cup {"wait"} =>
             /\ op[p].kind = "acquire" => holds[p] \in {None, TermsOf(op[p])}
             /\ op[p].kind \in {"release", "finish"} => holds[p] = None

Typing == TypeOK /\ LockInv /\ CommandInv

\* What Apply writes is a registry in which the other leases are as in the
\* pruned one; its own entry is dropped only by giving it back.
LEMMA ApplyFacts ==
    ASSUME Typing, NEW p \in Procs, Apply(p)
    PROVE  LET o == op[p]
               pruned == Prune(registry, stamp[p])
           IN  /\ o \in Ops
               /\ draft' \in [Procs -> Registries \cup {None}]
               /\ draft'[p] \in Registries
               /\ \A q \in Procs : q # p => draft'[q] = draft[q]
               /\ \A n \in Profiles, q \in Procs :
                    n # o.profile \/ q # p => draft'[p][n][q] = pruned[n][q]
               /\ o.kind = "reap" => draft'[p][o.profile][p] = pruned[o.profile][p]
               /\ o.kind = "acquire" =>
                    \/ /\ granted'[p]
                       /\ draft'[p][o.profile][p] = [at |-> stamp[p], ttl |-> o.ttl]
                       /\ MayAcquire(pruned, o.profile, p)
                    \/ ~granted'[p] /\ draft'[p] = pruned
               /\ o.kind = "renew" =>
                    \/ draft'[p] = pruned
                    \/ /\ pruned[o.profile][p] # None
                       /\ draft'[p][o.profile][p] = [pruned[o.profile][p] EXCEPT !.at = stamp[p]]
               /\ o.kind \in {"release", "finish"} => draft'[p][o.profile][p] = None
<1> DEFINE o == op[p]
           m == o.profile
           pruned == Prune(registry, stamp[p])
           gone == WithLease(pruned, m, p, None)
           mine == [at |-> stamp[p], ttl |-> o.ttl]
           fresh == [pruned[m][p] EXCEPT !.at = stamp[p]]
<1>1. /\ o \in Ops /\ m \in Profiles /\ o.ttl \in Ttls /\ stamp[p] \in Times
      /\ registry \in Registries /\ draft \in [Procs -> Registries \cup {None}]
      /\ granted \in [Procs -> BOOLEAN]
  BY DEF Typing, TypeOK, CommandInv, Apply, Locked, Ops
<1>2. pruned \in Registries
  BY <1>1, PruneFacts
<1>3. mine \in Leases
  BY <1>1 DEF Leases
<1>4. pruned[m][p] # None => fresh \in Leases
  <2>1. pruned[m][p] \in Leases \cup {None}
    <3> HIDE DEF pruned, m
    <3>. QED BY <1>1, <1>2 DEF Registries
  <2> HIDE DEF pruned, m
  <2>. QED BY <1>1, <2>1 DEF Leases
<1>5. CASE o.kind = "acquire"
  <2>1. /\ granted' = [granted EXCEPT ![p] = MayAcquire(pruned, m, p)]
        /\ draft' = [draft EXCEPT ![p] =
               IF MayAcquire(pruned, m, p) THEN WithLease(pruned, m, p, mine) ELSE pruned]
    BY <1>5 DEF Apply, Acquire, Renew, Release, ReapLeases
  <2>2. /\ WithLease(pruned, m, p, mine) \in Registries
        /\ WithLease(pruned, m, p, mine)[m][p] = mine
        /\ \A n \in Profiles, q \in Procs :
             n # m \/ q # p => WithLease(pruned, m, p, mine)[n][q] = pruned[n][q]
    BY <1>1, <1>2, <1>3, WithLeaseFacts, SMTT(30)
  <2>3. CASE MayAcquire(pruned, m, p)
    <3>1. granted'[p] /\ draft' = [draft EXCEPT ![p] = WithLease(pruned, m, p, mine)]
      BY <1>1, <2>1, <2>3
    <3> HIDE DEF pruned, mine, m
    <3>2. QED
      BY <1>1, <1>5, <2>2, <2>3, <3>1 DEF m, mine, pruned
  <2>4. CASE ~MayAcquire(pruned, m, p)
    <3>1. ~granted'[p] /\ draft' = [draft EXCEPT ![p] = pruned]
      BY <1>1, <2>1, <2>4
    <3>2. QED
      BY <1>1, <1>2, <1>5, <3>1
  <2>5. QED
    BY <2>3, <2>4
<1>6. CASE o.kind = "renew"
  <2>1. draft' = [draft EXCEPT ![p] =
               IF pruned[m][p] = None THEN pruned ELSE WithLease(pruned, m, p, fresh)]
    BY <1>6 DEF Apply, Acquire, Renew, Release, ReapLeases
  <2>2. CASE pruned[m][p] = None
    BY <1>1, <1>2, <1>6, <2>1, <2>2
  <2>3. CASE pruned[m][p] # None
    <3>0. fresh \in Leases \cup {None}
      BY <1>4, <2>3
    <3> HIDE DEF fresh, pruned, m
    <3>1. /\ WithLease(pruned, m, p, fresh) \in Registries
          /\ WithLease(pruned, m, p, fresh)[m][p] = fresh
          /\ \A n \in Profiles, q \in Procs :
               n # m \/ q # p => WithLease(pruned, m, p, fresh)[n][q] = pruned[n][q]
      BY <1>1, <1>2, <3>0, WithLeaseFacts
    <3>2. draft' = [draft EXCEPT ![p] = WithLease(pruned, m, p, fresh)]
      BY <2>1, <2>3
    <3>3. QED
      BY <1>1, <1>6, <2>3, <3>1, <3>2 DEF fresh, pruned, m
  <2>4. QED
    BY <2>2, <2>3
<1>7. CASE o.kind \in {"release", "finish"}
  <2>1. draft' = [draft EXCEPT ![p] = gone]
    BY <1>7 DEF Apply, Acquire, Renew, Release, ReapLeases
  <2>2. /\ gone \in Registries /\ gone[m][p] = None
        /\ \A n \in Profiles, q \in Procs : n # m \/ q # p => gone[n][q] = pruned[n][q]
    BY <1>1, <1>2, WithLeaseFacts
  <2>3. QED
    BY <1>1, <1>7, <2>1, <2>2
<1>8. CASE o.kind = "reap"
  BY <1>1, <1>2, <1>8 DEF Apply, Acquire, Renew, Release, ReapLeases
<1>9. QED
  BY <1>1, <1>5, <1>6, <1>7, <1>8 DEF Ops

\* The types, the lock and the commands' knowledge hold in every state.
LEMMA TypingInvariant == Spec => []Typing
<1>1. Init => Typing
  BY DEF Init, Typing, TypeOK, LockInv, CommandInv, Locked, Times, Registries, NoHolder
<1>2. Typing /\ [Next]_vars => Typing'
  <2> SUFFICES ASSUME Typing, [Next]_vars PROVE Typing'
    OBVIOUS
  <2> USE DEF Typing
  <2>1. ASSUME NEW p \in Procs, NEW o \in Ops, Call(p, o) PROVE Typing'
    <3>1. TypeOK'
      BY <2>1 DEF TypeOK, Call
    <3>2. LockInv'
      BY <2>1 DEF TypeOK, LockInv, Call, Locked
    <3>3. CommandInv'
      <4>1. /\ op'[p] = o /\ stamp'[p] = now /\ pc'[p] = "wait"
            /\ o.kind = "acquire" => holds'[p] \in {None, TermsOf(o)}
            /\ o.kind \in {"release", "finish"} => holds'[p] = None
            /\ p \in alive
            /\ ~granted'[p]
        BY <2>1 DEF TypeOK, CommandInv, Call
      <4>2. now \in Nat
        BY DEF TypeOK, Times
      <4>3. \A q \in Procs : q # p =>
               /\ op'[q] = op[q] /\ stamp'[q] = stamp[q] /\ pc'[q] = pc[q]
               /\ holds'[q] = holds[q]
        BY <2>1 DEF TypeOK, Call
      <4>4. UNCHANGED <<now, alive, draft, granted>>
        BY <2>1 DEF Call
      <4>5. QED
        BY <4>1, <4>2, <4>3, <4>4 DEF CommandInv, Locked
    <3>4. QED
      BY <3>1, <3>2, <3>3
  <2>2. ASSUME NEW p \in Procs, Enter(p) PROVE Typing'
    BY <2>2 DEF TypeOK, LockInv, CommandInv, Enter, Locked
  <2>3. ASSUME NEW p \in Procs, Apply(p) PROVE Typing'
    <3>1. /\ op[p] \in Ops /\ op[p].profile \in Profiles
          /\ draft' \in [Procs -> Registries \cup {None}]
          /\ draft'[p] \in Registries
          /\ \A q \in Procs : q # p => draft'[q] = draft[q]
      BY <2>3, ApplyFacts DEF Ops
    <3>2. /\ granted' \in [Procs -> BOOLEAN]
          /\ unload' \in [Procs -> SUBSET Profiles]
      <4>1. granted' \in [Procs -> BOOLEAN]
        BY <2>3 DEF TypeOK, Apply, Acquire, Renew, Release, ReapLeases, MayAcquire
      <4>2. CASE op[p].kind \in {"release", "finish"}
        BY <2>3, <3>1, <4>2 DEF TypeOK, Apply, Acquire, Renew, Release, ReapLeases
      <4>3. CASE op[p].kind = "reap"
        BY <2>3, <4>3 DEF TypeOK, Apply, Acquire, Renew, Release, ReapLeases
      <4>4. CASE op[p].kind \in {"acquire", "renew"}
        <5>1. unload' = unload
          BY <2>3, <4>4 DEF Apply, Acquire, Renew, Release, ReapLeases
        <5>2. QED
          BY <4>1, <5>1 DEF TypeOK
      <4>5. QED
        BY <3>1, <4>1, <4>2, <4>3, <4>4 DEF Ops
    <3>3. /\ \A q \in Procs : q # p => granted'[q] = granted[q]
          /\ granted'[p] => op[p].kind = "acquire"
      BY <2>3 DEF TypeOK, CommandInv, Apply, Acquire, Renew, Release, ReapLeases
    <3>4. /\ pc' = [pc EXCEPT ![p] = "write"] /\ pc[p] = "apply"
          /\ UNCHANGED <<now, alive, registry, lock, op, stamp, holds, loaded, failures>>
      BY <2>3 DEF Apply
    <3>5. TypeOK'
      BY <3>1, <3>2, <3>4 DEF TypeOK
    <3>6. LockInv'
      BY <3>4 DEF TypeOK, LockInv, Locked
    <3>7. CommandInv'
      BY <3>1, <3>3, <3>4 DEF TypeOK, CommandInv, Locked
    <3>8. QED
      BY <3>5, <3>6, <3>7
  <2>4. ASSUME NEW p \in Procs, Write(p) PROVE Typing'
    BY <2>4 DEF TypeOK, LockInv, CommandInv, Write, Locked
  <2>5. ASSUME NEW p \in Procs, Unlock(p) PROVE Typing'
    <3>1. op[p] \in Ops /\ TermsOf(op[p]) \in Terms
      BY <2>5 DEF CommandInv, Unlock, Locked, Ops, Terms, TermsOf
    <3>2. TypeOK'
      BY <2>5, <3>1 DEF TypeOK, Unlock, Times
    <3>3. LockInv'
      BY <2>5 DEF TypeOK, LockInv, Unlock, Locked
    <3>4. p \in alive
      BY <2>5 DEF CommandInv, Unlock
    <3>5. CommandInv'
      BY <2>5, <3>4 DEF TypeOK, CommandInv, Unlock, Locked, Times
    <3>6. QED
      BY <3>2, <3>3, <3>5
  <2>6. ASSUME NEW p \in Procs, NEW m \in Profiles, Unload(p, m) PROVE Typing'
    BY <2>6 DEF TypeOK, LockInv, CommandInv, Unload, Locked
  <2>7. ASSUME NEW p \in Procs, Return(p) PROVE Typing'
    BY <2>7 DEF TypeOK, LockInv, CommandInv, Return, Locked
  <2>8. ASSUME NEW p \in Procs, Load(p) PROVE Typing'
    BY <2>8 DEF TypeOK, LockInv, CommandInv, Load, Locked, Terms
  <2>9. ASSUME NEW p \in Procs, Abort(p) PROVE Typing'
    BY <2>9 DEF TypeOK, LockInv, CommandInv, Abort, Stopped, Locked, Times
  <2>10. ASSUME NEW p \in Procs, Die(p) PROVE Typing'
    BY <2>10 DEF TypeOK, LockInv, CommandInv, Die, Stopped, Locked, Times
  <2>11. CASE Tick
    BY <2>11 DEF TypeOK, LockInv, CommandInv, Tick, Locked, Times
  <2>12. CASE UNCHANGED vars
    BY <2>12 DEF vars, TypeOK, LockInv, CommandInv, Locked
  <2>13. QED
    BY <2>1, <2>2, <2>3, <2>4, <2>5, <2>6, <2>7, <2>8, <2>9, <2>10, <2>11, <2>12
       DEF Next, Step
<1>3. QED
  BY <1>1, <1>2, PTL DEF Spec

-----------------------------------------------------------------------------
(***************************************************************************)
(* Leases without a TTL.                                                   *)
(***************************************************************************)

Untimed(reg, m, p) == reg[m][p] # None /\ reg[m][p].ttl = 0

\* The lease a session relies on is in the registry and in whatever is about
\* to replace it; so is a lease that was granted and not yet answered.
RegisteredInv ==
    /\ \A p \in Procs : holds[p] # None /\ holds[p].ttl = 0 =>
         /\ Untimed(registry, holds[p].profile, p)
         /\ \A q \in Procs : pc[q] = "write" => Untimed(draft[q], holds[p].profile, p)
    /\ \A p \in Procs : granted[p] /\ op[p].ttl = 0 =>
         /\ pc[p] = "write" => Untimed(draft[p], op[p].profile, p)
         /\ pc[p] = "unlock" => Untimed(registry, op[p].profile, p)

\* Pruning never takes the lease without a TTL of a living session.
LEMMA PruneKeepsUntimed ==
    ASSUME NEW reg \in Registries, NEW t \in Times, NEW m \in Profiles, NEW p \in alive,
           p \in Procs, Untimed(reg, m, p)
    PROVE  Prune(reg, t)[m][p] = reg[m][p]
<1>1. ~IsStale(reg[m][p], p, t)
  BY DEF IsStale, Untimed
<1>2. QED
  BY <1>1, PruneFacts

\* RegisteredInv holds in every reachable state.
LEMMA RegisteredInvariant == Spec => []RegisteredInv
<1>1. Init => RegisteredInv
  BY DEF Init, RegisteredInv
<1>2. Typing /\ RegisteredInv /\ [Next]_vars => RegisteredInv'
  <2> SUFFICES ASSUME Typing, RegisteredInv, [Next]_vars PROVE RegisteredInv'
    OBVIOUS
  <2> USE DEF Typing
  <2>1. ASSUME NEW p \in Procs, NEW o \in Ops, Call(p, o) PROVE RegisteredInv'
    <3>1. \A q \in Procs : holds'[q] # None => holds'[q] = holds[q]
      BY <2>1 DEF TypeOK, Call
    <3>2. \A q \in Procs : pc'[q] \in Locked => pc'[q] = pc[q] /\ op'[q] = op[q]
      BY <2>1 DEF TypeOK, Call, Locked
    <3>3. ~granted[p]
      BY <2>1 DEF CommandInv, Call
    <3>4. UNCHANGED <<registry, draft, granted>>
      BY <2>1 DEF Call
    <3>5. \A q \in Procs : granted[q] => pc'[q] \in Locked
      BY <2>1, <3>3 DEF TypeOK, CommandInv, Call, Locked
    <3>6. QED
      BY <3>1, <3>2, <3>4, <3>5 DEF RegisteredInv, Untimed, Locked
  <2>2. ASSUME NEW p \in Procs, Enter(p) PROVE RegisteredInv'
    BY <2>2 DEF TypeOK, RegisteredInv, Untimed, Enter
  <2>3. ASSUME NEW p \in Procs, Apply(p) PROVE RegisteredInv'
    <3> DEFINE o == op[p]
               pruned == Prune(registry, stamp[p])
    <3>1. /\ o \in Ops /\ o.profile \in Profiles
          /\ registry \in Registries /\ stamp[p] \in Times
          /\ \A q \in Procs : q # p => draft'[q] = draft[q] /\ granted'[q] = granted[q]
          /\ \A n \in Profiles, q \in Procs :
               n # o.profile \/ q # p => draft'[p][n][q] = pruned[n][q]
      <4>1. o \in Ops /\ o.profile \in Profiles /\ registry \in Registries /\ stamp[p] \in Times
        BY <2>3 DEF TypeOK, CommandInv, Apply, Locked, Ops
      <4>2. \A q \in Procs : q # p => draft'[q] = draft[q] /\ granted'[q] = granted[q]
        BY <2>3 DEF TypeOK, Apply, Acquire, Renew, Release, ReapLeases
      <4>3. \A n \in Profiles, q \in Procs :
               n # o.profile \/ q # p => draft'[p][n][q] = pruned[n][q]
        BY <2>3, ApplyFacts
      <4>4. QED
        BY <4>1, <4>2, <4>3
    <3>2. /\ pc' = [pc EXCEPT ![p] = "write"] /\ pc[p] = "apply"
          /\ UNCHANGED <<registry, op, holds>>
      BY <2>3 DEF Apply, TypeOK
    <3>3. ASSUME NEW q \in Procs, holds[q] # None, holds[q].ttl = 0
          PROVE  Untimed(draft'[p], holds[q].profile, q)
      <4>1. q \in alive /\ holds[q].profile \in Profiles /\ Untimed(registry, holds[q].profile, q)
        BY <3>3 DEF TypeOK, CommandInv, RegisteredInv, Terms
      <4>2. pruned[holds[q].profile][q] = registry[holds[q].profile][q]
        BY <3>1, <4>1, PruneKeepsUntimed
      <4>3. CASE q # p \/ holds[q].profile # o.profile
        BY <3>1, <4>1, <4>2, <4>3 DEF Untimed
      <4>4. CASE q = p /\ holds[q].profile = o.profile
        <5>1. o.kind \in {"acquire", "renew", "reap"}
          BY <3>1, <3>2, <3>3, <4>4 DEF CommandInv, Locked, Ops
        <5>2. pruned[o.profile][p] \in Leases
          BY <3>1, <4>1, <4>2, <4>4 DEF Registries, Untimed
        <5>21. o.kind = "acquire" => o.ttl = 0
          BY <3>2, <3>3, <4>4 DEF CommandInv, Locked, TermsOf
        <5>22. pruned[o.profile][p].ttl = 0
          BY <4>1, <4>2, <4>4 DEF Untimed
        <5>23. o.kind = "acquire" =>
                  draft'[p][o.profile][p] \in {pruned[o.profile][p], [at |-> stamp[p], ttl |-> 0]}
          BY <2>3, <5>21, ApplyFacts
        <5>24. [pruned[o.profile][p] EXCEPT !.at = stamp[p]] = [at |-> stamp[p], ttl |-> 0]
          BY <5>2, <5>22 DEF Leases
        <5>3. draft'[p][o.profile][p] \in {pruned[o.profile][p],
                                           [pruned[o.profile][p] EXCEPT !.at = stamp[p]]}
          <6>1. CASE o.kind = "acquire"
            BY <5>23, <5>24, <6>1
          <6>2. CASE o.kind # "acquire"
            BY <2>3, <5>1, <6>2, ApplyFacts
          <6>3. QED
            BY <6>1, <6>2
        <5>4. draft'[p][o.profile][p].ttl = 0 /\ draft'[p][o.profile][p] \in Leases
          <6>1. pruned[o.profile][p].ttl = 0
            BY <4>1, <4>2, <4>4 DEF Untimed
          <6>2. /\ [pruned[o.profile][p] EXCEPT !.at = stamp[p]] \in Leases
                /\ [pruned[o.profile][p] EXCEPT !.at = stamp[p]].ttl = pruned[o.profile][p].ttl
            BY <3>1, <5>2 DEF Leases
          <6> HIDE DEF pruned, o
          <6>3. QED
            BY <5>2, <5>3, <6>1, <6>2
        <5>5. QED
          BY <4>4, <5>4 DEF Untimed
      <4>5. QED
        BY <4>3, <4>4
    <3>4. ASSUME granted'[p], o.ttl = 0
          PROVE  Untimed(draft'[p], o.profile, p)
      <4>1. o.kind = "acquire"
        BY <2>3, <3>1, <3>4 DEF TypeOK, CommandInv, Apply, Acquire, Renew, Release, ReapLeases
      <4>2. draft'[p][o.profile][p] = [at |-> stamp[p], ttl |-> o.ttl]
        BY <2>3, <3>4, <4>1, ApplyFacts
      <4>3. [at |-> stamp[p], ttl |-> o.ttl] \in Leases
        BY <3>1 DEF Ops, Leases
      <4>4. QED
        BY <3>4, <4>2, <4>3 DEF Untimed
    <3>5. QED
      BY <3>1, <3>2, <3>3, <3>4 DEF TypeOK, RegisteredInv
  <2>4. ASSUME NEW p \in Procs, Write(p) PROVE RegisteredInv'
    <3>1. \A q \in Procs : q # p => pc[q] \notin Locked
      BY <2>4 DEF LockInv, Write, Locked
    <3>2. QED
      BY <2>4, <3>1 DEF TypeOK, CommandInv, RegisteredInv, Untimed, Write, Locked
  <2>5. ASSUME NEW p \in Procs, Unlock(p) PROVE RegisteredInv'
    <3>1. \A q \in Procs : q # p => pc[q] \notin Locked
      BY <2>5 DEF LockInv, Unlock, Locked
    <3>2. \A q \in Procs : pc'[q] # "write" /\ ~granted'[q]
      BY <2>5, <3>1 DEF TypeOK, CommandInv, Unlock, Locked
    <3>3. ASSUME NEW q \in Procs, holds'[q] # None, holds'[q].ttl = 0
          PROVE  Untimed(registry', holds'[q].profile, q)
      <4>1. CASE q = p /\ granted[p]
        <5>1. holds'[q] = [profile |-> op[p].profile, ttl |-> op[p].ttl]
          BY <2>5, <4>1 DEF TypeOK, CommandInv, Unlock, TermsOf
        <5>2. op[p].ttl = 0 /\ holds'[q].profile = op[p].profile
          BY <3>3, <5>1
        <5>3. QED
          BY <2>5, <4>1, <5>2 DEF RegisteredInv, Unlock
      <4>2. CASE ~(q = p /\ granted[p])
        BY <2>5, <3>3, <4>2 DEF TypeOK, RegisteredInv, Unlock
      <4>3. QED
        BY <4>1, <4>2
    <3>4. QED
      BY <3>2, <3>3 DEF RegisteredInv
  <2>6. ASSUME NEW p \in Procs, NEW m \in Profiles, Unload(p, m) PROVE RegisteredInv'
    BY <2>6 DEF RegisteredInv, Untimed, Unload
  <2>7. ASSUME NEW p \in Procs, Return(p) PROVE RegisteredInv'
    BY <2>7 DEF TypeOK, RegisteredInv, Untimed, Return
  <2>8. ASSUME NEW p \in Procs, Load(p) PROVE RegisteredInv'
    BY <2>8 DEF RegisteredInv, Untimed, Load
  <2>9. ASSUME NEW p \in Procs, Abort(p) \/ Die(p) PROVE RegisteredInv'
    <3>1. /\ \A q \in Procs : holds'[q] # None => holds'[q] = holds[q]
          /\ \A q \in Procs : pc'[q] \in Locked => pc'[q] = pc[q] /\ q # p
          /\ \A q \in Procs : q # p => op'[q] = op[q] /\ draft'[q] = draft[q]
          /\ \A q \in Procs : granted'[q] => granted[q] /\ q # p
          /\ registry' = registry
      BY <2>9 DEF TypeOK, Abort, Die, Stopped, Locked
    <3>2. QED
      BY <3>1 DEF RegisteredInv, Locked
  <2>10. CASE Tick
    BY <2>10 DEF RegisteredInv, Untimed, Tick
  <2>11. CASE UNCHANGED vars
    BY <2>11 DEF vars, RegisteredInv, Untimed
  <2>12. QED
    BY <2>1, <2>2, <2>3, <2>4, <2>5, <2>6, <2>7, <2>8, <2>9, <2>10, <2>11 DEF Next, Step
<1>3. QED
  BY <1>1, <1>2, TypingInvariant, PTL DEF Spec

-----------------------------------------------------------------------------
(***************************************************************************)
(* Exclusive profiles.                                                     *)
(***************************************************************************)

OneHolder(reg) ==
    \A m \in Exclusive : \A p, q \in Procs : reg[m][p] # None /\ reg[m][q] # None => p = q

\* Neither the registry nor its replacement has two holders of one exclusive
\* profile.
ExclusiveInv ==
    /\ OneHolder(registry)
    /\ \A p \in Procs : pc[p] = "write" => OneHolder(draft[p])

\* ExclusiveInv holds in every reachable state.
LEMMA ExclusiveInvariant == Spec => []ExclusiveInv
<1>1. Init => ExclusiveInv
  BY DEF Init, ExclusiveInv, OneHolder, NoHolder
<1>2. Typing /\ ExclusiveInv /\ [Next]_vars => ExclusiveInv'
  <2> SUFFICES ASSUME Typing, ExclusiveInv, [Next]_vars PROVE ExclusiveInv'
    OBVIOUS
  <2> USE DEF Typing
  <2>1. ASSUME NEW p \in Procs, Apply(p) PROVE ExclusiveInv'
    <3> DEFINE o == op[p]
               pruned == Prune(registry, stamp[p])
    <3>1. /\ o \in Ops /\ o.profile \in Profiles
          /\ registry \in Registries /\ stamp[p] \in Times
          /\ \A q \in Procs : q # p => draft'[q] = draft[q]
          /\ \A n \in Profiles, q \in Procs :
               n # o.profile \/ q # p => draft'[p][n][q] = pruned[n][q]
      BY <2>1, ApplyFacts DEF Ops, TypeOK, Apply
    <3>2. /\ pc' = [pc EXCEPT ![p] = "write"]
          /\ UNCHANGED registry
      BY <2>1 DEF Apply
    <3>3. \A n \in Profiles, q \in Procs : pruned[n][q] # None => registry[n][q] # None
      BY <3>1, PruneFacts
    <3>4. OneHolder(pruned)
      BY <3>3 DEF ExclusiveInv, OneHolder
    <3>5. \/ draft'[p][o.profile][p] = None
          \/ draft'[p][o.profile][p] = pruned[o.profile][p]
          \/ pruned[o.profile][p] # None
          \/ MayAcquire(pruned, o.profile, p)
      BY <2>1, ApplyFacts DEF Ops
    <3>6. OneHolder(draft'[p])
      <4> SUFFICES ASSUME NEW m \in Exclusive, NEW q \in Procs, NEW r \in Procs,
                          draft'[p][m][q] # None, draft'[p][m][r] # None
                   PROVE  q = r
        BY DEF OneHolder
      <4>0. m \in Profiles
        OBVIOUS
      <4>1. CASE m # o.profile
        BY <3>1, <3>4, <4>0, <4>1 DEF OneHolder
      <4>2. CASE m = o.profile
        <5>1. \/ draft'[p][m][p] = None
              \/ pruned[m][p] # None
              \/ Refs(pruned, m) = {}
          <6> HIDE DEF pruned
          <6> QED
            BY <3>5, <4>2 DEF MayAcquire
        <5>2. \A x \in Procs : x # p => draft'[p][m][x] = pruned[m][x]
          BY <3>1, <4>0
        <5> HIDE DEF pruned
        <5>3. QED
          BY <3>4, <5>1, <5>2 DEF OneHolder, Refs
      <4>3. QED
        BY <4>1, <4>2
    <3>7. QED
      BY <3>1, <3>2, <3>6 DEF TypeOK, ExclusiveInv
  <2>2. ASSUME NEW p \in Procs, Write(p) PROVE ExclusiveInv'
    BY <2>2 DEF TypeOK, ExclusiveInv, Write
  <2>3. ASSUME NEW p \in Procs,
               \/ \E o \in Ops : Call(p, o)
               \/ Enter(p) \/ Unlock(p) \/ Return(p) \/ Load(p) \/ Abort(p) \/ Die(p)
               \/ \E m \in Profiles : Unload(p, m)
        PROVE  ExclusiveInv'
    <3>1. /\ registry' = registry
          /\ \A q \in Procs : pc'[q] = "write" => pc[q] = "write" /\ draft'[q] = draft[q]
      BY <2>3 DEF TypeOK, Call, Enter, Unlock, Return, Load, Abort, Die, Stopped, Unload
    <3>2. QED
      BY <3>1 DEF ExclusiveInv
  <2>4. CASE Tick \/ UNCHANGED vars
    BY <2>4 DEF Tick, vars, ExclusiveInv
  <2>5. QED
    BY <2>1, <2>2, <2>3, <2>4 DEF Next, Step
<1>3. QED
  BY <1>1, <1>2, TypingInvariant, PTL DEF Spec

-----------------------------------------------------------------------------
(***************************************************************************)
(* How a lease leaves the registry.                                        *)
(***************************************************************************)

\* Why q's lease on m may be missing from the registry p is about to write.
MayLeave(p, m, q) ==
    \/ p = q /\ op[q].kind \in {"release", "finish"}
    \/ q \notin alive
    \/ registry[m][q].ttl > 0 /\ now > registry[m][q].at + registry[m][q].ttl

LeaveInv ==
    \A p \in Procs : pc[p] = "write" =>
        \A m \in Profiles, q \in Procs :
            registry[m][q] # None /\ draft[p][m][q] = None => MayLeave(p, m, q)

\* LeaveInv holds in every reachable state: once a lease may go it may still
\* go when the registry is written.
LEMMA LeaveInvariant == Spec => []LeaveInv
<1>1. Init => LeaveInv
  BY DEF Init, LeaveInv
<1>2. Typing /\ LeaveInv /\ [Next]_vars => LeaveInv'
  <2> SUFFICES ASSUME Typing, LeaveInv, [Next]_vars PROVE LeaveInv'
    OBVIOUS
  <2> USE DEF Typing
  <2>1. ASSUME NEW p \in Procs, Apply(p) PROVE LeaveInv'
    <3> DEFINE o == op[p]
               pruned == Prune(registry, stamp[p])
    <3>1. /\ o \in Ops /\ o.profile \in Profiles
          /\ registry \in Registries /\ stamp[p] \in Times
          /\ \A q \in Procs : q # p => draft'[q] = draft[q]
          /\ \A n \in Profiles, q \in Procs :
               n # o.profile \/ q # p => draft'[p][n][q] = pruned[n][q]
      BY <2>1, ApplyFacts DEF Ops, TypeOK, Apply
    <3>2. /\ pc' = [pc EXCEPT ![p] = "write"]
          /\ UNCHANGED <<registry, op, alive, now>>
      BY <2>1 DEF Apply
    <3>0. \A m \in Profiles, q \in Procs : registry[m][q] # None =>
             registry[m][q].at \in Nat /\ registry[m][q].ttl \in Nat
      BY DEF TypeOK, Registries, Leases, Times
    <3>3. ASSUME NEW m \in Profiles, NEW q \in Procs,
                 registry[m][q] # None, draft'[p][m][q] = None
          PROVE  MayLeave(p, m, q)'
      <4>1. CASE pruned[m][q] = None
        <5>1. IsStale(registry[m][q], q, stamp[p])
          BY <3>1, <3>3, <4>1, PruneFacts
        <5>2. registry[m][q] \in Leases /\ stamp[p] <= now /\ now \in Nat /\ stamp[p] \in Nat
          BY <3>1, <3>3 DEF TypeOK, CommandInv, Registries, Times
        <5>3. registry[m][q].at \in Nat /\ registry[m][q].ttl \in Nat
          BY <3>0, <3>3
        <5>4. QED
          BY <3>2, <5>1, <5>2, <5>3 DEF IsStale, MayLeave
      <4>2. CASE pruned[m][q] # None
        <5>1. q = p /\ m = o.profile
          BY <3>1, <3>3, <4>2
        <5>2. o.kind \in {"release", "finish"}
          <6>1. o.kind # "reap" /\ o.kind # "renew" /\ o.kind # "acquire"
            <7>1. o.kind # "reap"
              BY <2>1, <3>3, <4>2, <5>1, ApplyFacts
            <7>2. [pruned[m][p] EXCEPT !.at = stamp[p]] # None
              <8>1. pruned \in Registries
                BY <3>1, PruneFacts
              <8>2. pruned[m][p] \in Leases
                BY <4>2, <5>1, <8>1 DEF Registries
              <8>3. [pruned[m][p] EXCEPT !.at = stamp[p]] \in Leases
                BY <3>1, <8>2 DEF Leases
              <8>4. QED
                BY <8>3
            <7>3. o.kind # "renew"
              BY <2>1, <3>3, <4>2, <5>1, <7>2, ApplyFacts
            <7>4. [at |-> stamp[p], ttl |-> o.ttl] # None
              BY <3>1 DEF Leases, Ops
            <7>5. o.kind # "acquire"
              BY <2>1, <3>3, <4>2, <5>1, <7>4, ApplyFacts
            <7>6. QED
              BY <7>1, <7>3, <7>5
          <6>2. QED
            BY <3>1, <6>1 DEF Ops
        <5>3. QED
          BY <3>2, <5>1, <5>2 DEF MayLeave
      <4>3. QED
        BY <4>1, <4>2
    <3>4. \A q \in Procs : q # p => pc'[q] # "write"
      BY <2>1, <3>2 DEF TypeOK, LockInv, Apply, Locked
    <3>5. QED
      BY <3>2, <3>3, <3>4 DEF LeaveInv
  <2>2. ASSUME NEW p \in Procs, Write(p) PROVE LeaveInv'
    BY <2>2 DEF TypeOK, LockInv, LeaveInv, Write, Locked
  <2>3. ASSUME NEW p \in Procs,
               \/ \E o \in Ops : Call(p, o)
               \/ Enter(p) \/ Unlock(p) \/ Return(p) \/ Load(p) \/ Abort(p) \/ Die(p)
               \/ \E m \in Profiles : Unload(p, m)
        PROVE  LeaveInv'
    <3>1. /\ registry' = registry /\ now' = now /\ alive' \subseteq alive
          /\ \A q \in Procs : pc'[q] = "write" =>
               pc[q] = "write" /\ draft'[q] = draft[q] /\ op'[q] = op[q]
      BY <2>3 DEF TypeOK, Call, Enter, Unlock, Return, Load, Abort, Die, Stopped, Unload
    <3>2. QED
      BY <3>1 DEF LeaveInv, MayLeave
  <2>4. CASE Tick
    <3>1. \A m \in Profiles, q \in Procs : registry[m][q] # None =>
             registry[m][q].at \in Nat /\ registry[m][q].ttl \in Nat
      BY DEF TypeOK, Registries, Leases, Times
    <3>2. QED
      BY <2>4, <3>1 DEF TypeOK, Times, Tick, LeaveInv, MayLeave
  <2>5. CASE UNCHANGED vars
    BY <2>5 DEF vars, LeaveInv, MayLeave
  <2>6. QED
    BY <2>1, <2>2, <2>3, <2>4, <2>5 DEF Next, Step
<1>3. QED
  BY <1>1, <1>2, TypingInvariant, PTL DEF Spec

-----------------------------------------------------------------------------
(***************************************************************************)
(* The registry is a table on which every command takes effect at once:    *)
(* the rename is that instant, returning and failing are what they are     *)
(* called, and everything else is invisible.                               *)
(***************************************************************************)

\* What p is about to write is what its command makes of the registry as it is
\* now: nobody has changed it since p read it, and the sessions whose leases it
\* dropped are still dead.
IsResult(p, dead) ==
    Table!Takes(p, Table!Pruned(dead, stamp[p]), draft[p], granted[p])

ResultInv ==
    /\ \A p \in Procs : pc[p] = "write" => \E dead \in SUBSET (Procs \ alive) : IsResult(p, dead)
    /\ \A p \in Procs : pc[p] \in {"idle", "after"} => op[p] = None /\ stamp[p] = 0

\* Apply computes the result of the command on the registry.
LEMMA ApplyTakes ==
    ASSUME Typing, NEW p \in Procs, Apply(p)
    PROVE  Table!Takes(p, Table!Pruned(Procs \ alive, stamp[p]), draft'[p], granted'[p])
<1> DEFINE o == op[p]
           m == o.profile
           pruned == Prune(registry, stamp[p])
           mine == [at |-> stamp[p], ttl |-> o.ttl]
<1>1. /\ o \in Ops /\ m \in Profiles
      /\ draft \in [Procs -> Registries \cup {None}]
      /\ granted \in [Procs -> BOOLEAN] /\ ~granted[p]
  BY DEF Typing, TypeOK, CommandInv, Apply, Locked, Ops
<1>2. pruned = Table!Pruned(Procs \ alive, stamp[p])
  BY DEF Prune, IsStale, Table!Pruned, Table!Expired
<1>3. MayAcquire(pruned, m, p) <=> Table!Free(pruned, m, p)
  <2> HIDE DEF pruned
  <2>. QED BY <1>1 DEF MayAcquire, Refs, Table!Free
<1>4. \A lease : WithLease(pruned, m, p, lease) = Table!With(pruned, m, p, lease)
  BY DEF WithLease, Table!With
<1> HIDE DEF pruned
<1>5. CASE o.kind = "acquire"
  <2>1. /\ granted' = [granted EXCEPT ![p] = MayAcquire(pruned, m, p)]
        /\ draft' = [draft EXCEPT ![p] =
               IF MayAcquire(pruned, m, p) THEN WithLease(pruned, m, p, mine) ELSE pruned]
    BY <1>5 DEF Apply, Acquire, Renew, Release, ReapLeases, pruned
  <2>2. CASE MayAcquire(pruned, m, p)
    <3>1. granted'[p] /\ draft'[p] = WithLease(pruned, m, p, mine)
      BY <1>1, <2>1, <2>2
    <3>. QED BY <1>2, <1>3, <1>4, <1>5, <2>2, <3>1 DEF Table!Takes
  <2>3. CASE ~MayAcquire(pruned, m, p)
    <3>1. ~granted'[p] /\ draft'[p] = pruned
      BY <1>1, <2>1, <2>3
    <3>. QED BY <1>2, <1>3, <1>5, <2>3, <3>1 DEF Table!Takes
  <2>. QED BY <2>2, <2>3
<1>6. CASE o.kind = "renew"
  <2>1. ~granted'[p] /\ draft'[p] =
               IF pruned[m][p] = None THEN pruned
               ELSE WithLease(pruned, m, p, [pruned[m][p] EXCEPT !.at = stamp[p]])
    BY <1>1, <1>6 DEF Apply, Acquire, Renew, Release, ReapLeases, pruned
  <2>. QED BY <1>2, <1>4, <1>6, <2>1 DEF Table!Takes
<1>7. CASE o.kind \in {"release", "finish"}
  <2>1. ~granted'[p] /\ draft'[p] = WithLease(pruned, m, p, None)
    BY <1>1, <1>7 DEF Apply, Acquire, Renew, Release, ReapLeases, pruned
  <2>. QED BY <1>2, <1>4, <1>7, <2>1 DEF Table!Takes
<1>8. CASE o.kind = "reap"
  <2>1. ~granted'[p] /\ draft'[p] = pruned
    BY <1>1, <1>8 DEF Apply, Acquire, Renew, Release, ReapLeases, pruned
  <2>. QED BY <1>2, <1>8, <2>1 DEF Table!Takes
<1>. QED BY <1>1, <1>5, <1>6, <1>7, <1>8 DEF Ops

\* A result stays the result while nothing it was computed from changes.
LEMMA ResultStays ==
    ASSUME Typing, ResultInv, NEW q \in Procs, pc[q] = "write",
           UNCHANGED registry, alive' \subseteq alive,
           op'[q] = op[q], stamp'[q] = stamp[q], draft'[q] = draft[q], granted'[q] = granted[q]
    PROVE  \E dead \in SUBSET (Procs \ alive') : IsResult(q, dead)'
<1>1. PICK dead \in SUBSET (Procs \ alive) : IsResult(q, dead)
  BY DEF ResultInv
<1>2. Table!Pruned(dead, stamp[q])' = Table!Pruned(dead, stamp[q])
  BY DEF Table!Pruned
<1>3. IsResult(q, dead)'
  BY <1>1, <1>2 DEF IsResult, Table!Takes
<1>. QED BY <1>1, <1>3

\* ResultInv holds in every reachable state.
LEMMA ResultInvariant == Spec => []ResultInv
<1>1. Init => ResultInv
  BY DEF Init, ResultInv
<1>2. ASSUME Typing, ResultInv, [Next]_vars PROVE ResultInv'
  <2> USE <1>2 DEF Typing
  <2>1. ASSUME NEW p \in Procs, Apply(p) PROVE ResultInv'
    <3>1. /\ pc[p] = "apply" /\ pc' = [pc EXCEPT ![p] = "write"]
          /\ UNCHANGED <<alive, registry, op, stamp>>
      BY <2>1 DEF Apply
    <3>2. \A q \in Procs : q # p => pc[q] # "write"
      BY <3>1 DEF LockInv, Locked
    <3>3. IsResult(p, Procs \ alive)'
      <4>1. Table!Takes(p, Table!Pruned(Procs \ alive, stamp[p]), draft'[p], granted'[p])
        BY <2>1, ApplyTakes
      <4>2. Table!Pruned(Procs \ alive, stamp[p])' = Table!Pruned(Procs \ alive, stamp[p])
        BY <3>1 DEF Table!Pruned
      <4>. QED BY <3>1, <4>1, <4>2 DEF IsResult, Table!Takes
    <3>. QED BY <3>1, <3>2, <3>3 DEF TypeOK, ResultInv
  <2>2. ASSUME NEW p \in Procs, Write(p) PROVE ResultInv'
    BY <2>2 DEF TypeOK, LockInv, Locked, ResultInv, Write
  <2>3. ASSUME UNCHANGED registry, alive' \subseteq alive,
               \A q \in Procs : pc'[q] = "write" =>
                  /\ pc[q] = "write" /\ op'[q] = op[q] /\ stamp'[q] = stamp[q]
                  /\ draft'[q] = draft[q] /\ granted'[q] = granted[q],
               \A q \in Procs : pc'[q] \in {"idle", "after"} => op'[q] = None /\ stamp'[q] = 0
        PROVE  ResultInv'
    <3>1. ASSUME NEW q \in Procs, pc'[q] = "write"
          PROVE  \E dead \in SUBSET (Procs \ alive') : IsResult(q, dead)'
      BY <2>3, <3>1, ResultStays
    <3>. QED BY <2>3, <3>1 DEF ResultInv
  <2>4. ASSUME NEW p \in Procs, NEW o \in Ops, Call(p, o) PROVE ResultInv'
    BY <2>3, <2>4 DEF TypeOK, ResultInv, Call
  <2>5. ASSUME NEW p \in Procs, Enter(p) \/ Load(p) \/ Return(p) PROVE ResultInv'
    BY <2>3, <2>5 DEF TypeOK, ResultInv, Enter, Load, Return
  <2>6. ASSUME NEW p \in Procs, Unlock(p) PROVE ResultInv'
    BY <2>3, <2>6 DEF TypeOK, ResultInv, Unlock
  <2>7. ASSUME NEW p \in Procs, NEW m \in Profiles, Unload(p, m) PROVE ResultInv'
    BY <2>3, <2>7 DEF TypeOK, ResultInv, Unload
  <2>8. ASSUME NEW p \in Procs, Abort(p) \/ Die(p) PROVE ResultInv'
    BY <2>3, <2>8 DEF TypeOK, ResultInv, Abort, Die, Stopped
  <2>9. CASE Tick \/ UNCHANGED vars
    BY <2>3, <2>9 DEF ResultInv, Tick, vars
  <2>. QED
    BY <2>1, <2>2, <2>4, <2>5, <2>6, <2>7, <2>8, <2>9 DEF Next, Step
<1>. QED
  BY <1>1, <1>2, TypingInvariant, PTL DEF Spec

-----------------------------------------------------------------------------
(***************************************************************************)
(* The theorems.                                                           *)
(***************************************************************************)

\* Every variable keeps its type.
THEOREM TypeCorrect == Spec => []TypeOK
<1>1. Typing => TypeOK
  BY DEF Typing
<1>2. QED
  BY <1>1, TypingInvariant, PTL

\* A lease without a TTL stays registered for as long as its session lives and
\* keeps it.
THEOREM HoldersRegistered == Spec => []HoldersAreRegistered
<1>1. RegisteredInv => HoldersAreRegistered
  BY DEF RegisteredInv, HoldersAreRegistered, Untimed
<1>2. QED
  BY <1>1, RegisteredInvariant, PTL

\* The registry never shows two holders of an exclusive profile.
THEOREM OneExclusiveHolder == Spec => []ExclusiveHasOneHolder
<1>1. ExclusiveInv => ExclusiveHasOneHolder
  BY DEF ExclusiveInv, OneHolder, ExclusiveHasOneHolder, Refs
<1>2. QED
  BY <1>1, ExclusiveInvariant, PTL

\* Sessions whose leases do not expire never use one exclusive profile at the
\* same time.
THEOREM ExclusiveUseHolds == Spec => []ExclusiveUse
<1>1. Typing /\ RegisteredInv /\ ExclusiveInv => ExclusiveUse
  <2> SUFFICES ASSUME Typing, RegisteredInv, ExclusiveInv,
                      NEW p \in Procs, NEW q \in Procs,
                      p # q, holds[p] # None, holds[q] # None,
                      holds[p].profile = holds[q].profile,
                      holds[p].profile \in Exclusive,
                      ~(holds[p].ttl > 0 \/ holds[q].ttl > 0)
               PROVE  FALSE
    BY DEF ExclusiveUse
  <2>1. holds[p].ttl \in Nat /\ holds[q].ttl \in Nat
    BY DEF Typing, TypeOK, Terms
  <2>2. holds[p].ttl = 0 /\ holds[q].ttl = 0
    BY <2>1
  <2>3. QED
    BY <2>2 DEF RegisteredInv, Untimed, ExclusiveInv, OneHolder
<1>2. QED
  BY <1>1, TypingInvariant, RegisteredInvariant, ExclusiveInvariant, PTL

\* A lease leaves the registry by its holder's own release, by its holder's
\* death or by its expiry: nothing else, in any interleaving.
THEOREM LeavesByRight == Spec => LeavesOnlyByRight
<1>1. Typing /\ LeaveInv /\ [Next]_vars =>
        [\A m \in Profiles, q \in Procs :
            registry[m][q] # None /\ registry'[m][q] = None =>
                \/ pc[q] = "write" /\ op[q].kind \in {"release", "finish"}
                \/ q \notin alive
                \/ registry[m][q].ttl > 0 /\ now > registry[m][q].at + registry[m][q].ttl]_vars
  <2> SUFFICES ASSUME Typing, LeaveInv, Next, NEW m \in Profiles, NEW q \in Procs,
                      registry[m][q] # None, registry'[m][q] = None
               PROVE  \/ pc[q] = "write" /\ op[q].kind \in {"release", "finish"}
                      \/ q \notin alive
                      \/ /\ registry[m][q].ttl > 0
                         /\ now > registry[m][q].at + registry[m][q].ttl
    OBVIOUS
  <2>1. PICK p \in Procs : Write(p)
    BY DEF Next, Step, Call, Enter, Apply, Unlock, Unload, Return, Load, Abort, Die, Tick
  <2>2. pc[p] = "write" /\ draft[p][m][q] = None
    BY <2>1 DEF Write
  <2>3. QED
    BY <2>2 DEF LeaveInv, MayLeave
<1>2. QED
  BY <1>1, TypingInvariant, LeaveInvariant, PTL DEF Spec, LeavesOnlyByRight

\* The lock and the rename make every command one step of LeaseTable: no
\* session, whatever it calls and whenever it or others die or fail, can tell
\* the registry from a table on which commands are atomic.
THEOREM RegistryImplementsTable == Spec => ImplementsTable
<1> DEFINE Done == {p \in Procs : pc[p] = "unlock"}
           Granted == {p \in Procs : pc[p] = "unlock" /\ granted[p]}
<1>1. Init => Table!Init
  BY DEF Init, Table!Init, NoHolder
<1>2. ASSUME Typing, ResultInv, [Next]_vars PROVE [Table!Next]_(Table!vars)
  <2> USE <1>2 DEF Typing
  <2> SUFFICES ASSUME Next PROVE Table!Next \/ UNCHANGED Table!vars
    BY DEF vars, Table!vars
  <2>1. ASSUME NEW p \in Procs, NEW o \in Ops, Call(p, o) PROVE Table!Call(p, o)
    <3>1. op[p] = None
      BY <2>1 DEF Call, ResultInv
    <3>2. Done' = Done /\ Granted' = Granted
      BY <2>1 DEF TypeOK, Call
    <3>3. /\ o.kind = "acquire" => holds[p] \in {None, Table!TermsOf(o)}
          /\ o.kind \in {"renew", "release"} /\ holds[p] # None => holds[p].profile = o.profile
          /\ o.kind = "finish" => holds[p] # None /\ holds[p].profile = o.profile
      BY <2>1 DEF Call, TermsOf, Table!TermsOf
    <3>. QED BY <2>1, <3>1, <3>2, <3>3 DEF Call, Table!Call
  <2>2. ASSUME NEW p \in Procs, Enter(p) \/ Load(p) \/ Return(p) \/ Apply(p)
        PROVE  UNCHANGED Table!vars
    <3>1. Done' = Done /\ Granted' = Granted
      <4>1. CASE Apply(p)
        <5>1. \A q \in Procs : q # p => granted'[q] = granted[q]
          BY <4>1 DEF TypeOK, Apply, Acquire, Renew, Release, ReapLeases
        <5>. QED BY <4>1, <5>1 DEF TypeOK, Apply
      <4>. QED BY <2>2, <4>1 DEF TypeOK, Enter, Load, Return
    <3>. QED BY <2>2, <3>1 DEF Enter, Load, Return, Apply, Table!vars
  <2>3. ASSUME NEW p \in Procs, NEW m \in Profiles, Unload(p, m) PROVE UNCHANGED Table!vars
    BY <2>3 DEF Unload, Table!vars
  <2>4. ASSUME NEW p \in Procs, Write(p) PROVE Table!Effect(p)
    <3>1. op[p] # None /\ p \notin Done
      BY <2>4 DEF Write, CommandInv, Locked
    <3>2. PICK dead \in SUBSET (Procs \ alive) : IsResult(p, dead)
      BY <2>4 DEF Write, ResultInv
    <3>3. Table!Takes(p, Table!Pruned(dead, stamp[p]), registry', granted[p])
      BY <2>4, <3>2 DEF Write, IsResult
    <3>4. /\ Done' = Done \cup {p}
          /\ Granted' = IF granted[p] THEN Granted \cup {p} ELSE Granted
      BY <2>4 DEF TypeOK, Write
    <3>5. granted[p] \in BOOLEAN
      BY DEF TypeOK
    <3>6. UNCHANGED <<now, alive, op, stamp, holds>>
      BY <2>4 DEF Write
    <3> HIDE DEF Done, Granted
    <3>. QED BY <3>1, <3>2, <3>3, <3>4, <3>5, <3>6 DEF Table!Effect, Done, Granted
  <2>5. ASSUME NEW p \in Procs, Unlock(p) PROVE Table!Return(p)
    <3>1. p \in Done /\ (p \in Granted <=> granted[p])
      BY <2>5 DEF Unlock
    <3>2. Done' = Done \ {p} /\ Granted' = Granted \ {p}
      BY <2>5 DEF TypeOK, Unlock
    <3>. QED BY <2>5, <3>1, <3>2 DEF Unlock, TermsOf, Table!TermsOf, Table!Return, Table!Over
  <2>6. ASSUME NEW p \in Procs, Abort(p) PROVE Table!Fail(p) \/ UNCHANGED Table!vars
    <3>1. Done' = Done \ {p} /\ Granted' = Granted \ {p}
      BY <2>6 DEF TypeOK, Abort, Stopped
    <3>2. CASE op[p] = None
      <4>1. p \notin Done /\ p \notin Granted
        BY <2>6, <3>2 DEF CommandInv, Locked
      <4>2. pc[p] = "after"
        BY <2>6, <3>2 DEF TypeOK, CommandInv, Locked, Abort
      <4>3. stamp[p] = 0
        BY <4>2 DEF ResultInv
      <4>4. op' = op /\ stamp' = stamp
        BY <2>6, <3>2, <4>3 DEF TypeOK, Abort, Stopped
      <4>. QED BY <2>6, <3>1, <4>1, <4>4 DEF Abort, Table!vars
    <3>3. CASE op[p] # None
      BY <2>6, <3>1, <3>3 DEF Abort, Stopped, Table!Fail, Table!Over
    <3>. QED BY <3>2, <3>3
  <2>7. ASSUME NEW p \in Procs, Die(p) PROVE Table!Die(p)
    <3>1. Done' = Done \ {p} /\ Granted' = Granted \ {p}
      BY <2>7 DEF TypeOK, Die, Stopped
    <3>. QED BY <2>7, <3>1 DEF Die, Stopped, Table!Die, Table!Over
  <2>8. CASE Tick
    BY <2>8 DEF Tick, Table!Next, Table!Tick
  <2>. QED
    BY <2>1, <2>2, <2>3, <2>4, <2>5, <2>6, <2>7, <2>8 DEF Next, Step, Table!Next
<1>. QED
  BY <1>1, <1>2, TypingInvariant, ResultInvariant, PTL DEF Spec, ImplementsTable, Table!Spec

=============================================================================
