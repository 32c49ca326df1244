----------------------------- MODULE LeaseTable -----------------------------
(***************************************************************************)
(* What the GPU lease registry promises the sessions that use it           *)
(* (tsift-local-model, local-kg-model.md): one table of leases on which    *)
(* every command takes effect at a single instant between its call and its *)
(* return, whatever other commands, deaths and failures happen meanwhile.  *)
(* A command first drops the leases that had expired when it was called    *)
(* and those of the dead sessions it noticed.                              *)
(***************************************************************************)
EXTENDS Naturals

CONSTANTS Procs, Profiles, Exclusive, Commands, None

VARIABLES
    now,            \* the clock
    alive,          \* the sessions that have not died
    table,          \* for each profile, each session's lease
    op,             \* the command each session is waiting for
    stamp,          \* the time it was called
    done,           \* the sessions whose command has taken effect
    granted,        \* those among them that were granted a lease
    holds           \* the lease each session believes it has

vars == <<now, alive, table, op, stamp, done, granted, holds>>

Init ==
    /\ now = 0 /\ alive = Procs
    /\ table = [m \in Profiles |-> [q \in Procs |-> None]]
    /\ op = [p \in Procs |-> None] /\ stamp = [p \in Procs |-> 0]
    /\ done = {} /\ granted = {}
    /\ holds = [p \in Procs |-> None]

-----------------------------------------------------------------------------
Expired(lease, t) == lease.ttl > 0 /\ t > lease.at + lease.ttl

Pruned(dead, t) ==
    [m \in Profiles |-> [q \in Procs |->
        IF table[m][q] # None /\ (q \in dead \/ Expired(table[m][q], t))
        THEN None ELSE table[m][q]]]

With(tab, m, p, lease) == [tab EXCEPT ![m] = [@ EXCEPT ![p] = lease]]

\* One's own lease can be taken again, an exclusive profile's by nobody else.
Free(tab, m, p) ==
    \/ tab[m][p] # None
    \/ m \notin Exclusive
    \/ \A q \in Procs : tab[m][q] = None

\* p's command turns the pruned table into new, and grants a lease if yes.
Takes(p, pruned, new, yes) ==
    LET m == op[p].profile
        t == stamp[p]
    IN \/ /\ op[p].kind = "acquire" /\ Free(pruned, m, p) /\ yes
          /\ new = With(pruned, m, p, [at |-> t, ttl |-> op[p].ttl])
       \/ op[p].kind = "acquire" /\ ~Free(pruned, m, p) /\ ~yes /\ new = pruned
       \/ /\ op[p].kind = "renew" /\ pruned[m][p] # None /\ ~yes
          /\ new = With(pruned, m, p, [pruned[m][p] EXCEPT !.at = t])
       \/ op[p].kind = "renew" /\ pruned[m][p] = None /\ ~yes /\ new = pruned
       \/ op[p].kind \in {"release", "finish"} /\ ~yes /\ new = With(pruned, m, p, None)
       \/ op[p].kind = "reap" /\ ~yes /\ new = pruned

-----------------------------------------------------------------------------
TermsOf(o) == [profile |-> o.profile, ttl |-> o.ttl]

\* A session asks again only on the terms it has, and stops using the lease it
\* gives back there and then.
Call(p, o) ==
    /\ p \in alive /\ op[p] = None
    /\ o.kind = "acquire" => holds[p] \in {None, TermsOf(o)}
    /\ o.kind \in {"renew", "release"} /\ holds[p] # None => holds[p].profile = o.profile
    /\ o.kind = "finish" => holds[p] # None /\ holds[p].profile = o.profile
    /\ op' = [op EXCEPT ![p] = o]
    /\ stamp' = [stamp EXCEPT ![p] = now]
    /\ holds' = IF o.kind \in {"release", "finish"} THEN [holds EXCEPT ![p] = None] ELSE holds
    /\ UNCHANGED <<now, alive, table, done, granted>>

\* The instant a command takes effect, once.
Effect(p) ==
    /\ op[p] # None /\ p \notin done
    /\ \E dead \in SUBSET (Procs \ alive), yes \in BOOLEAN :
         /\ Takes(p, Pruned(dead, stamp[p]), table', yes)
         /\ granted' = IF yes THEN granted \cup {p} ELSE granted
    /\ done' = done \cup {p}
    /\ UNCHANGED <<now, alive, op, stamp, holds>>

\* What is forgotten of p's command when it is over.
Over(p) ==
    /\ op' = [op EXCEPT ![p] = None]
    /\ stamp' = [stamp EXCEPT ![p] = 0]
    /\ done' = done \ {p}
    /\ granted' = granted \ {p}

Return(p) ==
    /\ p \in done
    /\ holds' = [holds EXCEPT ![p] =
           IF op[p].kind # "acquire" THEN @
           ELSE IF p \in granted THEN TermsOf(op[p]) ELSE None]
    /\ Over(p)
    /\ UNCHANGED <<now, alive, table>>

\* A command may fail before or after its effect; nobody is told which.
Fail(p) ==
    /\ p \in alive /\ op[p] # None
    /\ Over(p)
    /\ UNCHANGED <<now, alive, table, holds>>

Die(p) ==
    /\ p \in alive
    /\ alive' = alive \ {p}
    /\ Over(p)
    /\ holds' = [holds EXCEPT ![p] = None]
    /\ UNCHANGED <<now, table>>

Tick == now' = now + 1 /\ UNCHANGED <<alive, table, op, stamp, done, granted, holds>>

Next ==
    \/ \E p \in Procs :
        \/ \E o \in Commands : Call(p, o)
        \/ Effect(p) \/ Return(p) \/ Fail(p) \/ Die(p)
    \/ Tick

Spec == Init /\ [][Next]_vars
=============================================================================
