----------------------------- MODULE SharedGraph -----------------------------
(***************************************************************************)
(* What the commands that take graph.write.lock promise those who read     *)
(* .tsift/graph.db (tsift-cli): readers meet whole projections only, each  *)
(* of sources no older than its stamp says. A refresh replaces one by      *)
(* another in a single step. An import exchanges the database alone: it    *)
(* ends with the current projection accepted or with the database it set   *)
(* aside put back, unless it dies on the way.                              *)
(***************************************************************************)
EXTENDS Naturals

CONSTANTS Parts, None, Hash

VARIABLES
    source,         \* the version of each part a projection is built from
    graph,          \* graph.db
    aside,          \* the database an import has set aside
    snapshot,       \* the exported snapshot
    exchange        \* what the import that exchanges graph.db does next

vars == <<source, graph, aside, snapshot, exchange>>

Versions  == [Parts -> Nat]
Databases == [rows : Versions, stamp : Versions \cup {None, Hash}]
Unbuilt   == [rows |-> [i \in Parts |-> 0], stamp |-> None]

\* The projection of the present sources.
Current == [rows |-> source, stamp |-> source]

Init ==
    /\ source = [i \in Parts |-> 0]
    /\ graph = None /\ aside = None
    /\ snapshot \in {None, Current}
    /\ exchange = "none"

-----------------------------------------------------------------------------
Before(v, w) == \A i \in Parts : v[i] <= w[i]

\* Built from sources that are not in the future, and stamped with a watermark
\* no later than any of them, or with their hash.
Whole(db) ==
    /\ db \in Databases
    /\ Before(db.rows, source)
    /\ db.stamp = Hash \/ (db.stamp \in Versions /\ Before(db.stamp, db.rows))

Edit(i) ==
    /\ source' = [source EXCEPT ![i] = @ + 1]
    /\ UNCHANGED <<graph, aside, snapshot, exchange>>

Create ==
    /\ exchange = "none" /\ graph = None /\ graph' = Unbuilt
    /\ UNCHANGED <<source, aside, snapshot, exchange>>

Store ==
    /\ exchange = "none" /\ graph # None /\ Whole(graph')
    /\ UNCHANGED <<source, aside, snapshot, exchange>>

\* An export overwrites the snapshot, and may leave half of one.
Export ==
    /\ snapshot' \in {None, Current}
    /\ UNCHANGED <<source, graph, aside, exchange>>

-----------------------------------------------------------------------------
\* What is set aside never replaces something set aside earlier.
SetAside ==
    /\ exchange = "none" /\ exchange' = "install"
    /\ graph # None => aside = None
    /\ graph' = None /\ aside' = IF graph = None THEN aside ELSE graph
    /\ UNCHANGED <<source, snapshot>>

\* The imported database was a snapshot of the sources as they once were.
Install ==
    /\ exchange = "install" /\ exchange' = "verify"
    /\ Whole(graph') /\ graph'.stamp = graph'.rows
    /\ UNCHANGED <<source, aside, snapshot>>

Accept ==
    /\ exchange = "verify" /\ exchange' = "discard"
    /\ graph = Current
    /\ UNCHANGED <<source, graph, aside, snapshot>>

Reject ==
    /\ exchange = "verify" /\ exchange' = "remove"
    /\ UNCHANGED <<source, graph, aside, snapshot>>

Discard ==
    /\ exchange = "discard" /\ exchange' = "none"
    /\ aside' \in {None, aside}
    /\ UNCHANGED <<source, graph, snapshot>>

Remove ==
    /\ exchange = "remove" /\ exchange' = "restore"
    /\ graph' = None
    /\ UNCHANGED <<source, aside, snapshot>>

Restore ==
    /\ exchange \in {"install", "restore"} /\ exchange' = "none"
    /\ graph' = aside /\ aside' = None
    /\ UNCHANGED <<source, snapshot>>

\* The import dies.
Abandon ==
    /\ exchange # "none" /\ exchange' = "none"
    /\ UNCHANGED <<source, graph, aside, snapshot>>

Next ==
    \/ \E i \in Parts : Edit(i)
    \/ Create \/ Store \/ Export
    \/ SetAside \/ Install \/ Accept \/ Reject \/ Discard \/ Remove \/ Restore \/ Abandon

Spec == Init /\ [][Next]_vars
=============================================================================
