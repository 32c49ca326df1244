--------------------------- MODULE CommittedIndex ---------------------------
(***************************************************************************)
(* What the readers of .tsift/index.db are promised (tsift-index): they    *)
(* see the committed index only, which one run at a time replaces.  An     *)
(* apply brings it in line with what its walk found, at most a chunk of    *)
(* files at a time; a rebuild does so all at once or not at all.  No entry *)
(* is ever replaced by one of older contents.                              *)
(***************************************************************************)
EXTENDS Naturals, FiniteSets

CONSTANTS Writers, Files, Languages, NoLanguage, Entries, Versions, ChunkFiles, None

VARIABLES
    marker,         \* for each file, its file_state row
    rows,           \* for each file, what its symbols and edges come from
    run,            \* what the run in progress is about to make of the index
    succeeded       \* the writers whose last run reported success

vars == <<marker, rows, run, succeeded>>

\* A run is an apply or a rebuild, and knows the language of every file its
\* walk found and the version of its extractor.
Runs == [kind : {"apply", "rebuild"}, found : [Files -> Languages \cup {NoLanguage}],
         version : Versions]

Init ==
    /\ marker = [f \in Files |-> None]
    /\ rows = [f \in Files |-> None]
    /\ run = None /\ succeeded = {}

-----------------------------------------------------------------------------
\* The next index forgets f when the run did not find it. Otherwise it tracks
\* f as found, at the run's version and at contents no older than before, and
\* what is stored of f was extracted by the same version from these contents
\* or from later ones.
Settled(f) ==
    IF run.found[f] = NoLanguage
    THEN marker'[f] = None /\ rows'[f] = None
    ELSE /\ marker'[f] \in Entries
         /\ marker'[f].lang = run.found[f] /\ marker'[f].version = run.version
         /\ marker[f] # None => marker[f].mtime <= marker'[f].mtime
         /\ rows'[f] # None =>
              rows'[f].version = run.version /\ marker'[f].mtime <= rows'[f].mtime

\* The files whose entries a step changes.
Changed == {f \in Files : marker'[f] # marker[f] \/ rows'[f] # rows[f]}

BelowAChunk == IsFiniteSet(Changed) /\ Cardinality(Changed) <= ChunkFiles

Tables == [Files -> Entries \cup {None}]

\* A writer asks again, or dies after its success.
Again(p) ==
    /\ p \in succeeded /\ succeeded' = succeeded \ {p}
    /\ UNCHANGED <<marker, rows, run>>

Start ==
    /\ run = None /\ run' \in Runs
    /\ UNCHANGED <<marker, rows, succeeded>>

\* An apply commits a chunk of its changes.
Chunk ==
    /\ run # None /\ run.kind = "apply"
    /\ marker' \in Tables /\ rows' \in Tables
    /\ \A f \in Changed : Settled(f)
    /\ BelowAChunk
    /\ UNCHANGED <<run, succeeded>>

\* p's run succeeds: every file is as its walk found it.
Complete(p) ==
    /\ run # None /\ run' = None
    /\ succeeded' = succeeded \cup {p}
    /\ marker' \in Tables /\ rows' \in Tables
    /\ \A f \in Files : Settled(f)
    /\ run.kind = "apply" => BelowAChunk

\* A run fails or is killed.
Abandon ==
    /\ run # None /\ run' = None
    /\ UNCHANGED <<marker, rows, succeeded>>

Next ==
    \/ \E p \in Writers : Again(p) \/ Complete(p)
    \/ Start \/ Chunk \/ Abandon

Spec == Init /\ [][Next]_vars
=============================================================================
