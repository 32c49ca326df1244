------------------------------ MODULE GraphDb ------------------------------
(***************************************************************************)
(* .tsift/graph.db: a projection of the indexed sources, markdown and      *)
(* summaries, stamped with the watermark of the sources it was built from. *)
(* Refreshes, imports, compaction and authored notes take graph.write.lock *)
(* around their writes; backend-eval and context packs do not. A snapshot  *)
(* import swaps another file in through a backup.                          *)
(*                                                                         *)
(* The content of a source is its version; nothing edits a source back to  *)
(* an earlier content. A database is what SQLite reads through graph.db    *)
(* and its write-ahead log. SQLite itself is external: a commit lands in   *)
(* the log of the file the connection opened, wherever that file is now,   *)
(* and the last connection to close merges the log and removes it unless   *)
(* the file has been moved.                                                *)
(***************************************************************************)
EXTENDS Naturals

CONSTANTS
    Procs,          \* the tsift processes
    Parts,          \* what a projection is built from: index, markdown, summaries
    MaxEdits,       \* bound: edits of each part
    MaxFaults,      \* bound: deaths, failing operations and lock timeouts
    None,
    Hash            \* a stamp that is the hash of the rows, not a watermark

Guarded   == {"refresh", "rebuild", "import", "note", "compact", "export"}
Unguarded == {"eval", "pack"}          \* they write without the lock
Kinds     == Guarded \cup Unguarded
Builders  == {"refresh", "rebuild", "eval"}
Versions  == [Parts -> Nat]
Databases == [rows : Versions, stamp : Versions \cup {None, Hash}]
Places    == {"none", "file", "backup", "gone"}
Phases    == {"idle", "pin", "read", "lock", "open", "commit", "close", "restamp", "check",
              "park", "install", "verify", "discard", "remove", "restore", "copy", "publish"}

ASSUME BoundsAssumption == MaxEdits \in Nat /\ MaxFaults \in Nat
ASSUME NoneAssumption ==
    None \notin Procs \cup Databases \cup Versions \cup Nat \cup Kinds
ASSUME HashAssumption == Hash \notin Versions \cup {None}

VARIABLES
    source,         \* the version of each part
    file,           \* graph.db
    backup,         \* graph.db.pre-snapshot-import-bak
    artifact,       \* the exported snapshot; None while nothing there can be imported
    wal,            \* graph.db-wal: the file it belongs to, and whether it holds commits
    parked,         \* ghost: databases an import moved away and has not yet superseded
    lock,           \* the holder of graph.write.lock
    faults,
    pc,
    kind,           \* the command a process runs
    mark,           \* the watermark it took
    rows,           \* the parts it has read
    staged,         \* the database an import or export stages
    conn            \* where the file its connection opened is now

disk == <<file, backup, artifact, wal, parked>>
work == <<kind, mark, rows, staged>>
vars == <<source, disk, lock, faults, pc, work, conn>>

-----------------------------------------------------------------------------
NoVersion == [i \in Parts |-> 0]
NoWal     == [of |-> "none", full |-> FALSE]
Empty     == [rows |-> NoVersion, stamp |-> None]
Unread    == [i \in Parts |-> None]

Init ==
    /\ source = NoVersion
    /\ file = None
    /\ backup = None
    /\ artifact \in {None, [rows |-> NoVersion, stamp |-> NoVersion]}
    /\ wal = NoWal
    /\ parked = {}
    /\ lock = None
    /\ faults = 0
    /\ pc = [p \in Procs |-> "idle"]
    /\ kind = [p \in Procs |-> None]
    /\ mark = [p \in Procs |-> None]
    /\ rows = [p \in Procs |-> Unread]
    /\ staged = [p \in Procs |-> None]
    /\ conn = [p \in Procs |-> "none"]

TypeOK ==
    /\ source \in [Parts -> 0 .. MaxEdits]
    /\ {file, backup, artifact} \subseteq Databases \cup {None}
    /\ wal \in [of : Places, full : BOOLEAN]
    /\ parked \subseteq Databases
    /\ lock \in Procs \cup {None}
    /\ faults \in 0 .. MaxFaults
    /\ pc \in [Procs -> Phases]
    /\ kind \in [Procs -> Kinds \cup {None}]
    /\ mark \in [Procs -> Versions \cup {None, Hash}]
    /\ rows \in [Procs -> [Parts -> Nat \cup {None}]]
    /\ staged \in [Procs -> Databases \cup {None}]
    /\ conn \in [Procs -> Places]

-----------------------------------------------------------------------------
\* Freshness of a stored projection: its watermark is the current one.
Fresh(db) == db # None /\ db.stamp = source

\* Variant of Reusable: the stored watermark is not compared.
ReusableWhenPresent(db) == db # None

\* Cached reuse: a refresh rebuilds nothing while the projection is fresh.
Reusable(db) == Fresh(db)

\* A phase ends and the next one begins.
To(p, phase) == pc' = [pc EXCEPT ![p] = phase]

\* The command returns: guards drop, the lock is released.
Quit(p) ==
    /\ To(p, "idle")
    /\ lock' = IF lock = p THEN None ELSE lock
    /\ kind' = [kind EXCEPT ![p] = None]
    /\ mark' = [mark EXCEPT ![p] = None]
    /\ rows' = [rows EXCEPT ![p] = Unread]
    /\ staged' = [staged EXCEPT ![p] = None]

\* One more operation fails.
Fault == faults < MaxFaults /\ faults' = faults + 1

\* rename or unlink: the file at one place, the connections that opened it
\* and the log that belongs to it.
Move(from, to) ==
    /\ conn' = [q \in Procs |-> IF conn[q] = from THEN to ELSE conn[q]]
    /\ wal' = IF wal.of = from THEN [wal EXCEPT !.of = to] ELSE wal

-----------------------------------------------------------------------------
\* A source changes: an edit, an index run or new summaries.
Edit(i) ==
    /\ source[i] < MaxEdits
    /\ source' = [source EXCEPT ![i] = @ + 1]
    /\ UNCHANGED <<disk, lock, faults, pc, work, conn>>

\* What each command checks first; one that stops here has changed nothing.
Proceeds(k) ==
    CASE k \in {"refresh", "eval"} -> ~Reusable(file)
      [] k = "import"  -> Fresh(artifact)
      [] k = "export"  -> Fresh(file)
      [] k = "compact" -> file # None
      [] OTHER         -> TRUE

First(k) ==
    CASE k \in {"refresh", "rebuild"}         -> "pin"
      [] k = "eval"                           -> "read"
      [] k \in {"import", "note", "compact"} -> "lock"
      [] k = "export"                         -> "copy"
      [] OTHER                                -> "open"

\* A command starts. backend-eval takes a watermark, an import decompresses
\* and validates the artifact.
Begin(p, k) ==
    /\ pc[p] = "idle"
    /\ Proceeds(k)
    /\ To(p, First(k))
    /\ kind' = [kind EXCEPT ![p] = k]
    /\ mark' = [mark EXCEPT ![p] = IF k = "eval" THEN source ELSE None]
    /\ staged' = [staged EXCEPT ![p] = IF k = "import" THEN artifact ELSE None]
    /\ UNCHANGED <<source, disk, lock, faults, rows, conn>>

-----------------------------------------------------------------------------
(***************************************************************************)
(* Building and storing a projection, and the smaller writes.              *)
(***************************************************************************)

\* write_traversal_graph_store_with_options pins the watermark before it reads;
\* without one, the rows will be stamped with their hash. Its parts are taken
\* at one instant: a part sampled earlier only makes the stamp older.
Pin(p) ==
    /\ pc[p] = "pin"
    /\ \/ mark' = [mark EXCEPT ![p] = source] /\ UNCHANGED faults
       \/ mark' = [mark EXCEPT ![p] = Hash] /\ Fault
    /\ To(p, "read")
    /\ UNCHANGED <<source, disk, lock, kind, rows, staged, conn>>

\* One source the watermark covers: index, markdown, summaries, imported packets.
\* What the projection takes from the raw files besides is no part of source.
Read(p, i) ==
    /\ pc[p] = "read"
    /\ rows[p][i] = None
    /\ rows' = [rows EXCEPT ![p][i] = source[i]]
    /\ UNCHANGED <<source, disk, lock, faults, pc, kind, mark, staged, conn>>

\* Variant of Build: the projection is lowered from what is read so far.
BuildEarly(p) ==
    /\ pc[p] = "read"
    /\ To(p, IF kind[p] = "eval" THEN "open" ELSE "lock")
    /\ UNCHANGED <<source, disk, lock, faults, work, conn>>

\* Everything is read and lowered into a projection.
Build(p) ==
    /\ pc[p] = "read"
    /\ \A i \in Parts : rows[p][i] # None
    /\ To(p, IF kind[p] = "eval" THEN "open" ELSE "lock")
    /\ UNCHANGED <<source, disk, lock, faults, work, conn>>

\* Variant of Acquire: the lock file is opened but not locked.
AcquireNothing(p) ==
    /\ pc[p] = "lock"
    /\ lock' = p
    /\ To(p, IF kind[p] = "import" THEN "check" ELSE "open")
    /\ UNCHANGED <<source, disk, faults, work, conn>>

\* try_lock_exclusive, polled; flock lets go when its holder dies.
Acquire(p) ==
    /\ pc[p] = "lock"
    /\ lock = None
    /\ lock' = p
    /\ To(p, IF kind[p] = "import" THEN "check" ELSE "open")
    /\ UNCHANGED <<source, disk, faults, work, conn>>

\* The lock timeout.
GiveUp(p) ==
    /\ pc[p] = "lock"
    /\ lock # None
    /\ Fault
    /\ Quit(p)
    /\ UNCHANGED <<source, disk, conn>>

\* SqliteGraphStore::open creates a missing database and its sidecars.
\* backend-eval takes the watermark it will store only now.
Open(p) ==
    /\ pc[p] = "open"
    /\ file' = IF file = None THEN Empty ELSE file
    /\ conn' = [conn EXCEPT ![p] = "file"]
    /\ wal' = IF wal.of = "none" THEN [of |-> "file", full |-> FALSE] ELSE wal
    /\ mark' = [mark EXCEPT ![p] = IF kind[p] = "eval" THEN source ELSE @]
    /\ To(p, "commit")
    /\ UNCHANGED <<source, backup, artifact, parked, lock, faults, kind, rows, staged>>

\* Variant of Committed: the watermark is taken when the rows are stored.
CommittedWithLaterMark(p, db) ==
    IF kind[p] \in Builders THEN [rows |-> rows[p], stamp |-> source] ELSE db

\* What p's commit makes of a database: a builder replaces rows and stamp in
\* one transaction; notes, packs and compaction touch neither.
Committed(p, db) ==
    IF kind[p] \in Builders THEN [rows |-> rows[p], stamp |-> mark[p]] ELSE db

Commit(p) ==
    /\ pc[p] = "commit"
    /\ file' = IF conn[p] = "file" THEN Committed(p, file) ELSE file
    /\ backup' = IF conn[p] = "backup" THEN Committed(p, backup) ELSE backup
    /\ wal' = [of |-> conn[p], full |-> TRUE]
    /\ To(p, "close")
    /\ UNCHANGED <<source, artifact, parked, lock, faults, work, conn>>

\* Checkpoint and close; the lock guard drops after the store. Another open
\* connection may keep the log from being truncated.
Close(p) ==
    /\ pc[p] = "close"
    /\ conn' = [conn EXCEPT ![p] = "none"]
    /\ wal' = IF conn[p] = "file" /\ \A q \in Procs \ {p} : conn[q] # "file" THEN NoWal ELSE wal
    /\ IF kind[p] = "eval" THEN To(p, "restamp") /\ UNCHANGED <<lock, work>> ELSE Quit(p)
    /\ UNCHANGED <<source, file, backup, artifact, parked, faults>>

\* graph_db_backend_eval_update_source_watermark: after the conflict matrix
\* is prepared, the current watermark replaces the stored one. No lock.
Restamp(p) ==
    /\ pc[p] = "restamp"
    /\ file' = IF file = None THEN Empty
               ELSE IF file.stamp = None THEN file
               ELSE [file EXCEPT !.stamp = source]
    /\ Quit(p)
    /\ UNCHANGED <<source, backup, artifact, wal, parked, faults, conn>>

-----------------------------------------------------------------------------
(***************************************************************************)
(* Snapshot import, from the lock on.                                      *)
(***************************************************************************)

\* Variants of MayPark: without the sidecar check, and without the backup check.
MayParkWithSidecars == backup = None
MayParkOverBackup   == wal.of = "none"

\* An existing database may be moved away: no sidecar, no earlier backup.
MayPark == wal.of = "none" /\ backup = None

Check(p) ==
    /\ pc[p] = "check"
    /\ \/ file = None /\ To(p, "install") /\ UNCHANGED <<lock, work>>
       \/ file # None /\ MayPark /\ To(p, "park") /\ UNCHANGED <<lock, work>>
       \/ file # None /\ Quit(p)       \* blocked, or --replace was not given
    /\ UNCHANGED <<source, disk, faults, conn>>

Park(p) ==
    /\ pc[p] = "park"
    /\ file' = None
    /\ backup' = file
    /\ parked' = parked \cup ({file} \ {None})
    /\ Move("file", "backup")
    /\ To(p, "install")
    /\ UNCHANGED <<source, artifact, lock, faults, work>>

Install(p) ==
    /\ pc[p] = "install"
    /\ file' = staged[p]
    /\ To(p, "verify")
    /\ UNCHANGED <<source, backup, artifact, wal, parked, lock, faults, work, conn>>

\* The post-install doctor and freshness checks. A database that passes
\* supersedes the one that was moved away.
Verify(p) ==
    /\ pc[p] = "verify"
    /\ \/ Fresh(file) /\ parked' = {} /\ To(p, "discard") /\ UNCHANGED faults
       \/ ~Fresh(file) /\ UNCHANGED <<parked, faults>> /\ To(p, "remove")
       \/ Fault /\ UNCHANGED parked /\ To(p, "remove")
    /\ UNCHANGED <<source, file, backup, artifact, wal, lock, work, conn>>

\* A backup that cannot be removed stays, and blocks the next import.
Discard(p) ==
    /\ pc[p] = "discard"
    /\ \/ backup' = None /\ Move("backup", "gone") /\ UNCHANGED faults
       \/ Fault /\ UNCHANGED <<backup, conn, wal>>
    /\ Quit(p)
    /\ UNCHANGED <<source, file, artifact, parked>>

Remove(p) ==
    /\ pc[p] = "remove"
    /\ file' = None
    /\ Move("file", "gone")
    /\ To(p, "restore")
    /\ UNCHANGED <<source, backup, artifact, parked, lock, faults, work>>

\* The backup, when there is one, becomes graph.db again.
Restore(p) ==
    /\ pc[p] = "restore"
    /\ file' = IF backup = None THEN file ELSE backup
    /\ backup' = None
    /\ parked' = parked \ {backup}
    /\ Move("backup", "file")
    /\ Quit(p)
    /\ UNCHANGED <<source, artifact, faults>>

\* The second rename fails and the backup is put back.
FailedInstall(p) ==
    /\ pc[p] = "install"
    /\ Fault
    /\ file' = IF backup = None THEN file ELSE backup
    /\ backup' = None
    /\ parked' = parked \ {backup}
    /\ Move("backup", "file")
    /\ Quit(p)
    /\ UNCHANGED <<source, artifact>>

-----------------------------------------------------------------------------
(***************************************************************************)
(* Snapshot export: VACUUM INTO a copy, check it, compress it.             *)
(***************************************************************************)

Copy(p) ==
    /\ pc[p] = "copy"
    /\ \/ file # None /\ staged' = [staged EXCEPT ![p] = file] /\ To(p, "publish")
          /\ UNCHANGED <<lock, kind, mark, rows>>
       \/ file = None /\ Quit(p)
    /\ UNCHANGED <<source, disk, faults, conn>>

\* The artifact is truncated and written in place: one that another exporter
\* writes meanwhile, or that is not forced over an older one, is not readable
\* or not written.
Publish(p) ==
    /\ pc[p] = "publish"
    /\ artifact' \in IF Fresh(staged[p]) THEN {staged[p], None, artifact} ELSE {artifact}
    /\ Quit(p)
    /\ UNCHANGED <<source, file, backup, wal, parked, faults, conn>>

-----------------------------------------------------------------------------
\* The process dies: the system releases its lock and closes its files, the
\* log stays. A dying exporter may leave half an artifact.
Die(p) ==
    /\ pc[p] # "idle"
    /\ Fault
    /\ Quit(p)
    /\ conn' = [conn EXCEPT ![p] = "none"]
    /\ artifact' \in IF pc[p] = "publish" THEN {artifact, None} ELSE {artifact}
    /\ UNCHANGED <<source, file, backup, wal, parked>>

\* An operation fails where nothing has to be put back; an open connection
\* closes as usual.
Fail(p) ==
    /\ pc[p] \in {"pin", "read", "open", "commit", "restamp", "check", "park", "copy"}
    /\ Fault
    /\ Quit(p)
    /\ conn' = [conn EXCEPT ![p] = "none"]
    /\ wal' = IF conn[p] = "file" /\ \A q \in Procs \ {p} : conn[q] # "file" THEN NoWal ELSE wal
    /\ UNCHANGED <<source, file, backup, artifact, parked>>

\* What a process does once its command has started, when nothing fails.
Project(p)  == Pin(p) \/ (\E i \in Parts : Read(p, i)) \/ Build(p)
Store(p)    == Acquire(p) \/ Open(p) \/ Commit(p) \/ Close(p)
Import(p)   == Check(p) \/ Park(p) \/ Install(p) \/ Verify(p) \/ Discard(p) \/ Remove(p) \/ Restore(p)
Export(p)   == Copy(p) \/ Publish(p)
Continue(p) == Project(p) \/ Store(p) \/ Import(p) \/ Export(p)

Next ==
    \/ \E i \in Parts : Edit(i)
    \/ \E p \in Procs :
        \/ \E k \in Guarded : Begin(p, k)
        \/ Continue(p)
        \/ GiveUp(p) \/ FailedInstall(p) \/ Die(p) \/ Fail(p)

Spec == Init /\ [][Next]_vars

\* With the commands that write without the lock as well.
UnguardedSpec ==
    Init /\ [][Next \/ \E p \in Procs : Restamp(p) \/ \E k \in Unguarded : Begin(p, k)]_vars

\* A started command goes on, a process that polls a lock which comes free
\* again and again gets it, and readers refused a stale graph refresh it.
Fairness ==
    \A p \in Procs :
        /\ WF_vars(Continue(p))
        /\ SF_vars(Acquire(p))
        /\ SF_vars(Begin(p, "refresh"))

FairSpec == Spec /\ Fairness

-----------------------------------------------------------------------------
(***************************************************************************)
(* Properties.                                                             *)
(***************************************************************************)

\* A projection whose stamp is the current watermark holds exactly the current
\* state of the sources the watermark covers, wherever it is: what status,
\* cached reuse, export and import take freshness to mean. An edit during a
\* refresh makes it stale.
StaleIsNeverBlessed ==
    \A db \in {file, backup, artifact} : Fresh(db) => db.rows = source

\* A log that holds commits belongs to the database it lies beside; SQLite
\* would replay it into any other. Left by a dead writer, it blocks imports.
WalBelongsToItsDatabase == wal.full => wal.of = "file"

\* No writer commits into a file that an import has moved away.
CommitsLand == \A p \in Procs : conn[p] \in {"none", "file"}

\* A database that an import moved away exists, as graph.db or as its
\* backup, until a replacement has passed the checks made after install:
\* across failures, deaths, later imports and later refreshes.
ReplacedDatabaseSurvives == parked \subseteq {file, backup}

\* What the import that holds the lock does next, while it exchanges graph.db.
Exchange ==
    IF lock \in Procs /\ pc[lock] \in {"install", "verify", "discard", "remove", "restore"}
    THEN pc[lock] ELSE "none"

Shared == INSTANCE SharedGraph WITH
    graph <- file, aside <- backup, snapshot <- artifact, exchange <- Exchange

\* Readers of graph.db meet whole projections only, and an import exchanges the
\* database alone, accepts nothing but the current projection and otherwise
\* puts back what it set aside (graph_db_snapshot_import, the write lock).
ImplementsSharedGraph == Shared!Spec

\* Once the sources rest and failures stop, graph.db becomes and stays fresh,
\* but for the moments an import exchanges it.
EventuallyFresh ==
    <>[](Fresh(file) \/ \E p \in Procs : pc[p] \in {"install", "restore"})

=============================================================================
