----------------------------- MODULE IndexApply -----------------------------
(***************************************************************************)
(* The writer of .tsift/index.db: how a `tsift index` process takes the    *)
(* writer lock, walks the tree, diffs it against file_state, re-extracts   *)
(* every changed file and commits in chunks, while editors keep writing    *)
(* files, the [languages] configuration is edited, newer tsift binaries    *)
(* are installed, `tsift status` probes the lock, and processes die.       *)
(*                                                                         *)
(* The files' contents are abstracted to the modification time that        *)
(* identifies them (every write gets a fresh one, see Write), a file's     *)
(* symbol, zone-map, full-text, call-edge and route rows to one record     *)
(* saying which contents, language and extractor produced them.            *)
(***************************************************************************)
EXTENDS Naturals, FiniteSets

CONSTANTS
    Writers,        \* processes running `tsift index` or an autoindex
    Probers,        \* processes running `tsift status`
    Files,          \* source files under the root
    Languages,      \* languages a [languages] section can map the files to
    NoLanguage,     \* the files' extension is claimed by no language
    ChunkFiles,     \* INDEX_APPLY_COMMIT_CHUNK_FILES
    MaxWrites,      \* bound: writes to files, edits of [languages] and upgrades
    MaxVersion,     \* bound: extractor upgrades
    MaxFaults,      \* bound: failed statements, crashes and permission changes
    ReadFaults,     \* may a file be unreadable for a while?
    RacyConfig,     \* may [languages] change while a run reads it?
    None            \* no process, no file, no row

ASSUME ProcessesAssumption == Writers \cap Probers = {}
ASSUME LanguagesAssumption == NoLanguage \notin Languages
ASSUME ChunkAssumption == ChunkFiles \in Nat \ {0}
ASSUME BoundsAssumption == MaxWrites \in Nat /\ MaxVersion \in Nat /\ MaxFaults \in Nat
ASSUME FaultsAssumption == ReadFaults \in BOOLEAN /\ RacyConfig \in BOOLEAN

VARIABLES
    \* the world the index describes
    present,        \* the files that exist
    mtime,          \* the time of each file's last write; 0 before the first
    readable,       \* the files whose contents can be read
    config,         \* what [languages] maps the files to now
    version,        \* the extractor version of the installed binary
    clock,          \* time of the latest write, edit of [languages] or upgrade
    \* the database
    marker,         \* committed file_state rows
    rows,           \* committed symbols, zonemap, fts, edges and routes
    txMarker,       \* file_state as the open transaction sees it
    txRows,         \* the other tables as the open transaction sees them
    \* the lock file
    lock,           \* the process holding the advisory lock
    lockPid,        \* the pid written in it
    \* the processes
    pc,             \* what each writer does next
    outcome,        \* "ok" once its last run has reported success
    mode,           \* "apply" or "rebuild"
    binary,         \* the extractor version compiled into it
    langs,          \* the LanguageMap loaded by apply_changes_inner
    found,          \* path and language of the walk's entries
    todo,           \* changes not applied yet
    cur,            \* the change being applied
    stamp,          \* the mtime its stat returned
    applied,        \* applied_since_commit
    faults          \* what MaxFaults bounds, so far

world   == <<present, mtime, readable, config, version, clock>>
store   == <<marker, rows, txMarker, txRows>>
lockVars == <<lock, lockPid>>
plan    == <<mode, binary, langs, found>>
loop    == <<todo, cur, stamp, applied>>
vars    == <<world, store, lockVars, pc, outcome, plan, loop, faults>>

-----------------------------------------------------------------------------
Times    == 0 .. MaxWrites
Versions == 0 .. MaxVersion
Mapping  == Languages \cup {NoLanguage}

\* A file_state row, or what produced a file's rows in the other tables.
Rows   == [mtime : Times, lang : Languages, version : Versions]
NoRows == [f \in Files |-> None]

ASSUME NoneAssumption == None \notin Writers \cup Probers \cup Files \cup Rows

\* Between the first savepoint and its release or rollback.
InTransaction == {"config", "walk", "next", "read", "mark"}
Critical      == {"pid", "clear", "unlock"} \cup InTransaction
Outside       == {"idle", "started"}

TypeOK ==
    /\ present \subseteq Files
    /\ mtime \in [Files -> Times]
    /\ readable \subseteq Files
    /\ config \in Mapping
    /\ version \in Versions
    /\ clock \in Times
    /\ marker \in [Files -> Rows \cup {None}]
    /\ rows \in [Files -> Rows \cup {None}]
    /\ txMarker \in [Files -> Rows \cup {None}]
    /\ txRows \in [Files -> Rows \cup {None}]
    /\ lock \in Writers \cup Probers \cup {None}
    /\ lockPid \in Writers \cup {None}
    /\ pc \in [Writers -> Critical \cup Outside]
    /\ outcome \in [Writers -> {"none", "ok"}]
    /\ mode \in [Writers -> {"apply", "rebuild"}]
    /\ binary \in [Writers -> Versions]
    /\ langs \in [Writers -> Mapping]
    /\ found \in [Writers -> [Files -> Mapping]]
    /\ todo \in [Writers -> SUBSET Files]
    /\ cur \in [Writers -> Files \cup {None}]
    /\ stamp \in [Writers -> Times]
    /\ applied \in [Writers -> 0 .. ChunkFiles]
    /\ faults \in 0 .. MaxFaults

Init ==
    /\ present \in SUBSET Files
    /\ mtime = [f \in Files |-> 0]
    /\ readable = Files
    /\ config \in Mapping
    /\ version = 0
    /\ clock = 0
    /\ marker = NoRows /\ rows = NoRows
    /\ txMarker = NoRows /\ txRows = NoRows
    /\ lock = None /\ lockPid = None
    /\ pc = [p \in Writers |-> "idle"]
    /\ outcome = [p \in Writers |-> "none"]
    /\ mode = [p \in Writers |-> "apply"]
    /\ binary = [p \in Writers |-> 0]
    /\ langs = [p \in Writers |-> NoLanguage]
    /\ found = [p \in Writers |-> [f \in Files |-> NoLanguage]]
    /\ todo = [p \in Writers |-> {}]
    /\ cur = [p \in Writers |-> None]
    /\ stamp = [p \in Writers |-> 0]
    /\ applied = [p \in Writers |-> 0]
    /\ faults = 0

-----------------------------------------------------------------------------
(***************************************************************************)
(* The world.                                                              *)
(***************************************************************************)

\* An editor writes or creates f. Two writes never share a modification time:
\* the model leaves out writes within one tick of the filesystem clock.
Write(f) ==
    /\ clock < MaxWrites
    /\ clock' = clock + 1
    /\ mtime' = [mtime EXCEPT ![f] = clock + 1]
    /\ present' = present \cup {f}
    /\ UNCHANGED <<readable, config, version, store, lockVars, pc, outcome,
                   plan, loop, faults>>

Delete(f) ==
    /\ f \in present
    /\ present' = present \ {f}
    /\ UNCHANGED <<mtime, readable, config, version, clock, store, lockVars, pc,
                   outcome, plan, loop, faults>>

\* chmod moves no modification time.
Hide(f) ==
    /\ ReadFaults /\ faults < MaxFaults
    /\ f \in readable
    /\ readable' = readable \ {f}
    /\ faults' = faults + 1
    /\ UNCHANGED <<present, mtime, config, version, clock, store, lockVars, pc,
                   outcome, plan, loop>>

Reveal(f) ==
    /\ f \notin readable
    /\ readable' = readable \cup {f}
    /\ UNCHANGED <<present, mtime, config, version, clock, store, lockVars, pc,
                   outcome, plan, loop, faults>>

\* Someone edits [languages]. The map is loaded twice by a run, before the walk
\* and by the walk itself; unless RacyConfig, no edit falls between the two.
Reconfigure(m) ==
    /\ clock < MaxWrites
    /\ m # config
    /\ RacyConfig \/ \A p \in Writers : pc[p] # "walk"
    /\ config' = m
    /\ clock' = clock + 1
    /\ UNCHANGED <<present, mtime, readable, version, store, lockVars, pc,
                   outcome, plan, loop, faults>>

\* A binary with a newer extractor is installed; running processes keep theirs.
Upgrade ==
    /\ version < MaxVersion /\ clock < MaxWrites
    /\ version' = version + 1
    /\ clock' = clock + 1
    /\ UNCHANGED <<present, mtime, readable, config, store, lockVars, pc,
                   outcome, plan, loop, faults>>

-----------------------------------------------------------------------------
(***************************************************************************)
(* The lock file.                                                          *)
(***************************************************************************)

\* A tsift process starts; the extractor it will write with is compiled into
\* it, so an older one may still get the lock after a newer one has run.
Start(p) ==
    /\ pc[p] = "idle"
    /\ pc' = [pc EXCEPT ![p] = "started"]
    /\ outcome' = [outcome EXCEPT ![p] = "none"]
    /\ binary' = [binary EXCEPT ![p] = version]
    /\ UNCHANGED <<world, store, lockVars, mode, langs, found, loop, faults>>

\* try_lock_exclusive succeeds.
TryLock(p) ==
    /\ pc[p] = "started"
    /\ lock = None
    /\ lock' = p
    /\ pc' = [pc EXCEPT ![p] = "pid"]
    /\ UNCHANGED <<world, store, lockPid, outcome, plan, loop, faults>>

\* What a process knows disappears with it.
Forget(p) ==
    /\ mode' = [mode EXCEPT ![p] = "apply"]
    /\ binary' = [binary EXCEPT ![p] = 0]
    /\ langs' = [langs EXCEPT ![p] = NoLanguage]
    /\ found' = [found EXCEPT ![p] = [f \in Files |-> NoLanguage]]
    /\ todo' = [todo EXCEPT ![p] = {}]
    /\ cur' = [cur EXCEPT ![p] = None]
    /\ stamp' = [stamp EXCEPT ![p] = 0]
    /\ applied' = [applied EXCEPT ![p] = 0]

\* try_lock_exclusive reports contention: "another tsift index writer is
\* already active", and the process exits.
Busy(p) ==
    /\ pc[p] = "started"
    /\ lock # None
    /\ pc' = [pc EXCEPT ![p] = "idle"]
    /\ Forget(p)
    /\ UNCHANGED <<world, store, lockVars, outcome, faults>>

WritePid(p) ==
    /\ pc[p] = "pid"
    /\ lockPid' = p
    /\ pc' = [pc EXCEPT ![p] = "config"]
    /\ UNCHANGED <<world, store, lock, outcome, plan, loop, faults>>

\* A process's handle on the lock file is closed, or unlocked: this frees the
\* lock if it is the process's own.
Released(p) == lock' = IF lock = p THEN None ELSE lock

\* write_lock_pid fails half way: no guard exists yet, so closing the file
\* drops the lock and leaves whatever the file then holds.
PidFails(p) ==
    /\ pc[p] = "pid"
    /\ faults < MaxFaults
    /\ faults' = faults + 1
    /\ lockPid' \in {lockPid, None, p}
    /\ Released(p)
    /\ pc' = [pc EXCEPT ![p] = "idle"]
    /\ Forget(p)
    /\ UNCHANGED <<world, store, outcome>>

\* probe_writer_lock holds the lock while it reads the pid.
Probe(s) ==
    /\ lock = None
    /\ lock' = s
    /\ UNCHANGED <<world, store, lockPid, pc, outcome, plan, loop, faults>>

EndProbe(s) ==
    /\ lock = s
    /\ lock' = None
    /\ UNCHANGED <<world, store, lockPid, pc, outcome, plan, loop, faults>>

\* WriteLockGuard::drop clears the pid while it still holds the lock. (It
\* ignores an error of this; then the pid stays, as after a crash.)
ClearPid(p) ==
    /\ pc[p] = "clear"
    /\ lockPid' = None
    /\ pc' = [pc EXCEPT ![p] = "unlock"]
    /\ UNCHANGED <<world, store, lock, outcome, plan, loop, faults>>

Unlock(p) ==
    /\ pc[p] = "unlock"
    /\ Released(p)
    /\ pc' = [pc EXCEPT ![p] = "idle"]
    /\ Forget(p)
    /\ UNCHANGED <<world, store, lockPid, outcome, faults>>

\* Variant of DropGuard: the lock is given back first, and the pid cleared then
\* may be the next writer's.
DropGuardUnlockFirst(p) ==
    \/ /\ pc[p] = "clear"
       /\ Released(p)
       /\ pc' = [pc EXCEPT ![p] = "unlock"]
       /\ UNCHANGED <<world, store, lockPid, outcome, plan, loop, faults>>
    \/ /\ pc[p] = "unlock"
       /\ lockPid' = None
       /\ pc' = [pc EXCEPT ![p] = "idle"]
       /\ Forget(p)
       /\ UNCHANGED <<world, store, lock, outcome, faults>>

\* WriteLockGuard::drop, in its order.
DropGuard(p) == ClearPid(p) \/ Unlock(p)

-----------------------------------------------------------------------------
(***************************************************************************)
(* One run of apply_changes_inner, or of rebuild_excluding around it.      *)
(***************************************************************************)

\* Open the savepoint; a rebuild clears every table inside it; load the
\* LanguageMap and, from the transaction, the stored files.
Begin(p, m) ==
    /\ pc[p] = "config"
    /\ mode' = [mode EXCEPT ![p] = m]
    /\ langs' = [langs EXCEPT ![p] = config]
    /\ txMarker' = IF m = "rebuild" THEN NoRows ELSE marker
    /\ txRows' = IF m = "rebuild" THEN NoRows ELSE rows
    /\ pc' = [pc EXCEPT ![p] = "walk"]
    /\ UNCHANGED <<world, marker, rows, lockVars, outcome, binary, found, loop, faults>>

\* Variant of IsUnchanged: rows of an older extractor count as current.
IsUnchangedAnyVersion(f, row, lang, v) ==
    row # None /\ row.mtime = mtime[f] /\ row.lang = lang

\* diff_entries skips a file whose file_state row has this mtime, language
\* and extractor version.
IsUnchanged(f, row, lang, v) ==
    row = [mtime |-> mtime[f], lang |-> lang, version |-> v]

\* Variant of Walk: stored files missing from the walk are not turned into
\* deletions.
WalkForgetsDeletions(p) ==
    /\ pc[p] = "walk"
    /\ LET walked == IF config = NoLanguage THEN {} ELSE present
       IN /\ found' = [found EXCEPT ![p] = [f \in Files |->
                            IF f \in walked THEN config ELSE NoLanguage]]
          /\ todo' = [todo EXCEPT ![p] =
                {f \in walked : ~IsUnchanged(f, txMarker[f], config, binary[p])}]
    /\ pc' = [pc EXCEPT ![p] = "next"]
    /\ UNCHANGED <<world, store, lockVars, outcome, mode, binary, langs, cur, stamp,
                   applied, faults>>

\* The walk loads the LanguageMap again, drops the files it does not claim,
\* and the diff turns the rest into changes.
Walk(p) ==
    /\ pc[p] = "walk"
    /\ LET walked == IF config = NoLanguage THEN {} ELSE present
           fresh  == {f \in walked : ~IsUnchanged(f, txMarker[f], config, binary[p])}
           gone   == {f \in Files \ walked : txMarker[f] # None}
       IN /\ found' = [found EXCEPT ![p] = [f \in Files |->
                            IF f \in walked THEN config ELSE NoLanguage]]
          /\ todo' = [todo EXCEPT ![p] = fresh \cup gone]
    /\ pc' = [pc EXCEPT ![p] = "next"]
    /\ UNCHANGED <<world, store, lockVars, outcome, mode, binary, langs, cur, stamp,
                   applied, faults>>

\* Variant of Release: a rebuild's chunks commit too.
ReleaseAlways(p) == marker' = txMarker' /\ rows' = txRows'

\* RELEASE sp_apply commits when it is the outermost savepoint, and only then.
Release(p) ==
    IF mode[p] = "apply"
    THEN marker' = txMarker' /\ rows' = txRows'
    ELSE UNCHANGED <<marker, rows>>

\* Variant of EndOfChange: the counter is compared with >.
EndOfChangeLate(p, f) ==
    /\ todo' = [todo EXCEPT ![p] = @ \ {f}]
    /\ IF applied[p] + 1 > ChunkFiles
       THEN Release(p) /\ applied' = [applied EXCEPT ![p] = 0]
       ELSE UNCHANGED <<marker, rows>> /\ applied' = [applied EXCEPT ![p] = @ + 1]

\* The end of the loop's body: every ChunkFiles changes, release and re-enter.
EndOfChange(p, f) ==
    /\ todo' = [todo EXCEPT ![p] = @ \ {f}]
    /\ IF applied[p] + 1 >= ChunkFiles
       THEN Release(p) /\ applied' = [applied EXCEPT ![p] = 0]
       ELSE UNCHANGED <<marker, rows>> /\ applied' = [applied EXCEPT ![p] = @ + 1]

\* A new or modified file still exists; remember its mtime.
Stat(p, f) ==
    /\ pc[p] = "next"
    /\ f \in todo[p] /\ found[p][f] # NoLanguage
    /\ f \in present
    /\ cur' = [cur EXCEPT ![p] = f]
    /\ stamp' = [stamp EXCEPT ![p] = mtime[f]]
    /\ pc' = [pc EXCEPT ![p] = "read"]
    /\ UNCHANGED <<world, store, lockVars, outcome, plan, todo, applied, faults>>

\* Variant of Index: an unreadable file keeps its old rows.
IndexKeepsOldRows(p) ==
    /\ pc[p] = "read"
    /\ LET f    == cur[p]
           new  == [mtime |-> mtime[f], lang |-> langs[p], version |-> binary[p]]
           read == langs[p] # NoLanguage /\ f \in present /\ f \in readable
       IN txRows' = [txRows EXCEPT ![f] = IF read THEN new ELSE @]
    /\ pc' = [pc EXCEPT ![p] = "mark"]
    /\ UNCHANGED <<world, marker, rows, txMarker, lockVars, outcome, plan, loop, faults>>

\* Replace its rows by what the contents read now extract to in the language
\* the first LanguageMap gives it; a file that cannot be read is a warning.
Index(p) ==
    /\ pc[p] = "read"
    /\ LET f    == cur[p]
           new  == [mtime |-> mtime[f], lang |-> langs[p], version |-> binary[p]]
           read == langs[p] # NoLanguage /\ f \in present /\ f \in readable
       IN txRows' = [txRows EXCEPT ![f] = IF read THEN new ELSE None]
    /\ pc' = [pc EXCEPT ![p] = "mark"]
    /\ UNCHANGED <<world, marker, rows, txMarker, lockVars, outcome, plan, loop, faults>>

\* Variant of Mark: the file is stat'ed after it was read.
MarkWithLateStat(p) ==
    /\ pc[p] = "mark"
    /\ LET f == cur[p] IN
       /\ txMarker' = [txMarker EXCEPT ![f] =
            [mtime |-> mtime[f], lang |-> found[p][f], version |-> binary[p]]]
       /\ txRows' = txRows
       /\ EndOfChange(p, f)
    /\ cur' = [cur EXCEPT ![p] = None]
    /\ stamp' = [stamp EXCEPT ![p] = 0]
    /\ pc' = [pc EXCEPT ![p] = "next"]
    /\ UNCHANGED <<world, lockVars, outcome, plan, faults>>

\* file_state last, in the language of the walk's entry.
Mark(p) ==
    /\ pc[p] = "mark"
    /\ LET f == cur[p] IN
       /\ txMarker' = [txMarker EXCEPT ![f] =
            [mtime |-> stamp[p], lang |-> found[p][f], version |-> binary[p]]]
       /\ txRows' = txRows
       /\ EndOfChange(p, f)
    /\ cur' = [cur EXCEPT ![p] = None]
    /\ stamp' = [stamp EXCEPT ![p] = 0]
    /\ pc' = [pc EXCEPT ![p] = "next"]
    /\ UNCHANGED <<world, lockVars, outcome, plan, faults>>

\* Variant of Drop: only file_state forgets the file.
DropMarkerOnly(p, f) ==
    /\ pc[p] = "next"
    /\ f \in todo[p] /\ found[p][f] = NoLanguage
    /\ txMarker' = [txMarker EXCEPT ![f] = None]
    /\ txRows' = txRows
    /\ EndOfChange(p, f)
    /\ UNCHANGED <<world, lockVars, pc, outcome, plan, cur, stamp, faults>>

\* A change of kind Deleted.
Drop(p, f) ==
    /\ pc[p] = "next"
    /\ f \in todo[p] /\ found[p][f] = NoLanguage
    /\ txMarker' = [txMarker EXCEPT ![f] = None]
    /\ txRows' = [txRows EXCEPT ![f] = None]
    /\ EndOfChange(p, f)
    /\ UNCHANGED <<world, lockVars, pc, outcome, plan, cur, stamp, faults>>

\* The last release: the rebuild's own savepoint is then the outermost.
Finish(p) ==
    /\ pc[p] = "next"
    /\ todo[p] = {}
    /\ marker' = txMarker /\ rows' = txRows
    /\ txMarker' = NoRows /\ txRows' = NoRows
    /\ outcome' = [outcome EXCEPT ![p] = "ok"]
    /\ pc' = [pc EXCEPT ![p] = "clear"]
    /\ UNCHANGED <<world, lockVars, plan, loop, faults>>

\* ROLLBACK TO the innermost savepoints: what is not committed is gone.
Rollback ==
    /\ txMarker' = NoRows /\ txRows' = NoRows
    /\ UNCHANGED <<marker, rows>>

\* Variant of StatFails: the file's stat is retried until it is back.
StatRetries(p, f) ==
    /\ pc[p] = "next"
    /\ f \in todo[p] /\ found[p][f] # NoLanguage
    /\ f \notin present
    /\ UNCHANGED vars

\* The stat of a file deleted since the walk fails the whole run.
StatFails(p, f) ==
    /\ pc[p] = "next"
    /\ f \in todo[p] /\ found[p][f] # NoLanguage
    /\ f \notin present
    /\ Rollback
    /\ pc' = [pc EXCEPT ![p] = "clear"]
    /\ UNCHANGED <<world, lockVars, outcome, plan, loop, faults>>

\* Any statement, the walk or the configuration fails: rollback, then the
\* lock's guard is dropped.
Fail(p) ==
    /\ pc[p] \in InTransaction
    /\ faults < MaxFaults
    /\ faults' = faults + 1
    /\ Rollback
    /\ pc' = [pc EXCEPT ![p] = "clear"]
    /\ UNCHANGED <<world, lockVars, outcome, plan, loop>>

\* The process dies: the kernel drops its lock, SQLite its transaction, but
\* the pid stays in the lock file.
Crash(p) ==
    /\ pc[p] \in Critical
    /\ faults < MaxFaults
    /\ faults' = faults + 1
    /\ Rollback
    /\ Released(p)
    /\ pc' = [pc EXCEPT ![p] = "idle"]
    /\ outcome' = [outcome EXCEPT ![p] = "none"]
    /\ Forget(p)
    /\ UNCHANGED <<world, lockPid>>

-----------------------------------------------------------------------------
World ==
    \/ \E f \in Files : Write(f) \/ Delete(f) \/ Hide(f) \/ Reveal(f)
    \/ \E m \in Mapping : Reconfigure(m)
    \/ Upgrade

\* The steps a run takes by itself once it has the lock.
Run(p) ==
    \/ WritePid(p)
    \/ \E m \in {"apply", "rebuild"} : Begin(p, m)
    \/ Walk(p)
    \/ \E f \in Files : Stat(p, f) \/ StatFails(p, f) \/ Drop(p, f)
    \/ Index(p)
    \/ Mark(p)
    \/ Finish(p)
    \/ DropGuard(p)

Next ==
    \/ World
    \/ \E p \in Writers :
        \/ Start(p) \/ TryLock(p) \/ Busy(p)
        \/ Run(p)
        \/ PidFails(p) \/ Fail(p) \/ Crash(p)
    \/ \E s \in Probers : Probe(s) \/ EndProbe(s)

Spec == Init /\ [][Next]_vars

\* The run in progress is scheduled, a probe ends, and while no writer is active
\* somebody asks for an index and somebody gets the lock, however often others
\* come in between: every read command and the prompt hook start an autoindex.
RunStep == \E p \in Writers : Run(p)
Ask     == lock = None /\ \E p \in Writers : Start(p)
Enter   == \E p \in Writers : TryLock(p)

Fairness ==
    /\ WF_vars(RunStep) /\ SF_vars(Ask) /\ SF_vars(Enter)
    /\ \A s \in Probers : WF_vars(EndProbe(s))

FairSpec == Spec /\ Fairness

-----------------------------------------------------------------------------
(***************************************************************************)
(* Safety.                                                                 *)
(***************************************************************************)

\* The next apply of the installed binary would skip f as unchanged.
WouldSkip(f) ==
    /\ f \in present
    /\ config # NoLanguage
    /\ IsUnchanged(f, marker[f], config, version)

\* What the tables should hold for f.
Current(f) == [mtime |-> mtime[f], lang |-> config, version |-> version]

\* The lock file names the writer that holds the lock, from the moment it has
\* written its pid until it clears it, whatever pid a killed writer has left
\* there; and once a writer has succeeded and let go of it, it no longer names
\* that one. So "Live" names the writer at work and "Stale" one that did not
\* end properly
\* (acquire_write_lock, WriteLockGuard::drop, probe_writer_lock).
LockFileNamesHolder ==
    \A p \in Writers :
        /\ pc[p] \in {"clear"} \cup InTransaction => lock = p /\ lockPid = p
        /\ lockPid = p /\ outcome[p] = "ok" => pc[p] \in {"clear", "unlock"}

\* Whatever edits, deletions, upgrades, failures and crashes happen while runs
\* stat, read and mark files, a file the diff would skip has rows extracted
\* from exactly its present contents (stat before read, marker last).
SkippedFilesAreCurrent ==
    \A f \in Files : WouldSkip(f) => rows[f] = Current(f)

\* Even when a file was unreadable or [languages] changed under the run, the
\* rows of a file the diff would skip are never those of older contents or of
\* an older extractor: they are missing, or of the wrong language, at worst.
SkippedRowsAreNeverStale ==
    \A f \in Files : WouldSkip(f) /\ rows[f] # None =>
        rows[f].mtime = mtime[f] /\ rows[f].version = version

\* No committed symbol, edge or full-text row belongs to a file that
\* file_state does not know: it would never be deleted again, since deletions
\* are computed from file_state.
NoOrphanRows ==
    \A f \in Files : rows[f] # None => marker[f] # None

\* A failed or killed apply loses less than one chunk: what the open
\* transaction has changed is fewer than ChunkFiles files.
UncommittedIsBelowAChunk ==
    \A p \in Writers :
        pc[p] = "next" /\ mode[p] = "apply" =>
            Cardinality({f \in Files : txMarker[f] # marker[f] \/ txRows[f] # rows[f]})
                < ChunkFiles

\* Readers of the committed tables lose a file only to a writer whose walk did
\* not find it; in particular no reader ever sees a cleared index while a
\* rebuild runs or after one failed.
FilesLeaveOnlyWhenNotFound ==
    [][\A f \in Files :
        marker[f] # None /\ marker'[f] = None =>
            \E p \in Writers : lock = p /\ found[p][f] = NoLanguage]_vars

\* A run that reports success leaves tracked exactly the files its walk found,
\* in the walk's language and at its own extractor version, however little of
\* it the diff thought it had to redo.
SuccessTracksTheWalk ==
    [][\A p \in Writers :
        outcome[p] # "ok" /\ outcome'[p] = "ok" =>
            \A f \in Files :
                IF found[p][f] = NoLanguage
                THEN marker'[f] = None
                ELSE /\ marker'[f] # None
                     /\ marker'[f].lang = found[p][f]
                     /\ marker'[f].version = binary[p]]_vars

\* "a committed chunk can never claim a file is indexed while its
\* symbols/zonemap/FTS/edges are missing (which the next apply would skip as
\* unchanged forever)" (index.rs:1401-1403).
NeverSkippedWithoutRows ==
    \A f \in Files : WouldSkip(f) /\ f \in readable => rows[f] # None

\* The run whose walk is behind it, and the writers that reported success.
CurrentRun ==
    IF lock \in Writers /\ pc[lock] \in {"next", "read", "mark"}
    THEN [kind |-> mode[lock], found |-> found[lock], version |-> binary[lock]]
    ELSE None

Succeeded == {p \in Writers : outcome[p] = "ok"}

Committed == INSTANCE CommittedIndex WITH
    Entries <- Rows, run <- CurrentRun, succeeded <- Succeeded

ASSUME NoneIsNoRun == None \notin Committed!Runs

\* A reader sees no more of a run than CommittedIndex does: small chunks of an
\* apply, whole rebuilds, entries that never go back to older contents
\* (apply_changes_inner's savepoints).
ImplementsIndex == Committed!Spec

-----------------------------------------------------------------------------
(***************************************************************************)
(* Liveness.                                                               *)
(***************************************************************************)

\* Whoever got the lock gives it back, by success, failure or death: between
\* two holders it is free.
RunsEnd == lock # None ~> lock = None

\* Once the world is quiet the committed index becomes and stays current for
\* every claimed file, and forgets every other one.
EventuallyCurrent ==
    <>[](\A f \in Files :
            IF f \in present /\ config # NoLanguage
            THEN marker[f] = Current(f) /\ rows[f] = Current(f)
            ELSE marker[f] = None /\ rows[f] = None)
=============================================================================
