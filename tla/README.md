# A verification project for tsift

tsift is a code search and session digest tool for coding agents. It is a
command line program: every command is a process of its own, and several of them
(agents, prompt hooks, autoindexing reads, editors) work on the same files under
`.tsift/`, on the same source tree and on the same GPU at the same time. What
makes it hard to get right is therefore not inside one process but between
processes: advisory locks, SQLite savepoints, rename-into-place files, pids that
outlive their process, and files that change while they are read.

This directory holds TLA+ modules of the parts where that matters, the TLC
configurations that check them, and TLAPS proofs of their main invariants.

## Inventory

| Part of tsift | State it keeps | Operations | What is hard | Here |
|---|---|---|---|---|
| Index writer, `tsift-index` (`index.rs`, `walk.rs`, `config.rs`) | `.tsift/index.db` (file_state, symbols, zonemap, FTS, edges, routes), `index.lock` | open, apply_changes, rebuild, probe_writer_lock | writers against editors, crash between chunk commits, stale markers, several binaries | `IndexApply`, `CommittedIndex` |
| GPU lease registry, `tsift-local-model` and its commands in `tsift-cli` | `gpu-lease.json`, `.lock`, the models in VRAM | acquire, renew, release, reap, kg extract | read-modify-write, dead holders, TTLs, unload after the lock | `GpuLease`, `LeaseTable` |
| Edit batches, `tsift-cli` (`semantic_edit.rs`, `commands/infra.rs`) | the source files, their backups | edit, edit-intents --apply | no lock, failing renames, rollback, stale plans | `EditBatch` |
| graph.db writers, `tsift-cli`, `tsift-sqlite` | `.tsift/graph.db` and its `-wal`, `graph.write.lock`, the import's backup, the exported snapshot | refresh, rebuild, backend-eval, snapshot export and import, compact, authored notes, context packs | stale watermarks, writers without the lock, renames under open connections, deaths between renames | `GraphDb`, `SharedGraph` |
| Worktree object store, `tsift-index` (`worktree_store.rs`) | immutable artifacts and commit manifests, one dirty overlay per checkout, lock files | publish_artifact, publish_commit_manifest, write_dirty_overlay | publishers that meet, kills and power failures between write, rename and sync | `WorktreeStore`, `ObjectStore` |
| Overlay write scheduler, `tsift-index` (`worktree_federation.rs`) | a queue per overlay, the ready list and its set, the active overlays | enqueue, take_ready, complete | an overlay that is forgotten, overtaken or starved | `OverlayScheduler`, `OverlayQueues` |
| Collection and recovery planners, `tsift-index` (`worktree_gc.rs`) | none | plan_cas_gc, plan_dirty_overlay_recovery | their plans go stale, but nothing here carries one out | not modelled |
| External scanner of the Jai grammar, `tsift-tree-sitter-jai` (`scanner.c`, `array.h`) | one stack of open heredoc words, shared by all parse versions | create, scan, serialize, deserialize, destroy | a fixed buffer, a count in one byte, state another version left behind | `JaiScanner`, `HeredocStacks` |
| Cycle packet cache, `tsift-cache`; memoised checks, `tsift-status` | files under `.tsift/`, an in-process cache | read, write, evict | stale and half written entries | not modelled yet |
| Roots, scopes, init, multiplicity, `tsift-index` | `.tsift/config.toml`, generated instruction files | resolve, init | sequential | not modelled |
| Graph types, store trait, backends (`tsift-core`, `-libsql`, `-surrealdb`, `-tokensave`) | a snapshot | paging, neighbourhoods, paths | pure functions | candidates for checked operators |
| Extraction and resolution (`tsift-graph`, `-astgrep`, `-md-ast`, `-algorithms`, `-resolution`) | none | parse, resolve, score | pure functions over syntax trees | abstracted to "which contents, language and extractor produced these rows" |
| Memory and knowledge graph (`tsift-memory`, `-memgraphrag`, `-kg`) | graph.db | write nodes, extract, link | as graph.db | as writers of graph.db only: `note` and `pack` in `GraphDb` |
| Search, digests, sessions, summaries, quality gates, output, plugins | none or a report | read-only | formatting and ranking | not modelled |

How they interact: the CLI's read commands and the prompt hook start an index
writer when the index is stale; graph.db is projected from the committed
index.db and carries a watermark of it; `kg extract` takes a GPU lease before it
writes graph.db; `edit` and `edit-intents` change the files the index describes;
`status` probes the index writer's lock. The shared state is always a file, the
only synchronisation is an advisory lock or SQLite's own. Two parts are of
another kind: the overlay scheduler is a value that one program owns, whose
hazard is the order of its callers' calls, and the Jai scanner runs inside the
parser, which calls it for several parse versions in any order.

## Modules

**`IndexApply`** is one root's index. The variables are the world it describes
(`present`, `mtime`, `readable`, `config`, the installed extractor `version`),
the database as committed (`marker` for file_state, `rows` for everything else)
and as the open savepoint sees it (`txMarker`, `txRows`), the lock file (`lock`,
`lockPid`) and each process's program counter and locals. The actions follow
`acquire_write_lock` (`TryLock`, `Busy`, `WritePid`, `PidFails`),
`apply_changes_inner` (`Begin`, `Walk`, then per change `Stat`, `Index`, `Mark`
or `Drop`, `Finish`, and the failures `StatFails`, `Fail`), `rebuild_excluding`
(the mode of `Begin`; `Release` commits only when `sp_apply` is the outermost
savepoint), `WriteLockGuard::drop` (`DropGuard`: `ClearPid`, then `Unlock`) and
`probe_writer_lock` (`Probe`, `EndProbe`). A process keeps the extractor it was
started with (`Start`), so one of an older binary may get the lock after one of
a newer binary has run. Closing or unlocking a handle frees the lock only if it
is that process's own (`Released`). A crash leaves the pid in the lock file. A file's contents are identified by
the time of their last write, which never repeats: two writes within one tick of
the filesystem's clock are outside the model. The pruned walk is not a mode of
its own because `walk_files_pruned_excluding` never fills `pruned_dirs`.

**`CommittedIndex`** is what it promises a reader: the tables as committed and
at most one run, which knows what its walk found. An apply settles files a chunk
at a time (`Chunk`), and whatever it settles is tracked as found, at the run's
version, with rows of the same version and of contents no older than the marker;
a file that was not found is gone from both tables. `Complete` is the only step
that reports success, and after it every file is settled; a rebuild has no other
step. A marker never goes back to an earlier time. The run of a writer is
`CurrentRun`: that of the process that holds the lock and has its walk behind it.

**`GpuLease`** is the registry with its clients. One process stands for a
session and the pid it leases with. A command is `Call` (which samples the
clock), `Enter` (the lock is granted), `Apply` (read, prune and one of
`Acquire`, `Renew`, `Release`, `ReapLeases`), `Write` (the rename), `Unlock`,
then `Unload` for each profile it found empty, then `Return`. `Abort` and `Die`
stop a command at any of these points. `kind = "finish"` is the release at the
end of `kg extract`, whose condition for unloading is weaker than that of `lease
release`. A session that has a lease may take it again on the same terms (a
refresh), renew it or give it back; one without may acquire, and renew or release
whatever a failed command of its own has left, or nothing. A second profile
while holding one is left out. A session that is refused knows that it has no
lease. A session uses its lease (`holds`) from the moment its acquire answers
until it calls release; that a renew answered NotHeld does not make it stop. A
lease without TTL is never reclaimed while its holder lives, one with a TTL may
be: the properties say exactly that.

**`LeaseTable`** is what it promises a session: one table of leases, on which a
command takes effect at one instant (`Effect`) between its `Call` and its
`Return` or failure, at most once. It first drops leases that had expired when it
was called, and those of any of the sessions that are dead by then. The
refinement is `registry` for the table and `pc = "unlock"` for the commands that
have taken effect: that instant is the rename, not the read.

**`EditBatch`** is any number of batches over the same files. A file's content
is the set of changes it contains, so losing one is visible. `Begin` chooses the
command; `Draft` plans and hashes (edit-intents only); `Build` computes new
contents, from disk for each edit (`tsift edit`) or composed on a buffer
(`edit-intents`); `Stage` writes the temporary files; `Backup` and `Persist`
swap one file; `PersistFails`, `PutBack`, `Remove`, `Restore`, `EndRollback` are
the error path, each step of which can itself fail; `Cleanup` deletes the
backups. `Save` is another program that adds text to a file it finds; that one
creates or removes a file is left out. A plan's entries are ordered by first
appearance where the code orders them by path; an intent over several files
(rename, move) is several edits of the batch.

The hash that edit-intents records for a plan is in the plan and in no guard,
because the code never compares it.

**`GraphDb`** is graph.db as SQLite reads it: rows and stamp, each a version of
the sources. `file`, `backup` and `artifact` are the database, the one an import
moved away and the exported snapshot; `wal` says whose log lies beside graph.db
and whether it holds commits; `conn` where the file a connection opened is now,
so a commit through a connection whose file was renamed lands in the renamed
file. A command is `Begin`, which makes its first checks (cached reuse, artifact
freshness), and then the steps of its kind. A refresh or rebuild pins the
watermark (`Pin`), reads each source part the watermark covers (`Read`), lowers it (`Build`), takes
the lock (`Acquire`, or `GiveUp` at the timeout), opens, replaces and closes the
store (`Open`, `Commit`, `Close`). Notes and compaction take the lock and commit
without touching rows or stamp. An import takes the lock and goes through
`Check`, `Park`, `Install`, `Verify` and `Discard`, or back through `Remove` and
`Restore`, or `FailedInstall`. An export is `Copy` and `Publish`. `Die` and
`Fail` stop a command at any step that has such an outcome. `parked` is a ghost:
the databases an import has moved away and has not yet superseded. `Spec` has
the commands that take the lock; `UnguardedSpec` adds backend-eval (whose
watermarks are sampled by `Begin`, `Open` and `Restamp`) and the writers that
open graph.db without the lock (`pack`).

**`SharedGraph`** is what the locking commands promise those who read graph.db: it
is replaced by whole projections only, of sources no older than the stamp on
them says, in a single step (`Store`), or exchanged by an import that ends with
the current projection (`Accept`, `Discard`) or with what it set aside
(`Restore`), or dies (`Abandon`). Nothing else happens to graph.db while an import
exchanges it, and nothing is set aside over something set aside earlier. What it
does not promise is that a projection replaces an older one: a slow refresh may
store an older projection over a newer one, because it is built before the lock
is taken. Its stamp then says so.

**`WorktreeStore`** has callers that publish artifacts or replace overlays. Every
file operation is a step: `Inspect`, `Create`, `Settle` for the directory, `Lock`
for an overlay, `Stage` and `Flush` for the temporary file, `Replace` or
`Publish` for the name (`LosePublish` and `Compare` when another publisher was
first), `Finish` for the directory's sync and the answer. `disk` is what readers
see, `kept` what a name may be after a power failure, `dirs` whether a directory
exists and is itself kept (each by itself, though the directories under one root
share ancestors). `Stop` ends a call by an error or a kill,
`PowerFails` loses any part of what was not synced. `acked` and `since` are
history: the overlay acknowledged last and those put in its place later.

**`ObjectStore`** is what it promises, durable linearizability: a call takes
effect at one instant between its beginning and its end (`Call`, `Effect`,
`Succeed` or `Fail`); what a power failure may leave under a name (`remains`)
grows with each effect and is settled by a sync (`Settles`). A call that succeeds
leaves there only what is stored, or nothing where the directory itself is not on
the disk yet; a failed call may have taken effect or not; and an artifact that was
only found present is not made safer by the call that found it.

**`OverlayScheduler`** is `OverlayWriteScheduler` field by field: `queues`,
`ready`, `readySet`, `active`, with `Enqueue`, `TakeReady` and `Complete`. All
methods take `&mut self`, so each is one step. **`OverlayQueues`** is what it
promises: a queue per overlay, yielded in order and one at a time, any eligible
overlay at any time.

**`JaiScanner`** is scanner.c between the parser's calls and within its two
loops: `Deserialize`, `ReadWord` per word and `EndRead`; `ScanStart`, `ScanEnd`
or `Refuse`; `WriteWord` per word, then `EndWrite`, or `GiveUpWrite` at the
bounds check. `saved` is the buffer tree-sitter keeps with each version, with the
offsets its words were written at: a word can only be read where one was
written. `Fork` copies a version and `Recreate` destroys the scanner for the next
file. **`HeredocStacks`** is what it promises: a stack per version.

Each of these modules has a companion with its theorems, which extends it and
TLAPS: `IndexApplyProofs`, `GpuLeaseProofs`, `EditBatchProofs` (and
`EditBatchAloneProofs`, which extends it), `GraphDbProofs`,
`WorktreeStoreProofs`, `OverlaySchedulerProofs` and `JaiScannerProofs`.
`MCIndexApply`, `MCGpuLease`, `MCEditBatch`, `MCGraphDb`, `MCWorktreeStore`,
`MCOverlayScheduler` and `MCJaiScanner` declare the model values, lengths and
symmetry sets the configurations use.

Definitions named "Variant of ..." are the same operation with a slip one could
make in the code; nothing uses them. Put in place of the definition they vary,
each breaks the property PROJECT.json names with it.

## Runs

| Run | Configuration | What it shows |
|---|---|---|
| index_apply | 2 writers, 1 probe, 2 files, chunks of 1, 1 write, reconfiguration or upgrade, 1 failure or crash, fairness | lock file, exact currency of skipped files, success tracks the walk, runs end, the index converges; implements CommittedIndex |
| index_faults | 1 writer, 3 files, 2 languages, chunks of 2, 2 writes, one of which may be an upgrade, 1 fault, unreadable files, racing configuration | rows never stale or orphaned, chunk bound, no reader sees a cleared index |
| index_unreadable | as index_faults, 2 files; violated | the marker is written for a file that could not be read |
| gpu_lease | 2 sessions, 1 exclusive profile, TTL 0 or 1, clock to 2, 1 failure, fairness | no lost, shared or wrongly reclaimed lease; nobody waits for ever, dead leases are reclaimed; implements LeaseTable |
| gpu_unload | 2 sessions, 2 profiles; violated | release and unload are not atomic |
| edit_batch | 2 batches of at most 2 edits, 2 files, 1 save, 2 faults | all or nothing, the original always recoverable, composition, text survives interleaved batches |
| edit_twice | 1 batch of 2 edits; violated | two edits of one file: the first is lost and reported Ok |
| graph_db | 2 processes, 1 source part, 1 edit, 1 fault, fairness | fresh means current, logs stay with their database, commits land, no replaced database is lost, graph.db ends fresh; implements SharedGraph |
| graph_blessed | as graph_db with backend-eval and packs; violated | a stale projection is stamped with a later watermark |
| worktree | 2 callers, 1 artifact, 1 overlay, 2 payloads, 1 stop, 1 power failure, fairness | complete names, immutable artifacts, acknowledged overlays survive, every call returns; implements ObjectStore |
| overlay_scheduler | 3 overlays, 2 writes, queues of 2, fairness | nothing forgotten, overtaken or starved; implements OverlayQueues |
| scanner | 2 parse versions, words of 1 and 124 characters, buffer of 1024 bytes, 5 open heredocs | inside the buffer, reads what it wrote, versions isolated; implements HeredocStacks |

The bounds. Two writers are enough for the index because a third adds nothing a
finished one could not do again: a writer that ends returns to its initial state
and may run again with another binary. Chunks of one make every change a commit
other processes see; chunks of two with three files make a boundary fall inside
a run. Two writes are enough for "before and after the stat" on one file or one
on each of two; the run with two writers has one, a write, an edit of
`[languages]` or an upgrade, because liveness is checked on it as well. Its one
fault may be a crash with the pid in the lock file, which the second writer
then finds, and its upgrade may fall between the start of a writer and the run
of the other, so that an older binary writes after a newer one.
`MaxFaults` counts crashes, failed statements and permission changes together;
probes are not bounded. For the registry a holder and a contender suffice, since either prunes
for the other; with the clock going to 2, now is before, at and past heartbeat plus
TTL for the TTL 1, so leases do expire, and a record may be younger than the clock
sample it is judged by. Two edits over two files in each of two batches make both batches
swap both files; two faults let a persist and its restoration fail in the same
batch. For graph.db one edit puts the sources before and after any step, one
fault is a death, a failing rename or a timeout anywhere, and the two processes
may run one command after another without bound. In the store one kill and one power
failure may fall between any two steps of two callers. In the scanner a long word takes 500 bytes and a short one eight, so two long
and two short ones are the most that fits in any order, and the next one is given up. Symmetry is used in index_faults, index_unreadable and edit_batch only,
which have no liveness. What is bounded here is unbounded in the theorems.

The runs graph_db, graph_blessed, worktree, overlay_scheduler and scanner check
deadlock. The index, the leases and the edit batches stop on purpose (a batch is
over, the clock has reached its bound), so their configurations switch the check
off; what must not stop there is stated as liveness.

Fairness. `IndexApply`: the run in progress is weakly fair (the process that has
the lock is scheduled); that somebody asks for an index while no writer is
active, and that somebody of those who wait gets the lock, is strongly fair,
because read commands and prompt hooks retry whenever the index is stale; no
particular process is favoured, and a process of an older binary may run in
between; a probe ends. Faults and edits are bounded and have no fairness.
`GpuLease`: the steps of a command are weakly fair; `Enter` is strongly fair, as
waiters of a file lock are queued by the kernel; some session calls reap again
and again, and failures are bounded. A session that dies is not fair: death is
never required and never excluded. `GraphDb`: a started command goes on; `Acquire`
is strongly fair, because the lock is polled; and refreshing is, because read
commands that meet a stale graph refuse and name the refresh to run. `WorktreeStore`: a
begun call goes on, and the kernel grants a lock that comes free again and again.
`OverlayScheduler`: workers take what is ready and complete what they took. The
repository has no worker; this is the contract `specs/architecture.md` (262-280)
states for one.

### What the violated runs say

Each refutes one sentence of the repository, quoted in PROJECT.json. In short:
the marker that promises "fully indexed" is written for unreadable files too;
"VRAM is freed exactly when no session still references the model" fails because
another session can acquire between release and unload; `tsift edit` with two
edits of one file loses the first; and a projection can "be blessed by a later
watermark", because backend-eval takes the watermarks it stores after it has read
the sources. The passing runs next to them state what does hold: rows are missing
but never stale (`SkippedRowsAreNeverStale`), the registry itself is exact,
composed batches land whole, the original text always survives, and the writers
that pin their watermark never bless.

More was seen in the models that no run is spent on:

- A command about another profile that prunes a dead last holder leaves its model
  loaded, since only the command that empties a profile unloads it.
- The hash of an edit plan is not compared again before the swap, so
  a file saved in between is overwritten, and its text goes with the backup
  (`specs/ast-edits.md` 152 lets `--apply` proceed "only after the current files
  still match the planned content hashes").
- With the writers that take no lock, `CommitsLand` and
  `WalBelongsToItsDatabase` fail too, where `specs/graph.md` (65) says "Every
  mutating writer takes this same lock": a pack that has graph.db open while an
  import renames it commits into the backup. `Spec` therefore is about the
  commands that do take it.
- A publisher that finds a directory another caller has created does not sync its
  parent, so its overlay may go with the directory in a power failure; the
  overlay property is stated for a directory that is kept.
- A status probe holds the exclusive lock for a moment, and an index started in
  that moment is refused as if a writer were active.
- `[languages]` is loaded twice by a run, so an edit between the two loads stores
  rows of one language under the marker of another, which the next apply skips.
- `deserialize` zeroes the header of the heredoc array without freeing its
  contents (`scanner.c` 244), so each call that finds an allocated array leaks it;
  no other behaviour depends on that.

## Proofs

All theorems hold for every value of the constants that satisfies the named
assumptions: writers and probers are different processes, the chunk size is
positive, 0 is one of the TTLs, bounds are naturals, the distinguished values differ from the others
(`NoneIsNoRun`, which `IndexApply` needs for its refinement, is one more of these).

`IndexApplyProofs`. `TypeCorrect`; `LockFileCorrect` (`LockFileNamesHolder`);
`RowsAreTracked` (`NoOrphanRows`); `SkippedRowsNeverStale`;
`SkippedFilesCurrent`, under the assumptions `~ReadFaults` and `~RacyConfig`
that the run makes too; `SuccessTracks`; `FilesLeave`; `LosesLessThanAChunk`
(`UncommittedIsBelowAChunk`); `WriterImplementsIndex` (`ImplementsIndex`). None of
them is inductive. Underneath:

- `Typing`: types, that the change being applied is a file the walk found, with a
  stamp no later than its mtime, and that no mtime is in the future.
- `LockInv`: only the lock's holder runs (everybody else has not started or not
  got the lock), so there is one writer and one open savepoint; no run has
  succeeded before its last commit; and whoever is about to unlock has cleared
  its pid.
- `TablesInv`: in the committed and in the uncommitted tables every row is tracked,
  with contents between those its marker names and those on disk, and its
  marker's extractor; the file whose marker is about to be written is exempt.
- `PlanInv`: what the process's plan has left to do. A file not in `todo` is
  marked as the walk found it (`Done`), and a committed file that was found is
  never untracked on the way.
- `CleanInv`: without unreadable files and configuration races, a tracked file has
  rows in its marker's language, or is gone, or was written since (`Complete`).
- `ChunkInv`: while changes are applied, the number of files whose open transaction
  differs from the committed tables is at most the counter, and the counter is
  below the chunk; the file being changed is not counted yet.

The step that matters in the currency proof is `Mark`: `stamp` was taken before
the contents were read, so if the file has its stamp's mtime now it had it when
it was read.

The refinement needs two more. `ReaderInv`: what an apply has not reached is in
the transaction as it is committed, neither the transaction nor the marker about
to be written goes back to older contents of a file, and success is reported at
the end only. `RunInv`: the run readers know of (`CurrentRun`) is that of the only
writer past its walk. `BelowAChunkIf` (from `ChunkInv`) and `SettledIf` (from
`PlanInv`, `TablesInv` and `ReaderInv`) turn them into the facts about `Changed`
and `Settled`; `ChangeRefines` says that a change is a chunk's commit or a step
nobody sees, `FinishRefines` that the end of a run completes it.

`GpuLeaseProofs`. `TypeCorrect`; `HoldersRegistered` (`HoldersAreRegistered`);
`OneExclusiveHolder` (an exclusive profile has at most one holder in the
registry); `ExclusiveUseHolds` (`ExclusiveUse`), which follows from the two
before; `LeavesByRight` (`LeavesOnlyByRight`); `RegistryImplementsTable`
(`ImplementsTable`). The registry changes at `Write` but is decided at `Apply`, so each invariant speaks of the registry and of the
draft that will replace it: `Typing` (types; only the lock's holder is between
`Enter` and `Unlock`; a command's clock sample is past), `RegisteredInv` (a lease
without TTL that a session relies on is in both), `ExclusiveInv` (neither has two
holders), `LeaveInv` (what the draft drops was given back, or its owner is dead,
or its TTL has passed, and that stays so until the write). `PruneFacts`,
`WithLeaseFacts` and `ApplyFacts` are the lemmas about the registry operations.
For the refinement `ResultInv` says that a draft waiting for its rename is still
what the command makes of the present registry, for some of the sessions that
are dead now: nobody else replaces the registry meanwhile, and the dead stay
dead. So `Write` is `Effect`, and every other step is one of the clients or is
not seen.

`EditBatchProofs`. `TypeCorrect`; `OriginalTextSurvives` (`TextSurvives`): any
number of batches over the same files, without a lock, crash, fail and roll back
in any order and never destroy the text the files had before. `Work` describes
one batch's phases (nothing is backed up before the swaps, every entry swapped
and every entry still to be undone has its backup, no rollback has failed before
there is one); `OriginalInv` says the original text is in every existing file,
every planned content and every backup; `AbsentInv` that a missing file is held by
an entry which has its backup and is being processed, or whose batch crashed or
reports a failed rollback (`Holds`). `NewlyHeld` and `StillHeld` are the two
halves of its preservation: `EndRollback` may delete the backups of applied
entries, and only theirs, because an entry that holds a file is not one of them
unless a rollback failed.

`EditBatchAloneProofs`, for a batch that shares its files only with other
programs' saves: `FailedBatchLeavesNothing` (`NoPartialBatch`),
`PlannedTextSurvives` (`OriginalRecoverable`) and `ComposedBatchesLand`
(`ComposedBatchLands`). The difficulty is that several entries may be for one
file, so that a later entry's backup holds an earlier entry's edit. `Recover` says
for each phase where the text of a file is: in the file itself as long as no entry
for it has been swapped (`Intact`), then in the backup of the first entry for it
(`Kept`), which outlives the rollback or is put back by it (`Outlives`), and in
what has landed, because entries for one file were read from growing contents
(`Growing`). `Composing` says that the first edits are each in an entry of
their file, that no file has two entries, and that the entries before `at` are in
place.

`GraphDbProofs`. `TypeCorrect`; `StaleIsNeverCalledFresh`
(`StaleIsNeverBlessed`); `WalStaysWithItsDatabase` (`WalBelongsToItsDatabase`);
`CommitsAlwaysLand` (`CommitsLand`); `NoReplacedDatabaseIsLost`
(`ReplacedDatabaseSurvives`); `GraphDbImplementsSharedGraph`
(`ImplementsSharedGraph`). They are theorems of `Spec`, for any number of processes,
source parts, edits and faults. `Guarding` carries types and the three about
places: what a builder stores was read completely (`Built`); only the holder of the lock opens, writes or
exchanges graph.db, and a connection is to graph.db itself (`Exclusion`,
`Connections`); a log lies beside graph.db or there is none, and there is none
while a database is exchanged (`Logs`); what was moved away is the backup, and
nothing is moved onto a backup (`Backups`). The freshness theorem adds `Reads`
(each part read is at least as new as the pinned watermark and no newer than the
source) and `Honesty` (a stored stamp that is a watermark is at most the rows,
and those at most the sources): if the stamp is the current watermark, the rows between them are the current
sources. This is the argument the comment at lib.rs 15813 makes, and the watermark
of backend-eval is exactly what breaks `Reads`. The refinement adds `Exchanging`:
what a refresh stores has a stamp (`Pinned`); a snapshot's stamp is its rows, from
its export to the end of its import (`Snapshots`); and graph.db is there, or is
not, at each step of an exchange (`Stages`), because whoever else could create or
replace it would need the lock. So `Store` is whole by `Reads` and `Built`,
`Install` by `Honesty` and `Snapshots`, `Accept` is the current projection by the
argument above, and `Restore` and `FailedInstall` find no graph.db to overwrite.

`WorktreeStoreProofs`. `TypeCorrect`; `NamesAreComplete` (`NeverPartial`);
`SuccessMeansStored` (`OkIsStored`); `OverlaysSurvive`
(`AcknowledgedOverlaySurvives`); `PublishedNeverChanges`
(`PublishedIsImmutable`); `StoreImplementsObjects` (`ImplementsObjectStore`).
`Working` says what each phase of a call has done: from
`install` on its temporary file is synced, from `settle` on its directory exists,
and from `stage` on an overlay's writer holds its lock. `Stored` says that everything a name
stands for or may stand for after a power failure is synced, and `Current` that
for an overlay this is the acknowledged content or a later one. In the refinement
readers see the bytes under each name, and what may remain is what `kept` holds
after a power failure, and nothing while the directory is new. `Replace` and
`Publish` are `Effect`, by `Working` (what they rename is synced, so the failure
keeps its bytes) and because a taken artifact is not replaced. `Settle` is `Sync`,
`Finish` and a matching `Compare` are `Succeed`, `Stop` is `Fail`. Everything else
is a stutter: creating a directory is not seen because `Stored` leaves nothing to
be kept in a directory that does not exist.

`OverlaySchedulerProofs`. `TypeCorrect`; `NoOverlayIsForgotten`
(`EligibleIsReady`); `FirstComeFirstServed` (`NoOvertaking`);
`SchedulerImplementsQueues` (`ImplementsQueues`). The invariant is `TypeOK` with
`EligibleIsReady`. Its consequence `FirstIsTaken` is that the loop of `take_ready`
never pops an entry of an active overlay: it takes the first one.

`JaiScannerProofs`. `TypeCorrect`; `BufferIsNeverOverrun` (`StaysInBuffer`);
`AssertionHolds` (`ReadsAllThatWasWritten`, the assertion that ends
`deserialize`); `CountNeverWraps` (`CountIsExact`); `VersionsAreIsolated`
(`ScansItsOwnVersion`); `ScannerImplementsStacks` (`ImplementsStacks`). `Layout`
describes a buffer: words side by side from offset 1 to its end. `Intact` says
that every stored buffer is empty or has a complete layout whose count is its
number of words; `Restoring`, `Scanning` and `Storing` say how far the loops
are. A word takes at least eight bytes, so in a buffer of at most 2048 bytes the
count fits its byte; that is the assumption `BufferAssumption`, and
tree-sitter's buffer has 1024. In the refinement `Deserialize` to `WriteWord` are
stutters; `EndWrite` is `Open` or `Close`, `GiveUpWrite` is an `Open` that
forgets, because what is left after `Close` always fits again.

Only model-checked: the liveness properties (and everything that needs ENABLED
or fairness). Every invariant, every action property and every
refinement of the passing runs is also proved; the type invariant of `EditBatch`
is proved and not repeated in a run.

## Not modelled, and why

Schema migrations and read-only opens of index.db and graph.db (sequential, once);
which rows a projection holds, and SQLite's pages; the raw source files a
projection reads besides the index (AST spans, files of a scope without an index,
multiplicity: `lib.rs` 15373, 15065, 15134), which the source watermark covers
only through the index, so `StaleIsNeverBlessed` says nothing of them; the text an edit or an intent
produces; the unload request's fallbacks; `show`; profile tables, probes and
doctor reports; parsing, ranking, digests and formatting. `worktree_gc.rs` plans
from an inventory and nothing executes a plan. Pids are not reused in the models,
and a `kill -0` that fails for lack of permission is not distinguished from death.
`apply_acquire`'s bypass for CPU and hash profiles does not touch the registry and
is left out.

The program is Rust. Its C files are the packaged Jai grammar: `parser.c`,
213 464 of their 214 375 lines, is parse tables that tree-sitter generates, run
by a library that is not in the repository, and holds no logic of this code;
`parser.h` and `alloc.h` are tree-sitter's headers. `scanner.c` and the
operations of `array.h` it uses are the hand written part and are modelled.
A share of C lines therefore says nothing about how much of tsift is covered.

## Plan

1. `PacketCache`: read, in-place write, eviction, watermark keys.
2. The unlocked writers of graph.db as a run of their own, with the rows that a
   KG source replaces in two transactions.
3. An abstract specification of `EditBatch`, as batches that land or leave a
   backup, and the proof that it is implemented.
4. The collector, should a sweeper that executes its plans appear.
