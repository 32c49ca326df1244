----------------------------- MODULE EditBatch -----------------------------
(***************************************************************************)
(* `tsift edit` and `tsift edit-intents --apply` (tsift-cli,               *)
(* semantic_edit.rs): a batch of edits is planned from the files on disk,  *)
(* staged beside them and swapped into place one file at a time, each      *)
(* through a backup; a failing swap rolls the earlier ones back. No lock   *)
(* is taken: editors and other batches write the same files.               *)
(*                                                                         *)
(* A file's content is the set of changes it contains: its original text   *)
(* <<None, 0>>, the n-th save of somebody else <<None, n>>, and <<e, i>>   *)
(* for edit i of e's batch. An edit that does not match its file is one of *)
(* the ways a batch is refused.                                            *)
(***************************************************************************)
EXTENDS Naturals, Sequences

CONSTANTS
    Editors,        \* the tsift processes
    Files,
    MaxOps,         \* bound: edits in a batch
    MaxSaves,       \* bound: saves by other programs
    MaxFaults,      \* bound: failing file operations
    None

ASSUME BoundsAssumption == MaxOps \in Nat \ {0} /\ MaxSaves \in Nat /\ MaxFaults \in Nat

VARIABLES
    disk,           \* each file's content; None while it does not exist
    saves,          \* saves by other programs so far
    faults,         \* failed file operations so far
    pc,
    mode,           \* which command the process runs
    batch,          \* the file of each edit, in order
    hash,           \* for each intent, the content it was planned against
    plan,           \* PlannedEdit: file, content read, content to write
    at,             \* the edit, or the plan entry, being processed
    undo,           \* the plan entry being rolled back
    backup,         \* the backup file of each plan entry
    errors          \* the restorations that failed

world == <<saves, disk>>
input == <<mode, batch>>
vars  == <<disk, saves, faults, pc, mode, batch, hash, plan, at, undo, backup, errors>>

-----------------------------------------------------------------------------
Ops      == 1 .. MaxOps
Changes  == (Editors \X Ops) \cup ({None} \X (0 .. MaxSaves))
Contents == SUBSET Changes
Batches  == UNION {[1 .. n -> Files] : n \in Ops}
Entries  == [file : Files, old : Contents, new : Contents]
Finished == {"done", "failed", "crashed"}
Phases   == {"idle", "draft", "build", "stage", "swap", "persist", "putback", "undo",
             "restore", "cleanup"} \cup Finished

ASSUME NoneAssumption ==
    None \notin Editors \cup Files /\ \A c \in Contents : c # None

TypeOK ==
    /\ disk \in [Files -> {None} \cup Contents]
    /\ saves \in 0 .. MaxSaves
    /\ faults \in 0 .. MaxFaults
    /\ pc \in [Editors -> Phases]
    /\ mode \in [Editors -> {"edit", "intents"}]
    /\ batch \in [Editors -> {<<>>} \cup Batches]
    /\ hash \in [Editors -> [Ops -> {None} \cup Contents]]
    /\ plan \in [Editors -> Seq(Entries)]
    /\ \A e \in Editors : Len(plan[e]) <= MaxOps
    /\ at \in [Editors -> 1 .. MaxOps + 1]
    /\ undo \in [Editors -> 0 .. MaxOps]
    /\ backup \in [Editors -> [Ops -> {None} \cup Contents]]
    /\ errors \in [Editors -> SUBSET {"putback", "rollback"}]

Init ==
    /\ disk = [f \in Files |-> {<<None, 0>>}]
    /\ saves = 0
    /\ faults = 0
    /\ pc = [e \in Editors |-> "idle"]
    /\ mode = [e \in Editors |-> "edit"]
    /\ batch = [e \in Editors |-> <<>>]
    /\ hash = [e \in Editors |-> [i \in Ops |-> None]]
    /\ plan = [e \in Editors |-> <<>>]
    /\ at = [e \in Editors |-> 1]
    /\ undo = [e \in Editors |-> 0]
    /\ backup = [e \in Editors |-> [i \in Ops |-> None]]
    /\ errors = [e \in Editors |-> {}]

-----------------------------------------------------------------------------
(***************************************************************************)
(* Planning.                                                               *)
(***************************************************************************)

Begin(e, m, b) ==
    /\ pc[e] = "idle"
    /\ mode' = [mode EXCEPT ![e] = m]
    /\ batch' = [batch EXCEPT ![e] = b]
    /\ pc' = [pc EXCEPT ![e] = IF m = "edit" THEN "build" ELSE "draft"]
    /\ UNCHANGED <<world, faults, hash, plan, at, undo, backup, errors>>

\* The next edit, or the first one of the next phase.
Advance(e, next) ==
    IF at[e] = Len(batch[e])
    THEN pc' = [pc EXCEPT ![e] = next] /\ at' = [at EXCEPT ![e] = 1]
    ELSE at' = [at EXCEPT ![e] = @ + 1] /\ UNCHANGED pc

\* plan_semantic_edit_intent: resolve one intent and hash its file. --verify
\* then works in another worktree for as long as it takes.
Draft(e) ==
    /\ pc[e] = "draft"
    /\ disk[batch[e][at[e]]] # None
    /\ hash' = [hash EXCEPT ![e][at[e]] = disk[batch[e][at[e]]]]
    /\ Advance(e, "build")
    /\ UNCHANGED <<world, faults, input, plan, undo, backup, errors>>

\* The plan entry for file f, 0 when there is none.
EntryOf(p, f) ==
    IF \E k \in 1 .. Len(p) : p[k].file = f
    THEN CHOOSE k \in 1 .. Len(p) : p[k].file = f
    ELSE 0

\* A plan entry that adds edit op to the file as it is on disk.
NewEntry(f, op) == [file |-> f, old |-> disk[f], new |-> disk[f] \cup {op}]

\* Variant of WithEdit: intents are not composed.
WithEditFromDisk(p, m, f, op) == Append(p, NewEntry(f, op))

\* build_edit_plan reads the file for every edit; apply_semantic_edit_drafts
\* reads it for the first intent and composes the others on the buffer.
WithEdit(p, m, f, op) ==
    IF m = "edit" \/ EntryOf(p, f) = 0
    THEN Append(p, NewEntry(f, op))
    ELSE [p EXCEPT ![EntryOf(p, f)].new = @ \cup {op}]

Build(e) ==
    /\ pc[e] = "build"
    /\ disk[batch[e][at[e]]] # None
    /\ plan' = [plan EXCEPT ![e] = WithEdit(@, mode[e], batch[e][at[e]], <<e, at[e]>>)]
    /\ Advance(e, "stage")
    /\ UNCHANGED <<world, faults, input, hash, undo, backup, errors>>

\* An edit does not match, a plan is stale, a verification, a formatter or a
\* staging fails: the batch is refused before any file is touched.
Refuse(e) ==
    /\ pc[e] \in {"draft", "build", "stage"}
    /\ pc' = [pc EXCEPT ![e] = "failed"]
    /\ UNCHANGED <<world, faults, input, hash, plan, at, undo, backup, errors>>

\* stage_edit_plan: every new content is in a temporary file beside its target.
Stage(e) ==
    /\ pc[e] = "stage"
    /\ pc' = [pc EXCEPT ![e] = "swap"]
    /\ UNCHANGED <<world, faults, input, hash, plan, at, undo, backup, errors>>

-----------------------------------------------------------------------------
(***************************************************************************)
(* Swapping.                                                               *)
(***************************************************************************)
Entry(e) == plan[e][at[e]]
Fault == faults < MaxFaults /\ faults' = faults + 1

\* fs::rename(file, backup_path)
Backup(e) ==
    /\ pc[e] = "swap"
    /\ disk[Entry(e).file] # None
    /\ backup' = [backup EXCEPT ![e][at[e]] = disk[Entry(e).file]]
    /\ disk' = [disk EXCEPT ![Entry(e).file] = None]
    /\ pc' = [pc EXCEPT ![e] = "persist"]
    /\ UNCHANGED <<saves, faults, input, hash, plan, at, undo, errors>>

\* The rename fails, at the latest because the file is not there.
BackupFails(e) ==
    /\ pc[e] = "swap"
    /\ IF disk[Entry(e).file] = None THEN UNCHANGED faults ELSE Fault
    /\ undo' = [undo EXCEPT ![e] = at[e] - 1]
    /\ pc' = [pc EXCEPT ![e] = "undo"]
    /\ UNCHANGED <<world, input, hash, plan, at, backup, errors>>

\* staged_file.persist(file): the entry is applied.
Persist(e) ==
    /\ pc[e] = "persist"
    /\ disk' = [disk EXCEPT ![Entry(e).file] = Entry(e).new]
    /\ at' = [at EXCEPT ![e] = @ + 1]
    /\ pc' = [pc EXCEPT ![e] = IF at[e] = Len(plan[e]) THEN "cleanup" ELSE "swap"]
    /\ UNCHANGED <<saves, faults, input, hash, plan, undo, backup, errors>>

\* Variant of PersistFails: the entry itself is not put back.
PersistFailsOnly(e) ==
    /\ pc[e] = "persist"
    /\ Fault
    /\ undo' = [undo EXCEPT ![e] = at[e] - 1]
    /\ pc' = [pc EXCEPT ![e] = "undo"]
    /\ UNCHANGED <<world, input, hash, plan, at, backup, errors>>

PersistFails(e) ==
    /\ pc[e] = "persist"
    /\ Fault
    /\ pc' = [pc EXCEPT ![e] = "putback"]
    /\ UNCHANGED <<world, input, hash, plan, at, undo, backup, errors>>

\* fs::rename(backup_path, file) for the entry whose persist failed.
PutBack(e) ==
    /\ pc[e] = "putback"
    /\ disk' = [disk EXCEPT ![Entry(e).file] = backup[e][at[e]]]
    /\ backup' = [backup EXCEPT ![e][at[e]] = None]
    /\ undo' = [undo EXCEPT ![e] = at[e] - 1]
    /\ pc' = [pc EXCEPT ![e] = "undo"]
    /\ UNCHANGED <<saves, faults, input, hash, plan, at, errors>>

PutBackFails(e) ==
    /\ pc[e] = "putback"
    /\ Fault
    /\ errors' = [errors EXCEPT ![e] = @ \cup {"putback"}]
    /\ undo' = [undo EXCEPT ![e] = at[e] - 1]
    /\ pc' = [pc EXCEPT ![e] = "undo"]
    /\ UNCHANGED <<world, input, hash, plan, at, backup>>

-----------------------------------------------------------------------------
(***************************************************************************)
(* rollback_applied_edits: the applied entries, last one first.            *)
(***************************************************************************)
Undone(e) == plan[e][undo[e]].file

\* fs::remove_file(file); a file that is not there is fine.
Remove(e) ==
    /\ pc[e] = "undo" /\ undo[e] > 0
    /\ disk' = [disk EXCEPT ![Undone(e)] = None]
    /\ pc' = [pc EXCEPT ![e] = "restore"]
    /\ UNCHANGED <<saves, faults, input, hash, plan, at, undo, backup, errors>>

\* The entry stays as it is and the rollback goes on.
RemoveFails(e) ==
    /\ pc[e] = "undo" /\ undo[e] > 0
    /\ Fault
    /\ errors' = [errors EXCEPT ![e] = @ \cup {"rollback"}]
    /\ undo' = [undo EXCEPT ![e] = @ - 1]
    /\ UNCHANGED <<world, pc, input, hash, plan, at, backup>>

\* fs::rename(backup_path, file)
Restore(e) ==
    /\ pc[e] = "restore"
    /\ disk' = [disk EXCEPT ![Undone(e)] = backup[e][undo[e]]]
    /\ backup' = [backup EXCEPT ![e][undo[e]] = None]
    /\ undo' = [undo EXCEPT ![e] = @ - 1]
    /\ pc' = [pc EXCEPT ![e] = "undo"]
    /\ UNCHANGED <<saves, faults, input, hash, plan, at, errors>>

RestoreFails(e) ==
    /\ pc[e] = "restore"
    /\ Fault
    /\ errors' = [errors EXCEPT ![e] = @ \cup {"rollback"}]
    /\ undo' = [undo EXCEPT ![e] = @ - 1]
    /\ pc' = [pc EXCEPT ![e] = "undo"]
    /\ UNCHANGED <<world, input, hash, plan, at, backup>>

\* Variant of EndRollback: the backups go even when the rollback failed.
EndRollbackAnyway(e) ==
    /\ pc[e] = "undo" /\ undo[e] = 0
    /\ backup' = [backup EXCEPT ![e] = [k \in Ops |-> IF k < at[e] THEN None ELSE @[k]]]
    /\ pc' = [pc EXCEPT ![e] = "failed"]
    /\ UNCHANGED <<world, faults, input, hash, plan, at, undo, errors>>

\* The applied entries' backups are deleted unless the rollback failed.
WithoutBackups(e) ==
    [backup EXCEPT ![e] = [k \in Ops |-> IF k < at[e] THEN None ELSE @[k]]]

EndRollback(e) ==
    /\ pc[e] = "undo" /\ undo[e] = 0
    /\ backup' = IF "rollback" \in errors[e] THEN backup ELSE WithoutBackups(e)
    /\ pc' = [pc EXCEPT ![e] = "failed"]
    /\ UNCHANGED <<world, faults, input, hash, plan, at, undo, errors>>

\* cleanup_edit_backups and the report: every edit of the batch is Ok.
Cleanup(e) ==
    /\ pc[e] = "cleanup"
    /\ backup' = WithoutBackups(e)
    /\ pc' = [pc EXCEPT ![e] = "done"]
    /\ UNCHANGED <<world, faults, input, hash, plan, at, undo, errors>>

-----------------------------------------------------------------------------
(***************************************************************************)
(* The rest of the world.                                                  *)
(***************************************************************************)

\* The process dies; nothing resumes or rolls back its batch.
Crash(e) ==
    /\ pc[e] \notin Finished \cup {"idle"}
    /\ pc' = [pc EXCEPT ![e] = "crashed"]
    /\ UNCHANGED <<world, faults, input, hash, plan, at, undo, backup, errors>>

\* Another program adds text of its own to a file it finds.
Save(f) ==
    /\ saves < MaxSaves
    /\ disk[f] # None
    /\ saves' = saves + 1
    /\ disk' = [disk EXCEPT ![f] = @ \cup {<<None, saves + 1>>}]
    /\ UNCHANGED <<faults, pc, input, hash, plan, at, undo, backup, errors>>

Run(e) ==
    \/ \E m \in {"edit", "intents"}, b \in Batches : Begin(e, m, b)
    \/ Draft(e) \/ Build(e) \/ Refuse(e) \/ Stage(e)
    \/ Backup(e) \/ BackupFails(e) \/ Persist(e) \/ PersistFails(e)
    \/ PutBack(e) \/ PutBackFails(e)
    \/ Remove(e) \/ RemoveFails(e) \/ Restore(e) \/ RestoreFails(e)
    \/ EndRollback(e) \/ Cleanup(e)

Next ==
    \/ \E e \in Editors : Run(e) \/ Crash(e)
    \/ \E f \in Files : Save(f)

Spec == Init /\ [][Next]_vars

-----------------------------------------------------------------------------
(***************************************************************************)
(* Properties.                                                             *)
(***************************************************************************)

\* Text t is in file f, or in a backup of it.
Survives(t, f) ==
    \/ disk[f] # None /\ t \subseteq disk[f]
    \/ \E e \in Editors, k \in Ops :
         /\ k <= Len(plan[e]) /\ plan[e][k].file = f
         /\ backup[e][k] # None /\ t \subseteq backup[e][k]

\* No other batch has touched the files.
Alone(e) == \A x \in Editors \ {e} : pc[x] = "idle"

\* "If any later swap fails, tsift restores earlier files before returning an
\* error instead of leaving a partially-written batch behind"
\* (search-navigation.md:103): a batch that failed without reporting a failed
\* restoration has left no file missing and none of its edits behind, in
\* whatever order its entries hit the same files.
NoPartialBatch ==
    \A e \in Editors : Alone(e) /\ pc[e] = "failed" /\ errors[e] = {} =>
        \A f \in Files : disk[f] # None /\ \A i \in Ops : <<e, i>> \notin disk[f]

\* The text each entry was planned from survives in the file or in a backup
\* beside it at every instant: a crash, a failed swap or a failed rollback
\* never destroys it.
OriginalRecoverable ==
    \A e \in Editors, k \in Ops : Alone(e) /\ k <= Len(plan[e]) =>
        Survives(plan[e][k].old, plan[e][k].file)

\* Whatever two batches do to each other, the text the files had before either
\* started is never destroyed.
TextSurvives == \A f \in Files : Survives({<<None, 0>>}, f)

\* A batch reported done has landed as a whole when its intents were composed,
\* or when no two of its edits are for one file.
ComposedBatchLands ==
    \A e \in Editors :
        /\ Alone(e)
        /\ pc[e] = "done"
        /\ \/ mode[e] = "intents"
           \/ \A i, j \in DOMAIN batch[e] : batch[e][i] = batch[e][j] => i = j
        => \A i \in DOMAIN batch[e] : <<e, i>> \in disk[batch[e][i]]

\* "Apply multiple file edits in one invocation" (cli.rs:210): every edit
\* reported Ok is in its file.
EveryOkEditLands ==
    \A e \in Editors : Alone(e) /\ pc[e] = "done" =>
        \A i \in DOMAIN batch[e] : <<e, i>> \in disk[batch[e][i]]
=============================================================================
