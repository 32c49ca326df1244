------------------------ MODULE EditBatchAloneProofs ------------------------
(***************************************************************************)
(* What holds of a batch that is alone on its files, besides the saves of  *)
(* other programs: for any number of edits, files, saves and failing file  *)
(* operations, and wherever it crashes. A batch that fails leaves nothing, *)
(* no text is lost on the way, and one that is done has landed if its      *)
(* edits were composed.                                                    *)
(***************************************************************************)
EXTENDS EditBatchProofs

USE BoundsAssumption, NoneAssumption

-----------------------------------------------------------------------------
(***************************************************************************)
(* The invariant.                                                          *)
(***************************************************************************)

\* Content c has the text each entry for file f was planned from, and none of
\* e's edits.
Carries(e, c, f) ==
    c # None /\ \A k \in 1 .. Len(plan[e]) : plan[e][k].file = f => plan[e][k].old \subseteq c
Good(e, c, f) == Carries(e, c, f) /\ \A i \in Ops : <<e, i>> \notin c

\* File f is as it was before the batch, but for what others saved in it.
Intact(e, f) == Good(e, disk[f], f)

\* None of the first n entries is for file f.
Untouched(e, f, n) == \A k \in 1 .. n : plan[e][k].file # f

\* Entry k is the first for file f, and its backup is what f was before.
Kept(e, f, k) ==
    /\ k \in 1 .. Len(plan[e])
    /\ plan[e][k].file = f
    /\ Untouched(e, f, k - 1)
    /\ Good(e, backup[e][k], f)

\* f is as it was before the first n entries, or one of them keeps what it was.
Before(e, f, n) ==
    \/ Untouched(e, f, n) /\ Intact(e, f)
    \/ \E k \in 1 .. n : Kept(e, f, k)

\* What the first n entries put into f has the text they were planned from.
Landed(e, f, n) ==
    \A k \in 1 .. n : plan[e][k].file = f => disk[f] # None /\ plan[e][k].old \subseteq disk[f]

\* The backup of entry k outlives the rollback in progress, or is yet to be
\* put back by it.
Outlives(e, k) ==
    \/ k <= undo[e]
    \/ "rollback" \in errors[e]
    \/ k = at[e] /\ "putback" \in errors[e]

\* Where the text of file f is in each phase of e's batch.
Recover(e, f) ==
    /\ pc[e] \in Planning => Intact(e, f)
    /\ pc[e] \in {"swap", "cleanup"} => Before(e, f, at[e] - 1)
    /\ pc[e] \in {"persist", "putback"} => Before(e, f, at[e])
    /\ pc[e] \in {"swap", "cleanup"} \/ (pc[e] = "persist" /\ f # Entry(e).file) =>
         Landed(e, f, at[e] - 1)
    /\ pc[e] \in {"undo", "restore"} =>
         \/ Untouched(e, f, undo[e]) /\ Intact(e, f)
         \/ \E k \in 1 .. Len(plan[e]) : Kept(e, f, k) /\ Outlives(e, k)
    /\ pc[e] = "failed" =>
         \/ Intact(e, f)
         \/ errors[e] # {} /\ \E k \in 1 .. Len(plan[e]) : Kept(e, f, k)
    /\ pc[e] = "crashed" =>
         Intact(e, f) \/ \E k \in 1 .. Len(plan[e]) : Kept(e, f, k)
    /\ pc[e] = "done" => Carries(e, disk[f], f)

\* Entries for one file were read from ever larger contents, and add to them.
Growing(e) ==
    \A k \in 1 .. Len(plan[e]) :
        /\ plan[e][k].old \subseteq plan[e][k].new
        /\ \A j \in 1 .. k : plan[e][j].file = plan[e][k].file =>
                plan[e][j].old \subseteq plan[e][k].old

AloneOK(e) == Growing(e) /\ \A f \in Files : Recover(e, f)
AloneInv   == \A e \in Editors : Alone(e) => AloneOK(e)

-----------------------------------------------------------------------------
\* No file is in two entries of the plan.
OneEntryEach(e) ==
    \A j, k \in 1 .. Len(plan[e]) : plan[e][j].file = plan[e][k].file => j = k

\* The first n edits are in the plan, and only they.
Planned(e, n) ==
    /\ \A i \in 1 .. n : Plans(plan[e], batch[e][i], <<e, i>>)
    /\ \A k \in 1 .. Len(plan[e]) : \E i \in 1 .. n : plan[e][k].file = batch[e][i]

\* The first n entries are in their files.
InPlace(e, n) ==
    \A k \in 1 .. n :
        disk[plan[e][k].file] # None /\ plan[e][k].new \subseteq disk[plan[e][k].file]

Composed(e) ==
    \/ mode[e] = "intents"
    \/ \A i, j \in DOMAIN batch[e] : batch[e][i] = batch[e][j] => i = j

\* How far a composed batch has got.
Composing(e) ==
    /\ OneEntryEach(e)
    /\ pc[e] = "build" => Planned(e, at[e] - 1)
    /\ pc[e] \in {"stage"} \cup Swapping \cup {"cleanup", "done"} => Planned(e, Len(batch[e]))
    /\ pc[e] \in {"swap", "persist", "cleanup"} => InPlace(e, at[e] - 1)
    /\ pc[e] = "done" => InPlace(e, Len(plan[e]))

ComposedInv ==
    \A e \in Editors : Alone(e) /\ Composed(e) => Composing(e)

-----------------------------------------------------------------------------
(***************************************************************************)
(* One step of a batch that is alone.                                      *)
(***************************************************************************)

\* What does not depend on the phase of the batch.
LEMMA Stays ==
    ASSUME NEW e \in Editors, NEW f \in Files, plan'[e] = plan[e]
    PROVE  /\ disk'[f] = disk[f] => (Intact(e, f)' <=> Intact(e, f))
           /\ \A k \in Ops : backup'[e][k] = backup[e][k] => (Kept(e, f, k)' <=> Kept(e, f, k))
BY DEF Intact, Kept, Untouched, Good, Carries

\* The entries of a plan that does not change stay as they are.
LEMMA GrowingStays ==
    ASSUME NEW e \in Editors, plan'[e] = plan[e], Growing(e)
    PROVE  Growing(e)'
BY DEF Growing

\* A step that touches no file: reading, refusing, a failing operation, dying.
LEMMA QuietStep ==
    ASSUME Typing, NEW e \in Editors, AloneOK(e), UNCHANGED <<disk, plan, backup>>,
           \/ \E m \in {"edit", "intents"}, b \in Batches : Begin(e, m, b)
           \/ Draft(e) \/ Refuse(e) \/ Stage(e) \/ BackupFails(e) \/ PersistFails(e)
           \/ PutBackFails(e) \/ RemoveFails(e) \/ RestoreFails(e) \/ Crash(e)
    PROVE  AloneOK(e)'
<1> USE DEF input, world
<1>0. TypeOK /\ Work(e) /\ Len(plan[e]) \in Nat /\ Len(plan[e]) <= MaxOps
  BY LenProperties DEF Typing, WorkInv, TypeOK
<1>1. SUFFICES ASSUME NEW f \in Files PROVE Recover(e, f)'
  BY GrowingStays DEF AloneOK
<1>2. /\ Intact(e, f)' <=> Intact(e, f)
      /\ \A k \in 1 .. Len(plan[e]) : Kept(e, f, k)' <=> Kept(e, f, k)
      /\ Recover(e, f)
  <2>1. plan'[e] = plan[e] /\ disk'[f] = disk[f] /\ \A k \in Ops : backup'[e][k] = backup[e][k]
    OBVIOUS
  <2>2. 1 .. Len(plan[e]) \subseteq Ops
    BY <1>0 DEF Ops
  <2>3. QED
    BY <2>1, <2>2, Stays DEF AloneOK
<1> USE DEF Recover, Before, Landed, Outlives, Planning
<1>3. CASE \E m \in {"edit", "intents"}, b \in Batches : Begin(e, m, b)
  BY <1>0, <1>2, <1>3 DEF Begin, TypeOK
<1>4. CASE Draft(e) \/ Refuse(e)
  BY <1>0, <1>2, <1>4 DEF Draft, Refuse, Advance, TypeOK
<1>5. CASE Stage(e)
  BY <1>0, <1>2, <1>5 DEF Stage, Work, Untouched, TypeOK
<1>6. CASE BackupFails(e)
  <2>1. at[e] \in 1 .. Len(plan[e]) /\ pc[e] = "swap"
    BY <1>6, SwappingFacts DEF BackupFails, Swapping
  <2>2. pc'[e] = "undo" /\ undo'[e] = at[e] - 1 /\ plan' = plan
    BY <1>0, <1>6 DEF BackupFails, TypeOK
  <2>3. QED
    BY <1>0, <1>2, <2>1, <2>2 DEF Untouched
<1>7. CASE PersistFails(e)
  <2>1. pc[e] = "persist" /\ pc'[e] = "putback" /\ plan' = plan /\ at' = at
    BY <1>0, <1>7 DEF PersistFails, TypeOK
  <2>2. at[e] \in 1 .. Len(plan[e])
    BY <2>1, SwappingFacts DEF Swapping
  <2>3. QED
    BY <1>0, <1>2, <2>1, <2>2 DEF Untouched
<1>8. CASE PutBackFails(e)
  <2>1. at[e] \in 1 .. Len(plan[e]) /\ pc[e] = "putback"
    BY <1>8, SwappingFacts DEF PutBackFails, Swapping
  <2>2. /\ pc'[e] = "undo" /\ undo'[e] = at[e] - 1 /\ plan' = plan /\ at' = at
        /\ "putback" \in errors'[e]
    BY <1>0, <1>8 DEF PutBackFails, TypeOK
  <2>3. QED
    BY <1>0, <1>2, <2>1, <2>2 DEF Untouched
<1>9. CASE RemoveFails(e) \/ RestoreFails(e)
  <2>1. undo[e] \in 1 .. Len(plan[e]) /\ pc[e] \in {"undo", "restore"}
    BY <1>0, <1>9, UndoFacts DEF RemoveFails, RestoreFails, Work
  <2>2. /\ pc'[e] = "undo" /\ undo'[e] = undo[e] - 1 /\ plan' = plan
        /\ "rollback" \in errors'[e]
    BY <1>0, <1>9 DEF RemoveFails, RestoreFails, TypeOK
  <2>3. QED
    BY <1>0, <1>2, <2>1, <2>2 DEF Untouched
<1>10. CASE Crash(e)
  <2>1. pc'[e] = "crashed" /\ plan' = plan
    BY <1>0, <1>10 DEF Crash, TypeOK
  <2>2. Intact(e, f) \/ \E k \in 1 .. Len(plan[e]) : Kept(e, f, k)
    <3>1. pc[e] \in Planning \cup Swapping \cup {"cleanup", "undo", "restore"}
      BY <1>0, <1>10 DEF Crash, TypeOK, Phases, Finished, Swapping
    <3>2. \A k : Kept(e, f, k) => k \in 1 .. Len(plan[e])
      BY DEF Kept
    <3>3. QED
      BY <1>2, <3>1, <3>2 DEF Swapping
  <2>3. QED
    BY <1>2, <2>1, <2>2
<1>11. QED
  BY <1>3, <1>4, <1>5, <1>6, <1>7, <1>8, <1>9, <1>10

\* The entry being swapped takes its file away, and its backup has the text.
LEMMA BackupStep ==
    ASSUME Typing, NEW e \in Editors, AloneOK(e), Backup(e)
    PROVE  AloneOK(e)'
<1> USE DEF input, world
<1>0. /\ TypeOK /\ at[e] \in 1 .. Len(plan[e]) /\ at[e] \in Ops /\ Entry(e).file \in Files
      /\ Len(plan[e]) \in Nat /\ Len(plan[e]) <= MaxOps
  BY SwappingFacts DEF Typing, Backup, Swapping
<1>1. /\ pc[e] = "swap" /\ pc'[e] = "persist" /\ plan' = plan /\ at' = at
      /\ backup'[e][at[e]] = disk[Entry(e).file]
      /\ \A k \in Ops : k # at[e] => backup'[e][k] = backup[e][k]
      /\ \A g \in Files : g # Entry(e).file => disk'[g] = disk[g]
  BY <1>0 DEF Backup, TypeOK
<1>2. SUFFICES ASSUME NEW f \in Files PROVE Recover(e, f)'
  BY <1>1, GrowingStays DEF AloneOK
<1>3. /\ f # Entry(e).file => (Intact(e, f)' <=> Intact(e, f))
      /\ \A k \in 1 .. Len(plan[e]) : k # at[e] => (Kept(e, f, k)' <=> Kept(e, f, k))
      /\ Before(e, f, at[e] - 1) /\ Landed(e, f, at[e] - 1)
  <2>1. 1 .. Len(plan[e]) \subseteq Ops
    BY <1>0 DEF Ops
  <2>2. QED
    BY <1>1, <2>1, Stays DEF AloneOK, Recover
<1>4. Before(e, f, at[e])'
  <2>1. CASE \E k \in 1 .. at[e] - 1 : Kept(e, f, k)
    BY <1>0, <1>1, <1>3, <2>1 DEF Before
  <2>2. CASE Untouched(e, f, at[e] - 1) /\ Intact(e, f)
    <3>1. CASE f = Entry(e).file
      <4>1. Kept(e, f, at[e])'
        BY <1>0, <1>1, <2>2, <3>1 DEF Kept, Untouched, Intact, Good, Carries, Entry
      <4>2. QED
        BY <1>0, <1>1, <4>1 DEF Before
    <3>2. CASE f # Entry(e).file
      BY <1>0, <1>1, <1>3, <2>2, <3>2 DEF Before, Untouched, Entry
    <3>3. QED
      BY <3>1, <3>2
  <2>3. QED
    BY <1>3, <2>1, <2>2 DEF Before
<1>5. f # Entry(e).file => Landed(e, f, at[e] - 1)'
  BY <1>1, <1>3 DEF Landed
<1>6. Entry(e)' = Entry(e)
  BY <1>1 DEF Entry
<1>7. QED
  BY <1>1, <1>4, <1>5, <1>6 DEF Recover, Planning

\* What the entry puts in place has the text that it and the ones before it for
\* the same file were planned from.
LEMMA PersistStep ==
    ASSUME Typing, NEW e \in Editors, AloneOK(e), Persist(e)
    PROVE  AloneOK(e)'
<1> USE DEF input, world
<1>0. /\ TypeOK /\ at[e] \in 1 .. Len(plan[e]) /\ at[e] \in Ops
      /\ Entry(e).file \in Files /\ Entry(e).new \in Contents
      /\ Len(plan[e]) \in Nat /\ Len(plan[e]) <= MaxOps
  BY SwappingFacts DEF Typing, Persist, Swapping
<1>1. /\ pc[e] = "persist" /\ pc'[e] \in {"swap", "cleanup"}
      /\ plan' = plan /\ at'[e] - 1 = at[e] /\ backup' = backup
      /\ disk'[Entry(e).file] = Entry(e).new
      /\ \A g \in Files : g # Entry(e).file => disk'[g] = disk[g]
  BY <1>0 DEF Persist, TypeOK
<1>2. SUFFICES ASSUME NEW f \in Files PROVE Recover(e, f)'
  BY <1>1, GrowingStays DEF AloneOK
<1>3. /\ f # Entry(e).file => (Intact(e, f)' <=> Intact(e, f))
      /\ \A k \in 1 .. Len(plan[e]) : Kept(e, f, k)' <=> Kept(e, f, k)
      /\ Before(e, f, at[e])
      /\ f # Entry(e).file => Landed(e, f, at[e] - 1)
  <2>1. 1 .. Len(plan[e]) \subseteq Ops
    BY <1>0 DEF Ops
  <2>2. QED
    BY <1>1, <2>1, Stays DEF AloneOK, Recover
<1>4. Before(e, f, at[e] - 1)'
  <2>1. CASE \E k \in 1 .. at[e] : Kept(e, f, k)
    BY <1>0, <1>1, <1>3, <2>1 DEF Before
  <2>2. CASE Untouched(e, f, at[e]) /\ Intact(e, f)
    <3>1. f # Entry(e).file
      BY <1>0, <2>2 DEF Untouched, Entry
    <3>2. QED
      BY <1>0, <1>1, <1>3, <2>2, <3>1 DEF Before, Untouched
  <2>3. QED
    BY <1>3, <2>1, <2>2 DEF Before
<1>5. Landed(e, f, at[e] - 1)'
  <2> SUFFICES ASSUME NEW k \in 1 .. at[e], plan[e][k].file = f
               PROVE  disk'[f] # None /\ plan[e][k].old \subseteq disk'[f]
    BY <1>1 DEF Landed
  <2>1. CASE f = Entry(e).file
    BY <1>0, <1>1, <2>1 DEF AloneOK, Growing, Entry
  <2>2. CASE f # Entry(e).file
    <3>1. k \in 1 .. at[e] - 1
      BY <1>0, <2>2 DEF Entry
    <3>2. QED
      BY <1>1, <1>3, <2>2, <3>1 DEF Landed
  <2>3. QED
    BY <2>1, <2>2
<1>6. QED
  BY <1>1, <1>4, <1>5 DEF Recover, Planning

\* The entry whose swap failed is put back: if it was the first for its file,
\* the file is as it was.
LEMMA PutBackStep ==
    ASSUME Typing, NEW e \in Editors, AloneOK(e), PutBack(e)
    PROVE  AloneOK(e)'
<1> USE DEF input, world
<1>0. /\ TypeOK /\ at[e] \in 1 .. Len(plan[e]) /\ at[e] \in Ops /\ Entry(e).file \in Files
      /\ Len(plan[e]) \in Nat /\ Len(plan[e]) <= MaxOps
  BY SwappingFacts DEF Typing, PutBack, Swapping
<1>1. /\ pc[e] = "putback" /\ pc'[e] = "undo" /\ plan' = plan /\ undo'[e] = at[e] - 1
      /\ disk'[Entry(e).file] = backup[e][at[e]]
      /\ \A k \in Ops : k # at[e] => backup'[e][k] = backup[e][k]
      /\ \A g \in Files : g # Entry(e).file => disk'[g] = disk[g]
  BY <1>0 DEF PutBack, TypeOK
<1>2. SUFFICES ASSUME NEW f \in Files PROVE Recover(e, f)'
  BY <1>1, GrowingStays DEF AloneOK
<1>3. /\ f # Entry(e).file => (Intact(e, f)' <=> Intact(e, f))
      /\ \A k \in 1 .. Len(plan[e]) : k # at[e] => (Kept(e, f, k)' <=> Kept(e, f, k))
      /\ Before(e, f, at[e])
  <2>1. 1 .. Len(plan[e]) \subseteq Ops
    BY <1>0 DEF Ops
  <2>2. QED
    BY <1>1, <2>1, Stays DEF AloneOK, Recover
<1>4. \/ (Untouched(e, f, undo[e]) /\ Intact(e, f))'
      \/ \E k \in 1 .. Len(plan[e]) : Kept(e, f, k)' /\ k <= undo'[e]
  <2>1. CASE Untouched(e, f, at[e]) /\ Intact(e, f)
    <3>1. f # Entry(e).file
      BY <1>0, <2>1 DEF Untouched, Entry
    <3>2. QED
      BY <1>0, <1>1, <1>3, <2>1, <3>1 DEF Untouched
  <2>2. ASSUME Kept(e, f, at[e])
        PROVE  (Untouched(e, f, undo[e]) /\ Intact(e, f))'
    BY <1>0, <1>1, <2>2 DEF Kept, Untouched, Intact, Good, Carries, Entry
  <2>3. ASSUME NEW k \in 1 .. at[e] - 1, Kept(e, f, k)
        PROVE  k \in 1 .. Len(plan[e]) /\ Kept(e, f, k)' /\ k <= undo'[e]
    BY <1>0, <1>1, <1>3, <2>3
  <2>4. \A k \in 1 .. at[e] : k = at[e] \/ k \in 1 .. at[e] - 1
    BY <1>0
  <2>5. QED
    BY <1>3, <2>1, <2>2, <2>3, <2>4 DEF Before
<1>5. QED
  BY <1>1, <1>4 DEF Recover, Planning, Outlives

\* Rolling an entry back takes its file away, and its backup is still there.
LEMMA RemoveStep ==
    ASSUME Typing, NEW e \in Editors, AloneOK(e), Remove(e)
    PROVE  AloneOK(e)'
<1> USE DEF input, world
<1>0. /\ TypeOK /\ undo[e] \in 1 .. Len(plan[e]) /\ Undone(e) \in Files
      /\ Len(plan[e]) \in Nat /\ Len(plan[e]) <= MaxOps
  BY UndoFacts, LenProperties DEF Typing, Remove, TypeOK
<1>1. /\ pc[e] = "undo" /\ pc'[e] = "restore" /\ plan' = plan /\ undo' = undo
      /\ errors' = errors /\ at' = at /\ backup' = backup
      /\ \A g \in Files : g # Undone(e) => disk'[g] = disk[g]
  BY <1>0 DEF Remove, TypeOK
<1>2. SUFFICES ASSUME NEW f \in Files PROVE Recover(e, f)'
  BY <1>1, GrowingStays DEF AloneOK
<1>3. /\ f # Undone(e) => (Intact(e, f)' <=> Intact(e, f))
      /\ \A k \in 1 .. Len(plan[e]) : Kept(e, f, k)' <=> Kept(e, f, k)
      /\ Recover(e, f)
  <2>1. 1 .. Len(plan[e]) \subseteq Ops
    BY <1>0 DEF Ops
  <2>2. QED
    BY <1>1, <2>1, Stays DEF AloneOK
<1>4. Untouched(e, f, undo[e]) => f # Undone(e)
  BY <1>0 DEF Untouched, Undone
<1>5. Untouched(e, f, undo[e])' <=> Untouched(e, f, undo[e])
  BY <1>1 DEF Untouched
<1>6. QED
  BY <1>1, <1>3, <1>4, <1>5 DEF Recover, Planning, Outlives

\* If the entry put back was the first for its file, the file is as it was.
LEMMA RestoreStep ==
    ASSUME Typing, NEW e \in Editors, AloneOK(e), Restore(e)
    PROVE  AloneOK(e)'
<1> USE DEF input, world
<1>0. /\ TypeOK /\ undo[e] \in 1 .. Len(plan[e]) /\ undo[e] \in Ops /\ Undone(e) \in Files
      /\ Len(plan[e]) \in Nat /\ Len(plan[e]) <= MaxOps
  BY UndoFacts, LenProperties DEF Typing, Restore, WorkInv, Work, TypeOK
<1>1. /\ pc[e] = "restore" /\ pc'[e] = "undo" /\ plan' = plan /\ undo'[e] = undo[e] - 1
      /\ errors' = errors /\ at' = at /\ disk'[Undone(e)] = backup[e][undo[e]]
      /\ \A k \in Ops : k # undo[e] => backup'[e][k] = backup[e][k]
      /\ \A g \in Files : g # Undone(e) => disk'[g] = disk[g]
  BY <1>0 DEF Restore, TypeOK
<1>2. SUFFICES ASSUME NEW f \in Files PROVE Recover(e, f)'
  BY <1>1, GrowingStays DEF AloneOK
<1>3. /\ f # Undone(e) => (Intact(e, f)' <=> Intact(e, f))
      /\ \A k \in 1 .. Len(plan[e]) : k # undo[e] => (Kept(e, f, k)' <=> Kept(e, f, k))
      /\ Recover(e, f)
  <2>1. 1 .. Len(plan[e]) \subseteq Ops
    BY <1>0 DEF Ops
  <2>2. QED
    BY <1>1, <2>1, Stays DEF AloneOK
<1>4. \/ (Untouched(e, f, undo[e]) /\ Intact(e, f))'
      \/ \E k \in 1 .. Len(plan[e]) : Kept(e, f, k)' /\ Outlives(e, k)'
  <2>1. CASE Untouched(e, f, undo[e]) /\ Intact(e, f)
    <3>1. f # Undone(e)
      BY <1>0, <2>1 DEF Untouched, Undone
    <3>2. QED
      BY <1>0, <1>1, <1>3, <2>1, <3>1 DEF Untouched
  <2>2. ASSUME Kept(e, f, undo[e])
        PROVE  (Untouched(e, f, undo[e]) /\ Intact(e, f))'
    BY <1>0, <1>1, <2>2 DEF Kept, Untouched, Intact, Good, Carries, Undone
  <2>3. ASSUME NEW k \in 1 .. Len(plan[e]), k # undo[e], Kept(e, f, k), Outlives(e, k)
        PROVE  Kept(e, f, k)' /\ Outlives(e, k)'
    BY <1>0, <1>1, <1>3, <2>3 DEF Outlives
  <2>4. QED
    BY <1>1, <1>3, <2>1, <2>2, <2>3 DEF Recover
<1>5. QED
  BY <1>1, <1>4 DEF Recover, Planning

\* The backups that go at the end of a rollback are those that were put back.
LEMMA EndRollbackStep ==
    ASSUME Typing, NEW e \in Editors, AloneOK(e), EndRollback(e)
    PROVE  AloneOK(e)'
<1> USE DEF input, world
<1>0. TypeOK /\ Len(plan[e]) \in Nat /\ Len(plan[e]) <= MaxOps /\ at[e] \in Nat
  BY LenProperties DEF Typing, TypeOK
<1>1. /\ pc[e] = "undo" /\ undo[e] = 0 /\ pc'[e] = "failed" /\ plan' = plan /\ disk' = disk
      /\ errors' = errors
      /\ \A k \in Ops : "rollback" \in errors[e] \/ ~(k < at[e]) => backup'[e][k] = backup[e][k]
  BY <1>0 DEF EndRollback, WithoutBackups, TypeOK
<1>2. SUFFICES ASSUME NEW f \in Files PROVE Recover(e, f)'
  BY <1>1, GrowingStays DEF AloneOK
<1>3. /\ Intact(e, f)' <=> Intact(e, f)
      /\ \A k \in 1 .. Len(plan[e]) :
           "rollback" \in errors[e] \/ ~(k < at[e]) => (Kept(e, f, k)' <=> Kept(e, f, k))
      /\ Recover(e, f)
  <2>1. 1 .. Len(plan[e]) \subseteq Ops
    BY <1>0 DEF Ops
  <2>2. QED
    BY <1>1, <2>1, Stays DEF AloneOK
<1>4. ASSUME NEW k \in 1 .. Len(plan[e]), Kept(e, f, k), Outlives(e, k)
      PROVE  errors'[e] # {} /\ Kept(e, f, k)'
  BY <1>0, <1>1, <1>3, <1>4 DEF Outlives
<1>5. QED
  BY <1>1, <1>3, <1>4 DEF Recover, Planning

\* A batch that has swapped all its entries has put the text of each in place.
LEMMA CleanupStep ==
    ASSUME Typing, NEW e \in Editors, AloneOK(e), Cleanup(e)
    PROVE  AloneOK(e)'
<1> USE DEF input, world
<1>0. TypeOK /\ Len(plan[e]) \in Nat /\ at[e] - 1 = Len(plan[e])
  BY LenProperties DEF Typing, TypeOK, WorkInv, Work, Cleanup
<1>1. pc[e] = "cleanup" /\ pc'[e] = "done" /\ plan' = plan /\ disk' = disk
  BY <1>0 DEF Cleanup, TypeOK
<1>2. SUFFICES ASSUME NEW f \in Files PROVE Recover(e, f)'
  BY <1>1, GrowingStays DEF AloneOK
<1>3. Before(e, f, Len(plan[e])) /\ Landed(e, f, Len(plan[e]))
  BY <1>0, <1>1 DEF AloneOK, Recover
<1>4. Carries(e, disk[f], f)
  <2>1. CASE Untouched(e, f, Len(plan[e])) /\ Intact(e, f)
    BY <2>1 DEF Intact, Good
  <2>2. CASE \E k \in 1 .. Len(plan[e]) : Kept(e, f, k)
    BY <1>3, <2>2 DEF Landed, Kept, Carries
  <2>3. QED
    BY <1>3, <2>1, <2>2 DEF Before
<1>5. QED
  BY <1>1, <1>4 DEF Recover, Planning, Carries

\* What a batch under construction reads and adds to its plan.
LEMMA BuildFacts ==
    ASSUME Typing, NEW e \in Editors, Build(e)
    PROVE  /\ batch[e][at[e]] \in Files /\ at[e] \in 1 .. Len(batch[e]) /\ Len(batch[e]) \in Ops
           /\ plan[e] \in Seq(Entries) /\ Len(plan[e]) \in Nat
           /\ disk' = disk /\ batch' = batch /\ mode' = mode
           /\ \/ pc'[e] = "stage" /\ at[e] = Len(batch[e])
              \/ pc'[e] = "build" /\ at'[e] = at[e] + 1
           /\ plan'[e] \in Seq(Entries) /\ Len(plan'[e]) \in {Len(plan[e]), Len(plan[e]) + 1}
           /\ \A k \in 1 .. Len(plan[e]) :
                /\ plan'[e][k].file = plan[e][k].file
                /\ plan'[e][k].old = plan[e][k].old
                /\ plan[e][k].new \subseteq plan'[e][k].new
           /\ Len(plan'[e]) = Len(plan[e]) + 1 =>
                /\ plan'[e][Len(plan[e]) + 1] = NewEntry(batch[e][at[e]], <<e, at[e]>>)
                /\ \/ mode[e] = "edit"
                   \/ \A k \in 1 .. Len(plan[e]) : plan[e][k].file # batch[e][at[e]]
           /\ Plans(plan'[e], batch[e][at[e]], <<e, at[e]>>)
<1> USE DEF input, world
<1> DEFINE f == batch[e][at[e]]
           op == <<e, at[e]>>
           p == plan[e]
           m == mode[e]
           q == WithEdit(p, m, f, op)
<1>0. TypeOK /\ Work(e) /\ pc[e] = "build"
  BY DEF Typing, WorkInv, Build
<1>1. /\ batch[e] \in Batches /\ Len(batch[e]) \in Ops /\ at[e] \in 1 .. Len(batch[e])
      /\ f \in Files /\ at[e] \in Ops
  BY <1>0, BatchFacts DEF Work, TypeOK, Ops
<1>2. /\ p \in Seq(Entries) /\ disk[f] \in Contents /\ op \in Changes
      /\ Len(p) \in Nat /\ f \in Files /\ m \in {"edit", "intents"}
  BY <1>0, <1>1, LenProperties DEF Build, TypeOK, Changes
<1>3. plan'[e] = q /\ disk' = disk /\ batch' = batch /\ mode' = mode
  BY <1>0 DEF Build, TypeOK
<1>4. \/ pc'[e] = "stage" /\ at[e] = Len(batch[e])
      \/ pc'[e] = "build" /\ at'[e] = at[e] + 1
  BY <1>0 DEF Build, Advance, TypeOK
<1> HIDE DEF f, op, p, m
<1>5. /\ q \in Seq(Entries) /\ Len(q) \in {Len(p), Len(p) + 1}
      /\ \A k \in 1 .. Len(p) :
           q[k].file = p[k].file /\ q[k].old = p[k].old /\ p[k].new \subseteq q[k].new
  BY <1>2, WithEditFacts
<1>6. Len(q) = Len(p) + 1 =>
        /\ q[Len(p) + 1] = NewEntry(f, op)
        /\ m = "edit" \/ \A k \in 1 .. Len(p) : p[k].file # f
  BY <1>2, WithEditFacts
<1>7. Plans(q, f, op)
  BY <1>2, WithEditFacts
<1> HIDE DEF q
<1>8. QED
  BY <1>1, <1>2, <1>3, <1>4, <1>5, <1>6, <1>7 DEF f, op, p, m

\* While the batch is planned every file has the text of every entry for it.
LEMMA BuildStep ==
    ASSUME Typing, NEW e \in Editors, AloneOK(e), Build(e)
    PROVE  AloneOK(e)'
<1> DEFINE f == batch[e][at[e]]
           p == plan[e]
           q == plan'[e]
<1>0. pc[e] = "build" /\ \A g \in Files : Intact(e, g)
  BY DEF Build, AloneOK, Recover, Planning
<1>1. /\ f \in Files /\ Len(p) \in Nat
      /\ disk' = disk /\ pc'[e] \in {"build", "stage"}
      /\ Len(q) \in {Len(p), Len(p) + 1}
      /\ \A k \in 1 .. Len(p) :
           q[k].file = p[k].file /\ q[k].old = p[k].old /\ p[k].new \subseteq q[k].new
      /\ Len(q) = Len(p) + 1 => q[Len(p) + 1] = NewEntry(f, <<e, at[e]>>)
  BY BuildFacts
<1> DEFINE n == Len(p) + 1
<1>2. Len(q) = n => q[n].file = f /\ q[n].old = disk[f] /\ q[n].old \subseteq q[n].new
  BY <1>1 DEF NewEntry
<1>3. \A k \in 1 .. Len(q) : k \in 1 .. Len(p) \/ (k = n /\ Len(q) = n)
  BY <1>1
<1> HIDE DEF f
<1>4. \A g \in Files, k \in 1 .. Len(p) : p[k].file = g => p[k].old \subseteq disk[g]
  BY <1>0 DEF Intact, Good, Carries
<1>5. \A g \in Files, k \in 1 .. Len(q) : q[k].file = g => q[k].old \subseteq disk[g]
  BY <1>1, <1>2, <1>3, <1>4
<1>6. ASSUME NEW g \in Files PROVE Recover(e, g)'
  <2>1. Intact(e, g)'
    BY <1>0, <1>1, <1>5, <1>6 DEF Intact, Good, Carries
  <2>2. QED
    BY <1>1, <2>1 DEF Recover, Planning
<1>7. Growing(e)'
  <2> SUFFICES ASSUME NEW k \in 1 .. Len(q)
               PROVE  /\ q[k].old \subseteq q[k].new
                      /\ \A j \in 1 .. k : q[j].file = q[k].file => q[j].old \subseteq q[k].old
    BY DEF Growing
  <2>1. CASE k \in 1 .. Len(p)
    <3>1. /\ p[k].old \subseteq p[k].new
          /\ \A j \in 1 .. k : p[j].file = p[k].file => p[j].old \subseteq p[k].old
      BY <2>1 DEF AloneOK, Growing
    <3>2. 1 .. k \subseteq 1 .. Len(p)
      BY <1>1, <2>1
    <3>3. QED
      BY <1>1, <2>1, <3>1, <3>2
  <2>2. CASE k = n /\ Len(q) = n
    <3>1. \A j \in 1 .. k : j \in 1 .. Len(q)
      BY <2>2
    <3>2. QED
      BY <1>1, <1>2, <1>5, <2>2, <3>1
  <2>3. QED
    BY <1>3, <2>1, <2>2
<1>8. QED
  BY <1>6, <1>7 DEF AloneOK

\* A save by another program adds to a file, and nothing of the batch.
LEMMA SaveKeeps ==
    ASSUME Typing, NEW e \in Editors, AloneOK(e), (\E g \in Files : Save(g)) \/ UNCHANGED vars
    PROVE  AloneOK(e)'
<1>1. /\ pc' = pc /\ plan' = plan /\ at' = at /\ undo' = undo /\ backup' = backup
      /\ errors' = errors
  BY DEF Save, input, vars
<1>2. SUFFICES ASSUME NEW f \in Files PROVE Recover(e, f)'
  BY <1>1, GrowingStays DEF AloneOK
<1>3. /\ disk[f] # None => disk'[f] # None /\ disk[f] \subseteq disk'[f]
      /\ \A i \in Ops : disk[f] # None /\ <<e, i>> \notin disk[f] => <<e, i>> \notin disk'[f]
  <2>1. CASE Save(f)
    BY <2>1, SaveFacts DEF Save, Typing, TypeOK
  <2>2. ASSUME NEW g \in Files, g # f, Save(g) PROVE disk'[f] = disk[f]
    BY <2>2, SaveFacts DEF Typing
  <2>3. QED
    BY <2>1, <2>2 DEF vars
<1>4. Carries(e, disk[f], f) => Carries(e, disk[f], f)'
  BY <1>1, <1>3 DEF Carries
<1>5. Intact(e, f) => Intact(e, f)'
  BY <1>1, <1>3 DEF Intact, Good, Carries
<1>6. \A k : Kept(e, f, k) => Kept(e, f, k)'
  BY <1>1 DEF Kept, Untouched, Good, Carries
<1>7. Entry(e)' = Entry(e)
  BY <1>1 DEF Entry
<1>8. Recover(e, f)
  BY DEF AloneOK
<1>9. QED
  BY <1>1, <1>3, <1>4, <1>5, <1>6, <1>7, <1>8 DEF Recover, Before, Landed, Untouched, Outlives

-----------------------------------------------------------------------------
(***************************************************************************)
(* Every step, of the batch or of another.                                 *)
(***************************************************************************)

\* A batch that steps is no longer idle: the others are not alone any more.
LEMMA Busy ==
    ASSUME TypeOK, NEW e \in Editors, Run(e) \/ Crash(e)
    PROVE  /\ pc'[e] # "idle"
           /\ \A x \in Editors : x # e => ~Alone(x)'
           /\ Alone(e)' => Alone(e)
<1>1. pc'[e] # "idle"
  <2>1. CASE Draft(e) \/ Build(e)
    BY <2>1 DEF Draft, Build, Advance, TypeOK
  <2>2. CASE ~(Draft(e) \/ Build(e))
    BY <2>2 DEF Run, Begin, Refuse, Stage, Backup, BackupFails, Persist, PersistFails,
       PutBack, PutBackFails, Remove, RemoveFails, Restore, RestoreFails, EndRollback,
       Cleanup, Crash, TypeOK
  <2>3. QED
    BY <2>1, <2>2
<1>2. \A x \in Editors : x # e => pc'[x] = pc[x]
  BY OthersAreSame DEF Same
<1>3. QED
  BY <1>1, <1>2 DEF Alone

\* Before anybody starts every file is as it was.
LEMMA AloneInit == Init => AloneInv
<1> SUFFICES ASSUME Init, NEW e \in Editors, NEW f \in Files
             PROVE  Growing(e) /\ Recover(e, f)
  BY DEF AloneInv, AloneOK, Init, Growing
<1>1. plan[e] = <<>> /\ Len(plan[e]) = 0 /\ pc[e] = "idle" /\ disk[f] = {<<None, 0>>}
  BY EmptySeq DEF Init
<1>2. {<<None, 0>>} # None
  BY DEF Contents, Changes
<1>3. Intact(e, f)
  BY <1>1, <1>2 DEF Intact, Good, Carries
<1>4. QED
  BY <1>1, <1>3 DEF Recover, Planning, Growing

\* Every step keeps the text of a batch that is alone.
LEMMA AloneStep == Typing /\ AloneInv /\ [Next]_vars => AloneInv'
<1> SUFFICES ASSUME Typing, AloneInv, [Next]_vars, NEW x \in Editors, Alone(x)'
             PROVE  AloneOK(x)'
  BY DEF AloneInv
<1>1. ASSUME NEW e \in Editors, Run(e) \/ Crash(e)
      PROVE  AloneOK(x)'
  <2>1. x = e /\ AloneOK(e)
    BY <1>1, Busy DEF Typing, AloneInv
  <2>2. CASE \/ \E m \in {"edit", "intents"}, b \in Batches : Begin(e, m, b)
             \/ Draft(e) \/ Refuse(e) \/ Stage(e) \/ BackupFails(e) \/ PersistFails(e)
             \/ PutBackFails(e) \/ RemoveFails(e) \/ RestoreFails(e) \/ Crash(e)
    <3>1. UNCHANGED <<disk, plan, backup>>
      BY <2>2 DEF Begin, Draft, Refuse, Stage, BackupFails, PersistFails, PutBackFails,
         RemoveFails, RestoreFails, Crash, world
    <3>2. QED
      BY <2>1, <2>2, <3>1, QuietStep
  <2>3. QED
    BY <1>1, <2>1, <2>2, BuildStep, BackupStep, PersistStep, PutBackStep, RemoveStep,
       RestoreStep, EndRollbackStep, CleanupStep DEF Run
<1>2. CASE (\E f \in Files : Save(f)) \/ UNCHANGED vars
  <2>1. Alone(x)
    BY <1>2 DEF Alone, Save, vars
  <2>2. QED
    BY <1>2, <2>1, SaveKeeps DEF AloneInv
<1>3. QED
  BY <1>1, <1>2 DEF Next

\* A batch that is alone and failed without reporting a failed restoration has
\* left every file as it was, for any number of edits of any files in any order.
THEOREM FailedBatchLeavesNothing == Spec => []NoPartialBatch
<1>1. AloneInv => NoPartialBatch
  BY DEF AloneInv, AloneOK, Recover, NoPartialBatch, Intact, Good, Carries
<1>2. QED
  BY <1>1, TypingInit, TypingStep, AloneInit, AloneStep, PTL DEF Spec

\* The text each entry of a batch that is alone was planned from is in its file
\* or in a backup of it at every instant, whatever fails and wherever the batch
\* crashes.
THEOREM PlannedTextSurvives == Spec => []OriginalRecoverable
<1>1. ASSUME Typing, AloneInv, NEW e \in Editors, NEW k \in Ops, Alone(e), k <= Len(plan[e])
      PROVE  Survives(plan[e][k].old, plan[e][k].file)
  <2> DEFINE f == plan[e][k].file
  <2>0. TypeOK /\ Work(e) /\ Len(plan[e]) \in Nat /\ Len(plan[e]) <= MaxOps
    BY <1>1, LenProperties DEF Typing, WorkInv, TypeOK
  <2>1. k \in 1 .. Len(plan[e]) /\ f \in Files
    BY <1>1, <2>0, EntryFacts DEF Ops
  <2>2. Recover(e, f)
    BY <1>1, <2>1 DEF AloneInv, AloneOK
  <2>3. Carries(e, disk[f], f) => Survives(plan[e][k].old, f)
    BY <2>1 DEF Carries, Survives
  <2>4. ASSUME NEW j, Kept(e, f, j) PROVE Survives(plan[e][k].old, f)
    BY <2>0, <2>1, <2>4 DEF Kept, Good, Carries, Survives, Ops
  <2> HIDE DEF f
  <2>5. Carries(e, disk[f], f) \/ \E j : Kept(e, f, j)
    <3>1. Intact(e, f) => Carries(e, disk[f], f)
      BY DEF Intact, Good
    <3>2. pc[e] \in Planning \cup Swapping \cup {"cleanup", "undo", "restore"} \cup Finished
      BY <2>0 DEF TypeOK, Phases, Planning, Swapping
    <3>3. QED
      BY <2>2, <3>1, <3>2 DEF Recover, Before, Swapping, Finished
  <2>6. QED
    BY <2>3, <2>4, <2>5 DEF f
<1>2. Typing /\ AloneInv => OriginalRecoverable
  BY <1>1 DEF OriginalRecoverable
<1>3. QED
  BY <1>2, TypingInit, TypingStep, AloneInit, AloneStep, PTL DEF Spec

-----------------------------------------------------------------------------
(***************************************************************************)
(* Composed batches.                                                       *)
(***************************************************************************)

\* The edits of a batch are numbered from 1.
LEMMA EditNumbers ==
    ASSUME TypeOK, NEW e \in Editors
    PROVE  Len(batch[e]) \in Nat /\ DOMAIN batch[e] = 1 .. Len(batch[e])
<1>1. CASE batch[e] = <<>>
  <2>1. <<>> \in Seq(Files)
    BY EmptySeq
  <2>2. QED
    BY <1>1, <2>1, LenProperties
<1>2. CASE batch[e] \in Batches
  BY <1>2, BatchFacts, LenProperties
<1>3. QED
  BY <1>1, <1>2 DEF TypeOK

\* Each edit is planned once its file has been read, and a file is planned once.
LEMMA ComposeBuild ==
    ASSUME Typing, NEW e \in Editors, Composed(e), Composing(e), Build(e)
    PROVE  Composing(e)'
<1> DEFINE f == batch[e][at[e]]
           p == plan[e]
           q == plan'[e]
           n == Len(p) + 1
<1>0. /\ f \in Files /\ at[e] \in 1 .. Len(batch[e]) /\ Len(batch[e]) \in Nat /\ Len(p) \in Nat
      /\ batch' = batch
      /\ \/ pc'[e] = "stage" /\ at[e] = Len(batch[e])
         \/ pc'[e] = "build" /\ at'[e] - 1 = at[e]
  <2>1. /\ f \in Files /\ at[e] \in 1 .. Len(batch[e]) /\ Len(batch[e]) \in Ops
        /\ Len(p) \in Nat /\ batch' = batch
        /\ \/ pc'[e] = "stage" /\ at[e] = Len(batch[e])
           \/ pc'[e] = "build" /\ at'[e] = at[e] + 1
    BY BuildFacts
  <2>2. QED
    BY <2>1 DEF Ops
<1>1. /\ Len(q) \in {Len(p), n}
      /\ \A k \in 1 .. Len(p) : q[k].file = p[k].file /\ p[k].new \subseteq q[k].new
      /\ Len(q) = n => q[n].file = f
      /\ Len(q) = n => mode[e] = "edit" \/ \A k \in 1 .. Len(p) : p[k].file # f
      /\ Plans(q, f, <<e, at[e]>>)
  <2>1. Len(q) \in {Len(p), n}
    BY BuildFacts
  <2>2. \A k \in 1 .. Len(p) : q[k].file = p[k].file /\ p[k].new \subseteq q[k].new
    BY BuildFacts
  <2>3. Len(q) = n => q[n] = NewEntry(f, <<e, at[e]>>)
    BY BuildFacts
  <2>4. Len(q) = n => mode[e] = "edit" \/ \A k \in 1 .. Len(p) : p[k].file # f
    BY BuildFacts
  <2>5. Plans(q, f, <<e, at[e]>>)
    BY BuildFacts
  <2>6. QED
    BY <2>1, <2>2, <2>3, <2>4, <2>5 DEF NewEntry
<1>2. OneEntryEach(e) /\ Planned(e, at[e] - 1)
  BY DEF Composing, Build
<1>3. DOMAIN batch[e] = 1 .. Len(batch[e])
  BY EditNumbers DEF Typing
<1>4. \A k \in 1 .. Len(q) : k \in 1 .. Len(p) \/ (k = n /\ Len(q) = n)
  BY <1>0, <1>1
<1>5. ASSUME Len(q) = n, NEW k \in 1 .. Len(p) PROVE p[k].file # f
  <2>1. PICK i \in 1 .. at[e] - 1 : p[k].file = batch[e][i]
    BY <1>2, <1>5 DEF Planned
  <2>2. i \in DOMAIN batch[e] /\ at[e] \in DOMAIN batch[e] /\ i # at[e]
    BY <1>0, <1>1, <1>3
  <2>3. QED
    BY <1>0, <1>1, <1>5, <2>1, <2>2 DEF Composed
<1> HIDE DEF f
<1>6. OneEntryEach(e)'
  <2> SUFFICES ASSUME NEW j \in 1 .. Len(q), NEW k \in 1 .. Len(q), q[j].file = q[k].file
               PROVE  j = k
    BY DEF OneEntryEach
  <2>1. CASE j \in 1 .. Len(p) /\ k \in 1 .. Len(p)
    BY <1>0, <1>1, <1>2, <2>1 DEF OneEntryEach
  <2>2. QED
    BY <1>0, <1>1, <1>4, <1>5, <2>1
<1>7. \A i \in 1 .. at[e] : Plans(q, batch[e][i], <<e, i>>)
  <2> TAKE i \in 1 .. at[e]
  <2>1. CASE i = at[e]
    BY <1>0, <1>1, <2>1 DEF f
  <2>2. CASE i # at[e]
    <3>1. i \in 1 .. at[e] - 1
      BY <1>0, <1>1, <2>2
    <3>2. PICK k \in 1 .. Len(p) : p[k].file = batch[e][i] /\ <<e, i>> \in p[k].new
      BY <1>2, <3>1 DEF Planned, Plans
    <3>3. k \in 1 .. Len(q)
      BY <1>0, <1>1
    <3>4. QED
      BY <1>0, <1>1, <3>2, <3>3 DEF Plans
  <2>3. QED
    BY <2>1, <2>2
<1>8. \A k \in 1 .. Len(q) : \E i \in 1 .. at[e] : q[k].file = batch[e][i]
  <2> TAKE k \in 1 .. Len(q)
  <2>1. CASE k \in 1 .. Len(p)
    <3>1. PICK i \in 1 .. at[e] - 1 : p[k].file = batch[e][i]
      BY <1>2, <2>1 DEF Planned
    <3>2. i \in 1 .. at[e]
      BY <1>0, <1>1
    <3>3. QED
      BY <1>0, <1>1, <2>1, <3>1, <3>2
  <2>2. CASE k = n /\ Len(q) = n
    BY <1>0, <1>1, <2>2 DEF f
  <2>3. QED
    BY <1>4, <2>1, <2>2
<1>9. QED
  BY <1>0, <1>1, <1>6, <1>7, <1>8 DEF Composing, Planned, Swapping

\* A step of a composed batch puts each entry in its own file.
LEMMA ComposeStep ==
    ASSUME Typing, NEW e \in Editors, Composed(e) => Composing(e), Composed(e)',
           Run(e) \/ Crash(e)
    PROVE  Composing(e)'
<1> USE DEF input, world
<1>0. TypeOK /\ Work(e) /\ Len(plan[e]) \in Nat /\ Len(plan[e]) <= MaxOps
  BY LenProperties DEF Typing, WorkInv, TypeOK
<1>1. ASSUME NEW m \in {"edit", "intents"}, NEW b \in Batches, Begin(e, m, b)
      PROVE  Composing(e)'
  <2>1. /\ plan'[e] = <<>> /\ Len(<<>>) = 0 /\ at'[e] = 1 /\ pc'[e] \in {"build", "draft"}
    BY <1>0, <1>1, EmptySeq DEF Begin, Work, TypeOK
  <2>2. QED
    BY <2>1 DEF Composing, OneEntryEach, Planned, Swapping
<1>2. SUFFICES ASSUME mode' = mode, batch' = batch
               PROVE  Composing(e)'
  BY <1>1 DEF Run, Draft, Build, Refuse, Stage, Backup, BackupFails, Persist, PersistFails,
     PutBack, PutBackFails, Remove, RemoveFails, Restore, RestoreFails, EndRollback, Cleanup,
     Crash
<1>3. Composed(e) /\ Composing(e)
  BY <1>2 DEF Composed
<1>4. CASE Draft(e)
  <2>1. /\ plan'[e] = <<>> /\ Len(<<>>) = 0
        /\ \/ pc'[e] = "build" /\ at'[e] = 1
           \/ pc'[e] = "draft"
    BY <1>0, <1>4, EmptySeq DEF Draft, Advance, Work, TypeOK
  <2>2. QED
    BY <2>1 DEF Composing, OneEntryEach, Planned, Swapping
<1>5. ASSUME plan' = plan
      PROVE  /\ OneEntryEach(e)'
             /\ Planned(e, Len(batch[e])) => Planned(e, Len(batch[e]))'
  BY <1>2, <1>3, <1>5 DEF Composing, OneEntryEach, Planned
<1>6. CASE Stage(e)
  <2>1. pc[e] = "stage" /\ pc'[e] = "swap" /\ plan' = plan /\ at'[e] = 1
    BY <1>0, <1>6 DEF Stage, Work, TypeOK
  <2>2. QED
    BY <1>3, <1>5, <2>1 DEF Composing, InPlace, Swapping
<1>7. CASE Backup(e) \/ Persist(e)
  <2>1. /\ at[e] \in 1 .. Len(plan[e]) /\ Entry(e).file \in Files /\ Entry(e).new \in Contents
        /\ \A k \in 1 .. Len(plan[e]) : plan[e][k].file \in Files
    BY <1>0, <1>7, SwappingFacts, EntryFacts DEF Backup, Persist, Swapping, Typing
  <2>2. /\ pc[e] \in {"swap", "persist"} /\ plan' = plan
        /\ \A g \in Files : g # Entry(e).file => disk'[g] = disk[g]
    BY <1>0, <1>7 DEF Backup, Persist, TypeOK
  <2>3. /\ OneEntryEach(e) /\ Planned(e, Len(batch[e])) /\ InPlace(e, at[e] - 1)
    BY <1>3, <2>2 DEF Composing, Swapping
  <2>4. ASSUME NEW k \in 1 .. at[e] - 1
        PROVE  /\ disk'[plan[e][k].file] # None
               /\ plan[e][k].new \subseteq disk'[plan[e][k].file]
    <3>1. k \in 1 .. Len(plan[e]) /\ k # at[e]
      BY <1>0, <2>1
    <3>2. plan[e][k].file # Entry(e).file
      BY <2>1, <2>3, <3>1 DEF OneEntryEach, Entry
    <3>3. QED
      BY <2>1, <2>2, <2>3, <2>4, <3>1, <3>2 DEF InPlace
  <2>5. CASE Backup(e)
    <3>1. pc'[e] = "persist" /\ at' = at
      BY <1>0, <2>5 DEF Backup, TypeOK
    <3>2. InPlace(e, at[e] - 1)'
      BY <2>2, <2>4, <3>1 DEF InPlace
    <3>3. QED
      BY <1>5, <2>2, <2>3, <3>1, <3>2 DEF Composing
  <2>6. CASE Persist(e)
    <3>1. disk'[Entry(e).file] = Entry(e).new
      BY <1>0, <2>1, <2>6 DEF Persist, TypeOK
    <3>0. pc'[e] \in {"swap", "cleanup"} /\ at'[e] - 1 = at[e]
      BY <1>0, <2>6 DEF Persist, TypeOK
    <3>2. \A k \in 1 .. at[e] : k = at[e] \/ k \in 1 .. at[e] - 1
      BY <2>1
    <3>3. InPlace(e, at[e] - 1)'
      BY <2>1, <2>2, <2>4, <3>0, <3>1, <3>2 DEF InPlace, Entry
    <3>4. QED
      BY <1>5, <2>2, <2>3, <3>0, <3>3 DEF Composing
  <2>7. QED
    BY <1>7, <2>5, <2>6
<1>8. CASE Cleanup(e)
  <2>1. /\ pc[e] = "cleanup" /\ pc'[e] = "done" /\ plan' = plan /\ disk' = disk
        /\ at[e] - 1 = Len(plan[e])
    BY <1>0, <1>8 DEF Cleanup, Work, TypeOK
  <2>2. InPlace(e, Len(plan[e]))'
    BY <1>3, <2>1 DEF Composing, InPlace
  <2>3. QED
    BY <1>3, <1>5, <2>1, <2>2 DEF Composing
<1>9. CASE PersistFails(e)
  <2>1. pc[e] = "persist" /\ pc'[e] = "putback" /\ plan' = plan
    BY <1>0, <1>9 DEF PersistFails, TypeOK
  <2>2. QED
    BY <1>3, <1>5, <2>1 DEF Composing, Swapping
<1>10. CASE \/ Refuse(e) \/ BackupFails(e) \/ PutBack(e) \/ PutBackFails(e) \/ Remove(e)
            \/ RemoveFails(e) \/ Restore(e) \/ RestoreFails(e) \/ EndRollback(e) \/ Crash(e)
  <2>1. plan' = plan /\ pc'[e] \in {"undo", "restore", "failed", "crashed"}
    BY <1>0, <1>10 DEF Refuse, BackupFails, PutBack, PutBackFails, Remove, RemoveFails,
       Restore, RestoreFails, EndRollback, Crash, TypeOK
  <2>2. QED
    BY <1>5, <2>1 DEF Composing, Swapping
<1>11. CASE \E m \in {"edit", "intents"}, b \in Batches : Begin(e, m, b)
  BY <1>1, <1>11
<1>12. QED
  BY <1>3, <1>4, <1>6, <1>7, <1>8, <1>9, <1>10, <1>11, ComposeBuild DEF Run

\* A save leaves what is in place in place.
LEMMA ComposeSave ==
    ASSUME Typing, NEW e \in Editors, Composing(e),
           (\E g \in Files : Save(g)) \/ UNCHANGED vars
    PROVE  Composing(e)'
<1>1. pc' = pc /\ plan' = plan /\ at' = at /\ batch' = batch
  BY DEF Save, input, vars
<1>2. \A f \in Files : disk[f] # None => disk'[f] # None /\ disk[f] \subseteq disk'[f]
  <2> TAKE f \in Files
  <2>1. CASE Save(f)
    BY <2>1, SaveFacts DEF Typing
  <2>2. ASSUME NEW g \in Files, g # f, Save(g) PROVE disk'[f] = disk[f]
    BY <2>2, SaveFacts DEF Typing
  <2>3. QED
    BY <2>1, <2>2 DEF vars
<1>3. \A k \in 1 .. Len(plan[e]) : plan[e][k].file \in Files
  BY EntryFacts DEF Typing
<1>4. Len(plan[e]) \in Nat /\ at[e] \in Nat
  BY LenProperties DEF Typing, TypeOK
<1>5. pc[e] \in {"swap", "persist", "cleanup"} => at[e] - 1 <= Len(plan[e])
  BY <1>4 DEF Typing, WorkInv, Work, Swapping
<1>6. ASSUME NEW n \in 0 .. Len(plan[e]), InPlace(e, n)
      PROVE  \A k \in 1 .. n : /\ disk'[plan[e][k].file] # None
                              /\ plan[e][k].new \subseteq disk'[plan[e][k].file]
  BY <1>2, <1>3, <1>4, <1>6 DEF InPlace
<1>7. OneEntryEach(e)'
  BY <1>1 DEF Composing, OneEntryEach
<1>8. /\ pc[e] = "build" => Planned(e, at[e] - 1)'
      /\ pc[e] \in {"stage"} \cup Swapping \cup {"cleanup", "done"} => Planned(e, Len(batch[e]))'
  BY <1>1 DEF Composing, Planned
<1>9. pc[e] \in {"swap", "persist", "cleanup"} => InPlace(e, at[e] - 1)'
  <2> SUFFICES ASSUME pc[e] \in {"swap", "persist", "cleanup"}
               PROVE  InPlace(e, at[e] - 1)'
    OBVIOUS
  <2>1. at[e] - 1 \in 0 .. Len(plan[e]) /\ InPlace(e, at[e] - 1)
    BY <1>4, <1>5 DEF Composing, Typing, TypeOK
  <2>2. QED
    BY <1>1, <1>6, <2>1 DEF InPlace
<1>10. pc[e] = "done" => InPlace(e, Len(plan[e]))'
  BY <1>1, <1>4, <1>6 DEF Composing, InPlace
<1>11. QED
  BY <1>1, <1>7, <1>8, <1>9, <1>10 DEF Composing

\* A batch that is alone and reported done has every edit in its file when its
\* edits were composed or are for different files, for any number of them.
THEOREM ComposedBatchesLand == Spec => []ComposedBatchLands
<1>1. Init => ComposedInv
  <2> SUFFICES ASSUME Init, NEW e \in Editors PROVE Composing(e)
    BY DEF ComposedInv
  <2>1. plan[e] = <<>> /\ Len(<<>>) = 0 /\ pc[e] = "idle"
    BY EmptySeq DEF Init
  <2>2. QED
    BY <2>1 DEF Composing, OneEntryEach, Swapping
<1>2. Typing /\ ComposedInv /\ [Next]_vars => ComposedInv'
  <2> SUFFICES ASSUME Typing, ComposedInv, [Next]_vars, NEW x \in Editors,
                      Alone(x)', Composed(x)'
               PROVE  Composing(x)'
    BY DEF ComposedInv
  <2>1. ASSUME NEW e \in Editors, Run(e) \/ Crash(e) PROVE Composing(x)'
    BY <2>1, Busy, ComposeStep DEF Typing, ComposedInv
  <2>2. CASE (\E f \in Files : Save(f)) \/ UNCHANGED vars
    <3>1. Alone(x) /\ Composed(x)
      BY <2>2 DEF Alone, Composed, Save, vars, input
    <3>2. QED
      BY <2>2, <3>1, ComposeSave DEF ComposedInv
  <2>3. QED
    BY <2>1, <2>2 DEF Next
<1>3. Typing /\ ComposedInv => ComposedBatchLands
  <2> SUFFICES ASSUME Typing, ComposedInv, NEW e \in Editors, Alone(e), pc[e] = "done",
                      Composed(e), NEW i \in DOMAIN batch[e]
               PROVE  <<e, i>> \in disk[batch[e][i]]
    BY DEF ComposedBatchLands, Composed
  <2>1. Planned(e, Len(batch[e])) /\ InPlace(e, Len(plan[e]))
    BY DEF ComposedInv, Composing
  <2>2. Plans(plan[e], batch[e][i], <<e, i>>)
    BY <2>1, EditNumbers DEF Planned, Typing
  <2>3. QED
    BY <2>1, <2>2 DEF Plans, InPlace
<1>4. QED
  BY <1>1, <1>2, <1>3, TypingInit, TypingStep, PTL DEF Spec
=============================================================================
