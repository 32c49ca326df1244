-------------------------- MODULE EditBatchProofs --------------------------
(***************************************************************************)
(* What holds of edit batches for any number of them, any files, any size, *)
(* any saves by other programs and any failing file operations.            *)
(***************************************************************************)
EXTENDS EditBatch, SequenceTheorems, TLAPS

USE BoundsAssumption, NoneAssumption

Planning == {"idle", "draft", "build", "stage"}
Swapping == {"swap", "persist", "putback"}

-----------------------------------------------------------------------------
(***************************************************************************)
(* Sequences.                                                              *)
(***************************************************************************)

\* A batch names a file for each of its edits, and has an edit.
LEMMA BatchFacts ==
    ASSUME NEW b \in Batches
    PROVE  /\ b \in Seq(Files)
           /\ Len(b) \in Ops
           /\ \A i \in 1 .. Len(b) : b[i] \in Files
<1>1. PICK n \in Ops : b \in [1 .. n -> Files]
  BY DEF Batches
<1>2. b \in Seq(Files) /\ Len(b) = n
  BY <1>1 DEF Ops
<1>3. QED
  BY <1>1, <1>2

\* Plan p has an entry that adds edit op to file f.
Plans(p, f, op) == \E k \in 1 .. Len(p) : p[k].file = f /\ op \in p[k].new

\* A planned edit is in an entry of its file: a new one, made from the file on
\* disk, or the one there is, of which only the content to write changes.
LEMMA WithEditFacts ==
    ASSUME NEW p \in Seq(Entries), NEW m \in {"edit", "intents"}, NEW f \in Files, NEW op \in Changes,
           disk[f] \in Contents
    PROVE  /\ WithEdit(p, m, f, op) \in Seq(Entries)
           /\ Len(WithEdit(p, m, f, op)) \in {Len(p), Len(p) + 1}
           /\ Len(WithEdit(p, m, f, op)) > 0
           /\ \A k \in 1 .. Len(p) :
                /\ WithEdit(p, m, f, op)[k].file = p[k].file
                /\ WithEdit(p, m, f, op)[k].old = p[k].old
                /\ p[k].new \subseteq WithEdit(p, m, f, op)[k].new
           /\ Len(WithEdit(p, m, f, op)) = Len(p) + 1 =>
                /\ WithEdit(p, m, f, op)[Len(p) + 1] = NewEntry(f, op)
                /\ m = "edit" \/ \A k \in 1 .. Len(p) : p[k].file # f
           /\ Plans(WithEdit(p, m, f, op), f, op)
<1> DEFINE q == WithEdit(p, m, f, op)
<1>1. /\ NewEntry(f, op) \in Entries /\ NewEntry(f, op).file = f /\ op \in NewEntry(f, op).new
      /\ Len(p) \in Nat
  BY LenProperties DEF NewEntry, Entries, Contents
<1>2. CASE m = "edit" \/ EntryOf(p, f) = 0
  <2>1. q = Append(p, NewEntry(f, op))
    BY <1>2 DEF WithEdit
  <2>2. m = "edit" \/ \A k \in 1 .. Len(p) : p[k].file # f
    <3>1. ASSUME EntryOf(p, f) = 0, NEW k \in 1 .. Len(p), p[k].file = f PROVE FALSE
      <4>1. EntryOf(p, f) \in 1 .. Len(p)
        BY <3>1 DEF EntryOf
      <4>2. QED
        BY <1>1, <3>1, <4>1
    <3>2. QED
      BY <1>2, <3>1
  <2> HIDE DEF q
  <2>3. /\ q \in Seq(Entries) /\ Len(q) = Len(p) + 1 /\ q[Len(p) + 1] = NewEntry(f, op)
        /\ \A k \in 1 .. Len(p) : q[k] = p[k]
    BY <1>1, <2>1, AppendProperties
  <2>4. Len(p) + 1 \in 1 .. Len(q)
    BY <1>1, <2>3
  <2>5. Plans(q, f, op)
    BY <1>1, <2>3, <2>4 DEF Plans
  <2>6. QED
    BY <1>1, <2>2, <2>3, <2>5 DEF q
<1>3. CASE ~(m = "edit" \/ EntryOf(p, f) = 0)
  <2> DEFINE k == EntryOf(p, f)
             more == [p[k] EXCEPT !.new = @ \cup {op}]
  <2>1. k \in 1 .. Len(p) /\ p[k].file = f
    BY <1>3 DEF EntryOf
  <2>2. p[k] \in Entries
    BY <2>1, ElementOfSeq
  <2>3. q = [p EXCEPT ![k] = more]
    BY <1>3 DEF WithEdit
  <2>4. /\ more \in Entries /\ more.file = p[k].file /\ more.old = p[k].old
        /\ p[k].new \subseteq more.new /\ op \in more.new
    BY <2>2 DEF Entries, Contents
  <2> HIDE DEF more, k, q
  <2>5. /\ q \in Seq(Entries) /\ Len(q) = Len(p)
        /\ \A i \in 1 .. Len(p) : q[i] = IF i = k THEN more ELSE p[i]
    BY <2>1, <2>3, <2>4, ExceptSeq
  <2>6. Plans(q, f, op)
    BY <2>1, <2>4, <2>5 DEF Plans
  <2>7. \A i \in 1 .. Len(p) :
          q[i].file = p[i].file /\ q[i].old = p[i].old /\ p[i].new \subseteq q[i].new
    BY <2>1, <2>4, <2>5
  <2>8. QED
    BY <1>1, <2>1, <2>5, <2>6, <2>7 DEF q
<1>4. QED
  BY <1>2, <1>3

-----------------------------------------------------------------------------
(***************************************************************************)
(* What a batch in progress knows about its own plan and backups.          *)
(***************************************************************************)

\* The phases of one batch: nothing is backed up before the swaps; a plan
\* under construction is shorter than the edits read so far; every entry
\* swapped, and every entry still to be undone, has its backup; no rollback
\* has failed before there is one.
Work(e) ==
    /\ pc[e] \in Planning => \A k \in Ops : backup[e][k] = None
    /\ pc[e] \in Planning \cup Swapping \cup {"cleanup"} => "rollback" \notin errors[e]
    /\ pc[e] \in {"idle", "draft"} => plan[e] = <<>>
    /\ pc[e] = "idle" => at[e] = 1
    /\ pc[e] \in {"draft", "build"} => batch[e] \in Batches /\ at[e] <= Len(batch[e])
    /\ pc[e] = "build" => Len(plan[e]) < at[e]
    /\ pc[e] = "stage" => at[e] = 1
    /\ pc[e] \in {"stage"} \cup Swapping => at[e] <= Len(plan[e])
    /\ pc[e] \in Swapping => \A k \in 1 .. at[e] - 1 : backup[e][k] # None
    /\ pc[e] \in {"persist", "putback"} => backup[e][at[e]] # None
    /\ pc[e] = "cleanup" => at[e] = Len(plan[e]) + 1
    /\ pc[e] \in {"undo", "restore"} =>
         undo[e] <= Len(plan[e]) /\ \A k \in 1 .. undo[e] : backup[e][k] # None
    /\ pc[e] = "restore" => undo[e] > 0

WorkInv == \A e \in Editors : Work(e)
Typing  == TypeOK /\ WorkInv

Original == <<None, 0>>

\* The original text is in every file that exists, in every planned content
\* and in every backup.
OriginalIn(e) ==
    /\ \A k \in 1 .. Len(plan[e]) : Original \in plan[e][k].new
    /\ \A k \in Ops : backup[e][k] # None => Original \in backup[e][k]

OriginalInv ==
    /\ \A f \in Files : disk[f] # None => Original \in disk[f]
    /\ \A e \in Editors : OriginalIn(e)

\* Entry k of e's plan has moved file f away and will not forget its backup
\* before it puts something in its place.
Holds(e, k, f) ==
    /\ plan[e][k].file = f
    /\ backup[e][k] # None
    /\ \/ k = at[e]
       \/ pc[e] = "restore" /\ k = undo[e]
       \/ "rollback" \in errors[e]
       \/ pc[e] = "crashed"

\* A file that does not exist is held by an entry of a batch.
AbsentInv ==
    \A f \in Files : disk[f] = None =>
        \E e \in Editors : \E k \in 1 .. Len(plan[e]) : Holds(e, k, f)

-----------------------------------------------------------------------------
(***************************************************************************)
(* Type correctness and the phases of a batch.                             *)
(***************************************************************************)

\* An entry of a plan is a file of the batch and a content to write.
LEMMA EntryFacts ==
    ASSUME TypeOK, NEW e \in Editors, NEW k \in 1 .. Len(plan[e])
    PROVE  /\ k \in Ops
           /\ plan[e][k] \in Entries
           /\ plan[e][k].file \in Files
           /\ plan[e][k].new \in Contents
<1>1. plan[e] \in Seq(Entries) /\ Len(plan[e]) <= MaxOps
  BY DEF TypeOK
<1>2. plan[e][k] \in Entries
  BY <1>1, ElementOfSeq
<1>3. Len(plan[e]) \in Nat
  BY <1>1, LenProperties
<1>4. QED
  BY <1>1, <1>2, <1>3 DEF Entries, Ops

\* What a step of one batch leaves to the others.
Same(x) ==
    /\ pc'[x] = pc[x] /\ batch'[x] = batch[x] /\ plan'[x] = plan[x] /\ at'[x] = at[x]
    /\ undo'[x] = undo[x] /\ backup'[x] = backup[x] /\ errors'[x] = errors[x]

\* The work of the other editors does not change in a step of one.
LEMMA OthersAreSame ==
    ASSUME TypeOK, NEW e \in Editors, Run(e) \/ Crash(e), NEW x \in Editors, x # e
    PROVE  Same(x)
<1> USE DEF Same, input, world
<1>1. ASSUME NEW m \in {"edit", "intents"}, NEW b \in Batches, Begin(e, m, b)
      PROVE  Same(x)
  BY <1>1 DEF Begin, TypeOK
<1>2. CASE Draft(e) \/ Build(e)
  BY <1>2 DEF Draft, Build, Advance, TypeOK
<1>3. CASE Refuse(e) \/ Stage(e) \/ Crash(e)
  BY <1>3 DEF Refuse, Stage, Crash, TypeOK
<1>4. CASE Backup(e) \/ BackupFails(e) \/ Persist(e) \/ PersistFails(e)
  BY <1>4 DEF Backup, BackupFails, Persist, PersistFails, TypeOK
<1>5. CASE PutBack(e) \/ PutBackFails(e)
  BY <1>5 DEF PutBack, PutBackFails, TypeOK
<1>6. CASE Remove(e) \/ RemoveFails(e) \/ Restore(e) \/ RestoreFails(e)
  BY <1>6 DEF Remove, RemoveFails, Restore, RestoreFails, TypeOK
<1>7. CASE EndRollback(e) \/ Cleanup(e)
  BY <1>7 DEF EndRollback, Cleanup, WithoutBackups, TypeOK
<1>8. QED
  BY <1>1, <1>2, <1>3, <1>4, <1>5, <1>6, <1>7 DEF Run

\* What holds of an editor at work keeps holding while its state does not change.
LEMMA WorkOfOthers ==
    ASSUME NEW x \in Editors, Work(x), Same(x)
    PROVE  Work(x)'
BY DEF Work, Same

\* The entry being swapped, and the entry being undone.
LEMMA SwappingFacts ==
    ASSUME Typing, NEW e \in Editors, pc[e] \in Swapping
    PROVE  /\ Len(plan[e]) \in Nat /\ Len(plan[e]) <= MaxOps
           /\ at[e] \in 1 .. Len(plan[e]) /\ at[e] \in Ops
           /\ Entry(e).file \in Files /\ Entry(e).new \in Contents
<1>1. TypeOK /\ Work(e) /\ Len(plan[e]) \in Nat
  BY LenProperties DEF Typing, WorkInv, TypeOK
<1>2. at[e] \in 1 .. Len(plan[e]) /\ at[e] \in Ops
  BY <1>1 DEF TypeOK, Work, Ops
<1>3. QED
  BY <1>1, <1>2, EntryFacts DEF Entry, TypeOK

\* The entry that is undone is one of the plan, and its backup has its text.
LEMMA UndoFacts ==
    ASSUME Typing, NEW e \in Editors, pc[e] \in {"undo", "restore"}, undo[e] > 0
    PROVE  /\ undo[e] \in 1 .. Len(plan[e]) /\ undo[e] \in Ops
           /\ Undone(e) \in Files
           /\ backup[e][undo[e]] \in Contents
<1>1. TypeOK /\ Work(e) /\ Len(plan[e]) \in Nat
  BY LenProperties DEF Typing, WorkInv, TypeOK
<1>2. undo[e] \in 1 .. Len(plan[e]) /\ undo[e] \in Ops
  BY <1>1 DEF TypeOK, Work, Ops
<1>3. QED
  BY <1>1, <1>2, EntryFacts DEF Undone, TypeOK, Work

\* Planning: the batch is read, its plan grows, nothing is backed up.
LEMMA PlanningStep ==
    ASSUME Typing, NEW e \in Editors,
           \/ \E m \in {"edit", "intents"}, b \in Batches : Begin(e, m, b)
           \/ Draft(e) \/ Build(e) \/ Refuse(e) \/ Stage(e)
    PROVE  TypeOK' /\ Work(e)'
<1> USE DEF Typing, Planning, Swapping, input, world
<1>0. TypeOK /\ Work(e)
  BY DEF WorkInv
<1>1. ASSUME NEW m \in {"edit", "intents"}, NEW b \in Batches, Begin(e, m, b)
      PROVE  TypeOK' /\ Work(e)'
  <2>1. Len(b) \in Ops
    BY BatchFacts
  <2>2. TypeOK'
    BY <1>0, <1>1 DEF Begin, TypeOK, Phases, Finished
  <2>3. plan[e] = <<>> /\ at[e] = 1 /\ Len(plan[e]) = 0
    BY <1>0, <1>1 DEF Begin, Work
  <2>4. /\ pc'[e] \in {"build", "draft"} /\ batch'[e] = b
        /\ plan' = plan /\ at' = at /\ undo' = undo /\ backup' = backup /\ errors' = errors
    BY <1>0, <1>1 DEF Begin, TypeOK
  <2>5. Work(e)'
    BY <1>0, <1>1, <2>1, <2>3, <2>4 DEF Begin, Work, Ops
  <2>6. QED
    BY <2>2, <2>5
<1>2. ASSUME pc[e] \in {"draft", "build"}
      PROVE  /\ batch[e] \in Batches /\ Len(batch[e]) \in Ops /\ at[e] \in 1 .. Len(batch[e])
             /\ batch[e][at[e]] \in Files /\ at[e] \in Ops
  BY <1>0, <1>2, BatchFacts, SMTT(30) DEF Work, TypeOK, Ops
<1>3. ASSUME NEW next \in {"build", "stage"}, Advance(e, next), pc[e] \in {"draft", "build"}
      PROVE  /\ at' \in [Editors -> 1 .. MaxOps + 1]
             /\ pc' \in [Editors -> Phases]
             /\ \/ pc'[e] = next /\ at'[e] = 1 /\ at[e] = Len(batch[e])
                \/ pc'[e] = pc[e] /\ at'[e] = at[e] + 1 /\ at'[e] <= Len(batch[e])
  <2>1. /\ at[e] \in 1 .. Len(batch[e]) /\ Len(batch[e]) \in Ops
        /\ at \in [Editors -> 1 .. MaxOps + 1] /\ pc \in [Editors -> Phases]
    BY <1>0, <1>2, <1>3 DEF TypeOK
  <2>2. CASE at[e] = Len(batch[e])
    BY <1>3, <2>1, <2>2 DEF Advance, Ops, Phases
  <2>3. CASE at[e] # Len(batch[e])
    BY <1>3, <2>1, <2>3 DEF Advance, Ops
  <2>4. QED
    BY <2>2, <2>3
<1>4. CASE Draft(e)
  <2>1. /\ at' \in [Editors -> 1 .. MaxOps + 1]
        /\ pc' \in [Editors -> Phases]
        /\ \/ pc'[e] = "build" /\ at'[e] = 1
           \/ pc'[e] = "draft" /\ at'[e] = at[e] + 1 /\ at'[e] <= Len(batch[e])
    BY <1>3, <1>4 DEF Draft
  <2>2. disk[batch[e][at[e]]] \in Contents
    BY <1>0, <1>2, <1>4 DEF Draft, TypeOK
  <2>3. TypeOK'
    BY <1>0, <1>2, <1>4, <2>1, <2>2 DEF Draft, TypeOK, Phases, Finished
  <2>4. plan[e] = <<>> /\ Len(plan[e]) = 0
    BY <1>0, <1>4 DEF Draft, Work
  <2>5. Work(e)'
    BY <1>0, <1>2, <1>4, <2>1, <2>4, SMTT(30) DEF Draft, Work, Ops, TypeOK
  <2>6. QED
    BY <2>3, <2>5
<1>5. CASE Build(e)
  <2> DEFINE f == batch[e][at[e]]
             p == plan[e]
             q == WithEdit(p, mode[e], f, <<e, at[e]>>)
  <2>1. /\ at' \in [Editors -> 1 .. MaxOps + 1]
        /\ pc' \in [Editors -> Phases]
        /\ \/ pc'[e] = "stage" /\ at'[e] = 1
           \/ pc'[e] = "build" /\ at'[e] = at[e] + 1 /\ at'[e] <= Len(batch[e])
    BY <1>3, <1>5 DEF Build
  <2>2. /\ p \in Seq(Entries) /\ Len(p) \in Nat /\ Len(p) < at[e]
        /\ f \in Files /\ disk[f] \in Contents /\ <<e, at[e]>> \in Changes
        /\ mode[e] \in {"edit", "intents"}
    BY <1>0, <1>2, <1>5, LenProperties DEF Build, Work, TypeOK, Changes
  <2>3. q \in Seq(Entries) /\ Len(q) \in {Len(p), Len(p) + 1} /\ Len(q) > 0
    BY <2>2, WithEditFacts
  <2>4. plan' = [plan EXCEPT ![e] = q]
    BY <1>5 DEF Build
  <2> HIDE DEF q, p
  <2>5. plan' \in [Editors -> Seq(Entries)] /\ \A x \in Editors : Len(plan'[x]) <= MaxOps
    <3>1. plan'[e] = q /\ \A x \in Editors : x # e => plan'[x] = plan[x]
      BY <1>0, <2>4 DEF TypeOK
    <3>2. Len(q) <= MaxOps
      BY <1>2, <1>5, <2>2, <2>3 DEF Build, Ops
    <3>3. QED
      BY <1>0, <2>3, <2>4, <3>1, <3>2 DEF TypeOK
  <2>6. TypeOK'
    BY <1>0, <1>5, <2>1, <2>5 DEF Build, TypeOK, Phases, Finished
  <2>7. Work(e)'
    BY <1>0, <1>2, <1>5, <2>1, <2>2, <2>3, <2>4, SMTT(30) DEF Build, Work, Ops, TypeOK
  <2>8. QED
    BY <2>6, <2>7
<1>6. CASE Refuse(e)
  BY <1>0, <1>6 DEF Refuse, TypeOK, Work, Phases, Finished
<1>7. CASE Stage(e)
  BY <1>0, <1>7 DEF Stage, TypeOK, Work, Phases, Finished
<1>8. QED
  BY <1>1, <1>4, <1>5, <1>6, <1>7

\* Swapping: the entries before `at` have their backups.
LEMMA SwappingStep ==
    ASSUME Typing, NEW e \in Editors,
           \/ Backup(e) \/ BackupFails(e) \/ Persist(e) \/ PersistFails(e)
           \/ PutBack(e) \/ PutBackFails(e)
    PROVE  TypeOK' /\ Work(e)'
<1> USE DEF Typing, Planning, Swapping, input, world, Entry, Fault
<1>0. TypeOK /\ Work(e)
  BY DEF WorkInv
<1>1. pc[e] \in Swapping
  BY DEF Backup, BackupFails, Persist, PersistFails, PutBack, PutBackFails
<1>2. /\ Len(plan[e]) \in Nat /\ Len(plan[e]) <= MaxOps
      /\ at[e] \in 1 .. Len(plan[e]) /\ at[e] \in Ops
      /\ Entry(e).file \in Files /\ Entry(e).new \in Contents
  BY <1>1, SwappingFacts
<1> HIDE DEF Entry
<1>3. CASE Backup(e)
  <2>1. disk[Entry(e).file] \in Contents
    BY <1>0, <1>2, <1>3 DEF Backup, TypeOK
  <2>2. /\ backup' \in [Editors -> [Ops -> {None} \cup Contents]]
        /\ backup'[e][at[e]] # None
        /\ \A k \in Ops : k # at[e] => backup'[e][k] = backup[e][k]
    BY <1>0, <1>1, <1>2, <1>3, <2>1 DEF Backup, TypeOK
  <2>3. TypeOK'
    BY <1>0, <1>2, <1>3, <2>2 DEF Backup, TypeOK, Phases, Finished
  <2>4. Work(e)'
    BY <1>0, <1>1, <1>2, <1>3, <2>2 DEF Backup, Work, TypeOK, Ops
  <2>5. QED
    BY <2>3, <2>4
<1>4. CASE BackupFails(e)
  <2>1. TypeOK'
    BY <1>0, <1>1, <1>2, <1>4 DEF BackupFails, TypeOK, Phases, Finished, Ops
  <2>2. Work(e)'
    BY <1>0, <1>1, <1>2, <1>4 DEF BackupFails, Work, TypeOK
  <2>3. QED
    BY <2>1, <2>2
<1>5. CASE Persist(e)
  <2>1. TypeOK'
    <3>1. at[e] + 1 \in 1 .. MaxOps + 1
      BY <1>1, <1>2 DEF Ops
    <3>2. disk' \in [Files -> {None} \cup Contents] /\ pc' \in [Editors -> Phases]
      BY <1>0, <1>2, <1>5 DEF Persist, TypeOK, Phases
    <3>3. at' \in [Editors -> 1 .. MaxOps + 1]
      BY <1>0, <1>5, <3>1 DEF Persist, TypeOK
    <3>4. QED
      BY <1>0, <1>5, <3>2, <3>3 DEF Persist, TypeOK
  <2>2. Work(e)'
    BY <1>0, <1>1, <1>2, <1>5 DEF Persist, Work, TypeOK, Ops
  <2>3. QED
    BY <2>1, <2>2
<1>6. CASE PersistFails(e)
  <2>1. TypeOK'
    BY <1>0, <1>6 DEF PersistFails, TypeOK, Phases, Finished
  <2>2. Work(e)'
    BY <1>0, <1>1, <1>2, <1>6 DEF PersistFails, Work, TypeOK
  <2>3. QED
    BY <2>1, <2>2
<1>7. CASE PutBack(e)
  <2>1. /\ backup' \in [Editors -> [Ops -> {None} \cup Contents]]
        /\ \A k \in Ops : k # at[e] => backup'[e][k] = backup[e][k]
    BY <1>0, <1>1, <1>2, <1>7 DEF PutBack, TypeOK
  <2>2. TypeOK'
    BY <1>0, <1>1, <1>2, <1>7, <2>1 DEF PutBack, TypeOK, Phases, Finished, Ops
  <2>3. Work(e)'
    BY <1>0, <1>1, <1>2, <1>7, <2>1 DEF PutBack, Work, TypeOK, Ops
  <2>4. QED
    BY <2>2, <2>3
<1>8. CASE PutBackFails(e)
  <2>1. TypeOK'
    BY <1>0, <1>1, <1>2, <1>8 DEF PutBackFails, TypeOK, Phases, Finished, Ops
  <2>2. Work(e)'
    BY <1>0, <1>1, <1>2, <1>8 DEF PutBackFails, Work, TypeOK, Ops
  <2>3. QED
    BY <2>1, <2>2
<1>9. QED
  BY <1>3, <1>4, <1>5, <1>6, <1>7, <1>8

\* Rolling back, cleaning up, crashing: the entries up to `undo` have their
\* backups.
LEMMA EndingStep ==
    ASSUME Typing, NEW e \in Editors,
           \/ Remove(e) \/ RemoveFails(e) \/ Restore(e) \/ RestoreFails(e)
           \/ EndRollback(e) \/ Cleanup(e) \/ Crash(e)
    PROVE  TypeOK' /\ Work(e)'
<1> USE DEF Typing, Planning, Swapping, input, world, Undone, Fault
<1>0. TypeOK /\ Work(e) /\ Len(plan[e]) \in Nat
  BY LenProperties DEF WorkInv, TypeOK
<1>1. ASSUME pc[e] \in {"undo", "restore"}, undo[e] > 0
      PROVE  undo[e] \in 1 .. Len(plan[e]) /\ undo[e] \in Ops /\ Undone(e) \in Files
  BY <1>1, UndoFacts
<1> HIDE DEF Undone
<1>2. CASE Remove(e)
  <2>1. TypeOK'
    BY <1>0, <1>1, <1>2 DEF Remove, TypeOK, Phases, Finished
  <2>2. Work(e)'
    BY <1>0, <1>1, <1>2 DEF Remove, Work, TypeOK
  <2>3. QED
    BY <2>1, <2>2
<1>3. CASE RemoveFails(e)
  <2>1. TypeOK'
    BY <1>0, <1>1, <1>3 DEF RemoveFails, TypeOK, Phases, Finished, Ops
  <2>2. Work(e)'
    BY <1>0, <1>1, <1>3 DEF RemoveFails, Work, TypeOK, Ops
  <2>3. QED
    BY <2>1, <2>2
<1>4. CASE Restore(e)
  <2>0. undo[e] > 0
    BY <1>0, <1>4 DEF Restore, Work
  <2>1. /\ backup' \in [Editors -> [Ops -> {None} \cup Contents]]
        /\ \A k \in Ops : k # undo[e] => backup'[e][k] = backup[e][k]
    BY <1>0, <1>1, <1>4, <2>0 DEF Restore, TypeOK
  <2>2. TypeOK'
    BY <1>0, <1>1, <1>4, <2>0, <2>1 DEF Restore, TypeOK, Phases, Finished, Ops
  <2>3. Work(e)'
    BY <1>0, <1>1, <1>4, <2>0, <2>1 DEF Restore, Work, TypeOK, Ops
  <2>4. QED
    BY <2>2, <2>3
<1>5. CASE RestoreFails(e)
  <2>0. undo[e] > 0
    BY <1>0, <1>5 DEF RestoreFails, Work
  <2>1. TypeOK'
    BY <1>0, <1>1, <1>5, <2>0 DEF RestoreFails, TypeOK, Phases, Finished, Ops
  <2>2. Work(e)'
    BY <1>0, <1>1, <1>5, <2>0 DEF RestoreFails, Work, TypeOK, Ops
  <2>3. QED
    BY <2>1, <2>2
<1>6. CASE EndRollback(e)
  <2>1. TypeOK'
    BY <1>0, <1>6 DEF EndRollback, WithoutBackups, TypeOK, Phases, Finished
  <2>2. Work(e)'
    BY <1>0, <1>6 DEF EndRollback, Work, TypeOK
  <2>3. QED
    BY <2>1, <2>2
<1>7. CASE Cleanup(e)
  <2>1. TypeOK'
    BY <1>0, <1>7 DEF Cleanup, WithoutBackups, TypeOK, Phases, Finished
  <2>2. Work(e)'
    BY <1>0, <1>7 DEF Cleanup, Work, TypeOK
  <2>3. QED
    BY <2>1, <2>2
<1>8. CASE Crash(e)
  BY <1>0, <1>8 DEF Crash, TypeOK, Work, Phases, Finished
<1>9. QED
  BY <1>2, <1>3, <1>4, <1>5, <1>6, <1>7, <1>8

\* A save adds to one file.
LEMMA SaveFacts ==
    ASSUME TypeOK, NEW f \in Files, Save(f)
    PROVE  /\ saves + 1 \in 0 .. MaxSaves
           /\ disk'[f] \in Contents /\ disk[f] \subseteq disk'[f]
           /\ \A g \in Files : g # f => disk'[g] = disk[g]
           /\ disk' \in [Files -> {None} \cup Contents]
<1>1. disk[f] \in Contents /\ <<None, saves + 1>> \in Changes /\ saves + 1 \in 0 .. MaxSaves
  BY DEF TypeOK, Save, Changes
<1>2. disk[f] \cup {<<None, saves + 1>>} \in Contents
  BY <1>1 DEF Contents
<1>3. QED
  BY <1>1, <1>2 DEF TypeOK, Save

\* A user saving a file keeps the types.
LEMMA SaveStep ==
    ASSUME Typing, NEW f \in Files, Save(f)
    PROVE  Typing'
<1>1. TypeOK'
  BY SaveFacts DEF Typing, TypeOK, Save, input
<1>2. \A e \in Editors : Same(e)
  BY DEF Save, Same, input
<1>3. QED
  BY <1>1, <1>2, WorkOfOthers DEF Typing, WorkInv

\* The typing invariant holds initially.
LEMMA TypingInit == Init => Typing
<1> SUFFICES ASSUME Init PROVE Typing
  OBVIOUS
<1>1. Len(<<>>) = 0 /\ <<>> \in Seq(Entries)
  BY EmptySeq
<1>2. {<<None, 0>>} \in Contents
  BY DEF Contents, Changes
<1>3. TypeOK
  BY <1>1, <1>2 DEF Init, TypeOK, Phases, Ops
<1>4. WorkInv
  BY DEF Init, WorkInv, Work, Planning, Swapping
<1>5. QED
  BY <1>3, <1>4 DEF Typing

\* Every step keeps the typing invariant.
LEMMA TypingStep == Typing /\ [Next]_vars => Typing'
<1> SUFFICES ASSUME Typing, [Next]_vars PROVE Typing'
  OBVIOUS
<1>1. ASSUME NEW e \in Editors, Run(e) \/ Crash(e)
      PROVE  Typing'
  <2>1. TypeOK' /\ Work(e)'
    BY <1>1, PlanningStep, SwappingStep, EndingStep DEF Run
  <2>2. \A x \in Editors : x # e => Work(x)'
    BY <1>1, OthersAreSame, WorkOfOthers DEF Typing, WorkInv
  <2>3. QED
    BY <2>1, <2>2 DEF Typing, WorkInv
<1>2. CASE UNCHANGED vars
  <2>1. TypeOK'
    BY <1>2 DEF Typing, TypeOK, vars
  <2>2. \A e \in Editors : Same(e)
    BY <1>2 DEF vars, Same
  <2>3. QED
    BY <2>1, <2>2, WorkOfOthers DEF Typing, WorkInv
<1>3. QED
  BY <1>1, <1>2, SaveStep DEF Next

\* Every reachable state is of the declared types, whatever the number of
\* batches, edits, saves and faults: no batch reads an entry its plan does not
\* have, nor restores a backup it did not make.
THEOREM TypeCorrect == Spec => []TypeOK
<1>1. Typing => TypeOK
  BY DEF Typing
<1>2. QED
  BY <1>1, TypingInit, TypingStep, PTL DEF Spec

-----------------------------------------------------------------------------
(***************************************************************************)
(* The original text.                                                      *)
(***************************************************************************)

\* Whoever writes a file or a plan keeps the original text in it.
LEMMA OriginalStep ==
    ASSUME Typing, OriginalInv, NEW e \in Editors, Run(e) \/ Crash(e)
    PROVE  OriginalInv'
<1> USE DEF input, world
<1>0. TypeOK /\ Work(e) /\ OriginalIn(e) /\ Len(plan[e]) \in Nat
  BY LenProperties DEF Typing, WorkInv, TypeOK, OriginalInv
<1>1. \A x \in Editors : x # e => OriginalIn(x)'
  BY <1>0, OthersAreSame DEF Same, OriginalInv, OriginalIn
<1>2. SUFFICES (\A f \in Files : disk'[f] # None => Original \in disk'[f]) /\ OriginalIn(e)'
  BY <1>1 DEF OriginalInv
<1>3. ASSUME UNCHANGED <<disk, plan, backup>>
      PROVE  (\A f \in Files : disk'[f] # None => Original \in disk'[f]) /\ OriginalIn(e)'
  BY <1>0, <1>3 DEF OriginalInv, OriginalIn
<1>4. CASE Build(e)
  <2> DEFINE f == batch[e][at[e]]
             p == plan[e]
             m == mode[e]
             op == <<e, at[e]>>
             q == WithEdit(p, m, f, op)
  <2>1. f \in Files /\ at[e] \in Ops
    BY <1>0, <1>4, BatchFacts DEF Build, Work, TypeOK, Ops
  <2>2. /\ p \in Seq(Entries) /\ disk[f] \in Contents /\ op \in Changes
        /\ f \in Files /\ m \in {"edit", "intents"}
    BY <1>0, <1>4, <2>1 DEF Build, TypeOK, Changes
  <2>3. plan'[e] = q /\ disk' = disk /\ backup' = backup /\ Original \in disk[f]
    BY <1>0, <1>4, <2>1 DEF Build, TypeOK, OriginalInv
  <2> HIDE DEF f, op, p, m
  <2>4. /\ Len(q) \in {Len(p), Len(p) + 1}
        /\ \A k \in 1 .. Len(p) : p[k].new \subseteq q[k].new
    BY <2>2, WithEditFacts
  <2>5. Len(q) = Len(p) + 1 => q[Len(p) + 1] = NewEntry(f, op)
    BY <2>2, WithEditFacts
  <2> HIDE DEF q
  <2>6. \A k \in 1 .. Len(q) : Original \in q[k].new
    <3> TAKE k \in 1 .. Len(q)
    <3>1. CASE k \in 1 .. Len(p)
      BY <1>0, <2>4, <3>1 DEF OriginalIn, p
    <3>2. CASE k = Len(p) + 1 /\ Len(q) = Len(p) + 1
      BY <2>3, <2>5, <3>2 DEF NewEntry
    <3>3. QED
      BY <1>0, <2>4, <3>1, <3>2 DEF p
  <2>7. QED
    BY <1>0, <2>3, <2>6 DEF OriginalInv, OriginalIn
<1>5. CASE Backup(e) \/ Persist(e) \/ PutBack(e)
  <2>1. /\ at[e] \in 1 .. Len(plan[e]) /\ at[e] \in Ops /\ Entry(e).file \in Files
        /\ Original \in Entry(e).new
    BY <1>0, <1>5, SwappingFacts DEF Backup, Persist, PutBack, Swapping, OriginalIn, Entry
  <2> HIDE DEF Entry
  <2>2. CASE Backup(e)
    BY <1>0, <2>1, <2>2 DEF Backup, TypeOK, OriginalInv, OriginalIn
  <2>3. CASE Persist(e)
    BY <1>0, <2>1, <2>3 DEF Persist, TypeOK, OriginalInv, OriginalIn
  <2>4. CASE PutBack(e)
    BY <1>0, <2>1, <2>4 DEF PutBack, TypeOK, OriginalInv, OriginalIn
  <2>5. QED
    BY <1>5, <2>2, <2>3, <2>4
<1>6. CASE Remove(e)
  BY <1>0, <1>6 DEF Remove, TypeOK, OriginalInv, OriginalIn
<1>7. CASE Restore(e)
  <2>1. undo[e] \in Ops /\ Undone(e) \in Files /\ backup[e][undo[e]] # None
    BY <1>0, <1>7, UndoFacts DEF Restore, Work
  <2> HIDE DEF Undone
  <2>2. QED
    BY <1>0, <1>7, <2>1 DEF Restore, TypeOK, OriginalInv, OriginalIn
<1>8. CASE EndRollback(e) \/ Cleanup(e)
  <2>1. disk' = disk /\ plan' = plan
        /\ \A k \in Ops : backup'[e][k] \in {None, backup[e][k]}
    BY <1>0, <1>8 DEF EndRollback, Cleanup, WithoutBackups, TypeOK
  <2>2. QED
    BY <1>0, <2>1 DEF OriginalInv, OriginalIn
<1>9. CASE UNCHANGED <<disk, plan, backup>>
  BY <1>3, <1>9
<1>10. QED
  BY <1>4, <1>5, <1>6, <1>7, <1>8, <1>9 DEF Run, Begin, Draft, Refuse, Stage, BackupFails,
     PersistFails, PutBackFails, RemoveFails, RestoreFails, Crash

\* Another program, or nobody, leaves the original text where it is.
LEMMA OriginalKept ==
    ASSUME TypeOK, OriginalInv, UNCHANGED <<plan, backup>>,
           \/ UNCHANGED disk
           \/ \E f \in Files : Save(f)
    PROVE  OriginalInv'
<1>1. \A f \in Files : disk'[f] # None => Original \in disk'[f]
  <2>1. CASE UNCHANGED disk
    BY <2>1 DEF OriginalInv
  <2>2. ASSUME NEW f \in Files, Save(f)
        PROVE  \A g \in Files : disk'[g] # None => Original \in disk'[g]
    <3>1. Original \in disk[f]
      BY <2>2 DEF Save, OriginalInv
    <3>2. QED
      BY <2>2, <3>1, SaveFacts DEF OriginalInv
  <2>3. QED
    BY <2>1, <2>2
<1>2. QED
  BY <1>1 DEF OriginalInv, OriginalIn

\* A file taken away by a step is held by the entry the step is processing.
LEMMA NewlyHeld ==
    ASSUME Typing, NEW e \in Editors, Run(e) \/ Crash(e),
           NEW f \in Files, disk[f] # None, disk'[f] = None
    PROVE  \E k \in 1 .. Len(plan'[e]) : Holds(e, k, f)'
<1> USE DEF input, world
<1>0. TypeOK /\ Work(e)
  BY DEF Typing, WorkInv
<1>1. CASE Backup(e)
  <2>1. /\ at[e] \in 1 .. Len(plan[e]) /\ at[e] \in Ops
        /\ Entry(e).file \in Files
    BY <1>1, SwappingFacts DEF Backup, Swapping
  <2>2. f = Entry(e).file /\ plan' = plan /\ at' = at
    BY <1>0, <1>1, <2>1 DEF Backup, TypeOK
  <2>3. backup'[e][at[e]] = disk[f]
    BY <1>0, <1>1, <2>1, <2>2 DEF Backup, TypeOK
  <2>4. Holds(e, at[e], f)'
    BY <2>2, <2>3 DEF Holds, Entry
  <2>5. QED
    BY <2>1, <2>2, <2>4
<1>2. CASE Remove(e)
  <2>1. undo[e] \in 1 .. Len(plan[e]) /\ backup[e][undo[e]] # None
    BY <1>0, <1>2, UndoFacts DEF Remove, Work, TypeOK
  <2>2. /\ f = Undone(e) /\ plan' = plan /\ undo' = undo /\ backup' = backup
        /\ pc'[e] = "restore"
    BY <1>0, <1>2 DEF Remove, TypeOK
  <2>3. Holds(e, undo[e], f)'
    BY <2>1, <2>2 DEF Holds, Undone
  <2>4. QED
    BY <2>1, <2>2, <2>3
<1>3. CASE Persist(e) \/ PutBack(e)
  <2>1. /\ at[e] \in Ops /\ Entry(e).file \in Files /\ Entry(e).new # None
        /\ backup[e][at[e]] # None
    BY <1>0, <1>3, SwappingFacts DEF Persist, PutBack, Swapping, Work
  <2> HIDE DEF Entry
  <2>2. QED
    BY <1>0, <1>3, <2>1 DEF Persist, PutBack, TypeOK
<1>4. CASE Restore(e)
  <2>1. backup[e][undo[e]] # None /\ Undone(e) \in Files
    BY <1>0, <1>4, UndoFacts DEF Restore, Work
  <2> HIDE DEF Undone
  <2>2. QED
    BY <1>0, <1>4, <2>1 DEF Restore, TypeOK
<1>5. CASE UNCHANGED disk
  BY <1>5
<1>6. QED
  BY <1>1, <1>2, <1>3, <1>4, <1>5 DEF Run, Begin, Draft, Build, Refuse, Stage, BackupFails,
     PersistFails, PutBackFails, RemoveFails, RestoreFails, EndRollback, Cleanup, Crash

\* An entry that holds a file keeps holding it until its batch puts something
\* in its place.
LEMMA StillHeld ==
    ASSUME Typing, NEW e \in Editors, Run(e) \/ Crash(e),
           NEW f \in Files, NEW k \in 1 .. Len(plan[e]), Holds(e, k, f), disk'[f] = None
    PROVE  k \in 1 .. Len(plan'[e]) /\ Holds(e, k, f)'
<1> USE DEF input, world, Holds
<1>0. TypeOK /\ Work(e) /\ k \in Ops /\ Len(plan[e]) \in Nat
  BY EntryFacts, LenProperties DEF Typing, WorkInv, TypeOK
<1>1. pc[e] \notin Planning
  BY <1>0 DEF Work
<1>2. CASE Backup(e)
  <2>1. at[e] \in Ops
    BY <1>2, SwappingFacts DEF Backup, Swapping
  <2>2. disk[Entry(e).file] # None
    BY <1>2 DEF Backup
  <2>3. backup'[e][k] # None
    BY <1>0, <1>2, <2>1, <2>2 DEF Backup, TypeOK
  <2>4. pc[e] = "swap"
    BY <1>2 DEF Backup
  <2>5. QED
    BY <1>2, <2>3, <2>4 DEF Backup
<1>3. CASE Persist(e) \/ PutBack(e)
  <2>1. /\ at[e] \in Ops /\ Entry(e).file \in Files /\ Entry(e).new # None
        /\ backup[e][at[e]] # None
    BY <1>0, <1>3, SwappingFacts DEF Persist, PutBack, Swapping, Work
  <2>2. k # at[e]
    BY <1>0, <1>3, <2>1 DEF Persist, PutBack, TypeOK, Entry
  <2>3. pc[e] \in Swapping
    BY <1>3 DEF Persist, PutBack, Swapping
  <2>4. QED
    BY <1>0, <2>2, <2>3 DEF Work, Swapping
<1>4. CASE Restore(e)
  <2>1. /\ undo[e] \in Ops /\ backup[e][undo[e]] # None /\ Undone(e) \in Files
    BY <1>0, <1>4, UndoFacts DEF Restore, Work
  <2>2. k # undo[e]
    BY <1>0, <1>4, <2>1 DEF Restore, TypeOK, Undone
  <2>3. backup'[e][k] = backup[e][k]
    BY <1>0, <1>4, <2>2 DEF Restore, TypeOK
  <2>4. QED
    BY <1>4, <2>2, <2>3 DEF Restore
<1>5. CASE EndRollback(e)
  <2>1. k = at[e] \/ "rollback" \in errors[e]
    BY <1>5 DEF EndRollback
  <2>2. backup'[e][k] = backup[e][k]
    BY <1>0, <1>5, <2>1 DEF EndRollback, WithoutBackups, TypeOK
  <2>3. QED
    BY <1>5, <2>1, <2>2 DEF EndRollback
<1>6. CASE Cleanup(e)
  BY <1>0, <1>6 DEF Cleanup, Work
<1>7. CASE RestoreFails(e) \/ RemoveFails(e)
  <2>1. "rollback" \in errors'[e]
    BY <1>0, <1>7 DEF RestoreFails, RemoveFails, TypeOK
  <2>2. QED
    BY <1>7, <2>1 DEF RestoreFails, RemoveFails
<1>8. CASE Remove(e)
  BY <1>0, <1>8 DEF Remove, TypeOK
<1>9. CASE BackupFails(e) \/ PersistFails(e)
  BY <1>0, <1>9 DEF BackupFails, PersistFails, TypeOK
<1>10. CASE PutBackFails(e)
  BY <1>0, <1>10 DEF PutBackFails, TypeOK
<1>11. CASE Crash(e)
  BY <1>0, <1>11 DEF Crash, TypeOK
<1>12. QED
  BY <1>1, <1>2, <1>3, <1>4, <1>5, <1>6, <1>7, <1>8, <1>9, <1>10, <1>11
     DEF Run, Planning, Begin, Draft, Build, Refuse, Stage

\* Every step keeps each missing file in the hands of a batch.
LEMMA AbsentStep == Typing /\ AbsentInv /\ [Next]_vars => AbsentInv'
<1> SUFFICES ASSUME Typing, AbsentInv, [Next]_vars, NEW f \in Files, disk'[f] = None
             PROVE  \E e \in Editors : \E k \in 1 .. Len(plan'[e]) : Holds(e, k, f)'
  BY DEF AbsentInv
<1>1. ASSUME \A e \in Editors : Same(e), disk[f] = None
      PROVE  \E e \in Editors : \E k \in 1 .. Len(plan'[e]) : Holds(e, k, f)'
  BY <1>1 DEF AbsentInv, Holds, Same
<1>2. ASSUME NEW e \in Editors, Run(e) \/ Crash(e)
      PROVE  \E x \in Editors : \E k \in 1 .. Len(plan'[x]) : Holds(x, k, f)'
  <2>1. CASE disk[f] # None
    BY <1>2, <2>1, NewlyHeld
  <2>2. CASE disk[f] = None
    <3>1. PICK x \in Editors : \E k \in 1 .. Len(plan[x]) : Holds(x, k, f)
      BY <2>2 DEF AbsentInv
    <3>2. CASE x = e
      BY <1>2, <3>1, <3>2, StillHeld
    <3>3. CASE x # e
      <4>1. Same(x)
        BY <1>2, <3>3, OthersAreSame DEF Typing
      <4>2. QED
        BY <3>1, <4>1 DEF Same, Holds
    <3>4. QED
      BY <3>2, <3>3
  <2>3. QED
    BY <2>1, <2>2
<1>3. ASSUME NEW g \in Files, Save(g)
      PROVE  \E e \in Editors : \E k \in 1 .. Len(plan'[e]) : Holds(e, k, f)'
  <2>1. disk[f] = None
    BY <1>3, SaveFacts DEF Typing
  <2>2. \A e \in Editors : Same(e)
    BY <1>3 DEF Save, Same, input
  <2>3. QED
    BY <1>1, <2>1, <2>2
<1>4. CASE UNCHANGED vars
  BY <1>1, <1>4 DEF vars, Same
<1>5. QED
  BY <1>2, <1>3, <1>4 DEF Next

\* Whatever any number of batches do to each other, crash, fail or roll back,
\* the text a file had before they started is in the file or in a backup that
\* one of them made of it.
THEOREM OriginalTextSurvives == Spec => []TextSurvives
<1> DEFINE Inv == Typing /\ OriginalInv /\ AbsentInv
<1>1. Init => Inv
  <2>1. {Original} # None /\ Len(<<>>) = 0
    BY EmptySeq DEF Original, Contents, Changes
  <2>2. Init => OriginalInv /\ AbsentInv
    BY <2>1 DEF Init, OriginalInv, OriginalIn, Original, AbsentInv
  <2>3. QED
    BY <2>2, TypingInit
<1>2. Inv /\ [Next]_vars => Inv'
  <2> SUFFICES ASSUME Inv, [Next]_vars PROVE Inv'
    OBVIOUS
  <2>1. Typing' /\ AbsentInv'
    BY TypingStep, AbsentStep
  <2>2. OriginalInv'
    <3>1. ASSUME NEW f \in Files, Save(f) PROVE OriginalInv'
      BY <3>1, OriginalKept DEF Save, Typing, input
    <3>2. CASE UNCHANGED vars
      BY <3>2, OriginalKept DEF vars, Typing
    <3>3. QED
      BY <3>1, <3>2, OriginalStep DEF Next
  <2>3. QED
    BY <2>1, <2>2
<1>3. Inv => TextSurvives
  <2> SUFFICES ASSUME Inv, NEW f \in Files PROVE Survives({Original}, f)
    BY DEF TextSurvives, Original
  <2>1. CASE disk[f] # None
    BY <2>1 DEF OriginalInv, Survives
  <2>2. CASE disk[f] = None
    <3>0. PICK e \in Editors : \E k \in 1 .. Len(plan[e]) : Holds(e, k, f)
      BY <2>2 DEF AbsentInv
    <3>1. PICK k \in 1 .. Len(plan[e]) : Holds(e, k, f)
      BY <3>0
    <3>2. k \in Ops /\ k <= Len(plan[e])
      BY EntryFacts DEF Typing, Ops
    <3>3. Original \in backup[e][k]
      BY <3>1, <3>2 DEF OriginalInv, OriginalIn, Holds
    <3>4. QED
      BY <3>1, <3>2, <3>3 DEF Survives, Holds
  <2>3. QED
    BY <2>1, <2>2
<1>4. QED
  BY <1>1, <1>2, <1>3, PTL DEF Spec

=============================================================================
