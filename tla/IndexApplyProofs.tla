-------------------------- MODULE IndexApplyProofs --------------------------
(***************************************************************************)
(* What holds of the index writer for any number of files, writers, probes *)
(* and faults, any chunk size and any bound.                               *)
(***************************************************************************)
EXTENDS IndexApply, FiniteSetTheorems, TLAPS

USE ProcessesAssumption, LanguagesAssumption, ChunkAssumption, BoundsAssumption,
    FaultsAssumption, NoneAssumption
USE DEF Outside

-----------------------------------------------------------------------------
(***************************************************************************)
(* Type correctness.                                                       *)
(***************************************************************************)

\* The change being applied is a file the walk found, at its stat's mtime or
\* a later one.
CurrentChange ==
    \A p \in Writers : pc[p] \in {"read", "mark"} =>
        /\ cur[p] \in Files
        /\ found[p][cur[p]] \in Languages
        /\ stamp[p] <= mtime[cur[p]]

\* Files are never written in the future.
ClockBound == \A f \in Files : mtime[f] <= clock

Typing == TypeOK /\ CurrentChange /\ ClockBound

\* Every reset value is of its variable's type.
LEMMA ForgetType ==
    ASSUME TypeOK, NEW p \in Writers, Forget(p)
    PROVE  /\ mode' \in [Writers -> {"apply", "rebuild"}]
           /\ binary' \in [Writers -> Versions]
           /\ langs' \in [Writers -> Mapping]
           /\ found' \in [Writers -> [Files -> Mapping]]
           /\ todo' \in [Writers -> SUBSET Files]
           /\ cur' \in [Writers -> Files \cup {None}]
           /\ stamp' \in [Writers -> Times]
           /\ applied' \in [Writers -> 0 .. ChunkFiles]
  BY DEF TypeOK, Forget, Versions, Times, Mapping

\* What a process forgets, the others keep.
LEMMA ForgetOthers ==
    ASSUME TypeOK, NEW p \in Writers, Forget(p), NEW q \in Writers, q # p
    PROVE  /\ cur'[q] = cur[q] /\ found'[q] = found[q] /\ stamp'[q] = stamp[q]
           /\ langs'[q] = langs[q] /\ binary'[q] = binary[q] /\ mode'[q] = mode[q]
           /\ todo'[q] = todo[q] /\ applied'[q] = applied[q]
  BY DEF TypeOK, Forget

\* A process that starts, or finds the lock taken, touches nothing of others.
LEMMA OutsideStep ==
    ASSUME TypeOK, NEW p \in Writers, Start(p) \/ Busy(p)
    PROVE  /\ pc[p] \in Outside /\ pc'[p] \in Outside
           /\ \A q \in Writers \ {p} :
                /\ pc'[q] = pc[q]
                /\ cur'[q] = cur[q] /\ found'[q] = found[q] /\ stamp'[q] = stamp[q]
                /\ langs'[q] = langs[q] /\ binary'[q] = binary[q] /\ mode'[q] = mode[q]
                /\ todo'[q] = todo[q] /\ applied'[q] = applied[q]
           /\ UNCHANGED <<world, store, lockVars, faults>>
<1>1. CASE Start(p)
  BY <1>1 DEF Start, TypeOK, loop
<1>2. CASE Busy(p)
  <2>1. /\ pc[p] = "started" /\ pc' = [pc EXCEPT ![p] = "idle"] /\ Forget(p)
        /\ UNCHANGED <<world, store, lockVars, faults>>
    BY <1>2 DEF Busy
  <2>. QED BY <2>1, ForgetOthers DEF TypeOK
<1>. QED BY <1>1, <1>2

\* The end of a change keeps the counter within the chunk.
LEMMA EndOfChangeType ==
    ASSUME TypeOK, NEW p \in Writers, NEW f \in Files, EndOfChange(p, f),
           txMarker' \in [Files -> Rows \cup {None}],
           txRows' \in [Files -> Rows \cup {None}]
    PROVE  /\ todo' \in [Writers -> SUBSET Files]
           /\ applied' \in [Writers -> 0 .. ChunkFiles]
           /\ marker' \in [Files -> Rows \cup {None}]
           /\ rows' \in [Files -> Rows \cup {None}]
<1>1. todo' \in [Writers -> SUBSET Files]
  BY DEF TypeOK, EndOfChange
<1>2. CASE applied[p] + 1 >= ChunkFiles
  <2>1. /\ marker' \in [Files -> Rows \cup {None}]
        /\ rows' \in [Files -> Rows \cup {None}]
    BY <1>2 DEF TypeOK, EndOfChange, Release
  <2>2. 0 \in 0 .. ChunkFiles
    OBVIOUS
  <2>3. applied' = [applied EXCEPT ![p] = 0]
    BY <1>2 DEF EndOfChange
  <2>4. applied' \in [Writers -> 0 .. ChunkFiles]
    BY <2>2, <2>3 DEF TypeOK
  <2>5. QED
    BY <1>1, <2>1, <2>4
<1>3. CASE ~(applied[p] + 1 >= ChunkFiles)
  <2>1. applied[p] + 1 \in 0 .. ChunkFiles
    BY <1>3 DEF TypeOK
  <2>2. applied' = [applied EXCEPT ![p] = @ + 1]
    BY <1>3 DEF EndOfChange
  <2>3. applied' \in [Writers -> 0 .. ChunkFiles]
    BY <2>1, <2>2 DEF TypeOK
  <2>4. UNCHANGED <<marker, rows>>
    BY <1>3 DEF EndOfChange
  <2>5. QED
    BY <1>1, <2>3, <2>4 DEF TypeOK
<1>4. QED
  BY <1>2, <1>3

\* Typing holds in every reachable state.
LEMMA TypingInvariant == Spec => []Typing
<1>1. Init => Typing
  BY DEF Init, Typing, TypeOK, CurrentChange, ClockBound, Critical, Times, Versions,
         Mapping, NoRows
<1>2. Typing /\ [Next]_vars => Typing'
  <2> SUFFICES ASSUME Typing, [Next]_vars PROVE Typing'
    OBVIOUS
  <2> USE DEF Typing
  <2>1. ASSUME NEW f \in Files, Write(f) PROVE Typing'
    <3>1. clock + 1 \in Times
      BY <2>1 DEF TypeOK, Write, Times
    <3>2. \A g \in Files : mtime[g] <= mtime'[g] /\ mtime'[g] <= clock'
      BY <2>1 DEF TypeOK, ClockBound, Write, Times
    <3>3. TypeOK'
      BY <2>1, <3>1 DEF TypeOK, Write, store, lockVars, plan, loop
    <3>4. CurrentChange'
      BY <2>1, <3>2 DEF TypeOK, CurrentChange, Write, Times, plan, loop
    <3>5. QED
      BY <3>2, <3>3, <3>4 DEF ClockBound
  <2>2. ASSUME NEW f \in Files, Delete(f) \/ Hide(f) \/ Reveal(f) PROVE Typing'
    <3>1. present' \subseteq Files /\ readable' \subseteq Files /\ faults' \in 0 .. MaxFaults
      BY <2>2 DEF TypeOK, Delete, Hide, Reveal
    <3>2. UNCHANGED <<mtime, config, version, clock, store, lockVars, pc, outcome, plan, loop>>
      BY <2>2 DEF Delete, Hide, Reveal
    <3>3. QED
      BY <3>1, <3>2 DEF TypeOK, CurrentChange, ClockBound, store, lockVars, plan, loop
  <2>3. ASSUME NEW m \in Mapping, Reconfigure(m) PROVE Typing'
    BY <2>3 DEF TypeOK, CurrentChange, ClockBound, Reconfigure, Times, store, lockVars,
                plan, loop
  <2>4. CASE Upgrade
    <3>1. clock + 1 \in Times /\ version + 1 \in Versions /\ \A f \in Files : mtime[f] <= clock + 1
      BY <2>4 DEF TypeOK, ClockBound, Upgrade, Versions, Times
    <3>. QED BY <2>4, <3>1 DEF TypeOK, CurrentChange, ClockBound, Upgrade, store, lockVars,
                                plan, loop
  <2>5. ASSUME NEW p \in Writers, TryLock(p) PROVE Typing'
    BY <2>5 DEF TypeOK, CurrentChange, ClockBound, TryLock, Critical, world, store, plan, loop
  <2>51. ASSUME NEW p \in Writers, Busy(p) PROVE Typing'
    BY <2>51, ForgetType, ForgetOthers
       DEF TypeOK, CurrentChange, ClockBound, Busy, world, store, lockVars
  <2>52. ASSUME NEW p \in Writers, Start(p) PROVE Typing'
    BY <2>52 DEF TypeOK, CurrentChange, ClockBound, Start, world, store, lockVars, loop
  <2>6. ASSUME NEW p \in Writers, WritePid(p) PROVE Typing'
    BY <2>6 DEF TypeOK, CurrentChange, ClockBound, WritePid, Critical, InTransaction, world,
                store, plan, loop
  <2>61. ASSUME NEW p \in Writers, ClearPid(p) PROVE Typing'
    BY <2>61 DEF TypeOK, CurrentChange, ClockBound, ClearPid, Critical, InTransaction, world,
                 store, plan, loop
  <2>7. ASSUME NEW p \in Writers, Unlock(p) PROVE Typing'
    BY <2>7, ForgetType, ForgetOthers
       DEF TypeOK, CurrentChange, ClockBound, Unlock, Released, world, store
  <2>8. ASSUME NEW p \in Writers, NEW m \in {"apply", "rebuild"}, Begin(p, m)
        PROVE  Typing'
    BY <2>8 DEF TypeOK, CurrentChange, ClockBound, Begin, NoRows, Critical, InTransaction,
                world, lockVars, loop
  <2>9. ASSUME NEW p \in Writers, Walk(p) PROVE Typing'
    BY <2>9 DEF TypeOK, CurrentChange, ClockBound, Walk, Mapping, Critical, InTransaction,
                world, store, lockVars
  <2>10. ASSUME NEW p \in Writers, NEW f \in Files, Stat(p, f) PROVE Typing'
    <3>1. found[p][f] \in Languages
      BY <2>10 DEF TypeOK, Stat, Mapping
    <3>2. QED
      BY <2>10, <3>1 DEF TypeOK, CurrentChange, ClockBound, Stat, Times, Critical,
                         InTransaction, world, store, lockVars, plan
  <2>11. ASSUME NEW p \in Writers, Index(p) PROVE Typing'
    <3>1. txRows' \in [Files -> Rows \cup {None}]
      <4> DEFINE new == [mtime |-> mtime[cur[p]], lang |-> langs[p], version |-> binary[p]]
      <4>1. langs[p] # NoLanguage => new \in Rows
        BY <2>11 DEF TypeOK, CurrentChange, Index, Rows, Mapping
      <4>2. QED
        BY <2>11, <4>1 DEF TypeOK, Index
    <3>2. QED
      BY <2>11, <3>1 DEF TypeOK, CurrentChange, ClockBound, Index, Critical, InTransaction,
                         world, lockVars, plan, loop
  <2>12. ASSUME NEW p \in Writers, Mark(p) PROVE Typing'
    <3>1. txMarker' \in [Files -> Rows \cup {None}] /\ txRows' \in [Files -> Rows \cup {None}]
      BY <2>12 DEF TypeOK, CurrentChange, Mark, Rows
    <3>2. /\ todo' \in [Writers -> SUBSET Files]
          /\ applied' \in [Writers -> 0 .. ChunkFiles]
          /\ marker' \in [Files -> Rows \cup {None}]
          /\ rows' \in [Files -> Rows \cup {None}]
      BY <2>12, <3>1, EndOfChangeType DEF Mark, CurrentChange
    <3>3. /\ cur' = [cur EXCEPT ![p] = None] /\ stamp' = [stamp EXCEPT ![p] = 0]
          /\ pc' = [pc EXCEPT ![p] = "next"]
          /\ UNCHANGED <<world, lockVars, outcome, plan, faults>>
      BY <2>12 DEF Mark
    <3>4. TypeOK'
      BY <3>1, <3>2, <3>3 DEF TypeOK, Times, Critical, InTransaction, world, lockVars, plan
    <3>5. CurrentChange' /\ ClockBound'
      BY <3>3 DEF TypeOK, CurrentChange, ClockBound, world, plan
    <3>6. QED
      BY <3>4, <3>5
  <2>13. ASSUME NEW p \in Writers, NEW f \in Files, Drop(p, f) PROVE Typing'
    <3>1. txMarker' \in [Files -> Rows \cup {None}] /\ txRows' \in [Files -> Rows \cup {None}]
      BY <2>13 DEF TypeOK, Drop
    <3>2. /\ todo' \in [Writers -> SUBSET Files]
          /\ applied' \in [Writers -> 0 .. ChunkFiles]
          /\ marker' \in [Files -> Rows \cup {None}]
          /\ rows' \in [Files -> Rows \cup {None}]
      BY <2>13, <3>1, EndOfChangeType DEF Drop
    <3>3. QED
      BY <2>13, <3>1, <3>2 DEF TypeOK, CurrentChange, ClockBound, Drop, world, lockVars, plan
  <2>14. ASSUME NEW p \in Writers, Finish(p) PROVE Typing'
    BY <2>14 DEF TypeOK, CurrentChange, ClockBound, Finish, NoRows, Critical, InTransaction,
                 world, lockVars, plan, loop
  <2>15. ASSUME NEW p \in Writers, NEW f \in Files, StatFails(p, f) PROVE Typing'
    BY <2>15 DEF TypeOK, CurrentChange, ClockBound, StatFails, Rollback, NoRows, Critical,
                 InTransaction, world, lockVars, plan, loop
  <2>16. ASSUME NEW p \in Writers, Fail(p) PROVE Typing'
    BY <2>16 DEF TypeOK, CurrentChange, ClockBound, Fail, Rollback, NoRows, Critical,
                 InTransaction, world, lockVars, plan, loop
  <2>17. ASSUME NEW p \in Writers, Crash(p) PROVE Typing'
    BY <2>17, ForgetType, ForgetOthers
       DEF TypeOK, CurrentChange, ClockBound, Crash, Released, Rollback, NoRows, world
  <2>171. ASSUME NEW p \in Writers, PidFails(p) PROVE Typing'
    BY <2>171, ForgetType, ForgetOthers
       DEF TypeOK, CurrentChange, ClockBound, PidFails, Released, world, store
  <2>18. ASSUME NEW s \in Probers, Probe(s) \/ EndProbe(s) PROVE Typing'
    BY <2>18 DEF TypeOK, CurrentChange, ClockBound, Probe, EndProbe, world, store, plan, loop
  <2>19. CASE UNCHANGED vars
    BY <2>19 DEF TypeOK, CurrentChange, ClockBound, vars, world, store, lockVars, plan, loop
  <2>20. QED
    BY <2>1, <2>2, <2>3, <2>4, <2>5, <2>51, <2>52, <2>6, <2>61, <2>7, <2>8, <2>9, <2>10,
       <2>11, <2>12, <2>13, <2>14, <2>15, <2>16, <2>17, <2>171, <2>18, <2>19
       DEF Next, World, Run, DropGuard
<1>3. QED
  BY <1>1, <1>2, PTL DEF Spec

\* Type correctness: no run takes a counter, a row or a program counter out
\* of its domain (apply_changes_inner, acquire_write_lock).
THEOREM TypeCorrect == Spec => []TypeOK
  BY TypingInvariant, PTL DEF Typing

-----------------------------------------------------------------------------
(***************************************************************************)
(* The lock.                                                               *)
(***************************************************************************)

\* Only the holder of the lock runs: one writer at a time.
LockHeld == \A p \in Writers : pc[p] \notin Outside => lock = p

\* No run has succeeded before its last commit.
NotYet == \A p \in Writers :
    pc[p] \in {"started", "pid"} \cup InTransaction => outcome[p] # "ok"

\* Who is about to unlock has cleared its pid.
PidCleared == \A p \in Writers : pc[p] = "unlock" => lockPid # p

LockInv == LockHeld /\ NotYet /\ PidCleared /\ LockFileNamesHolder

\* All four hold in every reachable state.
LEMMA LockInvariant == Spec => []LockInv
<1>1. Init => LockInv
  BY NoneAssumption DEF Init, LockInv, LockHeld, NotYet, PidCleared, LockFileNamesHolder,
                         InTransaction
<1>2. Typing /\ LockInv /\ [Next]_vars => LockInv'
  <2> SUFFICES ASSUME Typing, LockInv, [Next]_vars PROVE LockInv'
    OBVIOUS
  <2> USE NoneAssumption DEF Typing, LockInv, LockHeld, NotYet, PidCleared,
          LockFileNamesHolder, InTransaction
  <2>1. ASSUME World PROVE LockInv'
    <3>1. UNCHANGED <<pc, outcome, lock, lockPid>>
      BY <2>1 DEF World, Write, Delete, Hide, Reveal, Reconfigure, Upgrade, lockVars
    <3>2. QED
      BY <3>1
  <2>11. ASSUME NEW p \in Writers, Start(p) PROVE LockInv'
    BY <2>11 DEF TypeOK, Start, lockVars
  <2>2. ASSUME NEW p \in Writers, TryLock(p) PROVE LockInv'
    BY <2>2 DEF TypeOK, TryLock
  <2>3. ASSUME NEW p \in Writers, Busy(p) PROVE LockInv'
    BY <2>3 DEF TypeOK, Busy, lockVars
  <2>4. ASSUME NEW p \in Writers, WritePid(p) PROVE LockInv'
    BY <2>4 DEF TypeOK, WritePid
  <2>5. ASSUME NEW p \in Writers, ClearPid(p) PROVE LockInv'
    BY <2>5 DEF TypeOK, ClearPid
  <2>6. ASSUME NEW p \in Writers, Unlock(p) \/ PidFails(p) \/ Crash(p) PROVE LockInv'
    <3>1. /\ pc[p] \notin Outside /\ lock = p /\ lock' = None
          /\ pc' = [pc EXCEPT ![p] = "idle"]
      BY <2>6 DEF Unlock, PidFails, Crash, Critical, Released
    <3>2. \A q \in Writers : pc'[q] \in Outside /\ (q # p => pc'[q] = pc[q])
      BY <3>1 DEF TypeOK
    <3>3. \A q \in Writers : outcome'[q] = "ok" => outcome[q] = "ok"
      BY <2>6 DEF Unlock, PidFails, Crash, TypeOK
    <3>4. ASSUME NEW q \in Writers, lockPid' = q PROVE outcome'[q] # "ok"
      <4>1. CASE PidFails(p)
        <5>1. q = p \/ lockPid = q
          BY <3>4, <4>1 DEF PidFails
        <5>2. pc[q] # "clear"
          BY <3>1, <4>1 DEF PidFails
        <5>. QED BY <3>3, <4>1, <5>1, <5>2 DEF PidFails
      <4>2. CASE Unlock(p)
        BY <3>1, <3>3, <3>4, <4>2 DEF Unlock
      <4>3. CASE Crash(p)
        <5>1. lockPid = q /\ outcome' = [outcome EXCEPT ![p] = "none"]
          BY <3>4, <4>3 DEF Crash
        <5>. QED BY <3>1, <5>1 DEF TypeOK
      <4>. QED BY <2>6, <4>1, <4>2, <4>3
    <3>5. QED
      BY <3>1, <3>2, <3>3, <3>4
  <2>7. ASSUME NEW p \in Writers,
               \/ \E m \in {"apply", "rebuild"} : Begin(p, m)
               \/ Walk(p) \/ Index(p) \/ Mark(p) \/ Fail(p)
               \/ \E f \in Files : Stat(p, f) \/ StatFails(p, f) \/ Drop(p, f)
        PROVE  LockInv'
    <3>1. /\ pc[p] \in InTransaction
          /\ pc' = pc \/ \E to \in InTransaction \cup {"clear"} : pc' = [pc EXCEPT ![p] = to]
          /\ UNCHANGED <<lock, lockPid, outcome>>
      BY <2>7 DEF Begin, Walk, Index, Mark, Fail, Stat, StatFails, Drop, lockVars
    <3>2. QED
      BY <3>1 DEF TypeOK
  <2>71. ASSUME NEW p \in Writers, Finish(p) PROVE LockInv'
    BY <2>71 DEF TypeOK, Finish, lockVars
  <2>8. ASSUME NEW s \in Probers, Probe(s) \/ EndProbe(s) PROVE LockInv'
    BY <2>8 DEF TypeOK, Probe, EndProbe
  <2>9. CASE UNCHANGED vars
    BY <2>9 DEF vars, lockVars
  <2>10. QED
    BY <2>1, <2>11, <2>2, <2>3, <2>4, <2>5, <2>6, <2>7, <2>71, <2>8, <2>9
       DEF Next, Run, DropGuard
<1>3. QED
  BY <1>1, <1>2, TypingInvariant, PTL DEF Spec

\* From its written pid to its cleared one, the writer in the lock file is the
\* one that holds the lock, and none it names later has succeeded
\* (acquire_write_lock, WriteLockGuard::drop).
THEOREM LockFileCorrect == Spec => []LockFileNamesHolder
  BY LockInvariant, PTL DEF LockInv

\* While one writer runs, every other one is outside.
LEMMA OneWriter ==
    ASSUME LockInv, NEW p \in Writers, pc[p] \notin Outside, NEW q \in Writers, q # p
    PROVE  pc[q] \in Outside
  BY DEF LockInv, LockHeld

-----------------------------------------------------------------------------
(***************************************************************************)
(* The tables.                                                             *)
(***************************************************************************)

\* Rows r of f may stand beside the file_state row m: they are tracked, of the
\* contents the marker's mtime names or of later ones, and of its extractor.
Backed(m, r, f) ==
    /\ m # None => m.mtime <= mtime[f]
    /\ r # None => /\ m # None
                   /\ m.mtime <= r.mtime /\ r.mtime <= mtime[f]
                   /\ r.version = m.version

\* In the transaction the file whose marker is about to be written is exempt.
BeingMarked(p, f) == pc[p] = "mark" /\ f = cur[p]

TablesInv ==
    /\ \A f \in Files : Backed(marker[f], rows[f], f)
    /\ \A p \in Writers : pc[p] \in {"walk", "next", "read", "mark"} =>
          \A f \in Files : BeingMarked(p, f) \/ Backed(txMarker[f], txRows[f], f)
    /\ \A p \in Writers : pc[p] = "mark" =>
          LET r == txRows[cur[p]] IN
          r # None => /\ stamp[p] <= r.mtime /\ r.mtime <= mtime[cur[p]]
                      /\ r.version = binary[p]

\* Writing a file leaves every table backed: its mtime only grows.
LEMMA BackedByLaterFile ==
    ASSUME Typing, Typing', NEW f \in Files, mtime[f] <= mtime'[f],
           NEW m \in Rows \cup {None}, NEW r \in Rows \cup {None}, Backed(m, r, f)
    PROVE  /\ m # None => m.mtime <= mtime'[f]
           /\ r # None => /\ m # None
                          /\ m.mtime <= r.mtime /\ r.mtime <= mtime'[f]
                          /\ r.version = m.version
  BY DEF Typing, TypeOK, Backed, Rows, Times

\* The invariant of the tables holds in every reachable state.
LEMMA TablesInvariant == Spec => []TablesInv
<1>1. Init => TablesInv
  BY DEF Init, TablesInv, Backed, NoRows
<1>2. Typing /\ Typing' /\ LockInv /\ TablesInv /\ [Next]_vars => TablesInv'
  <2> SUFFICES ASSUME Typing, Typing', LockInv, TablesInv, [Next]_vars PROVE TablesInv'
    OBVIOUS
  <2>1. ASSUME NEW f \in Files, Write(f) PROVE TablesInv'
    <3>1. \A g \in Files : mtime[g] <= mtime'[g]
      BY <2>1 DEF Typing, TypeOK, ClockBound, Write, Times
    <3>2. UNCHANGED <<pc, marker, rows, txMarker, txRows, cur, stamp, binary>>
      BY <2>1 DEF Write, store, plan, loop
    <3>3. \A g \in Files : Backed(marker[g], rows[g], g)'
      BY <3>1, <3>2, BackedByLaterFile DEF TablesInv, Backed, Typing, TypeOK
    <3>4. ASSUME NEW p \in Writers, pc[p] \in {"walk", "next", "read", "mark"}, NEW g \in Files
          PROVE  (BeingMarked(p, g) \/ Backed(txMarker[g], txRows[g], g))'
      BY <3>1, <3>2, <3>4, BackedByLaterFile
         DEF TablesInv, Backed, Typing, TypeOK, BeingMarked
    <3>5. ASSUME NEW p \in Writers, pc[p] = "mark", txRows[cur[p]] # None
          PROVE  /\ stamp[p] <= txRows[cur[p]].mtime
                 /\ txRows[cur[p]].mtime <= mtime'[cur[p]]
                 /\ txRows[cur[p]].version = binary[p]
      BY <3>1, <3>5 DEF TablesInv, Typing, TypeOK, CurrentChange, Rows, Times
    <3>6. QED
      BY <3>2, <3>3, <3>4, <3>5 DEF TablesInv
  <2>2. ASSUME \/ \E f \in Files : Delete(f) \/ Hide(f) \/ Reveal(f)
               \/ \E m \in Mapping : Reconfigure(m)
               \/ Upgrade
               \/ \E s \in Probers : Probe(s) \/ EndProbe(s)
               \/ UNCHANGED vars
        PROVE  TablesInv'
    <3>1. UNCHANGED <<mtime, pc, marker, rows, txMarker, txRows, cur, stamp, binary>>
      BY <2>2 DEF Delete, Hide, Reveal, Reconfigure, Upgrade, Probe, EndProbe, vars,
                  world, store, plan, loop
    <3>2. QED
      BY <3>1 DEF TablesInv, Backed, BeingMarked
  <2>21. ASSUME NEW p \in Writers, Start(p) \/ Busy(p) PROVE TablesInv'
    <3>1. /\ pc'[p] \in Outside
          /\ \A q \in Writers \ {p} : /\ pc'[q] = pc[q] /\ cur'[q] = cur[q]
                                       /\ stamp'[q] = stamp[q] /\ binary'[q] = binary[q]
          /\ UNCHANGED <<mtime, marker, rows, txMarker, txRows>>
      BY <2>21, OutsideStep DEF Typing, world, store
    <3>2. QED
      BY <3>1 DEF TablesInv, Backed, BeingMarked
  <2>3. ASSUME NEW p \in Writers, TryLock(p) PROVE TablesInv'
    <3>1. \A q \in Writers : pc'[q] \notin {"walk", "next", "read", "mark"}
      BY <2>3 DEF TryLock, LockInv, LockHeld, Typing, TypeOK
    <3>2. QED
      BY <2>3, <3>1 DEF TryLock, TablesInv, Backed, BeingMarked, world, store
  <2>4. ASSUME NEW p \in Writers, WritePid(p) \/ ClearPid(p) \/ Unlock(p) PROVE TablesInv'
    <3>1. \A q \in Writers : pc'[q] \notin {"walk", "next", "read", "mark"}
      <4>1. pc[p] \notin Outside /\ \E to \in {"config", "unlock", "idle"} : pc' = [pc EXCEPT ![p] = to]
        BY <2>4 DEF WritePid, ClearPid, Unlock
      <4>2. \A q \in Writers : q # p => pc[q] \in Outside
        BY <4>1, OneWriter
      <4>3. QED
        BY <4>1, <4>2 DEF Typing, TypeOK
    <3>2. QED
      BY <2>4, <3>1 DEF WritePid, ClearPid, Unlock, TablesInv, Backed, BeingMarked, world, store
  <2>5. ASSUME NEW p \in Writers, NEW m \in {"apply", "rebuild"}, Begin(p, m)
        PROVE  TablesInv'
    <3>1. \A q \in Writers : pc'[q] \in {"walk", "next", "read", "mark"} => q = p
      BY <2>5, OneWriter DEF Begin, Typing, TypeOK
    <3>2. \A f \in Files : Backed(txMarker[f], txRows[f], f)'
      BY <2>5 DEF Begin, TablesInv, Backed, NoRows, world
    <3>3. QED
      BY <2>5, <3>1, <3>2 DEF Begin, TablesInv, Backed, world, Typing, TypeOK
  <2>6. ASSUME NEW p \in Writers, Walk(p) PROVE TablesInv'
    BY <2>6 DEF Walk, TablesInv, Backed, BeingMarked, world, store, Typing, TypeOK
  <2>7. ASSUME NEW p \in Writers, NEW f \in Files, Stat(p, f) PROVE TablesInv'
    <3>1. \A q \in Writers : q # p => pc[q] \notin {"walk", "next", "read", "mark"}
      BY <2>7, OneWriter DEF Stat
    <3>2. QED
      BY <2>7, <3>1 DEF Stat, TablesInv, Backed, BeingMarked, world, store, Typing, TypeOK
  <2>8. ASSUME NEW p \in Writers, Index(p) PROVE TablesInv'
    <3>1. \A q \in Writers : q # p => pc[q] \notin {"walk", "next", "read", "mark"}
      BY <2>8, OneWriter DEF Index
    <3>2. /\ pc' = [pc EXCEPT ![p] = "mark"]
          /\ UNCHANGED <<mtime, marker, rows, txMarker, cur, stamp, binary>>
      BY <2>8 DEF Index, world, plan, loop
    <3>3. \A f \in Files : f # cur[p] => txRows'[f] = txRows[f]
      BY <2>8 DEF Index, Typing, TypeOK
    <3>4. txRows'[cur[p]] # None =>
              /\ stamp[p] <= txRows'[cur[p]].mtime
              /\ txRows'[cur[p]].mtime <= mtime[cur[p]]
              /\ txRows'[cur[p]].version = binary[p]
      BY <2>8 DEF Index, Typing, TypeOK, CurrentChange, Times
    <3>5. QED
      BY <2>8, <3>1, <3>2, <3>3, <3>4
         DEF Index, TablesInv, Backed, BeingMarked, Typing, TypeOK
  <2>9. ASSUME NEW p \in Writers, Mark(p) PROVE TablesInv'
    <3>1. \A q \in Writers : q # p => pc[q] \notin {"walk", "next", "read", "mark"}
      BY <2>9, OneWriter DEF Mark
    <3>2. /\ pc[p] = "mark" /\ pc' = [pc EXCEPT ![p] = "next"]
          /\ txMarker' = [txMarker EXCEPT ![cur[p]] =
                [mtime |-> stamp[p], lang |-> found[p][cur[p]], version |-> binary[p]]]
          /\ UNCHANGED <<mtime, txRows>>
      BY <2>9 DEF Mark, world
    <3>3. txMarker'[cur[p]] \in Rows
      BY <3>2 DEF Typing, TypeOK, CurrentChange, Rows
    <3>4. ASSUME NEW f \in Files PROVE Backed(txMarker[f], txRows[f], f)'
      <4>1. CASE f = cur[p]
        BY <3>2, <3>3, <4>1 DEF TablesInv, Backed, Typing, TypeOK, CurrentChange
      <4>2. CASE f # cur[p]
        BY <3>2, <4>2 DEF TablesInv, Backed, BeingMarked, Typing, TypeOK
      <4>3. QED
        BY <4>1, <4>2
    <3>5. (marker' = txMarker' /\ rows' = txRows') \/ UNCHANGED <<marker, rows>>
      BY <2>9 DEF Mark, EndOfChange, Release
    <3>6. \A f \in Files : Backed(marker[f], rows[f], f)'
      BY <3>2, <3>4, <3>5, ZenonT(30) DEF TablesInv, Backed
    <3>7. QED
      BY <3>1, <3>2, <3>4, <3>6 DEF TablesInv, Typing, TypeOK
  <2>10. ASSUME NEW p \in Writers, NEW f \in Files, Drop(p, f) PROVE TablesInv'
    <3>1. \A q \in Writers : q # p => pc[q] \notin {"walk", "next", "read", "mark"}
      BY <2>10, OneWriter DEF Drop
    <3>2. /\ pc[p] = "next" /\ txMarker' = [txMarker EXCEPT ![f] = None]
          /\ txRows' = [txRows EXCEPT ![f] = None]
          /\ UNCHANGED <<mtime, pc>>
      BY <2>10 DEF Drop, world
    <3>3. \A g \in Files : Backed(txMarker[g], txRows[g], g)'
      BY <3>2 DEF TablesInv, Backed, BeingMarked, Typing, TypeOK
    <3>4. (marker' = txMarker' /\ rows' = txRows') \/ UNCHANGED <<marker, rows>>
      BY <2>10 DEF Drop, EndOfChange, Release
    <3>5. \A g \in Files : Backed(marker[g], rows[g], g)'
      BY <3>2, <3>3, <3>4 DEF TablesInv, Backed
    <3>6. QED
      BY <3>1, <3>2, <3>3, <3>5 DEF TablesInv
  <2>11. ASSUME NEW p \in Writers, Finish(p) PROVE TablesInv'
    <3>1. \A q \in Writers : pc'[q] \notin {"walk", "next", "read", "mark"}
      <4>1. pc[p] \notin Outside /\ \E to \in {"clear"} : pc' = [pc EXCEPT ![p] = to]
        BY <2>11 DEF Finish
      <4>2. \A q \in Writers : q # p => pc[q] \in Outside
        BY <4>1, OneWriter
      <4>3. QED
        BY <4>1, <4>2 DEF Typing, TypeOK
    <3>2. \A f \in Files : Backed(marker[f], rows[f], f)'
      BY <2>11 DEF Finish, TablesInv, Backed, BeingMarked, world
    <3>3. QED
      BY <3>1, <3>2 DEF TablesInv
  <2>12. ASSUME NEW p \in Writers,
                \/ \E f \in Files : StatFails(p, f)
                \/ PidFails(p) \/ Fail(p) \/ Crash(p)
         PROVE  TablesInv'
    <3>1. \A q \in Writers : pc'[q] \notin {"walk", "next", "read", "mark"}
      <4>1. pc[p] \notin Outside /\ \E to \in {"clear", "idle"} : pc' = [pc EXCEPT ![p] = to]
        BY <2>12 DEF StatFails, PidFails, Fail, Crash, Critical, InTransaction
      <4>2. \A q \in Writers : q # p => pc[q] \in Outside
        BY <4>1, OneWriter
      <4>3. QED
        BY <4>1, <4>2 DEF Typing, TypeOK
    <3>2. UNCHANGED <<mtime, marker, rows>>
      BY <2>12 DEF StatFails, PidFails, Fail, Crash, Rollback, world, store
    <3>3. QED
      BY <3>1, <3>2 DEF TablesInv, Backed
  <2>13. QED
    BY <2>1, <2>2, <2>21, <2>3, <2>4, <2>5, <2>6, <2>7, <2>8, <2>9, <2>10, <2>11, <2>12
       DEF Next, World, Run, DropGuard
<1>3. QED
  BY <1>1, <1>2, TypingInvariant, LockInvariant, PTL DEF Spec

\* No file that diff_entries would skip has rows of older contents or of an
\* older extractor, whatever was edited, unreadable or killed meanwhile.
THEOREM SkippedRowsNeverStale == Spec => []SkippedRowsAreNeverStale
<1>1. ASSUME Typing, TablesInv, NEW f \in Files, WouldSkip(f), rows[f] # None
      PROVE  rows[f].mtime = mtime[f] /\ rows[f].version = version
  <2>1. marker[f] = [mtime |-> mtime[f], lang |-> config, version |-> version]
    BY <1>1 DEF WouldSkip, IsUnchanged
  <2>2. /\ marker[f].mtime <= rows[f].mtime /\ rows[f].mtime <= mtime[f]
        /\ rows[f].version = marker[f].version
    BY <1>1 DEF TablesInv, Backed
  <2>3. rows[f].mtime \in Nat /\ mtime[f] \in Nat
    BY <1>1 DEF Typing, TypeOK, Rows, Times
  <2>4. QED
    BY <2>1, <2>2, <2>3
<1>2. Typing /\ TablesInv => SkippedRowsAreNeverStale
  BY <1>1 DEF SkippedRowsAreNeverStale
<1>3. QED
  BY <1>2, TypingInvariant, TablesInvariant, PTL

\* Every committed row belongs to a tracked file.
THEOREM RowsAreTracked == Spec => []NoOrphanRows
<1>1. TablesInv => NoOrphanRows
  BY DEF TablesInv, Backed, NoOrphanRows
<1>2. QED
  BY <1>1, TablesInvariant, PTL

-----------------------------------------------------------------------------
(***************************************************************************)
(* The plan of a run.                                                      *)
(***************************************************************************)

Looping == {"next", "read", "mark"}

\* What is not left to do is in the transaction as the walk found it.
Done(p, f) ==
    IF found[p][f] = NoLanguage
    THEN txMarker[f] = None
    ELSE /\ txMarker[f] # None
         /\ txMarker[f].lang = found[p][f]
         /\ txMarker[f].version = binary[p]

PlanInv ==
    \A p \in Writers :
        /\ pc[p] \in Looping => \A f \in Files \ todo[p] : Done(p, f)
        /\ pc[p] = "walk" /\ mode[p] = "apply" => txMarker = marker
        /\ pc[p] \in Looping /\ mode[p] = "apply" => \A f \in Files :
              marker[f] # None /\ found[p][f] # NoLanguage => txMarker[f] # None

\* The invariant of the plan holds in every reachable state.
LEMMA PlanInvariant == Spec => []PlanInv
<1>1. Init => PlanInv
  BY DEF Init, PlanInv, Looping
<1>2. Typing /\ Typing' /\ LockInv /\ PlanInv /\ [Next]_vars => PlanInv'
  <2> SUFFICES ASSUME Typing, Typing', LockInv, PlanInv, [Next]_vars PROVE PlanInv'
    OBVIOUS
  <2>1. ASSUME World \/ (\E s \in Probers : Probe(s) \/ EndProbe(s)) \/ UNCHANGED vars
        PROVE  PlanInv'
    <3>1. UNCHANGED <<pc, marker, txMarker, found, todo, mode, binary>>
      BY <2>1 DEF World, Write, Delete, Hide, Reveal, Reconfigure, Upgrade, Probe,
                  EndProbe, vars, store, plan, loop
    <3>2. QED
      BY <3>1 DEF PlanInv, Done
  <2>11. ASSUME NEW p \in Writers, Start(p) \/ Busy(p) PROVE PlanInv'
    <3>1. /\ pc'[p] \in Outside
          /\ \A q \in Writers \ {p} : /\ pc'[q] = pc[q] /\ found'[q] = found[q]
                                       /\ todo'[q] = todo[q] /\ mode'[q] = mode[q]
                                       /\ binary'[q] = binary[q]
          /\ UNCHANGED <<marker, txMarker>>
      BY <2>11, OutsideStep DEF Typing, store
    <3>2. QED
      BY <3>1 DEF PlanInv, Done, Looping
  <2>2. ASSUME NEW p \in Writers, TryLock(p) PROVE PlanInv'
    <3>1. \A q \in Writers : pc'[q] \notin Looping \cup {"walk"}
      BY <2>2 DEF TryLock, Looping, LockInv, LockHeld, Typing, TypeOK
    <3>2. QED
      BY <3>1 DEF PlanInv
  <2>3. ASSUME NEW p \in Writers,
               \/ WritePid(p) \/ ClearPid(p) \/ Unlock(p) \/ Finish(p)
               \/ PidFails(p) \/ Fail(p) \/ Crash(p)
               \/ \E f \in Files : StatFails(p, f)
        PROVE  PlanInv'
    <3>1. pc[p] \notin Outside /\ \E to \in {"config", "clear", "unlock", "idle"} :
                                pc' = [pc EXCEPT ![p] = to]
      BY <2>3 DEF WritePid, ClearPid, Unlock, Finish, PidFails, Fail, Crash, StatFails,
                  Critical, InTransaction
    <3>2. \A q \in Writers : pc'[q] \notin Looping \cup {"walk"}
      BY <3>1, OneWriter DEF Looping, Typing, TypeOK
    <3>3. QED
      BY <3>2 DEF PlanInv
  <2>4. ASSUME NEW p \in Writers, NEW m \in {"apply", "rebuild"}, Begin(p, m)
        PROVE  PlanInv'
    <3>1. \A q \in Writers : q # p => pc'[q] \notin Looping \cup {"walk"}
      BY <2>4, OneWriter DEF Begin, Looping, Typing, TypeOK
    <3>2. pc'[p] = "walk" /\ (mode'[p] = "apply" => txMarker' = marker')
      BY <2>4 DEF Begin, Typing, TypeOK
    <3>3. QED
      BY <3>1, <3>2 DEF PlanInv, Looping
  <2>5. ASSUME NEW p \in Writers, Walk(p) PROVE PlanInv'
    <3>1. \A q \in Writers : q # p => pc'[q] \notin Looping \cup {"walk"}
      BY <2>5, OneWriter DEF Walk, Looping, Typing, TypeOK
    <3> DEFINE walked == IF config = NoLanguage THEN {} ELSE present
    <3>2. /\ pc[p] = "walk" /\ pc'[p] = "next"
          /\ UNCHANGED <<marker, txMarker, mode, binary>>
          /\ \A f \in Files : found'[p][f] = IF f \in walked THEN config ELSE NoLanguage
          /\ todo'[p] = {f \in walked : ~IsUnchanged(f, txMarker[f], config, binary[p])}
                        \cup {f \in Files \ walked : txMarker[f] # None}
      BY <2>5 DEF Walk, store, Typing, TypeOK
    <3>3. ASSUME NEW f \in Files, f \notin todo'[p] PROVE Done(p, f)'
      <4>1. CASE f \in walked
        <5>1. txMarker[f] = [mtime |-> mtime[f], lang |-> config, version |-> binary[p]]
          BY <3>2, <3>3, <4>1 DEF IsUnchanged
        <5>2. config \in Languages /\ txMarker[f] \in Rows
          BY <4>1, <5>1 DEF Typing, TypeOK, Mapping, Rows, Times, Versions
        <5>3. QED
          BY <3>2, <4>1, <5>1, <5>2 DEF Done
      <4>2. CASE f \notin walked
        BY <3>2, <3>3, <4>2 DEF Done
      <4>3. QED
        BY <4>1, <4>2
    <3>4. QED
      BY <3>1, <3>2, <3>3 DEF PlanInv, Looping
  <2>6. ASSUME NEW p \in Writers, (\E f \in Files : Stat(p, f)) \/ Index(p) PROVE PlanInv'
    <3>1. \A q \in Writers : q # p => pc[q] \notin Looping \cup {"walk"}
      BY <2>6, OneWriter DEF Stat, Index, Looping
    <3>2. /\ pc[p] \in Looping /\ \E to \in Looping : pc' = [pc EXCEPT ![p] = to]
          /\ UNCHANGED <<marker, txMarker, found, todo, mode, binary>>
      BY <2>6 DEF Stat, Index, Looping, store, plan, loop
    <3>3. QED
      BY <3>1, <3>2 DEF PlanInv, Done, Looping, Typing, TypeOK
  <2>7. ASSUME NEW p \in Writers, NEW f \in Files, (Mark(p) /\ f = cur[p]) \/ Drop(p, f)
        PROVE  PlanInv'
    <3>1. \A q \in Writers : q # p => pc'[q] \notin Looping \cup {"walk"}
      BY <2>7, OneWriter DEF Mark, Drop, Looping, Typing, TypeOK
    <3>2. /\ pc[p] \in Looping /\ pc'[p] = "next"
          /\ UNCHANGED <<found, mode, binary>>
          /\ todo'[p] = todo[p] \ {f}
      BY <2>7 DEF Mark, Drop, EndOfChange, Looping, plan, Typing, TypeOK
    <3>3. /\ \A g \in Files : g # f => txMarker'[g] = txMarker[g]
          /\ txMarker'[f] = IF found[p][f] = NoLanguage THEN None ELSE
                 [mtime |-> stamp[p], lang |-> found[p][f], version |-> binary[p]]
      BY <2>7 DEF Mark, Drop, Typing, TypeOK, CurrentChange
    <3>4. marker' = txMarker' \/ marker' = marker
      BY <2>7 DEF Mark, Drop, EndOfChange, Release
    <3>5. txMarker' \in [Files -> Rows \cup {None}]
      BY DEF Typing, TypeOK
    <3>6. Done(p, f)'
      <4>1. CASE found[p][f] = NoLanguage
        BY <3>2, <3>3, <4>1 DEF Done
      <4>2. CASE found[p][f] # NoLanguage
        <5>1. txMarker'[f] \in Rows
          BY <3>3, <4>2 DEF Typing, TypeOK, Mapping, Rows
        <5>2. QED
          BY <3>2, <3>3, <4>2, <5>1 DEF Done
      <4>3. QED
        BY <4>1, <4>2
    <3>7. \A g \in Files \ todo'[p] : Done(p, g)'
      BY <3>2, <3>3, <3>6 DEF PlanInv, Done
    <3>8. ASSUME mode[p] = "apply", NEW g \in Files, marker'[g] # None,
                 found[p][g] # NoLanguage
          PROVE  txMarker'[g] # None
      BY <3>2, <3>3, <3>4, <3>6, <3>8 DEF PlanInv, Done
    <3>9. QED
      BY <3>1, <3>2, <3>7, <3>8 DEF PlanInv, Looping
  <2>8. ASSUME NEW p \in Writers, Mark(p) PROVE \E f \in Files : f = cur[p]
    BY <2>8 DEF Mark, Typing, CurrentChange
  <2>9. QED
    BY <2>1, <2>11, <2>2, <2>3, <2>4, <2>5, <2>6, <2>7, <2>8 DEF Next, Run, DropGuard
<1>3. QED
  BY <1>1, <1>2, TypingInvariant, LockInvariant, PTL DEF Spec

\* A successful run leaves tracked exactly what its walk found, in its
\* language and at the run's extractor version.
THEOREM SuccessTracks == Spec => SuccessTracksTheWalk
<1> DEFINE Tracks == \A p \in Writers :
        outcome[p] # "ok" /\ outcome'[p] = "ok" =>
            \A f \in Files :
                IF found[p][f] = NoLanguage
                THEN marker'[f] = None
                ELSE /\ marker'[f] # None
                     /\ marker'[f].lang = found[p][f]
                     /\ marker'[f].version = binary[p]
<1>1. Typing /\ PlanInv /\ [Next]_vars => [Tracks]_vars
  <2> SUFFICES ASSUME Typing, PlanInv, Next, NEW p \in Writers,
                      outcome[p] # "ok", outcome'[p] = "ok", NEW f \in Files
               PROVE  IF found[p][f] = NoLanguage
                      THEN marker'[f] = None
                      ELSE /\ marker'[f] # None
                           /\ marker'[f].lang = found[p][f]
                           /\ marker'[f].version = binary[p]
    BY DEF Tracks
  <2>1. Finish(p)
    <3>1. ASSUME NEW q \in Writers, Finish(q) PROVE q = p
      BY <3>1 DEF Finish, Typing, TypeOK
    <3>2. ASSUME NEW q \in Writers, Run(q), ~Finish(q) PROVE outcome'[p] # "ok"
      BY <3>2 DEF Run, WritePid, Begin, Walk, Stat, StatFails, Drop, Index, Mark, ClearPid,
                  Unlock, DropGuard, Typing, TypeOK
    <3>3. ASSUME NEW q \in Writers,
                 Start(q) \/ TryLock(q) \/ Busy(q) \/ PidFails(q) \/ Fail(q) \/ Crash(q)
          PROVE  outcome'[p] # "ok"
      BY <3>3 DEF Start, TryLock, Busy, PidFails, Fail, Crash, Typing, TypeOK
    <3>4. ASSUME World \/ \E s \in Probers : Probe(s) \/ EndProbe(s)
          PROVE  outcome'[p] # "ok"
      BY <3>4 DEF World, Write, Delete, Hide, Reveal, Reconfigure, Upgrade, Probe, EndProbe
    <3>5. QED
      BY <3>1, <3>2, <3>3, <3>4 DEF Next
  <2>2. QED
    BY <2>1 DEF Finish, PlanInv, Done, Looping
<1>2. QED
  BY <1>1, TypingInvariant, PlanInvariant, PTL DEF Spec, SuccessTracksTheWalk

\* Committed files leave the index only because a walk did not find them.
THEOREM FilesLeave == Spec => FilesLeaveOnlyWhenNotFound
<1> DEFINE Leaves == \A f \in Files :
        marker[f] # None /\ marker'[f] = None =>
            \E p \in Writers : lock = p /\ found[p][f] = NoLanguage
<1>1. Typing /\ Typing' /\ LockInv /\ PlanInv /\ PlanInv' /\ [Next]_vars => [Leaves]_vars
  <2> SUFFICES ASSUME Typing, Typing', LockInv, PlanInv, PlanInv', Next, NEW f \in Files,
                      marker[f] # None, marker'[f] = None
               PROVE  \E p \in Writers : lock = p /\ found[p][f] = NoLanguage
    BY DEF Leaves
  <2>1. PICK p \in Writers : Finish(p) \/ Mark(p) \/ \E g \in Files : Drop(p, g)
    <3>1. ASSUME NEW q \in Writers, Run(q) PROVE Finish(q) \/ Mark(q) \/ \E g \in Files : Drop(q, g)
      BY <3>1 DEF Run, WritePid, Begin, Walk, Stat, StatFails, Rollback, Index, ClearPid,
                  Unlock, DropGuard, store
    <3>2. ASSUME NEW q \in Writers
          PROVE  ~(Start(q) \/ TryLock(q) \/ Busy(q) \/ PidFails(q) \/ Fail(q) \/ Crash(q))
      BY DEF Start, TryLock, Busy, PidFails, Fail, Crash, Rollback, store
    <3>3. ~(World \/ \E s \in Probers : Probe(s) \/ EndProbe(s))
      BY DEF World, Write, Delete, Hide, Reveal, Reconfigure, Upgrade, Probe, EndProbe, store
    <3>4. QED
      BY <3>1, <3>2, <3>3 DEF Next
  <2>2. lock = p
    BY <2>1 DEF Finish, Mark, Drop, LockInv, LockHeld
  <2>3. CASE Finish(p)
    BY <2>2, <2>3 DEF Finish, PlanInv, Done, Looping
  <2>4. CASE Mark(p) \/ \E g \in Files : Drop(p, g)
    <3>1. marker' = txMarker' /\ mode[p] = "apply"
      BY <2>4 DEF Mark, Drop, EndOfChange, Release
    <3>2. pc[p] \in Looping /\ found' = found
      BY <2>4 DEF Mark, Drop, Looping, plan
    <3>3. found[p][f] # NoLanguage => txMarker[f] # None
      BY <3>1, <3>2 DEF PlanInv
    <3>4. found[p][f] # NoLanguage => txMarker'[f] # None
      <4>1. CASE Mark(p)
        <5>1. txMarker'[cur[p]] \in Rows
          BY <4>1 DEF Mark, Typing, TypeOK, CurrentChange, Rows
        <5>2. QED
          BY <3>3, <4>1, <5>1 DEF Mark, Typing, TypeOK, CurrentChange
      <4>2. CASE \E g \in Files : Drop(p, g)
        BY <3>3, <4>2 DEF Drop, Typing, TypeOK
      <4>3. QED
        BY <2>4, <4>1, <4>2
    <3>5. QED
      BY <2>2, <3>1, <3>4
  <2>5. QED
    BY <2>1, <2>3, <2>4
<1>2. QED
  BY <1>1, TypingInvariant, LockInvariant, PlanInvariant, PTL
     DEF Spec, FilesLeaveOnlyWhenNotFound

-----------------------------------------------------------------------------
(***************************************************************************)
(* Without unreadable files and configuration races.                       *)
(***************************************************************************)

\* A tracked file without rows is gone, or has been written again since; rows
\* are in the marker's language.
Complete(m, r, f) ==
    m # None => IF r = None
                THEN f \notin present \/ m.mtime < mtime[f]
                ELSE r.lang = m.lang

CleanInv ==
    /\ readable = Files
    /\ \A p \in Writers :
        /\ pc[p] = "walk" => langs[p] = config
        /\ pc[p] \in Looping => \A f \in Files : found[p][f] \in {NoLanguage, langs[p]}
        /\ pc[p] \in Looping \cup {"walk"} => \A f \in Files :
              BeingMarked(p, f) \/ Complete(txMarker[f], txRows[f], f)
        /\ pc[p] = "mark" =>
              IF txRows[cur[p]] = None
              THEN cur[p] \notin present \/ stamp[p] < mtime[cur[p]]
              ELSE txRows[cur[p]].lang = langs[p]
    /\ \A f \in Files : Complete(marker[f], rows[f], f)

\* A write leaves the tables complete: it moves the file past every marker.
LEMMA CompleteAfterWrite ==
    ASSUME Typing, NEW f \in Files, Write(f), NEW g \in Files,
           NEW m \in Rows \cup {None}, NEW r, m # None => m.mtime <= mtime[g],
           Complete(m, r, g)
    PROVE  Complete(m, r, g)'
<1>1. CASE g = f
  <2>1. mtime'[f] = clock + 1
    BY DEF Write, Typing, TypeOK
  <2>2. mtime[f] <= clock /\ mtime[f] \in Nat /\ clock \in Nat
    BY DEF Typing, TypeOK, ClockBound, Times
  <2>3. m # None => m.mtime \in Nat
    BY DEF Rows, Times
  <2>4. m # None => m.mtime < mtime'[f]
    BY <1>1, <2>1, <2>2, <2>3
  <2>5. QED
    BY <1>1, <2>4 DEF Complete
<1>2. CASE g # f
  <2>1. mtime'[g] = mtime[g] /\ (g \in present' <=> g \in present)
    BY <1>2 DEF Write, Typing, TypeOK
  <2>2. QED
    BY <2>1 DEF Complete
<1>3. QED
  BY <1>1, <1>2

\* The clean invariant holds in every reachable state.
LEMMA CleanInvariant == ~ReadFaults /\ ~RacyConfig => (Spec => []CleanInv)
<1> SUFFICES ASSUME ~ReadFaults, ~RacyConfig PROVE Spec => []CleanInv
  OBVIOUS
<1>1. Init => CleanInv
  BY DEF Init, CleanInv, Complete, Looping, NoRows
<1>2. Typing /\ Typing' /\ LockInv /\ TablesInv /\ CleanInv /\ [Next]_vars => CleanInv'
  <2> SUFFICES ASSUME Typing, Typing', LockInv, TablesInv, CleanInv, [Next]_vars
               PROVE  CleanInv'
    OBVIOUS
  <2>1. ASSUME NEW f \in Files, Write(f) PROVE CleanInv'
    <3>1. UNCHANGED <<readable, config, pc, marker, rows, txMarker, txRows, langs, found,
                      cur, stamp>>
      BY <2>1 DEF Write, store, plan, loop
    <3>2. \A g \in Files : Complete(marker[g], rows[g], g)'
      BY <2>1, <3>1, CompleteAfterWrite DEF CleanInv, TablesInv, Backed, Typing, TypeOK, Complete
    <3>3. ASSUME NEW p \in Writers, pc[p] \in Looping \cup {"walk"}, NEW g \in Files
          PROVE  (BeingMarked(p, g) \/ Complete(txMarker[g], txRows[g], g))'
      <4>1. CASE BeingMarked(p, g)
        BY <3>1, <4>1 DEF BeingMarked
      <4>2. CASE ~BeingMarked(p, g)
        <5>1. Complete(txMarker[g], txRows[g], g) /\ Backed(txMarker[g], txRows[g], g)
          BY <3>3, <4>2 DEF CleanInv, TablesInv, Looping
        <5>2. QED
          BY <2>1, <3>1, <5>1, CompleteAfterWrite DEF Backed, Typing, TypeOK, Complete
      <4>3. QED
        BY <4>1, <4>2
    <3>4. ASSUME NEW p \in Writers, pc[p] = "mark", txRows[cur[p]] = None
          PROVE  cur[p] \notin present' \/ stamp[p] < mtime'[cur[p]]
      <4>1. cur[p] \in Files /\ stamp[p] <= mtime[cur[p]]
        BY <3>4 DEF Typing, CurrentChange
      <4>2. CASE cur[p] = f
        <5>1. mtime'[f] = clock + 1 /\ mtime[f] <= clock
          BY <2>1 DEF Write, Typing, TypeOK, ClockBound
        <5>2. mtime[f] \in Nat /\ clock \in Nat /\ stamp[p] \in Nat
          BY DEF Typing, TypeOK, Times
        <5>3. QED
          BY <4>1, <4>2, <5>1, <5>2
      <4>3. CASE cur[p] # f
        BY <2>1, <3>4, <4>1, <4>3 DEF Write, CleanInv, Typing, TypeOK
      <4>4. QED
        BY <4>2, <4>3
    <3>5. QED
      BY <3>1, <3>2, <3>3, <3>4 DEF CleanInv
  <2>2. ASSUME NEW f \in Files, Delete(f) \/ Reveal(f) PROVE CleanInv'
    <3>1. /\ UNCHANGED <<mtime, config, pc, marker, rows, txMarker, txRows, langs, found,
                         cur, stamp>>
          /\ present' \subseteq present /\ readable' = Files
      BY <2>2 DEF Delete, Reveal, CleanInv, store, plan, loop
    <3>2. \A g \in Files : Complete(marker[g], rows[g], g)'
      BY <3>1 DEF CleanInv, Complete
    <3>3. \A p \in Writers : pc'[p] \in Looping \cup {"walk"} => \A g \in Files :
              (BeingMarked(p, g) \/ Complete(txMarker[g], txRows[g], g))'
      BY <3>1 DEF CleanInv, Complete, BeingMarked
    <3>4. QED
      BY <3>1, <3>2, <3>3 DEF CleanInv
  <2>3. ASSUME NEW m \in Mapping, Reconfigure(m) PROVE CleanInv'
    BY <2>3 DEF Reconfigure, CleanInv, Complete, BeingMarked, store, plan, loop
  <2>4. ASSUME Upgrade \/ (\E s \in Probers : Probe(s) \/ EndProbe(s)) \/ UNCHANGED vars
        PROVE  CleanInv'
    <3>1. UNCHANGED <<present, readable, mtime, config, pc, marker, rows, txMarker, txRows,
                      langs, found, cur, stamp>>
      BY <2>4 DEF Upgrade, Probe, EndProbe, vars, world, store, plan, loop
    <3>2. QED
      BY <3>1 DEF CleanInv, Complete, BeingMarked
  <2>41. ASSUME NEW p \in Writers, Start(p) \/ Busy(p) PROVE CleanInv'
    <3>1. /\ pc'[p] \in Outside
          /\ \A q \in Writers \ {p} : /\ pc'[q] = pc[q] /\ found'[q] = found[q]
                                       /\ langs'[q] = langs[q] /\ cur'[q] = cur[q]
                                       /\ stamp'[q] = stamp[q]
          /\ UNCHANGED <<present, readable, mtime, config, marker, rows, txMarker, txRows>>
      BY <2>41, OutsideStep DEF Typing, world, store
    <3>2. QED
      BY <3>1 DEF CleanInv, Complete, BeingMarked, Looping
  <2>5. ASSUME NEW f \in Files, Hide(f) PROVE FALSE
    BY <2>5 DEF Hide
  <2>6. ASSUME NEW p \in Writers, TryLock(p) PROVE CleanInv'
    <3>1. \A q \in Writers : pc'[q] \notin Looping \cup {"walk"}
      BY <2>6 DEF TryLock, Looping, LockInv, LockHeld, Typing, TypeOK
    <3>2. UNCHANGED <<present, readable, mtime, marker, rows>>
      BY <2>6 DEF TryLock, world, store
    <3>3. QED
      BY <3>1, <3>2 DEF CleanInv, Complete, Looping
  <2>7. ASSUME NEW p \in Writers,
               \/ WritePid(p) \/ ClearPid(p) \/ Unlock(p)
               \/ PidFails(p) \/ Fail(p) \/ Crash(p)
               \/ \E f \in Files : StatFails(p, f)
        PROVE  CleanInv'
    <3>1. pc[p] \notin Outside /\ \E to \in {"config", "clear", "unlock", "idle"} :
                                pc' = [pc EXCEPT ![p] = to]
      BY <2>7 DEF WritePid, ClearPid, Unlock, PidFails, Fail, Crash, StatFails,
                  Critical, InTransaction
    <3>2. \A q \in Writers : pc'[q] \notin Looping \cup {"walk"}
      BY <3>1, OneWriter DEF Looping, Typing, TypeOK
    <3>3. UNCHANGED <<present, readable, mtime, marker, rows>>
      BY <2>7 DEF WritePid, ClearPid, Unlock, PidFails, Fail, Crash, StatFails, Rollback,
                  world, store
    <3>4. QED
      BY <3>2, <3>3 DEF CleanInv, Complete, Looping
  <2>8. ASSUME NEW p \in Writers, Finish(p) PROVE CleanInv'
    <3>1. \A q \in Writers : pc'[q] \notin Looping \cup {"walk"}
      BY <2>8, OneWriter DEF Finish, Looping, Typing, TypeOK
    <3>2. /\ UNCHANGED <<present, readable, mtime>> /\ marker' = txMarker /\ rows' = txRows
          /\ pc[p] = "next"
      BY <2>8 DEF Finish, world
    <3>3. \A f \in Files : Complete(marker[f], rows[f], f)'
      BY <3>2 DEF CleanInv, Complete, BeingMarked, Looping
    <3>4. QED
      BY <3>1, <3>2, <3>3 DEF CleanInv, Looping
  <2>9. ASSUME NEW p \in Writers, NEW m \in {"apply", "rebuild"}, Begin(p, m)
        PROVE  CleanInv'
    <3>1. \A q \in Writers : q # p => pc'[q] \notin Looping \cup {"walk"}
      BY <2>9, OneWriter DEF Begin, Looping, Typing, TypeOK
    <3>2. /\ pc'[p] = "walk" /\ langs'[p] = config
          /\ UNCHANGED <<present, readable, mtime, config, marker, rows>>
      BY <2>9 DEF Begin, world, Typing, TypeOK
    <3>3. \A f \in Files : Complete(txMarker[f], txRows[f], f)'
      BY <2>9, <3>2 DEF Begin, CleanInv, Complete, NoRows
    <3>4. \A f \in Files : Complete(marker[f], rows[f], f)'
      BY <3>2 DEF CleanInv, Complete
    <3>5. QED
      BY <3>1, <3>2, <3>3, <3>4 DEF CleanInv, Looping
  <2>10. ASSUME NEW p \in Writers, Walk(p) PROVE CleanInv'
    <3>1. \A q \in Writers : q # p => pc'[q] \notin Looping \cup {"walk"}
      BY <2>10, OneWriter DEF Walk, Looping, Typing, TypeOK
    <3>2. /\ pc[p] = "walk" /\ pc'[p] = "next"
          /\ UNCHANGED <<present, readable, mtime, config, marker, rows, txMarker, txRows, langs>>
          /\ \A f \in Files : found'[p][f] \in {NoLanguage, config}
      BY <2>10 DEF Walk, world, store, Typing, TypeOK
    <3>3. \A f \in Files : Complete(txMarker[f], txRows[f], f)'
      BY <3>2 DEF CleanInv, Complete, BeingMarked
    <3>4. \A f \in Files : Complete(marker[f], rows[f], f)'
      BY <3>2 DEF CleanInv, Complete
    <3>5. QED
      BY <3>1, <3>2, <3>3, <3>4 DEF CleanInv, Looping
  <2>11. ASSUME NEW p \in Writers, NEW f \in Files, Stat(p, f) PROVE CleanInv'
    <3>1. \A q \in Writers : q # p => pc'[q] \notin Looping \cup {"walk"}
      BY <2>11, OneWriter DEF Stat, Looping, Typing, TypeOK
    <3>2. /\ pc[p] = "next" /\ pc'[p] = "read"
          /\ UNCHANGED <<present, readable, mtime, config, marker, rows, txMarker, txRows,
                         langs, found>>
      BY <2>11 DEF Stat, world, store, plan, Typing, TypeOK
    <3>3. \A g \in Files : Complete(txMarker[g], txRows[g], g)'
      BY <3>2 DEF CleanInv, Complete, BeingMarked, Looping
    <3>4. \A g \in Files : Complete(marker[g], rows[g], g)'
      BY <3>2 DEF CleanInv, Complete
    <3>5. readable' = Files /\ \A g \in Files : found'[p][g] \in {NoLanguage, langs'[p]}
      BY <3>2 DEF CleanInv, Looping
    <3>6. QED
      BY <3>1, <3>2, <3>3, <3>4, <3>5 DEF CleanInv, Looping
  <2>12. ASSUME NEW p \in Writers, Index(p) PROVE CleanInv'
    <3>1. \A q \in Writers : q # p => pc'[q] \notin Looping \cup {"walk"}
      BY <2>12, OneWriter DEF Index, Looping, Typing, TypeOK
    <3>2. /\ pc[p] = "read" /\ pc'[p] = "mark"
          /\ UNCHANGED <<present, readable, mtime, config, marker, rows, txMarker, langs,
                         found, cur, stamp>>
      BY <2>12 DEF Index, world, plan, loop, Typing, TypeOK
    <3>3. cur[p] \in Files /\ langs[p] # NoLanguage
      BY <3>2 DEF Typing, CurrentChange, CleanInv, Looping
    <3>4. /\ \A g \in Files : g # cur[p] => txRows'[g] = txRows[g]
          /\ cur[p] \notin present => txRows'[cur[p]] = None
          /\ cur[p] \in present => txRows'[cur[p]] =
                [mtime |-> mtime[cur[p]], lang |-> langs[p], version |-> binary[p]]
      BY <2>12, <3>3 DEF Index, CleanInv, Typing, TypeOK
    <3>5. IF txRows'[cur[p]] = None
          THEN cur[p] \notin present
          ELSE txRows'[cur[p]].lang = langs[p]
      <4>1. CASE cur[p] \in present
        <5>1. txRows'[cur[p]] \in Rows
          BY <3>3, <3>4, <4>1 DEF Typing, TypeOK, Rows, Mapping
        <5>2. QED
          BY <3>4, <4>1, <5>1
      <4>2. CASE cur[p] \notin present
        BY <3>4, <4>2
      <4>3. QED
        BY <4>1, <4>2
    <3>6. \A g \in Files : (BeingMarked(p, g) \/ Complete(txMarker[g], txRows[g], g))'
      BY <3>2, <3>4 DEF CleanInv, Complete, BeingMarked, Looping
    <3>7. \A g \in Files : Complete(marker[g], rows[g], g)'
      BY <3>2 DEF CleanInv, Complete
    <3>8. QED
      BY <3>1, <3>2, <3>5, <3>6, <3>7 DEF CleanInv, Looping
  <2>13. ASSUME NEW p \in Writers, NEW f \in Files, (Mark(p) /\ f = cur[p]) \/ Drop(p, f)
         PROVE  CleanInv'
    <3>1. \A q \in Writers : q # p => pc'[q] \notin Looping \cup {"walk"}
      BY <2>13, OneWriter DEF Mark, Drop, Looping, Typing, TypeOK
    <3>2. /\ pc[p] \in Looping /\ pc'[p] = "next"
          /\ UNCHANGED <<present, readable, mtime, config, langs, found>>
      BY <2>13 DEF Mark, Drop, Looping, world, plan, Typing, TypeOK
    <3>3. \A g \in Files : g # f => txMarker'[g] = txMarker[g] /\ txRows'[g] = txRows[g]
      BY <2>13 DEF Mark, Drop, Typing, TypeOK
    <3>4. Complete(txMarker[f], txRows[f], f)'
      <4>1. CASE Mark(p) /\ f = cur[p]
        <5>1. /\ txMarker'[f] =
                    [mtime |-> stamp[p], lang |-> found[p][f], version |-> binary[p]]
              /\ txRows' = txRows /\ pc[p] = "mark"
          BY <4>1 DEF Mark, Typing, TypeOK
        <5>2. found[p][f] = langs[p]
          BY <4>1, <5>1 DEF CleanInv, Typing, CurrentChange, Looping
        <5>3. QED
          BY <3>2, <4>1, <5>1, <5>2 DEF CleanInv, Complete
      <4>2. CASE Drop(p, f)
        BY <4>2 DEF Drop, Complete, Typing, TypeOK
      <4>3. QED
        BY <2>13, <4>1, <4>2
    <3>5. \A g \in Files : g # f => ~BeingMarked(p, g)
      BY <2>13 DEF Mark, Drop, BeingMarked
    <3>6. \A g \in Files : Complete(txMarker[g], txRows[g], g)'
      BY <3>2, <3>3, <3>4, <3>5 DEF CleanInv, Complete, Looping
    <3>7. (marker' = txMarker' /\ rows' = txRows') \/ UNCHANGED <<marker, rows>>
      BY <2>13 DEF Mark, Drop, EndOfChange, Release
    <3>8. \A g \in Files : Complete(marker[g], rows[g], g)'
      BY <3>2, <3>6, <3>7 DEF CleanInv, Complete
    <3>9. QED
      BY <3>1, <3>2, <3>6, <3>8 DEF CleanInv, Looping
  <2>14. ASSUME NEW p \in Writers, Mark(p) PROVE \E f \in Files : f = cur[p]
    BY <2>14 DEF Mark, Typing, CurrentChange
  <2>15. QED
    BY <2>1, <2>2, <2>3, <2>4, <2>41, <2>5, <2>6, <2>7, <2>8, <2>9, <2>10, <2>11, <2>12,
       <2>13, <2>14 DEF Next, World, Run, DropGuard
<1>3. QED
  BY <1>1, <1>2, TypingInvariant, LockInvariant, TablesInvariant, PTL DEF Spec

\* When every file can be read and the configuration holds still between its
\* two loads, a file that would be skipped has exactly its present contents'
\* rows, in the configured language, by the installed extractor.
THEOREM SkippedFilesCurrent == ~ReadFaults /\ ~RacyConfig => (Spec => []SkippedFilesAreCurrent)
<1> SUFFICES ASSUME ~ReadFaults, ~RacyConfig PROVE Spec => []SkippedFilesAreCurrent
  OBVIOUS
<1>1. ASSUME Typing, TablesInv, CleanInv, NEW f \in Files, WouldSkip(f)
      PROVE  rows[f] = Current(f)
  <2>1. /\ marker[f] = [mtime |-> mtime[f], lang |-> config, version |-> version]
        /\ f \in present /\ config # NoLanguage
    BY <1>1 DEF WouldSkip, IsUnchanged
  <2>2. marker[f] \in Rows
    BY <2>1, <1>1 DEF Typing, TypeOK, Rows, Mapping
  <2>3. rows[f] # None
    <3>1. marker[f] # None /\ marker[f].mtime = mtime[f]
      BY <2>1, <2>2
    <3>2. ~(mtime[f] < mtime[f])
      BY <1>1 DEF Typing, TypeOK, Times
    <3>3. QED
      BY <1>1, <2>1, <3>1, <3>2 DEF CleanInv, Complete
  <2>4. rows[f] \in Rows
    BY <1>1, <2>3 DEF Typing, TypeOK
  <2>5. rows[f].lang = config
    BY <1>1, <2>1, <2>2, <2>3 DEF CleanInv, Complete
  <2>6. mtime[f] <= rows[f].mtime /\ rows[f].mtime <= mtime[f] /\ rows[f].version = version
    BY <1>1, <2>1, <2>3 DEF TablesInv, Backed
  <2>7. mtime[f] \in Nat /\ rows[f].mtime \in Nat
    BY <1>1, <2>4 DEF Typing, TypeOK, Rows, Times
  <2>8. rows[f].mtime = mtime[f]
    BY <2>6, <2>7
  <2>9. QED
    BY <2>4, <2>5, <2>6, <2>8 DEF Current, Rows
<1>2. Typing /\ TablesInv /\ CleanInv => SkippedFilesAreCurrent
  BY <1>1 DEF SkippedFilesAreCurrent
<1>3. Spec => []CleanInv
  BY CleanInvariant
<1>4. QED
  BY <1>2, <1>3, TypingInvariant, TablesInvariant, PTL

-----------------------------------------------------------------------------
(***************************************************************************)
(* What a failed or killed run can lose.                                   *)
(***************************************************************************)

\* At most n elements.
AtMost(S, n) == IsFiniteSet(S) /\ Cardinality(S) <= n

\* The files the open transaction has changed.
Uncommitted == {f \in Files : txMarker[f] # marker[f] \/ txRows[f] # rows[f]}

\* The counter is below the chunk, and counts what an apply has not committed;
\* the change that is being applied is not counted yet.
ChunkInv ==
    \A p \in Writers :
        /\ applied[p] < ChunkFiles
        /\ mode[p] = "apply" /\ pc[p] \in {"walk", "next"} => AtMost(Uncommitted, applied[p])
        /\ mode[p] = "apply" /\ pc[p] \in {"read", "mark"}
               => AtMost(Uncommitted \ {cur[p]}, applied[p])

\* Nothing, fewer files and one more file.
LEMMA AtMostNothing == ASSUME NEW n \in Nat PROVE AtMost({}, n)
  BY FS_EmptySet DEF AtMost

LEMMA AtMostSubset ==
    ASSUME NEW S, NEW n \in Nat, AtMost(S, n), NEW T \in SUBSET S
    PROVE  AtMost(T, n)
  BY FS_Subset, FS_CardinalityType DEF AtMost

LEMMA AtMostOneMore ==
    ASSUME NEW S, NEW n \in Nat, AtMost(S, n), NEW f, NEW T \in SUBSET (S \cup {f})
    PROVE  AtMost(T, n + 1)
<1>1. AtMost(S \cup {f}, n + 1)
  <2>1. IsFiniteSet(S) /\ Cardinality(S) \in Nat /\ Cardinality(S) <= n
    BY FS_CardinalityType DEF AtMost
  <2>2. /\ IsFiniteSet(S \cup {f})
        /\ Cardinality(S \cup {f}) \in {Cardinality(S), Cardinality(S) + 1}
    BY <2>1, FS_AddElement
  <2>3. QED
    BY <2>1, <2>2 DEF AtMost
<1>2. QED
  BY <1>1, AtMostSubset

\* The end of a change counts it, or commits everything and starts again.
LEMMA ChunkStep ==
    ASSUME Typing, ChunkInv, NEW p \in Writers, NEW f \in Files, EndOfChange(p, f),
           mode[p] = "apply" => AtMost(Uncommitted \ {f}, applied[p]),
           \A g \in Files \ {f} : txMarker'[g] = txMarker[g] /\ txRows'[g] = txRows[g]
    PROVE  /\ applied'[p] < ChunkFiles
           /\ mode[p] = "apply" => AtMost(Uncommitted', applied'[p])
           /\ \A q \in Writers \ {p} : applied'[q] = applied[q]
<1>1. applied[p] \in Nat /\ applied \in [Writers -> 0 .. ChunkFiles]
  BY DEF Typing, TypeOK
<1>2. CASE applied[p] + 1 >= ChunkFiles
  <2>1. applied' = [applied EXCEPT ![p] = 0] /\ Release(p)
    BY <1>2 DEF EndOfChange
  <2>2. mode[p] = "apply" => Uncommitted' = {}
    BY <2>1 DEF Release, Uncommitted
  <2>3. QED
    BY <1>1, <2>1, <2>2, AtMostNothing, SMTT(30)
<1>3. CASE ~(applied[p] + 1 >= ChunkFiles)
  <2>1. applied' = [applied EXCEPT ![p] = @ + 1] /\ UNCHANGED <<marker, rows>>
    BY <1>3 DEF EndOfChange
  <2>2. Uncommitted' \subseteq (Uncommitted \ {f}) \cup {f}
    BY <2>1 DEF Uncommitted
  <2>3. mode[p] = "apply" => AtMost(Uncommitted', applied[p] + 1)
    BY <1>1, <2>2, AtMostOneMore
  <2>4. QED
    BY <1>1, <1>3, <2>1, <2>3
<1>4. QED
  BY <1>2, <1>3

\* ChunkInv holds in every reachable state.
LEMMA ChunkInvariant == Spec => []ChunkInv
<1>1. Init => ChunkInv
  BY DEF Init, ChunkInv
<1>2. Typing /\ LockInv /\ ChunkInv /\ [Next]_vars => ChunkInv'
  <2> SUFFICES ASSUME Typing, LockInv, ChunkInv, [Next]_vars PROVE ChunkInv'
    OBVIOUS
  <2> DEFINE Of(p) ==
        /\ applied[p] < ChunkFiles
        /\ mode[p] = "apply" /\ pc[p] \in {"walk", "next"} => AtMost(Uncommitted, applied[p])
        /\ mode[p] = "apply" /\ pc[p] \in {"read", "mark"}
               => AtMost(Uncommitted \ {cur[p]}, applied[p])
  <2>0. \A p \in Writers : applied[p] \in Nat /\ 0 < ChunkFiles
    BY DEF Typing, TypeOK
  <2>1. ASSUME UNCHANGED <<store, pc, mode, cur, applied>> PROVE ChunkInv'
    <3>1. Uncommitted' = Uncommitted
      BY <2>1 DEF Uncommitted, store
    <3>2. QED
      BY <2>1, <3>1 DEF ChunkInv
  <2>2. ASSUME NEW p \in Writers,
               \A q \in Writers \ {p} : pc'[q] \in Outside /\ applied'[q] = applied[q],
               Of(p)'
        PROVE  ChunkInv'
    BY <2>2 DEF ChunkInv
  <2>3. ASSUME NEW p \in Writers, pc[p] \notin Outside, NEW to, pc' = [pc EXCEPT ![p] = to]
        PROVE  \A q \in Writers \ {p} : pc'[q] \in Outside
    BY <2>3 DEF LockInv, LockHeld, Typing, TypeOK
  <2>4. ASSUME World \/ (\E s \in Probers : Probe(s) \/ EndProbe(s)) \/ UNCHANGED vars
        PROVE  ChunkInv'
    <3>1. UNCHANGED <<store, pc, mode, cur, applied>>
      BY <2>4 DEF World, Write, Delete, Hide, Reveal, Reconfigure, Upgrade, Probe, EndProbe,
                  vars, plan, loop
    <3>2. QED
      BY <2>1, <3>1
  <2>5. ASSUME NEW p \in Writers, Start(p) \/ Busy(p) PROVE ChunkInv'
    <3>1. /\ pc'[p] \in Outside
          /\ \A q \in Writers \ {p} : /\ pc'[q] = pc[q] /\ mode'[q] = mode[q]
                                       /\ cur'[q] = cur[q] /\ applied'[q] = applied[q]
          /\ UNCHANGED store
      BY <2>5, OutsideStep DEF Typing
    <3>2. Uncommitted' = Uncommitted
      BY <3>1 DEF Uncommitted, store
    <3>3. applied'[p] < ChunkFiles
      <4>1. applied'[p] \in {0, applied[p]}
        BY <2>5 DEF Start, Busy, Forget, loop, Typing, TypeOK
      <4>. QED BY <4>1, <2>0 DEF ChunkInv
    <3>. QED BY <3>1, <3>2, <3>3 DEF ChunkInv
  <2>6. ASSUME NEW p \in Writers, TryLock(p) PROVE ChunkInv'
    <3>1. \A q \in Writers : pc[q] \in Outside
      BY <2>6 DEF TryLock, LockInv, LockHeld, Typing, TypeOK
    <3>2. /\ pc' = [pc EXCEPT ![p] = "pid"]
          /\ applied' = applied
      BY <2>6 DEF TryLock, plan, loop
    <3>3. \A q \in Writers : pc'[q] \in Outside \cup {"pid"}
      BY <3>1, <3>2 DEF Typing, TypeOK
    <3>4. QED
      BY <3>2, <3>3 DEF ChunkInv
  <2>7. ASSUME NEW p \in Writers,
               WritePid(p) \/ ClearPid(p) \/ Finish(p) \/ Fail(p) \/ \E f \in Files : StatFails(p, f)
        PROVE  ChunkInv'
    <3>1. PICK to \in {"config", "unlock", "clear"} : pc' = [pc EXCEPT ![p] = to]
      BY <2>7 DEF WritePid, ClearPid, Finish, Fail, StatFails
    <3>2. applied' = applied /\ pc[p] \notin Outside
      BY <2>7 DEF WritePid, ClearPid, Finish, Fail, StatFails, loop, InTransaction
    <3>3. pc'[p] = to
      BY <3>1 DEF Typing, TypeOK
    <3>4. Of(p)'
      BY <3>2, <3>3 DEF ChunkInv
    <3>5. QED
      BY <2>2, <2>3, <3>1, <3>2, <3>4
  <2>8. ASSUME NEW p \in Writers, Unlock(p) \/ PidFails(p) \/ Crash(p) PROVE ChunkInv'
    <3>1. pc' = [pc EXCEPT ![p] = "idle"] /\ pc[p] \notin Outside /\ applied' = [applied EXCEPT ![p] = 0]
      BY <2>8 DEF Unlock, PidFails, Crash, Forget, Critical, InTransaction
    <3>2. pc'[p] = "idle" /\ applied'[p] = 0 /\ \A q \in Writers \ {p} : applied'[q] = applied[q]
      BY <3>1 DEF Typing, TypeOK
    <3>3. Of(p)'
      BY <3>2, <2>0
    <3>4. QED
      BY <2>2, <2>3, <3>1, <3>2, <3>3
  <2>9. ASSUME NEW p \in Writers, NEW m \in {"apply", "rebuild"}, Begin(p, m) PROVE ChunkInv'
    <3>1. /\ pc' = [pc EXCEPT ![p] = "walk"] /\ pc[p] \notin Outside /\ applied' = applied
          /\ mode' = [mode EXCEPT ![p] = m]
      BY <2>9 DEF Begin, loop
    <3>2. m = "apply" => Uncommitted' = {}
      BY <2>9 DEF Begin, Uncommitted
    <3>3. pc'[p] = "walk" /\ mode'[p] = m
      BY <3>1 DEF Typing, TypeOK
    <3>4. Of(p)'
      BY <3>1, <3>2, <3>3, <2>0, AtMostNothing DEF ChunkInv
    <3>5. QED
      BY <2>2, <2>3, <3>1, <3>4
  <2>10. ASSUME NEW p \in Writers, Walk(p) \/ \E f \in Files : Stat(p, f) PROVE ChunkInv'
    <3>1. PICK to \in {"next", "read"} : pc' = [pc EXCEPT ![p] = to]
      BY <2>10 DEF Walk, Stat
    <3>2. UNCHANGED <<store, mode, applied>> /\ pc[p] \in {"walk", "next"}
      BY <2>10 DEF Walk, Stat, plan
    <3>3. Uncommitted' = Uncommitted /\ pc'[p] = to
      BY <3>1, <3>2 DEF Uncommitted, store, Typing, TypeOK
    <3>4. mode[p] = "apply" => AtMost(Uncommitted, applied[p])
      BY <3>2 DEF ChunkInv
    <3>5. mode[p] = "apply" => AtMost(Uncommitted \ {cur'[p]}, applied[p])
      BY <3>4, <2>0, AtMostSubset
    <3>6. Of(p)'
      BY <3>2, <3>3, <3>4, <3>5 DEF ChunkInv
    <3>7. QED
      BY <2>2, <2>3, <3>1, <3>2, <3>6
  <2>11. ASSUME NEW p \in Writers, Index(p) PROVE ChunkInv'
    <3>1. /\ pc' = [pc EXCEPT ![p] = "mark"] /\ pc[p] = "read"
          /\ UNCHANGED <<mode, applied, cur, marker, rows, txMarker>>
      BY <2>11 DEF Index, plan, loop
    <3>2. \A g \in Files \ {cur[p]} : txRows'[g] = txRows[g]
      BY <2>11 DEF Index, Typing, TypeOK
    <3>3. Uncommitted' \ {cur'[p]} = Uncommitted \ {cur[p]} /\ pc'[p] = "mark"
      BY <3>1, <3>2 DEF Uncommitted, Typing, TypeOK
    <3>4. Of(p)'
      BY <3>1, <3>3 DEF ChunkInv
    <3>5. QED
      BY <2>2, <2>3, <3>1, <3>4
  <2>12. ASSUME NEW p \in Writers, Mark(p) PROVE ChunkInv'
    <3> DEFINE f == cur[p]
    <3>1. /\ pc' = [pc EXCEPT ![p] = "next"] /\ pc[p] = "mark"
          /\ UNCHANGED mode /\ EndOfChange(p, f)
      BY <2>12 DEF Mark, plan
    <3>2. f \in Files /\ \A g \in Files \ {f} : txMarker'[g] = txMarker[g] /\ txRows'[g] = txRows[g]
      BY <2>12 DEF Mark, Typing, TypeOK, CurrentChange
    <3>3. mode[p] = "apply" => AtMost(Uncommitted \ {f}, applied[p])
      BY <3>1 DEF ChunkInv
    <3> HIDE DEF f
    <3>4. /\ applied'[p] < ChunkFiles
          /\ mode[p] = "apply" => AtMost(Uncommitted', applied'[p])
          /\ \A q \in Writers \ {p} : applied'[q] = applied[q]
      BY <3>1, <3>2, <3>3, ChunkStep
    <3>5. pc'[p] = "next"
      BY <3>1 DEF Typing, TypeOK
    <3>6. Of(p)'
      BY <3>1, <3>4, <3>5
    <3>7. QED
      BY <2>2, <2>3, <3>1, <3>4, <3>6
  <2>13. ASSUME NEW p \in Writers, NEW f \in Files, Drop(p, f) PROVE ChunkInv'
    <3>1. pc' = pc /\ pc[p] = "next" /\ UNCHANGED mode /\ EndOfChange(p, f)
      BY <2>13 DEF Drop, plan
    <3>2. \A g \in Files \ {f} : txMarker'[g] = txMarker[g] /\ txRows'[g] = txRows[g]
      BY <2>13 DEF Drop, Typing, TypeOK
    <3>3. mode[p] = "apply" => AtMost(Uncommitted \ {f}, applied[p])
      BY <3>1, <2>0, AtMostSubset DEF ChunkInv
    <3>4. /\ applied'[p] < ChunkFiles
          /\ mode[p] = "apply" => AtMost(Uncommitted', applied'[p])
          /\ \A q \in Writers \ {p} : applied'[q] = applied[q]
      BY <3>1, <3>2, <3>3, ChunkStep
    <3>5. Of(p)'
      BY <3>1, <3>4
    <3>6. \A q \in Writers \ {p} : pc'[q] \in Outside
      BY <3>1 DEF LockInv, LockHeld, Typing, TypeOK
    <3>7. QED
      BY <2>2, <3>4, <3>5, <3>6
  <2>14. QED
    BY <2>4, <2>5, <2>6, <2>7, <2>8, <2>9, <2>10, <2>11, <2>12, <2>13
       DEF Next, Run, DropGuard
<1>3. QED
  BY <1>1, <1>2, TypingInvariant, LockInvariant, PTL DEF Spec

\* A failed or killed apply loses less than one chunk of changes, for chunks
\* of any size and trees of any number of files.
THEOREM LosesLessThanAChunk == Spec => []UncommittedIsBelowAChunk
<1>1. ASSUME Typing, ChunkInv, NEW p \in Writers, pc[p] = "next", mode[p] = "apply"
      PROVE  Cardinality(Uncommitted) < ChunkFiles
  <2>1. AtMost(Uncommitted, applied[p]) /\ applied[p] < ChunkFiles
    BY <1>1 DEF ChunkInv
  <2>11. applied[p] \in Nat
    BY <1>1 DEF Typing, TypeOK
  <2>2. Cardinality(Uncommitted) \in Nat
    BY <2>1, FS_CardinalityType DEF AtMost
  <2>3. QED
    BY <2>1, <2>11, <2>2 DEF AtMost
<1>2. Typing /\ ChunkInv => UncommittedIsBelowAChunk
  BY <1>1 DEF UncommittedIsBelowAChunk, Uncommitted
<1>3. QED
  BY <1>2, TypingInvariant, ChunkInvariant, PTL

-----------------------------------------------------------------------------
(***************************************************************************)
(* What a reader sees: the steps of CommittedIndex.                        *)
(***************************************************************************)

\* The contents marker m names are no older than those n names.
NotNewer(n, m) == n # None /\ m # None => n.mtime <= m.mtime

\* What an apply has not reached yet is as committed; the transaction never
\* goes back to older contents of a file, nor will the next marker; success
\* is reported at the end only.
ReaderInv ==
    \A p \in Writers :
        /\ pc[p] \in {"pid", "config", "walk"} \cup Looping => outcome[p] # "ok"
        /\ pc[p] = "walk" /\ mode[p] = "apply" => txRows = rows
        /\ pc[p] \in Looping /\ mode[p] = "apply" => \A f \in todo[p] :
              txMarker[f] = marker[f] /\ (txRows[f] = rows[f] \/ BeingMarked(p, f))
        /\ pc[p] \in {"walk"} \cup Looping => \A f \in Files : NotNewer(marker[f], txMarker[f])
        /\ pc[p] \in {"read", "mark"} /\ marker[cur[p]] # None => marker[cur[p]].mtime <= stamp[p]

\* One change of the transaction, and its commit if there is one, keep it from
\* going back.
LEMMA NotNewerStep ==
    ASSUME Typing, Typing', ReaderInv, NEW p \in Writers, NEW f \in Files,
           (Mark(p) /\ f = cur[p]) \/ Drop(p, f)
    PROVE  \A g \in Files : NotNewer(marker[g], txMarker'[g]) /\ NotNewer(marker'[g], txMarker'[g])
<1>1. pc[p] \in Looping
  BY DEF Mark, Drop, Looping
<1>2. ASSUME NEW g \in Files PROVE NotNewer(marker[g], txMarker'[g])
  <2>1. CASE g # f
    <3>1. txMarker'[g] = txMarker[g]
      BY <2>1 DEF Mark, Drop, Typing, TypeOK, CurrentChange
    <3>. QED BY <1>1, <3>1 DEF ReaderInv
  <2>2. CASE g = f /\ Mark(p) /\ f = cur[p]
    <3>1. txMarker'[g] = [mtime |-> stamp[p], lang |-> found[p][f], version |-> binary[p]]
      BY <2>2 DEF Mark, Typing, TypeOK, CurrentChange
    <3>2. pc[p] = "mark"
      BY <2>2 DEF Mark
    <3>. QED BY <2>2, <3>1, <3>2 DEF ReaderInv, NotNewer
  <2>3. CASE g = f /\ Drop(p, f)
    BY <2>3 DEF Drop, NotNewer, Typing, TypeOK
  <2>. QED BY <2>1, <2>2, <2>3
<1>3. marker' = txMarker' \/ marker' = marker
  BY DEF Mark, Drop, EndOfChange, Release
<1>4. ASSUME NEW g \in Files PROVE NotNewer(txMarker'[g], txMarker'[g])
  <2>1. txMarker'[g] # None => txMarker'[g].mtime \in Nat
    BY DEF Typing, TypeOK, Rows, Times
  <2>. QED BY <2>1 DEF NotNewer
<1>. QED BY <1>2, <1>3, <1>4

\* ReaderInv holds in every reachable state.
LEMMA ReaderInvariant == Spec => []ReaderInv
<1>1. Init => ReaderInv
  BY DEF Init, ReaderInv, Looping
<1>2. ASSUME Typing, Typing', LockInv, TablesInv, PlanInv, ReaderInv, [Next]_vars PROVE ReaderInv'
  <2> USE <1>2
  <2>1. ASSUME World \/ (\E s \in Probers : Probe(s) \/ EndProbe(s)) \/ UNCHANGED vars
        PROVE  ReaderInv'
    <3>1. UNCHANGED <<pc, outcome, marker, rows, txMarker, txRows, todo, mode, cur, stamp>>
      BY <2>1 DEF World, Write, Delete, Hide, Reveal, Reconfigure, Upgrade, Probe, EndProbe,
                  vars, store, plan, loop
    <3>. QED BY <3>1 DEF ReaderInv, NotNewer, BeingMarked
  <2>2. ASSUME NEW p \in Writers, Start(p) \/ Busy(p) PROVE ReaderInv'
    <3>1. /\ pc'[p] \in Outside
          /\ \A q \in Writers \ {p} : /\ pc'[q] = pc[q] /\ todo'[q] = todo[q]
                                       /\ mode'[q] = mode[q] /\ cur'[q] = cur[q]
                                       /\ stamp'[q] = stamp[q]
          /\ UNCHANGED <<marker, rows, txMarker, txRows>>
      BY <2>2, OutsideStep DEF Typing, store
    <3>2. \A q \in Writers : outcome'[q] = "ok" => outcome[q] = "ok"
      BY <2>2 DEF Start, Busy, Typing, TypeOK
    <3>. QED BY <3>1, <3>2 DEF ReaderInv, NotNewer, BeingMarked, Looping
  <2>3. ASSUME NEW p \in Writers,
               TryLock(p) \/ WritePid(p) \/ ClearPid(p) \/ Unlock(p) \/ Finish(p)
               \/ PidFails(p) \/ Fail(p) \/ Crash(p) \/ \E f \in Files : StatFails(p, f)
        PROVE  ReaderInv'
    <3>1. PICK to \in {"pid", "config", "clear", "unlock", "idle"} : pc' = [pc EXCEPT ![p] = to]
      BY <2>3 DEF TryLock, WritePid, ClearPid, Unlock, Finish, PidFails, Fail, Crash, StatFails
    <3>2. \A q \in Writers : q # p => pc[q] \in Outside
      <4>1. CASE TryLock(p)
        BY <4>1 DEF TryLock, LockInv, LockHeld
      <4>2. CASE pc[p] \notin Outside
        BY <4>2, OneWriter
      <4>. QED BY <2>3, <4>1, <4>2
               DEF WritePid, ClearPid, Unlock, Finish, PidFails, Fail, Crash, StatFails,
                   Critical, InTransaction
    <3>3. \A q \in Writers : pc'[q] \notin Looping \cup {"walk"}
      BY <3>1, <3>2 DEF Looping, Typing, TypeOK
    <3>4. ASSUME pc'[p] \in {"pid", "config"} PROVE outcome'[p] # "ok"
      <4>1. TryLock(p) \/ WritePid(p)
        BY <2>3, <3>4 DEF ClearPid, Unlock, Finish, PidFails, Fail, Crash, StatFails, Typing, TypeOK
      <4>. QED BY <4>1 DEF TryLock, WritePid, LockInv, NotYet, Typing, TypeOK
    <3>5. \A q \in Writers : q # p => pc'[q] \in Outside
      BY <3>1, <3>2 DEF Typing, TypeOK
    <3>. QED BY <3>3, <3>4, <3>5 DEF ReaderInv, Looping
  <2>4. ASSUME NEW p \in Writers, NEW m \in {"apply", "rebuild"}, Begin(p, m)
        PROVE  ReaderInv'
    <3>1. \A q \in Writers : q # p => pc'[q] \in Outside
      BY <2>4, OneWriter DEF Begin, Typing, TypeOK
    <3>2. /\ pc'[p] = "walk" /\ mode'[p] = m /\ pc[p] = "config"
          /\ m = "apply" => txMarker' = marker /\ txRows' = rows
          /\ m = "rebuild" => txMarker' = NoRows
          /\ UNCHANGED <<marker, rows, outcome>>
      BY <2>4 DEF Begin, Typing, TypeOK
    <3>3. ASSUME NEW f \in Files PROVE NotNewer(marker'[f], txMarker'[f])
      <4>1. marker[f] # None => marker[f].mtime \in Nat
        BY DEF Typing, TypeOK, Rows, Times
      <4>. QED BY <3>2, <4>1 DEF NotNewer, NoRows
    <3>. QED BY <3>1, <3>2, <3>3 DEF ReaderInv, Looping
  <2>5. ASSUME NEW p \in Writers, Walk(p) PROVE ReaderInv'
    <3>1. \A q \in Writers : q # p => pc'[q] \in Outside
      BY <2>5, OneWriter DEF Walk, Typing, TypeOK
    <3>2. /\ pc[p] = "walk" /\ pc'[p] = "next"
          /\ UNCHANGED <<marker, rows, txMarker, txRows, mode, outcome>>
      BY <2>5 DEF Walk, store, Typing, TypeOK
    <3>3. mode[p] = "apply" => txMarker = marker /\ txRows = rows
      BY <3>2 DEF PlanInv, ReaderInv
    <3>. QED BY <3>1, <3>2, <3>3 DEF ReaderInv, Looping
  <2>6. ASSUME NEW p \in Writers, NEW f \in Files, Stat(p, f) PROVE ReaderInv'
    <3>1. \A q \in Writers : q # p => pc'[q] \in Outside
      BY <2>6, OneWriter DEF Stat, Typing, TypeOK
    <3>2. /\ pc[p] = "next" /\ pc'[p] = "read" /\ cur'[p] = f /\ stamp'[p] = mtime[f]
          /\ UNCHANGED <<marker, rows, txMarker, txRows, todo, mode, outcome>>
      BY <2>6 DEF Stat, store, plan, Typing, TypeOK
    <3>3. marker[f] # None => marker[f].mtime <= mtime[f]
      BY DEF TablesInv, Backed
    <3>4. mode[p] = "apply" => \A g \in todo[p] : txMarker[g] = marker[g] /\ txRows[g] = rows[g]
      BY <3>2 DEF ReaderInv, BeingMarked, Looping
    <3>5. \A g \in Files : NotNewer(marker[g], txMarker[g])
      BY <3>2 DEF ReaderInv, Looping
    <3>6. outcome[p] # "ok"
      BY <3>2 DEF ReaderInv, Looping
    <3>7. /\ \A g \in Files : NotNewer(marker[g], txMarker[g])'
          /\ marker'[cur'[p]] # None => marker'[cur'[p]].mtime <= stamp'[p]
          /\ mode'[p] = "apply" => \A g \in todo'[p] : txMarker'[g] = marker'[g] /\ txRows'[g] = rows'[g]
      BY <3>2, <3>3, <3>4, <3>5 DEF NotNewer
    <3>. QED BY <3>1, <3>2, <3>6, <3>7 DEF ReaderInv, Looping
  <2>7. ASSUME NEW p \in Writers, Index(p) PROVE ReaderInv'
    <3>1. \A q \in Writers : q # p => pc'[q] \in Outside
      BY <2>7, OneWriter DEF Index, Typing, TypeOK
    <3>2. /\ pc[p] = "read" /\ pc'[p] = "mark"
          /\ UNCHANGED <<marker, rows, txMarker, todo, mode, outcome, cur, stamp>>
      BY <2>7 DEF Index, plan, loop, Typing, TypeOK
    <3>3. \A g \in Files : g # cur[p] => txRows'[g] = txRows[g]
      BY <2>7 DEF Index, Typing, TypeOK
    <3>4. mode[p] = "apply" => \A g \in todo[p] :
             txMarker[g] = marker[g] /\ (g # cur[p] => txRows'[g] = rows[g])
      BY <3>2, <3>3 DEF ReaderInv, BeingMarked, Looping, Typing, TypeOK
    <3>5. \A g \in Files : NotNewer(marker[g], txMarker[g])
      BY <3>2 DEF ReaderInv, Looping
    <3>6. marker[cur[p]] # None => marker[cur[p]].mtime <= stamp[p]
      BY <3>2 DEF ReaderInv
    <3>7. outcome[p] # "ok"
      BY <3>2 DEF ReaderInv, Looping
    <3>8. /\ \A g \in Files : NotNewer(marker[g], txMarker[g])'
          /\ marker'[cur'[p]] # None => marker'[cur'[p]].mtime <= stamp'[p]
          /\ mode'[p] = "apply" => \A g \in todo'[p] :
               txMarker'[g] = marker'[g] /\ (txRows'[g] = rows'[g] \/ BeingMarked(p, g)')
      BY <3>2, <3>4, <3>5, <3>6 DEF NotNewer, BeingMarked
    <3>. QED BY <3>1, <3>2, <3>7, <3>8 DEF ReaderInv, Looping
  <2>8. ASSUME NEW p \in Writers, NEW f \in Files, (Mark(p) /\ f = cur[p]) \/ Drop(p, f)
        PROVE  ReaderInv'
    <3>1. \A q \in Writers : q # p => pc'[q] \in Outside
      <4>1. pc[p] \notin Outside /\ (pc' = pc \/ pc' = [pc EXCEPT ![p] = "next"])
        BY <2>8 DEF Mark, Drop
      <4>2. \A q \in Writers : q # p => pc[q] \in Outside
        BY <4>1, OneWriter
      <4>. QED BY <4>1, <4>2 DEF Typing, TypeOK
    <3>2. /\ pc[p] \in Looping /\ pc'[p] = "next" /\ UNCHANGED <<mode, outcome>>
          /\ todo'[p] = todo[p] \ {f}
      BY <2>8 DEF Mark, Drop, EndOfChange, Looping, plan, Typing, TypeOK
    <3>3. \A g \in Files : g # f => txMarker'[g] = txMarker[g] /\ txRows'[g] = txRows[g]
      BY <2>8 DEF Mark, Drop, Typing, TypeOK, CurrentChange
    <3>4. (marker' = txMarker' /\ rows' = txRows') \/ UNCHANGED <<marker, rows>>
      BY <2>8 DEF Mark, Drop, EndOfChange, Release
    <3>5. mode[p] = "apply" => \A g \in todo'[p] : txMarker'[g] = marker'[g] /\ txRows'[g] = rows'[g]
      <4>1. mode[p] = "apply" => \A g \in todo'[p] : txMarker[g] = marker[g] /\ txRows[g] = rows[g]
        BY <2>8, <3>2 DEF ReaderInv, BeingMarked, Mark, Drop
      <4>2. todo'[p] \subseteq Files
        BY <3>2 DEF Typing, TypeOK
      <4>. QED BY <3>2, <3>3, <3>4, <4>1, <4>2
    <3>6. \A g \in Files : NotNewer(marker'[g], txMarker'[g])
      BY <2>8, NotNewerStep
    <3>7. outcome[p] # "ok"
      BY <3>2 DEF ReaderInv
    <3>8. \A g \in Files : NotNewer(marker[g], txMarker[g])'
      BY <3>6 DEF NotNewer
    <3>. QED BY <3>1, <3>2, <3>5, <3>7, <3>8 DEF ReaderInv, Looping
  <2>9. ASSUME NEW p \in Writers, Mark(p) PROVE \E f \in Files : f = cur[p]
    BY <2>9 DEF Mark, Typing, CurrentChange
  <2>. QED
    BY <2>1, <2>2, <2>3, <2>4, <2>5, <2>6, <2>7, <2>8, <2>9 DEF Next, Run, DropGuard
<1>. QED
  BY <1>1, <1>2, TypingInvariant, LockInvariant, TablesInvariant, PlanInvariant, PTL DEF Spec

\* What p's run makes of the index.
RunOf(p) == [kind |-> mode[p], found |-> found[p], version |-> binary[p]]

\* The run readers know of is the one of the only writer past its walk.
RunInv ==
    /\ \A p \in Writers : pc[p] \in Looping =>
          CurrentRun = RunOf(p) /\ RunOf(p) \in Committed!Runs /\ RunOf(p) # None
    /\ (\A p \in Writers : pc[p] \notin Looping) => CurrentRun = None

\* RunInv holds in every reachable state.
LEMMA RunInvariant == Spec => []RunInv
<1>1. ASSUME Typing, LockInv PROVE RunInv
  <2>1. ASSUME NEW p \in Writers, pc[p] \in Looping
        PROVE  CurrentRun = RunOf(p) /\ RunOf(p) \in Committed!Runs /\ RunOf(p) # None
    <3>1. lock = p
      BY <1>1, <2>1 DEF LockInv, LockHeld, Looping
    <3>2. CurrentRun = RunOf(p)
      BY <2>1, <3>1 DEF CurrentRun, RunOf, Looping
    <3>3. RunOf(p) \in Committed!Runs
      BY <1>1 DEF Typing, TypeOK, RunOf, Committed!Runs, Mapping
    <3>. QED BY <3>2, <3>3, NoneIsNoRun
  <2>2. (\A p \in Writers : pc[p] \notin Looping) => CurrentRun = None
    BY DEF CurrentRun, Looping
  <2>. QED BY <2>1, <2>2 DEF RunInv
<1>. QED
  BY <1>1, TypingInvariant, LockInvariant, PTL

\* CommittedIndex counts as this module does.
LEMMA BelowAChunkIf ==
    ASSUME AtMost(Committed!Changed, ChunkFiles)
    PROVE  Committed!BelowAChunk
<1>1. Committed!IsFiniteSet(Committed!Changed)
  BY Zenon DEF AtMost, IsFiniteSet, Committed!IsFiniteSet
<1>2. Cardinality(Committed!Changed) = Committed!Cardinality(Committed!Changed)
  BY Zenon DEF Cardinality, Committed!Cardinality
<1>. QED BY <1>1, <1>2 DEF AtMost, Committed!BelowAChunk

\* A file the next index holds as p's walk found it is settled.
LEMMA SettledIf ==
    ASSUME Typing', TablesInv', RunInv, NEW p \in Writers, pc[p] \in Looping, NEW f \in Files,
           IF found[p][f] = NoLanguage
           THEN marker'[f] = None
           ELSE marker'[f] # None /\ marker'[f].lang = found[p][f] /\ marker'[f].version = binary[p],
           NotNewer(marker[f], marker'[f])
    PROVE  Committed!Settled(f)
<1>1. CurrentRun.found = found[p] /\ CurrentRun.version = binary[p]
  <2>1. CurrentRun = RunOf(p)
    BY DEF RunInv
  <2>. QED BY <2>1 DEF RunOf
<1>2. Backed(marker[f], rows[f], f)'
  BY DEF TablesInv
<1>3. marker'[f] \in Rows \cup {None}
  BY DEF Typing, TypeOK
<1>4. /\ rows'[f] # None => /\ marker'[f] # None
                            /\ marker'[f].mtime <= rows'[f].mtime
                            /\ rows'[f].version = marker'[f].version
  BY <1>2 DEF Backed
<1>5. marker[f] # None /\ marker'[f] # None => marker[f].mtime <= marker'[f].mtime
  BY DEF NotNewer
<1>6. CASE found[p][f] = NoLanguage
  BY <1>1, <1>4, <1>6 DEF Committed!Settled
<1>7. CASE found[p][f] # NoLanguage
  BY <1>1, <1>3, <1>4, <1>5, <1>7 DEF Committed!Settled
<1>. QED BY <1>6, <1>7

\* A change of an apply is committed with the chunk it fills, one of a rebuild
\* is not.
LEMMA ChangeRefines ==
    ASSUME Typing, Typing', TablesInv', PlanInv', ChunkInv, ReaderInv, RunInv, RunInv',
           ReaderInv', NEW p \in Writers, NEW f \in Files, (Mark(p) /\ f = cur[p]) \/ Drop(p, f)
    PROVE  Committed!Chunk \/ UNCHANGED Committed!vars
<1>1. /\ pc[p] \in Looping /\ pc'[p] \in Looping
      /\ UNCHANGED <<outcome, mode, found, binary>>
  BY DEF Mark, Drop, Looping, plan, Typing, TypeOK
<1>2. CurrentRun = RunOf(p) /\ CurrentRun # None /\ UNCHANGED <<CurrentRun, Succeeded>>
  BY <1>1 DEF RunInv, RunOf, Succeeded
<1>3. CASE UNCHANGED <<marker, rows>>
  BY <1>2, <1>3 DEF Committed!vars
<1>4. CASE mode[p] = "apply" /\ marker' = txMarker' /\ rows' = txRows'
  <2>1. CurrentRun.kind = "apply"
    BY <1>2, <1>4 DEF RunOf
  <2>2. marker' \in Committed!Tables /\ rows' \in Committed!Tables
    BY DEF Typing, TypeOK, Committed!Tables
  <2>3. ASSUME NEW g \in todo'[p] PROVE marker'[g] = marker[g] /\ rows'[g] = rows[g]
    <3>1. g \in todo[p] /\ g # f /\ g \in Files
      BY <2>3 DEF Mark, Drop, EndOfChange, Typing, TypeOK
    <3>2. txMarker'[g] = txMarker[g] /\ txRows'[g] = txRows[g]
      BY <3>1 DEF Mark, Drop, Typing, TypeOK, CurrentChange
    <3>3. ~BeingMarked(p, g)
      BY <3>1 DEF BeingMarked, Mark, Drop
    <3>. QED BY <1>1, <1>4, <3>1, <3>2, <3>3 DEF ReaderInv
  <2>4. ASSUME NEW g \in Files, g \notin todo'[p] PROVE Committed!Settled(g)
    <3>1. Done(p, g)'
      BY <1>1, <2>4 DEF PlanInv
    <3>2. IF found[p][g] = NoLanguage
          THEN marker'[g] = None
          ELSE marker'[g] # None /\ marker'[g].lang = found[p][g] /\ marker'[g].version = binary[p]
      BY <1>1, <1>4, <3>1 DEF Done
    <3>3. NotNewer(marker[g], marker'[g])
      BY <1>4, NotNewerStep
    <3>. QED BY <1>1, <3>2, <3>3, SettledIf
  <2>5. \A g \in Committed!Changed : Committed!Settled(g)
    BY <2>3, <2>4 DEF Committed!Changed
  <2>6. Committed!BelowAChunk
    <3>1. AtMost(Uncommitted \ {f}, applied[p])
      <4>1. CASE Mark(p) /\ f = cur[p]
        BY <1>4, <4>1 DEF Mark, ChunkInv
      <4>2. CASE Drop(p, f)
        <5>1. AtMost(Uncommitted, applied[p])
          BY <1>4, <4>2 DEF Drop, ChunkInv
        <5>2. applied[p] \in Nat
          BY DEF Typing, TypeOK
        <5>. QED BY <5>1, <5>2, AtMostSubset
      <4>. QED BY <4>1, <4>2
    <3>2. ASSUME NEW g \in Committed!Changed, g # f PROVE g \in Uncommitted
      <4>1. txMarker'[g] = txMarker[g] /\ txRows'[g] = txRows[g]
        BY <3>2 DEF Mark, Drop, Typing, TypeOK, CurrentChange, Committed!Changed
      <4>. QED BY <1>4, <3>2, <4>1 DEF Committed!Changed, Uncommitted
    <3>3. Committed!Changed \in SUBSET ((Uncommitted \ {f}) \cup {f})
      BY <3>2
    <3>4. applied[p] \in Nat
      BY DEF Typing, TypeOK
    <3>41. applied[p] < ChunkFiles
      BY DEF ChunkInv
    <3>5. AtMost(Committed!Changed, applied[p] + 1)
      BY <3>1, <3>3, <3>4, AtMostOneMore
    <3>6. Cardinality(Committed!Changed) \in Nat
      BY <3>5, FS_CardinalityType DEF AtMost
    <3>7. AtMost(Committed!Changed, ChunkFiles)
      BY <3>4, <3>41, <3>5, <3>6 DEF AtMost
    <3>. QED BY <3>7, BelowAChunkIf
  <2>. QED BY <1>2, <2>1, <2>2, <2>5, <2>6 DEF Committed!Chunk
<1>. QED
  BY <1>3, <1>4 DEF Mark, Drop, EndOfChange, Release

\* A run that succeeds leaves every file as its walk found it.
LEMMA FinishRefines ==
    ASSUME Typing, Typing', LockInv, TablesInv', PlanInv, ChunkInv, ReaderInv, RunInv, RunInv',
           NEW p \in Writers, Finish(p)
    PROVE  Committed!Complete(p)
<1>1. /\ pc[p] = "next" /\ pc[p] \in Looping /\ todo[p] = {}
      /\ marker' = txMarker /\ rows' = txRows /\ outcome' = [outcome EXCEPT ![p] = "ok"]
      /\ pc' = [pc EXCEPT ![p] = "clear"]
  BY DEF Finish, Looping
<1>2. CurrentRun = RunOf(p) /\ CurrentRun # None
  BY <1>1 DEF RunInv
<1>3. \A q \in Writers : pc'[q] \notin Looping
  BY <1>1, OneWriter DEF Looping, Typing, TypeOK
<1>4. CurrentRun' = None
  BY <1>3 DEF RunInv
<1>5. Succeeded' = Succeeded \cup {p}
  BY <1>1 DEF Succeeded, Typing, TypeOK
<1>6. marker' \in Committed!Tables /\ rows' \in Committed!Tables
  BY DEF Typing, TypeOK, Committed!Tables
<1>7. ASSUME NEW f \in Files PROVE Committed!Settled(f)
  <2>1. Done(p, f) /\ NotNewer(marker[f], marker'[f])
    BY <1>1 DEF PlanInv, ReaderInv
  <2>2. IF found[p][f] = NoLanguage
        THEN marker'[f] = None
        ELSE marker'[f] # None /\ marker'[f].lang = found[p][f] /\ marker'[f].version = binary[p]
    BY <1>1, <2>1 DEF Done
  <2>. QED BY <1>1, <2>1, <2>2, SettledIf
<1>8. CurrentRun.kind = "apply" => Committed!BelowAChunk
  <2> SUFFICES ASSUME mode[p] = "apply" PROVE Committed!BelowAChunk
    BY <1>2 DEF RunOf
  <2>1. AtMost(Uncommitted, applied[p]) /\ applied[p] < ChunkFiles
    BY <1>1 DEF ChunkInv
  <2>11. applied[p] \in Nat
    BY DEF Typing, TypeOK
  <2>2. Committed!Changed = Uncommitted
    BY <1>1 DEF Committed!Changed, Uncommitted
  <2>3. Cardinality(Uncommitted) \in Nat
    BY <2>1, FS_CardinalityType DEF AtMost
  <2>4. AtMost(Committed!Changed, ChunkFiles)
    BY <2>1, <2>11, <2>2, <2>3 DEF AtMost
  <2>. QED BY <2>4, BelowAChunkIf
<1>. QED
  BY <1>2, <1>4, <1>5, <1>6, <1>7, <1>8 DEF Committed!Complete

\* The writer implements the committed index: whatever runs, edits, failures
\* and deaths interleave, its readers see single chunks of one apply at a
\* time, or a whole rebuild, and no entry going back (apply_changes_inner,
\* rebuild_excluding).
THEOREM WriterImplementsIndex == Spec => ImplementsIndex
<1>1. Init => Committed!Init
  BY DEF Init, Committed!Init, NoRows, CurrentRun, Succeeded
<1>2. ASSUME Typing, Typing', LockInv, TablesInv', PlanInv, PlanInv', ChunkInv,
             ReaderInv, ReaderInv', RunInv, RunInv', [Next]_vars
      PROVE  [Committed!Next]_(Committed!vars)
  <2> USE <1>2
  <2>1. ASSUME World \/ (\E s \in Probers : Probe(s) \/ EndProbe(s)) \/ UNCHANGED vars
        PROVE  UNCHANGED Committed!vars
    <3>1. UNCHANGED <<pc, mode, found, binary, marker, rows, outcome>>
      BY <2>1 DEF World, Write, Delete, Hide, Reveal, Reconfigure, Upgrade, Probe, EndProbe,
                  vars, store, plan
    <3>2. CurrentRun' = CurrentRun
      <4>1. CASE \A p \in Writers : pc[p] \notin Looping
        BY <3>1, <4>1 DEF RunInv
      <4>2. ASSUME NEW p \in Writers, pc[p] \in Looping PROVE CurrentRun' = CurrentRun
        <5>1. CurrentRun = RunOf(p) /\ CurrentRun' = RunOf(p)'
          BY <3>1, <4>2 DEF RunInv
        <5>. QED BY <3>1, <5>1 DEF RunOf
      <4>. QED BY <4>1, <4>2
    <3>3. Succeeded' = Succeeded
      BY <3>1 DEF Succeeded
    <3>. QED BY <3>1, <3>2, <3>3 DEF Committed!vars
  <2>2. ASSUME NEW p \in Writers, TryLock(p) \/ WritePid(p) \/ DropGuard(p)
               \/ \E m \in {"apply", "rebuild"} : Begin(p, m)
        PROVE  UNCHANGED Committed!vars
    <3>1. UNCHANGED <<marker, rows, outcome>>
      BY <2>2 DEF TryLock, WritePid, DropGuard, ClearPid, Unlock, Begin, store
    <3>2. CurrentRun' = CurrentRun
      <4>1. PICK to \in {"pid", "config", "unlock", "idle", "walk"} :
              pc' = [pc EXCEPT ![p] = to]
        BY <2>2 DEF TryLock, WritePid, DropGuard, ClearPid, Unlock, Begin
      <4>2. pc[p] \notin Looping /\ \A q \in Writers : q # p => pc[q] \in Outside
        <5>1. CASE TryLock(p)
          BY <5>1 DEF TryLock, LockInv, LockHeld, Looping
        <5>2. CASE ~TryLock(p)
          BY <2>2, <5>2, OneWriter DEF WritePid, DropGuard, ClearPid, Unlock, Begin, Looping
        <5>. QED BY <5>1, <5>2
      <4>3. \A q \in Writers : pc[q] \notin Looping /\ pc'[q] \notin Looping
        BY <4>1, <4>2 DEF Looping, Typing, TypeOK
      <4>. QED BY <4>3 DEF RunInv
    <3>3. Succeeded' = Succeeded
      BY <3>1 DEF Succeeded
    <3>. QED BY <3>1, <3>2, <3>3 DEF Committed!vars
  <2>21. ASSUME NEW p \in Writers, Start(p) \/ Busy(p)
         PROVE  Committed!Again(p) \/ UNCHANGED Committed!vars
    <3>1. /\ pc[p] \in Outside /\ pc'[p] \in Outside
          /\ \A q \in Writers \ {p} : /\ pc'[q] = pc[q] /\ mode'[q] = mode[q]
                                       /\ found'[q] = found[q] /\ binary'[q] = binary[q]
          /\ UNCHANGED <<marker, rows>>
      BY <2>21, OutsideStep DEF Typing, store
    <3>2. PICK o \in {"none", outcome[p]} : outcome' = [outcome EXCEPT ![p] = o]
      BY <2>21 DEF Start, Busy, Typing, TypeOK
    <3>3. CurrentRun' = CurrentRun
      <4>1. CASE \A q \in Writers : pc[q] \notin Looping
        <5>1. \A q \in Writers : pc'[q] \notin Looping
          BY <3>1, <4>1 DEF Looping
        <5>. QED BY <4>1, <5>1 DEF RunInv
      <4>2. ASSUME NEW q \in Writers, pc[q] \in Looping PROVE CurrentRun' = CurrentRun
        <5>1. q # p /\ pc'[q] = pc[q]
          BY <3>1, <4>2 DEF Looping
        <5>2. CurrentRun = RunOf(q) /\ CurrentRun' = RunOf(q)'
          BY <4>2, <5>1 DEF RunInv
        <5>. QED BY <3>1, <5>1, <5>2 DEF RunOf
      <4>. QED BY <4>1, <4>2
    <3>4. Succeeded' = Succeeded \/ (p \in Succeeded /\ Succeeded' = Succeeded \ {p})
      BY <3>2 DEF Succeeded, Typing, TypeOK
    <3>. QED BY <3>1, <3>3, <3>4 DEF Committed!Again, Committed!vars
  <2>3. ASSUME NEW p \in Writers, Walk(p) PROVE Committed!Start
    <3>1. /\ pc[p] = "walk" /\ pc' = [pc EXCEPT ![p] = "next"]
          /\ UNCHANGED <<marker, rows, outcome>>
      BY <2>3 DEF Walk, store
    <3>2. pc'[p] \in Looping /\ \A q \in Writers : pc[q] \notin Looping
      BY <3>1, OneWriter DEF Looping, Typing, TypeOK
    <3>3. CurrentRun = None /\ CurrentRun' \in Committed!Runs
      BY <3>2 DEF RunInv
    <3>4. Succeeded' = Succeeded
      BY <3>1 DEF Succeeded
    <3>. QED BY <3>1, <3>3, <3>4 DEF Committed!Start
  <2>4. ASSUME NEW p \in Writers, Index(p) \/ \E f \in Files : Stat(p, f)
        PROVE  UNCHANGED Committed!vars
    <3>1. /\ pc[p] \in Looping /\ pc'[p] \in Looping
          /\ UNCHANGED <<marker, rows, mode, found, binary, outcome>>
      BY <2>4 DEF Index, Stat, Looping, store, plan, Typing, TypeOK
    <3>2. CurrentRun' = CurrentRun /\ Succeeded' = Succeeded
      BY <3>1 DEF RunInv, RunOf, Succeeded
    <3>. QED BY <3>1, <3>2 DEF Committed!vars
  <2>5. ASSUME NEW p \in Writers, NEW f \in Files, (Mark(p) /\ f = cur[p]) \/ Drop(p, f)
        PROVE  Committed!Chunk \/ UNCHANGED Committed!vars
    BY <2>5, ChangeRefines
  <2>6. ASSUME NEW p \in Writers, Mark(p) PROVE \E f \in Files : f = cur[p]
    BY <2>6 DEF Mark, Typing, CurrentChange
  <2>7. ASSUME NEW p \in Writers, Finish(p) PROVE Committed!Complete(p)
    BY <2>7, FinishRefines
  <2>8. ASSUME NEW p \in Writers,
               PidFails(p) \/ Fail(p) \/ Crash(p) \/ \E f \in Files : StatFails(p, f)
        PROVE  Committed!Abandon \/ Committed!Again(p) \/ UNCHANGED Committed!vars
    <3>1. /\ pc[p] \notin Outside /\ UNCHANGED <<marker, rows>>
          /\ \E to \in {"idle", "clear"} : pc' = [pc EXCEPT ![p] = to]
      BY <2>8 DEF PidFails, Fail, Crash, StatFails, Rollback, Critical, InTransaction, store
    <3>2. \A q \in Writers : pc'[q] \notin Looping
      BY <3>1, OneWriter DEF Looping, Typing, TypeOK
    <3>3. CurrentRun' = None
      BY <3>2 DEF RunInv
    <3>4. PICK o \in {"none", outcome[p]} : outcome' = [outcome EXCEPT ![p] = o]
      BY <2>8 DEF PidFails, Fail, Crash, StatFails, Typing, TypeOK
    <3>5. CASE pc[p] \in Looping
      <4>1. CurrentRun # None
        BY <3>5 DEF RunInv
      <4>2. p \notin Succeeded
        BY <3>5 DEF ReaderInv, Succeeded
      <4>3. Succeeded' = Succeeded
        BY <3>4, <4>2 DEF Succeeded, Typing, TypeOK
      <4>. QED BY <3>1, <3>3, <4>1, <4>3 DEF Committed!Abandon
    <3>6. CASE pc[p] \notin Looping
      <4>1. \A q \in Writers : pc[q] \notin Looping
        BY <3>1, <3>6, OneWriter DEF Looping
      <4>2. CurrentRun = None
        BY <4>1 DEF RunInv
      <4>3. Succeeded' = Succeeded \/ (p \in Succeeded /\ Succeeded' = Succeeded \ {p})
        BY <3>4 DEF Succeeded, Typing, TypeOK
      <4>. QED BY <3>1, <3>3, <4>2, <4>3 DEF Committed!Again, Committed!vars
    <3>. QED BY <3>5, <3>6
  <2>. QED
    BY <2>1, <2>2, <2>21, <2>3, <2>4, <2>5, <2>6, <2>7, <2>8
       DEF Next, Run, Committed!Next
<1>. QED
  BY <1>1, <1>2, TypingInvariant, LockInvariant, TablesInvariant, PlanInvariant, ChunkInvariant,
     ReaderInvariant, RunInvariant, PTL DEF Spec, ImplementsIndex, Committed!Spec

=============================================================================
