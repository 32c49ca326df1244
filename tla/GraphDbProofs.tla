--------------------------- MODULE GraphDbProofs ---------------------------
(***************************************************************************)
(* Proofs about GraphDb: the type invariant; that the commands which take  *)
(* the lock never bless a stale projection, never write into a file that   *)
(* was moved away and never lose the database an import replaces; and that *)
(* they implement SharedGraph.                                             *)
(***************************************************************************)
EXTENDS GraphDb, TLAPS

\* Every step is one of these.
LEMMA NextCases ==
    ASSUME Next
    PROVE  \/ \E i \in Parts : Edit(i)
           \/ \E p \in Procs, k \in Guarded : Begin(p, k)
           \/ \E p \in Procs, i \in Parts : Read(p, i)
           \/ \E p \in Procs : Pin(p) \/ Build(p) \/ Acquire(p) \/ GiveUp(p) \/ Open(p) \/ Commit(p)
           \/ \E p \in Procs : Close(p) \/ Check(p) \/ Park(p) \/ Install(p) \/ Verify(p)
           \/ \E p \in Procs : Discard(p) \/ Remove(p) \/ Restore(p) \/ FailedInstall(p)
           \/ \E p \in Procs : Copy(p) \/ Publish(p) \/ Die(p) \/ Fail(p)
BY DEF Next, Continue, Project, Store, Import, Export

\* A command that returns leaves well-typed variables behind.
LEMMA QuitTypes ==
    ASSUME TypeOK, NEW p \in Procs, Quit(p)
    PROVE  /\ lock' \in Procs \cup {None}
           /\ pc' \in [Procs -> Phases]
           /\ kind' \in [Procs -> Kinds \cup {None}]
           /\ mark' \in [Procs -> Versions \cup {None, Hash}]
           /\ rows' \in [Procs -> [Parts -> Nat \cup {None}]]
           /\ staged' \in [Procs -> Databases \cup {None}]
<1>1. Unread \in [Parts -> Nat \cup {None}]
  BY DEF Unread
<1>2. rows' \in [Procs -> [Parts -> Nat \cup {None}]]
  BY <1>1 DEF TypeOK, Quit
<1>. QED BY <1>2 DEF TypeOK, Quit, To, Phases

\* So does a rename or a removal.
LEMMA MoveTypes ==
    ASSUME TypeOK, NEW from, NEW to \in Places, Move(from, to)
    PROVE  /\ conn' \in [Procs -> Places]
           /\ wal' \in [of : Places, full : BOOLEAN]
BY DEF TypeOK, Move

\* Another fault stays within the bound.
LEMMA FaultTypes == ASSUME TypeOK, Fault PROVE faults' \in 0 .. MaxFaults
BY BoundsAssumption DEF TypeOK, Fault

\* What a builder stores, or leaves alone, is a database.
LEMMA CommittedTypes ==
    ASSUME TypeOK, NEW p \in Procs, NEW db \in Databases \cup {None},
           kind[p] \in Builders => rows[p] \in Versions
    PROVE  Committed(p, db) \in Databases \cup {None}
BY DEF TypeOK, Committed, Databases

\* The watermark of the sources is a version of each part.
LEMMA VersionsOfSources == ASSUME TypeOK PROVE source \in Versions
BY BoundsAssumption DEF TypeOK, Versions

-----------------------------------------------------------------------------
\* What a builder is about to store has been read completely.
Built ==
    \A p \in Procs :
        kind[p] \in Builders /\ pc[p] \in {"lock", "open", "commit"}
            => \A i \in Parts : rows[p][i] # None

\* Only Build leaves the reading phase, and only when nothing is missing.
LEMMA BuiltStep == ASSUME TypeOK, Built, [Next]_vars PROVE Built'
<1>1. ASSUME UNCHANGED vars PROVE Built'
  BY <1>1, NoneAssumption DEF TypeOK, Built, vars, disk, work
<1>2. ASSUME NEW i \in Parts, Edit(i) PROVE Built'
  BY <1>2, NoneAssumption DEF TypeOK, Built, Edit, disk, work
<1>3. ASSUME NEW p \in Procs, NEW k \in Guarded, Begin(p, k) PROVE Built'
  <2>1. k \in Builders => First(k) = "pin"
    BY DEF Builders, Guarded, First
  <2>. QED BY <1>3, <2>1 DEF TypeOK, Built, Begin, To
<1>4. ASSUME NEW p \in Procs, NEW i \in Parts, Read(p, i) PROVE Built'
  BY <1>4, NoneAssumption DEF TypeOK, Built, Read, disk, work
<1>5. ASSUME NEW p \in Procs, Pin(p) PROVE Built'
  BY <1>5, NoneAssumption DEF TypeOK, Built, Pin, disk, work, To, Fault
<1>6. ASSUME NEW p \in Procs, Build(p) PROVE Built'
  BY <1>6, NoneAssumption DEF TypeOK, Built, Build, disk, work, To
<1>7. ASSUME NEW p \in Procs, Acquire(p) PROVE Built'
  BY <1>7, NoneAssumption DEF TypeOK, Built, Acquire, disk, work, To
<1>8. ASSUME NEW p \in Procs, GiveUp(p) PROVE Built'
  BY <1>8, NoneAssumption DEF TypeOK, Built, GiveUp, disk, work, Quit, To, Fault
<1>9. ASSUME NEW p \in Procs, Open(p) PROVE Built'
  BY <1>9, NoneAssumption DEF TypeOK, Built, Open, disk, work, To, Empty, NoVersion
<1>10. ASSUME NEW p \in Procs, Commit(p) PROVE Built'
  BY <1>10, NoneAssumption DEF TypeOK, Built, Commit, disk, work, To, Committed
<1>11. ASSUME NEW p \in Procs, Close(p) PROVE Built'
  BY <1>11, NoneAssumption DEF TypeOK, Built, Close, disk, work, Quit, To, NoWal, Unread
<1>12. ASSUME NEW p \in Procs, Check(p) PROVE Built'
  BY <1>12, NoneAssumption, SMTT(30) DEF TypeOK, Built, Check, disk, work, Quit, To, MayPark, Unread
<1>13. ASSUME NEW p \in Procs, Park(p) PROVE Built'
  BY <1>13, NoneAssumption DEF TypeOK, Built, Park, disk, work, To, Move
<1>14. ASSUME NEW p \in Procs, Install(p) PROVE Built'
  BY <1>14, NoneAssumption DEF TypeOK, Built, Install, disk, work, To
<1>15. ASSUME NEW p \in Procs, Verify(p) PROVE Built'
  BY <1>15, NoneAssumption DEF TypeOK, Built, Verify, disk, work, To, Fault, Fresh
<1>16. ASSUME NEW p \in Procs, Discard(p) PROVE Built'
  BY <1>16, NoneAssumption DEF TypeOK, Built, Discard, disk, work, Quit, To, Move, Fault, Unread
<1>17. ASSUME NEW p \in Procs, Remove(p) PROVE Built'
  BY <1>17, NoneAssumption DEF TypeOK, Built, Remove, disk, work, To, Move
<1>18. ASSUME NEW p \in Procs, Restore(p) PROVE Built'
  BY <1>18, NoneAssumption DEF TypeOK, Built, Restore, disk, work, Quit, To, Move, Unread
<1>19. ASSUME NEW p \in Procs, FailedInstall(p) PROVE Built'
  BY <1>19, NoneAssumption DEF TypeOK, Built, FailedInstall, disk, work, Quit, To, Move, Fault, Unread
<1>20. ASSUME NEW p \in Procs, Copy(p) PROVE Built'
  BY <1>20, NoneAssumption DEF TypeOK, Built, Copy, disk, work, Quit, To, Unread
<1>21. ASSUME NEW p \in Procs, Publish(p) PROVE Built'
  BY <1>21, NoneAssumption DEF TypeOK, Built, Publish, disk, work, Quit, To, Fresh, Unread
<1>22. ASSUME NEW p \in Procs, Die(p) PROVE Built'
  BY <1>22, NoneAssumption DEF TypeOK, Built, Die, disk, work, Quit, To, Fault, Unread
<1>23. ASSUME NEW p \in Procs, Fail(p) PROVE Built'
  BY <1>23, NoneAssumption DEF TypeOK, Built, Fail, disk, work, Quit, To, Fault, NoWal, Unread
<1>. QED BY NextCases, <1>1, <1>2, <1>3, <1>4, <1>5, <1>6, <1>7, <1>8, <1>9, <1>10, <1>11, <1>12, <1>13, <1>14, <1>15, <1>16, <1>17, <1>18, <1>19, <1>20, <1>21, <1>22, <1>23

\* Every action keeps the types.
LEMMA TypeStep == ASSUME TypeOK, Built, [Next]_vars PROVE TypeOK'
<1>1. ASSUME UNCHANGED vars PROVE TypeOK'
  BY <1>1, BoundsAssumption DEF TypeOK, Kinds, Guarded, Unguarded, Phases, Places, Databases, Versions, vars, disk, work
<1>2. ASSUME NEW i \in Parts, Edit(i) PROVE TypeOK'
  BY <1>2, BoundsAssumption DEF TypeOK, Kinds, Guarded, Unguarded, Phases, Places, Databases, Versions, Edit, disk, work
<1>3. ASSUME NEW p \in Procs, NEW k \in Guarded, Begin(p, k) PROVE TypeOK'
  <2>1. k \in Kinds /\ First(k) \in Phases
    BY DEF Kinds, Guarded, First, Phases
  <2>2. /\ kind' \in [Procs -> Kinds \cup {None}]
        /\ mark' \in [Procs -> Versions \cup {None, Hash}]
        /\ staged' \in [Procs -> Databases \cup {None}]
    BY <1>3, <2>1, VersionsOfSources DEF TypeOK, Begin
  <2>. QED BY <1>3, <2>1, <2>2 DEF TypeOK, Begin, To, disk
<1>4. ASSUME NEW p \in Procs, NEW i \in Parts, Read(p, i) PROVE TypeOK'
  BY <1>4, BoundsAssumption DEF TypeOK, Kinds, Guarded, Unguarded, Phases, Places, Databases, Versions, Read, disk, work
<1>5. ASSUME NEW p \in Procs, Pin(p) PROVE TypeOK'
  BY <1>5, BoundsAssumption DEF TypeOK, Kinds, Guarded, Unguarded, Phases, Places, Databases, Versions, Pin, disk, work, To, Fault
<1>6. ASSUME NEW p \in Procs, Build(p) PROVE TypeOK'
  BY <1>6, BoundsAssumption DEF TypeOK, Kinds, Guarded, Unguarded, Phases, Places, Databases, Versions, Build, disk, work, To
<1>7. ASSUME NEW p \in Procs, Acquire(p) PROVE TypeOK'
  BY <1>7, BoundsAssumption DEF TypeOK, Kinds, Guarded, Unguarded, Phases, Places, Databases, Versions, Acquire, disk, work, To
<1>8. ASSUME NEW p \in Procs, GiveUp(p) PROVE TypeOK'
  BY <1>8, QuitTypes, FaultTypes DEF TypeOK, GiveUp, disk
<1>9. ASSUME NEW p \in Procs, Open(p) PROVE TypeOK'
  BY <1>9, BoundsAssumption DEF TypeOK, Kinds, Guarded, Unguarded, Phases, Places, Databases, Versions, Open, disk, work, To, Empty, NoVersion
<1>10. ASSUME NEW p \in Procs, Commit(p) PROVE TypeOK'
  <2>1. kind[p] \in Builders => rows[p] \in Versions
    BY <1>10 DEF TypeOK, Built, Commit, Versions
  <2>2. /\ Committed(p, file) \in Databases \cup {None}
        /\ Committed(p, backup) \in Databases \cup {None}
    BY <2>1, CommittedTypes DEF TypeOK
  <2>3. /\ {file', backup', artifact'} \subseteq Databases \cup {None}
        /\ wal' \in [of : Places, full : BOOLEAN]
        /\ pc' \in [Procs -> Phases]
    BY <1>10, <2>2 DEF TypeOK, Commit, To, Phases
  <2>. QED BY <1>10, <2>3 DEF TypeOK, Commit, work
<1>11. ASSUME NEW p \in Procs, Close(p) PROVE TypeOK'
  <2>1. /\ conn' \in [Procs -> Places]
        /\ wal' \in [of : Places, full : BOOLEAN]
    BY <1>11 DEF TypeOK, Close, NoWal, Places
  <2>2. CASE kind[p] = "eval"
    BY <1>11, <2>1, <2>2 DEF TypeOK, Close, To, Phases, work
  <2>3. CASE kind[p] # "eval"
    BY <1>11, <2>1, <2>3, QuitTypes DEF TypeOK, Close
  <2>. QED BY <2>2, <2>3
<1>12. ASSUME NEW p \in Procs, Check(p) PROVE TypeOK'
  <2>1. CASE Quit(p)
    BY <1>12, <2>1, QuitTypes DEF TypeOK, Check, disk
  <2>2. CASE ~Quit(p)
    BY <1>12, <2>2 DEF TypeOK, Check, To, Phases, disk, work
  <2>. QED BY <2>1, <2>2
<1>13. ASSUME NEW p \in Procs, Park(p) PROVE TypeOK'
  BY <1>13, BoundsAssumption DEF TypeOK, Kinds, Guarded, Unguarded, Phases, Places, Databases, Versions, Park, disk, work, To, Move
<1>14. ASSUME NEW p \in Procs, Install(p) PROVE TypeOK'
  BY <1>14, BoundsAssumption DEF TypeOK, Kinds, Guarded, Unguarded, Phases, Places, Databases, Versions, Install, disk, work, To
<1>15. ASSUME NEW p \in Procs, Verify(p) PROVE TypeOK'
  <2>1. faults' \in 0 .. MaxFaults
    BY <1>15, FaultTypes DEF TypeOK, Verify
  <2>2. parked' \subseteq Databases /\ pc' \in [Procs -> Phases]
    BY <1>15 DEF TypeOK, Verify, To, Phases
  <2>. QED BY <1>15, <2>1, <2>2 DEF TypeOK, Verify, work
<1>16. ASSUME NEW p \in Procs, Discard(p) PROVE TypeOK'
  <2>1. faults' \in 0 .. MaxFaults
    BY <1>16, FaultTypes DEF TypeOK, Discard
  <2>2. /\ conn' \in [Procs -> Places]
        /\ wal' \in [of : Places, full : BOOLEAN]
    BY <1>16, MoveTypes DEF TypeOK, Discard, Places
  <2>. QED BY <1>16, <2>1, <2>2, QuitTypes DEF TypeOK, Discard
<1>17. ASSUME NEW p \in Procs, Remove(p) PROVE TypeOK'
  BY <1>17, BoundsAssumption DEF TypeOK, Kinds, Guarded, Unguarded, Phases, Places, Databases, Versions, Remove, disk, work, To, Move
<1>18. ASSUME NEW p \in Procs, Restore(p) PROVE TypeOK'
  <2>1. /\ conn' \in [Procs -> Places]
        /\ wal' \in [of : Places, full : BOOLEAN]
    BY <1>18, MoveTypes DEF Restore, Places
  <2>. QED BY <1>18, <2>1, QuitTypes DEF TypeOK, Restore
<1>19. ASSUME NEW p \in Procs, FailedInstall(p) PROVE TypeOK'
  <2>1. /\ conn' \in [Procs -> Places]
        /\ wal' \in [of : Places, full : BOOLEAN]
    BY <1>19, MoveTypes DEF FailedInstall, Places
  <2>. QED BY <1>19, <2>1, QuitTypes, FaultTypes DEF TypeOK, FailedInstall
<1>20. ASSUME NEW p \in Procs, Copy(p) PROVE TypeOK'
  <2>1. CASE Quit(p)
    BY <1>20, <2>1, QuitTypes DEF TypeOK, Copy, disk
  <2>2. CASE ~Quit(p)
    <3>1. file \in Databases \cup {None}
      BY DEF TypeOK
    <3>2. staged' = [staged EXCEPT ![p] = file] /\ To(p, "publish")
      BY <1>20, <2>2 DEF Copy
    <3>3. /\ staged' \in [Procs -> Databases \cup {None}]
          /\ pc' \in [Procs -> Phases]
      BY <3>1, <3>2 DEF TypeOK, To, Phases
    <3>. QED BY <1>20, <2>2, <3>3 DEF TypeOK, Copy, disk
  <2>. QED BY <2>1, <2>2
<1>21. ASSUME NEW p \in Procs, Publish(p) PROVE TypeOK'
  BY <1>21, QuitTypes DEF TypeOK, Publish
<1>22. ASSUME NEW p \in Procs, Die(p) PROVE TypeOK'
  BY <1>22, QuitTypes, FaultTypes DEF TypeOK, Die, Places
<1>23. ASSUME NEW p \in Procs, Fail(p) PROVE TypeOK'
  BY <1>23, QuitTypes, FaultTypes DEF TypeOK, Fail, Places, NoWal
<1>. QED BY NextCases, <1>1, <1>2, <1>3, <1>4, <1>5, <1>6, <1>7, <1>8, <1>9, <1>10, <1>11, <1>12, <1>13, <1>14, <1>15, <1>16, <1>17, <1>18, <1>19, <1>20, <1>21, <1>22, <1>23

\* The types and the built content hold initially.
LEMMA TypeInit == Init => TypeOK /\ Built
<1>. SUFFICES ASSUME Init PROVE TypeOK /\ Built
  OBVIOUS
<1>1. NoVersion \in Versions /\ NoVersion \in [Parts -> 0 .. MaxEdits]
  BY BoundsAssumption DEF NoVersion, Versions
<1>2. TypeOK
  BY <1>1, BoundsAssumption DEF TypeOK, Init, NoWal, Unread, Databases, Places, Phases
<1>. QED BY <1>2 DEF Init, Built

-----------------------------------------------------------------------------
\* The phases in which a command holds graph.write.lock, and those in which an
\* import may exchange the database.
Critical  == {"open", "commit", "close", "check"} \cup
             {"park", "install", "verify", "discard", "remove", "restore"}
Importing == {"park", "install", "verify", "discard", "remove", "restore"}

\* Only the holder of the lock is in a critical phase.
Exclusion ==
    \A p \in Procs : kind[p] \notin Unguarded /\ (pc[p] \in Critical => lock = p)

\* A connection is open from Open to Close, to graph.db itself.
Connections ==
    \A p \in Procs :
        /\ conn[p] = IF pc[p] \in {"commit", "close"} THEN "file" ELSE "none"
        /\ pc[p] \in {"commit", "close"} => file # None

\* A log lies beside graph.db, and there is none while a database is exchanged.
Logs ==
    /\ wal.of \in {"none", "file"}
    /\ wal.full => wal.of = "file"
    /\ file = None => wal.of = "none"
    /\ \A p \in Procs : pc[p] \in Importing => wal.of = "none"

\* What was moved away is the backup; nothing is moved onto a backup.
Backups ==
    /\ parked \subseteq {backup}
    /\ \A p \in Procs : pc[p] = "park" => backup = None
    /\ \A p \in Procs : pc[p] = "discard" => parked = {}

\* The missing value is none of the others.
LEMMA NoneFacts ==
    /\ None \notin Procs /\ None \notin Databases /\ None \notin Versions
    /\ None \notin Nat /\ None \notin Unguarded
BY NoneAssumption DEF Kinds

\* A command that returns leaves its critical phase.
LEMMA QuitExclusion ==
    ASSUME TypeOK, Exclusion, NEW p \in Procs, Quit(p)
    PROVE  Exclusion'
<1>1. ASSUME NEW q \in Procs PROVE kind'[q] \notin Unguarded
  BY NoneFacts DEF TypeOK, Exclusion, Quit
<1>2. ASSUME NEW q \in Procs, pc'[q] \in Critical PROVE lock' = q
  <2>1. q # p /\ pc[q] \in Critical
    BY <1>2 DEF TypeOK, Quit, To, Critical
  <2>. QED BY <2>1 DEF Exclusion, Quit
<1>. QED BY <1>1, <1>2 DEF Exclusion

\* A database that is opened or committed to is there.
LEMMA EmptyIsPresent == Empty # None
BY NoneFacts DEF Empty, NoVersion, Databases, Versions

\* A commit into a database that is there leaves one there.
LEMMA CommittedIsPresent ==
    ASSUME TypeOK, Built, NEW p \in Procs, Commit(p), file # None
    PROVE  Committed(p, file) # None
<1>1. kind[p] \in Builders => rows[p] \in Versions
  BY DEF TypeOK, Built, Commit, Versions
<1>2. kind[p] \in Builders => Committed(p, file) \in Databases
  BY <1>1 DEF TypeOK, Committed, Databases
<1>. QED BY <1>2, NoneFacts DEF Committed

\* The lock is taken only while it is free.
LEMMA ExclusionStep == ASSUME TypeOK, Exclusion, [Next]_vars PROVE Exclusion'
<1>1. ASSUME UNCHANGED vars PROVE Exclusion'
  BY <1>1, NoneFacts DEF TypeOK, Exclusion, Critical, vars, disk, work
<1>2. ASSUME NEW i \in Parts, Edit(i) PROVE Exclusion'
  BY <1>2, NoneFacts DEF TypeOK, Exclusion, Critical, Edit, disk, work
<1>3. ASSUME NEW p \in Procs, NEW k \in Guarded, Begin(p, k) PROVE Exclusion'
  <2>1. First(k) \notin Critical /\ k \notin Unguarded
    BY DEF First, Critical, Guarded, Unguarded
  <2>. QED BY <1>3, <2>1 DEF TypeOK, Exclusion, Begin, To
<1>4. ASSUME NEW p \in Procs, NEW i \in Parts, Read(p, i) PROVE Exclusion'
  BY <1>4, NoneFacts DEF TypeOK, Exclusion, Critical, Read, disk, work
<1>5. ASSUME NEW p \in Procs, Pin(p) PROVE Exclusion'
  BY <1>5, NoneFacts DEF TypeOK, Exclusion, Critical, Pin, disk, work, To, Fault
<1>6. ASSUME NEW p \in Procs, Build(p) PROVE Exclusion'
  BY <1>6 DEF TypeOK, Exclusion, Critical, Build, To, work, Unguarded
<1>7. ASSUME NEW p \in Procs, Acquire(p) PROVE Exclusion'
  BY <1>7, NoneFacts DEF TypeOK, Exclusion, Critical, Acquire, disk, work, To
<1>8. ASSUME NEW p \in Procs, GiveUp(p) PROVE Exclusion'
  BY <1>8, QuitExclusion DEF GiveUp
<1>9. ASSUME NEW p \in Procs, Open(p) PROVE Exclusion'
  BY <1>9, NoneFacts DEF TypeOK, Exclusion, Critical, Open, disk, work, To
<1>10. ASSUME NEW p \in Procs, Commit(p) PROVE Exclusion'
  BY <1>10, NoneFacts DEF TypeOK, Exclusion, Critical, Commit, disk, work, To, Committed
<1>11. ASSUME NEW p \in Procs, Close(p) PROVE Exclusion'
  <2>1. CASE Quit(p)
    BY <2>1, QuitExclusion
  <2>2. CASE ~Quit(p)
    BY <1>11, <2>2 DEF TypeOK, Exclusion, Close, To, Critical, work
  <2>. QED BY <2>1, <2>2
<1>12. ASSUME NEW p \in Procs, Check(p) PROVE Exclusion'
  <2>1. CASE Quit(p)
    BY <2>1, QuitExclusion
  <2>2. CASE ~Quit(p)
    BY <1>12, <2>2 DEF TypeOK, Exclusion, Check, To, Critical, work, MayPark
  <2>. QED BY <2>1, <2>2
<1>13. ASSUME NEW p \in Procs, Park(p) PROVE Exclusion'
  BY <1>13, NoneFacts DEF TypeOK, Exclusion, Critical, Park, disk, work, To, Move
<1>14. ASSUME NEW p \in Procs, Install(p) PROVE Exclusion'
  BY <1>14, NoneFacts DEF TypeOK, Exclusion, Critical, Install, disk, work, To
<1>15. ASSUME NEW p \in Procs, Verify(p) PROVE Exclusion'
  BY <1>15, NoneFacts DEF TypeOK, Exclusion, Critical, Verify, disk, work, To, Fault, Fresh
<1>16. ASSUME NEW p \in Procs, Discard(p) PROVE Exclusion'
  BY <1>16, QuitExclusion DEF Discard
<1>17. ASSUME NEW p \in Procs, Remove(p) PROVE Exclusion'
  BY <1>17, NoneFacts DEF TypeOK, Exclusion, Critical, Remove, disk, work, To, Move
<1>18. ASSUME NEW p \in Procs, Restore(p) PROVE Exclusion'
  BY <1>18, QuitExclusion DEF Restore
<1>19. ASSUME NEW p \in Procs, FailedInstall(p) PROVE Exclusion'
  BY <1>19, QuitExclusion DEF FailedInstall
<1>20. ASSUME NEW p \in Procs, Copy(p) PROVE Exclusion'
  <2>1. CASE Quit(p)
    BY <2>1, QuitExclusion
  <2>2. CASE ~Quit(p)
    BY <1>20, <2>2 DEF TypeOK, Exclusion, Copy, To, Critical
  <2>. QED BY <2>1, <2>2
<1>21. ASSUME NEW p \in Procs, Publish(p) PROVE Exclusion'
  BY <1>21, QuitExclusion DEF Publish
<1>22. ASSUME NEW p \in Procs, Die(p) PROVE Exclusion'
  BY <1>22, QuitExclusion DEF Die
<1>23. ASSUME NEW p \in Procs, Fail(p) PROVE Exclusion'
  BY <1>23, QuitExclusion DEF Fail
<1>. QED BY NextCases, <1>1, <1>2, <1>3, <1>4, <1>5, <1>6, <1>7, <1>8, <1>9, <1>10, <1>11, <1>12, <1>13, <1>14, <1>15, <1>16, <1>17, <1>18, <1>19, <1>20, <1>21, <1>22, <1>23

\* graph.db disappears only under the lock, when no connection is open.
LEMMA ConnectionsStep == ASSUME TypeOK, Built, Exclusion, Connections, [Next]_vars PROVE Connections'
<1>1. ASSUME UNCHANGED vars PROVE Connections'
  BY <1>1, NoneFacts DEF TypeOK, Exclusion, Connections, Critical, vars, disk, work
<1>2. ASSUME NEW i \in Parts, Edit(i) PROVE Connections'
  BY <1>2, NoneFacts DEF TypeOK, Exclusion, Connections, Critical, Edit, disk, work
<1>3. ASSUME NEW p \in Procs, NEW k \in Guarded, Begin(p, k) PROVE Connections'
  <2>1. First(k) \notin {"commit", "close"}
    BY DEF First, Guarded
  <2>. QED BY <1>3, <2>1 DEF TypeOK, Connections, Begin, To, disk
<1>4. ASSUME NEW p \in Procs, NEW i \in Parts, Read(p, i) PROVE Connections'
  BY <1>4, NoneFacts DEF TypeOK, Exclusion, Connections, Critical, Read, disk, work
<1>5. ASSUME NEW p \in Procs, Pin(p) PROVE Connections'
  BY <1>5, NoneFacts DEF TypeOK, Exclusion, Connections, Critical, Pin, disk, work, To, Fault
<1>6. ASSUME NEW p \in Procs, Build(p) PROVE Connections'
  BY <1>6, NoneFacts DEF TypeOK, Exclusion, Connections, Critical, Build, disk, work, To
<1>7. ASSUME NEW p \in Procs, Acquire(p) PROVE Connections'
  BY <1>7, NoneFacts DEF TypeOK, Exclusion, Connections, Critical, Acquire, disk, work, To
<1>8. ASSUME NEW p \in Procs, GiveUp(p) PROVE Connections'
  BY <1>8, NoneFacts DEF TypeOK, Exclusion, Connections, Critical, GiveUp, disk, work, Quit, To, Fault
<1>9. ASSUME NEW p \in Procs, Open(p) PROVE Connections'
  BY <1>9, EmptyIsPresent DEF TypeOK, Connections, Open, To
<1>10. ASSUME NEW p \in Procs, Commit(p) PROVE Connections'
  BY <1>10, CommittedIsPresent DEF TypeOK, Connections, Commit, To
<1>11. ASSUME NEW p \in Procs, Close(p) PROVE Connections'
  BY <1>11, NoneFacts DEF TypeOK, Exclusion, Connections, Critical, Close, disk, work, Quit, To, NoWal
<1>12. ASSUME NEW p \in Procs, Check(p) PROVE Connections'
  BY <1>12, NoneFacts DEF TypeOK, Exclusion, Connections, Critical, Check, disk, work, Quit, To, MayPark
<1>13. ASSUME NEW p \in Procs, Park(p) PROVE Connections'
  BY <1>13, NoneFacts DEF TypeOK, Exclusion, Connections, Critical, Park, disk, work, To, Move
<1>14. ASSUME NEW p \in Procs, Install(p) PROVE Connections'
  BY <1>14, NoneFacts DEF TypeOK, Exclusion, Connections, Critical, Install, disk, work, To
<1>15. ASSUME NEW p \in Procs, Verify(p) PROVE Connections'
  BY <1>15, NoneFacts DEF TypeOK, Exclusion, Connections, Critical, Verify, disk, work, To, Fault, Fresh
<1>16. ASSUME NEW p \in Procs, Discard(p) PROVE Connections'
  BY <1>16, NoneFacts DEF TypeOK, Exclusion, Connections, Critical, Discard, disk, work, Quit, To, Move, Fault
<1>17. ASSUME NEW p \in Procs, Remove(p) PROVE Connections'
  BY <1>17, NoneFacts DEF TypeOK, Exclusion, Connections, Critical, Remove, disk, work, To, Move
<1>18. ASSUME NEW p \in Procs, Restore(p) PROVE Connections'
  BY <1>18, NoneFacts DEF TypeOK, Exclusion, Connections, Critical, Restore, disk, work, Quit, To, Move
<1>19. ASSUME NEW p \in Procs, FailedInstall(p) PROVE Connections'
  BY <1>19, NoneFacts DEF TypeOK, Exclusion, Connections, Critical, FailedInstall, disk, work, Quit, To, Move, Fault
<1>20. ASSUME NEW p \in Procs, Copy(p) PROVE Connections'
  BY <1>20, NoneFacts DEF TypeOK, Exclusion, Connections, Critical, Copy, disk, work, Quit, To
<1>21. ASSUME NEW p \in Procs, Publish(p) PROVE Connections'
  BY <1>21, NoneFacts DEF TypeOK, Exclusion, Connections, Critical, Publish, disk, work, Quit, To, Fresh
<1>22. ASSUME NEW p \in Procs, Die(p) PROVE Connections'
  BY <1>22, NoneFacts DEF TypeOK, Exclusion, Connections, Critical, Die, disk, work, Quit, To, Fault
<1>23. ASSUME NEW p \in Procs, Fail(p) PROVE Connections'
  BY <1>23, NoneFacts DEF TypeOK, Exclusion, Connections, Critical, Fail, disk, work, Quit, To, Fault, NoWal
<1>. QED BY NextCases, <1>1, <1>2, <1>3, <1>4, <1>5, <1>6, <1>7, <1>8, <1>9, <1>10, <1>11, <1>12, <1>13, <1>14, <1>15, <1>16, <1>17, <1>18, <1>19, <1>20, <1>21, <1>22, <1>23

\* The sidecar check is made under the lock, and holds until the lock is let go.
LEMMA LogsStep == ASSUME TypeOK, Built, Exclusion, Connections, Logs, [Next]_vars PROVE Logs'
<1>1. ASSUME UNCHANGED vars PROVE Logs'
  BY <1>1, NoneFacts DEF TypeOK, Exclusion, Connections, Logs, Critical, Importing, vars, disk, work
<1>2. ASSUME NEW i \in Parts, Edit(i) PROVE Logs'
  BY <1>2, NoneFacts DEF TypeOK, Exclusion, Connections, Logs, Critical, Importing, Edit, disk, work
<1>3. ASSUME NEW p \in Procs, NEW k \in Guarded, Begin(p, k) PROVE Logs'
  <2>1. First(k) \notin Importing
    BY DEF First, Guarded, Importing
  <2>. QED BY <1>3, <2>1 DEF TypeOK, Logs, Begin, To, disk
<1>4. ASSUME NEW p \in Procs, NEW i \in Parts, Read(p, i) PROVE Logs'
  BY <1>4, NoneFacts DEF TypeOK, Exclusion, Connections, Logs, Critical, Importing, Read, disk, work
<1>5. ASSUME NEW p \in Procs, Pin(p) PROVE Logs'
  BY <1>5, NoneFacts DEF TypeOK, Exclusion, Connections, Logs, Critical, Importing, Pin, disk, work, To, Fault
<1>6. ASSUME NEW p \in Procs, Build(p) PROVE Logs'
  BY <1>6, NoneFacts DEF TypeOK, Exclusion, Connections, Logs, Critical, Importing, Build, disk, work, To
<1>7. ASSUME NEW p \in Procs, Acquire(p) PROVE Logs'
  BY <1>7, NoneFacts DEF TypeOK, Exclusion, Connections, Logs, Critical, Importing, Acquire, disk, work, To
<1>8. ASSUME NEW p \in Procs, GiveUp(p) PROVE Logs'
  BY <1>8, NoneFacts DEF TypeOK, Exclusion, Connections, Logs, Critical, Importing, GiveUp, disk, work, Quit, To, Fault
<1>9. ASSUME NEW p \in Procs, Open(p) PROVE Logs'
  <2>1. file' # None /\ wal'.of = "file"
    BY <1>9, EmptyIsPresent DEF Logs, Open
  <2>2. \A q \in Procs : pc'[q] \notin Importing
    BY <1>9 DEF TypeOK, Exclusion, Open, To, Critical, Importing
  <2>. QED BY <2>1, <2>2 DEF Logs
<1>10. ASSUME NEW p \in Procs, Commit(p) PROVE Logs'
  <2>1. file' # None /\ wal'.of = "file"
    BY <1>10, CommittedIsPresent DEF Connections, Commit
  <2>2. \A q \in Procs : pc'[q] \notin Importing
    BY <1>10 DEF TypeOK, Exclusion, Commit, To, Critical, Importing
  <2>. QED BY <2>1, <2>2 DEF Logs
<1>11. ASSUME NEW p \in Procs, Close(p) PROVE Logs'
  BY <1>11, NoneFacts DEF TypeOK, Exclusion, Connections, Logs, Critical, Importing, Close, disk, work, Quit, To, NoWal
<1>12. ASSUME NEW p \in Procs, Check(p) PROVE Logs'
  BY <1>12, NoneFacts DEF TypeOK, Exclusion, Connections, Logs, Critical, Importing, Check, disk, work, Quit, To, MayPark
<1>13. ASSUME NEW p \in Procs, Park(p) PROVE Logs'
  BY <1>13, NoneFacts DEF TypeOK, Exclusion, Connections, Logs, Critical, Importing, Park, disk, work, To, Move
<1>14. ASSUME NEW p \in Procs, Install(p) PROVE Logs'
  BY <1>14, NoneFacts DEF TypeOK, Exclusion, Connections, Logs, Critical, Importing, Install, disk, work, To
<1>15. ASSUME NEW p \in Procs, Verify(p) PROVE Logs'
  BY <1>15, NoneFacts DEF TypeOK, Exclusion, Connections, Logs, Critical, Importing, Verify, disk, work, To, Fault, Fresh
<1>16. ASSUME NEW p \in Procs, Discard(p) PROVE Logs'
  BY <1>16, NoneFacts DEF TypeOK, Exclusion, Connections, Logs, Critical, Importing, Discard, disk, work, Quit, To, Move, Fault
<1>17. ASSUME NEW p \in Procs, Remove(p) PROVE Logs'
  BY <1>17, NoneFacts DEF TypeOK, Exclusion, Connections, Logs, Critical, Importing, Remove, disk, work, To, Move
<1>18. ASSUME NEW p \in Procs, Restore(p) PROVE Logs'
  BY <1>18, NoneFacts DEF TypeOK, Exclusion, Connections, Logs, Critical, Importing, Restore, disk, work, Quit, To, Move
<1>19. ASSUME NEW p \in Procs, FailedInstall(p) PROVE Logs'
  BY <1>19, NoneFacts DEF TypeOK, Exclusion, Connections, Logs, Critical, Importing, FailedInstall, disk, work, Quit, To, Move, Fault
<1>20. ASSUME NEW p \in Procs, Copy(p) PROVE Logs'
  BY <1>20, NoneFacts DEF TypeOK, Exclusion, Connections, Logs, Critical, Importing, Copy, disk, work, Quit, To
<1>21. ASSUME NEW p \in Procs, Publish(p) PROVE Logs'
  BY <1>21, NoneFacts DEF TypeOK, Exclusion, Connections, Logs, Critical, Importing, Publish, disk, work, Quit, To, Fresh
<1>22. ASSUME NEW p \in Procs, Die(p) PROVE Logs'
  BY <1>22, NoneFacts DEF TypeOK, Exclusion, Connections, Logs, Critical, Importing, Die, disk, work, Quit, To, Fault
<1>23. ASSUME NEW p \in Procs, Fail(p) PROVE Logs'
  BY <1>23, NoneFacts DEF TypeOK, Exclusion, Connections, Logs, Critical, Importing, Fail, disk, work, Quit, To, Fault, NoWal
<1>. QED BY NextCases, <1>1, <1>2, <1>3, <1>4, <1>5, <1>6, <1>7, <1>8, <1>9, <1>10, <1>11, <1>12, <1>13, <1>14, <1>15, <1>16, <1>17, <1>18, <1>19, <1>20, <1>21, <1>22, <1>23

\* The same for the backup check; a commit never reaches the backup.
LEMMA BackupsStep == ASSUME TypeOK, Built, Exclusion, Connections, Backups, [Next]_vars PROVE Backups'
<1>1. ASSUME UNCHANGED vars PROVE Backups'
  BY <1>1, NoneFacts DEF TypeOK, Exclusion, Connections, Backups, Critical, vars, disk, work
<1>2. ASSUME NEW i \in Parts, Edit(i) PROVE Backups'
  BY <1>2, NoneFacts DEF TypeOK, Exclusion, Connections, Backups, Critical, Edit, disk, work
<1>3. ASSUME NEW p \in Procs, NEW k \in Guarded, Begin(p, k) PROVE Backups'
  <2>1. First(k) \notin {"park", "discard"}
    BY DEF First, Guarded
  <2>. QED BY <1>3, <2>1 DEF TypeOK, Backups, Begin, To, disk
<1>4. ASSUME NEW p \in Procs, NEW i \in Parts, Read(p, i) PROVE Backups'
  BY <1>4, NoneFacts DEF TypeOK, Exclusion, Connections, Backups, Critical, Read, disk, work
<1>5. ASSUME NEW p \in Procs, Pin(p) PROVE Backups'
  BY <1>5, NoneFacts DEF TypeOK, Exclusion, Connections, Backups, Critical, Pin, disk, work, To, Fault
<1>6. ASSUME NEW p \in Procs, Build(p) PROVE Backups'
  BY <1>6, NoneFacts DEF TypeOK, Exclusion, Connections, Backups, Critical, Build, disk, work, To
<1>7. ASSUME NEW p \in Procs, Acquire(p) PROVE Backups'
  BY <1>7, NoneFacts DEF TypeOK, Exclusion, Connections, Backups, Critical, Acquire, disk, work, To
<1>8. ASSUME NEW p \in Procs, GiveUp(p) PROVE Backups'
  BY <1>8, NoneFacts DEF TypeOK, Exclusion, Connections, Backups, Critical, GiveUp, disk, work, Quit, To, Fault
<1>9. ASSUME NEW p \in Procs, Open(p) PROVE Backups'
  BY <1>9, NoneFacts DEF TypeOK, Exclusion, Connections, Backups, Critical, Open, disk, work, To
<1>10. ASSUME NEW p \in Procs, Commit(p) PROVE Backups'
  BY <1>10, NoneFacts DEF TypeOK, Exclusion, Connections, Backups, Critical, Commit, disk, work, To, Committed
<1>11. ASSUME NEW p \in Procs, Close(p) PROVE Backups'
  BY <1>11, NoneFacts DEF TypeOK, Exclusion, Connections, Backups, Critical, Close, disk, work, Quit, To, NoWal
<1>12. ASSUME NEW p \in Procs, Check(p) PROVE Backups'
  BY <1>12, NoneFacts, SMTT(30) DEF TypeOK, Exclusion, Connections, Backups, Critical, Check, disk, work, Quit, To, MayPark
<1>13. ASSUME NEW p \in Procs, Park(p) PROVE Backups'
  BY <1>13, NoneFacts DEF TypeOK, Exclusion, Connections, Backups, Critical, Park, disk, work, To, Move
<1>14. ASSUME NEW p \in Procs, Install(p) PROVE Backups'
  BY <1>14, NoneFacts DEF TypeOK, Exclusion, Connections, Backups, Critical, Install, disk, work, To
<1>15. ASSUME NEW p \in Procs, Verify(p) PROVE Backups'
  BY <1>15, NoneFacts DEF TypeOK, Exclusion, Connections, Backups, Critical, Verify, disk, work, To, Fault, Fresh
<1>16. ASSUME NEW p \in Procs, Discard(p) PROVE Backups'
  BY <1>16, NoneFacts DEF TypeOK, Exclusion, Connections, Backups, Critical, Discard, disk, work, Quit, To, Move, Fault
<1>17. ASSUME NEW p \in Procs, Remove(p) PROVE Backups'
  BY <1>17, NoneFacts DEF TypeOK, Exclusion, Connections, Backups, Critical, Remove, disk, work, To, Move
<1>18. ASSUME NEW p \in Procs, Restore(p) PROVE Backups'
  BY <1>18, NoneFacts DEF TypeOK, Exclusion, Connections, Backups, Critical, Restore, disk, work, Quit, To, Move
<1>19. ASSUME NEW p \in Procs, FailedInstall(p) PROVE Backups'
  BY <1>19, NoneFacts DEF TypeOK, Exclusion, Connections, Backups, Critical, FailedInstall, disk, work, Quit, To, Move, Fault
<1>20. ASSUME NEW p \in Procs, Copy(p) PROVE Backups'
  BY <1>20, NoneFacts DEF TypeOK, Exclusion, Connections, Backups, Critical, Copy, disk, work, Quit, To
<1>21. ASSUME NEW p \in Procs, Publish(p) PROVE Backups'
  BY <1>21, NoneFacts DEF TypeOK, Exclusion, Connections, Backups, Critical, Publish, disk, work, Quit, To, Fresh
<1>22. ASSUME NEW p \in Procs, Die(p) PROVE Backups'
  BY <1>22, NoneFacts DEF TypeOK, Exclusion, Connections, Backups, Critical, Die, disk, work, Quit, To, Fault
<1>23. ASSUME NEW p \in Procs, Fail(p) PROVE Backups'
  BY <1>23, NoneFacts DEF TypeOK, Exclusion, Connections, Backups, Critical, Fail, disk, work, Quit, To, Fault, NoWal
<1>. QED BY NextCases, <1>1, <1>2, <1>3, <1>4, <1>5, <1>6, <1>7, <1>8, <1>9, <1>10, <1>11, <1>12, <1>13, <1>14, <1>15, <1>16, <1>17, <1>18, <1>19, <1>20, <1>21, <1>22, <1>23

-----------------------------------------------------------------------------
Guarding == TypeOK /\ Built /\ Exclusion /\ Connections /\ Logs /\ Backups

\* The lock protocol, as one inductive invariant.
LEMMA GuardingHolds == Spec => []Guarding
<1>1. Init => Exclusion /\ Connections /\ Logs /\ Backups
  BY NoneFacts DEF Init, Exclusion, Connections, Logs, Backups, Critical, Importing, NoWal
<1>2. Guarding /\ [Next]_vars => TypeOK' /\ Built'
  BY TypeStep, BuiltStep DEF Guarding
<1>3. Guarding /\ [Next]_vars => Exclusion' /\ Connections'
  BY ExclusionStep, ConnectionsStep DEF Guarding
<1>4. Guarding /\ [Next]_vars => Logs' /\ Backups'
  BY LogsStep, BackupsStep DEF Guarding
<1>5. Init => Guarding
  BY <1>1, TypeInit DEF Guarding
<1>. QED BY <1>2, <1>3, <1>4, <1>5, PTL DEF Spec, Guarding

\* Every variable keeps its type.
THEOREM TypeCorrect == Spec => []TypeOK
BY GuardingHolds, PTL DEF Guarding

\* No writer commits into a file that an import has moved away.
THEOREM CommitsAlwaysLand == Spec => []CommitsLand
<1>1. Guarding => CommitsLand
  BY DEF Guarding, Connections, CommitsLand
<1>. QED BY <1>1, GuardingHolds, PTL

\* A log that holds commits lies beside the database it belongs to.
THEOREM WalStaysWithItsDatabase == Spec => []WalBelongsToItsDatabase
<1>1. Guarding => WalBelongsToItsDatabase
  BY DEF Guarding, Logs, WalBelongsToItsDatabase
<1>. QED BY <1>1, GuardingHolds, PTL

\* What an import moved away is there until its replacement is verified.
THEOREM NoReplacedDatabaseIsLost == Spec => []ReplacedDatabaseSurvives
<1>1. Guarding => ReplacedDatabaseSurvives
  BY DEF Guarding, Backups, ReplacedDatabaseSurvives
<1>. QED BY <1>1, GuardingHolds, PTL

-----------------------------------------------------------------------------
\* A stamp is nowhere newer than the rows under it, and the rows nowhere newer
\* than the sources s.
Honest(db, s) ==
    db # None /\ db.stamp \in Versions
        => \A i \in Parts : db.stamp[i] <= db.rows[i] /\ db.rows[i] <= s[i]

Honesty ==
    /\ Honest(file, source) /\ Honest(backup, source) /\ Honest(artifact, source)
    /\ \A p \in Procs : Honest(staged[p], source)

\* What a process has read is not older than the watermark it pinned.
Reads ==
    \A p \in Procs :
        /\ pc[p] \in {"idle", "pin"} => rows[p] = Unread
        /\ \A i \in Parts : rows[p][i] # None => rows[p][i] <= source[i]
        /\ mark[p] \in Versions => \A i \in Parts : mark[p][i] <= source[i]
        /\ mark[p] \in Versions => \A i \in Parts : rows[p][i] # None => mark[p][i] <= rows[p][i]

\* Sources only advance.
LEMMA HonestLater ==
    ASSUME TypeOK, NEW i \in Parts, Edit(i), NEW db \in Databases \cup {None}, Honest(db, source)
    PROVE  Honest(db, source')
<1>. SUFFICES ASSUME db # None, db.stamp \in Versions, NEW j \in Parts
              PROVE  db.stamp[j] <= db.rows[j] /\ db.rows[j] <= source'[j]
  BY DEF Honest
<1>1. source[j] \in Nat /\ source'[j] \in Nat /\ source[j] <= source'[j]
  BY BoundsAssumption DEF TypeOK, Edit
<1>2. db.rows[j] \in Nat
  BY DEF Databases, Versions
<1>. QED BY <1>1, <1>2 DEF Honest

\* What a refresh stores is honest.
LEMMA HonestCommit ==
    ASSUME Guarding, Reads, Honesty, NEW p \in Procs, Commit(p)
    PROVE  Honest(Committed(p, file), source)
<1>1. CASE kind[p] \in Builders
  <2>1. \A i \in Parts : rows[p][i] # None
    BY <1>1 DEF Guarding, Built, Commit
  <2>2. Committed(p, file) = [rows |-> rows[p], stamp |-> mark[p]]
    BY <1>1 DEF Committed
  <2>. QED BY <2>1, <2>2 DEF Honest, Reads
<1>2. CASE kind[p] \notin Builders
  BY <1>2 DEF Committed, Honesty
<1>. QED BY <1>1, <1>2

\* A database that has no projection claims nothing.
LEMMA HonestEmpty == Honest(Empty, source)
BY NoneFacts DEF Honest, Empty

\* A process that quits forgets what it has read.
LEMMA QuitReads ==
    ASSUME Guarding, Reads, NEW p \in Procs, Quit(p), source' = source
    PROVE  Reads'
BY NoneFacts DEF Guarding, TypeOK, Reads, Quit, To, Unread

\* The watermark is pinned before anything is read.
LEMMA ReadsStep == ASSUME Guarding, Reads, [Next]_vars PROVE Reads'
<1>1. ASSUME UNCHANGED vars PROVE Reads'
  BY <1>1 DEF Guarding, TypeOK, Reads, vars, disk, work
<1>2. ASSUME NEW i \in Parts, Edit(i) PROVE Reads'
  <2>1. \A j \in Parts : source[j] \in Nat /\ source'[j] \in Nat /\ source[j] <= source'[j]
    BY <1>2, BoundsAssumption DEF Guarding, TypeOK, Edit
  <2>2. \A p \in Procs, j \in Parts : rows[p][j] # None => rows[p][j] <= source'[j]
    BY <2>1 DEF Guarding, TypeOK, Reads
  <2>3. \A p \in Procs : mark[p] \in Versions => \A j \in Parts : mark[p][j] <= source'[j]
    BY <2>1 DEF Reads, Versions
  <2>. QED BY <1>2, <2>2, <2>3 DEF Reads, Edit, work
<1>3. ASSUME NEW p \in Procs, NEW k \in Guarded, Begin(p, k) PROVE Reads'
  <2>1. First(k) # "idle" /\ k # "eval"
    BY DEF First, Guarded
  <2>. QED BY <1>3, <2>1, NoneFacts DEF Guarding, TypeOK, Reads, Begin, To
<1>4. ASSUME NEW p \in Procs, NEW i \in Parts, Read(p, i) PROVE Reads'
  <2>1. source[i] \in Nat
    BY BoundsAssumption DEF Guarding, TypeOK
  <2>. QED BY <1>4, <2>1 DEF Guarding, TypeOK, Reads, Read
<1>5. ASSUME NEW p \in Procs, Pin(p) PROVE Reads'
  <2>1. rows[p] = Unread /\ mark'[p] \in {source, Hash}
    BY <1>5 DEF Guarding, TypeOK, Reads, Pin
  <2>2. \A i \in Parts : source[i] <= source[i]
    BY BoundsAssumption DEF Guarding, TypeOK
  <2>. QED BY <1>5, <2>1, <2>2, HashAssumption DEF Guarding, TypeOK, Reads, Pin, To, Unread
<1>6. ASSUME NEW p \in Procs, Build(p) PROVE Reads'
  BY <1>6 DEF Guarding, TypeOK, Reads, Build, disk, work, To
<1>7. ASSUME NEW p \in Procs, Acquire(p) PROVE Reads'
  BY <1>7 DEF Guarding, TypeOK, Reads, Acquire, disk, work, To
<1>8. ASSUME NEW p \in Procs, GiveUp(p) PROVE Reads'
  BY <1>8, QuitReads DEF GiveUp
<1>9. ASSUME NEW p \in Procs, Open(p) PROVE Reads'
  BY <1>9 DEF Guarding, TypeOK, Exclusion, Unguarded, Reads, Open, To
<1>10. ASSUME NEW p \in Procs, Commit(p) PROVE Reads'
  BY <1>10 DEF Guarding, TypeOK, Reads, Commit, disk, work, To
<1>11. ASSUME NEW p \in Procs, Close(p) PROVE Reads'
  <2>1. CASE Quit(p)
    BY <1>11, <2>1, QuitReads DEF Close
  <2>2. CASE ~Quit(p)
    BY <1>11, <2>2 DEF Guarding, TypeOK, Reads, Close, To, work
  <2>. QED BY <2>1, <2>2
<1>12. ASSUME NEW p \in Procs, Check(p) PROVE Reads'
  <2>1. CASE Quit(p)
    BY <1>12, <2>1, QuitReads DEF Check
  <2>2. CASE ~Quit(p)
    BY <1>12, <2>2 DEF Guarding, TypeOK, Reads, Check, To, work
  <2>. QED BY <2>1, <2>2
<1>13. ASSUME NEW p \in Procs, Park(p) PROVE Reads'
  BY <1>13 DEF Guarding, TypeOK, Reads, Park, disk, work, To
<1>14. ASSUME NEW p \in Procs, Install(p) PROVE Reads'
  BY <1>14 DEF Guarding, TypeOK, Reads, Install, disk, work, To
<1>15. ASSUME NEW p \in Procs, Verify(p) PROVE Reads'
  BY <1>15 DEF Guarding, TypeOK, Reads, Verify, disk, work, To
<1>16. ASSUME NEW p \in Procs, Discard(p) PROVE Reads'
  BY <1>16, QuitReads DEF Discard
<1>17. ASSUME NEW p \in Procs, Remove(p) PROVE Reads'
  BY <1>17 DEF Guarding, TypeOK, Reads, Remove, disk, work, To
<1>18. ASSUME NEW p \in Procs, Restore(p) PROVE Reads'
  BY <1>18, QuitReads DEF Restore
<1>19. ASSUME NEW p \in Procs, FailedInstall(p) PROVE Reads'
  BY <1>19, QuitReads DEF FailedInstall
<1>20. ASSUME NEW p \in Procs, Copy(p) PROVE Reads'
  <2>1. CASE Quit(p)
    BY <1>20, <2>1, QuitReads DEF Copy
  <2>2. CASE ~Quit(p)
    BY <1>20, <2>2 DEF Guarding, TypeOK, Reads, Copy, To, work
  <2>. QED BY <2>1, <2>2
<1>21. ASSUME NEW p \in Procs, Publish(p) PROVE Reads'
  BY <1>21, QuitReads DEF Publish
<1>22. ASSUME NEW p \in Procs, Die(p) PROVE Reads'
  BY <1>22, QuitReads DEF Die
<1>23. ASSUME NEW p \in Procs, Fail(p) PROVE Reads'
  BY <1>23, QuitReads DEF Fail
<1>. QED BY NextCases, <1>1, <1>2, <1>3, <1>4, <1>5, <1>6, <1>7, <1>8, <1>9, <1>10, <1>11, <1>12, <1>13, <1>14, <1>15, <1>16, <1>17, <1>18, <1>19, <1>20, <1>21, <1>22, <1>23

\* An absent database claims nothing.
LEMMA HonestNone == \A s : Honest(None, s)
BY DEF Honest

\* A process that quits keeps every database honest.
LEMMA QuitHonest ==
    ASSUME Guarding, Honesty, NEW p \in Procs, Quit(p)
    PROVE  \A q \in Procs : Honest(staged'[q], source)
BY HonestNone DEF Guarding, TypeOK, Honesty, Quit

\* Databases are built, copied and moved, and stay honest.
LEMMA HonestyStep == ASSUME Guarding, Reads, Honesty, [Next]_vars PROVE Honesty'
<1>1. ASSUME UNCHANGED vars PROVE Honesty'
  BY <1>1 DEF Honesty, vars, disk, work
<1>2. ASSUME NEW i \in Parts, Edit(i) PROVE Honesty'
  <2>1. /\ {file, backup, artifact} \subseteq Databases \cup {None}
        /\ \A p \in Procs : staged[p] \in Databases \cup {None}
    BY DEF Guarding, TypeOK
  <2>2. Honest(file, source') /\ Honest(backup, source') /\ Honest(artifact, source')
    BY <1>2, <2>1, HonestLater DEF Guarding, Honesty
  <2>3. \A p \in Procs : Honest(staged[p], source')
    BY <1>2, <2>1, HonestLater DEF Guarding, Honesty
  <2>. QED BY <1>2, <2>2, <2>3 DEF Honesty, Edit, disk, work
<1>3. ASSUME NEW p \in Procs, NEW k \in Guarded, Begin(p, k) PROVE Honesty'
  BY <1>3, HonestNone DEF Guarding, TypeOK, Honesty, Begin, disk
<1>4. ASSUME NEW p \in Procs, NEW i \in Parts, Read(p, i) PROVE Honesty'
  BY <1>4 DEF Honesty, Read, disk, work
<1>5. ASSUME NEW p \in Procs, Pin(p) PROVE Honesty'
  BY <1>5 DEF Honesty, Pin, disk, work
<1>6. ASSUME NEW p \in Procs, Build(p) PROVE Honesty'
  BY <1>6 DEF Honesty, Build, disk, work
<1>7. ASSUME NEW p \in Procs, Acquire(p) PROVE Honesty'
  BY <1>7 DEF Honesty, Acquire, disk, work
<1>8. ASSUME NEW p \in Procs, GiveUp(p) PROVE Honesty'
  BY <1>8, QuitHonest, HonestNone DEF Honesty, GiveUp, disk
<1>9. ASSUME NEW p \in Procs, Open(p) PROVE Honesty'
  BY <1>9, HonestEmpty DEF Honesty, Open
<1>10. ASSUME NEW p \in Procs, Commit(p) PROVE Honesty'
  <2>1. conn[p] = "file"
    BY <1>10 DEF Guarding, Connections, Commit
  <2>. QED BY <1>10, <2>1, HonestCommit DEF Honesty, Commit, work
<1>11. ASSUME NEW p \in Procs, Close(p) PROVE Honesty'
  <2>1. CASE Quit(p)
    BY <1>11, <2>1, QuitHonest DEF Honesty, Close, disk
  <2>2. CASE ~Quit(p)
    BY <1>11, <2>2 DEF Guarding, TypeOK, Honesty, Close, disk, work
  <2>. QED BY <2>1, <2>2
<1>12. ASSUME NEW p \in Procs, Check(p) PROVE Honesty'
  <2>1. CASE Quit(p)
    BY <1>12, <2>1, QuitHonest DEF Honesty, Check, disk
  <2>2. CASE ~Quit(p)
    BY <1>12, <2>2 DEF Guarding, TypeOK, Honesty, Check, disk, work
  <2>. QED BY <2>1, <2>2
<1>13. ASSUME NEW p \in Procs, Park(p) PROVE Honesty'
  BY <1>13, HonestNone DEF Honesty, Park, work
<1>14. ASSUME NEW p \in Procs, Install(p) PROVE Honesty'
  BY <1>14 DEF Honesty, Install, disk, work
<1>15. ASSUME NEW p \in Procs, Verify(p) PROVE Honesty'
  BY <1>15 DEF Honesty, Verify, disk, work
<1>16. ASSUME NEW p \in Procs, Discard(p) PROVE Honesty'
  BY <1>16, QuitHonest, HonestNone DEF Honesty, Discard, disk
<1>17. ASSUME NEW p \in Procs, Remove(p) PROVE Honesty'
  BY <1>17, HonestNone DEF Honesty, Remove, work
<1>18. ASSUME NEW p \in Procs, Restore(p) PROVE Honesty'
  BY <1>18, QuitHonest, HonestNone DEF Honesty, Restore, disk
<1>19. ASSUME NEW p \in Procs, FailedInstall(p) PROVE Honesty'
  BY <1>19, QuitHonest, HonestNone DEF Honesty, FailedInstall, disk
<1>20. ASSUME NEW p \in Procs, Copy(p) PROVE Honesty'
  <2>1. CASE Quit(p)
    BY <1>20, <2>1, QuitHonest DEF Honesty, Copy, disk
  <2>2. CASE ~Quit(p)
    BY <1>20, <2>2 DEF Guarding, TypeOK, Honesty, Copy, disk, work
  <2>. QED BY <2>1, <2>2
<1>21. ASSUME NEW p \in Procs, Publish(p) PROVE Honesty'
  BY <1>21, QuitHonest, HonestNone DEF Honesty, Publish, disk
<1>22. ASSUME NEW p \in Procs, Die(p) PROVE Honesty'
  BY <1>22, QuitHonest, HonestNone DEF Honesty, Die, disk
<1>23. ASSUME NEW p \in Procs, Fail(p) PROVE Honesty'
  BY <1>23, QuitHonest, HonestNone DEF Honesty, Fail, disk
<1>. QED BY NextCases, <1>1, <1>2, <1>3, <1>4, <1>5, <1>6, <1>7, <1>8, <1>9, <1>10, <1>11, <1>12, <1>13, <1>14, <1>15, <1>16, <1>17, <1>18, <1>19, <1>20, <1>21, <1>22, <1>23

\* An honest database with the current watermark holds the current sources.
LEMMA HonestIsCurrent ==
    ASSUME TypeOK, NEW db \in Databases \cup {None}, Honest(db, source), Fresh(db)
    PROVE  db.rows = source
<1>1. db \in Databases /\ db.stamp = source
  BY DEF Fresh
<1>2. source \in Versions /\ db.rows \in Versions
  BY <1>1, VersionsOfSources DEF Databases
<1>3. \A i \in Parts : source[i] <= db.rows[i] /\ db.rows[i] <= source[i]
  BY <1>1, <1>2 DEF Honest, Fresh
<1>4. \A i \in Parts : source[i] = db.rows[i]
  BY <1>2, <1>3 DEF Versions
<1>. QED BY <1>2, <1>4 DEF Versions

\* Nobody reads the future, and every stored watermark is honest.
LEMMA HonestyHolds == Spec => [](Reads /\ Honesty)
<1>1. Init => Reads /\ Honesty
  <2>. SUFFICES ASSUME Init PROVE Reads /\ Honesty
    OBVIOUS
  <2>1. Reads
    BY NoneFacts DEF Init, Reads, Unread
  <2>2. Honest([rows |-> NoVersion, stamp |-> NoVersion], source)
    BY DEF Init, Honest, NoVersion
  <2>. QED BY <2>1, <2>2, HonestNone DEF Init, Honesty
<1>2. Guarding /\ Reads /\ Honesty /\ [Next]_vars => Reads' /\ Honesty'
  BY ReadsStep, HonestyStep
<1>. QED BY <1>1, <1>2, GuardingHolds, PTL DEF Spec

\* A projection with the current watermark holds the current sources, however
\* edits, refreshes, imports, exports, failures and deaths interleave.
THEOREM StaleIsNeverCalledFresh == Spec => []StaleIsNeverBlessed
<1>1. Guarding /\ Honesty => StaleIsNeverBlessed
  BY HonestIsCurrent DEF Guarding, TypeOK, Honesty, StaleIsNeverBlessed
<1>. QED BY <1>1, GuardingHolds, HonestyHolds, PTL

-----------------------------------------------------------------------------
(***************************************************************************)
(* What readers of graph.db meet: the steps of SharedGraph.                *)
(***************************************************************************)

\* What a builder reads, holds and stores has a stamp.
Pinned ==
    \A p \in Procs :
        kind[p] \in Builders /\ pc[p] \in {"read", "lock", "open", "commit"} => mark[p] # None

\* A snapshot's stamp is its rows, from the export to the end of the import.
Sealed(db) == db # None /\ db.stamp = db.rows

Snapshots ==
    /\ artifact # None => Sealed(artifact)
    /\ \A p \in Procs :
        /\ kind[p] = "import" => pc[p] \in {"lock", "check"} \cup Importing /\ Sealed(staged[p])
        /\ pc[p] \in {"check"} \cup Importing => kind[p] = "import"

\* Whether graph.db is there, at each step of its exchange.
Stages ==
    \A p \in Procs :
        /\ pc[p] \in {"park", "verify", "discard", "remove"} => file # None
        /\ pc[p] \in {"install", "restore"} => file = None

Exchanging == Pinned /\ Snapshots /\ Stages

\* The steps that end a command,
LEMMA QuittingSteps ==
    ASSUME NEW p \in Procs,
           \/ GiveUp(p) \/ Discard(p) \/ Restore(p) \/ FailedInstall(p)
           \/ Publish(p) \/ Die(p) \/ Fail(p)
    PROVE  Quit(p)
BY DEF GiveUp, Discard, Restore, FailedInstall, Publish, Die, Fail

\* and those that go on with it under the lock.
LEMMA GoingOn ==
    ASSUME Guarding, NEW p \in Procs,
           Commit(p) \/ Close(p) \/ Check(p) \/ Park(p) \/ Install(p) \/ Verify(p) \/ Remove(p)
    PROVE  \/ Quit(p)
           \/ /\ pc[p] = "commit" /\ To(p, "close")
              /\ UNCHANGED <<kind, mark, staged>>
           \/ /\ pc[p] \in {"check"} \cup Importing /\ \E to \in Importing : To(p, to)
              /\ UNCHANGED <<kind, mark, staged>>
<1>1. CASE Commit(p)
  BY <1>1 DEF Commit, work
<1>2. CASE Close(p)
  BY <1>2 DEF Close, Guarding, Exclusion, Unguarded
<1>3. CASE Check(p)
  BY <1>3 DEF Check, work, Importing
<1>4. CASE Park(p) \/ Install(p) \/ Verify(p) \/ Remove(p)
  BY <1>4 DEF Park, Install, Verify, Remove, work, Importing
<1>. QED BY <1>1, <1>2, <1>3, <1>4

\* Only a builder that has pinned its watermark gets to read.
LEMMA PinnedStep == ASSUME Guarding, Pinned, [Next]_vars PROVE Pinned'
<1>1. ASSUME UNCHANGED <<pc, kind, mark>> PROVE Pinned'
  BY <1>1 DEF Pinned
<1>2. ASSUME NEW p \in Procs, Quit(p) PROVE Pinned'
  <2>1. \A q \in Procs : q # p => pc'[q] = pc[q] /\ kind'[q] = kind[q] /\ mark'[q] = mark[q]
    BY <1>2 DEF Guarding, TypeOK, Quit, To
  <2>2. pc'[p] = "idle"
    BY <1>2 DEF Guarding, TypeOK, Quit, To
  <2>. QED BY <2>1, <2>2 DEF Pinned
<1>3. ASSUME NEW p \in Procs, NEW k \in Guarded, Begin(p, k) PROVE Pinned'
  <2>1. k \in Builders => First(k) = "pin"
    BY DEF Builders, Guarded, First
  <2>2. /\ \A q \in Procs : q # p => pc'[q] = pc[q] /\ kind'[q] = kind[q] /\ mark'[q] = mark[q]
        /\ pc'[p] = First(k) /\ kind'[p] = k
    BY <1>3 DEF Guarding, TypeOK, Begin, To
  <2>. QED BY <2>1, <2>2 DEF Pinned
<1>4. ASSUME NEW p \in Procs, Pin(p) PROVE Pinned'
  <2>1. /\ \A q \in Procs : q # p => pc'[q] = pc[q] /\ kind'[q] = kind[q] /\ mark'[q] = mark[q]
        /\ mark'[p] \in {source, Hash}
    BY <1>4 DEF Guarding, TypeOK, Pin, To
  <2>2. source # None /\ Hash # None
    BY NoneFacts, VersionsOfSources, HashAssumption DEF Guarding
  <2>. QED BY <2>1, <2>2 DEF Pinned
<1>5. ASSUME NEW p \in Procs, Build(p) \/ Acquire(p) \/ Open(p) \/ Copy(p) PROVE Pinned'
  <2>1. CASE Quit(p)
    BY <1>2, <2>1
  <2>2. CASE ~Quit(p)
    <3>1. PICK to \in Phases : To(p, to) /\ (to \in {"read", "lock", "open", "commit"} =>
                                              pc[p] \in {"read", "lock", "open"})
      BY <1>5, <2>2 DEF Build, Acquire, Open, Copy, Phases
    <3>2. kind' = kind /\ \A q \in Procs : mark'[q] = mark[q]
      BY <1>5, <2>2 DEF Guarding, TypeOK, Exclusion, Unguarded, Build, Acquire, Open, Copy, work
    <3>3. \A q \in Procs : pc'[q] = IF q = p THEN to ELSE pc[q]
      BY <3>1 DEF Guarding, TypeOK, To
    <3>. QED BY <3>1, <3>2, <3>3 DEF Pinned
  <2>. QED BY <2>1, <2>2
<1>6. ASSUME NEW p \in Procs,
             Commit(p) \/ Close(p) \/ Check(p) \/ Park(p) \/ Install(p) \/ Verify(p) \/ Remove(p)
      PROVE  Pinned'
  <2>1. CASE Quit(p)
    BY <1>2, <2>1
  <2>2. CASE ~Quit(p)
    <3>1. PICK to \in {"close"} \cup Importing : To(p, to) /\ UNCHANGED <<kind, mark>>
      BY <1>6, <2>2, GoingOn
    <3>2. \A q \in Procs : pc'[q] = IF q = p THEN to ELSE pc[q]
      BY <3>1 DEF Guarding, TypeOK, To
    <3>. QED BY <3>1, <3>2 DEF Pinned, Importing
  <2>. QED BY <2>1, <2>2
<1>7. ASSUME NEW i \in Parts, Edit(i) \/ \E p \in Procs : Read(p, i) PROVE UNCHANGED <<pc, kind, mark>>
  BY <1>7 DEF Edit, Read, work
<1>8. CASE UNCHANGED vars
  BY <1>1, <1>8 DEF vars, work
<1>. QED BY <1>1, <1>2, <1>3, <1>4, <1>5, <1>6, <1>7, <1>8, NextCases, QuittingSteps

\* An import that ends leaves the snapshots sealed.
LEMMA QuitSnapshots ==
    ASSUME Guarding, Snapshots, NEW p \in Procs, Quit(p), artifact' # None => Sealed(artifact')
    PROVE  Snapshots'
<1>1. \A q \in Procs : q # p => pc'[q] = pc[q] /\ kind'[q] = kind[q] /\ staged'[q] = staged[q]
  BY DEF Guarding, TypeOK, Quit, To
<1>2. pc'[p] = "idle" /\ kind'[p] = None
  BY DEF Guarding, TypeOK, Quit, To
<1>3. None # "import"
  BY NoneAssumption DEF Kinds, Guarded
<1>4. artifact' # None => Sealed(artifact)'
  BY DEF Sealed
<1>5. \A q \in Procs : q # p /\ Sealed(staged[q]) => Sealed(staged[q])'
  BY <1>1 DEF Sealed
<1>. QED BY <1>1, <1>2, <1>3, <1>4, <1>5 DEF Snapshots, Importing

\* A step from one phase to another that stages nothing.
LEMMA ToSnapshots ==
    ASSUME Guarding, Snapshots, NEW p \in Procs, NEW to, To(p, to),
           UNCHANGED <<artifact, kind>>,
           \A q \in Procs : kind[q] = "import" => staged'[q] = staged[q],
           kind[p] = "import" => to \in {"lock", "check"} \cup Importing,
           to \in {"check"} \cup Importing => kind[p] = "import"
    PROVE  Snapshots'
<1>1. \A q \in Procs : pc'[q] = IF q = p THEN to ELSE pc[q]
  BY DEF Guarding, TypeOK, To
<1>2. artifact' # None => Sealed(artifact)'
  BY DEF Sealed, Snapshots
<1>3. \A q \in Procs : kind[q] = "import" => Sealed(staged[q])'
  BY DEF Sealed, Snapshots
<1>. QED BY <1>1, <1>2, <1>3 DEF Snapshots

\* An exported snapshot is one of the present sources.
LEMMA FreshIsSealed ==
    ASSUME Guarding, NEW db \in Databases \cup {None}, Honest(db, source), Fresh(db)
    PROVE  Sealed(db) /\ db = [rows |-> source, stamp |-> source]
<1>1. db.rows = source /\ db.stamp = source /\ db \in Databases /\ db # None
  BY HonestIsCurrent DEF Guarding, Fresh
<1>. QED BY <1>1 DEF Sealed, Databases

\* Snapshots are sealed when exported, and stay so.
LEMMA SnapshotsStep == ASSUME Guarding, Honesty, Snapshots, [Next]_vars PROVE Snapshots'
<1>1. ASSUME UNCHANGED <<pc, kind, staged, artifact>> PROVE Snapshots'
  BY <1>1 DEF Snapshots, Sealed
<1>2. ASSUME NEW p \in Procs, NEW k \in Guarded, Begin(p, k) PROVE Snapshots'
  <2>1. /\ k = "import" => First(k) = "lock" /\ artifact # None
        /\ First(k) \notin {"check"} \cup Importing
    BY <1>2 DEF Begin, Proceeds, Fresh, First, Guarded, Importing
  <2>2. /\ \A q \in Procs : q # p => pc'[q] = pc[q] /\ kind'[q] = kind[q] /\ staged'[q] = staged[q]
        /\ pc'[p] = First(k) /\ kind'[p] = k /\ artifact' = artifact
        /\ k = "import" => staged'[p] = artifact
    BY <1>2 DEF Guarding, TypeOK, Begin, To, disk
  <2>3. \A q \in Procs : kind'[q] = "import" => Sealed(staged[q])'
    BY <2>1, <2>2 DEF Snapshots, Sealed
  <2>4. artifact' # None => Sealed(artifact)'
    BY <2>2 DEF Snapshots, Sealed
  <2>. QED BY <2>1, <2>2, <2>3, <2>4 DEF Snapshots
<1>3. ASSUME NEW p \in Procs, Pin(p) \/ Build(p) \/ Acquire(p) \/ Open(p) PROVE Snapshots'
  <2>1. UNCHANGED <<artifact, kind, staged>>
    BY <1>3 DEF Pin, Build, Acquire, Open, disk, work
  <2>2. PICK to \in {"read", "lock", "open", "check", "commit"} :
            /\ To(p, to)
            /\ to = "check" <=> pc[p] = "lock" /\ kind[p] = "import"
            /\ kind[p] = "import" => pc[p] = "lock"
    BY <1>3 DEF Pin, Build, Acquire, Open, Snapshots, Importing
  <2>. QED BY <2>1, <2>2, ToSnapshots DEF Importing
<1>4. ASSUME NEW p \in Procs,
             Commit(p) \/ Close(p) \/ Check(p) \/ Park(p) \/ Install(p) \/ Verify(p) \/ Remove(p)
      PROVE  Snapshots'
  <2>1. UNCHANGED artifact
    BY <1>4 DEF Commit, Close, Check, Park, Install, Verify, Remove, disk
  <2>2. CASE Quit(p)
    BY <2>1, <2>2, QuitSnapshots DEF Snapshots
  <2>3. CASE pc[p] = "commit" /\ To(p, "close") /\ UNCHANGED <<kind, mark, staged>>
    <3>1. kind[p] # "import"
      BY <2>3 DEF Snapshots, Importing
    <3>. QED BY <2>1, <2>3, <3>1, ToSnapshots DEF Importing
  <2>4. CASE /\ pc[p] \in {"check"} \cup Importing /\ \E to \in Importing : To(p, to)
             /\ UNCHANGED <<kind, mark, staged>>
    <3>1. kind[p] = "import"
      BY <2>4 DEF Snapshots
    <3>2. PICK to \in Importing : To(p, to)
      BY <2>4
    <3>. QED BY <2>1, <2>4, <3>1, <3>2, ToSnapshots
  <2>. QED BY <1>4, <2>2, <2>3, <2>4, GoingOn
<1>5. ASSUME NEW p \in Procs, Copy(p) PROVE Snapshots'
  <2>1. UNCHANGED artifact /\ pc[p] = "copy"
    BY <1>5 DEF Copy, disk
  <2>2. kind[p] # "import"
    BY <2>1 DEF Snapshots, Importing
  <2>3. CASE Quit(p)
    BY <2>1, <2>3, QuitSnapshots DEF Snapshots
  <2>4. CASE ~Quit(p)
    <3>1. To(p, "publish") /\ kind' = kind /\ \A q \in Procs : q # p => staged'[q] = staged[q]
      BY <1>5, <2>4 DEF Copy, Guarding, TypeOK
    <3>. QED BY <2>1, <2>2, <3>1, ToSnapshots DEF Importing
  <2>. QED BY <2>3, <2>4
<1>6. ASSUME NEW p \in Procs, Publish(p) PROVE Snapshots'
  <2>1. Fresh(staged[p]) => Sealed(staged[p])
    BY FreshIsSealed DEF Guarding, TypeOK, Honesty
  <2>2. artifact' # None => Sealed(artifact')
    BY <1>6, <2>1 DEF Publish, Snapshots
  <2>. QED BY <1>6, <2>2, QuitSnapshots DEF Publish
<1>7. ASSUME NEW p \in Procs,
             GiveUp(p) \/ Discard(p) \/ Restore(p) \/ FailedInstall(p) \/ Die(p) \/ Fail(p)
      PROVE  Snapshots'
  <2>1. artifact' \in {artifact, None}
    BY <1>7 DEF GiveUp, Discard, Restore, FailedInstall, Die, Fail, disk
  <2>. QED BY <1>7, <2>1, QuittingSteps, QuitSnapshots DEF Snapshots
<1>8. ASSUME NEW i \in Parts, Edit(i) \/ \E p \in Procs : Read(p, i) PROVE Snapshots'
  BY <1>1, <1>8 DEF Edit, Read, work, disk
<1>9. CASE UNCHANGED vars
  BY <1>1, <1>9 DEF vars, work, disk
<1>. QED BY <1>2, <1>3, <1>4, <1>5, <1>6, <1>7, <1>8, <1>9, NextCases

\* A step of one process that keeps graph.db, or is made under the lock.
LEMMA StagesTo ==
    ASSUME Guarding, Stages, NEW p \in Procs, NEW to, To(p, to),
           file' = file \/ pc[p] \in Critical,
           to \in {"park", "verify", "discard", "remove"} => file' # None,
           to \in {"install", "restore"} => file' = None
    PROVE  Stages'
<1>1. \A q \in Procs : pc'[q] = IF q = p THEN to ELSE pc[q]
  BY DEF Guarding, TypeOK, To
<1>2. ASSUME NEW q \in Procs, q # p, pc[q] \in Critical PROVE file' = file
  BY <1>2 DEF Guarding, Exclusion
<1>. QED BY <1>1, <1>2 DEF Stages, Critical

\* Nothing but the import that exchanges graph.db makes it come and go meanwhile.
LEMMA StagesStep == ASSUME Guarding, Snapshots, Stages, [Next]_vars PROVE Stages'
<1>1. ASSUME UNCHANGED <<pc, file>> PROVE Stages'
  BY <1>1 DEF Stages
<1>2. ASSUME NEW p \in Procs, Quit(p), file' = file \/ pc[p] \in Critical PROVE Stages'
  BY <1>2, StagesTo DEF Quit
<1>3. ASSUME NEW p \in Procs, NEW k \in Guarded, Begin(p, k) PROVE Stages'
  <2>1. First(k) \in {"pin", "lock", "copy"}
    BY DEF Guarded, First
  <2>2. To(p, First(k)) /\ file' = file
    BY <1>3 DEF Begin, disk
  <2>. QED BY <2>1, <2>2, StagesTo
<1>4. ASSUME NEW p \in Procs, Pin(p) \/ Build(p) \/ Acquire(p) PROVE Stages'
  <2>1. PICK to \in {"read", "open", "lock", "check"} : To(p, to)
    BY <1>4 DEF Pin, Build, Acquire
  <2>2. file' = file
    BY <1>4 DEF Pin, Build, Acquire, disk
  <2>. QED BY <2>1, <2>2, StagesTo
<1>5. ASSUME NEW p \in Procs, Open(p) \/ Commit(p) PROVE Stages'
  <2>1. pc[p] \in Critical
    BY <1>5 DEF Open, Commit, Critical
  <2>2. PICK to \in {"commit", "close"} : To(p, to)
    BY <1>5 DEF Open, Commit
  <2>. QED BY <2>1, <2>2, StagesTo
<1>6. ASSUME NEW p \in Procs, Close(p) PROVE Stages'
  BY <1>2, <1>6 DEF Close, Guarding, Exclusion, Unguarded
<1>7. ASSUME NEW p \in Procs, Check(p) PROVE Stages'
  <2>1. file' = file
    BY <1>7 DEF Check, disk
  <2>2. CASE Quit(p)
    BY <1>2, <2>1, <2>2
  <2>3. CASE file = None /\ To(p, "install")
    BY <2>1, <2>3, StagesTo
  <2>4. CASE file # None /\ To(p, "park")
    BY <2>1, <2>4, StagesTo
  <2>. QED BY <1>7, <2>2, <2>3, <2>4 DEF Check
<1>8. ASSUME NEW p \in Procs, Park(p) \/ Remove(p) PROVE Stages'
  <2>1. pc[p] \in Critical /\ file' = None
    BY <1>8 DEF Park, Remove, Critical
  <2>2. PICK to \in {"install", "restore"} : To(p, to)
    BY <1>8 DEF Park, Remove
  <2>. QED BY <2>1, <2>2, StagesTo
<1>9. ASSUME NEW p \in Procs, Install(p) PROVE Stages'
  <2>1. pc[p] = "install" /\ file' = staged[p] /\ To(p, "verify")
    BY <1>9 DEF Install
  <2>2. staged[p] # None
    BY <2>1 DEF Snapshots, Sealed, Importing
  <2>. QED BY <2>1, <2>2, StagesTo DEF Critical
<1>10. ASSUME NEW p \in Procs, Verify(p) PROVE Stages'
  <2>1. pc[p] = "verify" /\ file' = file
    BY <1>10 DEF Verify
  <2>2. file # None
    BY <2>1 DEF Stages
  <2>3. PICK to \in {"discard", "remove"} : To(p, to)
    BY <1>10 DEF Verify
  <2>. QED BY <2>1, <2>2, <2>3, StagesTo
<1>11. ASSUME NEW p \in Procs, Discard(p) \/ Restore(p) \/ FailedInstall(p) PROVE Stages'
  <2>1. pc[p] \in Critical
    BY <1>11 DEF Discard, Restore, FailedInstall, Critical
  <2>. QED BY <1>2, <1>11, <2>1, QuittingSteps
<1>12. ASSUME NEW p \in Procs, Copy(p) PROVE Stages'
  <2>1. file' = file
    BY <1>12 DEF Copy, disk
  <2>2. Quit(p) \/ To(p, "publish")
    BY <1>12 DEF Copy
  <2>. QED BY <1>2, <2>1, <2>2, StagesTo
<1>13. ASSUME NEW p \in Procs, GiveUp(p) \/ Publish(p) \/ Die(p) \/ Fail(p) PROVE Stages'
  <2>1. file' = file
    BY <1>13 DEF GiveUp, Publish, Die, Fail, disk
  <2>. QED BY <1>2, <1>13, <2>1, QuittingSteps
<1>14. ASSUME NEW i \in Parts, Edit(i) \/ \E p \in Procs : Read(p, i) PROVE Stages'
  BY <1>1, <1>14 DEF Edit, Read, disk
<1>15. CASE UNCHANGED vars
  BY <1>1, <1>15 DEF vars, disk
<1>. QED BY <1>3, <1>4, <1>5, <1>6, <1>7, <1>8, <1>9, <1>10, <1>11, <1>12, <1>13, <1>14, <1>15, NextCases

\* The invariant of the exchange.
LEMMA ExchangingHolds == Spec => [](Guarding /\ Reads /\ Honesty /\ Exchanging)
<1>1. Init => Exchanging
  <2>. SUFFICES ASSUME Init PROVE Exchanging
    OBVIOUS
  <2>1. artifact # None => Sealed(artifact)
    BY DEF Init, Sealed
  <2>2. None # "import" /\ None \notin Builders
    BY NoneAssumption DEF Kinds, Guarded, Unguarded, Builders
  <2>. QED BY <2>1, <2>2 DEF Init, Exchanging, Pinned, Snapshots, Stages, Importing
<1>2. Guarding /\ Honesty /\ Exchanging /\ [Next]_vars => Exchanging'
  BY PinnedStep, SnapshotsStep, StagesStep DEF Exchanging
<1>. QED BY <1>1, <1>2, GuardingHolds, HonestyHolds, PTL DEF Spec

\* The phases in which graph.db is being exchanged.
Swapping == {"install", "verify", "discard", "remove", "restore"}

\* The holder of the lock alone exchanges it.
LEMMA ExchangeOf ==
    ASSUME Guarding, NEW p \in Procs, pc[p] \in Critical
    PROVE  Exchange = IF pc[p] \in Swapping THEN pc[p] ELSE "none"
BY DEF Guarding, Exclusion, Exchange, Swapping

\* A step to another phase, under the lock or outside the exchange.
LEMMA ExchangeTo ==
    ASSUME Guarding, NEW p \in Procs, NEW to, To(p, to), lock' = lock
    PROVE  /\ pc[p] \in Critical => Exchange' = IF to \in Swapping THEN to ELSE "none"
           /\ pc[p] \notin Swapping /\ to \notin Swapping => Exchange' = Exchange
<1>1. \A q \in Procs : pc'[q] = IF q = p THEN to ELSE pc[q]
  BY DEF Guarding, TypeOK, To
<1>2. pc[p] \in Critical => lock = p
  BY DEF Guarding, Exclusion
<1>. QED BY <1>1, <1>2 DEF Exchange, Swapping

\* A command that returns ends the exchange, if it was the one that made it.
LEMMA ExchangeQuit ==
    ASSUME Guarding, NEW p \in Procs, Quit(p)
    PROVE  Exchange' = IF pc[p] \in Swapping THEN "none" ELSE Exchange
<1>1. \A q \in Procs : pc'[q] = IF q = p THEN "idle" ELSE pc[q]
  BY DEF Guarding, TypeOK, Quit, To
<1>2. lock' = IF lock = p THEN None ELSE lock
  BY DEF Quit
<1>3. pc[p] \in Swapping => lock = p
  BY DEF Guarding, Exclusion, Swapping, Critical
<1>4. CASE lock = p
  BY <1>2, <1>3, <1>4, NoneFacts DEF Exchange, Swapping
<1>5. CASE lock # p
  BY <1>1, <1>2, <1>3, <1>5 DEF Exchange, Swapping
<1>. QED BY <1>4, <1>5

\* An honest database with a stamp is a whole projection.
LEMMA WholeWhenHonest ==
    ASSUME NEW db \in Databases, Honest(db, source), db.stamp \in Versions
    PROVE  Shared!Whole(db)
<1>1. \A i \in Parts : db.stamp[i] <= db.rows[i] /\ db.rows[i] <= source[i]
  BY NoneFacts DEF Honest
<1>2. db \in Shared!Databases /\ db.stamp \in Shared!Versions
  BY DEF Databases, Versions, Shared!Databases, Shared!Versions
<1>. QED BY <1>1, <1>2 DEF Shared!Whole, Shared!Before

\* What a refresh stores is one, too.
LEMMA CommitIsWhole ==
    ASSUME Guarding, Reads, Pinned, NEW p \in Procs, Commit(p), kind[p] \in Builders
    PROVE  Shared!Whole(Committed(p, file))
<1>. DEFINE db == [rows |-> rows[p], stamp |-> mark[p]]
<1>1. Committed(p, file) = db
  BY DEF Committed
<1>2. rows[p] \in Versions /\ mark[p] \in Versions \cup {Hash}
  BY DEF Guarding, TypeOK, Built, Commit, Versions, Pinned
<1>3. db \in Shared!Databases /\ db.rows = rows[p] /\ db.stamp = mark[p]
  BY <1>2 DEF Versions, Shared!Databases, Shared!Versions
<1>4. \A i \in Parts : rows[p][i] # None
  BY DEF Guarding, Built, Commit
<1>5. Shared!Before(rows[p], source)
  BY <1>4 DEF Reads, Shared!Before
<1>6. mark[p] \in Versions => mark[p] \in Shared!Versions /\ Shared!Before(mark[p], rows[p])
  BY <1>4 DEF Reads, Shared!Before, Versions, Shared!Versions
<1>7. mark[p] = Hash \/ mark[p] \in Versions
  BY <1>2
<1>8. Shared!Whole(db)
  BY <1>3, <1>5, <1>6, <1>7 DEF Shared!Whole
<1>. QED BY <1>1, <1>8

Refining == Guarding /\ Reads /\ Honesty /\ Exchanging

\* A step that changes nothing a reader sees.
LEMMA Unseen ==
    ASSUME UNCHANGED <<source, file, backup, artifact>>, Exchange' = Exchange
    PROVE  UNCHANGED Shared!vars
BY DEF Shared!vars

\* Sources change.
LEMMA EditRefines ==
    ASSUME NEW i \in Parts, Edit(i)
    PROVE  Shared!Edit(i)
<1>1. Exchange' = Exchange
  BY DEF Edit, Exchange
<1>. QED BY <1>1 DEF Edit, disk, Shared!Edit

\* Reading, building, waiting and copying are not seen.
LEMMA PreparingRefines ==
    ASSUME Refining, NEW p \in Procs,
           \/ \E k \in Guarded : Begin(p, k)
           \/ \E i \in Parts : Read(p, i)
           \/ Pin(p) \/ Build(p) \/ Acquire(p) \/ GiveUp(p) \/ Copy(p) \/ Close(p)
    PROVE  UNCHANGED Shared!vars
<1>1. UNCHANGED <<source, file, backup, artifact>>
  BY DEF Begin, Read, Pin, Build, Acquire, GiveUp, Copy, Close, disk
<1>2. CASE Quit(p) /\ (GiveUp(p) \/ Copy(p) \/ Close(p))
  <2>1. pc[p] \notin Swapping
    BY <1>2 DEF GiveUp, Copy, Close, Swapping
  <2>. QED BY <1>1, <1>2, <2>1, ExchangeQuit, Unseen DEF Refining
<1>3. CASE Pin(p) \/ Build(p) \/ (~Quit(p) /\ Copy(p))
  <2>1. PICK to \in {"read", "open", "lock", "publish"} : To(p, to)
    BY <1>3 DEF Pin, Build, Copy
  <2>2. pc[p] \notin Swapping /\ lock' = lock
    BY <1>3 DEF Pin, Build, Copy, Swapping
  <2>3. to \notin Swapping
    BY DEF Swapping
  <2>. QED BY <1>1, <2>1, <2>2, <2>3, ExchangeTo, Unseen DEF Refining
<1>4. ASSUME NEW k \in Guarded, Begin(p, k) PROVE UNCHANGED Shared!vars
  <2>1. To(p, First(k)) /\ First(k) \notin Swapping
    BY <1>4 DEF Begin, First, Guarded, Swapping
  <2>2. pc[p] \notin Swapping /\ lock' = lock
    BY <1>4 DEF Begin, Swapping
  <2>. QED BY <1>1, <2>1, <2>2, ExchangeTo, Unseen DEF Refining
<1>5. ASSUME NEW i \in Parts, Read(p, i) PROVE UNCHANGED Shared!vars
  <2>1. Exchange' = Exchange
    BY <1>5 DEF Read, Exchange
  <2>. QED BY <1>1, <2>1, Unseen
<1>6. CASE Acquire(p)
  <2>1. lock = None /\ lock' = p /\ pc' = [pc EXCEPT ![p] = IF kind[p] = "import" THEN "check" ELSE "open"]
    BY <1>6 DEF Acquire, To
  <2>2. pc'[p] \in {"check", "open"}
    BY <2>1 DEF Refining, Guarding, TypeOK
  <2>3. Exchange = "none" /\ Exchange' = "none"
    BY <2>1, <2>2, NoneFacts DEF Exchange
  <2>. QED BY <1>1, <2>3, Unseen
<1>7. CASE Close(p) /\ ~Quit(p)
  BY <1>7 DEF Close, Refining, Guarding, Exclusion, Unguarded
<1>8. GiveUp(p) => Quit(p)
  BY DEF GiveUp
<1>. QED BY <1>2, <1>3, <1>4, <1>5, <1>6, <1>7, <1>8

\* The first writer creates a missing database, without a projection.
LEMMA OpenRefines ==
    ASSUME Refining, NEW p \in Procs, Open(p)
    PROVE  Shared!Create \/ UNCHANGED Shared!vars
<1>1. pc[p] \in Critical /\ pc[p] \notin Swapping /\ To(p, "commit") /\ lock' = lock
  BY DEF Open, Critical, Swapping
<1>2. Exchange = "none" /\ Exchange' = "none"
  BY <1>1, ExchangeOf, ExchangeTo DEF Refining, Swapping
<1>3. UNCHANGED <<source, backup, artifact>> /\ file' = IF file = None THEN Empty ELSE file
  BY DEF Open
<1>4. Empty = Shared!Unbuilt
  BY DEF Empty, NoVersion, Shared!Unbuilt
<1>. QED BY <1>2, <1>3, <1>4 DEF Shared!Create, Shared!vars

\* A refresh replaces one projection by another; the other commits change neither
\* rows nor stamp.
LEMMA CommitRefines ==
    ASSUME Refining, NEW p \in Procs, Commit(p)
    PROVE  Shared!Store \/ UNCHANGED Shared!vars
<1>1. pc[p] \in Critical /\ pc[p] \notin Swapping /\ To(p, "close") /\ lock' = lock
  BY DEF Commit, Critical, Swapping
<1>2. Exchange = "none" /\ Exchange' = "none"
  BY <1>1, ExchangeOf, ExchangeTo DEF Refining, Swapping
<1>3. conn[p] = "file" /\ file # None
  BY DEF Refining, Guarding, Connections, Commit
<1>4. UNCHANGED <<source, backup, artifact>> /\ file' = Committed(p, file)
  BY <1>3 DEF Commit
<1>5. CASE kind[p] \in Builders
  <2>1. Shared!Whole(file')
    BY <1>4, <1>5, CommitIsWhole DEF Refining, Exchanging
  <2>. QED BY <1>2, <1>3, <1>4, <2>1 DEF Shared!Store
<1>6. CASE kind[p] \notin Builders
  BY <1>2, <1>4, <1>6 DEF Committed, Shared!vars
<1>. QED BY <1>5, <1>6

\* Setting the database aside,
LEMMA SetAsideRefines ==
    ASSUME Refining, NEW p \in Procs, Check(p) \/ Park(p)
    PROVE  Shared!SetAside \/ UNCHANGED Shared!vars
<1>1. pc[p] \in Critical /\ pc[p] \notin Swapping
  BY DEF Check, Park, Critical, Swapping
<1>2. Exchange = "none"
  BY <1>1, ExchangeOf DEF Refining
<1>3. CASE Quit(p) /\ Check(p)
  BY <1>1, <1>3, ExchangeQuit, Unseen DEF Refining, Check, disk
<1>4. CASE Check(p) /\ file = None /\ To(p, "install") /\ lock' = lock
  <2>1. Exchange' = "install"
    BY <1>1, <1>4, ExchangeTo DEF Refining, Swapping
  <2>. QED BY <1>2, <1>4, <2>1 DEF Check, disk, Shared!SetAside
<1>5. CASE Check(p) /\ To(p, "park") /\ lock' = lock
  <2>1. Exchange' = Exchange
    BY <1>1, <1>5, ExchangeTo DEF Refining, Swapping
  <2>. QED BY <1>5, <2>1, Unseen DEF Check, disk
<1>6. CASE Park(p)
  <2>1. file # None /\ backup = None
    BY <1>6 DEF Park, Refining, Guarding, Backups, Exchanging, Stages
  <2>2. Exchange' = "install"
    BY <1>1, <1>6, ExchangeTo DEF Refining, Swapping, Park
  <2>. QED BY <1>2, <1>6, <2>1, <2>2 DEF Park, Shared!SetAside
<1>. QED BY <1>3, <1>4, <1>5, <1>6 DEF Check

\* installing another,
LEMMA InstallRefines ==
    ASSUME Refining, NEW p \in Procs, Install(p)
    PROVE  Shared!Install
<1>1. /\ pc[p] = "install" /\ file' = staged[p] /\ To(p, "verify")
      /\ UNCHANGED <<source, backup, artifact, lock>>
  BY DEF Install
<1>2. Exchange = "install" /\ Exchange' = "verify"
  BY <1>1, ExchangeOf, ExchangeTo DEF Refining, Swapping, Critical
<1>3. Sealed(staged[p]) /\ staged[p] \in Databases
  BY <1>1 DEF Refining, Guarding, TypeOK, Exchanging, Snapshots, Sealed, Importing
<1>4. Honest(staged[p], source) /\ staged[p].stamp = staged[p].rows /\ staged[p].rows \in Versions
  BY <1>3 DEF Refining, Honesty, Sealed, Databases
<1>5. Shared!Whole(staged[p])
  BY <1>3, <1>4, WholeWhenHonest
<1>. QED BY <1>1, <1>2, <1>4, <1>5 DEF Shared!Install

\* and judging it.
LEMMA VerifyRefines ==
    ASSUME Refining, NEW p \in Procs, Verify(p)
    PROVE  Shared!Accept \/ Shared!Reject
<1>1. pc[p] = "verify" /\ UNCHANGED <<source, file, backup, artifact, lock>>
  BY DEF Verify
<1>2. Exchange = "verify"
  BY <1>1, ExchangeOf DEF Refining, Swapping, Critical
<1>3. CASE Fresh(file) /\ To(p, "discard")
  <2>1. Exchange' = "discard"
    BY <1>1, <1>3, ExchangeTo DEF Refining, Swapping, Critical
  <2>2. file = Shared!Current
    BY <1>3, FreshIsSealed DEF Refining, Guarding, TypeOK, Honesty, Shared!Current
  <2>. QED BY <1>1, <1>2, <2>1, <2>2 DEF Shared!Accept
<1>4. CASE To(p, "remove")
  <2>1. Exchange' = "remove"
    BY <1>1, <1>4, ExchangeTo DEF Refining, Swapping, Critical
  <2>. QED BY <1>1, <1>2, <2>1 DEF Shared!Reject
<1>. QED BY <1>3, <1>4 DEF Verify

\* The ends of an exchange.
LEMMA EndRefines ==
    ASSUME Refining, NEW p \in Procs, Discard(p) \/ Remove(p) \/ Restore(p) \/ FailedInstall(p)
    PROVE  Shared!Discard \/ Shared!Remove \/ Shared!Restore
<1>1. pc[p] \in Swapping /\ pc[p] \in Critical
  BY DEF Discard, Remove, Restore, FailedInstall, Swapping, Critical
<1>2. Exchange = pc[p] /\ (Quit(p) => Exchange' = "none")
  BY <1>1, ExchangeOf, ExchangeQuit DEF Refining
<1>3. CASE Discard(p)
  <2>1. Exchange = "discard" /\ Exchange' = "none" /\ backup' \in {None, backup}
    BY <1>2, <1>3 DEF Discard
  <2>. QED BY <1>3, <2>1 DEF Discard, Shared!Discard
<1>4. CASE Remove(p)
  <2>1. Exchange = "remove" /\ Exchange' = "restore"
    BY <1>1, <1>2, <1>4, ExchangeTo DEF Remove, Refining, Swapping
  <2>. QED BY <1>4, <2>1 DEF Remove, Shared!Remove
<1>5. CASE Restore(p) \/ FailedInstall(p)
  <2>1. Exchange \in {"install", "restore"} /\ Exchange' = "none"
    BY <1>2, <1>5 DEF Restore, FailedInstall
  <2>2. file = None
    BY <1>5 DEF Restore, FailedInstall, Refining, Exchanging, Stages
  <2>3. file' = backup /\ backup' = None /\ UNCHANGED <<source, artifact>>
    BY <1>5, <2>2 DEF Restore, FailedInstall
  <2>. QED BY <2>1, <2>3 DEF Shared!Restore
<1>. QED BY <1>3, <1>4, <1>5

\* Exports, failures and deaths.
LEMMA ExportRefines ==
    ASSUME Refining, NEW p \in Procs, Publish(p) \/ Die(p) \/ Fail(p)
    PROVE  Shared!Export \/ Shared!Abandon \/ UNCHANGED Shared!vars
<1>1. UNCHANGED <<source, file, backup>> /\ Quit(p)
  BY DEF Publish, Die, Fail
<1>2. artifact' = artifact \/ (pc[p] = "publish" /\ artifact' \in {None, Shared!Current})
  <2>1. Fresh(staged[p]) => staged[p] = Shared!Current
    BY FreshIsSealed DEF Refining, Guarding, TypeOK, Honesty, Shared!Current
  <2>. QED BY <2>1 DEF Publish, Die, Fail
<1>3. CASE artifact' = artifact /\ pc[p] \in Swapping
  <2>1. Exchange = pc[p] /\ Exchange' = "none"
    BY <1>1, <1>3, ExchangeOf, ExchangeQuit DEF Refining, Swapping, Critical
  <2>2. Exchange # "none"
    BY <1>3, <2>1 DEF Swapping
  <2>. QED BY <1>1, <1>3, <2>1, <2>2 DEF Shared!Abandon
<1>4. CASE pc[p] \notin Swapping
  <2>1. Exchange' = Exchange
    BY <1>1, <1>4, ExchangeQuit DEF Refining
  <2>. QED BY <1>1, <1>2, <2>1, Unseen DEF Shared!Export
<1>5. pc[p] = "publish" => pc[p] \notin Swapping
  BY DEF Swapping
<1>. QED BY <1>2, <1>3, <1>4, <1>5

\* Every step is one of SharedGraph, or is not seen by readers.
LEMMA StepRefines == ASSUME Refining, [Next]_vars PROVE [Shared!Next]_(Shared!vars)
<1>1. CASE UNCHANGED vars
  <2>1. Exchange' = Exchange
    BY <1>1 DEF vars, Exchange
  <2>. QED BY <1>1, <2>1, Unseen DEF vars, disk
<1>2. ASSUME NEW i \in Parts, Edit(i) PROVE Shared!Next
  BY <1>2, EditRefines DEF Shared!Next
<1>3. ASSUME NEW p \in Procs,
             \/ \E k \in Guarded : Begin(p, k)
             \/ \E i \in Parts : Read(p, i)
             \/ Pin(p) \/ Build(p) \/ Acquire(p) \/ GiveUp(p) \/ Copy(p) \/ Close(p)
      PROVE  UNCHANGED Shared!vars
  BY <1>3, PreparingRefines
<1>4. ASSUME NEW p \in Procs, Open(p) \/ Commit(p) \/ Check(p) \/ Park(p) \/ Install(p) \/ Verify(p)
      PROVE  Shared!Next \/ UNCHANGED Shared!vars
  BY <1>4, OpenRefines, CommitRefines, SetAsideRefines, InstallRefines, VerifyRefines DEF Shared!Next
<1>5. ASSUME NEW p \in Procs,
             \/ Discard(p) \/ Remove(p) \/ Restore(p) \/ FailedInstall(p)
             \/ Publish(p) \/ Die(p) \/ Fail(p)
      PROVE  Shared!Next \/ UNCHANGED Shared!vars
  BY <1>5, EndRefines, ExportRefines DEF Shared!Next
<1>. QED BY <1>1, <1>2, <1>3, <1>4, <1>5, NextCases

\* However commands, edits, failures and deaths interleave, readers of graph.db
\* meet whole projections only, and an import accepts nothing but the current
\* one and otherwise puts back what it set aside.
THEOREM GraphDbImplementsSharedGraph == Spec => ImplementsSharedGraph
<1>1. Init => Shared!Init
  <2>. SUFFICES ASSUME Init PROVE Shared!Init
    OBVIOUS
  <2>1. source = [i \in Parts |-> 0] /\ Exchange = "none"
    BY NoneFacts DEF Init, NoVersion, Exchange
  <2>2. artifact \in {None, Shared!Current}
    BY DEF Init, Shared!Current
  <2>. QED BY <2>1, <2>2 DEF Init, Shared!Init
<1>2. Refining /\ [Next]_vars => [Shared!Next]_(Shared!vars)
  BY StepRefines
<1>. QED BY <1>1, <1>2, ExchangingHolds, PTL DEF Spec, ImplementsSharedGraph, Shared!Spec, Refining

=============================================================================
