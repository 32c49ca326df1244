------------------------ MODULE WorktreeStoreProofs ------------------------
(***************************************************************************)
(* Proofs about WorktreeStore, for any callers, names, payloads and bounds *)
(* on the faults: names never refer to partial files, published artifacts  *)
(* never change, success means the caller's bytes are stored, an           *)
(* acknowledged overlay survives a power failure, and the store implements *)
(* ObjectStore.                                                            *)
(***************************************************************************)
EXTENDS WorktreeStore, TLAPS

\* Where a caller holds the lock of its overlay.
Holding == {"stage", "flush", "install", "sync"}

\* What holds of a caller at each point of its call.
Working(c) ==
    /\ pc[c] \in Holding \cup {"settle", "lock"} => dirs[Dir(Path(c))] # "none"
    /\ pc[c] \in Holding /\ IsOverlay(c) => locked[Path(c)] = c
    /\ pc[c] = "lock" => IsOverlay(c)
    /\ pc[c] = "compare" => ~IsOverlay(c) /\ disk[Path(c)] # None
    /\ pc[c] \in {"install", "sync"} => job[c].synced
    /\ pc[c] = "sync" => disk[Path(c)] # None /\ disk[Path(c)].bytes = job[c].bytes

\* A name refers to a file that may be kept, and those are all complete and
\* in a directory.
Stored ==
    \A p \in Paths :
        /\ disk[p] \in kept[p]
        /\ \A f \in kept[p] : f # None => f.synced /\ f.bytes # Torn /\ dirs[Dir(p)] # "none"

\* The files that may be kept for an overlay are current.
Current == \A o \in Overlays : \A f \in kept[o] : Bytes(f) \in {acked[o]} \cup since[o]

Invariant ==
    /\ TypeOK
    /\ \A c \in Callers : Working(c)
    /\ Stored
    /\ Current
    /\ OkIsStored

-----------------------------------------------------------------------------
\* None is no file, no call, no answer and no caller.
LEMMA NoneFacts ==
    /\ None \notin Contents /\ None \notin Jobs /\ None \notin Answers /\ None \notin Callers
    /\ None \notin Payloads /\ None # Torn
BY NamesAssumption, NoneAssumption

\* The parts of a call.
LEMMA JobFacts ==
    ASSUME TypeOK, NEW c \in Callers, pc[c] # "idle"
    PROVE  /\ job[c] \in Jobs /\ Path(c) \in Paths /\ job[c].bytes \in Payloads
           /\ job[c].synced \in BOOLEAN
           /\ Dir(Path(c)) \in {"artifacts", "overlays"}
BY DEF TypeOK, Jobs, Path, Dir

\* Returning keeps the types.
LEMMA ReturnsTypes ==
    ASSUME TypeOK, NEW c \in Callers, NEW ok \in BOOLEAN, pc[c] # "idle", Returns(c, ok),
           dirs' = dirs, disk' = disk
    PROVE  /\ locked' \in [Overlays -> Callers \cup {None}]
           /\ pc' = [pc EXCEPT ![c] = "idle"]
           /\ job' = [job EXCEPT ![c] = None]
           /\ answer' \in [Callers -> Answers \cup {None}]
           /\ \A d \in Callers : job'[d] = None <=> pc'[d] = "idle"
           /\ \A o \in Overlays : locked'[o] # None => job'[locked'[o]] # None /\ job'[locked'[o]].path = o
           /\ \A o \in Overlays, d \in Callers \ {c} : locked[o] = d => locked'[o] = d
<1>1. job[c] \in Jobs
  BY JobFacts
<1>2. [path |-> Path(c), bytes |-> job[c].bytes] \in Answers
  BY <1>1 DEF Jobs, Answers, Path
<1>3. answer' \in [Callers -> Answers \cup {None}]
  BY <1>2 DEF Returns, TypeOK
<1>4. locked' \in [Overlays -> Callers \cup {None}] /\ \A o \in Overlays : locked'[o] = IF locked[o] = c THEN None ELSE locked[o]
  BY DEF Returns, Unlocked, TypeOK
<1>5. /\ pc' = [pc EXCEPT ![c] = "idle"] /\ job' = [job EXCEPT ![c] = None]
      /\ \A d \in Callers : pc'[d] = IF d = c THEN "idle" ELSE pc[d]
      /\ \A d \in Callers : job'[d] = IF d = c THEN None ELSE job[d]
  BY DEF Returns, To, TypeOK
<1>6. \A d \in Callers : job'[d] = None <=> pc'[d] = "idle"
  BY <1>5 DEF TypeOK
<1>7. ASSUME NEW o \in Overlays, locked'[o] # None PROVE job'[locked'[o]] # None /\ job'[locked'[o]].path = o
  BY <1>4, <1>5, <1>7 DEF TypeOK
<1>8. \A o \in Overlays, d \in Callers \ {c} : locked[o] = d => locked'[o] = d
  BY <1>4
<1>. QED BY <1>3, <1>4, <1>5, <1>6, <1>7, <1>8

\* A new call has done nothing yet.
LEMMA BeginStep ==
    ASSUME Invariant, NEW c \in Callers, NEW p \in Paths, NEW b \in Payloads, Begin(c, p, b)
    PROVE  Invariant'
<1>. DEFINE j == [path |-> p, bytes |-> b, synced |-> FALSE]
<1>1. j \in Jobs /\ j # None
  <2>1. j \in Jobs
    BY DEF Jobs
  <2>. QED BY <2>1, NoneFacts
<1>2. /\ pc[c] = "idle" /\ job[c] = None
      /\ job' = [job EXCEPT ![c] = j]
      /\ pc' = [pc EXCEPT ![c] = IF p \in Artifacts /\ disk[p] # None THEN "compare" ELSE "inspect"]
      /\ answer' = [answer EXCEPT ![c] = None]
      /\ UNCHANGED <<dirs, disk, kept, locked, acked, since, stops, boots>>
  BY DEF Begin, At, To, files, history, Invariant, TypeOK
<1>3. TypeOK'
  BY <1>1, <1>2 DEF Invariant, TypeOK
<1>4. ASSUME NEW d \in Callers PROVE Working(d)'
  <2>1. CASE d # c
    BY <1>2, <2>1 DEF Invariant, TypeOK, Working, Path, IsOverlay
  <2>2. CASE d = c
    <3>1. Path(c)' = p /\ pc'[c] \in {"compare", "inspect"}
      BY <1>2 DEF Invariant, TypeOK, Path
    <3>2. pc'[c] = "compare" => p \notin Overlays /\ disk'[p] # None
      BY <1>2, NamesAssumption DEF Invariant, TypeOK
    <3>. QED BY <2>2, <3>1, <3>2 DEF Working, IsOverlay, Holding
  <2>. QED BY <2>1, <2>2
<1>5. OkIsStored'
  BY <1>2 DEF Invariant, TypeOK, OkIsStored, Bytes
<1>. QED BY <1>2, <1>3, <1>4, <1>5 DEF Invariant, Stored, Current


\* A caller's claims survive the step of another: directories are not removed,
\* published artifacts do not change and only the holder replaces an overlay.
LEMMA OthersWork ==
    ASSUME Invariant, NEW d \in Callers,
           pc'[d] = pc[d], job'[d] = job[d],
           \A o \in Overlays : locked[o] = d => locked'[o] = d,
           \A x \in {"artifacts", "overlays"} : dirs[x] # "none" => dirs'[x] # "none",
           \A p \in Paths : \/ disk'[p] = disk[p]
                            \/ p \in Artifacts /\ disk[p] = None
                            \/ p \in Overlays /\ locked[p] # d
    PROVE  Working(d)'
<1>1. CASE pc[d] = "idle"
  BY <1>1 DEF Working, Holding
<1>2. CASE pc[d] # "idle"
  <2>1. /\ Path(d) \in Paths /\ Dir(Path(d)) \in {"artifacts", "overlays"} /\ Path(d)' = Path(d)
        /\ IsOverlay(d)' = IsOverlay(d)
    BY <1>2, JobFacts DEF Invariant, Path, IsOverlay
  <2>2. Working(d)
    BY DEF Invariant
  <2>3. pc[d] \in {"compare", "sync"} => disk'[Path(d)] = disk[Path(d)]
    BY <2>1, <2>2, NamesAssumption DEF Working, IsOverlay, Holding, Paths
  <2>. QED BY <2>1, <2>2, <2>3 DEF Working, IsOverlay
<1>. QED BY <1>1, <1>2

\* A caller that moves on without touching what others see.
LEMMA MoveStep ==
    ASSUME Invariant, NEW c \in Callers, pc[c] # "idle",
           NEW l \in {"create", "lock", "stage", "flush", "install", "compare"}, To(c, l),
           NEW j \in Jobs, job' = [job EXCEPT ![c] = j], j.path = Path(c),
           NEW k \in [Overlays -> Callers \cup {None}], locked' = k,
           \A o \in Overlays : k[o] = locked[o] \/ (locked[o] = None /\ k[o] = c /\ o = Path(c)),
           UNCHANGED <<files, answer, history, stops, boots>>, Working(c)'
    PROVE  Invariant'
<1>1. /\ pc' = [pc EXCEPT ![c] = l] /\ UNCHANGED <<dirs, disk, kept, acked, since>>
      /\ j # None
  BY NoneFacts DEF To, files, history
<1>2. TypeOK'
  <2>1. \A d \in Callers : job'[d] = None <=> pc'[d] = "idle"
    BY <1>1 DEF Invariant, TypeOK
  <2>2. ASSUME NEW o \in Overlays, locked'[o] # None
        PROVE  job'[locked'[o]] # None /\ job'[locked'[o]].path = o
    <3>1. CASE locked'[o] = c
      <4>1. job[c] # None /\ Path(c) = o
        BY <3>1, NoneFacts DEF Invariant, TypeOK, Path
      <4>. QED BY <1>1, <3>1, <4>1 DEF Invariant, TypeOK
    <3>2. CASE locked'[o] # c
      BY <2>2, <3>2 DEF Invariant, TypeOK
    <3>. QED BY <3>1, <3>2
  <2>. QED BY <1>1, <2>1, <2>2 DEF Invariant, TypeOK
<1>3. ASSUME NEW d \in Callers, d # c PROVE Working(d)'
  <2>1. pc'[d] = pc[d] /\ job'[d] = job[d]
    BY <1>1, <1>3 DEF Invariant, TypeOK
  <2>2. \A o \in Overlays : locked[o] = d => locked'[o] = d
    BY <1>3, NoneFacts
  <2>. QED BY <1>1, <2>1, <2>2, OthersWork
<1>4. OkIsStored'
  BY <1>1 DEF Invariant, OkIsStored, Bytes
<1>. QED BY <1>1, <1>2, <1>3, <1>4 DEF Invariant, Stored, Current

\* ensure_parent looks at the directory.
LEMMA InspectStep == ASSUME Invariant, NEW c \in Callers, Inspect(c) PROVE Invariant'
<1>1. /\ pc[c] = "inspect" /\ job[c] \in Jobs /\ job[c].path = Path(c)
      /\ UNCHANGED <<files, locked, job, answer, history, stops, boots>>
      /\ locked \in [Overlays -> Callers \cup {None}]
      /\ job' = [job EXCEPT ![c] = job[c]]
  BY JobFacts DEF Inspect, At, Invariant, TypeOK, Path
<1>2. DEFINE l == IF dirs[Dir(Path(c))] = "none" THEN "create" ELSE Ensured(c)
<1>3. l \in {"create", "lock", "stage"} /\ To(c, l)
  BY DEF Inspect, Ensured
<1>4. Working(c)'
  <2>1. pc'[c] = l /\ Path(c)' = Path(c) /\ dirs' = dirs
    BY <1>1, <1>3 DEF To, files, Invariant, TypeOK, Path
  <2>. QED BY <1>3, <2>1 DEF Working, IsOverlay, Ensured, Holding
<1>. QED BY <1>1, <1>3, <1>4, MoveStep

\* Staging, syncing the temporary file, losing the race for the name, and
\* taking the lock move the caller on.
LEMMA PlainStep ==
    ASSUME Invariant, NEW c \in Callers,
           Stage(c) \/ Flush(c) \/ LosePublish(c) \/ Lock(c)
    PROVE  Invariant'
<1>1. /\ pc[c] # "idle" /\ job[c] \in Jobs /\ job[c].path = Path(c) /\ Working(c)
      /\ Path(c) \in Paths
      /\ locked \in [Overlays -> Callers \cup {None}] /\ job \in [Callers -> Jobs \cup {None}]
      /\ pc \in [Callers -> {"idle", "inspect", "create", "settle", "lock", "stage", "flush",
                             "install", "sync", "compare"}]
  BY JobFacts DEF Invariant, TypeOK, Stage, Flush, LosePublish, Lock, At, Path
<1>2. job' = job => job' = [job EXCEPT ![c] = job[c]]
  BY <1>1
<1>3. CASE Stage(c)
  <2>1. /\ To(c, "flush") /\ pc[c] = "stage"
        /\ UNCHANGED <<files, locked, job, answer, history, stops, boots>>
    BY <1>3 DEF Stage, At
  <2>2. pc'[c] = "flush" /\ Path(c)' = Path(c) /\ dirs' = dirs /\ locked' = locked
    BY <1>1, <2>1 DEF To, files, Path
  <2>3. Working(c)'
    BY <1>1, <2>1, <2>2 DEF Working, IsOverlay, Holding
  <2>. QED BY <1>1, <1>2, <2>1, <2>3, MoveStep
<1>4. CASE Flush(c)
  <2>. DEFINE j == Flushed(job[c])
  <2>1. /\ To(c, "install") /\ pc[c] = "flush" /\ job' = [job EXCEPT ![c] = j]
        /\ UNCHANGED <<files, locked, answer, history, stops, boots>>
    BY <1>4 DEF Flush, At
  <2>2. j \in Jobs /\ j.path = Path(c) /\ j.synced
    BY <1>1 DEF Flushed, Jobs
  <2>3. pc'[c] = "install" /\ Path(c)' = Path(c) /\ dirs' = dirs /\ locked' = locked /\ job'[c] = j
    BY <1>1, <2>1, <2>2 DEF To, files, Path
  <2>4. Working(c)'
    BY <1>1, <2>1, <2>2, <2>3 DEF Working, IsOverlay, Holding
  <2>. QED BY <1>1, <2>1, <2>2, <2>4, MoveStep
<1>5. CASE LosePublish(c)
  <2>1. /\ To(c, "compare") /\ ~IsOverlay(c) /\ disk[Path(c)] # None
        /\ UNCHANGED <<files, locked, job, answer, history, stops, boots>>
    BY <1>5 DEF LosePublish, MayInstall
  <2>2. pc'[c] = "compare" /\ Path(c)' = Path(c) /\ disk' = disk
    BY <1>1, <2>1 DEF To, files, Path
  <2>3. Working(c)'
    BY <2>1, <2>2 DEF Working, IsOverlay, Holding
  <2>. QED BY <1>1, <1>2, <2>1, <2>3, MoveStep
<1>6. CASE Lock(c)
  <2>1. /\ To(c, "stage") /\ pc[c] = "lock" /\ IsOverlay(c) /\ locked[Path(c)] = None
        /\ locked' = [locked EXCEPT ![Path(c)] = c]
        /\ UNCHANGED <<files, job, answer, history, stops, boots>>
    BY <1>1, <1>6 DEF Lock, At, Working
  <2>2. Path(c) \in Overlays
    BY <2>1 DEF IsOverlay
  <2>3. /\ locked' \in [Overlays -> Callers \cup {None}] /\ locked'[Path(c)] = c
        /\ \A o \in Overlays : locked'[o] = locked[o] \/ (locked[o] = None /\ locked'[o] = c /\ o = Path(c))
    BY <1>1, <2>1, <2>2
  <2>4. pc'[c] = "stage" /\ Path(c)' = Path(c) /\ dirs' = dirs
    BY <1>1, <2>1 DEF To, files, Path
  <2>5. Working(c)'
    BY <1>1, <2>1, <2>3, <2>4 DEF Working, IsOverlay, Holding
  <2>. QED BY <1>1, <1>2, <2>1, <2>3, <2>5, MoveStep
<1>. QED BY <1>3, <1>4, <1>5, <1>6

\* Creating and syncing a directory takes none away.
LEMMA DirectoryStep ==
    ASSUME Invariant, NEW c \in Callers, Create(c) \/ Settle(c) PROVE Invariant'
<1>. DEFINE d == Dir(Path(c))
            l == IF Create(c) THEN "settle" ELSE Ensured(c)
<1>1. /\ pc[c] # "idle" /\ job[c] \in Jobs /\ Path(c) \in Paths /\ d \in {"artifacts", "overlays"}
      /\ TypeOK
  BY JobFacts DEF Invariant, Create, Settle, At
<1>2. /\ pc' = [pc EXCEPT ![c] = l] /\ l \in {"settle", "lock", "stage"}
      /\ UNCHANGED <<disk, kept, locked, job, answer, acked, since, stops, boots>>
      /\ \E x \in {"new", "kept"} : dirs' = [dirs EXCEPT ![d] = x]
  <2>1. dirs[d] \in {"none", "new", "kept"}
    BY <1>1 DEF TypeOK
  <2>2. CASE Create(c)
    BY <2>1, <2>2 DEF Create, To, history
  <2>3. CASE ~Create(c)
    BY <2>3 DEF Settle, To, history, Ensured
  <2>. QED BY <2>2, <2>3
<1>3. PICK x \in {"new", "kept"} : dirs' = [dirs EXCEPT ![d] = x]
  BY <1>2
<1>4. /\ \A y \in {"artifacts", "overlays"} : dirs[y] # "none" => dirs'[y] # "none"
      /\ dirs'[d] # "none"
      /\ dirs' \in [{"artifacts", "overlays"} -> {"none", "new", "kept"}]
  BY <1>1, <1>3 DEF TypeOK
<1>5. TypeOK'
  <2>1. pc' \in [Callers -> {"idle", "inspect", "create", "settle", "lock", "stage", "flush",
                             "install", "sync", "compare"}]
        /\ \A e \in Callers : job'[e] = None <=> pc'[e] = "idle"
    BY <1>1, <1>2 DEF TypeOK
  <2>2. \A p \in Paths : disk'[p] # None => dirs'[Dir(p)] # "none"
    BY <1>1, <1>2, <1>4 DEF TypeOK, Dir
  <2>. QED BY <1>1, <1>2, <1>4, <2>1, <2>2 DEF TypeOK
<1>6. ASSUME NEW e \in Callers PROVE Working(e)'
  <2>1. CASE e # c
    <3>1. pc'[e] = pc[e]
      BY <1>1, <1>2, <2>1 DEF TypeOK
    <3>. QED BY <1>2, <1>4, <3>1, OthersWork
  <2>2. CASE e = c
    <3>1. pc'[c] = l /\ Path(c)' = Path(c) /\ IsOverlay(c)' = IsOverlay(c) /\ Dir(Path(c))' = d
      BY <1>1, <1>2 DEF TypeOK, Path, IsOverlay
    <3>2. l = "stage" => ~IsOverlay(c)
      BY DEF Ensured
    <3>3. l = "lock" => IsOverlay(c)
      BY DEF Ensured
    <3>. QED BY <1>2, <1>4, <2>2, <3>1, <3>2, <3>3 DEF Working, Holding
  <2>. QED BY <2>1, <2>2
<1>7. OkIsStored'
  BY <1>2 DEF Invariant, OkIsStored, Bytes
<1>8. Stored'
  BY <1>2, <1>4 DEF Invariant, Stored, Dir
<1>. QED BY <1>2, <1>5, <1>6, <1>7, <1>8 DEF Invariant, Current

\* A synced temporary file takes the name of an overlay whose lock is held,
\* or the free name of an artifact.
LEMMA NameStep ==
    ASSUME Invariant, NEW c \in Callers, Replace(c) \/ Publish(c) PROVE Invariant'
<1>. DEFINE p == Path(c)
            f == [bytes |-> job[c].bytes, synced |-> job[c].synced]
<1>1. /\ pc[c] = "install" /\ job[c] \in Jobs /\ p \in Paths /\ job[c].bytes \in Payloads
      /\ job[c].synced \in BOOLEAN /\ job[c].synced /\ Working(c) /\ TypeOK
      /\ Dir(p) \in {"artifacts", "overlays"} /\ dirs[Dir(p)] # "none"
  BY JobFacts DEF Invariant, Replace, Publish, At, Working, Holding
<1>2. f \in Contents /\ f # None /\ f.synced /\ f.bytes # Torn /\ f.bytes = job[c].bytes
  <2>1. f \in Contents
    BY <1>1 DEF Contents
  <2>2. f.bytes # Torn
    BY <1>1, NamesAssumption
  <2>. QED BY <1>1, <2>1, <2>2, NoneFacts
<1>3. /\ disk' = [disk EXCEPT ![p] = f] /\ kept' = [kept EXCEPT ![p] = kept[p] \cup {f}]
      /\ pc' = [pc EXCEPT ![c] = "sync"]
      /\ UNCHANGED <<dirs, locked, job, answer, acked, stops, boots>>
      /\ since' = IF p \in Overlays THEN [since EXCEPT ![p] = since[p] \cup {job[c].bytes}] ELSE since
  BY DEF Replace, Publish, Named, To, IsOverlay
<1>4. p \in Artifacts => disk[p] = None
  BY NamesAssumption DEF Replace, Publish, IsOverlay, MayInstall
<1>5. /\ \A q \in Paths : disk'[q] = IF q = p THEN f ELSE disk[q]
      /\ \A q \in Paths : kept'[q] = IF q = p THEN kept[p] \cup {f} ELSE kept[q]
  BY <1>1, <1>3 DEF TypeOK
<1>6. TypeOK'
  <2>1. since' \in [Overlays -> SUBSET Payloads]
    BY <1>1, <1>3 DEF TypeOK
  <2>2. /\ disk' \in [Paths -> Contents \cup {None}]
        /\ kept' \in [Paths -> SUBSET (Contents \cup {None})]
    BY <1>1, <1>2, <1>3 DEF TypeOK
  <2>3. \A q \in Paths : disk'[q] # None => dirs'[Dir(q)] # "none"
    BY <1>1, <1>3, <1>5 DEF TypeOK
  <2>4. pc' \in [Callers -> {"idle", "inspect", "create", "settle", "lock", "stage", "flush",
                             "install", "sync", "compare"}]
        /\ \A e \in Callers : job'[e] = None <=> pc'[e] = "idle"
    BY <1>1, <1>3 DEF TypeOK
  <2>. QED BY <1>1, <1>3, <2>1, <2>2, <2>3, <2>4 DEF TypeOK
<1>7. ASSUME NEW e \in Callers PROVE Working(e)'
  <2>1. CASE e # c
    <3>1. pc'[e] = pc[e]
      BY <1>1, <1>3, <2>1 DEF TypeOK
    <3>2. p \in Overlays => locked[p] # e
      BY <1>1, <2>1 DEF Working, IsOverlay, Holding
    <3>3. p \in Artifacts \/ p \in Overlays
      BY <1>1 DEF Paths
    <3>. QED BY <1>3, <1>4, <1>5, <3>1, <3>2, <3>3, OthersWork
  <2>2. CASE e = c
    <3>1. pc'[c] = "sync" /\ p' = p /\ IsOverlay(c)' = IsOverlay(c) /\ job' = job
      BY <1>1, <1>3 DEF TypeOK, Path, IsOverlay
    <3>2. disk'[p] # None /\ disk'[p].bytes = job[c].bytes
      BY <1>1, <1>2, <1>5
    <3>. QED BY <1>1, <1>3, <2>2, <3>1, <3>2 DEF Working, Holding
  <2>. QED BY <2>1, <2>2
<1>8. Stored'
  <2>. SUFFICES ASSUME NEW q \in Paths
                PROVE  /\ disk'[q] \in kept'[q]
                       /\ \A g \in kept'[q] : g # None => g.synced /\ g.bytes # Torn /\ dirs'[Dir(q)] # "none"
    BY DEF Stored, Dir
  <2>. QED BY <1>1, <1>2, <1>3, <1>5 DEF Invariant, Stored
<1>9. Current'
  <2>. SUFFICES ASSUME NEW o \in Overlays, NEW g \in kept'[o]
                PROVE  Bytes(g) \in {acked'[o]} \cup since'[o]
    BY DEF Current
  <2>1. o \in Paths
    BY DEF Paths
  <2>2. since[o] \subseteq since'[o] /\ (o = p => job[c].bytes \in since'[o])
    BY <1>1, <1>3 DEF TypeOK
  <2>3. CASE g \in kept[o]
    BY <1>3, <2>2, <2>3 DEF Invariant, Current
  <2>4. CASE g \notin kept[o]
    <3>1. o = p /\ g = f
      BY <1>5, <2>1, <2>4
    <3>. QED BY <1>2, <2>2, <3>1 DEF Bytes
  <2>. QED BY <2>3, <2>4
<1>10. OkIsStored'
  <2>. SUFFICES ASSUME NEW e \in Callers, answer'[e] # None, answer'[e].path \in Artifacts
                PROVE  Bytes(disk'[answer'[e].path]) = answer'[e].bytes
    BY DEF OkIsStored, Bytes
  <2>1. answer[e] = answer'[e] /\ answer[e] \in Answers
    BY <1>1, <1>3 DEF TypeOK
  <2>2. Bytes(disk[answer[e].path]) = answer[e].bytes /\ answer[e].path \in Paths
        /\ answer[e].bytes # None
    BY <2>1, NoneFacts DEF Invariant, OkIsStored, Answers
  <2>3. answer[e].path # p
    BY <1>4, <2>1, <2>2 DEF Bytes
  <2>. QED BY <1>5, <2>1, <2>2, <2>3
<1>. QED BY <1>6, <1>7, <1>8, <1>9, <1>10 DEF Invariant

\* A call that ends leaves the others' claims alone.
LEMMA ReturnsWork ==
    ASSUME Invariant, NEW c \in Callers, NEW ok \in BOOLEAN, pc[c] # "idle", Returns(c, ok),
           UNCHANGED <<dirs, disk>>
    PROVE  \A e \in Callers : Working(e)'
<1>1. TypeOK
  BY DEF Invariant
<1>2. /\ pc' = [pc EXCEPT ![c] = "idle"] /\ job' = [job EXCEPT ![c] = None]
      /\ \A o \in Overlays, d \in Callers \ {c} : locked[o] = d => locked'[o] = d
  BY <1>1, ReturnsTypes
<1>3. ASSUME NEW e \in Callers PROVE Working(e)'
  <2>1. CASE e # c
    <3>1. pc'[e] = pc[e] /\ job'[e] = job[e]
      BY <1>1, <1>2, <2>1 DEF TypeOK
    <3>. QED BY <1>2, <2>1, <3>1, OthersWork
  <2>2. CASE e = c
    <3>1. pc'[c] = "idle"
      BY <1>1, <1>2 DEF TypeOK
    <3>. QED BY <2>2, <3>1 DEF Working, Holding
  <2>. QED BY <2>1, <2>2
<1>. QED BY <1>3

\* A call that returns an error, or whose process is killed, claims nothing.
LEMMA StopStep == ASSUME Invariant, NEW c \in Callers, Stop(c) PROVE Invariant'
<1>1. /\ TypeOK /\ pc[c] # "idle" /\ Returns(c, FALSE) /\ stops' = stops + 1 /\ stops < MaxStops
      /\ UNCHANGED <<dirs, disk, kept, acked, since, boots>>
  BY DEF Invariant, Stop, At, files, history
<1>2. stops' \in 0 .. MaxStops
  BY <1>1, NamesAssumption DEF TypeOK
<1>3. TypeOK'
  <2>1. /\ locked' \in [Overlays -> Callers \cup {None}]
        /\ pc' = [pc EXCEPT ![c] = "idle"] /\ job' = [job EXCEPT ![c] = None]
        /\ answer' \in [Callers -> Answers \cup {None}]
        /\ \A d \in Callers : job'[d] = None <=> pc'[d] = "idle"
        /\ \A o \in Overlays : locked'[o] # None => job'[locked'[o]] # None /\ job'[locked'[o]].path = o
    BY <1>1, ReturnsTypes
  <2>. QED BY <1>1, <1>2, <2>1 DEF TypeOK
<1>4. OkIsStored'
  BY <1>1 DEF Invariant, TypeOK, OkIsStored, Returns, Bytes
<1>. QED BY <1>1, <1>3, <1>4, ReturnsWork DEF Invariant, Stored, Current

\* Comparing with the published bytes decides what the call returns.
LEMMA CompareStep == ASSUME Invariant, NEW c \in Callers, Compare(c) PROVE Invariant'
<1>1. /\ TypeOK /\ pc[c] # "idle" /\ Returns(c, Matches(c)) /\ Matches(c) \in BOOLEAN
      /\ UNCHANGED <<dirs, disk, kept, acked, since, stops, boots>>
      /\ disk[Path(c)] # None
  BY DEF Invariant, Compare, At, files, history, Matches, Working
<1>2. TypeOK'
  BY <1>1, ReturnsTypes DEF TypeOK
<1>3. OkIsStored'
  <2>. SUFFICES ASSUME NEW e \in Callers, answer'[e] # None, answer'[e].path \in Artifacts
                PROVE  Bytes(disk[answer'[e].path]) = answer'[e].bytes
    BY <1>1 DEF OkIsStored, Bytes
  <2>1. CASE e # c
    <3>1. answer'[e] = answer[e]
      BY <1>1, <2>1 DEF Returns, TypeOK
    <3>. QED BY <3>1 DEF Invariant, OkIsStored
  <2>2. CASE e = c
    <3>1. Matches(c) /\ answer'[c] = [path |-> Path(c), bytes |-> job[c].bytes]
      BY <1>1, <2>2 DEF Returns, TypeOK
    <3>. QED BY <1>1, <2>2, <3>1 DEF Matches, Bytes
  <2>. QED BY <2>1, <2>2
<1>. QED BY <1>1, <1>2, <1>3, ReturnsWork DEF Invariant, Stored, Current

\* Syncing the directory leaves each name what it refers to; the overlay that
\* is acknowledged is the one that is there, because its lock is held.
LEMMA FinishStep == ASSUME Invariant, NEW c \in Callers, Finish(c) PROVE Invariant'
<1>. DEFINE p == Path(c)
            d == Dir(p)
<1>1. /\ TypeOK /\ pc[c] = "sync" /\ pc[c] # "idle" /\ Returns(c, TRUE) /\ TRUE \in BOOLEAN
      /\ UNCHANGED <<dirs, disk, stops, boots>>
      /\ kept' = [q \in Paths |-> IF Dir(q) = d THEN {disk[q]} ELSE kept[q]]
      /\ disk[p] # None /\ disk[p].bytes = job[c].bytes
      /\ job[c].bytes \in Payloads /\ p \in Paths
  BY JobFacts DEF Invariant, Finish, At, Synced, Working
<1>3. /\ acked' = IF p \in Overlays THEN [acked EXCEPT ![p] = job[c].bytes] ELSE acked
      /\ since' = IF p \in Overlays THEN [since EXCEPT ![p] = {}] ELSE since
  BY DEF Finish, IsOverlay, history
<1>4. \A q \in Paths : kept'[q] \subseteq kept[q] /\ disk[q] \in kept'[q]
  BY <1>1 DEF Invariant, Stored
<1>5. TypeOK'
  <2>1. acked' \in [Overlays -> Payloads \cup {Torn, None}] /\ since' \in [Overlays -> SUBSET Payloads]
    BY <1>1, <1>3 DEF TypeOK
  <2>2. kept' \in [Paths -> SUBSET (Contents \cup {None})]
    BY <1>1, <1>4 DEF TypeOK
  <2>3. /\ locked' \in [Overlays -> Callers \cup {None}]
        /\ pc' = [pc EXCEPT ![c] = "idle"] /\ job' = [job EXCEPT ![c] = None]
        /\ answer' \in [Callers -> Answers \cup {None}]
        /\ \A e \in Callers : job'[e] = None <=> pc'[e] = "idle"
        /\ \A o \in Overlays : locked'[o] # None => job'[locked'[o]] # None /\ job'[locked'[o]].path = o
    BY <1>1, ReturnsTypes
  <2>. QED BY <1>1, <2>1, <2>2, <2>3 DEF TypeOK
<1>6. Stored'
  BY <1>1, <1>4 DEF Invariant, Stored
<1>7. Current'
  <2>. SUFFICES ASSUME NEW o \in Overlays, NEW g \in kept'[o]
                PROVE  Bytes(g) \in {acked'[o]} \cup since'[o]
    BY DEF Current
  <2>1. o \in Paths /\ g \in kept[o]
    BY <1>4 DEF Paths
  <2>2. CASE o = p
    <3>1. g = disk[p] /\ acked'[o] = job[c].bytes
      BY <1>1, <1>3, <2>1, <2>2 DEF TypeOK
    <3>. QED BY <1>1, <3>1 DEF Bytes
  <2>3. CASE o # p
    <3>1. acked'[o] = acked[o] /\ since'[o] = since[o]
      BY <1>1, <1>3, <2>3 DEF TypeOK
    <3>. QED BY <2>1, <3>1 DEF Invariant, Current
  <2>. QED BY <2>2, <2>3
<1>8. OkIsStored'
  <2>. SUFFICES ASSUME NEW e \in Callers, answer'[e] # None, answer'[e].path \in Artifacts
                PROVE  Bytes(disk[answer'[e].path]) = answer'[e].bytes
    BY <1>1 DEF OkIsStored, Bytes
  <2>1. CASE e # c
    <3>1. answer'[e] = answer[e]
      BY <1>1, <2>1 DEF Returns, TypeOK
    <3>. QED BY <3>1 DEF Invariant, OkIsStored
  <2>2. CASE e = c
    <3>1. answer'[c] = [path |-> p, bytes |-> job[c].bytes]
      BY <1>1, <2>2 DEF Returns, TypeOK
    <3>. QED BY <1>1, <2>2, <3>1 DEF Bytes
  <2>. QED BY <2>1, <2>2
<1>. QED BY <1>1, <1>5, <1>6, <1>7, <1>8, ReturnsWork DEF Invariant

\* What a power failure leaves was synced and is complete.
LEMMA PowerStep ==
    ASSUME Invariant, NEW lost \in SUBSET {"artifacts", "overlays"},
           NEW left \in [Paths -> UNION {kept[p] : p \in Paths} \cup {None}],
           PowerFails(lost, left)
    PROVE  Invariant'
<1>1. ASSUME NEW p \in Paths
      PROVE  /\ left[p] \in Contents \cup {None} /\ Left(left[p]) = left[p]
             /\ left[p] # None => left[p].synced /\ left[p].bytes # Torn
             /\ left[p] # None => Dir(p) \notin lost /\ left[p] \in kept[p]
  <2>1. left[p] \in kept[p] \/ left[p] = None
    BY DEF PowerFails
  <2>2. left[p] \in Contents \cup {None}
    BY <2>1 DEF Invariant, TypeOK
  <2>3. left[p] # None => left[p].synced /\ left[p].bytes # Torn
    BY <2>1 DEF Invariant, Stored
  <2>4. left[p] # None => Dir(p) \notin lost
    BY DEF PowerFails
  <2>. QED BY <2>1, <2>2, <2>3, <2>4 DEF Left
<1>2. /\ disk' = [p \in Paths |-> left[p]] /\ kept' = [p \in Paths |-> {left[p]}]
      /\ acked' = [o \in Overlays |-> Bytes(left[o])]
      /\ locked' = [o \in Overlays |-> None] /\ pc' = [c \in Callers |-> "idle"]
      /\ job' = [c \in Callers |-> None] /\ answer' = [c \in Callers |-> None]
      /\ since' = [o \in Overlays |-> {}]
  <2>1. \A o \in Overlays : o \in Paths
    BY DEF Paths
  <2>. QED BY <1>1, <2>1 DEF PowerFails
<1>3. dirs' \in [{"artifacts", "overlays"} -> {"none", "new", "kept"}]
  BY DEF PowerFails, Invariant, TypeOK
<1>4. ASSUME NEW p \in Paths, disk'[p] # None PROVE dirs'[Dir(p)] # "none"
  <2>1. Dir(p) \notin lost /\ left[p] \in kept[p] /\ left[p] # None /\ Dir(p) \in {"artifacts", "overlays"}
    BY <1>1, <1>2, <1>4 DEF Dir
  <2>2. dirs[Dir(p)] # "none"
    BY <2>1 DEF Invariant, Stored
  <2>. QED BY <2>1, <2>2 DEF PowerFails, Invariant, TypeOK
<1>5. TypeOK'
  <2>1. boots' \in 0 .. MaxBoots /\ stops' = stops
    BY NamesAssumption DEF PowerFails, Invariant, TypeOK
  <2>2. acked' \in [Overlays -> Payloads \cup {Torn, None}]
    BY <1>1, <1>2 DEF Paths, Bytes, Contents
  <2>3. disk' \in [Paths -> Contents \cup {None}] /\ kept' \in [Paths -> SUBSET (Contents \cup {None})]
    BY <1>1, <1>2
  <2>. QED BY <1>2, <1>3, <1>4, <2>1, <2>2, <2>3 DEF Invariant, TypeOK
<1>6. \A c \in Callers : Working(c)'
  BY <1>2 DEF Working, Holding
<1>7. Stored' /\ Current' /\ OkIsStored'
  <2>1. Stored'
    BY <1>1, <1>2, <1>4 DEF Stored, Dir
  <2>2. Current'
    BY <1>2 DEF Current, Paths, Bytes
  <2>3. OkIsStored'
    BY <1>2 DEF OkIsStored
  <2>. QED BY <2>1, <2>2, <2>3
<1>. QED BY <1>5, <1>6, <1>7 DEF Invariant

\* A new store, or one whose directories are there.
LEMMA InitInvariant == Init => Invariant
<1>. SUFFICES ASSUME Init PROVE Invariant
  OBVIOUS
<1>1. TypeOK
  BY NamesAssumption DEF Init, TypeOK
<1>2. \A c \in Callers : Working(c)
  BY DEF Init, Working, Holding
<1>3. Stored /\ Current /\ OkIsStored
  BY DEF Init, Stored, Current, OkIsStored, Paths, Bytes
<1>. QED BY <1>1, <1>2, <1>3 DEF Invariant

\* Every step keeps the invariant.
LEMMA StepInvariant == Invariant /\ [Next]_vars => Invariant'
<1>. SUFFICES ASSUME Invariant, [Next]_vars PROVE Invariant'
  OBVIOUS
<1>1. CASE UNCHANGED vars
  <2>1. UNCHANGED <<dirs, disk, kept, locked, pc, job, answer, acked, since, stops, boots>>
    BY <1>1 DEF vars
  <2>2. TypeOK'
    BY <2>1 DEF Invariant, TypeOK
  <2>3. \A c \in Callers : Working(c)'
    BY <2>1 DEF Invariant, Working, Path, IsOverlay
  <2>. QED BY <2>1, <2>2, <2>3 DEF Invariant, Stored, Current, OkIsStored, Bytes
<1>2. ASSUME NEW c \in Callers, NEW p \in Paths, NEW b \in Payloads, Begin(c, p, b) PROVE Invariant'
  BY <1>2, BeginStep
<1>3. ASSUME NEW c \in Callers, Step(c) PROVE Invariant'
  BY <1>3, InspectStep, DirectoryStep, PlainStep, NameStep, FinishStep, CompareStep DEF Step
<1>4. ASSUME NEW c \in Callers, Lock(c) \/ Stop(c) PROVE Invariant'
  BY <1>4, PlainStep, StopStep
<1>5. ASSUME NEW lost \in SUBSET {"artifacts", "overlays"},
             NEW left \in [Paths -> UNION {kept[p] : p \in Paths} \cup {None}],
             PowerFails(lost, left)
      PROVE  Invariant'
  BY <1>5, PowerStep
<1>. QED BY <1>1, <1>2, <1>3, <1>4, <1>5 DEF Next

\* The invariant that the theorems below share.
LEMMA AlwaysInvariant == Spec => []Invariant
BY InitInvariant, StepInvariant, PTL DEF Spec

-----------------------------------------------------------------------------
(***************************************************************************)
(* The theorems.                                                           *)
(***************************************************************************)
\* Calls, locks, files and directories keep their types.
THEOREM TypeCorrect == Spec => []TypeOK
<1>1. Invariant => TypeOK
  BY DEF Invariant
<1>. QED BY <1>1, AlwaysInvariant, PTL

\* Only complete files get a name, also across power failures.
THEOREM NamesAreComplete == Spec => []NeverPartial
<1>1. Invariant => NeverPartial
  BY DEF Invariant, Stored, NeverPartial
<1>. QED BY <1>1, AlwaysInvariant, PTL

\* Success of a publication means that the store holds the caller's bytes,
\* whoever wrote them.
THEOREM SuccessMeansStored == Spec => []OkIsStored
<1>1. Invariant => OkIsStored
  BY DEF Invariant
<1>. QED BY <1>1, AlwaysInvariant, PTL

\* In a directory that is kept, an acknowledged overlay survives.
THEOREM OverlaysSurvive == Spec => []AcknowledgedOverlaySurvives
<1>1. Invariant => AcknowledgedOverlaySurvives
  <2>. SUFFICES ASSUME Invariant, NEW o \in Overlays, NEW f \in kept[o]
                PROVE  Bytes(Left(f)) \in {acked[o]} \cup since[o]
    BY DEF AcknowledgedOverlaySurvives
  <2>1. Left(f) = f
    BY DEF Invariant, Stored, Left, Paths
  <2>. QED BY <2>1 DEF Invariant, Current
<1>. QED BY <1>1, AlwaysInvariant, PTL

\* Publication never clobbers: the name is taken only while it is free.
THEOREM PublishedNeverChanges == Spec => PublishedIsImmutable
<1>1. ASSUME Invariant, Next, boots' = boots, NEW a \in Artifacts, disk[a] # None
      PROVE  disk'[a] = disk[a]
  <2>1. ASSUME NEW c \in Callers, Replace(c) \/ Publish(c) PROVE disk'[a] = disk[a]
    <3>1. Path(c) # a /\ disk \in [Paths -> Contents \cup {None}] /\ a \in Paths
      BY <1>1, <2>1, NamesAssumption
      DEF Replace, Publish, IsOverlay, MayInstall, Invariant, TypeOK, Paths
    <3>. QED BY <2>1, <3>1 DEF Replace, Publish, Named
  <2>2. ASSUME NEW c \in Callers, Step(c) PROVE disk'[a] = disk[a]
    BY <2>1, <2>2
    DEF Step, Inspect, Create, Settle, Stage, Flush, LosePublish, Finish, Compare, files
  <2>3. ASSUME NEW c \in Callers, Lock(c) \/ Stop(c) PROVE disk'[a] = disk[a]
    BY <2>3 DEF Lock, Stop, files
  <2>4. ASSUME NEW c \in Callers, NEW p \in Paths, NEW b \in Payloads, Begin(c, p, b)
        PROVE  disk'[a] = disk[a]
    BY <2>4 DEF Begin, files
  <2>5. ASSUME NEW lost, NEW left, PowerFails(lost, left) PROVE FALSE
    <3>1. boots \in Nat
      BY <1>1, NamesAssumption DEF Invariant, TypeOK
    <3>. QED BY <1>1, <2>5, <3>1 DEF PowerFails
  <2>. QED BY <1>1, <2>2, <2>3, <2>4, <2>5 DEF Next
<1>2. Invariant /\ [Next]_vars =>
          [boots' = boots => \A p \in Artifacts : disk[p] # None => disk'[p] = disk[p]]_vars
  BY <1>1
<1>. QED BY <1>2, AlwaysInvariant, PTL DEF Spec, PublishedIsImmutable

-----------------------------------------------------------------------------
(***************************************************************************)
(* The store implements ObjectStore.                                       *)
(***************************************************************************)
Done == {c \in Callers : pc[c] = "sync"}

\* What may remain of a name, one name at a time.
Remaining(p) ==
    {Bytes(Left(f)) : f \in kept[p]} \cup (IF dirs[Dir(p)] = "new" THEN {None} ELSE {})

\* What readers find may remain.
LEMMA ReadMayRemain ==
    ASSUME Invariant, NEW p \in Paths
    PROVE  Bytes(disk[p]) = Bytes(Left(disk[p])) /\ Bytes(disk[p]) \in Remaining(p)
<1>1. disk[p] \in kept[p] /\ (disk[p] # None => disk[p].synced)
  BY DEF Invariant, Stored
<1>2. Left(disk[p]) = disk[p]
  BY <1>1 DEF Left
<1>. QED BY <1>1, <1>2 DEF Remaining

\* Where no file is touched, readers and power failures find the same.
LEMMA SameFiles ==
    ASSUME UNCHANGED files
    PROVE  UNCHANGED <<ReadBytes, MayRemain>>
BY DEF files, ReadBytes, MayRemain

\* A call that is neither installing nor over stays the same request.
LEMMA SameCall ==
    ASSUME Invariant, NEW c \in Callers, NEW l \in {"compare", "create", "settle", "lock", "stage", "flush", "install"},
           To(c, l), pc[c] \notin {"idle", "sync"}, answer' = answer,
           job' = job \/ job' = [job EXCEPT ![c] = Flushed(@)]
    PROVE  UNCHANGED <<Request, Done, answer>>
<1>1. pc' = [pc EXCEPT ![c] = l] /\ pc \in [Callers -> {"idle", "inspect", "create", "settle", "lock",
        "stage", "flush", "install", "sync", "compare"}]
  BY DEF Invariant, TypeOK, To
<1>2. \A d \in Callers : pc'[d] = "sync" <=> pc[d] = "sync"
  BY <1>1
<1>3. Done' = Done
  BY <1>2 DEF Done
<1>4. job \in [Callers -> Jobs \cup {None}] /\ job[c] \in Jobs
  BY JobFacts DEF Invariant, TypeOK
<1>5. Flushed(job[c]) \in Jobs /\ Flushed(job[c]).path = job[c].path /\ Flushed(job[c]).bytes = job[c].bytes
  BY <1>4 DEF Flushed, Jobs
<1>6. ASSUME NEW d \in Callers
      PROVE  /\ job'[d] = None <=> job[d] = None
             /\ job[d] # None => job'[d].path = job[d].path /\ job'[d].bytes = job[d].bytes
  BY <1>4, <1>5, NoneFacts
<1>7. Request' = Request
  BY <1>6 DEF Request, Path
<1>. QED BY <1>3, <1>7

\* What the record of a job asks for.
Asked(j) == IF j = None THEN None ELSE [path |-> j.path, bytes |-> j.bytes]

\* The request of the store is what its jobs ask for, before a step and after.
LEMMA RequestOf ==
    /\ Request = [c \in Callers |-> Asked(job[c])]
    /\ Request' = [c \in Callers |-> Asked(job'[c])]
BY DEF Request, Asked, Path

\* A caller's request while its call is under way.
LEMMA Requested ==
    ASSUME Invariant, NEW c \in Callers, pc[c] # "idle"
    PROVE  /\ Request[c] = [path |-> Path(c), bytes |-> job[c].bytes]
           /\ Request[c] # None
           /\ Request[c].path = Path(c) /\ Request[c].bytes = job[c].bytes
           /\ Request[c] \in Store!Requests
<1>1. job[c] \in Jobs /\ Path(c) \in Paths /\ job[c].bytes \in Payloads /\ job[c] # None
  BY JobFacts, NoneFacts DEF Invariant
<1>2. Request[c] = [path |-> Path(c), bytes |-> job[c].bytes]
  BY <1>1 DEF Request
<1>3. [path |-> Path(c), bytes |-> job[c].bytes] \in Answers
  BY <1>1 DEF Answers
<1>4. Request[c] \in Store!Requests
  BY <1>1, <1>2 DEF Store!Requests, Store!Paths, Paths
<1>. QED BY <1>2, <1>3, <1>4, NoneFacts

\* A call that returns is over.
LEMMA ReturnsOver ==
    ASSUME Invariant, NEW c \in Callers, pc[c] # "idle", NEW ok \in BOOLEAN, Returns(c, ok)
    PROVE  /\ Request' = [Request EXCEPT ![c] = None]
           /\ Done' = Done \ {c}
           /\ answer' = [answer EXCEPT ![c] = IF ok THEN Request[c] ELSE None]
<1>1. job' = [job EXCEPT ![c] = None] /\ pc' = [pc EXCEPT ![c] = "idle"]
  BY DEF Returns, To
<1>2. job \in [Callers -> Jobs \cup {None}] /\ DOMAIN pc = Callers
  BY DEF Invariant, TypeOK
<1>3. Request' = [Request EXCEPT ![c] = None]
  BY <1>1, <1>2, RequestOf DEF Asked
<1>4. Done' = Done \ {c}
  BY <1>1, <1>2 DEF Done
<1>5. answer' = [answer EXCEPT ![c] = IF ok THEN Request[c] ELSE None]
  BY Requested DEF Returns
<1>. QED BY <1>3, <1>4, <1>5

-----------------------------------------------------------------------------
\* A call begins.
LEMMA BeginRefines ==
    ASSUME Invariant, NEW c \in Callers, NEW p \in Paths, NEW b \in Payloads, Begin(c, p, b)
    PROVE  \E r \in Store!Requests : Store!Call(c, r)
<1>. DEFINE r == [path |-> p, bytes |-> b]
<1>1. r \in Store!Requests
  BY DEF Store!Requests, Store!Paths, Paths
<1>2. pc[c] = "idle" /\ job[c] = None /\ job \in [Callers -> Jobs \cup {None}] /\ DOMAIN pc = Callers
  BY DEF Begin, At, Invariant, TypeOK
<1>3. Request[c] = None
  BY <1>2 DEF Request
<1>4. [path |-> p, bytes |-> b, synced |-> FALSE] # None
  <2>1. [path |-> p, bytes |-> b, synced |-> FALSE] \in Jobs
    BY DEF Jobs
  <2>. QED BY <2>1, NoneFacts
<1>5. Asked([path |-> p, bytes |-> b, synced |-> FALSE]) = r
  BY <1>4 DEF Asked
<1>6. job' = [job EXCEPT ![c] = [path |-> p, bytes |-> b, synced |-> FALSE]]
  BY DEF Begin
<1>7. Request' = [Request EXCEPT ![c] = r]
  BY <1>2, <1>5, <1>6, RequestOf
<1>8. PICK l \in {"inspect", "compare"} : pc' = [pc EXCEPT ![c] = l]
  BY DEF Begin, To
<1>9. Done' = Done
  BY <1>2, <1>8 DEF Done
<1>10. UNCHANGED <<ReadBytes, MayRemain>> /\ answer' = [answer EXCEPT ![c] = None]
  BY SameFiles DEF Begin
<1>11. Store!Call(c, r)
  BY <1>3, <1>7, <1>9, <1>10 DEF Store!Call, Done
<1>. QED BY <1>1, <1>11

\* Preparations are not seen.
LEMMA PlainRefines ==
    ASSUME Invariant, NEW c \in Callers,
           Inspect(c) \/ Lock(c) \/ Stage(c) \/ Flush(c) \/ LosePublish(c)
    PROVE  UNCHANGED Store!vars
<1>1. PICK l \in {"compare", "create", "settle", "lock", "stage", "flush", "install"} : To(c, l)
  BY DEF Inspect, Lock, Stage, Flush, LosePublish, Ensured
<1>2. /\ pc[c] \notin {"idle", "sync"} /\ answer' = answer
      /\ job' = job \/ job' = [job EXCEPT ![c] = Flushed(@)]
  BY DEF Inspect, Lock, Stage, Flush, LosePublish, At
<1>3. UNCHANGED files
  BY DEF Inspect, Lock, Stage, Flush, LosePublish
<1>4. UNCHANGED <<ReadBytes, MayRemain>> /\ UNCHANGED <<Request, Done, answer>>
  BY <1>1, <1>2, <1>3, SameFiles, SameCall
<1>. QED BY <1>4 DEF Store!vars, Done

\* A directory appears: nothing was in it.
LEMMA CreateRefines ==
    ASSUME Invariant, NEW c \in Callers, Create(c)
    PROVE  UNCHANGED Store!vars
<1>1. UNCHANGED <<Request, Done, answer>>
  BY SameCall DEF Create, At
<1>2. ReadBytes' = ReadBytes
  BY DEF Create, ReadBytes
<1>3. ASSUME NEW p \in Paths PROVE Remaining(p)' = Remaining(p)
  <2>1. kept' = kept /\ DOMAIN dirs = {"artifacts", "overlays"} /\ Dir(p) \in {"artifacts", "overlays"}
    BY DEF Create, Invariant, TypeOK, Dir
  <2>2. CASE dirs'[Dir(p)] = dirs[Dir(p)]
    BY <2>1, <2>2 DEF Remaining
  <2>3. CASE dirs'[Dir(p)] # dirs[Dir(p)]
    <3>1. dirs[Dir(p)] = "none" /\ dirs'[Dir(p)] = "new"
      BY <2>1, <2>3 DEF Create
    <3>2. kept[p] = {None}
      BY <3>1 DEF Invariant, Stored
    <3>3. Bytes(Left(None)) = None
      BY DEF Bytes, Left
    <3>. QED BY <2>1, <3>1, <3>2, <3>3 DEF Remaining
  <2>. QED BY <2>2, <2>3
<1>4. MayRemain' = MayRemain
  BY <1>3 DEF MayRemain, Remaining
<1>. QED BY <1>1, <1>2, <1>4 DEF Store!vars, Done

\* It is synced into its parent: it cannot be lost any more.
LEMMA SettleRefines ==
    ASSUME Invariant, NEW c \in Callers, Settle(c)
    PROVE  Store!Sync
<1>1. UNCHANGED <<Request, Done, answer>>
  <2>1. To(c, Ensured(c)) /\ pc[c] = "settle" /\ job' = job /\ answer' = answer
    BY DEF Settle, At
  <2>2. Ensured(c) \in {"lock", "stage"}
    BY DEF Ensured
  <2>. QED BY <2>1, <2>2, SameCall
<1>2. ReadBytes' = ReadBytes
  BY DEF Settle, ReadBytes
<1>3. ASSUME NEW p \in Paths
      PROVE  ReadBytes[p] \in MayRemain'[p] /\ MayRemain'[p] \subseteq MayRemain[p]
  <2>1. kept' = kept /\ DOMAIN dirs = {"artifacts", "overlays"} /\ Dir(p) \in {"artifacts", "overlays"}
    BY DEF Settle, Invariant, TypeOK, Dir
  <2>2. dirs'[Dir(p)] \in {dirs[Dir(p)], "kept"}
    BY <2>1 DEF Settle
  <2>3. Remaining(p)' \subseteq Remaining(p)
    BY <2>1, <2>2 DEF Remaining
  <2>4. Bytes(disk[p]) \in Remaining(p)'
    BY <2>1, ReadMayRemain DEF Remaining, Invariant, Stored
  <2>. QED BY <2>3, <2>4 DEF MayRemain, Remaining, ReadBytes
<1>4. Store!Settles
  BY <1>3 DEF Store!Settles, Store!Paths, Paths, MayRemain
<1>. QED BY <1>1, <1>2, <1>4 DEF Store!Sync, Done

\* The temporary file takes its name: the call takes effect.
LEMMA NameRefines ==
    ASSUME Invariant, NEW c \in Callers, Replace(c) \/ Publish(c)
    PROVE  Store!Effect(c)
<1>. DEFINE p == Path(c)
            b == job[c].bytes
            f == [bytes |-> b, synced |-> TRUE]
<1>1. /\ pc[c] = "install" /\ To(c, "sync") /\ UNCHANGED <<dirs, job, answer>>
      /\ p \in Artifacts => disk[p] = None
  BY NamesAssumption DEF Replace, Publish, At, Named, IsOverlay, MayInstall
<1>2. job[c].synced = TRUE /\ p \in Paths /\ b \in Payloads
  <2>1. job[c].synced /\ job[c].synced \in BOOLEAN
    BY <1>1, JobFacts DEF Invariant, Working
  <2>. QED BY <1>1, <2>1, JobFacts DEF Invariant
<1>3. disk' = [disk EXCEPT ![p] = f] /\ kept' = [kept EXCEPT ![p] = @ \cup {f}]
  BY <1>2 DEF Replace, Publish, Named
<1>4. disk \in [Paths -> Contents \cup {None}] /\ kept \in [Paths -> SUBSET (Contents \cup {None})]
  BY DEF Invariant, TypeOK
<1>5. f # None
  <2>1. f \in Contents
    BY <1>2 DEF Contents
  <2>. QED BY <2>1, NoneFacts
<1>6. Bytes(f) = b /\ Bytes(Left(f)) = b
  BY <1>5 DEF Bytes, Left
<1>7. ReadBytes' = [ReadBytes EXCEPT ![p] = b]
  BY <1>2, <1>3, <1>4, <1>6 DEF ReadBytes
<1>8. ASSUME NEW q \in Paths
      PROVE  Remaining(q)' = IF q = p THEN Remaining(p) \cup {b} ELSE Remaining(q)
  BY <1>1, <1>2, <1>3, <1>4, <1>6 DEF Remaining
<1>9. MayRemain' = [MayRemain EXCEPT ![p] = @ \cup {b}]
  BY <1>2, <1>8 DEF MayRemain, Remaining
<1>10. Request' = Request /\ c \notin Done /\ Done' = Done \cup {c}
  <2>1. DOMAIN pc = Callers
    BY DEF Invariant, TypeOK
  <2>. QED BY <1>1, <2>1, RequestOf DEF Done, To
<1>11. Request[c] # None /\ Request[c].path = p /\ Request[c].bytes = b
  BY <1>1, Requested
<1>12. p \in Artifacts => ReadBytes[p] = None
  BY <1>1, <1>2 DEF ReadBytes, Bytes
<1>. HIDE DEF p, b, f
<1>. QED BY <1>1, <1>7, <1>9, <1>10, <1>11, <1>12 DEF Store!Effect, Done

\* The directory is synced and the call returns: what was installed stays.
LEMMA FinishRefines ==
    ASSUME Invariant, NEW c \in Callers, Finish(c)
    PROVE  Store!Succeed(c)
<1>1. pc[c] = "sync" /\ Returns(c, TRUE) /\ UNCHANGED <<dirs, disk>> /\ kept' = Synced(Dir(Path(c)))
  BY DEF Finish, At
<1>2. /\ Request' = [Request EXCEPT ![c] = None] /\ Done' = Done \ {c}
      /\ answer' = [answer EXCEPT ![c] = Request[c]]
  BY <1>1, ReturnsOver
<1>3. c \in Done /\ Request[c] # None /\ Request[c].path = Path(c) /\ Path(c) \in Paths
  BY <1>1, Requested, JobFacts DEF Done, Invariant
<1>4. ASSUME NEW p \in Paths
      PROVE  /\ Bytes(disk[p]) \in Remaining(p)'
             /\ Remaining(p)' \subseteq Remaining(p)
             /\ p = Path(c) => Remaining(p)' \subseteq {Bytes(disk[p]), None}
  <2>1. Bytes(disk[p]) = Bytes(Left(disk[p])) /\ Bytes(disk[p]) \in Remaining(p)
    BY ReadMayRemain
  <2>2. kept'[p] = IF Dir(p) = Dir(Path(c)) THEN {disk[p]} ELSE kept[p]
    BY <1>1 DEF Synced
  <2>3. disk[p] \in kept[p] /\ disk[p] \in kept'[p]
    BY <2>2 DEF Invariant, Stored
  <2>4. Bytes(disk[p]) \in Remaining(p)'
    BY <2>1, <2>3 DEF Remaining
  <2>5. kept'[p] \subseteq kept[p]
    BY <2>2, <2>3
  <2>6. Remaining(p)' \subseteq Remaining(p)
    BY <1>1, <2>5 DEF Remaining
  <2>7. ASSUME p = Path(c) PROVE Remaining(p)' \subseteq {Bytes(disk[p]), None}
    <3>1. kept'[p] = {disk[p]}
      BY <2>2, <2>7
    <3>. QED BY <2>1, <3>1 DEF Remaining
  <2>. QED BY <2>4, <2>6, <2>7
<1>5. Store!Settles
  BY <1>4 DEF Store!Settles, Store!Paths, Paths, MayRemain, Remaining, ReadBytes
<1>6. MayRemain'[Path(c)] \subseteq {ReadBytes[Path(c)], None}
  BY <1>3, <1>4 DEF MayRemain, Remaining, ReadBytes
<1>7. ReadBytes' = ReadBytes
  BY <1>1 DEF ReadBytes
<1>. QED BY <1>2, <1>3, <1>5, <1>6, <1>7 DEF Store!Succeed, Store!Over, Done

\* An artifact that is there is compared.
LEMMA CompareRefines ==
    ASSUME Invariant, NEW c \in Callers, Compare(c)
    PROVE  Store!Succeed(c) \/ Store!Fail(c)
<1>1. pc[c] = "compare" /\ Returns(c, Matches(c)) /\ UNCHANGED files
  BY DEF Compare, At
<1>2. Path(c) \in Artifacts /\ disk[Path(c)] # None
  BY <1>1, JobFacts DEF Invariant, Working, IsOverlay, Paths
<1>3. /\ Request[c] # None /\ Request[c].path = Path(c) /\ Request[c].bytes = job[c].bytes
      /\ UNCHANGED <<ReadBytes, MayRemain>>
  BY <1>1, Requested, SameFiles
<1>4. CASE Matches(c)
  <2>1. ReadBytes[Path(c)] = job[c].bytes
    BY <1>2, <1>4 DEF Matches, ReadBytes, Bytes, Paths
  <2>2. Matches(c) = TRUE
    BY <1>4 DEF Matches
  <2>3. /\ Request' = [Request EXCEPT ![c] = None] /\ Done' = Done \ {c}
        /\ answer' = [answer EXCEPT ![c] = Request[c]]
    BY <1>1, <2>2, ReturnsOver
  <2>. QED BY <1>2, <1>3, <2>1, <2>3 DEF Store!Succeed, Store!Over, Done
<1>5. CASE ~Matches(c)
  <2>1. Matches(c) = FALSE
    BY <1>5 DEF Matches
  <2>2. /\ Request' = [Request EXCEPT ![c] = None] /\ Done' = Done \ {c}
        /\ answer' = [answer EXCEPT ![c] = None]
    BY <1>1, <2>1, ReturnsOver
  <2>. QED BY <1>3, <2>2 DEF Store!Fail, Store!Over, Done
<1>. QED BY <1>4, <1>5

\* An error or a kill.
LEMMA StopRefines ==
    ASSUME Invariant, NEW c \in Callers, Stop(c)
    PROVE  Store!Fail(c)
<1>1. pc[c] # "idle" /\ Returns(c, FALSE) /\ UNCHANGED files
  BY DEF Stop, At
<1>2. /\ Request' = [Request EXCEPT ![c] = None] /\ Done' = Done \ {c}
      /\ answer' = [answer EXCEPT ![c] = None]
  BY <1>1, ReturnsOver
<1>. QED BY <1>1, <1>2, Requested, SameFiles DEF Store!Fail, Store!Over, Done

\* The power fails.
LEMMA PowerRefines ==
    ASSUME Invariant, NEW lost \in SUBSET {"artifacts", "overlays"},
           NEW left \in [Paths -> UNION {kept[p] : p \in Paths} \cup {None}], PowerFails(lost, left)
    PROVE  Store!PowerFails
<1>1. ASSUME NEW p \in Paths
      PROVE  /\ Bytes(disk'[p]) \in Remaining(p)
             /\ Remaining(p)' = {Bytes(disk'[p])}
  <2>1. /\ left[p] \in IF Dir(p) \in lost THEN {None} ELSE kept[p]
        /\ disk'[p] = Left(left[p]) /\ kept'[p] = {Left(left[p])}
    BY DEF PowerFails
  <2>2. Dir(p) \in {"artifacts", "overlays"} /\ DOMAIN dirs = {"artifacts", "overlays"}
    BY DEF Dir, Invariant, TypeOK
  <2>3. dirs'[Dir(p)] \in {"none", "kept"} /\ (Dir(p) \in lost => dirs[Dir(p)] = "new")
    BY <2>2 DEF PowerFails
  <2>4. Bytes(Left(None)) = None
    BY DEF Bytes, Left
  <2>5. Bytes(Left(left[p])) \in Remaining(p)
    BY <2>1, <2>3, <2>4 DEF Remaining
  <2>6. Left(Left(left[p])) = Left(left[p])
    BY DEF Left
  <2>. QED BY <2>1, <2>3, <2>5, <2>6 DEF Remaining
<1>2. \A p \in Paths : ReadBytes'[p] \in MayRemain[p]
  BY <1>1 DEF ReadBytes, MayRemain, Remaining
<1>3. MayRemain' = [p \in Paths |-> {ReadBytes'[p]}]
  BY <1>1 DEF ReadBytes, MayRemain, Remaining
<1>4. /\ pc' = [c \in Callers |-> "idle"] /\ job' = [c \in Callers |-> None]
      /\ answer' = [c \in Callers |-> None]
  BY DEF PowerFails
<1>5. Request' = [c \in Callers |-> None]
  BY <1>4, RequestOf DEF Asked
<1>6. Done' = {}
  BY <1>4 DEF Done
<1>7. DOMAIN ReadBytes' = Paths
  BY DEF ReadBytes
<1>. QED
  BY <1>2, <1>3, <1>4, <1>5, <1>6, <1>7 DEF Store!PowerFails, Store!Paths, Paths, Done

\* Every step is one of ObjectStore or is not seen.
LEMMA StepRefines == ASSUME Invariant, [Next]_vars PROVE [Store!Next]_(Store!vars)
<1>1. CASE UNCHANGED vars
  BY <1>1, SameFiles, RequestOf DEF vars, files, Store!vars
<1>2. ASSUME NEW c \in Callers, NEW p \in Paths, NEW b \in Payloads, Begin(c, p, b)
      PROVE  Store!Next
  BY <1>2, BeginRefines DEF Store!Next
<1>3. ASSUME NEW c \in Callers, Step(c) PROVE Store!Next \/ UNCHANGED Store!vars
  <2>1. CASE Inspect(c) \/ Stage(c) \/ Flush(c) \/ LosePublish(c)
    BY <2>1, PlainRefines
  <2>2. CASE Create(c) \/ Settle(c)
    BY <2>2, CreateRefines, SettleRefines DEF Store!Next
  <2>3. CASE Replace(c) \/ Publish(c)
    BY <2>3, NameRefines DEF Store!Next
  <2>4. CASE Finish(c) \/ Compare(c)
    BY <2>4, FinishRefines, CompareRefines DEF Store!Next
  <2>. QED BY <1>3, <2>1, <2>2, <2>3, <2>4 DEF Step
<1>4. ASSUME NEW c \in Callers, Lock(c) PROVE UNCHANGED Store!vars
  BY <1>4, PlainRefines
<1>5. ASSUME NEW c \in Callers, Stop(c) PROVE Store!Next
  BY <1>5, StopRefines DEF Store!Next
<1>6. ASSUME NEW lost \in SUBSET {"artifacts", "overlays"},
             NEW left \in [Paths -> UNION {kept[p] : p \in Paths} \cup {None}], PowerFails(lost, left)
      PROVE  Store!Next
  BY <1>6, PowerRefines DEF Store!Next
<1>. QED BY <1>1, <1>2, <1>3, <1>4, <1>5, <1>6 DEF Next

\* Every call takes effect at one instant between its beginning and its end, and
\* a power failure leaves of each name what was acknowledged there last or was
\* stored later, whatever files, errors, kills and other callers do
\* (publish_immutable, atomic_replace).
THEOREM StoreImplementsObjects == Spec => ImplementsObjectStore
<1>1. Init => Store!Init
  <2>. SUFFICES ASSUME Init PROVE Store!Init
    OBVIOUS
  <2>1. Bytes(None) = None /\ Left(None) = None
    BY DEF Bytes, Left
  <2>2. ReadBytes = [p \in Paths |-> None]
    BY <2>1 DEF Init, ReadBytes
  <2>3. ASSUME NEW p \in Paths PROVE Remaining(p) = {None}
    BY <2>1 DEF Init, Remaining, Dir
  <2>4. MayRemain = [p \in Paths |-> {None}]
    BY <2>3 DEF MayRemain, Remaining
  <2>5. Request = [c \in Callers |-> None] /\ Done = {}
    BY DEF Init, Request, Done
  <2>. QED BY <2>2, <2>4, <2>5 DEF Init, Store!Init, Store!Paths, Paths, Done
<1>2. Invariant /\ [Next]_vars => [Store!Next]_(Store!vars)
  BY StepRefines
<1>. QED BY <1>1, <1>2, AlwaysInvariant, PTL DEF Spec, ImplementsObjectStore, Store!Spec

=============================================================================
