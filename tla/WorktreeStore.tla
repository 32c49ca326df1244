--------------------------- MODULE WorktreeStore ---------------------------
(***************************************************************************)
(* WorktreeStore (worktree_store.rs): immutable artifacts and commit       *)
(* manifests, published without clobbering, and one mutable overlay per    *)
(* checkout, replaced atomically under a lock. Callers run in processes of *)
(* their own; every file operation is a step, any of them may fail or the  *)
(* process be killed, and the power may fail.                              *)
(*                                                                         *)
(* The file system keeps what was synced: a file's bytes after sync_all, a *)
(* name after its directory was synced, a directory after its parent was.  *)
(* A power failure leaves anything in between. Ancestors of a directory    *)
(* are created and synced with it and stand as one directory here.         *)
(***************************************************************************)
EXTENDS Naturals, FiniteSets

CONSTANTS
    Callers,        \* the processes
    Artifacts,      \* artifact keys and commit manifest addresses
    Overlays,       \* the checkouts' overlays
    Payloads,       \* what is published or written
    Torn,           \* the bytes of a file whose data was lost
    MaxStops,       \* bound: errors and kills
    MaxBoots,       \* bound: power failures
    None

ASSUME NamesAssumption ==
    /\ Artifacts \cap Overlays = {}
    /\ None \notin Callers \cup Payloads
    /\ Torn \notin Payloads \cup {None}
    /\ MaxStops \in Nat /\ MaxBoots \in Nat

VARIABLES
    dirs,           \* the directory of artifacts, and of overlays
    disk,           \* what a name refers to
    kept,           \* what a name may refer to after a power failure
    locked,         \* the caller that holds an overlay's lock
    pc,             \* what each caller does next
    job,            \* its target, its payload and its temporary file
    answer,         \* what its last call returned
    acked,          \* the overlay that was acknowledged last
    since,          \* the payloads installed since then
    stops, boots    \* counted for the bounds

vars == <<dirs, disk, kept, locked, pc, job, answer, acked, since, stops, boots>>
files == <<dirs, disk, kept>>
history == <<acked, since>>

-----------------------------------------------------------------------------
Paths == Artifacts \cup Overlays

Dir(p) == IF p \in Artifacts THEN "artifacts" ELSE "overlays"

Contents == [bytes : Payloads \cup {Torn}, synced : BOOLEAN]

Jobs == [path : Paths, bytes : Payloads, synced : BOOLEAN]

Answers == [path : Paths, bytes : Payloads]

\* None is no file, no call and no answer.
ASSUME NoneAssumption == None \notin Contents \cup Jobs \cup Answers

TypeOK ==
    /\ dirs \in [{"artifacts", "overlays"} -> {"none", "new", "kept"}]
    /\ disk \in [Paths -> Contents \cup {None}]
    /\ kept \in [Paths -> SUBSET (Contents \cup {None})]
    /\ locked \in [Overlays -> Callers \cup {None}]
    /\ pc \in [Callers -> {"idle", "inspect", "create", "settle", "lock", "stage", "flush",
                           "install", "sync", "compare"}]
    /\ job \in [Callers -> Jobs \cup {None}]
    /\ \A c \in Callers : job[c] = None <=> pc[c] = "idle"
    /\ \A p \in Paths : disk[p] # None => dirs[Dir(p)] # "none"
    /\ \A o \in Overlays : locked[o] # None =>
           job[locked[o]] # None /\ job[locked[o]].path = o
    /\ answer \in [Callers -> Answers \cup {None}]
    /\ acked \in [Overlays -> Payloads \cup {Torn, None}]
    /\ since \in [Overlays -> SUBSET Payloads]
    /\ stops \in 0 .. MaxStops /\ boots \in 0 .. MaxBoots

\* A store that is new, or one whose directories are there.
Init ==
    /\ \/ dirs = [d \in {"artifacts", "overlays"} |-> "none"]
       \/ dirs = [d \in {"artifacts", "overlays"} |-> "kept"]
    /\ disk = [p \in Paths |-> None]
    /\ kept = [p \in Paths |-> {None}]
    /\ locked = [o \in Overlays |-> None]
    /\ pc = [c \in Callers |-> "idle"]
    /\ job = [c \in Callers |-> None]
    /\ answer = [c \in Callers |-> None]
    /\ acked = [o \in Overlays |-> None]
    /\ since = [o \in Overlays |-> {}]
    /\ stops = 0 /\ boots = 0

-----------------------------------------------------------------------------
(***************************************************************************)
(* The caller's steps.                                                     *)
(***************************************************************************)
To(c, l) == pc' = [pc EXCEPT ![c] = l]

At(c, l) == pc[c] = l

Path(c) == job[c].path

IsOverlay(c) == Path(c) \in Overlays

\* Variant of Unlocked: an error returns before the lock is released.
UnlockedOnOk(c, ok) == [o \in Overlays |-> IF ok /\ locked[o] = c THEN None ELSE locked[o]]

\* The lock goes with its file handle, also on an error and a kill.
Unlocked(c, ok) == [o \in Overlays |-> IF locked[o] = c THEN None ELSE locked[o]]

\* The call returns Ok, or it fails and nothing is known of it.
Returns(c, ok) ==
    /\ To(c, "idle")
    /\ job' = [job EXCEPT ![c] = None]
    /\ answer' = [answer EXCEPT ![c] = IF ok THEN [path |-> Path(c), bytes |-> job[c].bytes] ELSE None]
    /\ locked' = Unlocked(c, ok)

Begin(c, p, b) ==
    /\ At(c, "idle")
    /\ job' = [job EXCEPT ![c] = [path |-> p, bytes |-> b, synced |-> FALSE]]
    /\ To(c, IF p \in Artifacts /\ disk[p] # None THEN "compare" ELSE "inspect")
    /\ answer' = [answer EXCEPT ![c] = None]
    /\ UNCHANGED <<files, locked, history, stops, boots>>

\* After ensure_parent: an overlay is locked, an artifact is staged.
Ensured(c) == IF IsOverlay(c) THEN "lock" ELSE "stage"

\* try_exists: a directory that is missing here is synced after its creation.
Inspect(c) ==
    /\ At(c, "inspect")
    /\ To(c, IF dirs[Dir(Path(c))] = "none" THEN "create" ELSE Ensured(c))
    /\ UNCHANGED <<files, locked, job, answer, history, stops, boots>>

\* create_dir_all, which another caller may have done meanwhile.
Create(c) ==
    /\ At(c, "create")
    /\ dirs' = [dirs EXCEPT ![Dir(Path(c))] = IF @ = "none" THEN "new" ELSE @]
    /\ To(c, "settle")
    /\ UNCHANGED <<disk, kept, locked, job, answer, history, stops, boots>>

\* The new parents are synced. Each directory is kept by itself here; that the
\* names under one root share ancestors is left out, as in Inspect.
Settle(c) ==
    /\ At(c, "settle")
    /\ dirs' = [dirs EXCEPT ![Dir(Path(c))] = "kept"]
    /\ To(c, Ensured(c))
    /\ UNCHANGED <<disk, kept, locked, job, answer, history, stops, boots>>

\* lock_exclusive waits for the holder.
Lock(c) ==
    /\ At(c, "lock")
    /\ locked[Path(c)] = None
    /\ locked' = [locked EXCEPT ![Path(c)] = c]
    /\ To(c, "stage")
    /\ UNCHANGED <<files, job, answer, history, stops, boots>>

\* The temporary file is written under a name of its own.
Stage(c) ==
    /\ At(c, "stage")
    /\ To(c, "flush")
    /\ UNCHANGED <<files, locked, job, answer, history, stops, boots>>

\* Variant of Flushed: the temporary file is not synced.
FlushedNot(j) == j

\* sync_all on the temporary file.
Flushed(j) == [j EXCEPT !.synced = TRUE]

Flush(c) ==
    /\ At(c, "flush")
    /\ job' = [job EXCEPT ![c] = Flushed(@)]
    /\ To(c, "install")
    /\ UNCHANGED <<files, locked, answer, history, stops, boots>>

\* The temporary file takes the target's name.
Named(c) ==
    LET f == [bytes |-> job[c].bytes, synced |-> job[c].synced] IN
    /\ disk' = [disk EXCEPT ![Path(c)] = f]
    /\ kept' = [kept EXCEPT ![Path(c)] = @ \cup {f}]
    /\ To(c, "sync")
    /\ UNCHANGED <<dirs, locked, job, answer, acked, stops, boots>>

\* persist: the overlay is replaced.
Replace(c) ==
    /\ At(c, "install")
    /\ IsOverlay(c)
    /\ Named(c)
    /\ since' = [since EXCEPT ![Path(c)] = @ \cup {job[c].bytes}]

\* Variant of MayInstall: an artifact that is there is overwritten.
MayInstallOver(p) == TRUE

\* persist_noclobber takes the name only if it is free.
MayInstall(p) == disk[p] = None

Publish(c) ==
    /\ At(c, "install")
    /\ ~IsOverlay(c)
    /\ MayInstall(Path(c))
    /\ Named(c)
    /\ UNCHANGED since

\* AlreadyExists: another caller was first.
LosePublish(c) ==
    /\ At(c, "install")
    /\ ~IsOverlay(c)
    /\ ~MayInstall(Path(c))
    /\ To(c, "compare")
    /\ UNCHANGED <<files, locked, job, answer, history, stops, boots>>

\* Variant of Synced: the directory is not synced.
SyncedNot(d) == kept

\* sync_directory: the names in it are kept as they are.
Synced(d) == [p \in Paths |-> IF Dir(p) = d THEN {disk[p]} ELSE kept[p]]

\* sync_directory, and the call returns Ok.
Finish(c) ==
    /\ At(c, "sync")
    /\ kept' = Synced(Dir(Path(c)))
    /\ Returns(c, TRUE)
    /\ \/ /\ IsOverlay(c)
          /\ acked' = [acked EXCEPT ![Path(c)] = job[c].bytes]
          /\ since' = [since EXCEPT ![Path(c)] = {}]
       \/ ~IsOverlay(c) /\ UNCHANGED history
    /\ UNCHANGED <<dirs, disk, stops, boots>>

\* Variant of Matches: what is there is not compared.
MatchesAny(c) == TRUE

\* immutable_existing: identical bytes are AlreadyPresent, others an error.
Matches(c) == disk[Path(c)].bytes = job[c].bytes

Compare(c) ==
    /\ At(c, "compare")
    /\ Returns(c, Matches(c))
    /\ UNCHANGED <<files, history, stops, boots>>

\* A step fails and the call returns its error, or the process is killed.
Stop(c) ==
    /\ ~At(c, "idle")
    /\ stops < MaxStops
    /\ stops' = stops + 1
    /\ Returns(c, FALSE)
    /\ UNCHANGED <<files, history, boots>>

-----------------------------------------------------------------------------
\* What a file is after a power failure: without sync_all its bytes are lost.
Left(f) == IF f = None \/ f.synced THEN f ELSE [bytes |-> Torn, synced |-> TRUE]

Bytes(f) == IF f = None THEN None ELSE f.bytes

\* External: the power fails. Directories in lost and all in them are gone,
\* of the other names one of those that were not synced since remains.
PowerFails(lost, left) ==
    /\ boots < MaxBoots
    /\ boots' = boots + 1
    /\ \A d \in lost : dirs[d] = "new"
    /\ \A p \in Paths : left[p] \in IF Dir(p) \in lost THEN {None} ELSE kept[p]
    /\ dirs' = [d \in DOMAIN dirs |->
                   IF dirs[d] = "none" \/ d \in lost THEN "none" ELSE "kept"]
    /\ disk' = [p \in Paths |-> Left(left[p])]
    /\ kept' = [p \in Paths |-> {Left(left[p])}]
    /\ locked' = [o \in Overlays |-> None]
    /\ pc' = [c \in Callers |-> "idle"]
    /\ job' = [c \in Callers |-> None]
    /\ answer' = [c \in Callers |-> None]
    /\ acked' = [o \in Overlays |-> Bytes(Left(left[o]))]
    /\ since' = [o \in Overlays |-> {}]
    /\ UNCHANGED stops

Step(c) ==
    \/ Inspect(c) \/ Create(c) \/ Settle(c)
    \/ Stage(c) \/ Flush(c)
    \/ Replace(c) \/ Publish(c) \/ LosePublish(c)
    \/ Finish(c) \/ Compare(c)

Next ==
    \/ \E c \in Callers :
           \/ \E p \in Paths, b \in Payloads : Begin(c, p, b)
           \/ Step(c)
           \/ Lock(c)
           \/ Stop(c)
    \/ \E lost \in SUBSET {"artifacts", "overlays"} :
           \E left \in [Paths -> UNION {kept[p] : p \in Paths} \cup {None}] :
               PowerFails(lost, left)

Spec == Init /\ [][Next]_vars

\* A call that has begun goes on; the kernel lets each waiter have the lock.
FairSpec == Spec /\ \A c \in Callers : WF_vars(Step(c)) /\ SF_vars(Lock(c))

-----------------------------------------------------------------------------
(***************************************************************************)
(* Properties.                                                             *)
(***************************************************************************)

\* A name refers to nothing or to a complete file, whatever step failed.
NeverPartial == \A p \in Paths : disk[p] # None => disk[p].bytes # Torn

\* A published artifact never changes while the machine runs.
PublishedIsImmutable ==
    [][boots' = boots => \A p \in Artifacts : disk[p] # None => disk'[p] = disk[p]]_vars

\* Published and AlreadyPresent are only returned for the bytes that are
\* stored, so two callers that both succeed published the same.
OkIsStored ==
    \A c \in Callers : answer[c] # None /\ answer[c].path \in Artifacts =>
        Bytes(disk[answer[c].path]) = answer[c].bytes

\* Once its directory is kept, a power failure leaves an overlay as it was
\* acknowledged last or as it was replaced later, complete in both cases.
AcknowledgedOverlaySurvives ==
    \A o \in Overlays : dirs["overlays"] = "kept" =>
        \A f \in kept[o] : Bytes(Left(f)) \in {acked[o]} \cup since[o]

\* What readers find, what a power failure may leave, and what was asked for.
ReadBytes == [p \in Paths |-> Bytes(disk[p])]

MayRemain ==
    [p \in Paths |-> {Bytes(Left(f)) : f \in kept[p]} \cup
                     (IF dirs[Dir(p)] = "new" THEN {None} ELSE {})]

Request ==
    [c \in Callers |-> IF job[c] = None THEN None ELSE [path |-> Path(c), bytes |-> job[c].bytes]]

Store == INSTANCE ObjectStore WITH
    stored <- ReadBytes, remains <- MayRemain, request <- Request,
    done <- {c \in Callers : pc[c] = "sync"}

\* The store is durably linearizable: each call takes effect at one instant, and
\* a power failure leaves what was acknowledged last or was stored later.
ImplementsObjectStore == Store!Spec

\* Every call returns: nobody waits for a lock that is never released.
CallsReturn == \A c \in Callers : pc[c] # "idle" ~> pc[c] = "idle"

=============================================================================
