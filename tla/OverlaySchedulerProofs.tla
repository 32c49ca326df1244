----------------------- MODULE OverlaySchedulerProofs -----------------------
(***************************************************************************)
(* Proofs about OverlayScheduler, for any overlays and writes: the ready   *)
(* list holds exactly the eligible overlays, first come first served, and  *)
(* the scheduler implements a queue for each overlay.                      *)
(***************************************************************************)
EXTENDS OverlayScheduler, SequenceTheorems, TLAPS

Invariant == TypeOK /\ EligibleIsReady

\* No entry of the list is active, so take_ready yields the first.
LEMMA FirstIsTaken ==
    ASSUME Invariant, NEW k \in 1 .. Len(ready), TakeReady(k)
    PROVE  /\ k = 1 /\ ready # <<>>
           /\ ready[1] \in Overlays /\ ready[1] \notin active /\ queues[ready[1]] # <<>>
           /\ ready' = Tail(ready)
           /\ readySet' = readySet \ {ready[1]}
           /\ queues' = [queues EXCEPT ![ready[1]] = Tail(queues[ready[1]])]
           /\ active' = active \cup {ready[1]}
<1>1. ready \in Seq(Overlays) /\ Len(ready) \in Nat /\ ready # <<>> /\ 1 \in 1 .. Len(ready)
  BY DEF Invariant, TypeOK
<1>2. ready[1] \in readySet /\ ready[1] \in Overlays
  BY <1>1 DEF Invariant, TypeOK, Listed
<1>3. ready[1] \notin active /\ queues[ready[1]] # <<>>
  BY <1>2 DEF Invariant, EligibleIsReady
<1>4. k = 1
  <2>1. CASE k # 1
    <3>1. 1 \in 1 .. k - 1
      BY <1>1, <2>1
    <3>. QED BY <1>3, <3>1 DEF TakeReady, Pops
  <2>. QED BY <2>1
<1>5. Yields(ready[1])
  BY <1>3 DEF Yields
<1>6. readySet' = readySet \ {ready[1]}
  BY <1>4 DEF TakeReady, Unmarked
<1>7. ready' = Tail(ready)
  <2>1. ready' = SubSeq(ready, 2, Len(ready))
    BY <1>4 DEF TakeReady
  <2>. QED BY <1>1, <2>1, TailIsSubSeq
<1>. QED BY <1>1, <1>2, <1>3, <1>4, <1>5, <1>6, <1>7 DEF TakeReady, Rest

\* What MarkReady does to an overlay that is not in the list.
LEMMA MarkReadyAppends ==
    ASSUME TypeOK, NEW o \in Overlays, o \notin readySet, MarkReady(o)
    PROVE  /\ ready' = Append(ready, o) /\ ready' \in Seq(Overlays)
           /\ readySet' = readySet \cup {o}
           /\ readySet' = Listed'
           /\ \A j, k \in 1 .. Len(ready') : ready'[j] = ready'[k] => j = k
<1>1. ready' = Append(ready, o) /\ ready \in Seq(Overlays) /\ readySet' = readySet \cup {o}
  BY DEF MarkReady, TypeOK
<1>2. /\ ready' \in Seq(Overlays) /\ Len(ready') = Len(ready) + 1 /\ Len(ready) \in Nat
      /\ ready'[Len(ready) + 1] = o
      /\ \A k \in 1 .. Len(ready) : ready'[k] = ready[k]
  BY <1>1
<1>3. readySet' = Listed'
  BY <1>1, <1>2 DEF Listed, TypeOK
<1>4. \A k \in 1 .. Len(ready) : ready[k] # o
  BY DEF TypeOK, Listed
<1>5. ASSUME NEW j \in 1 .. Len(ready'), NEW k \in 1 .. Len(ready'), ready'[j] = ready'[k]
      PROVE  j = k
  <2>1. CASE j \in 1 .. Len(ready) /\ k \in 1 .. Len(ready)
    BY <1>2, <1>5, <2>1 DEF TypeOK
  <2>2. CASE j = Len(ready) + 1 \/ k = Len(ready) + 1
    BY <1>2, <1>4, <1>5, <2>2
  <2>. QED BY <1>2, <2>1, <2>2
<1>. QED BY <1>1, <1>2, <1>3, <1>5

\* Queueing makes an idle overlay eligible, and puts it in the list.
LEMMA EnqueueStep ==
    ASSUME Invariant, NEW o \in Overlays, NEW w \in Writes, Enqueue(o, w) PROVE Invariant'
<1>1. /\ queues' = [queues EXCEPT ![o] = Append(queues[o], w)] /\ active' = active
      /\ queues \in [Overlays -> Seq(Writes)]
  BY DEF Enqueue, Invariant, TypeOK
<1>2. /\ queues' \in [Overlays -> Seq(Writes)]
      /\ queues'[o] # <<>>
      /\ \A p \in Overlays \ {o} : queues'[p] = queues[p]
  BY <1>1
<1>3. CASE BecomesReady(o) /\ MarkReady(o)
  <2>1. o \notin readySet /\ o \notin active
    BY <1>3 DEF BecomesReady, Invariant, EligibleIsReady
  <2>2. /\ ready' \in Seq(Overlays) /\ readySet' = readySet \cup {o} /\ readySet' = Listed'
        /\ \A j, k \in 1 .. Len(ready') : ready'[j] = ready'[k] => j = k
    BY <1>3, <2>1, MarkReadyAppends DEF Invariant
  <2>3. EligibleIsReady'
    BY <1>1, <1>2, <2>1, <2>2 DEF Invariant, EligibleIsReady
  <2>. QED BY <1>1, <1>2, <2>2, <2>3 DEF Invariant, TypeOK
<1>4. CASE ~BecomesReady(o) /\ UNCHANGED <<ready, readySet>>
  <2>1. TypeOK'
    BY <1>1, <1>2, <1>4 DEF Invariant, TypeOK, Listed
  <2>2. EligibleIsReady'
    BY <1>1, <1>2, <1>4 DEF Invariant, EligibleIsReady, BecomesReady
  <2>. QED BY <2>1, <2>2 DEF Invariant
<1>. QED BY <1>3, <1>4 DEF Enqueue

\* The overlay that is yielded becomes active and leaves the list.
LEMMA TakeStep ==
    ASSUME Invariant, NEW k \in 1 .. Len(ready), TakeReady(k) PROVE Invariant'
<1>. DEFINE o == ready[1]
<1>1. /\ k = 1 /\ ready # <<>>
      /\ o \in Overlays /\ o \notin active /\ queues[o] # <<>>
      /\ ready' = Tail(ready) /\ readySet' = readySet \ {o}
      /\ queues' = [queues EXCEPT ![o] = Tail(queues[o])]
      /\ active' = active \cup {o}
  BY FirstIsTaken
<1>2. ready \in Seq(Overlays) /\ queues \in [Overlays -> Seq(Writes)] /\ Len(ready) \in Nat
  BY DEF Invariant, TypeOK
<1>3. /\ ready' \in Seq(Overlays) /\ Len(ready') = Len(ready) - 1
      /\ \A j \in 1 .. Len(ready') : ready'[j] = ready[j + 1]
  BY <1>1, <1>2
<1>4. queues' \in [Overlays -> Seq(Writes)] /\ \A p \in Overlays \ {o} : queues'[p] = queues[p]
  <2>1. Tail(queues[o]) \in Seq(Writes)
    BY <1>1, <1>2
  <2>. QED BY <1>1, <1>2, <2>1
<1>5. \A i, j \in 1 .. Len(ready) : ready[i] = ready[j] => i = j
  BY DEF Invariant, TypeOK
<1>6. readySet' = Listed'
  <2>1. \A j \in 1 .. Len(ready') : ready'[j] \in readySet'
    <3>. SUFFICES ASSUME NEW j \in 1 .. Len(ready') PROVE ready'[j] \in readySet'
      OBVIOUS
    <3>1. j + 1 \in 1 .. Len(ready) /\ j + 1 # 1 /\ 1 \in 1 .. Len(ready)
      BY <1>2, <1>3
    <3>2. ready[j + 1] # o /\ ready[j + 1] \in readySet
      BY <1>5, <3>1 DEF Invariant, TypeOK, Listed
    <3>. QED BY <1>1, <1>3, <3>2
  <2>2. ASSUME NEW p \in readySet' PROVE \E j \in 1 .. Len(ready') : ready'[j] = p
    <3>1. PICK j \in 1 .. Len(ready) : ready[j] = p
      BY <1>1, <2>2 DEF Invariant, TypeOK, Listed
    <3>2. j # 1
      BY <1>1, <2>2, <3>1
    <3>3. j - 1 \in 1 .. Len(ready') /\ ready'[j - 1] = ready[(j - 1) + 1]
      BY <1>2, <1>3, <3>1, <3>2
    <3>. QED BY <3>1, <3>3
  <2>. QED BY <2>1, <2>2 DEF Listed
<1>7. \A i, j \in 1 .. Len(ready') : ready'[i] = ready'[j] => i = j
  <2>. SUFFICES ASSUME NEW i \in 1 .. Len(ready'), NEW j \in 1 .. Len(ready'), ready'[i] = ready'[j]
                PROVE  i = j
    OBVIOUS
  <2>0. i + 1 \in 1 .. Len(ready) /\ j + 1 \in 1 .. Len(ready)
    BY <1>2, <1>3
  <2>1. ready'[i] = ready[i + 1] /\ ready'[j] = ready[j + 1]
    BY <1>3
  <2>2. i + 1 = j + 1
    BY <1>5, <2>0, <2>1
  <2>. QED BY <2>2
<1>8. TypeOK'
  BY <1>1, <1>3, <1>4, <1>6, <1>7 DEF Invariant, TypeOK
<1>9. EligibleIsReady'
  BY <1>1, <1>2, <1>4 DEF Invariant, EligibleIsReady
<1>. QED BY <1>8, <1>9 DEF Invariant

\* An overlay that completes is eligible again if it has work.
LEMMA CompleteStep == ASSUME Invariant, NEW o \in Overlays, Complete(o) PROVE Invariant'
<1>1. o \in active /\ active' = active \ {o} /\ queues' = queues /\ o \notin readySet
  BY DEF Complete, Invariant, EligibleIsReady
<1>2. CASE queues[o] # <<>> /\ MarkReady(o)
  <2>1. /\ ready' \in Seq(Overlays) /\ readySet' = readySet \cup {o} /\ readySet' = Listed'
        /\ \A j, k \in 1 .. Len(ready') : ready'[j] = ready'[k] => j = k
    BY <1>1, <1>2, MarkReadyAppends DEF Invariant
  <2>2. EligibleIsReady'
    BY <1>1, <1>2, <2>1 DEF Invariant, EligibleIsReady
  <2>. QED BY <1>1, <2>1, <2>2 DEF Invariant, TypeOK
<1>3. CASE queues[o] = <<>> /\ UNCHANGED <<ready, readySet>>
  <2>1. TypeOK'
    BY <1>1, <1>3 DEF Invariant, TypeOK, Listed
  <2>2. EligibleIsReady'
    BY <1>1, <1>3 DEF Invariant, EligibleIsReady
  <2>. QED BY <2>1, <2>2 DEF Invariant
<1>. QED BY <1>2, <1>3 DEF Complete

\* Initially there is no work.
LEMMA InitInvariant == Init => Invariant
BY DEF Init, Invariant, TypeOK, Listed, EligibleIsReady

\* Every step keeps the invariant.
LEMMA StepInvariant == Invariant /\ [Next]_vars => Invariant'
<1>. SUFFICES ASSUME Invariant, [Next]_vars PROVE Invariant'
  OBVIOUS
<1>1. CASE \E o \in Overlays, w \in Writes : Enqueue(o, w)
  BY <1>1, EnqueueStep
<1>2. CASE Take
  BY <1>2, TakeStep DEF Take
<1>3. CASE \E o \in Overlays : Complete(o)
  BY <1>3, CompleteStep
<1>4. CASE UNCHANGED vars
  BY <1>4 DEF vars, Invariant, TypeOK, Listed, EligibleIsReady
<1>. QED BY <1>1, <1>2, <1>3, <1>4 DEF Next

\* The invariant that the theorems below share.
LEMMA AlwaysInvariant == Spec => []Invariant
BY InitInvariant, StepInvariant, PTL DEF Spec

-----------------------------------------------------------------------------
(***************************************************************************)
(* The theorems.                                                           *)
(***************************************************************************)
\* The ready list and its set always agree and have no duplicates.
THEOREM TypeCorrect == Spec => []TypeOK
<1>1. Invariant => TypeOK
  BY DEF Invariant
<1>. QED BY <1>1, AlwaysInvariant, PTL

\* No overlay with queued work is forgotten, none is listed while it is active.
THEOREM NoOverlayIsForgotten == Spec => []EligibleIsReady
<1>1. Invariant => EligibleIsReady
  BY DEF Invariant
<1>. QED BY <1>1, AlwaysInvariant, PTL

\* The list is first come, first served: MarkReady appends and take_ready
\* removes the first entry, so nothing gets in front of what waits.
THEOREM FirstComeFirstServed == Spec => NoOvertaking
<1>1. ASSUME Invariant, Next, NEW o \in readySet, NEW p \in Overlays, Ahead(p, o)'
      PROVE  Ahead(p, o)
  <2>1. ready \in Seq(Overlays) /\ Len(ready) \in Nat
    BY <1>1 DEF Invariant, TypeOK
  <2>2. PICK i, j \in 1 .. Len(ready') : i < j /\ ready'[i] = p /\ ready'[j] = o
    BY <1>1 DEF Ahead
  <2>3. ASSUME NEW q \in Overlays, q \notin readySet, MarkReady(q) PROVE Ahead(p, o)
    <3>1. ready' = Append(ready, q) /\ q # o
      BY <1>1, <2>3 DEF MarkReady
    <3>2. j \in 1 .. Len(ready) /\ i \in 1 .. Len(ready)
      BY <2>1, <2>2, <3>1
    <3>3. ready[i] = p /\ ready[j] = o
      BY <2>1, <2>2, <3>1, <3>2
    <3>. QED BY <2>2, <3>2, <3>3 DEF Ahead
  <2>4. CASE UNCHANGED ready
    BY <1>1, <2>4 DEF Ahead
  <2>5. CASE \E q \in Overlays, w \in Writes : Enqueue(q, w)
    <3>1. PICK q \in Overlays, w \in Writes : Enqueue(q, w)
      BY <2>5
    <3>2. BecomesReady(q) => q \notin readySet
      BY <1>1 DEF BecomesReady, Invariant, EligibleIsReady
    <3>. QED BY <2>3, <2>4, <3>1, <3>2 DEF Enqueue
  <2>6. CASE \E q \in Overlays : Complete(q)
    <3>1. PICK q \in Overlays : Complete(q)
      BY <2>6
    <3>2. q \notin readySet
      BY <1>1, <3>1 DEF Complete, Invariant, EligibleIsReady
    <3>. QED BY <2>3, <2>4, <3>1, <3>2 DEF Complete
  <2>7. CASE Take
    <3>1. ready # <<>> /\ ready' = Tail(ready)
      BY <1>1, <2>7, FirstIsTaken DEF Take
    <3>2. i + 1 \in 1 .. Len(ready) /\ j + 1 \in 1 .. Len(ready) /\ i + 1 < j + 1
      BY <2>1, <2>2, <3>1
    <3>3. ready[i + 1] = p /\ ready[j + 1] = o
      BY <2>1, <2>2, <3>1, <3>2
    <3>. QED BY <3>2, <3>3 DEF Ahead
  <2>. QED BY <1>1, <2>5, <2>6, <2>7 DEF Next
<1>2. Invariant /\ [Next]_vars =>
          [\A o \in readySet, p \in Overlays : Ahead(p, o)' => Ahead(p, o)]_vars
  BY <1>1
<1>. QED BY <1>2, AlwaysInvariant, PTL DEF Spec, NoOvertaking

\* Each method is the step of the same name of OverlayQueues: writes of an
\* overlay are yielded in order, one at a time.
THEOREM SchedulerImplementsQueues == Spec => ImplementsQueues
<1>1. Init => Queues!Init
  BY DEF Init, Queues!Init
<1>2. ASSUME Invariant, [Next]_vars PROVE [Queues!Next]_(Queues!vars)
  <2>1. ASSUME NEW o \in Overlays, NEW w \in Writes, Enqueue(o, w) PROVE Queues!Next
    BY <2>1 DEF Enqueue, Queues!Next, Queues!Enqueue
  <2>2. ASSUME NEW k \in 1 .. Len(ready), TakeReady(k) PROVE Queues!Next
    <3>1. Queues!Yield(ready[1]) /\ ready[1] \in Overlays
      BY <1>2, <2>2, FirstIsTaken DEF Queues!Yield
    <3>. QED BY <3>1 DEF Queues!Next
  <2>3. ASSUME NEW o \in Overlays, Complete(o) PROVE Queues!Next
    BY <2>3 DEF Complete, Queues!Next, Queues!Complete
  <2>4. CASE UNCHANGED vars
    BY <2>4 DEF vars, Queues!vars
  <2>. QED BY <1>2, <2>1, <2>2, <2>3, <2>4 DEF Next, Take
<1>. QED BY <1>1, <1>2, AlwaysInvariant, PTL DEF Spec, ImplementsQueues, Queues!Spec

=============================================================================
