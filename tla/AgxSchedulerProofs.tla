------------------------- MODULE AgxSchedulerProofs -------------------------
(***************************************************************************)
(* Proofs about the fence scheduler for every range of identifiers, every  *)
(* queue capacity and every set of preemption identifiers.                 *)
(*                                                                         *)
(* The inductive invariant is the chain of fences in wrapping order        *)
(* (FencesOrdered) together with the agreement of the preemption handshake *)
(* with the queue (PhaseCoherent, NotificationAccurate).  Neither half is  *)
(* inductive alone: a completion preserves the chain only because the      *)
(* completed fence is the one in front of it, and the handshake only       *)
(* because the chain puts the active fence inside the window.              *)
(***************************************************************************)
EXTENDS AgxScheduler, FiniteSetTheorems, WellFoundedInduction, TLAPS

IInv ==
    /\ TypeOK
    /\ FencesOrdered
    /\ HeadCached
    /\ PhaseCoherent
    /\ NotificationAccurate

-----------------------------------------------------------------------------
(* Wrapping arithmetic.                                                    *)

\* Unsigned subtraction (the first line of FenceAfter) yields a value below the
\* modulus, and zero only for equal operands.
LEMMA DistanceType ==
    ASSUME NEW a \in Fence, NEW b \in Fence
    PROVE  /\ Distance(a, b) \in Nat
           /\ Distance(a, b) < Modulus
           /\ Distance(a, b) = 0 <=> a = b
    BY HalfRangeAssumption DEF Distance, Fence, Modulus

\* Seen from c, the distance from b to a later a is the difference of the two
\* distances: why moving CompletedFence forward keeps the order of fences.
LEMMA DistanceShift ==
    ASSUME NEW a \in Fence, NEW b \in Fence, NEW c \in Fence,
           Distance(b, c) <= Distance(a, c)
    PROVE  Distance(a, b) = Distance(a, c) - Distance(b, c)
    BY HalfRangeAssumption DEF Distance, Fence, Modulus

\* Going to b and on from there to a, without passing half the range in all, is
\* going to a.
LEMMA DistanceChain ==
    ASSUME NEW a \in Fence, NEW b \in Fence, NEW c \in Fence,
           Distance(a, b) < HalfRange, Distance(b, c) < HalfRange,
           Distance(a, c) < HalfRange
    PROVE  Distance(a, c) = Distance(a, b) + Distance(b, c)
    BY HalfRangeAssumption DEF Distance, Fence, Modulus

\* Two fences at the same distance from the completed one are the same fence.
LEMMA DistanceInjective ==
    ASSUME NEW a \in Fence, NEW b \in Fence, NEW c \in Fence,
           Distance(a, c) = Distance(b, c)
    PROVE  a = b
    BY HalfRangeAssumption DEF Distance, Fence, Modulus

\* NoFence is a fence identifier.
LEMMA NoFenceIsFence == NoFence \in Fence
    BY HalfRangeAssumption DEF Fence, NoFence, Modulus

-----------------------------------------------------------------------------
(* The invariant holds initially and every action preserves it.            *)

\* AppleAgxSchedulerInitialize establishes the invariant.
LEMMA InitIInv == Init => IInv
  <1> SUFFICES ASSUME Init PROVE IInv
      OBVIOUS
  <1>1. Distance(NoFence, NoFence) = 0
      BY NoFenceIsFence, DistanceType
  <1>2. TypeOK
      BY NoFenceIsFence, CapacityAssumption
      DEF Init, TypeOK, PreemptionType, NoPreemption
  <1>3. FencesOrdered
      BY <1>1, HalfRangeAssumption
      DEF Init, FencesOrdered, ActiveInWindow, QueueOrdered, OwedOrdered, Ahead
  <1>4. HeadCached /\ PhaseCoherent /\ NotificationAccurate
      BY DEF Init, HeadCached, HeadOrNone, PhaseCoherent, NotificationAccurate,
             NoPreemption, Idle, WaitCurrentBoundary, ReadyToNotify,
             NotificationClaimed
  <1> QED
      BY <1>2, <1>3, <1>4 DEF IInv

\* What FenceAfter(fence, LastSubmittedFence) and the window say of a new fence:
\* it lies beyond everything submitted so far.
LEMMA NewFenceLast ==
    ASSUME TypeOK, FencesOrdered, NEW fence \in Fence,
           WithinWindow(fence), FenceAfter(fence, LastSubmittedFence)
    PROVE  Ahead(LastSubmittedFence) < Ahead(fence)
  <1>1. Ahead(fence) = Distance(fence, LastSubmittedFence) + Ahead(LastSubmittedFence)
      BY DistanceChain
      DEF TypeOK, FencesOrdered, ActiveInWindow, WithinWindow, FenceAfter, Ahead
  <1>2. Distance(fence, LastSubmittedFence) \in Nat \ {0}
      BY DistanceType DEF TypeOK, FenceAfter
  <1>3. Ahead(LastSubmittedFence) \in Nat
      BY DistanceType DEF TypeOK, Ahead
  <1> QED
      BY <1>1, <1>2, <1>3

\* Submitting a new fence preserves the invariant.
LEMMA QueueFenceIInv ==
    ASSUME IInv, NEW fence \in Fence, NEW paging \in BOOLEAN,
           QueueFence(fence, paging)
    PROVE  IInv'
  <1>1. Ahead(LastSubmittedFence) < Ahead(fence)
      BY NewFenceLast DEF IInv, QueueFence, SchedQueueFence, MayQueueFence
  <1>2. /\ \A g \in Fence : Ahead(g) \in Nat
        /\ Ahead(fence) < HalfRange
      BY DistanceType DEF IInv, TypeOK, Ahead, QueueFence, WithinWindow
  <1>3. TypeOK'
      BY CapacityAssumption
      DEF IInv, TypeOK, QueueFence, SchedQueueFence, MayQueueFence, PushFence
  <1>4. FencesOrdered'
    <2>1. CompletedFence' = CompletedFence /\ ActiveFence' = ActiveFence
          /\ LastSubmittedFence' = fence /\ FenceQueue' = Append(FenceQueue, fence)
          /\ Owed' = {} /\ fence # NoFence
        BY DEF QueueFence, SchedQueueFence, MayQueueFence, PushFence
    <2>2. ActiveInWindow'
        BY <1>1, <1>2, <2>1
        DEF IInv, TypeOK, FencesOrdered, ActiveInWindow, Ahead
    <2>3. QueueOrdered'
      <3>1. ASSUME NEW i \in 1 .. Len(FenceQueue')
            PROVE  /\ FenceQueue'[i] # NoFence
                   /\ FenceQueue'[i] \in Fence
                   /\ Ahead(FenceQueue'[i]) \in 1 .. Ahead(fence)
                   /\ ActiveFence # NoFence => Ahead(ActiveFence) < Ahead(FenceQueue'[i])
        <4>1. CASE i <= Len(FenceQueue)
            BY <1>1, <1>2, <2>1, <3>1, <4>1
            DEF IInv, TypeOK, FencesOrdered, QueueOrdered
        <4>2. CASE i = Len(FenceQueue) + 1
            BY <1>1, <1>2, <2>1, <3>1, <4>2
            DEF IInv, TypeOK, FencesOrdered, ActiveInWindow
        <4> QED
            BY <2>1, <4>1, <4>2 DEF IInv, TypeOK
      <3>2. ASSUME NEW i \in 1 .. Len(FenceQueue'), NEW j \in 1 .. Len(FenceQueue'),
                   i < j
            PROVE  Ahead(FenceQueue'[i]) < Ahead(FenceQueue'[j])
        <4>1. i \in 1 .. Len(FenceQueue) /\ FenceQueue'[i] = FenceQueue[i]
            BY <2>1, <3>2 DEF IInv, TypeOK
        <4>2. Ahead(FenceQueue[i]) <= Ahead(LastSubmittedFence)
            BY <1>2, <4>1 DEF IInv, TypeOK, FencesOrdered, QueueOrdered
        <4>3. CASE j <= Len(FenceQueue)
            BY <2>1, <3>2, <4>1, <4>3 DEF IInv, TypeOK, FencesOrdered, QueueOrdered
        <4>4. CASE j = Len(FenceQueue) + 1
            BY <1>1, <1>2, <2>1, <3>2, <4>1, <4>2, <4>4 DEF IInv, TypeOK
        <4> QED
            BY <2>1, <4>3, <4>4 DEF IInv, TypeOK
      <3> QED
          BY <2>1, <3>1, <3>2 DEF QueueOrdered, Ahead
    <2>4. OwedOrdered'
        BY <2>1 DEF OwedOrdered
    <2> QED
        BY <2>2, <2>3, <2>4 DEF FencesOrdered
  <1>5. HeadCached'
      BY DEF IInv, TypeOK, HeadCached, HeadOrNone, QueueFence, SchedQueueFence,
             PushFence
  <1>6. PhaseCoherent' /\ NotificationAccurate'
      BY DEF IInv, TypeOK, PreemptionType, PhaseCoherent, NotificationAccurate,
             QueueFence, SchedQueueFence, MayQueueFence, AdmissionBlocked, PushFence,
             Idle, WaitCurrentBoundary, ReadyToNotify, NotificationClaimed
  <1> QED
      BY <1>3, <1>4, <1>5, <1>6 DEF IInv

\* Submitting an owed paging fence again preserves the invariant: it goes behind
\* everything already queued and in front of what is still owed.
LEMMA QueueResubmittedIInv ==
    ASSUME IInv, NEW fence \in Fence, QueueResubmittedPagingFence(fence)
    PROVE  IInv'
  <1>1. /\ CompletedFence' = CompletedFence /\ ActiveFence' = ActiveFence
        /\ LastSubmittedFence' = LastSubmittedFence
        /\ FenceQueue' = Append(FenceQueue, fence)
        /\ Owed' = Owed \ {fence} /\ fence \in Owed
      BY DEF QueueResubmittedPagingFence, NextOwed, SchedQueueResubmittedPagingFence,
             PushFence
  <1>2. \A g \in Fence : Ahead(g) \in Nat
      BY DistanceType DEF IInv, TypeOK, Ahead
  <1>3. TypeOK'
      BY CapacityAssumption
      DEF IInv, TypeOK, QueueResubmittedPagingFence, NextOwed,
          SchedQueueResubmittedPagingFence, MayQueueResubmittedPagingFence, PushFence
  <1>4. FencesOrdered'
    <2>1. /\ fence # NoFence
          /\ Ahead(fence) \in 1 .. Ahead(LastSubmittedFence)
          /\ ActiveFence # NoFence => Ahead(ActiveFence) < Ahead(fence)
          /\ \A i \in 1 .. Len(FenceQueue) : Ahead(FenceQueue[i]) < Ahead(fence)
        BY <1>1 DEF IInv, FencesOrdered, OwedOrdered
    <2>2. ActiveInWindow'
        BY <1>1 DEF IInv, FencesOrdered, ActiveInWindow, Ahead
    <2>3. QueueOrdered'
      <3>1. ASSUME NEW i \in 1 .. Len(FenceQueue')
            PROVE  /\ FenceQueue'[i] # NoFence
                   /\ Ahead(FenceQueue'[i]) \in 1 .. Ahead(LastSubmittedFence)
                   /\ ActiveFence # NoFence => Ahead(ActiveFence) < Ahead(FenceQueue'[i])
        <4>1. CASE i <= Len(FenceQueue)
            BY <1>1, <3>1, <4>1 DEF IInv, TypeOK, FencesOrdered, QueueOrdered
        <4>2. CASE i = Len(FenceQueue) + 1
            BY <1>1, <2>1, <3>1, <4>2 DEF IInv, TypeOK
        <4> QED
            BY <1>1, <4>1, <4>2 DEF IInv, TypeOK
      <3>2. ASSUME NEW i \in 1 .. Len(FenceQueue'), NEW j \in 1 .. Len(FenceQueue'),
                   i < j
            PROVE  Ahead(FenceQueue'[i]) < Ahead(FenceQueue'[j])
        <4>1. i \in 1 .. Len(FenceQueue) /\ FenceQueue'[i] = FenceQueue[i]
            BY <1>1, <3>2 DEF IInv, TypeOK
        <4>2. CASE j <= Len(FenceQueue)
            BY <1>1, <3>2, <4>1, <4>2 DEF IInv, TypeOK, FencesOrdered, QueueOrdered
        <4>3. CASE j = Len(FenceQueue) + 1
            BY <1>1, <2>1, <3>2, <4>1, <4>3 DEF IInv, TypeOK
        <4> QED
            BY <1>1, <4>2, <4>3 DEF IInv, TypeOK
      <3> QED
          BY <1>1, <3>1, <3>2 DEF QueueOrdered, Ahead
    <2>4. OwedOrdered'
      <3>1. ASSUME NEW g \in Owed'
            PROVE  Ahead(fence) < Ahead(g)
        <4>1. g \in Owed /\ g # fence /\ g \in Fence
            BY <1>1, <3>1 DEF IInv, TypeOK
        <4>2. Ahead(fence) <= Ahead(g)
            BY <4>1 DEF QueueResubmittedPagingFence, NextOwed
        <4>3. Ahead(fence) # Ahead(g)
            BY <4>1, DistanceInjective DEF IInv, TypeOK, Ahead
        <4> QED
            BY <1>2, <4>1, <4>2, <4>3
      <3>2. ASSUME NEW g \in Owed', NEW i \in 1 .. Len(FenceQueue')
            PROVE  Ahead(FenceQueue'[i]) < Ahead(g)
        <4>1. CASE i <= Len(FenceQueue)
            BY <1>1, <3>2, <4>1 DEF IInv, TypeOK, FencesOrdered, OwedOrdered
        <4>2. CASE i = Len(FenceQueue) + 1
            BY <1>1, <3>1, <3>2, <4>2 DEF IInv, TypeOK
        <4> QED
            BY <1>1, <4>1, <4>2 DEF IInv, TypeOK
      <3> QED
          BY <1>1, <3>2 DEF IInv, FencesOrdered, OwedOrdered, Ahead
    <2> QED
        BY <2>2, <2>3, <2>4 DEF FencesOrdered
  <1>5. HeadCached'
      BY DEF IInv, TypeOK, HeadCached, HeadOrNone, QueueResubmittedPagingFence,
             SchedQueueResubmittedPagingFence, PushFence
  <1>6. PhaseCoherent' /\ NotificationAccurate'
      BY DEF IInv, TypeOK, PreemptionType, PhaseCoherent, NotificationAccurate,
             QueueResubmittedPagingFence, SchedQueueResubmittedPagingFence,
             MayQueueResubmittedPagingFence, AdmissionBlocked, PushFence,
             Idle, WaitCurrentBoundary, ReadyToNotify, NotificationClaimed
  <1> QED
      BY <1>3, <1>4, <1>5, <1>6 DEF IInv

\* Starting the head of the queue preserves the invariant: the rest of the queue
\* lies behind the fence that becomes active.
LEMMA ActivateIInv ==
    ASSUME IInv, NEW fence \in Fence, ActivateFence(fence)
    PROVE  IInv'
  <1>1. /\ FenceQueue # <<>> /\ fence = Head(FenceQueue) /\ fence # NoFence
        /\ CompletedFence' = CompletedFence /\ ActiveFence' = fence
        /\ LastSubmittedFence' = LastSubmittedFence
        /\ FenceQueue' = Tail(FenceQueue)
        /\ Owed' = Owed /\ PagingFences' = PagingFences /\ Preemption' = Preemption
      BY DEF IInv, HeadCached, HeadOrNone, ActivateFence, SchedActivateFence,
             MayActivateFence, vidschVars
  <1>2. /\ Len(FenceQueue') = Len(FenceQueue) - 1
        /\ fence = FenceQueue[1] /\ 1 \in 1 .. Len(FenceQueue)
        /\ \A i \in 1 .. Len(FenceQueue') :
             i + 1 \in 1 .. Len(FenceQueue) /\ FenceQueue'[i] = FenceQueue[i + 1]
      BY <1>1 DEF IInv, TypeOK
  <1>3. TypeOK'
    <2>1. QueuedFence' \in Fence
        BY <1>1, NoFenceIsFence
        DEF IInv, TypeOK, ActivateFence, SchedActivateFence, HeadOrNone
    <2> QED
        BY <1>1, <2>1, CapacityAssumption DEF IInv, TypeOK
  <1>4. FencesOrdered'
    <2>1. ActiveInWindow'
        BY <1>1, <1>2 DEF IInv, FencesOrdered, ActiveInWindow, QueueOrdered, Ahead
    <2>2. QueueOrdered'
      <3>1. ASSUME NEW i \in 1 .. Len(FenceQueue')
            PROVE  /\ FenceQueue'[i] # NoFence
                   /\ Ahead(FenceQueue'[i]) \in 1 .. Ahead(LastSubmittedFence)
                   /\ Ahead(fence) < Ahead(FenceQueue'[i])
          BY <1>2, <3>1 DEF IInv, FencesOrdered, QueueOrdered
      <3>2. ASSUME NEW i \in 1 .. Len(FenceQueue'), NEW j \in 1 .. Len(FenceQueue'),
                   i < j
            PROVE  Ahead(FenceQueue'[i]) < Ahead(FenceQueue'[j])
        <4>1. /\ i + 1 \in 1 .. Len(FenceQueue) /\ FenceQueue'[i] = FenceQueue[i + 1]
              /\ j + 1 \in 1 .. Len(FenceQueue) /\ FenceQueue'[j] = FenceQueue[j + 1]
            BY <1>2, <3>2
        <4>2. i + 1 < j + 1
            BY <3>2
        <4> QED
            BY <4>1, <4>2 DEF IInv, FencesOrdered, QueueOrdered
      <3> QED
          BY <1>1, <3>1, <3>2 DEF QueueOrdered, Ahead
    <2>3. OwedOrdered'
        BY <1>1, <1>2 DEF IInv, FencesOrdered, OwedOrdered, Ahead
    <2> QED
        BY <2>1, <2>2, <2>3 DEF FencesOrdered
  <1>5. HeadCached'
      BY DEF HeadCached, ActivateFence, SchedActivateFence
  <1>6. PhaseCoherent' /\ NotificationAccurate'
      BY <1>1
      DEF IInv, PhaseCoherent, NotificationAccurate, ActivateFence,
          SchedActivateFence, MayActivateFence, DispatchBlocked,
          Idle, WaitCurrentBoundary, ReadyToNotify, NotificationClaimed
  <1> QED
      BY <1>3, <1>4, <1>5, <1>6 DEF IInv

\* The active fence's completion preserves the invariant: the window's origin
\* moves to that fence, and everything behind it comes closer by the same amount.
LEMMA RecordCompletionIInv ==
    ASSUME IInv, NEW fence \in Fence, RecordCompletion(fence)
    PROVE  IInv'
  <1>1. /\ ActiveFence = fence /\ fence # NoFence
        /\ CompletedFence' = fence /\ ActiveFence' = NoFence
        /\ LastSubmittedFence' = LastSubmittedFence
        /\ FenceQueue' = FenceQueue /\ QueuedFence' = QueuedFence
        /\ Owed' = Owed /\ PagingFences' = PagingFences \ {fence}
      BY DEF RecordCompletion, SchedRecordCompletion, CanCompleteActiveFence,
             CanCompleteFence
  <1>2. \A g \in Fence : Ahead(g) \in Nat
      BY DistanceType DEF IInv, TypeOK, Ahead
  <1>3. ASSUME NEW g \in Fence, Ahead(fence) <= Ahead(g)
        PROVE  Distance(g, fence) = Ahead(g) - Ahead(fence)
      BY <1>3, DistanceShift DEF IInv, TypeOK, Ahead
  <1>4. Preemption' \in PreemptionType
    <2>1. CASE Preemption.Phase = WaitCurrentBoundary
      <3>1. Preemption' = BoundaryObserved(fence)
          BY <2>1 DEF RecordCompletion, SchedRecordCompletion
      <3> QED
          BY <3>1, NoFenceIsFence DEF IInv, TypeOK, PreemptionType, BoundaryObserved
    <2>2. CASE Preemption.Phase # WaitCurrentBoundary
        BY <2>2 DEF IInv, TypeOK, RecordCompletion, SchedRecordCompletion
    <2> QED
        BY <2>1, <2>2
  <1>5. TypeOK'
      BY <1>1, <1>4, NoFenceIsFence DEF IInv, TypeOK
  <1>6. FencesOrdered'
    <2>1. Ahead(fence) \in 1 .. Ahead(LastSubmittedFence)
          /\ Ahead(LastSubmittedFence) < HalfRange
        BY <1>1 DEF IInv, FencesOrdered, ActiveInWindow
    <2>2. Distance(LastSubmittedFence, fence)
            = Ahead(LastSubmittedFence) - Ahead(fence)
        BY <1>2, <1>3, <2>1 DEF IInv, TypeOK
    <2>3. ActiveInWindow'
        BY <1>1, <1>2, <2>1, <2>2, HalfRangeAssumption
        DEF IInv, TypeOK, ActiveInWindow, Ahead
    <2>4. ASSUME NEW i \in 1 .. Len(FenceQueue)
          PROVE  /\ FenceQueue[i] \in Fence
                 /\ FenceQueue[i] # NoFence
                 /\ Ahead(fence) < Ahead(FenceQueue[i])
                 /\ Ahead(FenceQueue[i]) <= Ahead(LastSubmittedFence)
                 /\ Distance(FenceQueue[i], fence) = Ahead(FenceQueue[i]) - Ahead(fence)
      <3>1. /\ FenceQueue[i] \in Fence
            /\ FenceQueue[i] # NoFence
            /\ Ahead(fence) < Ahead(FenceQueue[i])
            /\ Ahead(FenceQueue[i]) <= Ahead(LastSubmittedFence)
          BY <1>1, <2>1, <2>4 DEF IInv, TypeOK, FencesOrdered, QueueOrdered
      <3>2. Ahead(fence) <= Ahead(FenceQueue[i])
          BY <1>2, <3>1
      <3> QED
          BY <1>3, <3>1, <3>2
    <2>5. QueueOrdered'
      <3>1. ASSUME NEW i \in 1 .. Len(FenceQueue)
            PROVE  /\ FenceQueue[i] # NoFence
                   /\ Distance(FenceQueue[i], fence)
                        \in 1 .. Distance(LastSubmittedFence, fence)
          BY <1>2, <2>1, <2>2, <2>4, <3>1 DEF IInv, TypeOK
      <3>2. ASSUME NEW i \in 1 .. Len(FenceQueue), NEW j \in 1 .. Len(FenceQueue),
                   i < j
            PROVE  Distance(FenceQueue[i], fence) < Distance(FenceQueue[j], fence)
        <4>1. Ahead(FenceQueue[i]) < Ahead(FenceQueue[j])
            BY <3>2 DEF IInv, FencesOrdered, QueueOrdered
        <4> QED
            BY <1>2, <2>4, <3>2, <4>1
      <3> QED
          BY <1>1, <3>1, <3>2 DEF QueueOrdered, Ahead
    <2>6. OwedOrdered'
      <3>1. ASSUME NEW g \in Owed
            PROVE  /\ g # NoFence
                   /\ Distance(g, fence) \in 1 .. Distance(LastSubmittedFence, fence)
                   /\ \A i \in 1 .. Len(FenceQueue) :
                        Distance(FenceQueue[i], fence) < Distance(g, fence)
        <4>1. /\ g \in Fence /\ g # NoFence
              /\ Ahead(g) \in 1 .. Ahead(LastSubmittedFence)
              /\ Ahead(fence) < Ahead(g)
              /\ \A i \in 1 .. Len(FenceQueue) : Ahead(FenceQueue[i]) < Ahead(g)
            BY <1>1, <3>1 DEF IInv, TypeOK, FencesOrdered, OwedOrdered
        <4>2. Ahead(fence) <= Ahead(g)
            BY <1>2, <4>1
        <4>3. Distance(g, fence) = Ahead(g) - Ahead(fence)
            BY <1>3, <4>1, <4>2
        <4> QED
            BY <1>2, <2>1, <2>2, <2>4, <4>1, <4>3 DEF IInv, TypeOK
      <3> QED
          BY <1>1, <3>1 DEF OwedOrdered, Ahead
    <2> QED
        BY <2>3, <2>5, <2>6 DEF FencesOrdered
  <1>7. HeadCached'
      BY <1>1 DEF IInv, HeadCached, HeadOrNone
  <1>8. PhaseCoherent' /\ NotificationAccurate'
    <2>1. CASE Preemption.Phase = WaitCurrentBoundary
      <3>1. Preemption' = BoundaryObserved(fence)
          BY <2>1 DEF RecordCompletion, SchedRecordCompletion
      <3>2. /\ Preemption'.Phase = ReadyToNotify
            /\ Preemption'.LastCompleted = fence
            /\ Preemption'.Fence = Preemption.Fence
          BY <3>1 DEF IInv, TypeOK, PreemptionType, BoundaryObserved
      <3> QED
          BY <1>1, <2>1, <3>2
          DEF IInv, PhaseCoherent, NotificationAccurate,
              Idle, WaitCurrentBoundary, ReadyToNotify, NotificationClaimed
    <2>2. CASE Preemption.Phase # WaitCurrentBoundary
      <3>1. Preemption' = Preemption /\ Preemption.Phase = Idle
          BY <1>1, <2>2
          DEF IInv, TypeOK, PreemptionType, PhaseCoherent, RecordCompletion,
              SchedRecordCompletion
      <3> QED
          BY <3>1
          DEF IInv, PhaseCoherent, NotificationAccurate,
              Idle, WaitCurrentBoundary, ReadyToNotify, NotificationClaimed
    <2> QED
        BY <2>1, <2>2
  <1> QED
      BY <1>5, <1>6, <1>7, <1>8 DEF IInv

\* Emptying the queue into what is owed keeps the chain, whether the active fence
\* goes on (preemption) or is dropped too (reset).
LEMMA DiscardOrdered ==
    ASSUME IInv, FenceQueue' = <<>>, CompletedFence' = CompletedFence,
           LastSubmittedFence' = LastSubmittedFence,
           ActiveFence' \in {ActiveFence, NoFence},
           Owed' \subseteq Owed \cup Elements(FenceQueue)
    PROVE  FencesOrdered' /\ Owed' \subseteq Fence
  <1>1. ActiveInWindow' /\ QueueOrdered'
      BY DEF IInv, FencesOrdered, ActiveInWindow, QueueOrdered, Ahead
  <1>2. ASSUME NEW g \in Owed'
        PROVE  /\ g \in Fence /\ g # NoFence
               /\ Ahead(g) \in 1 .. Ahead(LastSubmittedFence)
               /\ ActiveFence # NoFence => Ahead(ActiveFence) < Ahead(g)
    <2>1. CASE g \in Owed
        BY <2>1 DEF IInv, TypeOK, FencesOrdered, OwedOrdered
    <2>2. CASE g \in Elements(FenceQueue)
        BY <2>2 DEF IInv, TypeOK, FencesOrdered, QueueOrdered, Elements
    <2> QED
        BY <1>2, <2>1, <2>2
  <1>3. OwedOrdered'
      BY <1>2 DEF OwedOrdered, Ahead
  <1> QED
      BY <1>1, <1>2, <1>3 DEF FencesOrdered

\* A preemption request preserves the invariant.
LEMMA BeginBoundaryPreemptionIInv ==
    ASSUME IInv, NEW preemption \in PreemptionFences,
           BeginBoundaryPreemption(preemption)
    PROVE  IInv'
  <1>1. /\ CompletedFence' = CompletedFence /\ ActiveFence' = ActiveFence
        /\ LastSubmittedFence' = LastSubmittedFence
        /\ FenceQueue' = <<>> /\ QueuedFence' = NoFence
        /\ Owed' \subseteq Owed \cup Elements(FenceQueue)
        /\ PagingFences' \subseteq Owed' \cup PagingFences
        /\ Preemption' =
             [Phase |-> IF ActiveFence = NoFence THEN ReadyToNotify
                                                 ELSE WaitCurrentBoundary,
              Fence |-> preemption, Cutoff |-> LastSubmittedFence,
              Active |-> ActiveFence, LastCompleted |-> CompletedFence]
      BY DEF BeginBoundaryPreemption, SchedBeginBoundaryPreemption
  <1>2. FencesOrdered' /\ Owed' \subseteq Fence
      BY <1>1, DiscardOrdered
  <1>3. Preemption' \in PreemptionType
      BY <1>1 DEF IInv, TypeOK, PreemptionType
  <1>4. TypeOK'
      BY <1>1, <1>2, <1>3, NoFenceIsFence, CapacityAssumption DEF IInv, TypeOK
  <1>5. HeadCached' /\ PhaseCoherent' /\ NotificationAccurate'
      BY <1>1
      DEF HeadCached, HeadOrNone, PhaseCoherent, NotificationAccurate,
          Idle, WaitCurrentBoundary, ReadyToNotify, NotificationClaimed
  <1> QED
      BY <1>2, <1>4, <1>5 DEF IInv

\* The one-call preemption preserves the invariant.
LEMMA BeginPreemptionIInv ==
    ASSUME IInv, NEW preemption \in PreemptionFences, BeginPreemption(preemption)
    PROVE  IInv'
  <1>1. /\ CompletedFence' = CompletedFence /\ ActiveFence' = ActiveFence
        /\ LastSubmittedFence' = LastSubmittedFence /\ ActiveFence = NoFence
        /\ FenceQueue' = <<>> /\ QueuedFence' = NoFence
        /\ Owed' \subseteq Owed \cup Elements(FenceQueue)
        /\ PagingFences' = Owed'
        /\ Preemption' =
             [Phase |-> NotificationClaimed, Fence |-> preemption,
              Cutoff |-> CompletedFence, Active |-> NoFence,
              LastCompleted |-> CompletedFence]
      BY DEF BeginPreemption, SchedBeginPreemption, MayBeginBoundaryPreemption, Discard
  <1>2. FencesOrdered' /\ Owed' \subseteq Fence
      BY <1>1, DiscardOrdered
  <1>3. Preemption' \in PreemptionType
      BY <1>1, NoFenceIsFence DEF IInv, TypeOK, PreemptionType
  <1>4. TypeOK'
      BY <1>1, <1>2, <1>3, NoFenceIsFence, CapacityAssumption DEF IInv, TypeOK
  <1>5. HeadCached' /\ PhaseCoherent' /\ NotificationAccurate'
      BY <1>1
      DEF HeadCached, HeadOrNone, PhaseCoherent, NotificationAccurate,
          Idle, WaitCurrentBoundary, ReadyToNotify, NotificationClaimed
  <1> QED
      BY <1>2, <1>4, <1>5 DEF IInv

\* Claiming the notification preserves the invariant.
LEMMA ClaimIInv ==
    ASSUME IInv, ClaimBoundaryPreemption
    PROVE  IInv'
  <1>1. /\ UNCHANGED <<CompletedFence, LastSubmittedFence, FenceQueue, QueuedFence,
                       ActiveFence, PagingFences, Owed>>
        /\ Preemption.Phase = ReadyToNotify
        /\ Preemption' = [Preemption EXCEPT !.Phase = NotificationClaimed]
      BY DEF ClaimBoundaryPreemption, SchedClaimBoundaryPreemption, vidschVars
  <1>2. TypeOK'
      BY <1>1 DEF IInv, TypeOK, PreemptionType
  <1>3. FencesOrdered' /\ HeadCached'
      BY <1>1
      DEF IInv, FencesOrdered, ActiveInWindow, QueueOrdered, OwedOrdered, Ahead,
          HeadCached, HeadOrNone
  <1>4. /\ Preemption'.Phase = NotificationClaimed
        /\ Preemption'.Fence = Preemption.Fence
        /\ Preemption'.LastCompleted = Preemption.LastCompleted
      BY <1>1 DEF IInv, TypeOK, PreemptionType
  <1>5. PhaseCoherent' /\ NotificationAccurate'
      BY <1>1, <1>4
      DEF IInv, PhaseCoherent, NotificationAccurate,
          Idle, WaitCurrentBoundary, ReadyToNotify, NotificationClaimed
  <1> QED
      BY <1>2, <1>3, <1>5 DEF IInv

\* A handshake that returns to Idle without touching the fences, by a commit or
\* by an abort, preserves the invariant.
LEMMA HandshakeClearedIInv ==
    ASSUME IInv, Preemption' = NoPreemption,
           UNCHANGED <<CompletedFence, LastSubmittedFence, FenceQueue, QueuedFence,
                       ActiveFence>>,
           Owed' \subseteq Owed, PagingFences' \subseteq PagingFences
    PROVE  IInv'
  <1>1. NoPreemption \in PreemptionType
      BY NoFenceIsFence DEF NoPreemption, PreemptionType
  <1>2. TypeOK'
      BY <1>1 DEF IInv, TypeOK
  <1>3. FencesOrdered' /\ HeadCached'
      BY DEF IInv, FencesOrdered, ActiveInWindow, QueueOrdered, OwedOrdered, Ahead,
             HeadCached, HeadOrNone
  <1>4. PhaseCoherent' /\ NotificationAccurate'
      BY DEF PhaseCoherent, NotificationAccurate, NoPreemption,
             Idle, WaitCurrentBoundary, ReadyToNotify, NotificationClaimed
  <1> QED
      BY <1>2, <1>3, <1>4 DEF IInv

\* An engine reset preserves the invariant.
LEMMA ResetEngineIInv ==
    ASSUME IInv, ResetEngine
    PROVE  IInv'
  <1>1. /\ CompletedFence' = CompletedFence /\ ActiveFence' = NoFence
        /\ LastSubmittedFence' = LastSubmittedFence
        /\ FenceQueue' = <<>> /\ QueuedFence' = NoFence
        /\ Preemption' = NoPreemption
        /\ Owed' \subseteq Owed \cup Elements(FenceQueue)
        /\ PagingFences' = Owed'
      BY DEF ResetEngine, SchedResetEngine, ResetQueues, Discard
  <1>2. FencesOrdered' /\ Owed' \subseteq Fence
      BY <1>1, DiscardOrdered
  <1>3. NoPreemption \in PreemptionType
      BY NoFenceIsFence DEF NoPreemption, PreemptionType
  <1>4. TypeOK'
      BY <1>1, <1>2, <1>3, NoFenceIsFence, CapacityAssumption DEF IInv, TypeOK
  <1>5. HeadCached' /\ PhaseCoherent' /\ NotificationAccurate'
      BY <1>1
      DEF HeadCached, HeadOrNone, PhaseCoherent, NotificationAccurate, NoPreemption,
          Idle, WaitCurrentBoundary, ReadyToNotify, NotificationClaimed
  <1> QED
      BY <1>2, <1>4, <1>5 DEF IInv

\* The adapter-wide reset, which counts everything submitted as completed,
\* preserves the invariant.
LEMMA ResetFromTimeoutIInv ==
    ASSUME IInv, ResetFromTimeout
    PROVE  IInv'
  <1>1. /\ CompletedFence' = LastSubmittedFence /\ ActiveFence' = NoFence
        /\ LastSubmittedFence' = LastSubmittedFence
        /\ FenceQueue' = <<>> /\ QueuedFence' = NoFence
        /\ Preemption' = NoPreemption
        /\ Owed' = {} /\ PagingFences' = {}
      BY DEF ResetFromTimeout, ResetQueues
  <1>2. Distance(LastSubmittedFence, LastSubmittedFence) = 0
      BY DistanceType DEF IInv, TypeOK
  <1>3. FencesOrdered'
      BY <1>1, <1>2, HalfRangeAssumption
      DEF FencesOrdered, ActiveInWindow, QueueOrdered, OwedOrdered, Ahead
  <1>4. NoPreemption \in PreemptionType
      BY NoFenceIsFence DEF NoPreemption, PreemptionType
  <1>5. TypeOK'
      BY <1>1, <1>4, NoFenceIsFence, CapacityAssumption DEF IInv, TypeOK
  <1>6. HeadCached' /\ PhaseCoherent' /\ NotificationAccurate'
      BY <1>1
      DEF HeadCached, HeadOrNone, PhaseCoherent, NotificationAccurate, NoPreemption,
          Idle, WaitCurrentBoundary, ReadyToNotify, NotificationClaimed
  <1> QED
      BY <1>3, <1>5, <1>6 DEF IInv

-----------------------------------------------------------------------------
(* The theorems.                                                           *)

\* One step of the scheduler, or none, preserves the invariant.
LEMMA StepIInv == IInv /\ [Next]_vars => IInv'
  <1> SUFFICES ASSUME IInv, [Next]_vars PROVE IInv'
      OBVIOUS
  <1>1. ASSUME NEW fence \in Fence, NEW paging \in BOOLEAN, QueueFence(fence, paging)
        PROVE  IInv'
      BY <1>1, QueueFenceIInv
  <1>2. ASSUME NEW fence \in Fence, QueueResubmittedPagingFence(fence)
        PROVE  IInv'
      BY <1>2, QueueResubmittedIInv
  <1>3. ASSUME NEW fence \in Fence, ActivateFence(fence)
        PROVE  IInv'
      BY <1>3, ActivateIInv
  <1>4. ASSUME NEW fence \in Fence, RecordCompletion(fence)
        PROVE  IInv'
      BY <1>4, RecordCompletionIInv
  <1>5. ASSUME NEW preemption \in PreemptionFences, BeginBoundaryPreemption(preemption)
        PROVE  IInv'
      BY <1>5, BeginBoundaryPreemptionIInv
  <1>6. CASE ClaimBoundaryPreemption
      BY <1>6, ClaimIInv
  <1>7. ASSUME NEW preemption \in PreemptionFences, CommitBoundaryPreemption(preemption)
        PROVE  IInv'
      BY <1>7, HandshakeClearedIInv
      DEF CommitBoundaryPreemption, SchedCommitBoundaryPreemption, vidschVars
  <1>8. ASSUME NEW preemption \in PreemptionFences, BeginPreemption(preemption)
        PROVE  IInv'
      BY <1>8, BeginPreemptionIInv
  <1>9. ASSUME NEW preemption \in PreemptionFences, AbortPreemption(preemption)
        PROVE  IInv'
      BY <1>9, HandshakeClearedIInv DEF AbortPreemption, SchedAbortPreemption
  <1>10. CASE ResetEngine
      BY <1>10, ResetEngineIInv
  <1>11. CASE ResetFromTimeout
      BY <1>11, ResetFromTimeoutIInv
  <1>12. CASE UNCHANGED vars
      BY <1>12
      DEF vars, IInv, TypeOK, FencesOrdered, ActiveInWindow, QueueOrdered,
          OwedOrdered, Ahead, HeadCached, HeadOrNone, PhaseCoherent,
          NotificationAccurate
  <1> QED
      BY <1>1, <1>2, <1>3, <1>4, <1>5, <1>6, <1>7, <1>8, <1>9, <1>10, <1>11, <1>12
      DEF Next

\* The inductive invariant holds in every reachable state.
THEOREM Invariant == Spec => []IInv
  <1>1. Init => IInv
      BY InitIInv
  <1>2. IInv /\ [Next]_vars => IInv'
      BY StepIInv
  <1> QED
      BY <1>1, <1>2, PTL DEF Spec

\* The scheduler's fields keep their types and the queue never outgrows its array.
THEOREM TypeCorrect == Spec => []TypeOK
  <1>1. IInv => TypeOK
      BY DEF IInv
  <1> QED
      BY <1>1, Invariant, PTL

\* Completed, active, queued and owed fences stay one chain in wrapping order.
THEOREM AlwaysOrdered == Spec => []FencesOrdered
  <1>1. IInv => FencesOrdered
      BY DEF IInv
  <1> QED
      BY <1>1, Invariant, PTL

\* The cached head QueuedFence is always the head of the queue.
THEOREM AlwaysHeadCached == Spec => []HeadCached
  <1>1. IInv => HeadCached
      BY DEF IInv
  <1> QED
      BY <1>1, Invariant, PTL

\* The preemption phase always agrees with the active fence and the queue.
THEOREM AlwaysPhaseCoherent == Spec => []PhaseCoherent
  <1>1. IInv => PhaseCoherent
      BY DEF IInv
  <1> QED
      BY <1>1, Invariant, PTL

\* A preemption notification always names the last completed fence.
THEOREM AlwaysNotificationAccurate == Spec => []NotificationAccurate
  <1>1. IInv => NotificationAccurate
      BY DEF IInv
  <1> QED
      BY <1>1, Invariant, PTL

\* AdmissionSchedulerRecordCompletion never faults the adapter for a completion
\* of the fence that is active.
THEOREM CompletionNeverRefused == Spec => []ActiveCanComplete
  <1>1. ASSUME IInv, ActiveFence # NoFence
        PROVE  CanCompleteActiveFence(ActiveFence)
    <2>1. /\ Ahead(ActiveFence) \in 1 .. Ahead(LastSubmittedFence)
          /\ Ahead(LastSubmittedFence) < HalfRange
          /\ Ahead(LastSubmittedFence) \in Nat
        BY <1>1, DistanceType DEF IInv, TypeOK, FencesOrdered, ActiveInWindow, Ahead
    <2>2. FenceAfter(ActiveFence, CompletedFence)
        BY <2>1, HalfRangeAssumption DEF FenceAfter, Ahead
    <2>3. Preemption.Phase = WaitCurrentBoundary => ActiveFence = Preemption.Active
        BY <1>1 DEF IInv, PhaseCoherent
    <2> QED
        BY <1>1, <2>2, <2>3 DEF CanCompleteActiveFence, CanCompleteFence
  <1>2. IInv => ActiveCanComplete
      BY <1>1 DEF ActiveCanComplete
  <1> QED
      BY <1>2, Invariant, PTL

\* AdmissionDdiPreemptCommand never faults the adapter when no preemption is
\* outstanding.
THEOREM PreemptionNeverRefused == Spec => []PreemptionAccepted
  <1>1. ASSUME IInv, NEW preemption \in PreemptionFences, Preemption.Phase = Idle
        PROVE  MayBeginBoundaryPreemption(preemption, LastSubmittedFence, ActiveFence)
    <2>1. preemption # NoFence
        BY PreemptionFencesAssumption
    <2>2. /\ Ahead(LastSubmittedFence) \in Nat
          /\ Ahead(LastSubmittedFence) < HalfRange
          /\ Ahead(LastSubmittedFence) = 0 <=> LastSubmittedFence = CompletedFence
        BY <1>1, DistanceType DEF IInv, TypeOK, FencesOrdered, ActiveInWindow, Ahead
    <2>3. FenceAtOrAfter(LastSubmittedFence, CompletedFence)
        BY <2>2 DEF FenceAtOrAfter, FenceAfter, Ahead
    <2>4. ASSUME ActiveFence # NoFence
          PROVE  /\ FenceAfter(ActiveFence, CompletedFence)
                 /\ FenceAtOrAfter(LastSubmittedFence, ActiveFence)
      <3>1. Ahead(ActiveFence) \in 1 .. Ahead(LastSubmittedFence)
          BY <1>1, <2>4 DEF IInv, FencesOrdered, ActiveInWindow
      <3>2. FenceAfter(ActiveFence, CompletedFence)
          BY <2>2, <3>1, HalfRangeAssumption DEF FenceAfter, Ahead
      <3>3. Distance(LastSubmittedFence, ActiveFence)
              = Ahead(LastSubmittedFence) - Ahead(ActiveFence)
          BY <1>1, <2>2, <3>1, DistanceShift DEF IInv, TypeOK, Ahead
      <3>4. Distance(LastSubmittedFence, ActiveFence) < HalfRange
          BY <2>2, <3>1, <3>3, HalfRangeAssumption
      <3>5. Distance(LastSubmittedFence, ActiveFence) = 0
              <=> LastSubmittedFence = ActiveFence
          BY <1>1, DistanceType DEF IInv, TypeOK
      <3> QED
          BY <3>2, <3>4, <3>5 DEF FenceAtOrAfter, FenceAfter
    <2> QED
        BY <1>1, <2>1, <2>3, <2>4 DEF MayBeginBoundaryPreemption
  <1>2. IInv => PreemptionAccepted
      BY <1>1 DEF PreemptionAccepted
  <1> QED
      BY <1>2, Invariant, PTL

\* A packet VidSch owes is accepted again as soon as admission is open and the
\* queue has room, provided the scheduler still remembers that it discarded it.
LEMMA AcceptedIfListed == Spec => [](OwedResubmittable => OwedAccepted)
  <1>1. ASSUME IInv, OwedResubmittable, NEW fence \in Owed,
               NextOwed(fence), ~AdmissionBlocked, Len(FenceQueue) < QueueCapacity
        PROVE  MayQueueResubmittedPagingFence(fence)
    <2>1. /\ fence \in Fence /\ fence # NoFence
          /\ Ahead(fence) \in 1 .. Ahead(LastSubmittedFence)
          /\ ActiveFence # NoFence => Ahead(ActiveFence) < Ahead(fence)
          /\ \A i \in 1 .. Len(FenceQueue) : Ahead(FenceQueue[i]) < Ahead(fence)
        BY <1>1 DEF IInv, TypeOK, FencesOrdered, OwedOrdered
    <2>2. /\ \A g \in Fence : Ahead(g) \in Nat
          /\ Ahead(LastSubmittedFence) < HalfRange
        BY <1>1, DistanceType DEF IInv, TypeOK, FencesOrdered, ActiveInWindow, Ahead
    <2>3. ASSUME NEW g \in Fence, Ahead(g) < Ahead(fence)
          PROVE  FenceAfter(fence, g)
      <3>1. Distance(fence, g) = Ahead(fence) - Ahead(g)
          BY <1>1, <2>1, <2>2, <2>3, DistanceShift DEF IInv, TypeOK, Ahead
      <3> QED
          BY <1>1, <2>1, <2>2, <2>3, <3>1, HalfRangeAssumption
          DEF IInv, TypeOK, FenceAfter
    <2>4. FenceAfter(fence, CompletedFence)
        BY <1>1, <2>1, <2>2, HalfRangeAssumption DEF IInv, TypeOK, FenceAfter, Ahead
    <2>5. ActiveFence # NoFence => FenceAfter(fence, ActiveFence)
        BY <1>1, <2>1, <2>3 DEF IInv, TypeOK
    <2>6. ASSUME FenceQueue # <<>>
          PROVE  FenceAfter(fence, FenceQueue[Len(FenceQueue)])
      <3>1. Len(FenceQueue) \in 1 .. Len(FenceQueue)
            /\ FenceQueue[Len(FenceQueue)] \in Fence
          BY <1>1, <2>6 DEF IInv, TypeOK
      <3> QED
          BY <2>1, <2>3, <3>1
    <2> QED
        BY <1>1, <2>1, <2>4, <2>5, <2>6
        DEF MayQueueResubmittedPagingFence, OwedResubmittable
  <1>2. IInv => (OwedResubmittable => OwedAccepted)
      BY <1>1 DEF OwedAccepted
  <1> QED
      BY <1>2, Invariant, PTL

\* The completed fence only moves forward in wrapping order.
THEOREM CompletedOnlyAdvances == Spec => CompletedAdvances
  <1>1. ASSUME IInv, [Next]_vars
        PROVE  CompletedFence' # CompletedFence =>
                   FenceAfter(CompletedFence', CompletedFence)
    <2>1. ASSUME NEW fence \in Fence, RecordCompletion(fence)
          PROVE  FenceAfter(CompletedFence', CompletedFence)
        BY <2>1
        DEF RecordCompletion, SchedRecordCompletion, CanCompleteActiveFence,
            CanCompleteFence
    <2>2. CASE ResetFromTimeout
      <3>1. CompletedFence' = LastSubmittedFence
          BY <2>2 DEF ResetFromTimeout
      <3>2. /\ Ahead(LastSubmittedFence) < HalfRange
            /\ Ahead(LastSubmittedFence) = 0 <=> LastSubmittedFence = CompletedFence
          BY <1>1, DistanceType
          DEF IInv, TypeOK, FencesOrdered, ActiveInWindow, Ahead
      <3> QED
          BY <3>1, <3>2 DEF FenceAfter, Ahead
    <2>3. ASSUME Next, ~ResetFromTimeout,
                 ~ \E fence \in Fence : RecordCompletion(fence)
          PROVE  CompletedFence' = CompletedFence
        BY <2>3
        DEF Next, QueueFence, SchedQueueFence, QueueResubmittedPagingFence,
            SchedQueueResubmittedPagingFence, ActivateFence, SchedActivateFence,
            BeginBoundaryPreemption, SchedBeginBoundaryPreemption,
            ClaimBoundaryPreemption, SchedClaimBoundaryPreemption,
            CommitBoundaryPreemption, SchedCommitBoundaryPreemption,
            BeginPreemption, SchedBeginPreemption, AbortPreemption,
            SchedAbortPreemption, ResetEngine, SchedResetEngine
    <2>4. CASE UNCHANGED vars
        BY <2>4 DEF vars
    <2> QED
        BY <1>1, <2>1, <2>2, <2>3, <2>4
  <1> QED
      BY <1>1, Invariant, PTL DEF Spec, CompletedAdvances

-----------------------------------------------------------------------------
(***************************************************************************)
(* The second part is about the list of preempted fences of the scheduler  *)
(* (PreemptedFenceQueue[]): it never outgrows its array, and every paging  *)
(* packet VidSch owes is on it, across preemptions, resubmissions and      *)
(* engine resets, for every range of identifiers and every capacity.       *)
(*                                                                         *)
(* The merge of AppleAgxSchedulerResetEngine is a loop, modelled by a      *)
(* recursive function; what it keeps is shown by induction over the list.  *)
(* The induction is stated for sets (IntervalInduction), so that each use  *)
(* names the set of indices for which the claim holds.                     *)
(*                                                                         *)
(* That nothing owed is lost is not inductive by itself: the list may hold *)
(* fences older than half the range, which compare as if they were new.    *)
(* OwedInv says where the owed fences are: in one increasing run of        *)
(* entries, behind entries that a reset drops and in front of any leftover,*)
(* with room for all of them behind the queue.                             *)
(***************************************************************************)

-----------------------------------------------------------------------------
(* Induction and the loop of the merge.                                    *)

\* Induction over an interval, for a set instead of a predicate.
LEMMA IntervalInduction ==
    ASSUME NEW T, NEW n \in Nat, T \subseteq 0 .. n, 0 \in T,
           \A i \in T : i < n => i + 1 \in T
    PROVE  0 .. n \subseteq T
  <1> SUFFICES ASSUME (0 .. n) \ T # {} PROVE FALSE
      OBVIOUS
  <1> DEFINE Below(i) == {j \in 0 .. n : j < i}
             F == {S \in SUBSET (0 .. n) : \E i \in (0 .. n) \ T : S = Below(i)}
  <1>1. IsFiniteSet(0 .. n)
      BY FS_Interval
  <1>2. IsWellFoundedOn(StrictSubsetOrdering(0 .. n), SUBSET (0 .. n))
      BY <1>1, FS_StrictSubsetOrderingWellFounded, FS_FiniteSubsetsOfFinite
  <1>3. F \subseteq SUBSET (0 .. n) /\ F # {}
      OBVIOUS
  <1>4. PICK S \in F : \A R \in F : ~(<<R, S>> \in StrictSubsetOrdering(0 .. n))
      BY <1>2, <1>3, WFMin
  <1>5. PICK i \in (0 .. n) \ T : S = Below(i)
      BY <1>4
  <1>6. i # 0 /\ i - 1 \in 0 .. n /\ (i - 1) + 1 = i /\ i - 1 < n
      BY <1>5
  <1>7. i - 1 \notin T
      BY <1>5, <1>6
  <1>8. Below(i - 1) \in F
      BY <1>6, <1>7
  <1>9. Below(i - 1) \subseteq S /\ i - 1 \in S /\ i - 1 \notin Below(i - 1)
      BY <1>5, <1>6
  <1>10. <<Below(i - 1), S>> \in StrictSubsetOrdering(0 .. n)
      BY <1>3, <1>4, <1>8, <1>9 DEF StrictSubsetOrdering
  <1> QED
      BY <1>4, <1>8, <1>10

\* f is the loop's state after each of the first n entries.
IsKept(f, n, seq, after, room) ==
    f = [i \in 0 .. n |->
           IF i = 0 THEN <<>> ELSE KeepFence(f[i - 1], seq[i], after, room)]

\* The loop is defined for every list.
LEMMA KeptExists ==
    ASSUME NEW seq, NEW after, NEW room, Len(seq) \in Nat
    PROVE  \E f : IsKept(f, Len(seq), seq, after, room)
  <1> DEFINE n == Len(seq)
             T == {m \in 0 .. n : \E f : IsKept(f, m, seq, after, room)}
  <1>1. 0 \in T
    <2> DEFINE g == [i \in 0 .. 0 |-> <<>>]
    <2>1. g = [i \in 0 .. 0 |->
                 IF i = 0 THEN <<>> ELSE KeepFence(g[i - 1], seq[i], after, room)]
        OBVIOUS
    <2>2. IsKept(g, 0, seq, after, room)
        BY <2>1 DEF IsKept
    <2> QED
        BY <2>2
  <1>2. ASSUME NEW m \in T, m < n PROVE m + 1 \in T
    <2>1. PICK f : IsKept(f, m, seq, after, room)
        OBVIOUS
    <2> DEFINE g == [i \in 0 .. m + 1 |->
                       IF i <= m THEN f[i] ELSE KeepFence(f[m], seq[m + 1], after, room)]
    <2>2. ASSUME NEW i \in 0 .. m + 1
          PROVE  g[i] = IF i = 0 THEN <<>>
                        ELSE KeepFence(g[i - 1], seq[i], after, room)
      <3> HIDE DEF n
      <3>1. CASE i = 0
          BY <2>1, <3>1 DEF IsKept
      <3>2. CASE i \in 1 .. m
          BY <2>1, <3>2 DEF IsKept
      <3>3. CASE i = m + 1
          BY <3>3
      <3> QED
          BY <3>1, <3>2, <3>3
    <2>3. g = [i \in 0 .. m + 1 |-> g[i]]
        OBVIOUS
    <2>4. IsKept(g, m + 1, seq, after, room)
      <3> HIDE DEF g
      <3> QED
          BY <2>2, <2>3 DEF IsKept
    <2>5. m + 1 \in 0 .. n
        BY <1>2
    <2> QED
        BY <2>4, <2>5
  <1> HIDE DEF T
  <1>3. T \subseteq 0 .. n
      BY DEF T
  <1>4. 0 .. n \subseteq T
      BY <1>1, <1>2, <1>3, IntervalInduction
  <1> QED
      BY <1>4 DEF T

\* KeptPreempted is the state of that loop after the last entry.
LEMMA KeptIsLoop ==
    ASSUME NEW seq, NEW after, NEW room, Len(seq) \in Nat
    PROVE  \E f : /\ IsKept(f, Len(seq), seq, after, room)
                  /\ KeptPreempted(seq, after, room) = f[Len(seq)]
  <1> DEFINE f == CHOOSE f : IsKept(f, Len(seq), seq, after, room)
  <1>1. IsKept(f, Len(seq), seq, after, room)
      BY KeptExists
  <1>2. KeptPreempted(seq, after, room) = f[Len(seq)]
      BY DEF KeptPreempted, IsKept
  <1> QED
      BY <1>1, <1>2

\* What the loop keeps fits in the room it is given.
LEMMA KeptFits ==
    ASSUME NEW S, NEW seq \in Seq(S), NEW after, NEW room \in Nat
    PROVE  /\ KeptPreempted(seq, after, room) \in Seq(S)
           /\ Len(KeptPreempted(seq, after, room)) <= room
  <1>1. PICK f : /\ IsKept(f, Len(seq), seq, after, room)
                 /\ KeptPreempted(seq, after, room) = f[Len(seq)]
      BY KeptIsLoop
  <1> DEFINE T == {i \in 0 .. Len(seq) : f[i] \in Seq(S) /\ Len(f[i]) <= room}
  <1>2. 0 \in T
      BY <1>1 DEF IsKept
  <1>3. ASSUME NEW i \in T, i < Len(seq) PROVE i + 1 \in T
    <2>1. f[i + 1] = KeepFence(f[i], seq[i + 1], after, room)
        BY <1>1, <1>3 DEF IsKept
    <2>2. /\ f[i] \in Seq(S) /\ Len(f[i]) <= room
          /\ seq[i + 1] \in S /\ i + 1 \in 0 .. Len(seq)
        BY <1>3
    <2>3. f[i + 1] \in Seq(S) /\ Len(f[i + 1]) <= room
        BY <2>1, <2>2 DEF KeepFence
    <2> QED
        BY <2>2, <2>3
  <1> HIDE DEF T
  <1>4. T \subseteq 0 .. Len(seq) /\ Len(seq) \in Nat
      BY DEF T
  <1>5. 0 .. Len(seq) \subseteq T
      BY <1>2, <1>3, <1>4, IntervalInduction
  <1> QED
      BY <1>1, <1>4, <1>5 DEF T

\* Appending leaves the earlier entries in place.
LEMMA Appended ==
    ASSUME NEW S, NEW s \in Seq(S), NEW e \in S
    PROVE  /\ Append(s, e) \in Seq(S) /\ Len(Append(s, e)) = Len(s) + 1
           /\ Append(s, e)[Len(s) + 1] = e
           /\ \A i \in 1 .. Len(s) : Append(s, e)[i] = s[i]
    OBVIOUS

\* If no entry up to m comes after the origin, the entries m + 1 .. k form a
\* chain that starts after it, and they fit, then all of those are kept, in front
\* of anything else that is.
LEMMA ChainKept ==
    ASSUME NEW S, NEW seq \in Seq(S), NEW after, NEW room \in Nat,
           NEW k \in 0 .. Len(seq), NEW m \in 0 .. k, k - m <= room,
           \A i \in 1 .. m : ~FenceAfter(seq[i], after),
           \A i \in m + 1 .. k :
               FenceAfter(seq[i], IF i = m + 1 THEN after ELSE seq[i - 1])
    PROVE  LET kept == KeptPreempted(seq, after, room)
           IN  /\ k - m <= Len(kept)
               /\ \A i \in 1 .. k - m : kept[i] = seq[m + i]
  <1>1. PICK f : /\ IsKept(f, Len(seq), seq, after, room)
                 /\ KeptPreempted(seq, after, room) = f[Len(seq)]
      BY KeptIsLoop
  <1> DEFINE Done(i) == IF i <= m THEN 0 ELSE IF i <= k THEN i - m ELSE k - m
             Good(i) == /\ f[i] \in Seq(S)
                        /\ i <= k => Len(f[i]) = Done(i)
                        /\ Done(i) <= Len(f[i])
                        /\ \A j \in 1 .. Done(i) : f[i][j] = seq[m + j]
             T == {i \in 0 .. Len(seq) : Good(i)}
  <1>2. f[0] = <<>>
      BY <1>1 DEF IsKept
  <1>3. 0 \in T
    <2>1. Done(0) = 0
        OBVIOUS
    <2>2. Good(0)
      <3> HIDE DEF Done
      <3>1. <<>> \in Seq(S) /\ Len(<<>>) = 0
          OBVIOUS
      <3> QED
          BY <1>2, <2>1, <3>1
    <2> QED
        BY <2>2
  <1>4. ASSUME NEW i \in T, i < Len(seq) PROVE i + 1 \in T
    <2>1. f[i + 1] = KeepFence(f[i], seq[i + 1], after, room)
        BY <1>1, <1>4 DEF IsKept
    <2>2. /\ f[i] \in Seq(S) /\ seq[i + 1] \in S /\ i + 1 \in 0 .. Len(seq)
          /\ i \in 0 .. Len(seq) /\ Good(i)
        BY <1>4
    <2>3. CASE i + 1 <= m
      <3>1. f[i] = <<>>
          BY <2>2, <2>3
      <3>2. f[i + 1] = <<>>
          BY <2>1, <2>2, <2>3, <3>1 DEF KeepFence
      <3> QED
          BY <2>2, <2>3, <3>2
    <2>4. CASE i + 1 \in m + 1 .. k
      <3>1. Len(f[i]) = i - m /\ \A j \in 1 .. i - m : f[i][j] = seq[m + j]
          BY <2>2, <2>4
      <3>2. (IF f[i] = <<>> THEN after ELSE f[i][Len(f[i])])
              = (IF i + 1 = m + 1 THEN after ELSE seq[(i + 1) - 1])
        <4>1. CASE i = m
            BY <2>2, <3>1, <4>1
        <4>2. CASE i # m
          <5>1. f[i] # <<>> /\ f[i][Len(f[i])] = seq[m + (i - m)]
              BY <2>2, <2>4, <3>1, <4>2
          <5>2. m + (i - m) = i /\ (i + 1) - 1 = i
              BY <2>2
          <5> QED
              BY <4>2, <5>1, <5>2
        <4> QED
            BY <4>1, <4>2
      <3>3. FenceAfter(seq[i + 1], IF f[i] = <<>> THEN after ELSE f[i][Len(f[i])])
          BY <2>4, <3>2
      <3>4. Len(f[i]) < room
          BY <2>2, <2>4, <3>1
      <3>5. f[i + 1] = Append(f[i], seq[i + 1])
          BY <2>1, <3>3, <3>4 DEF KeepFence
      <3>6. /\ f[i + 1] \in Seq(S) /\ Len(f[i + 1]) = (i + 1) - m
            /\ \A j \in 1 .. (i + 1) - m : f[i + 1][j] = seq[m + j]
        <4> HIDE DEF Good
        <4>1. /\ f[i + 1] \in Seq(S) /\ Len(f[i + 1]) = (i - m) + 1
              /\ f[i + 1][(i - m) + 1] = seq[i + 1]
              /\ \A j \in 1 .. i - m : f[i + 1][j] = f[i][j]
          <5>1. /\ f[i + 1] \in Seq(S) /\ Len(f[i + 1]) = Len(f[i]) + 1
                /\ f[i + 1][Len(f[i]) + 1] = seq[i + 1]
                /\ \A j \in 1 .. Len(f[i]) : f[i + 1][j] = f[i][j]
              BY <2>2, <3>5, Appended
          <5> QED
              BY <3>1, <5>1
        <4>2. ASSUME NEW j \in 1 .. (i + 1) - m PROVE f[i + 1][j] = seq[m + j]
          <5>1. CASE j \in 1 .. i - m
              BY <3>1, <4>1, <5>1
          <5>2. CASE j = (i - m) + 1
            <6>1. m + j = i + 1
                BY <2>2, <5>2
            <6> QED
                BY <4>1, <5>2, <6>1
          <5> QED
              BY <2>2, <5>1, <5>2
        <4> QED
            BY <2>2, <4>1, <4>2
      <3>7. Done(i + 1) = (i + 1) - m
          BY <2>2, <2>4
      <3> QED
          BY <2>2, <2>4, <3>6, <3>7
    <2>5. CASE i + 1 > k
      <3>1. Done(i) = k - m /\ Done(i + 1) = k - m
          BY <2>2, <2>5
      <3>2. f[i + 1] \in {f[i], Append(f[i], seq[i + 1])}
          BY <2>1 DEF KeepFence
      <3>3. /\ f[i + 1] \in Seq(S) /\ k - m <= Len(f[i + 1])
            /\ \A j \in 1 .. k - m : f[i + 1][j] = seq[m + j]
        <4>1. k - m <= Len(f[i]) /\ \A j \in 1 .. k - m : f[i][j] = seq[m + j]
            BY <2>2, <3>1
        <4> HIDE DEF Good, Done
        <4>2. CASE f[i + 1] = f[i]
            BY <2>2, <4>1, <4>2
        <4>3. CASE f[i + 1] = Append(f[i], seq[i + 1])
          <5>1. /\ f[i + 1] \in Seq(S) /\ Len(f[i + 1]) = Len(f[i]) + 1
                /\ \A j \in 1 .. Len(f[i]) : f[i + 1][j] = f[i][j]
              BY <2>2, <4>3, Appended
          <5>2. k - m \in Nat /\ Len(f[i]) \in Nat
              BY <2>2
          <5> QED
              BY <4>1, <5>1, <5>2
        <4> QED
            BY <3>2, <4>2, <4>3
      <3> QED
          BY <2>2, <2>5, <3>1, <3>3
    <2> QED
        BY <2>2, <2>3, <2>4, <2>5
  <1> HIDE DEF T
  <1>5. T \subseteq 0 .. Len(seq) /\ Len(seq) \in Nat
      BY DEF T
  <1>6. 0 .. Len(seq) \subseteq T
      BY <1>3, <1>4, <1>5, IntervalInduction
  <1>7. Good(Len(seq)) /\ Done(Len(seq)) = k - m
      BY <1>5, <1>6 DEF T
  <1> QED
      BY <1>1, <1>7

-----------------------------------------------------------------------------
(* The list stays in its array.                                            *)

\* Taking the first entry equal to a listed fence out of a list.
LEMMA FirstRemoved ==
    ASSUME NEW S, NEW seq \in Seq(S), NEW fence \in Elements(seq)
    PROVE  \E at \in 1 .. Len(seq) :
             /\ seq[at] = fence
             /\ \A j \in 1 .. at - 1 : seq[j] # fence
             /\ WithoutFirst(seq, fence) \in Seq(S)
             /\ Len(WithoutFirst(seq, fence)) = Len(seq) - 1
             /\ \A j \in 1 .. Len(seq) - 1 :
                  WithoutFirst(seq, fence)[j] = seq[IF j < at THEN j ELSE j + 1]
  <1> DEFINE n == Len(seq)
             First(i) == seq[i] = fence /\ \A j \in 1 .. i - 1 : seq[j] # fence
             T == {i \in 0 .. n : \A j \in 1 .. i : seq[j] # fence}
  <1>1. \E i \in 1 .. n : First(i)
    <2> SUFFICES ASSUME \A i \in 1 .. n : ~First(i) PROVE FALSE
        OBVIOUS
    <2>1. 0 \in T
        OBVIOUS
    <2>2. ASSUME NEW i \in T, i < n PROVE i + 1 \in T
      <3>1. i + 1 \in 1 .. n /\ (i + 1) - 1 = i /\ i \in 0 .. n
          BY <2>2
      <3>2. seq[i + 1] # fence
          BY <2>2, <3>1
      <3> QED
          BY <2>2, <3>1, <3>2
    <2>3. T \subseteq 0 .. n /\ n \in Nat
        OBVIOUS
    <2> HIDE DEF T
    <2>4. 0 .. n \subseteq T
        BY <2>1, <2>2, <2>3, IntervalInduction
    <2> QED
        BY <2>3, <2>4 DEF T, Elements
  <1> DEFINE at == CHOOSE i \in 1 .. n : First(i)
             rest == SubSeq(seq, 1, at - 1) \o SubSeq(seq, at + 1, Len(seq))
  <1>2. at \in 1 .. n /\ First(at)
      BY <1>1
  <1>3. WithoutFirst(seq, fence) = rest
      BY DEF WithoutFirst
  <1> HIDE DEF at
  <1>4. /\ SubSeq(seq, 1, at - 1) \in Seq(S) /\ Len(SubSeq(seq, 1, at - 1)) = at - 1
        /\ \A j \in 1 .. at - 1 : SubSeq(seq, 1, at - 1)[j] = seq[j]
      BY <1>2
  <1>5. /\ SubSeq(seq, at + 1, n) \in Seq(S) /\ Len(SubSeq(seq, at + 1, n)) = n - at
        /\ \A j \in 1 .. n - at : SubSeq(seq, at + 1, n)[j] = seq[at + j]
      BY <1>2
  <1>6. /\ rest \in Seq(S) /\ Len(rest) = n - 1
        /\ \A j \in 1 .. n - 1 : rest[j] = seq[IF j < at THEN j ELSE j + 1]
    <2> DEFINE a == SubSeq(seq, 1, at - 1)
               b == SubSeq(seq, at + 1, n)
    <2>1. rest = a \o b
        OBVIOUS
    <2> HIDE DEF a, b
    <2>2. /\ a \in Seq(S) /\ b \in Seq(S) /\ Len(a) = at - 1 /\ Len(b) = n - at
          /\ \A j \in 1 .. at - 1 : a[j] = seq[j]
          /\ \A j \in 1 .. n - at : b[j] = seq[at + j]
        BY <1>4, <1>5 DEF a, b
    <2>3. a \o b \in Seq(S) /\ Len(a \o b) = Len(a) + Len(b)
      <3>1. a \in Seq(S) /\ b \in Seq(S)
          BY <2>2
      <3> QED
          BY <3>1
    <2>4. ASSUME NEW j \in 1 .. n - 1
          PROVE  (a \o b)[j] = seq[IF j < at THEN j ELSE j + 1]
      <3>1. CASE j < at
          BY <1>2, <2>2, <3>1
      <3>2. CASE j >= at
        <4>1. (a \o b)[j] = b[j - Len(a)]
            BY <1>2, <2>2, <3>2
        <4>2. j - Len(a) \in 1 .. n - at /\ at + (j - Len(a)) = j + 1
            BY <1>2, <2>2, <3>2
        <4> QED
            BY <1>2, <2>2, <3>2, <4>1, <4>2
      <3>3. j < at \/ j >= at
        <4>1. at \in Int
            BY <1>2
        <4> QED
            BY <4>1
      <3> QED
          BY <3>1, <3>2, <3>3
    <2>5. Len(a \o b) = n - 1
      <3>1. at \in Int /\ n \in Nat
          BY <1>2
      <3> HIDE DEF n
      <3> QED
          BY <2>2, <2>3, <3>1
    <2> HIDE DEF n
    <2> QED
        BY <2>1, <2>3, <2>4, <2>5
  <1> QED
      BY <1>2, <1>3, <1>6

\* Every step keeps the list in its array.
LEMMA StepFits == IInv /\ PreemptedFitsArray /\ [Next]_vars => PreemptedFitsArray'
  <1> SUFFICES ASSUME IInv, PreemptedFitsArray, [Next]_vars PROVE PreemptedFitsArray'
      OBVIOUS
  <1> DEFINE Live == Fence \ {NoFence}
  <1>1. FenceQueue \in Seq(Live) /\ Len(FenceQueue) <= QueueCapacity
    <2>1. FenceQueue \in Seq(Fence) /\ Len(FenceQueue) <= QueueCapacity
        BY DEF IInv, TypeOK
    <2>2. \A i \in 1 .. Len(FenceQueue) : FenceQueue[i] # NoFence
        BY DEF IInv, FencesOrdered, QueueOrdered
    <2> QED
        BY <2>1, <2>2
  <1>2. PreemptedFenceQueue \in Seq(Live) /\ Len(PreemptedFenceQueue) <= QueueCapacity
      BY DEF PreemptedFitsArray
  <1>3. CASE PreemptedFenceQueue' = PreemptedFenceQueue
      BY <1>3 DEF PreemptedFitsArray
  <1>4. CASE PreemptedFenceQueue' = FenceQueue
      BY <1>1, <1>4 DEF PreemptedFitsArray
  <1>5. CASE PreemptedFenceQueue' = <<>>
      BY <1>5, CapacityAssumption DEF PreemptedFitsArray
  <1>6. ASSUME NEW fence \in Fence, QueueResubmittedPagingFence(fence)
        PROVE  PreemptedFitsArray'
    <2>1. /\ fence \in Elements(PreemptedFenceQueue)
          /\ PreemptedFenceQueue' = WithoutFirst(PreemptedFenceQueue, fence)
        BY <1>6
        DEF QueueResubmittedPagingFence, SchedQueueResubmittedPagingFence,
            MayQueueResubmittedPagingFence
    <2>2. /\ PreemptedFenceQueue' \in Seq(Live)
          /\ Len(PreemptedFenceQueue') = Len(PreemptedFenceQueue) - 1
        BY <1>2, <2>1, FirstRemoved
    <2> QED
        BY <1>2, <2>2, CapacityAssumption DEF PreemptedFitsArray
  <1>7. CASE ResetQueues
    <2> DEFINE room == QueueCapacity - Len(FenceQueue)
               kept == KeptPreempted(PreemptedFenceQueue, LastBeforeKept, room)
    <2>1. PreemptedFenceQueue' = FenceQueue \o kept
        BY <1>7 DEF ResetQueues
    <2>2. room \in Nat
        BY <1>1, CapacityAssumption
    <2>3. kept \in Seq(Live) /\ Len(kept) <= room
      <3> HIDE DEF room, Live
      <3> QED
          BY <1>2, <2>2, KeptFits
    <2> HIDE DEF kept
    <2>4. FenceQueue \o kept \in Seq(Live)
          /\ Len(FenceQueue \o kept) = Len(FenceQueue) + Len(kept)
        BY <1>1, <2>3
    <2> QED
        BY <1>1, <2>1, <2>3, <2>4, CapacityAssumption DEF PreemptedFitsArray
  <1> QED
      BY <1>3, <1>4, <1>5, <1>6, <1>7
      DEF Next, vars, QueueFence, SchedQueueFence, ActivateFence, SchedActivateFence,
          RecordCompletion, SchedRecordCompletion,
          BeginBoundaryPreemption, SchedBeginBoundaryPreemption,
          ClaimBoundaryPreemption, SchedClaimBoundaryPreemption,
          CommitBoundaryPreemption, SchedCommitBoundaryPreemption,
          BeginPreemption, SchedBeginPreemption, AbortPreemption,
          SchedAbortPreemption, ResetEngine, SchedResetEngine, ResetFromTimeout

\* Whatever the resets and resubmissions, the list of preempted fences stays
\* within PreemptedFenceQueue[].
THEOREM PreemptedNeverOverflows == Spec => []PreemptedFitsArray
  <1>1. Init => PreemptedFitsArray
      BY CapacityAssumption DEF Init, PreemptedFitsArray
  <1> QED
      BY <1>1, StepFits, Invariant, PTL DEF Spec

-----------------------------------------------------------------------------
(* Where the owed fences are.                                              *)

\* How far a fence lies behind the last submitted one, which does not move while
\* anything is owed.
Behind(fence) == Distance(LastSubmittedFence, fence)

\* Where the owed fences are in the list: entries m + 1 .. k, an increasing chain
\* that starts after the queue's tail and has room behind the queue.  The entries
\* before them are the render packets VidSch skipped; those after k are leftovers
\* of earlier preemptions, about which nothing is known.
OwedListed(m, k) ==
    /\ Len(FenceQueue) + (k - m) <= QueueCapacity
    /\ \A i \in 1 .. k : Behind(PreemptedFenceQueue[i]) < HalfRange
    /\ \A i \in 1 .. m : Behind(LastBeforeKept) <= Behind(PreemptedFenceQueue[i])
    /\ \A i \in m + 1 .. k : Behind(PreemptedFenceQueue[i]) < Behind(LastBeforeKept)
    /\ \A i, j \in m + 1 .. k :
         i < j => Behind(PreemptedFenceQueue[j]) < Behind(PreemptedFenceQueue[i])
    /\ Owed \subseteq {PreemptedFenceQueue[i] : i \in m + 1 .. k}

\* Whatever is owed is listed so.
OwedInv ==
    Owed # {} => \E k \in 0 .. Len(PreemptedFenceQueue) : \E m \in 0 .. k : OwedListed(m, k)

\* For fences less than half the range behind the last one, FenceAfter is the
\* order of submission.
LEMMA AfterIsCloser ==
    ASSUME NEW a \in Fence, NEW b \in Fence, NEW last \in Fence,
           Distance(last, a) < HalfRange, Distance(last, b) < HalfRange
    PROVE  FenceAfter(a, b) <=> Distance(last, a) < Distance(last, b)
    BY HalfRangeAssumption DEF FenceAfter, Distance, Fence, Modulus

\* The chain of fences, seen from the last submitted one.
LEMMA BehindOrdered ==
    ASSUME IInv
    PROVE  /\ LastBeforeKept \in Fence
           /\ \A fence \in Fence : Behind(fence) \in Nat
           /\ Behind(CompletedFence) < HalfRange
           /\ Behind(LastBeforeKept) < HalfRange
           /\ ActiveFence # NoFence => Behind(ActiveFence) < Behind(CompletedFence)
           /\ \A i \in 1 .. Len(FenceQueue) :
                /\ FenceQueue[i] \in Fence
                /\ Behind(FenceQueue[i]) < Behind(CompletedFence)
                /\ ActiveFence # NoFence => Behind(FenceQueue[i]) < Behind(ActiveFence)
                /\ Behind(LastBeforeKept) <= Behind(FenceQueue[i])
           /\ \A i, j \in 1 .. Len(FenceQueue) :
                i < j => Behind(FenceQueue[j]) < Behind(FenceQueue[i])
  <1>1. /\ CompletedFence \in Fence /\ LastSubmittedFence \in Fence
        /\ ActiveFence \in Fence /\ FenceQueue \in Seq(Fence)
      BY DEF IInv, TypeOK
  <1>2. \A fence \in Fence : Behind(fence) \in Nat /\ Ahead(fence) \in Nat
      BY <1>1, DistanceType DEF Behind, Ahead
  <1>3. ASSUME NEW fence \in Fence, Ahead(fence) <= Ahead(LastSubmittedFence)
        PROVE  Behind(fence) = Ahead(LastSubmittedFence) - Ahead(fence)
      BY <1>1, <1>3, DistanceShift DEF Behind, Ahead
  <1>4. Ahead(LastSubmittedFence) < HalfRange /\ Ahead(CompletedFence) = 0
      BY <1>1, DistanceType DEF IInv, FencesOrdered, ActiveInWindow, Ahead
  <1>5. Behind(CompletedFence) = Ahead(LastSubmittedFence)
      BY DEF Behind, Ahead
  <1>6. ASSUME ActiveFence # NoFence
        PROVE  /\ Behind(ActiveFence) = Ahead(LastSubmittedFence) - Ahead(ActiveFence)
               /\ Ahead(ActiveFence) >= 1
    <2>1. Ahead(ActiveFence) \in 1 .. Ahead(LastSubmittedFence)
        BY <1>6 DEF IInv, FencesOrdered, ActiveInWindow
    <2>2. Ahead(ActiveFence) <= Ahead(LastSubmittedFence)
        BY <1>1, <1>2, <2>1
    <2> QED
        BY <1>1, <1>3, <2>1, <2>2
  <1>7. ASSUME NEW i \in 1 .. Len(FenceQueue)
        PROVE  /\ FenceQueue[i] \in Fence
               /\ Behind(FenceQueue[i])
                    = Ahead(LastSubmittedFence) - Ahead(FenceQueue[i])
               /\ Ahead(FenceQueue[i]) >= 1
               /\ ActiveFence # NoFence => Ahead(ActiveFence) < Ahead(FenceQueue[i])
    <2>1. /\ Ahead(FenceQueue[i]) \in 1 .. Ahead(LastSubmittedFence)
          /\ ActiveFence # NoFence => Ahead(ActiveFence) < Ahead(FenceQueue[i])
        BY <1>7 DEF IInv, FencesOrdered, QueueOrdered
    <2>2. FenceQueue[i] \in Fence
        BY <1>1, <1>7
    <2>3. Ahead(FenceQueue[i]) <= Ahead(LastSubmittedFence)
        BY <1>1, <1>2, <2>1, <2>2
    <2> QED
        BY <1>3, <2>1, <2>2, <2>3
  <1>8. ASSUME NEW i \in 1 .. Len(FenceQueue), NEW j \in 1 .. Len(FenceQueue), i < j
        PROVE  Behind(FenceQueue[j]) < Behind(FenceQueue[i])
    <2>1. Ahead(FenceQueue[i]) < Ahead(FenceQueue[j])
        BY <1>8 DEF IInv, FencesOrdered, QueueOrdered
    <2>2. /\ Behind(FenceQueue[i]) = Ahead(LastSubmittedFence) - Ahead(FenceQueue[i])
          /\ Behind(FenceQueue[j]) = Ahead(LastSubmittedFence) - Ahead(FenceQueue[j])
          /\ FenceQueue[i] \in Fence /\ FenceQueue[j] \in Fence
        BY <1>7, <1>8
    <2>3. /\ Ahead(LastSubmittedFence) \in Nat
          /\ Ahead(FenceQueue[i]) \in Nat /\ Ahead(FenceQueue[j]) \in Nat
        BY <1>1, <1>2, <2>2
    <2> QED
        BY <2>1, <2>2, <2>3
  <1>9. ASSUME NEW i \in 1 .. Len(FenceQueue)
        PROVE  /\ Behind(FenceQueue[i]) < Behind(CompletedFence)
               /\ ActiveFence # NoFence => Behind(FenceQueue[i]) < Behind(ActiveFence)
    <2>1. /\ Ahead(LastSubmittedFence) \in Nat /\ Ahead(FenceQueue[i]) \in Nat
          /\ Ahead(ActiveFence) \in Nat
        BY <1>1, <1>2, <1>7
    <2> QED
        BY <1>5, <1>6, <1>7, <2>1
  <1>10. ActiveFence # NoFence => Behind(ActiveFence) < Behind(CompletedFence)
      BY <1>1, <1>2, <1>5, <1>6
  <1>11. /\ LastBeforeKept \in Fence /\ Behind(LastBeforeKept) < HalfRange
         /\ \A i \in 1 .. Len(FenceQueue) :
              Behind(LastBeforeKept) <= Behind(FenceQueue[i])
    <2>1. CASE FenceQueue = <<>>
      <3>1. /\ LastBeforeKept \in {ActiveFence, CompletedFence}
            /\ LastBeforeKept = ActiveFence =>
                 ActiveFence # NoFence \/ LastBeforeKept = CompletedFence
          BY <2>1 DEF LastBeforeKept, LastAbortedFence
      <3> QED
          BY <1>1, <1>2, <1>4, <1>5, <1>10, <2>1, <3>1, HalfRangeAssumption
    <2>2. CASE FenceQueue # <<>>
      <3> DEFINE n == Len(FenceQueue)
      <3>1. LastBeforeKept = FenceQueue[n] /\ n \in 1 .. n /\ n \in Nat
          BY <1>1, <2>2 DEF LastBeforeKept
      <3>2. LastBeforeKept \in Fence /\ Behind(LastBeforeKept) < HalfRange
          BY <1>1, <1>2, <1>4, <1>5, <1>7, <1>9, <3>1, HalfRangeAssumption
      <3>3. ASSUME NEW i \in 1 .. n
            PROVE  Behind(LastBeforeKept) <= Behind(FenceQueue[i])
        <4>1. CASE i = n
            BY <1>2, <1>7, <3>1, <4>1
        <4>2. CASE i < n
            BY <1>2, <1>7, <1>8, <3>1, <3>3, <4>2
        <4> QED
            BY <3>1, <4>1, <4>2
      <3> QED
          BY <3>2, <3>3
    <2> QED
        BY <2>1, <2>2
  <1> QED
      BY <1>1, <1>2, <1>4, <1>5, <1>7, <1>8, <1>9, <1>10, <1>11

\* A step that leaves the list, what is owed and the tail of the queue in place
\* leaves the owed fences where they are.
LEMMA ListKept ==
    ASSUME OwedInv, IInv, IInv',
           UNCHANGED <<PreemptedFenceQueue, LastSubmittedFence, Owed, LastBeforeKept>>,
           Len(FenceQueue') <= Len(FenceQueue)
    PROVE  OwedInv'
  <1>1. Len(FenceQueue) \in Nat /\ Len(FenceQueue') \in Nat
      BY DEF IInv, TypeOK
  <1>2. CASE Owed = {}
      BY <1>2 DEF OwedInv
  <1>3. CASE Owed # {}
    <2>1. PICK k \in 0 .. Len(PreemptedFenceQueue) : \E m \in 0 .. k : OwedListed(m, k)
        BY <1>3 DEF OwedInv
    <2>2. PICK m \in 0 .. k : OwedListed(m, k)
        BY <2>1
    <2>3. Len(FenceQueue') + (k - m) <= QueueCapacity
      <3>1. Len(FenceQueue) + (k - m) <= QueueCapacity
          BY <2>2 DEF OwedListed
      <3>2. k \in Int /\ m \in Int
          BY <2>2
      <3> QED
          BY <1>1, <3>1, <3>2, CapacityAssumption
    <2>4. OwedListed(m, k)'
        BY <2>2, <2>3 DEF OwedListed, Behind
    <2> QED
        BY <2>2, <2>4 DEF OwedInv
  <1> QED
      BY <1>2, <1>3

\* Discarding the queue puts it at the front of the list: whatever was owed before
\* follows it there as the entries up to q.
LEMMA DiscardListed ==
    ASSUME IInv, PreemptedFitsArray, NEW q \in 0 .. Len(PreemptedFenceQueue'),
           PreemptedFenceQueue' \in Seq(Fence),
           FenceQueue' = <<>>, LastSubmittedFence' = LastSubmittedFence,
           LastBeforeKept' \in Fence, Len(FenceQueue) <= q, q <= QueueCapacity,
           \A i \in 1 .. Len(FenceQueue) : PreemptedFenceQueue'[i] = FenceQueue[i],
           \A i \in 1 .. Len(FenceQueue) : Behind(FenceQueue[i]) < Behind(LastBeforeKept'),
           \A i \in Len(FenceQueue) + 1 .. q :
               /\ Behind(PreemptedFenceQueue'[i]) < Behind(LastBeforeKept)
               /\ Behind(PreemptedFenceQueue'[i]) < Behind(LastBeforeKept'),
           \A i, j \in Len(FenceQueue) + 1 .. q :
               i < j => Behind(PreemptedFenceQueue'[j]) < Behind(PreemptedFenceQueue'[i]),
           Behind(LastBeforeKept') < HalfRange,
           Owed' \subseteq {PreemptedFenceQueue'[i] : i \in 1 .. q}
    PROVE  OwedInv'
  <1> DEFINE P == PreemptedFenceQueue'
             n == Len(FenceQueue)
             B(f) == Distance(LastSubmittedFence, f)
  <1>1. /\ n \in Nat /\ q \in Nat /\ P \in Seq(Fence) /\ LastSubmittedFence \in Fence
        /\ LastBeforeKept \in Fence
      BY BehindOrdered DEF IInv, TypeOK
  <1>2. \A f \in Fence : B(f) \in Nat
      BY <1>1, DistanceType
  <1>3. ASSUME NEW i \in 1 .. q
        PROVE  P[i] \in Fence /\ B(P[i]) < B(LastBeforeKept')
    <2>1. P[i] \in Fence
        BY <1>1, <1>3
    <2>2. CASE i \in 1 .. n
        BY <2>1, <2>2 DEF Behind
    <2>3. CASE i \in n + 1 .. q
        BY <2>1, <2>3 DEF Behind
    <2> QED
        BY <1>1, <1>3, <2>2, <2>3, <2>1
  <1>4. ASSUME NEW i \in 1 .. q, NEW j \in 1 .. q, i < j
        PROVE  B(P[j]) < B(P[i])
    <2>1. CASE j \in 1 .. n
      <3>1. i \in 1 .. n
          BY <1>1, <1>4, <2>1
      <3>2. B(FenceQueue[j]) < B(FenceQueue[i])
          BY <1>4, <2>1, <3>1, BehindOrdered DEF Behind
      <3> QED
          BY <2>1, <3>1, <3>2
    <2>2. CASE i \in 1 .. n /\ j \in n + 1 .. q
      <3>1. B(LastBeforeKept) <= B(FenceQueue[i])
          BY <2>2, BehindOrdered DEF Behind
      <3>2. B(P[j]) < B(LastBeforeKept)
          BY <2>2 DEF Behind
      <3>3. P[i] = FenceQueue[i]
          BY <2>2
      <3> QED
          BY <1>1, <1>2, <1>3, <3>1, <3>2, <3>3
    <2>3. CASE i \in n + 1 .. q
      <3>1. j \in n + 1 .. q
          BY <1>1, <1>4, <2>3
      <3> QED
          BY <1>4, <2>3, <3>1 DEF Behind
    <2> QED
        BY <1>1, <1>4, <2>1, <2>2, <2>3
  <1>5. OwedListed(0, q)'
    <2>1. Len(FenceQueue') + (q - 0) <= QueueCapacity
        BY <1>1
    <2>2. \A i \in 1 .. q : B(P[i]) < HalfRange
        BY <1>2, <1>3, HalfRangeAssumption DEF Behind
    <2>3. 0 + 1 .. q = 1 .. q /\ 1 .. 0 = {}
        BY <1>1
    <2> QED
        BY <1>3, <1>4, <2>1, <2>2, <2>3 DEF OwedListed, Behind
  <1>6. 0 \in 0 .. q
      BY <1>1
  <1> QED
      BY <1>5, <1>6 DEF OwedInv

\* A preemption that finds nothing owed leaves exactly the discarded queue in the
\* list.
LEMMA PreemptionListed ==
    ASSUME IInv, IInv', PreemptedFitsArray, PreemptedFitsArray', Owed = {},
           PreemptedFenceQueue' = FenceQueue, FenceQueue' = <<>>,
           UNCHANGED <<LastSubmittedFence, CompletedFence, ActiveFence>>,
           Owed' \subseteq Elements(FenceQueue)
    PROVE  OwedInv'
  <1> DEFINE n == Len(FenceQueue)
  <1>1. n \in Nat /\ FenceQueue \in Seq(Fence) /\ n <= QueueCapacity
      BY DEF IInv, TypeOK
  <1>2. LastBeforeKept' = IF ActiveFence # NoFence THEN ActiveFence ELSE CompletedFence
      BY DEF LastBeforeKept, LastAbortedFence
  <1>3. /\ LastBeforeKept' \in Fence
        /\ Behind(LastBeforeKept') < HalfRange
        /\ \A i \in 1 .. n : Behind(FenceQueue[i]) < Behind(LastBeforeKept')
    <2>1. ActiveFence \in Fence /\ CompletedFence \in Fence
        BY DEF IInv, TypeOK
    <2> QED
        BY <1>2, <2>1, BehindOrdered, HalfRangeAssumption
  <1>4. n \in 0 .. Len(PreemptedFenceQueue') /\ n + 1 .. n = {}
      BY <1>1
  <1>5. Owed' \subseteq {PreemptedFenceQueue'[i] : i \in 1 .. n}
      BY DEF Elements
  <1> QED
      BY <1>1, <1>3, <1>4, <1>5, DiscardListed

\* A reset leaves the discarded queue and, behind it, everything still owed.
LEMMA ResetListed ==
    ASSUME IInv, PreemptedFitsArray, PreemptedFitsArray', OwedInv, ResetEngine
    PROVE  OwedInv'
  <1> DEFINE n == Len(FenceQueue)
             P == PreemptedFenceQueue
             room == QueueCapacity - n
             kept == KeptPreempted(P, LastBeforeKept, room)
  <1>1. /\ P' = FenceQueue \o kept /\ FenceQueue' = <<>>
        /\ LastSubmittedFence' = LastSubmittedFence /\ CompletedFence' = CompletedFence
        /\ ActiveFence' = NoFence
        /\ Owed' \subseteq Owed \cup Elements(FenceQueue)
      BY DEF ResetEngine, SchedResetEngine, ResetQueues, Discard
  <1>2. /\ n \in Nat /\ FenceQueue \in Seq(Fence) /\ n <= QueueCapacity
        /\ CompletedFence \in Fence /\ LastSubmittedFence \in Fence
      BY DEF IInv, TypeOK
  <1>3. P \in Seq(Fence) /\ room \in Nat /\ P' \in Seq(Fence)
    <2>1. P \in Seq(Fence \ {NoFence}) /\ P' \in Seq(Fence \ {NoFence})
        BY DEF PreemptedFitsArray
    <2> QED
        BY <1>2, <2>1, CapacityAssumption
  <1>4. LastBeforeKept' = CompletedFence
      BY <1>1 DEF LastBeforeKept, LastAbortedFence
  <1>5. /\ LastBeforeKept' \in Fence
        /\ Behind(LastBeforeKept') < HalfRange
        /\ \A i \in 1 .. n : Behind(FenceQueue[i]) < Behind(LastBeforeKept')
      BY <1>2, <1>4, BehindOrdered
  <1>6. kept \in Seq(Fence) /\ Len(kept) \in Nat
    <2> HIDE DEF room, P
    <2>1. kept \in Seq(Fence)
        BY <1>3, KeptFits
    <2> HIDE DEF kept
    <2> QED
        BY <2>1
  <1>7. /\ Len(P') = n + Len(kept)
        /\ \A i \in 1 .. n : P'[i] = FenceQueue[i]
        /\ \A i \in n + 1 .. n + Len(kept) : P'[i] = kept[i - n]
    <2> HIDE DEF kept
    <2> QED
        BY <1>1, <1>2, <1>6
  <1>8. CASE Owed = {}
    <2>1. n \in 0 .. Len(P') /\ n + 1 .. n = {}
        BY <1>2, <1>6, <1>7
    <2>2. Owed' \subseteq {P'[i] : i \in 1 .. n}
        BY <1>1, <1>7, <1>8 DEF Elements
    <2> HIDE DEF kept
    <2> QED
        BY <1>1, <1>2, <1>3, <1>5, <1>7, <2>1, <2>2, DiscardListed
  <1>9. CASE Owed # {}
    <2>1. PICK k \in 0 .. Len(P) : \E m \in 0 .. k : OwedListed(m, k)
        BY <1>9 DEF OwedInv
    <2>2. PICK m \in 0 .. k : OwedListed(m, k)
        BY <2>1
    <2>3. k \in Nat /\ m \in Nat /\ m <= k /\ k - m \in Nat /\ n + (k - m) <= QueueCapacity
        BY <2>1, <2>2 DEF OwedListed
    <2>4. \A i \in 1 .. k : P[i] \in Fence /\ Behind(P[i]) < HalfRange
        BY <1>3, <2>1, <2>2 DEF OwedListed
    <2>5. ASSUME NEW a \in Fence, NEW b \in Fence, Behind(a) < HalfRange,
                 Behind(b) < HalfRange
          PROVE  FenceAfter(a, b) <=> Behind(a) < Behind(b)
        BY <1>2, <2>5, AfterIsCloser DEF Behind
    <2>6. LastBeforeKept \in Fence /\ Behind(LastBeforeKept) < HalfRange
          /\ \A f \in Fence : Behind(f) \in Nat
        BY BehindOrdered
    <2>7. ASSUME NEW i \in 1 .. m PROVE ~FenceAfter(P[i], LastBeforeKept)
      <3>1. i \in 1 .. k /\ Behind(LastBeforeKept) <= Behind(P[i])
          BY <2>2, <2>3 DEF OwedListed
      <3>2. ~(Behind(P[i]) < Behind(LastBeforeKept))
          BY <2>4, <2>6, <3>1
      <3> QED
          BY <2>4, <2>5, <2>6, <3>1, <3>2
    <2>8. ASSUME NEW i \in m + 1 .. k
          PROVE  FenceAfter(P[i], IF i = m + 1 THEN LastBeforeKept ELSE P[i - 1])
      <3>1. i \in 1 .. k
          BY <2>3
      <3>2. CASE i = m + 1
        <4>1. Behind(P[i]) < Behind(LastBeforeKept)
            BY <2>2 DEF OwedListed
        <4> QED
            BY <2>4, <2>5, <2>6, <3>1, <3>2, <4>1
      <3>3. CASE i # m + 1
        <4>1. i - 1 \in m + 1 .. k /\ i - 1 < i /\ i - 1 \in 1 .. k
            BY <2>3, <3>3
        <4>2. Behind(P[i]) < Behind(P[i - 1])
            BY <2>2, <4>1 DEF OwedListed
        <4> QED
            BY <2>4, <2>5, <3>1, <3>3, <4>1, <4>2
      <3> QED
          BY <3>2, <3>3
    <2>9. k - m <= Len(kept) /\ \A i \in 1 .. k - m : kept[i] = P[m + i]
      <3>1. k - m <= room
          BY <1>2, <2>3, CapacityAssumption
      <3>2. k \in 0 .. Len(P) /\ m \in 0 .. k
          BY <2>1, <2>2
      <3> DEFINE after == LastBeforeKept
      <3>3. kept = KeptPreempted(P, after, room)
          OBVIOUS
      <3>4. \A i \in 1 .. m : ~FenceAfter(P[i], after)
          BY <2>7
      <3>5. \A i \in m + 1 .. k :
              FenceAfter(P[i], IF i = m + 1 THEN after ELSE P[i - 1])
          BY <2>8
      <3> HIDE DEF room, P, after, kept
      <3> QED
          BY <1>3, <3>1, <3>2, <3>3, <3>4, <3>5, ChainKept
    <2> HIDE DEF kept, room
    <2> DEFINE q == n + (k - m)
    <2>10. q \in 0 .. Len(P') /\ n <= q /\ q <= QueueCapacity
        BY <1>2, <1>6, <1>7, <2>3, <2>9
    <2>11. ASSUME NEW i \in n + 1 .. q
           PROVE  m + (i - n) \in m + 1 .. k /\ P'[i] = P[m + (i - n)]
      <3>1. i - n \in 1 .. k - m /\ i \in n + 1 .. n + Len(kept)
          BY <1>2, <1>6, <2>3, <2>9
      <3>2. m + (i - n) \in m + 1 .. k
          BY <1>2, <2>3, <3>1
      <3> QED
          BY <1>7, <2>9, <3>1, <3>2
    <2>12. ASSUME NEW i \in n + 1 .. q
           PROVE  /\ Behind(P'[i]) < Behind(LastBeforeKept)
                  /\ Behind(P'[i]) < Behind(LastBeforeKept')
      <3>1. m + (i - n) \in m + 1 .. k /\ P'[i] = P[m + (i - n)]
          BY <2>11
      <3>2. Behind(P'[i]) < Behind(LastBeforeKept)
          BY <2>2, <3>1 DEF OwedListed
      <3>3. Behind(LastBeforeKept) <= Behind(LastBeforeKept')
        <4>1. CASE n = 0
          <5>1. LastBeforeKept = IF ActiveFence # NoFence THEN ActiveFence
                                                          ELSE CompletedFence
              BY <1>2, <4>1 DEF LastBeforeKept, LastAbortedFence
          <5>2. ActiveFence # NoFence => Behind(ActiveFence) < Behind(CompletedFence)
              BY BehindOrdered
          <5>3. Behind(LastBeforeKept) \in Nat /\ Behind(CompletedFence) \in Nat
              BY <1>2, <2>6
          <5> QED
              BY <1>4, <5>1, <5>2, <5>3
        <4>2. CASE n # 0
          <5>1. 1 \in 1 .. n
              BY <1>2, <4>2
          <5>2. /\ FenceQueue[1] \in Fence
                /\ Behind(LastBeforeKept) <= Behind(FenceQueue[1])
                /\ Behind(FenceQueue[1]) < Behind(LastBeforeKept')
              BY <1>5, <5>1, BehindOrdered
          <5>3. /\ Behind(LastBeforeKept) \in Nat /\ Behind(LastBeforeKept') \in Nat
                /\ Behind(FenceQueue[1]) \in Nat
              BY <1>5, <2>6, <5>2
          <5> QED
              BY <5>2, <5>3
        <4> QED
            BY <4>1, <4>2
      <3>4. i \in 1 .. Len(P')
          BY <1>2, <2>10
      <3>5. /\ Behind(LastBeforeKept) \in Nat /\ Behind(LastBeforeKept') \in Nat
            /\ Behind(P'[i]) \in Nat
          BY <1>3, <1>5, <2>6, <3>4
      <3> QED
          BY <3>2, <3>3, <3>5
    <2>13. ASSUME NEW i \in n + 1 .. q, NEW j \in n + 1 .. q, i < j
           PROVE  Behind(P'[j]) < Behind(P'[i])
      <3>1. m + (i - n) < m + (j - n)
          BY <1>2, <2>3, <2>13
      <3> QED
          BY <2>2, <2>11, <2>13, <3>1 DEF OwedListed
    <2>14. Owed' \subseteq {P'[i] : i \in 1 .. q}
      <3>1. ASSUME NEW f \in Owed' PROVE \E i \in 1 .. q : f = P'[i]
        <4>1. CASE f \in Elements(FenceQueue)
          <5>1. PICK i \in 1 .. n : f = FenceQueue[i]
              BY <4>1 DEF Elements
          <5>2. i \in 1 .. q /\ f = P'[i]
              BY <1>2, <1>7, <2>3, <5>1
          <5> QED
              BY <5>2
        <4>2. CASE f \in Owed
          <5>1. PICK j \in m + 1 .. k : f = P[j]
              BY <2>2, <4>2 DEF OwedListed
          <5>2. /\ n + (j - m) \in n + 1 .. q
                /\ m + ((n + (j - m)) - n) = j
                /\ n + (j - m) \in 1 .. q
              BY <1>2, <2>3, <5>1
          <5>3. f = P'[n + (j - m)]
              BY <2>11, <5>1, <5>2
          <5> QED
              BY <5>2, <5>3
        <4> QED
            BY <1>1, <3>1, <4>1, <4>2
      <3> QED
          BY <3>1
    <2> HIDE DEF q
    <2> QED
        BY <1>1, <1>3, <1>5, <1>7, <2>10, <2>12, <2>13, <2>14, DiscardListed
  <1> QED
      BY <1>8, <1>9

\* A resubmitted fence leaves the list; what is still owed lies behind it.
LEMMA ResubmitListed ==
    ASSUME IInv, IInv', PreemptedFitsArray, OwedInv, NEW fence \in Fence,
           QueueResubmittedPagingFence(fence)
    PROVE  OwedInv'
  <1> DEFINE n == Len(FenceQueue)
             P == PreemptedFenceQueue
  <1>1. /\ fence \in Owed /\ fence \in Elements(P)
        /\ \A g \in Owed : Ahead(fence) <= Ahead(g)
        /\ P' = WithoutFirst(P, fence) /\ FenceQueue' = Append(FenceQueue, fence)
        /\ LastSubmittedFence' = LastSubmittedFence
        /\ Owed' = Owed \ {fence}
      BY DEF QueueResubmittedPagingFence, NextOwed, SchedQueueResubmittedPagingFence,
             MayQueueResubmittedPagingFence, PushFence
  <1>2. /\ n \in Nat /\ FenceQueue \in Seq(Fence) /\ LastSubmittedFence \in Fence
        /\ CompletedFence \in Fence
      BY DEF IInv, TypeOK
  <1>3. P \in Seq(Fence)
    <2>1. P \in Seq(Fence \ {NoFence})
        BY DEF PreemptedFitsArray
    <2> QED
        BY <2>1
  <1>4. PICK k \in 0 .. Len(P) : \E m \in 0 .. k : OwedListed(m, k)
      BY <1>1 DEF OwedInv
  <1>5. PICK m \in 0 .. k : OwedListed(m, k)
      BY <1>4
  <1>6. k \in Nat /\ m \in Nat /\ m <= k /\ k <= Len(P) /\ n + (k - m) <= QueueCapacity
      BY <1>3, <1>4, <1>5 DEF OwedListed
  <1>7. PICK s \in m + 1 .. k : fence = P[s]
      BY <1>1, <1>5 DEF OwedListed
  <1>8. PICK at \in 1 .. Len(P) :
          /\ P[at] = fence
          /\ \A j \in 1 .. at - 1 : P[j] # fence
          /\ P' \in Seq(Fence)
          /\ Len(P') = Len(P) - 1
          /\ \A j \in 1 .. Len(P) - 1 : P'[j] = P[IF j < at THEN j ELSE j + 1]
    <2> DEFINE R == WithoutFirst(P, fence)
    <2> HIDE DEF P
    <2>1. \E at \in 1 .. Len(P) :
            /\ P[at] = fence
            /\ \A j \in 1 .. at - 1 : P[j] # fence
            /\ R \in Seq(Fence)
            /\ Len(R) = Len(P) - 1
            /\ \A j \in 1 .. Len(P) - 1 : R[j] = P[IF j < at THEN j ELSE j + 1]
        BY <1>1, <1>3, FirstRemoved
    <2>2. P' = R
        BY <1>1
    <2> HIDE DEF R
    <2> QED
        BY <2>1, <2>2
  <1> HIDE DEF P
  <1>9. \A f \in Fence : Behind(f) \in Nat
      BY BehindOrdered
  <1>10. \A i \in 1 .. k : P[i] \in Fence /\ Behind(P[i]) \in Nat
      BY <1>3, <1>6, <1>9
  <1>11. /\ LastBeforeKept \in Fence /\ Behind(LastBeforeKept) \in Nat
      BY <1>9, BehindOrdered
  <1>12. /\ \A i \in 1 .. k : Behind(P[i]) < HalfRange
         /\ \A i \in 1 .. m : Behind(LastBeforeKept) <= Behind(P[i])
         /\ \A i \in m + 1 .. k : Behind(P[i]) < Behind(LastBeforeKept)
         /\ \A i, j \in m + 1 .. k : i < j => Behind(P[j]) < Behind(P[i])
         /\ Owed \subseteq {P[i] : i \in m + 1 .. k}
      BY <1>5 DEF OwedListed, P
  <1>13. at = s
    <2>1. at <= s
        BY <1>3, <1>6, <1>7, <1>8
    <2>2. at \in 1 .. k /\ s \in 1 .. k
        BY <1>3, <1>6, <1>7, <1>8, <2>1
    <2>3. CASE at <= m
      <3>1. at \in 1 .. m
          BY <1>6, <1>8, <2>3
      <3> QED
          BY <1>7, <1>8, <1>10, <1>11, <1>12, <2>2, <3>1
    <2>4. CASE at \in m + 1 .. k /\ at < s
      <3>1. Behind(P[s]) < Behind(P[at])
          BY <1>7, <1>12, <2>4
      <3> QED
          BY <1>7, <1>8, <1>10, <2>2, <3>1
    <2> QED
        BY <1>6, <1>7, <2>1, <2>2, <2>3, <2>4
  <1>14. LastBeforeKept' = fence
    <2>1. FenceQueue' # <<>> /\ FenceQueue'[Len(FenceQueue')] = fence
        BY <1>1, <1>2
    <2> QED
        BY <2>1 DEF LastBeforeKept
  <1>15. Len(FenceQueue') = n + 1
      BY <1>1, <1>2
  <1> DEFINE Q == P'
             B(f) == Distance(LastSubmittedFence, f)
  <1>16. ASSUME NEW j \in 1 .. k - 1
         PROVE  /\ j < s => Q[j] = P[j]
                /\ j >= s => Q[j] = P[j + 1]
                /\ j \in 1 .. k /\ j + 1 \in 1 .. k
    <2>1. j \in 1 .. Len(P) - 1 /\ j \in 1 .. k /\ j + 1 \in 1 .. k
        BY <1>3, <1>6
    <2>2. Q[j] = P[IF j < s THEN j ELSE j + 1]
        BY <1>8, <1>13, <2>1
    <2>3. s \in Int /\ j \in Int
        BY <1>7
    <2> QED
        BY <2>1, <2>2, <2>3
  <1> HIDE DEF Q
  <1>17. ASSUME NEW j \in 1 .. k - 1 PROVE B(Q[j]) < HalfRange
      BY <1>7, <1>12, <1>16 DEF Behind
  <1>18. ASSUME NEW j \in 1 .. s - 1 PROVE B(fence) <= B(Q[j])
    <2>1. j \in 1 .. k - 1 /\ j < s /\ j \in 1 .. k /\ s \in 1 .. k
        BY <1>6, <1>7
    <2>2. Q[j] = P[j]
        BY <1>16, <2>1
    <2>3. Behind(P[s]) < Behind(LastBeforeKept)
        BY <1>7, <1>12
    <2>4. CASE j \in 1 .. m
      <3>1. Behind(LastBeforeKept) <= Behind(P[j])
          BY <1>12, <2>4
      <3>2. Behind(P[s]) <= Behind(P[j])
          BY <1>10, <1>11, <2>1, <2>3, <3>1
      <3> QED
          BY <1>7, <2>2, <3>2 DEF Behind
    <2>5. CASE j \in m + 1 .. k
      <3>1. Behind(P[s]) < Behind(P[j])
          BY <1>7, <1>12, <2>1, <2>5
      <3>2. Behind(P[s]) <= Behind(P[j])
          BY <1>10, <2>1, <3>1
      <3> QED
          BY <1>7, <2>2, <3>2 DEF Behind
    <2> QED
        BY <1>6, <2>1, <2>4, <2>5
  <1>19. ASSUME NEW j \in s .. k - 1
         PROVE  /\ Q[j] = P[j + 1] /\ j + 1 \in m + 1 .. k /\ s < j + 1
                /\ B(Q[j]) < B(fence)
    <2>1. j \in 1 .. k - 1 /\ j >= s /\ j + 1 \in m + 1 .. k /\ s < j + 1
        BY <1>6, <1>7
    <2>2. Q[j] = P[j + 1]
        BY <1>16, <2>1
    <2>3. Behind(P[j + 1]) < Behind(P[s])
        BY <1>7, <1>12, <2>1
    <2> QED
        BY <1>7, <2>1, <2>2, <2>3 DEF Behind
  <1>20. ASSUME NEW i \in s .. k - 1, NEW j \in s .. k - 1, i < j
         PROVE  B(Q[j]) < B(Q[i])
    <2>1. i + 1 < j + 1
        BY <1>20
    <2>2. Behind(P[j + 1]) < Behind(P[i + 1])
        BY <1>12, <1>19, <2>1
    <2> QED
        BY <1>19, <2>2 DEF Behind
  <1>21. ASSUME NEW g \in Owed' PROVE \E i \in s .. k - 1 : g = Q[i]
    <2>1. g \in Owed /\ g # fence
        BY <1>1, <1>21
    <2>2. PICK i \in m + 1 .. k : g = P[i]
        BY <1>12, <2>1
    <2>3. i > s
      <3>1. g \in Fence /\ Ahead(fence) <= Ahead(g)
            /\ Ahead(g) \in 1 .. Ahead(LastSubmittedFence)
            /\ Ahead(fence) \in 1 .. Ahead(LastSubmittedFence)
          BY <1>1, <2>1 DEF IInv, TypeOK, FencesOrdered, OwedOrdered
      <3>2. /\ Ahead(g) \in Nat /\ Ahead(fence) \in Nat
            /\ Ahead(LastSubmittedFence) \in Nat
          BY <1>2, <3>1, DistanceType DEF Ahead
      <3>3. Behind(g) = Ahead(LastSubmittedFence) - Ahead(g)
          BY <1>2, <3>1, <3>2, DistanceShift DEF Behind, Ahead
      <3>4. Behind(fence) = Ahead(LastSubmittedFence) - Ahead(fence)
          BY <1>2, <3>1, <3>2, DistanceShift DEF Behind, Ahead
      <3>5. Behind(g) <= Behind(fence)
          BY <3>1, <3>2, <3>3, <3>4
      <3>6. ASSUME i < s PROVE FALSE
        <4>1. Behind(fence) < Behind(g)
            BY <1>7, <1>12, <2>2, <3>6
        <4> QED
            BY <1>9, <3>1, <3>5, <4>1
      <3>7. i # s
          BY <1>7, <2>1, <2>2
      <3> QED
          BY <1>7, <2>2, <3>6, <3>7
    <2>4. i - 1 \in s .. k - 1 /\ (i - 1) + 1 = i
        BY <1>6, <1>7, <2>2, <2>3
    <2>5. g = Q[i - 1]
        BY <1>19, <2>2, <2>4
    <2> QED
        BY <2>4, <2>5
  <1>22. OwedListed(s - 1, k - 1)'
    <2>1. (n + 1) + ((k - 1) - (s - 1)) <= QueueCapacity
        BY <1>2, <1>6, <1>7, CapacityAssumption
    <2>2. (s - 1) + 1 .. k - 1 = s .. k - 1
        BY <1>7
    <2>3. Owed' \subseteq {Q[i] : i \in s .. k - 1}
        BY <1>21
    <2> QED
        BY <1>1, <1>14, <1>15, <1>17, <1>18, <1>19, <1>20, <2>1, <2>2, <2>3
        DEF OwedListed, Behind, Q, P
  <1>23. k - 1 \in 0 .. Len(P') /\ s - 1 \in 0 .. k - 1
      BY <1>3, <1>6, <1>7, <1>8
  <1> QED
      BY <1>22, <1>23 DEF OwedInv, P

\* One step keeps the owed fences listed, if VidSch does not preempt while it owes.
LEMMA StepOwed ==
    ASSUME ~PreemptWhileOwed, IInv, PreemptedFitsArray, OwedInv, [Next]_vars
    PROVE  OwedInv'
  <1>1. IInv' /\ PreemptedFitsArray'
      BY StepIInv, StepFits
  <1>2. Len(FenceQueue) \in Nat /\ FenceQueue \in Seq(Fence)
      BY DEF IInv, TypeOK
  <1>3. CASE Owed' = {}
      BY <1>3 DEF OwedInv
  <1>4. ASSUME NEW fence \in Fence, NEW paging \in BOOLEAN, QueueFence(fence, paging)
        PROVE  OwedInv'
      BY <1>3, <1>4 DEF QueueFence
  <1>5. ASSUME NEW fence \in Fence, QueueResubmittedPagingFence(fence)
        PROVE  OwedInv'
      BY <1>1, <1>5, ResubmitListed
  <1>6. ASSUME NEW fence \in Fence, ActivateFence(fence)
        PROVE  OwedInv'
    <2>1. /\ FenceQueue # <<>> /\ fence = Head(FenceQueue) /\ fence # NoFence
          /\ FenceQueue' = Tail(FenceQueue) /\ ActiveFence' = fence
          /\ UNCHANGED <<PreemptedFenceQueue, LastSubmittedFence, Owed>>
        BY <1>6
        DEF IInv, HeadCached, HeadOrNone, ActivateFence, SchedActivateFence,
            MayActivateFence, vidschVars
    <2>2. /\ Len(FenceQueue') = Len(FenceQueue) - 1
          /\ Len(FenceQueue') <= Len(FenceQueue)
          /\ FenceQueue' = <<>> => FenceQueue[Len(FenceQueue)] = fence
          /\ FenceQueue' # <<>> =>
               FenceQueue'[Len(FenceQueue')] = FenceQueue[Len(FenceQueue)]
      <3>1. /\ Len(Tail(FenceQueue)) = Len(FenceQueue) - 1
            /\ Tail(FenceQueue) \in Seq(Fence)
            /\ \A i \in 1 .. Len(FenceQueue) - 1 : Tail(FenceQueue)[i] = FenceQueue[i + 1]
            /\ Head(FenceQueue) = FenceQueue[1] /\ Len(FenceQueue) # 0
          BY <1>2, <2>1
      <3>2. ASSUME Tail(FenceQueue) = <<>> PROVE Len(FenceQueue) = 1
        <4>1. Len(<<>>) = 0
            OBVIOUS
        <4>2. Len(Tail(FenceQueue)) = 0
            BY <3>2, <4>1, Zenon
        <4>3. Len(FenceQueue) - 1 = 0
            BY <3>1, <4>2, Zenon
        <4> QED
            BY <1>2, <4>3
      <3>3. ASSUME Tail(FenceQueue) # <<>>
            PROVE  /\ Len(FenceQueue) - 1 \in 1 .. Len(FenceQueue) - 1
                   /\ (Len(FenceQueue) - 1) + 1 = Len(FenceQueue)
          BY <1>2, <3>1, <3>3
      <3> QED
          BY <1>2, <2>1, <3>1, <3>2, <3>3
    <2>3. LastBeforeKept' = LastBeforeKept
        BY <2>1, <2>2 DEF LastBeforeKept, LastAbortedFence
    <2> QED
        BY <1>1, <2>1, <2>2, <2>3, ListKept
  <1>7. ASSUME NEW fence \in Fence, RecordCompletion(fence)
        PROVE  OwedInv'
    <2>1. /\ ActiveFence = fence /\ fence # NoFence
          /\ CompletedFence' = fence /\ ActiveFence' = NoFence
          /\ UNCHANGED <<FenceQueue, PreemptedFenceQueue, LastSubmittedFence, Owed>>
        BY <1>7
        DEF RecordCompletion, SchedRecordCompletion, CanCompleteActiveFence,
            CanCompleteFence
    <2>2. LastBeforeKept' = LastBeforeKept
        BY <2>1 DEF LastBeforeKept, LastAbortedFence
    <2> QED
        BY <1>1, <1>2, <2>1, <2>2, ListKept
  <1>8. ASSUME NEW preemption \in PreemptionFences, BeginBoundaryPreemption(preemption)
        PROVE  OwedInv'
    <2>1. /\ Owed = {} /\ PreemptedFenceQueue' = FenceQueue /\ FenceQueue' = <<>>
          /\ UNCHANGED <<LastSubmittedFence, CompletedFence, ActiveFence>>
          /\ Owed' \subseteq Elements(FenceQueue)
        BY <1>8
        DEF BeginBoundaryPreemption, SchedBeginBoundaryPreemption, MayPreempt
    <2> QED
        BY <1>1, <2>1, PreemptionListed
  <1>9. ASSUME NEW preemption \in PreemptionFences, BeginPreemption(preemption)
        PROVE  OwedInv'
    <2>1. /\ Owed = {} /\ PreemptedFenceQueue' = FenceQueue /\ FenceQueue' = <<>>
          /\ UNCHANGED <<LastSubmittedFence, CompletedFence, ActiveFence>>
          /\ Owed' \subseteq Elements(FenceQueue)
        BY <1>9 DEF BeginPreemption, SchedBeginPreemption, MayPreempt, Discard
    <2> QED
        BY <1>1, <2>1, PreemptionListed
  <1>10. ASSUME UNCHANGED <<FenceQueue, PreemptedFenceQueue, LastSubmittedFence, Owed,
                            CompletedFence, ActiveFence>>
         PROVE  OwedInv'
    <2>1. LastBeforeKept' = LastBeforeKept
        BY <1>10 DEF LastBeforeKept, LastAbortedFence
    <2> QED
        BY <1>1, <1>2, <1>10, <2>1, ListKept
  <1>11. CASE ResetEngine
      BY <1>1, <1>11, ResetListed
  <1>12. CASE ClaimBoundaryPreemption
      BY <1>10, <1>12
      DEF ClaimBoundaryPreemption, SchedClaimBoundaryPreemption, vidschVars
  <1>13. ASSUME NEW preemption \in PreemptionFences, CommitBoundaryPreemption(preemption)
         PROVE  OwedInv'
      BY <1>10, <1>13
      DEF CommitBoundaryPreemption, SchedCommitBoundaryPreemption, vidschVars
  <1>14. ASSUME NEW preemption \in PreemptionFences, AbortPreemption(preemption)
         PROVE  OwedInv'
      BY <1>3, <1>14 DEF AbortPreemption
  <1>15. CASE ResetFromTimeout
      BY <1>3, <1>15 DEF ResetFromTimeout
  <1>16. CASE UNCHANGED vars
      BY <1>10, <1>16 DEF vars
  <1> QED
      BY <1>4, <1>5, <1>6, <1>7, <1>8, <1>9, <1>11, <1>12, <1>13, <1>14, <1>15, <1>16
      DEF Next

\* Every discarded paging packet VidSch still owes stays resubmittable under its
\* original identifier, as the comment above AppleAgxSchedulerResetEngine says,
\* provided VidSch does not preempt before it resubmitted everything: a second
\* preemption overwrites the list.
THEOREM OwedStaysListed ==
    ASSUME ~PreemptWhileOwed
    PROVE  Spec => []OwedResubmittable
  <1>1. Init => OwedInv
      BY DEF Init, OwedInv
  <1>2. IInv /\ PreemptedFitsArray /\ OwedInv /\ [Next]_vars => OwedInv'
      BY StepOwed
  <1>3. OwedInv /\ PreemptedFitsArray => OwedResubmittable
    <2> SUFFICES ASSUME OwedInv, PreemptedFitsArray, NEW fence \in Owed
                 PROVE  fence \in Elements(PreemptedFenceQueue)
        BY DEF OwedResubmittable
    <2>1. PICK k \in 0 .. Len(PreemptedFenceQueue) : \E m \in 0 .. k : OwedListed(m, k)
        BY DEF OwedInv
    <2>2. PICK m \in 0 .. k : OwedListed(m, k)
        BY <2>1
    <2>3. PICK i \in m + 1 .. k : fence = PreemptedFenceQueue[i]
        BY <2>2 DEF OwedListed
    <2>4. Len(PreemptedFenceQueue) \in Nat
        BY DEF PreemptedFitsArray
    <2>5. i \in 1 .. Len(PreemptedFenceQueue)
        BY <2>1, <2>2, <2>3, <2>4
    <2> QED
        BY <2>3, <2>5 DEF Elements
  <1> QED
      BY <1>1, <1>2, <1>3, Invariant, PreemptedNeverOverflows, PTL DEF Spec

\* A packet VidSch owes is accepted again as soon as admission is open and the
\* queue has room, whatever was resubmitted, preempted or reset before, provided
\* VidSch does not preempt before it resubmitted everything.
THEOREM OwedNeverRefused ==
    ASSUME ~PreemptWhileOwed
    PROVE  Spec => []OwedAccepted
    BY OwedStaysListed, AcceptedIfListed, PTL
=============================================================================
