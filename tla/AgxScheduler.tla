---------------------------- MODULE AgxScheduler ----------------------------
(***************************************************************************)
(* The portable fence scheduler of the AGX driver                          *)
(* (drivers/apple-agx/shared/src/apple_agx_scheduler.c): one engine, a     *)
(* bounded FIFO of submitted fences, at most one active fence, the         *)
(* boundary-preemption handshake, engine reset and the list of discarded   *)
(* fences that the OS may submit again under their original identifiers.   *)
(*                                                                         *)
(* Every function of that file runs under the caller's SchedulerLock, so   *)
(* each call that returns TRUE is one action; a call that returns FALSE    *)
(* changes nothing.  Fence identifiers are unsigned and wrap around:       *)
(* HalfRange stands for 0x80000000 and Modulus for 2^32.  The ring buffer  *)
(* (QueueHead, QueueCount, FenceQueue[]) is the sequence FenceQueue; the   *)
(* cached head QueuedFence is kept as the separate variable it is.         *)
(*                                                                         *)
(* The last two variables belong to VidSch, the Windows GPU scheduler that *)
(* makes the calls: which outstanding packets are paging packets, and      *)
(* which of the discarded ones it still has to submit again.               *)
(***************************************************************************)
EXTENDS Integers, Sequences

CONSTANTS
    HalfRange,          \* 0x80000000: fences further apart compare backwards
    QueueCapacity,      \* APPLE_AGX_SCHEDULER_QUEUE_CAPACITY
    PreemptionFences,   \* the identifiers VidSch gives its preemption requests
    PreemptWhileOwed    \* may VidSch preempt before it resubmitted everything?

Modulus == 2 * HalfRange
Fence   == 0 .. Modulus - 1
NoFence == 0

ASSUME HalfRangeAssumption == HalfRange \in Nat \ {0}
ASSUME CapacityAssumption == QueueCapacity \in Nat \ {0}
ASSUME PreemptionFencesAssumption == NoFence \notin PreemptionFences
ASSUME PreemptWhileOwedAssumption == PreemptWhileOwed \in BOOLEAN

Idle                  == "Idle"
WaitCurrentBoundary   == "WaitCurrentBoundary"
ReadyToNotify         == "ReadyToNotify"
NotificationClaimed   == "NotificationClaimed"

VARIABLES
    CompletedFence,      \* the last fence that finished
    LastSubmittedFence,  \* the last fence accepted from VidSch
    FenceQueue,          \* accepted, not started, oldest first
    QueuedFence,         \* cached head of FenceQueue, NoFence when empty
    PreemptedFenceQueue, \* discarded from FenceQueue and not submitted again
    ActiveFence,         \* started, not finished
    Preemption,          \* the five preemption fields of the structure
    PagingFences,        \* VidSch: which outstanding packets are paging packets
    Owed                 \* VidSch: discarded paging packets to submit again

schedVars == <<CompletedFence, LastSubmittedFence, FenceQueue, QueuedFence,
               PreemptedFenceQueue, ActiveFence, Preemption>>
vidschVars == <<PagingFences, Owed>>
vars == <<CompletedFence, LastSubmittedFence, FenceQueue, QueuedFence,
          PreemptedFenceQueue, ActiveFence, Preemption, PagingFences, Owed>>

-----------------------------------------------------------------------------
(* Wrapping fence arithmetic.                                              *)

\* Candidate - Reference in unsigned arithmetic.
Distance(candidate, reference) ==
    IF candidate >= reference THEN candidate - reference
                              ELSE candidate - reference + Modulus

FenceAfter(candidate, reference) ==
    /\ Distance(candidate, reference) # 0
    /\ Distance(candidate, reference) < HalfRange

FenceAtOrAfter(candidate, reference) ==
    candidate = reference \/ FenceAfter(candidate, reference)

\* How far a fence lies beyond the completed one.
Ahead(fence) == Distance(fence, CompletedFence)

Elements(seq) == {seq[i] : i \in 1 .. Len(seq)}
HeadOrNone(seq) == IF seq = <<>> THEN NoFence ELSE Head(seq)

NoPreemption ==
    [Phase |-> Idle, Fence |-> NoFence, Cutoff |-> NoFence,
     Active |-> NoFence, LastCompleted |-> NoFence]

-----------------------------------------------------------------------------
Init ==
    /\ CompletedFence = NoFence
    /\ LastSubmittedFence = NoFence
    /\ FenceQueue = <<>>
    /\ QueuedFence = NoFence
    /\ PreemptedFenceQueue = <<>>
    /\ ActiveFence = NoFence
    /\ Preemption = NoPreemption
    /\ PagingFences = {}
    /\ Owed = {}

-----------------------------------------------------------------------------
(* What the scheduler asks of a call before it returns TRUE.               *)

\* New work may be queued while a notification is being delivered, but not
\* before that.
AdmissionBlocked == Preemption.Phase \notin {Idle, NotificationClaimed}
DispatchBlocked == Preemption.Phase # Idle

\* Mutant: the capacity test is dropped.
MayQueueFenceUnbounded(fence) ==
    /\ fence # NoFence
    /\ ~AdmissionBlocked
    /\ FenceAfter(fence, LastSubmittedFence)

\* Mutant: a new fence is compared with the completed one.
MayQueueFenceAfterCompleted(fence) ==
    /\ fence # NoFence
    /\ Len(FenceQueue) < QueueCapacity
    /\ ~AdmissionBlocked
    /\ FenceAfter(fence, CompletedFence)

MayQueueFence(fence) ==
    /\ fence # NoFence
    /\ Len(FenceQueue) < QueueCapacity
    /\ ~AdmissionBlocked
    /\ FenceAfter(fence, LastSubmittedFence)

\* Mutant: a resubmitted fence is held to the rule for new ones.
MayQueueResubmittedOnlyNew(fence) ==
    /\ MayQueueFence(fence)
    /\ fence \in Elements(PreemptedFenceQueue)

MayQueueResubmittedPagingFence(fence) ==
    /\ fence # NoFence
    /\ Len(FenceQueue) < QueueCapacity
    /\ ~AdmissionBlocked
    /\ FenceAfter(fence, CompletedFence)
    /\ ActiveFence # NoFence => FenceAfter(fence, ActiveFence)
    /\ FenceQueue # <<>> => FenceAfter(fence, FenceQueue[Len(FenceQueue)])
    /\ fence \in Elements(PreemptedFenceQueue)

MayActivateFence(fence) ==
    /\ fence # NoFence
    /\ FenceQueue # <<>>
    /\ QueuedFence = fence
    /\ ActiveFence = NoFence
    /\ ~DispatchBlocked

\* While a preemption waits for the running packet only that packet's fence
\* may complete.
CanCompleteFence(fence) ==
    /\ fence # NoFence
    /\ Preemption.Phase = WaitCurrentBoundary => fence = Preemption.Active
    /\ FenceAfter(fence, CompletedFence)

CanCompleteActiveFence(fence) ==
    /\ ActiveFence = fence
    /\ CanCompleteFence(fence)

MayBeginBoundaryPreemption(preemption, cutoff, active) ==
    /\ preemption # NoFence
    /\ Preemption.Phase = Idle
    /\ cutoff = LastSubmittedFence
    /\ active = ActiveFence
    /\ FenceAtOrAfter(cutoff, CompletedFence)
    /\ active # NoFence => /\ FenceAfter(active, CompletedFence)
                           /\ FenceAtOrAfter(cutoff, active)

-----------------------------------------------------------------------------
(* The scheduler's own effect of each call, over schedVars.                *)

PushFence(fence) ==
    /\ FenceQueue' = Append(FenceQueue, fence)
    /\ QueuedFence' = IF FenceQueue = <<>> THEN fence ELSE QueuedFence

SchedQueueFence(fence) ==
    /\ MayQueueFence(fence)
    /\ PushFence(fence)
    /\ LastSubmittedFence' = fence
    /\ UNCHANGED <<CompletedFence, PreemptedFenceQueue, ActiveFence, Preemption>>

\* The first entry equal to fence is removed and the later ones move up.
WithoutFirst(seq, fence) ==
    LET at == CHOOSE i \in 1 .. Len(seq) :
                /\ seq[i] = fence
                /\ \A j \in 1 .. i - 1 : seq[j] # fence
    IN  SubSeq(seq, 1, at - 1) \o SubSeq(seq, at + 1, Len(seq))

SchedQueueResubmittedPagingFence(fence) ==
    /\ MayQueueResubmittedPagingFence(fence)
    /\ PreemptedFenceQueue' = WithoutFirst(PreemptedFenceQueue, fence)
    /\ PushFence(fence)
    /\ UNCHANGED <<CompletedFence, LastSubmittedFence, ActiveFence, Preemption>>

SchedActivateFence(fence) ==
    /\ MayActivateFence(fence)
    /\ FenceQueue' = Tail(FenceQueue)
    /\ QueuedFence' = HeadOrNone(Tail(FenceQueue))
    /\ ActiveFence' = fence
    /\ UNCHANGED <<CompletedFence, LastSubmittedFence, PreemptedFenceQueue,
                   Preemption>>

\* ObserveBoundaryCompletion: the packet a preemption waited for has finished.
BoundaryObserved(fence) ==
    [Preemption EXCEPT !.Active = NoFence, !.LastCompleted = fence,
                       !.Phase = ReadyToNotify]

\* CompleteActiveFence and, in the same lock hold, ObserveBoundaryCompletion.
SchedRecordCompletion(fence) ==
    /\ CanCompleteActiveFence(fence)
    /\ CompletedFence' = fence
    /\ ActiveFence' = NoFence
    /\ Preemption' = IF Preemption.Phase = WaitCurrentBoundary
                     THEN BoundaryObserved(fence) ELSE Preemption
    /\ UNCHANGED <<LastSubmittedFence, FenceQueue, QueuedFence,
                   PreemptedFenceQueue>>

\* The discarded queue replaces whatever the list held before.
SchedBeginBoundaryPreemption(preemption, cutoff, active) ==
    /\ MayBeginBoundaryPreemption(preemption, cutoff, active)
    /\ PreemptedFenceQueue' = FenceQueue
    /\ FenceQueue' = <<>>
    /\ QueuedFence' = NoFence
    /\ Preemption' =
         [Phase |-> IF active = NoFence THEN ReadyToNotify ELSE WaitCurrentBoundary,
          Fence |-> preemption, Cutoff |-> cutoff,
          Active |-> active, LastCompleted |-> CompletedFence]
    /\ UNCHANGED <<CompletedFence, LastSubmittedFence, ActiveFence>>

SchedClaimBoundaryPreemption ==
    /\ Preemption.Phase = ReadyToNotify
    /\ Preemption' = [Preemption EXCEPT !.Phase = NotificationClaimed]
    /\ UNCHANGED <<CompletedFence, LastSubmittedFence, FenceQueue, QueuedFence,
                   PreemptedFenceQueue, ActiveFence>>

MayCommitBoundaryPreemption(preemption) ==
    /\ Preemption.Phase = NotificationClaimed
    /\ Preemption.Fence = preemption

SchedCommitBoundaryPreemption(preemption) ==
    /\ MayCommitBoundaryPreemption(preemption)
    /\ Preemption' = NoPreemption
    /\ UNCHANGED <<CompletedFence, LastSubmittedFence, FenceQueue, QueuedFence,
                   PreemptedFenceQueue, ActiveFence>>

\* Begin and Claim in one call; it asks for an engine with nothing submitted
\* beyond the completed fence.
SchedBeginPreemption(preemption) ==
    /\ MayBeginBoundaryPreemption(preemption, CompletedFence, NoFence)
    /\ PreemptedFenceQueue' = FenceQueue
    /\ FenceQueue' = <<>>
    /\ QueuedFence' = NoFence
    /\ Preemption' =
         [Phase |-> NotificationClaimed, Fence |-> preemption,
          Cutoff |-> CompletedFence, Active |-> NoFence,
          LastCompleted |-> CompletedFence]
    /\ UNCHANGED <<CompletedFence, LastSubmittedFence, ActiveFence>>

SchedAbortPreemption(preemption) ==
    /\ Preemption.Phase \notin {Idle, NotificationClaimed}
    /\ Preemption.Fence = preemption
    /\ Preemption' = NoPreemption
    /\ PreemptedFenceQueue' = <<>>
    /\ UNCHANGED <<CompletedFence, LastSubmittedFence, FenceQueue, QueuedFence,
                   ActiveFence>>

\* The fence a reset reports as the last one it aborted.
LastAbortedFence ==
    IF ActiveFence # NoFence THEN ActiveFence ELSE CompletedFence

\* What the kept fences have to come after: the tail of the discarded queue.
LastBeforeKept ==
    IF FenceQueue = <<>> THEN LastAbortedFence ELSE FenceQueue[Len(FenceQueue)]

\* Mutants: a reset keeps every preempted fence, or none.
KeptPreemptedAll(seq, after, room) == seq
KeptPreemptedNone(seq, after, room) == <<>>

\* One turn of the loop that decides which preempted fences a reset keeps, at
\* most room of them: each must come after the one kept before it.
KeepFence(before, fence, after, room) ==
    LET last == IF before = <<>> THEN after ELSE before[Len(before)]
    IN  IF Len(before) < room /\ FenceAfter(fence, last)
        THEN Append(before, fence) ELSE before

\* The fences kept; kept[i] is the loop's state after entry i.
KeptPreempted(seq, after, room) ==
    LET kept[i \in 0 .. Len(seq)] ==
          IF i = 0 THEN <<>> ELSE KeepFence(kept[i - 1], seq[i], after, room)
    IN  kept[Len(seq)]

\* Mutant: a reset leaves the active fence in place.
ResetQueuesKeepActive ==
    /\ PreemptedFenceQueue' = FenceQueue
    /\ FenceQueue' = <<>>
    /\ QueuedFence' = NoFence
    /\ Preemption' = NoPreemption
    /\ UNCHANGED <<ActiveFence, LastSubmittedFence>>

\* The discarded queue, then the preempted fences still waiting behind it, stay
\* resubmittable; everything else starts over.
ResetQueues ==
    /\ PreemptedFenceQueue' =
         FenceQueue \o KeptPreempted(PreemptedFenceQueue, LastBeforeKept,
                                     QueueCapacity - Len(FenceQueue))
    /\ FenceQueue' = <<>>
    /\ QueuedFence' = NoFence
    /\ ActiveFence' = NoFence
    /\ Preemption' = NoPreemption
    /\ UNCHANGED LastSubmittedFence

\* Mutant: a reset also starts the completed fence over.
SchedResetEngineFromZero == ResetQueues /\ CompletedFence' = NoFence

SchedResetEngine == ResetQueues /\ UNCHANGED CompletedFence

-----------------------------------------------------------------------------
(* VidSch, the caller.  Its fence identifiers never run half the range      *)
(* ahead of the completed one.  After a preemption or an engine reset it    *)
(* submits the discarded paging packets again, in their original order      *)
(* with their original identifiers, before anything new; discarded render   *)
(* packets come back under new identifiers.                                 *)

WithinWindow(fence) == Ahead(fence) < HalfRange

QueueFence(fence, paging) ==
    /\ Owed = {}
    /\ WithinWindow(fence)
    /\ SchedQueueFence(fence)
    /\ PagingFences' = IF paging THEN PagingFences \cup {fence} ELSE PagingFences
    /\ UNCHANGED Owed

NextOwed(fence) ==
    /\ fence \in Owed
    /\ \A other \in Owed : Ahead(fence) <= Ahead(other)

QueueResubmittedPagingFence(fence) ==
    /\ NextOwed(fence)
    /\ SchedQueueResubmittedPagingFence(fence)
    /\ Owed' = Owed \ {fence}
    /\ UNCHANGED PagingFences

ActivateFence(fence) ==
    /\ SchedActivateFence(fence)
    /\ UNCHANGED vidschVars

RecordCompletion(fence) ==
    /\ SchedRecordCompletion(fence)
    /\ PagingFences' = PagingFences \ {fence}
    /\ UNCHANGED Owed

\* Every discarded paging packet is owed; a discarded render packet is not.
Discard ==
    /\ Owed' = Owed \cup (Elements(FenceQueue) \cap PagingFences)
    /\ PagingFences' = Owed'

MayPreempt == PreemptWhileOwed \/ Owed = {}

BeginBoundaryPreemption(preemption) ==
    /\ MayPreempt
    /\ SchedBeginBoundaryPreemption(preemption, LastSubmittedFence, ActiveFence)
    /\ Owed' = Owed \cup (Elements(FenceQueue) \cap PagingFences)
    /\ PagingFences' = Owed' \cup (PagingFences \cap {ActiveFence})

ClaimBoundaryPreemption ==
    /\ SchedClaimBoundaryPreemption
    /\ UNCHANGED vidschVars

CommitBoundaryPreemption(preemption) ==
    /\ SchedCommitBoundaryPreemption(preemption)
    /\ UNCHANGED vidschVars

BeginPreemption(preemption) ==
    /\ MayPreempt
    /\ SchedBeginPreemption(preemption)
    /\ Discard

\* An aborted request takes its packets with it: nothing is owed any more.
AbortPreemption(preemption) ==
    /\ SchedAbortPreemption(preemption)
    /\ Owed' = {}
    /\ PagingFences' = PagingFences \cap {ActiveFence}

ResetEngine ==
    /\ SchedResetEngine
    /\ Discard

\* DxgkDdiResetFromTimeout: an engine reset, then everything submitted counts
\* as completed.  VidSch drops every packet.
ResetFromTimeout ==
    /\ ResetQueues
    /\ CompletedFence' = LastSubmittedFence
    /\ Owed' = {}
    /\ PagingFences' = {}

Next ==
    \/ \E fence \in Fence, paging \in BOOLEAN : QueueFence(fence, paging)
    \/ \E fence \in Fence : QueueResubmittedPagingFence(fence)
    \/ \E fence \in Fence : ActivateFence(fence)
    \/ \E fence \in Fence : RecordCompletion(fence)
    \/ \E preemption \in PreemptionFences : BeginBoundaryPreemption(preemption)
    \/ ClaimBoundaryPreemption
    \/ \E preemption \in PreemptionFences : CommitBoundaryPreemption(preemption)
    \/ \E preemption \in PreemptionFences : BeginPreemption(preemption)
    \/ \E preemption \in PreemptionFences : AbortPreemption(preemption)
    \/ ResetEngine
    \/ ResetFromTimeout

Spec == Init /\ [][Next]_vars

-----------------------------------------------------------------------------
(* Properties.                                                             *)

PreemptionType ==
    [Phase : {Idle, WaitCurrentBoundary, ReadyToNotify, NotificationClaimed},
     Fence : PreemptionFences \cup {NoFence}, Cutoff : Fence,
     Active : Fence, LastCompleted : Fence]

\* The structure's fields hold fences, and no fence list outgrows its array.
TypeOK ==
    /\ CompletedFence \in Fence
    /\ LastSubmittedFence \in Fence
    /\ FenceQueue \in Seq(Fence) /\ Len(FenceQueue) <= QueueCapacity
    /\ QueuedFence \in Fence
    /\ ActiveFence \in Fence
    /\ Preemption \in PreemptionType
    /\ PagingFences \subseteq Fence
    /\ Owed \subseteq Fence

\* AppleAgxSchedulerResetEngine merges two lists into PreemptedFenceQueue[]:
\* the merge never writes past the array and never stores the reserved
\* identifier.
PreemptedFitsArray ==
    /\ PreemptedFenceQueue \in Seq(Fence \ {NoFence})
    /\ Len(PreemptedFenceQueue) <= QueueCapacity

\* The active fence lies in the window that opens after the completed fence,
\* and no later than the last submitted one.
ActiveInWindow ==
    /\ Ahead(LastSubmittedFence) < HalfRange
    /\ ActiveFence # NoFence =>
         Ahead(ActiveFence) \in 1 .. Ahead(LastSubmittedFence)

\* The queue is strictly increasing in wrapping order, starts after the active
\* fence and ends no later than the last submitted one.
QueueOrdered ==
    /\ \A i \in 1 .. Len(FenceQueue) :
         /\ FenceQueue[i] # NoFence
         /\ Ahead(FenceQueue[i]) \in 1 .. Ahead(LastSubmittedFence)
         /\ ActiveFence # NoFence => Ahead(ActiveFence) < Ahead(FenceQueue[i])
    /\ \A i, j \in 1 .. Len(FenceQueue) :
         i < j => Ahead(FenceQueue[i]) < Ahead(FenceQueue[j])

\* What VidSch still owes lies behind everything it already submitted again.
OwedOrdered ==
    \A fence \in Owed :
        /\ fence # NoFence
        /\ Ahead(fence) \in 1 .. Ahead(LastSubmittedFence)
        /\ ActiveFence # NoFence => Ahead(ActiveFence) < Ahead(fence)
        /\ \A i \in 1 .. Len(FenceQueue) : Ahead(FenceQueue[i]) < Ahead(fence)

\* Completed, active, queued and owed fences form one chain in wrapping order
\* that spans less than half the range: what makes every FenceAfter test of the
\* scheduler mean "submitted later".
FencesOrdered == ActiveInWindow /\ QueueOrdered /\ OwedOrdered

\* The cached head the dispatcher reads is the head of the ring, through every
\* push, pop, discard and reset.
HeadCached == QueuedFence = HeadOrNone(FenceQueue)

\* The handshake and the queue agree in every phase: a preemption that waits
\* waits for the packet that is active, and nothing runs from then on until
\* the notification was committed.
PhaseCoherent ==
    /\ Preemption.Phase = Idle => Preemption = NoPreemption
    /\ Preemption.Phase # Idle => Preemption.Fence \in PreemptionFences
    /\ Preemption.Phase = WaitCurrentBoundary =>
         /\ ActiveFence # NoFence
         /\ Preemption.Active = ActiveFence
    /\ Preemption.Phase \in {ReadyToNotify, NotificationClaimed} =>
         ActiveFence = NoFence
    /\ Preemption.Phase \in {WaitCurrentBoundary, ReadyToNotify} =>
         FenceQueue = <<>>

\* DMA_PREEMPTED tells VidSch which fence was the last to complete: from the
\* moment the boundary is reached until the notification is committed, the
\* recorded value is the scheduler's completed fence.
NotificationAccurate ==
    Preemption.Phase \in {ReadyToNotify, NotificationClaimed} =>
        Preemption.LastCompleted = CompletedFence

\* AdmissionSchedulerRecordCompletion faults the whole adapter when the
\* scheduler refuses a completion: the packet that runs can always complete,
\* across wrap-around, preemption and reset.
ActiveCanComplete ==
    ActiveFence # NoFence => CanCompleteActiveFence(ActiveFence)

\* AdmissionDdiPreemptCommand faults the adapter when the scheduler refuses a
\* preemption: with no preemption outstanding, none is refused.
PreemptionAccepted ==
    \A preemption \in PreemptionFences :
        Preemption.Phase = Idle =>
            MayBeginBoundaryPreemption(preemption, LastSubmittedFence, ActiveFence)

\* Every discarded paging packet that VidSch still owes can be submitted again
\* under its original identifier: the comment above AppleAgxSchedulerResetEngine
\* says that at a preemption and at a reset "every fence that never ran stays
\* resubmittable once".
OwedResubmittable == Owed \subseteq Elements(PreemptedFenceQueue)

\* The next owed packet is never refused once admission is open and the queue
\* has room, whatever was resubmitted, preempted or reset before.
OwedAccepted ==
    \A fence \in Owed :
        (NextOwed(fence) /\ ~AdmissionBlocked /\ Len(FenceQueue) < QueueCapacity)
            => MayQueueResubmittedPagingFence(fence)

\* The completed fence never moves backwards in wrapping order, resets included.
CompletedAdvances ==
    [][CompletedFence' # CompletedFence => FenceAfter(CompletedFence', CompletedFence)]_vars
=============================================================================
