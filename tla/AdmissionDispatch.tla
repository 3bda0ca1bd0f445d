-------------------------- MODULE AdmissionDispatch --------------------------
(***************************************************************************)
(* The kernel-mode driver around the fence scheduler                       *)
(* (drivers/apple-agx/render-admission/src): how submissions, workers,     *)
(* completion interrupts, the DPC, preemption and engine reset interleave. *)
(*                                                                         *)
(* Two executors share one engine.  The CPU queue (paging, CPU presents    *)
(* and residency touches) runs in a paging work item; render and compute   *)
(* jobs run in a platform work item that binds, activates, submits to the  *)
(* firmware and polls.  Both are started by AdmissionDispatchQueuedWork,   *)
(* which any thread may call.                                              *)
(*                                                                         *)
(* Threads: VidSch (which makes the DDI calls one at a time), the DPC, the *)
(* paging workers and the render workers.  A worker may be requeued while  *)
(* its previous run is still leaving, so each work item has several        *)
(* threads.  One step is one hold of SchedulerLock (with PagingLock where  *)
(* the code takes both), one interlocked operation or one callback at      *)
(* interrupt level.  pc is a stack of labels: a call pushes, a return pops.*)
(*                                                                         *)
(* The scheduler's own state and transitions are those of AgxScheduler.    *)
(* Left out: receipts, profiling, SchedulerDpcPending (read only by them   *)
(* and by SchedulerStop), private scenes, memory binding, device start and *)
(* stop.  DxgkCbSynchronizeExecution is taken to succeed.                  *)
(***************************************************************************)
EXTENDS Integers, Sequences, FiniteSets

CONSTANTS
    HalfRange, QueueCapacity, PreemptionFences, PreemptWhileOwed, \* AgxScheduler
    Contexts,              \* render contexts
    NoContext,             \* the NULL context
    PagingWorkers,         \* system threads that may run the paging work item
    RenderWorkers,         \* system threads that may run the platform work item
    PendingCapacity,       \* ADMISSION_G4_PENDING_CAPACITY
    Failures,              \* which of "paging", "bind", "backend", "poll" may fail
    ScanoutVsync,          \* does the scanout timeline queue the DPC on its own?
    PreemptDuringDelivery, \* may VidSch preempt before the last one is committed?
    Kinds,                 \* the packets VidSch submits: "paging", "touch",
                           \* "present", "render"
    MaxFence, MaxPreemptions, MaxResets  \* bounds on VidSch's calls

ASSUME HalfRangeAssumption == HalfRange \in Nat \ {0}
ASSUME CapacityAssumption == QueueCapacity \in Nat \ {0}
ASSUME PreemptionFencesAssumption == 0 \notin PreemptionFences
ASSUME PreemptWhileOwedAssumption == PreemptWhileOwed \in BOOLEAN
ASSUME ThreadsAssumption ==
    /\ PagingWorkers \cap RenderWorkers = {}
    /\ {"VidSch", "Dpc"} \cap (PagingWorkers \cup RenderWorkers) = {}
ASSUME ContextAssumption == NoContext \notin Contexts
ASSUME WindowAssumption == MaxFence \in 1 .. HalfRange - 1
ASSUME FailuresAssumption == Failures \subseteq {"paging", "bind", "backend", "poll"}
ASSUME KindsAssumption == Kinds \subseteq {"paging", "touch", "present", "render"}
ASSUME PendingAssumption == PendingCapacity \in Nat \ {0}

VARIABLES
    \* the APPLE_AGX_SCHEDULER structure and VidSch's view of it
    CompletedFence, LastSubmittedFence, FenceQueue, QueuedFence,
    PreemptedFenceQueue, ActiveFence, Preemption, PagingFences, Owed,
    \* the adapter
    CpuQueue,         \* CPU packets not started, oldest first
    Paging,           \* the CPU packet in progress
    PagingIdle,       \* the event PagingStop waits for
    DispatchedFence,  \* the fence a dispatcher reserved the engine for
    RenderPacket,     \* the single render slot
    G4Pending,        \* submissions queued behind the render slot
    Outstanding,      \* per context <<FenceOutstanding, GpuvaG3SecondFence>>
    Platform,         \* backend phase and render work item
    RenderDpcFence,   \* completed render fence handed to the DPC
    SchedulerFaulted,
    \* dxgkrnl
    DpcQueued,        \* DxgkCbQueueDpc was called and the DPC did not start yet
    Reported,         \* the last DMA_COMPLETED fence
    Preempting,       \* VidSch's preemption: No, Waiting, Reported
    Used,             \* how much of the bounds is spent
    \* the threads
    pc, loc

Sched == INSTANCE AgxScheduler

vidschVars == <<PagingFences, Owed>>
schedulerVars == <<CompletedFence, LastSubmittedFence, FenceQueue, QueuedFence,
                   PreemptedFenceQueue, ActiveFence, Preemption, PagingFences, Owed>>
cpuVars == <<CpuQueue, Paging, PagingIdle>>
renderVars == <<RenderPacket, G4Pending, Platform, RenderDpcFence>>
osVars == <<DpcQueued, Reported, Preempting, Used>>
vars == <<schedulerVars, cpuVars, DispatchedFence, renderVars, Outstanding,
          SchedulerFaulted, osVars, pc, loc>>

NoFence == 0
V == "VidSch"
D == "Dpc"
Threads == {V, D} \cup PagingWorkers \cup RenderWorkers

EmptyPacket == [State |-> "Empty", Fence |-> NoFence, Context |-> NoContext]
NoLocals ==
    [Fence |-> NoFence, Attempt |-> 0,                 \* DispatchQueuedWork
     Preemption |-> NoFence, LastCompleted |-> NoFence, \* TryNotifyPreemption
     Job |-> NoFence, Context |-> NoContext,            \* the packet at hand
     Reserved |-> NoFence, Flag |-> FALSE]              \* SchedulerDpc, submit

Init ==
    /\ Sched!Init
    /\ CpuQueue = <<>>
    /\ Paging = [Pending |-> FALSE, Fence |-> NoFence, Context |-> NoContext,
                 Ok |-> TRUE, DpcPending |-> FALSE, WorkQueued |-> FALSE]
    /\ PagingIdle = TRUE
    /\ DispatchedFence = NoFence
    /\ RenderPacket = EmptyPacket
    /\ G4Pending = <<>>
    /\ Outstanding = [c \in Contexts |-> <<>>]
    /\ Platform = [Phase |-> "Ready", WorkScheduled |-> FALSE,
                   WorkQueued |-> FALSE, WorkIdle |-> TRUE, Resetting |-> FALSE]
    /\ RenderDpcFence = NoFence
    /\ SchedulerFaulted = FALSE
    /\ DpcQueued = FALSE
    /\ Reported = NoFence
    /\ Preempting = "No"
    /\ Used = [Preemptions |-> 0, Resets |-> 0]
    /\ pc = [t \in Threads |-> <<>>]
    /\ loc = [t \in Threads |-> NoLocals]

-----------------------------------------------------------------------------
(* Threads.                                                                *)

At(t, label) == pc[t] # <<>> /\ Head(pc[t]) = label
Running(t) == pc[t] # <<>>
Goto(t, label) == pc' = [pc EXCEPT ![t] = <<label>> \o Tail(@)]
Call(t, label, return) == pc' = [pc EXCEPT ![t] = <<label, return>> \o Tail(@)]
Return(t) == pc' = [pc EXCEPT ![t] = Tail(@)]
Enter(t, label) == ~Running(t) /\ pc' = [pc EXCEPT ![t] = <<label>>]

-----------------------------------------------------------------------------
(* Helpers over the adapter's state.                                       *)

\* AdmissionContextRetireFence for every <<context, fence>> of a set: the next
\* outstanding job of the context becomes the oldest.
Retired(pairs) ==
    [c \in Contexts |->
        LET Kept(fence) == <<c, fence>> \notin pairs
        IN  SelectSeq(Outstanding[c], Kept)]

Oldest(c) == IF Outstanding[c] = <<>> THEN NoFence ELSE Head(Outstanding[c])

PagingDpcsActive == At(D, "PagingDpcRetire") \/ At(D, "PagingDpcLeave")
PagingWorkersActive == \E p \in PagingWorkers : Running(p)

\* The test of AdmissionPagingUpdateIdleLocked.
PagingQuiet ==
    /\ CpuQueue = <<>>
    /\ ~Paging.Pending
    /\ ~Paging.DpcPending
    /\ ~PagingWorkersActive
    /\ ~PagingDpcsActive

\* The CPU packet in progress has not been reported to the OS yet.
CpuUnreported == Paging.Pending /\ ~Paging.DpcPending /\ ~PagingDpcsActive

RuntimeReady ==
    Platform.Phase = "Ready" /\ ~Platform.Resetting /\ ~Platform.WorkScheduled

-----------------------------------------------------------------------------
(* AdmissionDispatchQueuedWork.                                            *)

DispatchCheck(t) ==
    /\ At(t, "Dispatch")
    /\ IF SchedulerFaulted THEN Return(t) ELSE Goto(t, "Reserve")
    /\ UNCHANGED <<schedulerVars, cpuVars, DispatchedFence, renderVars,
                   Outstanding, SchedulerFaulted, osVars, loc>>

Dispatchable ==
    /\ QueuedFence # NoFence
    /\ DispatchedFence = NoFence
    /\ ~Paging.Pending
    /\ ActiveFence = NoFence
    /\ ~Sched!DispatchBlocked

CpuHead == CpuQueue # <<>> /\ Head(CpuQueue).Fence = QueuedFence

RenderHead ==
    \/ RenderPacket.State = "Queued" /\ RenderPacket.Fence = QueuedFence
    \/ /\ RenderPacket.State = "Empty"
       /\ G4Pending # <<>>
       /\ Head(G4Pending).State = "Queued"
       /\ Head(G4Pending).Fence = QueuedFence

DispatchCpu(t) ==
    /\ At(t, "Reserve")
    /\ Dispatchable /\ CpuHead
    /\ Sched!ActivateFence(QueuedFence)
    /\ CpuQueue' = Tail(CpuQueue)
    /\ Paging' = [Paging EXCEPT !.Pending = TRUE, !.Fence = QueuedFence,
                                !.Context = Head(CpuQueue).Context,
                                !.WorkQueued = TRUE]
    /\ DispatchedFence' = QueuedFence
    /\ loc' = [loc EXCEPT ![t].Fence = NoFence, ![t].Attempt = 0]
    /\ Return(t)
    /\ UNCHANGED <<PagingIdle, renderVars, Outstanding, SchedulerFaulted, osVars>>

DispatchRender(t) ==
    /\ At(t, "Reserve")
    /\ Dispatchable /\ ~CpuHead /\ RenderHead
    /\ DispatchedFence' = QueuedFence
    /\ loc' = [loc EXCEPT ![t].Fence = QueuedFence]
    /\ Goto(t, "RuntimeSubmit")
    /\ UNCHANGED <<schedulerVars, cpuVars, renderVars, Outstanding,
                   SchedulerFaulted, osVars>>

DispatchNothing(t) ==
    /\ At(t, "Reserve")
    /\ ~(Dispatchable /\ (CpuHead \/ RenderHead))
    /\ loc' = [loc EXCEPT ![t].Fence = NoFence, ![t].Attempt = 0]
    /\ Return(t)
    /\ UNCHANGED <<schedulerVars, cpuVars, DispatchedFence, renderVars,
                   Outstanding, SchedulerFaulted, osVars>>

RuntimeSubmit(t) ==
    /\ At(t, "RuntimeSubmit")
    /\ IF RuntimeReady
       THEN /\ Platform' = [Platform EXCEPT !.WorkScheduled = TRUE,
                                            !.WorkQueued = TRUE,
                                            !.WorkIdle = FALSE]
            /\ loc' = [loc EXCEPT ![t].Fence = NoFence, ![t].Attempt = 0]
            /\ Return(t)
       ELSE Goto(t, "Release") /\ UNCHANGED <<Platform, loc>>
    /\ UNCHANGED <<schedulerVars, cpuVars, DispatchedFence, RenderPacket,
                   G4Pending, RenderDpcFence, Outstanding, SchedulerFaulted,
                   osVars>>

DispatchRelease(t) ==
    /\ At(t, "Release")
    /\ DispatchedFence' = IF DispatchedFence = loc[t].Fence THEN NoFence
                                                             ELSE DispatchedFence
    /\ Goto(t, "Retry")
    /\ UNCHANGED <<schedulerVars, cpuVars, renderVars, Outstanding,
                   SchedulerFaulted, osVars, loc>>

\* One retry closes the window in which the preceding worker finished between
\* the rejected enqueue and the release.
DispatchRetry(t) ==
    /\ At(t, "Retry")
    /\ IF loc[t].Attempt = 0 /\ RuntimeReady
       THEN /\ Goto(t, "Reserve")
            /\ loc' = [loc EXCEPT ![t].Attempt = 1]
       ELSE /\ Return(t)
            /\ loc' = [loc EXCEPT ![t].Fence = NoFence, ![t].Attempt = 0]
    /\ UNCHANGED <<schedulerVars, cpuVars, DispatchedFence, renderVars,
                   Outstanding, SchedulerFaulted, osVars>>

Dispatch(t) ==
    \/ DispatchCheck(t)
    \/ DispatchCpu(t)
    \/ DispatchRender(t)
    \/ DispatchNothing(t)
    \/ RuntimeSubmit(t)
    \/ DispatchRelease(t)
    \/ DispatchRetry(t)

-----------------------------------------------------------------------------
(* AdmissionSchedulerTryNotifyPreemption.                                  *)

\* Mutant: losing the race to another deliverer counts as a failure.
TryNotifyDeferFaults(t) ==
    /\ At(t, "TryNotify")
    /\ Platform.WorkScheduled \/ Preemption.Phase # Sched!ReadyToNotify
    /\ SchedulerFaulted' = (SchedulerFaulted \/ ~Platform.WorkScheduled)
    /\ Return(t)
    /\ UNCHANGED <<schedulerVars, cpuVars, DispatchedFence, renderVars,
                   Outstanding, osVars, loc>>

TryNotifyDefer(t) ==
    /\ At(t, "TryNotify")
    /\ Platform.WorkScheduled \/ Preemption.Phase # Sched!ReadyToNotify
    /\ Return(t)
    /\ UNCHANGED <<schedulerVars, cpuVars, DispatchedFence, renderVars,
                   Outstanding, SchedulerFaulted, osVars, loc>>

\* Mutant: the notification is copied but not claimed.
TryNotifyCopy(t) ==
    /\ At(t, "TryNotify")
    /\ ~Platform.WorkScheduled
    /\ Preemption.Phase = Sched!ReadyToNotify
    /\ loc' = [loc EXCEPT ![t].Preemption = Preemption.Fence,
                          ![t].LastCompleted = Preemption.LastCompleted]
    /\ Goto(t, "NotifyPreemption")
    /\ UNCHANGED <<schedulerVars, cpuVars, DispatchedFence, renderVars,
                   Outstanding, SchedulerFaulted, osVars>>

TryNotifyClaim(t) ==
    /\ At(t, "TryNotify")
    /\ ~Platform.WorkScheduled
    /\ Sched!ClaimBoundaryPreemption
    /\ loc' = [loc EXCEPT ![t].Preemption = Preemption.Fence,
                          ![t].LastCompleted = Preemption.LastCompleted]
    /\ Goto(t, "NotifyPreemption")
    /\ UNCHANGED <<cpuVars, DispatchedFence, renderVars, Outstanding,
                   SchedulerFaulted, osVars>>

\* DMA_PREEMPTED at interrupt level.
NotifyPreemption(t) ==
    /\ At(t, "NotifyPreemption")
    /\ Preempting' = IF Preempting = "Waiting" THEN "Reported" ELSE Preempting
    /\ DpcQueued' = TRUE
    /\ Goto(t, "Commit")
    /\ UNCHANGED <<schedulerVars, cpuVars, DispatchedFence, renderVars,
                   Outstanding, SchedulerFaulted, Reported, Used, loc>>

CommitNotification(t) ==
    /\ At(t, "Commit")
    /\ loc' = [loc EXCEPT ![t].Preemption = NoFence, ![t].LastCompleted = NoFence]
    /\ \/ /\ Sched!CommitBoundaryPreemption(loc[t].Preemption)
          /\ Goto(t, "Dispatch")
          /\ UNCHANGED SchedulerFaulted
       \/ /\ ~Sched!MayCommitBoundaryPreemption(loc[t].Preemption)
          /\ SchedulerFaulted' = TRUE
          /\ Return(t)
          /\ UNCHANGED schedulerVars
    /\ UNCHANGED <<cpuVars, DispatchedFence, renderVars, Outstanding, osVars>>

TryNotify(t) ==
    \/ TryNotifyDefer(t)
    \/ TryNotifyClaim(t)
    \/ NotifyPreemption(t)
    \/ CommitNotification(t)

-----------------------------------------------------------------------------
(* AdmissionPagingWorker, the CPU executor.                                *)

PagingWorkerStart(p) ==
    /\ Paging.WorkQueued
    /\ Enter(p, "PagingRun")
    /\ Paging' = [Paging EXCEPT !.WorkQueued = FALSE]
    /\ UNCHANGED <<schedulerVars, CpuQueue, PagingIdle, DispatchedFence,
                   renderVars, Outstanding, SchedulerFaulted, osVars, loc>>

\* The packet ran: AdmissionSchedulerRecordCompletion.
PagingRecordCompletion(p) ==
    /\ At(p, "PagingRun")
    /\ \/ /\ Sched!RecordCompletion(Paging.Fence)
          /\ DispatchedFence' = IF DispatchedFence = Paging.Fence
                                THEN NoFence ELSE DispatchedFence
          /\ Paging' = [Paging EXCEPT !.Ok = TRUE]
          /\ UNCHANGED SchedulerFaulted
       \/ /\ ~Sched!CanCompleteActiveFence(Paging.Fence)
          /\ SchedulerFaulted' = TRUE
          /\ Paging' = [Paging EXCEPT !.Ok = FALSE]
          /\ UNCHANGED <<schedulerVars, DispatchedFence>>
    /\ Goto(p, "PagingNotify")
    /\ UNCHANGED <<CpuQueue, PagingIdle, renderVars, Outstanding, osVars, loc>>

\* The packet failed: its fence stays active until an engine reset.
PagingFail(p) ==
    /\ "paging" \in Failures
    /\ At(p, "PagingRun")
    /\ Paging' = [Paging EXCEPT !.Ok = FALSE]
    /\ Goto(p, "PagingNotify")
    /\ UNCHANGED <<schedulerVars, CpuQueue, PagingIdle, DispatchedFence,
                   renderVars, Outstanding, SchedulerFaulted, osVars, loc>>

\* DMA_COMPLETED or DMA_FAULTED at interrupt level.
PagingNotify(p) ==
    /\ At(p, "PagingNotify")
    /\ Reported' = IF Paging.Ok THEN Paging.Fence ELSE Reported
    /\ Paging' = [Paging EXCEPT !.DpcPending = TRUE]
    /\ DpcQueued' = TRUE
    /\ Goto(p, "PagingLeave")
    /\ UNCHANGED <<schedulerVars, CpuQueue, PagingIdle, DispatchedFence,
                   renderVars, Outstanding, SchedulerFaulted, Preempting, Used, loc>>

PagingWorkerLeave(p) ==
    /\ At(p, "PagingLeave")
    /\ Return(p)
    /\ UNCHANGED <<schedulerVars, CpuQueue, Paging, DispatchedFence, renderVars,
                   Outstanding, SchedulerFaulted, osVars, loc>>
    /\ PagingIdle' = PagingQuiet'

PagingWorker(p) ==
    \/ PagingWorkerStart(p)
    \/ PagingRecordCompletion(p)
    \/ PagingFail(p)
    \/ PagingNotify(p)
    \/ PagingWorkerLeave(p)

-----------------------------------------------------------------------------
(* AdmissionDdiDpcRoutine: PagingDpc, DxgkCbNotifyDpc, SchedulerDpc.       *)

DpcStart ==
    /\ DpcQueued \/ ScanoutVsync
    /\ Enter(D, "PagingDpc")
    /\ DpcQueued' = FALSE
    /\ UNCHANGED <<schedulerVars, cpuVars, DispatchedFence, renderVars,
                   Outstanding, SchedulerFaulted, Reported, Preempting, Used, loc>>

PagingDpcTake ==
    /\ At(D, "PagingDpc")
    /\ Paging' = [Paging EXCEPT !.DpcPending = FALSE]
    /\ Goto(D, IF Paging.DpcPending THEN "PagingDpcEnter" ELSE "NotifyDpc")
    /\ UNCHANGED <<schedulerVars, CpuQueue, PagingIdle, DispatchedFence,
                   renderVars, Outstanding, SchedulerFaulted, osVars, loc>>

\* PagingDpcsActive is incremented after DpcPending was taken.
PagingDpcEnter ==
    /\ At(D, "PagingDpcEnter")
    /\ Goto(D, "PagingDpcRetire")
    /\ UNCHANGED <<schedulerVars, cpuVars, DispatchedFence, renderVars,
                   Outstanding, SchedulerFaulted, osVars, loc>>

PagingDpcRetire ==
    /\ At(D, "PagingDpcRetire")
    /\ Outstanding' = Retired({<<Paging.Context, Paging.Fence>>})
    /\ Paging' = [Paging EXCEPT !.Pending = FALSE, !.Context = NoContext]
    /\ Goto(D, "PagingDpcLeave")
    /\ UNCHANGED <<schedulerVars, CpuQueue, DispatchedFence, renderVars,
                   SchedulerFaulted, osVars, loc>>
    /\ PagingIdle' = PagingQuiet'

PagingDpcLeave ==
    /\ At(D, "PagingDpcLeave")
    /\ Goto(D, "NotifyDpc")
    /\ UNCHANGED <<schedulerVars, CpuQueue, Paging, DispatchedFence, renderVars,
                   Outstanding, SchedulerFaulted, osVars, loc>>
    /\ PagingIdle' = PagingQuiet'

\* VidSch learns what the interrupts reported.
NotifyDpc ==
    /\ At(D, "NotifyDpc")
    /\ Preempting' = IF Preempting = "Reported" THEN "No" ELSE Preempting
    /\ Goto(D, "SchedulerDpc")
    /\ UNCHANGED <<schedulerVars, cpuVars, DispatchedFence, renderVars,
                   Outstanding, SchedulerFaulted, DpcQueued, Reported, Used, loc>>

SchedulerDpcRead ==
    /\ At(D, "SchedulerDpc")
    /\ loc' = [loc EXCEPT ![D].Flag = Preemption.Phase = Sched!ReadyToNotify,
                          ![D].Reserved = DispatchedFence]
    /\ Goto(D, "TakeRenderFence")
    /\ UNCHANGED <<schedulerVars, cpuVars, DispatchedFence, renderVars,
                   Outstanding, SchedulerFaulted, osVars>>

SchedulerDpcTake ==
    /\ At(D, "TakeRenderFence")
    /\ loc' = [loc EXCEPT ![D].Job = RenderDpcFence]
    /\ RenderDpcFence' = NoFence
    /\ Goto(D, "TestUnreported")
    /\ UNCHANGED <<schedulerVars, cpuVars, DispatchedFence, RenderPacket,
                   G4Pending, Platform, Outstanding, SchedulerFaulted, osVars>>

\* Everything the notification covers has been reported: no CPU completion is
\* missing, and the reserved fence is the render fence just reported.
DpcMayNotify ==
    /\ loc[D].Flag
    /\ ~CpuUnreported
    /\ loc[D].Reserved \in {NoFence, loc[D].Job}

SchedulerDpcTry ==
    /\ At(D, "TestUnreported")
    /\ IF DpcMayNotify THEN Call(D, "TryNotify", "ReleaseReserved")
                       ELSE Goto(D, "ReleaseReserved")
    /\ UNCHANGED <<schedulerVars, cpuVars, DispatchedFence, renderVars,
                   Outstanding, SchedulerFaulted, osVars, loc>>

\* Mutant: the DPC leaves the completed render's reservation in place.
SchedulerDpcReleaseKeeps ==
    /\ At(D, "ReleaseReserved")
    /\ loc' = [loc EXCEPT ![D] = NoLocals]
    /\ Goto(D, "Dispatch")
    /\ UNCHANGED <<schedulerVars, cpuVars, DispatchedFence, renderVars,
                   Outstanding, SchedulerFaulted, osVars>>

\* Mutant: the DPC does not dispatch after it released the reservation.
SchedulerDpcReleaseOnly ==
    /\ At(D, "ReleaseReserved")
    /\ DispatchedFence' = IF loc[D].Job # NoFence /\ DispatchedFence = loc[D].Job
                          THEN NoFence ELSE DispatchedFence
    /\ loc' = [loc EXCEPT ![D] = NoLocals]
    /\ Return(D)
    /\ UNCHANGED <<schedulerVars, cpuVars, renderVars, Outstanding,
                   SchedulerFaulted, osVars>>

\* A completed render keeps its reservation until here; then dispatch.
SchedulerDpcRelease ==
    /\ At(D, "ReleaseReserved")
    /\ DispatchedFence' = IF loc[D].Job # NoFence /\ DispatchedFence = loc[D].Job
                          THEN NoFence ELSE DispatchedFence
    /\ loc' = [loc EXCEPT ![D] = NoLocals]
    /\ Goto(D, "Dispatch")
    /\ UNCHANGED <<schedulerVars, cpuVars, renderVars, Outstanding,
                   SchedulerFaulted, osVars>>

Dpc ==
    \/ DpcStart
    \/ PagingDpcTake
    \/ PagingDpcEnter
    \/ PagingDpcRetire
    \/ PagingDpcLeave
    \/ NotifyDpc
    \/ SchedulerDpcRead
    \/ SchedulerDpcTake
    \/ SchedulerDpcTry
    \/ SchedulerDpcRelease

-----------------------------------------------------------------------------
(* AdmissionPlatformWorker, the render executor.                           *)

RenderWorkerStart(r) ==
    /\ Platform.WorkQueued
    /\ Enter(r, "Bind")
    /\ Platform' = [Platform EXCEPT !.WorkQueued = FALSE]
    /\ UNCHANGED <<schedulerVars, cpuVars, DispatchedFence, RenderPacket,
                   G4Pending, RenderDpcFence, Outstanding, SchedulerFaulted,
                   osVars, loc>>

\* AdmissionG4PendingBindHead reserves the empty slot for the head entry ...
BindHead(r) ==
    /\ At(r, "Bind")
    /\ IF /\ G4Pending # <<>>
          /\ Head(G4Pending).State = "Queued"
          /\ RenderPacket.State = "Empty"
          /\ QueuedFence = Head(G4Pending).Fence
       THEN /\ RenderPacket' = [Head(G4Pending) EXCEPT !.State = "Prepared"]
            /\ G4Pending' = [G4Pending EXCEPT ![1].State = "Binding"]
            /\ Goto(r, "BindQueue")
       ELSE Goto(r, "Activate") /\ UNCHANGED <<RenderPacket, G4Pending>>
    /\ UNCHANGED <<schedulerVars, cpuVars, DispatchedFence, Platform,
                   RenderDpcFence, Outstanding, SchedulerFaulted, osVars, loc>>

\* Mutant: the drop that came while the job was bound is not seen.
BindQueueIgnoresDrop(r) ==
    /\ At(r, "BindQueue")
    /\ RenderPacket' = [RenderPacket EXCEPT !.State = "Queued"]
    /\ G4Pending' = Tail(G4Pending)
    /\ Goto(r, "Activate")
    /\ UNCHANGED <<schedulerVars, cpuVars, DispatchedFence, Platform,
                   RenderDpcFence, Outstanding, SchedulerFaulted, osVars, loc>>

\* ... and, the job bound, queues the packet unless the entry was dropped.
BindQueue(r) ==
    /\ At(r, "BindQueue")
    /\ RenderPacket' = IF Head(G4Pending).State = "Dropped" THEN EmptyPacket
                       ELSE [RenderPacket EXCEPT !.State = "Queued"]
    /\ G4Pending' = Tail(G4Pending)
    /\ Goto(r, "Activate")
    /\ UNCHANGED <<schedulerVars, cpuVars, DispatchedFence, Platform,
                   RenderDpcFence, Outstanding, SchedulerFaulted, osVars, loc>>

\* An accepted job cannot be bound; a dropped one just goes.
BindFail(r) ==
    /\ "bind" \in Failures
    /\ At(r, "BindQueue")
    /\ RenderPacket' = EmptyPacket
    /\ G4Pending' = Tail(G4Pending)
    /\ IF Head(G4Pending).State = "Dropped"
       THEN Goto(r, "Activate") /\ UNCHANGED <<Outstanding, SchedulerFaulted>>
       ELSE /\ Outstanding' = Retired({<<Head(G4Pending).Context,
                                         Head(G4Pending).Fence>>})
            /\ SchedulerFaulted' = TRUE
            /\ Goto(r, "Finish")
    /\ UNCHANGED <<schedulerVars, cpuVars, DispatchedFence, Platform,
                   RenderDpcFence, osVars, loc>>

\* Nothing to run (any more), or not this packet's turn.
ActivateCancelled == RenderPacket.State = "Empty" \/ Platform.Resetting
ActivateDeferred ==
    /\ RenderPacket.State = "Queued"
    /\ \/ ActiveFence # NoFence
       \/ QueuedFence # RenderPacket.Fence
       \/ DispatchedFence \notin {NoFence, RenderPacket.Fence}

ActivateSkip(r) ==
    /\ At(r, "Activate")
    /\ ActivateCancelled \/ ActivateDeferred
    /\ Goto(r, "Finish")
    /\ UNCHANGED <<schedulerVars, cpuVars, DispatchedFence, renderVars,
                   Outstanding, SchedulerFaulted, osVars, loc>>

ActivatePacket(r) ==
    /\ At(r, "Activate")
    /\ ~ActivateCancelled /\ ~ActivateDeferred
    /\ Platform.Phase = "Ready"
    /\ RenderPacket.State = "Queued"
    /\ Sched!ActivateFence(RenderPacket.Fence)
    /\ RenderPacket' = [RenderPacket EXCEPT !.State = "Active"]
    /\ DispatchedFence' = RenderPacket.Fence
    /\ loc' = [loc EXCEPT ![r].Job = RenderPacket.Fence]
    /\ Goto(r, "BackendSubmit")
    /\ UNCHANGED <<cpuVars, G4Pending, Platform, RenderDpcFence, Outstanding,
                   SchedulerFaulted, osVars>>

ActivateFault(r) ==
    /\ At(r, "Activate")
    /\ ~ActivateCancelled /\ ~ActivateDeferred
    /\ ~(/\ Platform.Phase = "Ready"
         /\ RenderPacket.State = "Queued"
         /\ Sched!MayActivateFence(RenderPacket.Fence))
    /\ SchedulerFaulted' = TRUE
    /\ Goto(r, "Finish")
    /\ UNCHANGED <<schedulerVars, cpuVars, DispatchedFence, renderVars,
                   Outstanding, osVars, loc>>

BackendSubmit(r) ==
    /\ At(r, "BackendSubmit")
    /\ Platform' = [Platform EXCEPT !.Phase = "Submitted"]
    /\ Goto(r, "Poll")
    /\ UNCHANGED <<schedulerVars, cpuVars, DispatchedFence, RenderPacket,
                   G4Pending, RenderDpcFence, Outstanding, SchedulerFaulted,
                   osVars, loc>>

\* The job never reached the queue, or only half of it did.
BackendSubmitFail(r) ==
    /\ "backend" \in Failures
    /\ At(r, "BackendSubmit")
    /\ \E phase \in {"Ready", "Failed"} : Platform' = [Platform EXCEPT !.Phase = phase]
    /\ SchedulerFaulted' = TRUE
    /\ Goto(r, "Finish")
    /\ UNCHANGED <<schedulerVars, cpuVars, DispatchedFence, RenderPacket,
                   G4Pending, RenderDpcFence, Outstanding, osVars, loc>>

\* The firmware ended the job; the backend is Ready before Io.Complete runs.  A
\* poll in progress when a reset begins still delivers the end.
JobEnds(r) ==
    /\ At(r, "Poll")
    /\ Platform' = [Platform EXCEPT !.Phase = "Ready"]
    /\ Call(r, "Complete", "Finish")
    /\ UNCHANGED <<schedulerVars, cpuVars, DispatchedFence, RenderPacket,
                   G4Pending, RenderDpcFence, Outstanding, SchedulerFaulted,
                   osVars, loc>>

\* A failed poll faults; a reset takes the job over without a fault.  Either
\* way the job stays with the firmware.
PollAbandon(r) ==
    /\ At(r, "Poll")
    /\ Platform.Resetting \/ "poll" \in Failures
    /\ SchedulerFaulted' = (SchedulerFaulted \/ ~Platform.Resetting)
    /\ Goto(r, "Finish")
    /\ UNCHANGED <<schedulerVars, cpuVars, DispatchedFence, renderVars,
                   Outstanding, osVars, loc>>

\* Mutant: the completion itself releases the reservation, as the CPU executor's
\* completion does.
CompleteCommitReleases(t) ==
    /\ At(t, "Complete")
    /\ Sched!RecordCompletion(loc[t].Job)
    /\ loc' = [loc EXCEPT ![t].Context = RenderPacket.Context]
    /\ RenderPacket' = EmptyPacket
    /\ DispatchedFence' = NoFence
    /\ Goto(t, "Report")
    /\ UNCHANGED <<cpuVars, G4Pending, Platform, RenderDpcFence, Outstanding,
                   SchedulerFaulted, osVars>>

\* AdmissionBackendComplete, run by the render worker or by the reset's
\* quiescence poll, in three steps: scheduler and packet under the lock ...
CompleteCommit(t) ==
    /\ At(t, "Complete")
    /\ IF /\ RenderPacket.State = "Active"
          /\ RenderPacket.Fence = loc[t].Job
          /\ ActiveFence = loc[t].Job
          /\ Oldest(RenderPacket.Context) = loc[t].Job
          /\ Sched!CanCompleteActiveFence(loc[t].Job)
       THEN /\ Sched!RecordCompletion(loc[t].Job)
            /\ loc' = [loc EXCEPT ![t].Context = RenderPacket.Context]
            /\ RenderPacket' = EmptyPacket
            /\ Goto(t, "Report")
            /\ UNCHANGED <<Platform, SchedulerFaulted>>
       ELSE /\ Platform' = [Platform EXCEPT !.Phase = "Submitted"]
            /\ SchedulerFaulted' = TRUE
            /\ Return(t)
            /\ UNCHANGED <<schedulerVars, RenderPacket, loc>>
    /\ UNCHANGED <<cpuVars, DispatchedFence, G4Pending, RenderDpcFence,
                   Outstanding, osVars>>

\* ... DMA_COMPLETED (or DMA_PAGE_FAULTED for a job the firmware dropped) at
\* interrupt level ...
CompleteReport(t) ==
    /\ At(t, "Report")
    /\ Reported' = loc[t].Job
    /\ RenderDpcFence' = loc[t].Job
    /\ DpcQueued' = TRUE
    /\ Goto(t, "Retire")
    /\ UNCHANGED <<schedulerVars, cpuVars, DispatchedFence, RenderPacket,
                   G4Pending, Platform, Outstanding, SchedulerFaulted,
                   Preempting, Used, loc>>

\* ... and the context's record of the job.  The reservation DispatchedFence
\* is left to the DPC.
CompleteRetire(t) ==
    /\ At(t, "Retire")
    /\ Outstanding' = Retired({<<loc[t].Context, loc[t].Job>>})
    /\ loc' = [loc EXCEPT ![t].Context = NoContext]
    /\ Return(t)
    /\ UNCHANGED <<schedulerVars, cpuVars, DispatchedFence, renderVars,
                   SchedulerFaulted, osVars>>

Complete(t) ==
    \/ CompleteCommit(t)
    \/ CompleteReport(t)
    \/ CompleteRetire(t)

-----------------------------------------------------------------------------
(* AdmissionPlatformWorkerFinished and AdmissionSchedulerWorkerFinished.   *)

WorkerFinished(r) ==
    /\ At(r, "Finish")
    /\ Platform' = [Platform EXCEPT !.WorkScheduled = FALSE]
    /\ loc' = [loc EXCEPT ![r] = NoLocals]
    /\ Goto(r, "FinishReset")
    /\ UNCHANGED <<schedulerVars, cpuVars, DispatchedFence, RenderPacket,
                   G4Pending, RenderDpcFence, Outstanding, SchedulerFaulted, osVars>>

WorkerTestReset(r) ==
    /\ At(r, "FinishReset")
    /\ Goto(r, IF Platform.Resetting THEN "Leave" ELSE "FinishRetry")
    /\ UNCHANGED <<schedulerVars, cpuVars, DispatchedFence, renderVars,
                   Outstanding, SchedulerFaulted, osVars, loc>>

\* A preemption notification that a thread outside the DPC may deliver now.
MayNotifyNow ==
    /\ Preemption.Phase = Sched!ReadyToNotify
    /\ DispatchedFence = NoFence
    /\ ~CpuUnreported

WorkerRetryNotify(r) ==
    /\ At(r, "FinishRetry")
    /\ pc' = [pc EXCEPT ![r] = IF MayNotifyNow
                               THEN <<"TryNotify", "Dispatch", "Leave">>
                               ELSE <<"Dispatch", "Leave">>]
    /\ UNCHANGED <<schedulerVars, cpuVars, DispatchedFence, renderVars,
                   Outstanding, SchedulerFaulted, osVars, loc>>

\* Mutant: the leaving worker overlooks the one that was started meanwhile.
WorkerLeaveAlwaysIdle(r) ==
    /\ At(r, "Leave")
    /\ Return(r)
    /\ Platform' = [Platform EXCEPT !.WorkIdle = @ \/ ~Platform.WorkScheduled]
    /\ UNCHANGED <<schedulerVars, cpuVars, DispatchedFence, RenderPacket,
                   G4Pending, RenderDpcFence, Outstanding, SchedulerFaulted,
                   osVars, loc>>

WorkerLeave(r) ==
    /\ At(r, "Leave")
    /\ Return(r)
    /\ Platform' = [Platform EXCEPT !.WorkIdle =
                      \/ @
                      \/ /\ ~Platform.WorkScheduled
                         /\ \A other \in RenderWorkers \ {r} : ~Running(other)]
    /\ UNCHANGED <<schedulerVars, cpuVars, DispatchedFence, RenderPacket,
                   G4Pending, RenderDpcFence, Outstanding, SchedulerFaulted,
                   osVars, loc>>

RenderWorker(r) ==
    \/ RenderWorkerStart(r)
    \/ BindHead(r)
    \/ BindQueue(r)
    \/ BindFail(r)
    \/ ActivateSkip(r)
    \/ ActivatePacket(r)
    \/ ActivateFault(r)
    \/ BackendSubmit(r)
    \/ BackendSubmitFail(r)
    \/ JobEnds(r)
    \/ PollAbandon(r)
    \/ WorkerFinished(r)
    \/ WorkerTestReset(r)
    \/ WorkerRetryNotify(r)
    \/ WorkerLeave(r)

-----------------------------------------------------------------------------
(* VidSch's submissions.  It makes one DDI call at a time, gives its        *)
(* packets consecutive fences and submits nothing between a preemption and  *)
(* the DPC that tells it the preemption happened.  A refused submission     *)
(* changes nothing: its fence is used by the next one.                      *)

VidSchFree == ~Running(V) /\ Preempting = "No"
NewFence == LastSubmittedFence + 1
MaySubmitNew(kind) ==
    VidSchFree /\ Owed = {} /\ NewFence <= MaxFence /\ kind \in Kinds

\* AdmissionCpuQueueSubmit: the packet joins the CPU queue and its fence the
\* scheduler's, in one lock hold; a present also takes its context.
CpuQueueAppend(fence, context) ==
    /\ ~SchedulerFaulted
    /\ Len(CpuQueue) < QueueCapacity
    /\ CpuQueue' = Append(CpuQueue, [Fence |-> fence, Context |-> context])
    /\ PagingIdle' = FALSE
    /\ Enter(V, "Dispatch")
    /\ UNCHANGED <<Paging, DispatchedFence, renderVars, SchedulerFaulted, osVars, loc>>

SubmitCpu(kind) ==
    /\ MaySubmitNew(kind)
    /\ CpuQueueAppend(NewFence, NoContext)
    /\ Sched!QueueFence(NewFence, kind = "paging")
    /\ UNCHANGED Outstanding

SubmitPresent(c) ==
    /\ MaySubmitNew("present")
    /\ Outstanding[c] = <<>>
    /\ CpuQueueAppend(NewFence, c)
    /\ Sched!QueueFence(NewFence, FALSE)
    /\ Outstanding' = [Outstanding EXCEPT ![c] = <<NewFence>>]

\* A paging packet that a preemption or a reset discarded.
ResubmitPaging ==
    /\ VidSchFree
    /\ \E fence \in Owed :
         /\ CpuQueueAppend(fence, NoContext)
         /\ Sched!QueueResubmittedPagingFence(fence)
    /\ UNCHANGED Outstanding

\* AdmissionG4SubmitVirtualEnvelope.  First AdmissionPlatformRuntimeQueueable,
\* read without the lock ...
SubmitRender(c) ==
    /\ MaySubmitNew("render")
    /\ loc' = [loc EXCEPT ![V].Job = NewFence, ![V].Context = c,
                 ![V].Flag = Platform.WorkScheduled \/ Platform.Phase = "Submitted"]
    /\ Enter(V, IF ~Platform.Resetting /\ Platform.Phase \in {"Ready", "Submitted"}
                THEN "Admissible" ELSE "AwaitReady")
    /\ UNCHANGED <<schedulerVars, cpuVars, DispatchedFence, renderVars,
                   Outstanding, SchedulerFaulted, osVars>>

\* Up to two jobs per context, and a free pending entry; tested at admission
\* and again when the entry is reserved.
PendingRoom(c) ==
    Len(Outstanding[c]) < 2 /\ Len(G4Pending) < PendingCapacity /\ ~SchedulerFaulted

\* ... then the rest of AdmissionG4PendingAdmissible: while the runtime is only
\* busy the submission is queued behind the render slot.
Admissible ==
    /\ PendingRoom(loc[V].Context)
    /\ RenderPacket.State # "Empty" \/ G4Pending # <<>> \/ loc[V].Flag

SubmitAdmissible ==
    /\ At(V, "Admissible")
    /\ Goto(V, IF Admissible THEN "PendingReserve" ELSE "AwaitReady")
    /\ loc' = [loc EXCEPT ![V].Flag = FALSE]
    /\ UNCHANGED <<schedulerVars, cpuVars, DispatchedFence, renderVars,
                   Outstanding, SchedulerFaulted, osVars>>

Reject ==
    /\ Return(V)
    /\ loc' = [loc EXCEPT ![V] = NoLocals]

\* AdmissionG4PendingQueue reserves the tail entry and the context ...
PendingReserve ==
    /\ At(V, "PendingReserve")
    /\ LET c == loc[V].Context
       IN  IF PendingRoom(c)
           THEN /\ Outstanding' = [Outstanding EXCEPT ![c] = Append(@, loc[V].Job)]
                /\ Goto(V, "PendingPublish")
                /\ UNCHANGED loc
           ELSE Reject /\ UNCHANGED Outstanding
    /\ UNCHANGED <<schedulerVars, cpuVars, DispatchedFence, renderVars,
                   SchedulerFaulted, osVars>>

\* ... fills it outside the lock and publishes it together with its fence.
PendingPublish ==
    /\ At(V, "PendingPublish")
    /\ IF Sched!MayQueueFence(loc[V].Job)
       THEN /\ Sched!QueueFence(loc[V].Job, FALSE)
            /\ G4Pending' = Append(G4Pending, [State |-> "Queued",
                                               Fence |-> loc[V].Job,
                                               Context |-> loc[V].Context])
            /\ Goto(V, "Dispatch")
            /\ loc' = [loc EXCEPT ![V] = NoLocals]
            /\ UNCHANGED Outstanding
       ELSE /\ Outstanding' = Retired({<<loc[V].Context, loc[V].Job>>})
            /\ Reject
            /\ UNCHANGED <<schedulerVars, G4Pending>>
    /\ UNCHANGED <<cpuVars, DispatchedFence, RenderPacket, Platform,
                   RenderDpcFence, SchedulerFaulted, osVars>>

\* AdmissionPlatformRuntimeAwaitWork waits until the runtime is ready ...
AwaitReady ==
    /\ At(V, "AwaitReady")
    /\ RuntimeReady
    /\ Goto(V, "AwaitSlot")
    /\ UNCHANGED <<schedulerVars, cpuVars, DispatchedFence, renderVars,
                   Outstanding, SchedulerFaulted, osVars, loc>>

\* ... and nothing is queued at or behind the render slot ...
AwaitSlot ==
    /\ At(V, "AwaitSlot")
    /\ Goto(V, IF RenderPacket.State = "Empty" /\ G4Pending = <<>>
               THEN "Prepare" ELSE "AwaitReady")
    /\ UNCHANGED <<schedulerVars, cpuVars, DispatchedFence, renderVars,
                   Outstanding, SchedulerFaulted, osVars, loc>>

\* ... for 10 seconds, or until the backend fails.
AwaitGiveUp ==
    /\ \/ At(V, "AwaitReady") /\ ~RuntimeReady
       \/ At(V, "AwaitSlot") /\ (RenderPacket.State # "Empty" \/ G4Pending # <<>>)
    /\ Reject
    /\ UNCHANGED <<schedulerVars, cpuVars, DispatchedFence, renderVars,
                   Outstanding, SchedulerFaulted, osVars>>

\* The immediate path prepares the packet ...
PreparePacket ==
    /\ At(V, "Prepare")
    /\ LET c == loc[V].Context
       IN  IF /\ RenderPacket.State = "Empty"
              /\ G4Pending = <<>>
              /\ Outstanding[c] = <<>>
              /\ ~SchedulerFaulted
           THEN /\ RenderPacket' = [State |-> "Prepared", Fence |-> loc[V].Job,
                                    Context |-> c]
                /\ Outstanding' = [Outstanding EXCEPT ![c] = <<loc[V].Job>>]
                /\ Goto(V, "QueuePacket")
                /\ UNCHANGED loc
           ELSE Reject /\ UNCHANGED <<RenderPacket, Outstanding>>
    /\ UNCHANGED <<schedulerVars, cpuVars, DispatchedFence, G4Pending, Platform,
                   RenderDpcFence, SchedulerFaulted, osVars>>

\* ... binds it outside the lock and queues it with its fence ...
QueuePacket ==
    /\ At(V, "QueuePacket")
    /\ RenderPacket.State = "Prepared"
    /\ Sched!QueueFence(loc[V].Job, FALSE)
    /\ RenderPacket' = [RenderPacket EXCEPT !.State = "Queued"]
    /\ Goto(V, "Dispatch")
    /\ loc' = [loc EXCEPT ![V] = NoLocals]
    /\ UNCHANGED <<cpuVars, DispatchedFence, G4Pending, Platform, RenderDpcFence,
                   Outstanding, SchedulerFaulted, osVars>>

\* ... or rolls back: the binding failed, or the scheduler refused the fence.
RollbackPacket ==
    /\ At(V, "QueuePacket")
    /\ \/ "bind" \in Failures
       \/ RenderPacket.State # "Prepared"
       \/ ~Sched!MayQueueFence(loc[V].Job)
    /\ RenderPacket' = IF RenderPacket.State = "Prepared" THEN EmptyPacket
                                                          ELSE RenderPacket
    /\ Outstanding' = Retired({<<loc[V].Context, loc[V].Job>>})
    /\ Reject
    /\ UNCHANGED <<schedulerVars, cpuVars, DispatchedFence, G4Pending, Platform,
                   RenderDpcFence, SchedulerFaulted, osVars>>

Submit ==
    \/ \E kind \in {"paging", "touch"} : SubmitCpu(kind)
    \/ \E c \in Contexts : SubmitPresent(c)
    \/ ResubmitPaging
    \/ \E c \in Contexts : SubmitRender(c)
    \/ SubmitAdmissible
    \/ PendingReserve
    \/ PendingPublish
    \/ AwaitReady
    \/ AwaitSlot
    \/ AwaitGiveUp
    \/ PreparePacket
    \/ QueuePacket
    \/ RollbackPacket

-----------------------------------------------------------------------------
(* What a preemption and a reset throw away.                               *)

Entries(seq) == {seq[i] : i \in 1 .. Len(seq)}

\* AdmissionCpuQueueReleaseContextsLocked: the contexts of queued presents.
CpuQueuePairs == {<<packet.Context, packet.Fence>> : packet \in Entries(CpuQueue)}

\* AdmissionG4PendingDropLocked releases the contexts of the entries it drops
\* and keeps the head, marked, while the worker is binding it.
PendingDropped == {entry \in Entries(G4Pending) : entry.State # "Dropped"}
PendingPairs == {<<entry.Context, entry.Fence>> : entry \in PendingDropped}
PendingKept ==
    IF G4Pending # <<>> /\ Head(G4Pending).State \in {"Binding", "Dropped"}
    THEN <<[Head(G4Pending) EXCEPT !.State = "Dropped"]>>
    ELSE <<>>

QueuedPair ==
    IF RenderPacket.State = "Queued" THEN {<<RenderPacket.Context, RenderPacket.Fence>>}
                                     ELSE {}

-----------------------------------------------------------------------------
(* AdmissionDdiPreemptCommand, up to the notification.                     *)

PreemptGuard ==
    /\ VidSchFree
    /\ Used.Preemptions < MaxPreemptions
    /\ PreemptDuringDelivery \/ Preemption.Phase = Sched!Idle
    /\ Used' = [Used EXCEPT !.Preemptions = @ + 1]
    /\ Preempting' = "Waiting"
    /\ UNCHANGED <<Paging, Platform, RenderDpcFence, DpcQueued, Reported, loc>>

\* A preemption the scheduler refuses faults the adapter.
PreemptRefused(preemption) ==
    /\ PreemptGuard
    /\ Sched!MayPreempt
    /\ ~Sched!MayBeginBoundaryPreemption(preemption, LastSubmittedFence, ActiveFence)
    /\ SchedulerFaulted' = TRUE
    /\ UNCHANGED <<schedulerVars, CpuQueue, PagingIdle, DispatchedFence,
                   RenderPacket, G4Pending, Outstanding, pc>>

PreemptCommand(preemption) ==
    LET owned == QueuedPair = {} \/ Oldest(RenderPacket.Context) = RenderPacket.Fence
        reserved == {fence \in {RenderPacket.Fence} : QueuedPair # {} /\ ActiveFence = NoFence}
                      \cup {entry.Fence : entry \in PendingDropped}
    IN  /\ PreemptGuard
        /\ Sched!BeginBoundaryPreemption(preemption)
        /\ CpuQueue' = <<>>
        /\ RenderPacket' = IF QueuedPair # {} THEN EmptyPacket ELSE RenderPacket
        /\ G4Pending' = PendingKept
        /\ Outstanding' = Retired(CpuQueuePairs \cup PendingPairs
                                    \cup IF owned THEN QueuedPair ELSE {})
        /\ SchedulerFaulted' = (SchedulerFaulted \/ ~owned)
        /\ DispatchedFence' = IF DispatchedFence \in reserved THEN NoFence
                                                              ELSE DispatchedFence
        /\ IF /\ ActiveFence = NoFence
              /\ DispatchedFence' = NoFence
              /\ ~CpuUnreported
           THEN Enter(V, "TryNotify")
           ELSE UNCHANGED pc
        /\ PagingIdle' = PagingQuiet'

Preempt ==
    \E preemption \in PreemptionFences :
        PreemptRefused(preemption) \/ PreemptCommand(preemption)

-----------------------------------------------------------------------------
(* AdmissionResetEngineInternal, called when something did not finish.     *)

\* AdmissionResetQuiesceActive: a running job must be proved ended first.
ResetBegin ==
    /\ ~Running(V)
    /\ Used.Resets < MaxResets
    /\ \/ SchedulerFaulted
       \/ Preempting = "Waiting"
       \/ ActiveFence # NoFence
       \/ FenceQueue # <<>>
    /\ Used' = [Used EXCEPT !.Resets = @ + 1]
    /\ IF RenderPacket.State = "Active"
       THEN /\ SchedulerFaulted' = TRUE
            /\ loc' = [loc EXCEPT ![V].Job = RenderPacket.Fence]
            /\ Enter(V, "QuiesceClaim")
       ELSE Enter(V, "ResetEngine") /\ UNCHANGED <<SchedulerFaulted, loc>>
    /\ UNCHANGED <<schedulerVars, cpuVars, DispatchedFence, renderVars,
                   Outstanding, DpcQueued, Reported, Preempting>>

\* AdmissionPlatformRuntimeQuiesceActive stops the worker's polling ...
QuiesceClaim ==
    /\ At(V, "QuiesceClaim")
    /\ Platform' = [Platform EXCEPT !.Resetting = TRUE]
    /\ Goto(V, "QuiesceWait")
    /\ UNCHANGED <<schedulerVars, cpuVars, DispatchedFence, RenderPacket,
                   G4Pending, RenderDpcFence, Outstanding, SchedulerFaulted,
                   osVars, loc>>

\* ... waits for the worker to leave ...
QuiesceWait ==
    /\ At(V, "QuiesceWait")
    /\ Platform.WorkIdle
    /\ Goto(V, "QuiesceCheck")
    /\ UNCHANGED <<schedulerVars, cpuVars, DispatchedFence, renderVars,
                   Outstanding, SchedulerFaulted, osVars, loc>>

JobActive ==
    /\ RenderPacket.State = "Active"
    /\ RenderPacket.Fence = loc[V].Job
    /\ ActiveFence = loc[V].Job

\* ... and polls until the job is no longer active ...
QuiesceCheck ==
    /\ At(V, "QuiesceCheck")
    /\ Goto(V, IF ~JobActive THEN "QuiesceEnded"
               ELSE IF Platform.Phase = "Submitted" THEN "QuiescePoll"
               ELSE "QuiesceFail")
    /\ UNCHANGED <<schedulerVars, cpuVars, DispatchedFence, renderVars,
                   Outstanding, SchedulerFaulted, osVars, loc>>

QuiescePoll ==
    /\ At(V, "QuiescePoll")
    /\ Platform' = [Platform EXCEPT !.Phase = "Ready"]
    /\ Call(V, "Complete", "QuiesceCheck")
    /\ UNCHANGED <<schedulerVars, cpuVars, DispatchedFence, RenderPacket,
                   G4Pending, RenderDpcFence, Outstanding, SchedulerFaulted,
                   osVars, loc>>

\* ... or gives up: the worker did not leave, the job did not end in time, or
\* the backend failed.  A failed reset leaves the adapter faulted.
QuiesceGiveUp ==
    /\ At(V, "QuiesceWait") \/ At(V, "QuiescePoll") \/ At(V, "QuiesceFail")
    /\ Platform' = [Platform EXCEPT !.Resetting = FALSE]
    /\ Reject
    /\ UNCHANGED <<schedulerVars, cpuVars, DispatchedFence, RenderPacket,
                   G4Pending, RenderDpcFence, Outstanding, SchedulerFaulted, osVars>>

QuiesceEnded ==
    /\ At(V, "QuiesceEnded")
    /\ Platform' = [Platform EXCEPT !.Resetting = FALSE]
    /\ loc' = [loc EXCEPT ![V] = NoLocals]
    /\ Goto(V, "ResetEngine")
    /\ UNCHANGED <<schedulerVars, cpuVars, DispatchedFence, RenderPacket,
                   G4Pending, RenderDpcFence, Outstanding, SchedulerFaulted, osVars>>

\* A CPU packet in progress, or a job activated after the quiescence proof.
ResetBusy == Paging.Pending \/ PagingWorkersActive \/ PagingDpcsActive

\* Mutant: a job activated after the quiescence proof is reset under the GPU.
ResetAllowedWhileActive == ~ResetBusy

ResetAllowed == ~ResetBusy /\ RenderPacket.State # "Active"

ResetFails ==
    /\ At(V, "ResetEngine")
    /\ ~ResetAllowed
    /\ SchedulerFaulted' = (SchedulerFaulted \/ ~ResetBusy)
    /\ Return(V)
    /\ UNCHANGED <<schedulerVars, cpuVars, DispatchedFence, renderVars,
                   Outstanding, osVars, loc>>

\* Mutant: the reservation of a discarded packet survives the reset.
ResetSchedulerOnly ==
    Sched!ResetEngine /\ RenderDpcFence' = NoFence /\ UNCHANGED DispatchedFence

\* Mutant: the scheduler is initialised afresh.
ResetSchedulerFromZero ==
    /\ Sched!SchedResetEngineFromZero
    /\ Sched!Discard
    /\ DispatchedFence' = NoFence
    /\ RenderDpcFence' = NoFence

\* The scheduler and the reservations go together.
ResetScheduler ==
    /\ Sched!ResetEngine
    /\ DispatchedFence' = NoFence
    /\ RenderDpcFence' = NoFence

ResetEngine ==
    /\ At(V, "ResetEngine")
    /\ ResetAllowed
    /\ ResetScheduler
    /\ RenderPacket' = IF QueuedPair # {} THEN EmptyPacket ELSE RenderPacket
    /\ loc' = [loc EXCEPT ![V].Job = IF QueuedPair # {} THEN RenderPacket.Fence ELSE NoFence,
                          ![V].Context = IF QueuedPair # {} THEN RenderPacket.Context
                                                            ELSE NoContext]
    /\ CpuQueue' = <<>>
    /\ G4Pending' = PendingKept
    /\ Outstanding' = Retired(CpuQueuePairs \cup PendingPairs)
    /\ Goto(V, "ResetRetire")
    /\ UNCHANGED <<Paging, Platform, SchedulerFaulted, osVars>>
    /\ PagingIdle' = PagingQuiet'

ResetRetire ==
    /\ At(V, "ResetRetire")
    /\ Outstanding' = IF loc[V].Job # NoFence /\ Oldest(loc[V].Context) = loc[V].Job
                      THEN Retired({<<loc[V].Context, loc[V].Job>>}) ELSE Outstanding
    /\ loc' = [loc EXCEPT ![V] = NoLocals]
    /\ Goto(V, "ResetClear")
    /\ UNCHANGED <<schedulerVars, cpuVars, DispatchedFence, renderVars,
                   SchedulerFaulted, osVars>>

\* VidSch forgets the preemption the reset overtook.
ResetClear ==
    /\ At(V, "ResetClear")
    /\ SchedulerFaulted' = FALSE
    /\ Preempting' = "No"
    /\ Return(V)
    /\ UNCHANGED <<schedulerVars, cpuVars, DispatchedFence, renderVars,
                   Outstanding, DpcQueued, Reported, Used, loc>>

Reset ==
    \/ ResetBegin
    \/ QuiesceClaim
    \/ QuiesceWait
    \/ QuiesceCheck
    \/ QuiescePoll
    \/ QuiesceGiveUp
    \/ QuiesceEnded
    \/ ResetFails
    \/ ResetEngine
    \/ ResetRetire
    \/ ResetClear

-----------------------------------------------------------------------------
Next ==
    \/ Submit
    \/ Preempt
    \/ Reset
    \/ Dpc
    \/ \E p \in PagingWorkers : PagingWorker(p)
    \/ \E r \in RenderWorkers : RenderWorker(r)
    \/ \E t \in Threads : Dispatch(t)
    \/ \E t \in Threads : TryNotify(t)
    \/ \E t \in Threads : Complete(t)

Spec == Init /\ [][Next]_vars

\* Work items, DPCs, interrupts and DDI calls run to their end once started; a
\* queued work item or DPC starts.  Nothing forces VidSch to make a call.
Fairness ==
    /\ WF_vars(Dpc)
    /\ \A p \in PagingWorkers : WF_vars(PagingWorker(p))
    /\ \A r \in RenderWorkers : WF_vars(RenderWorker(r))
    /\ \A t \in Threads : /\ WF_vars(Dispatch(t))
                          /\ WF_vars(TryNotify(t))
                          /\ WF_vars(Complete(t))
    /\ WF_vars(Running(V) /\ (Submit \/ Reset))

FairSpec == Spec /\ Fairness

-----------------------------------------------------------------------------
(* Properties.                                                             *)

PacketType == [State : {"Empty", "Prepared", "Queued", "Active"},
               Fence : 0 .. MaxFence, Context : Contexts \cup {NoContext}]
PendingType == [State : {"Queued", "Binding", "Dropped"},
                Fence : 1 .. MaxFence, Context : Contexts]

\* The adapter's fields stay in their ranges and its queues in their arrays.
TypeOK ==
    /\ Sched!TypeOK
    /\ Len(CpuQueue) <= QueueCapacity
    /\ \A packet \in Entries(CpuQueue) :
         packet \in [Fence : 1 .. MaxFence, Context : Contexts \cup {NoContext}]
    /\ Paging \in [Pending : BOOLEAN, Fence : 0 .. MaxFence,
                   Context : Contexts \cup {NoContext}, Ok : BOOLEAN,
                   DpcPending : BOOLEAN, WorkQueued : BOOLEAN]
    /\ PagingIdle \in BOOLEAN
    /\ DispatchedFence \in 0 .. MaxFence
    /\ RenderPacket \in PacketType
    /\ Len(G4Pending) <= PendingCapacity /\ Entries(G4Pending) \subseteq PendingType
    /\ \A c \in Contexts : /\ Len(Outstanding[c]) <= 2
                           /\ Entries(Outstanding[c]) \subseteq 1 .. MaxFence
    /\ Platform \in [Phase : {"Ready", "Submitted", "Failed"}, WorkScheduled : BOOLEAN,
                     WorkQueued : BOOLEAN, WorkIdle : BOOLEAN, Resetting : BOOLEAN]
    /\ RenderDpcFence \in 0 .. MaxFence
    /\ SchedulerFaulted \in BOOLEAN /\ DpcQueued \in BOOLEAN
    /\ Reported \in 0 .. MaxFence
    /\ Preempting \in {"No", "Waiting", "Reported"}

\* The CPU packet that failed: Windows was told DMA_FAULTED, and the scheduler
\* keeps its fence active until Windows resets the engine.
FailedFence == IF Paging.Ok THEN NoFence ELSE Paging.Fence

\* One engine, one job: whatever the two executors, the DPC, preemption and
\* reset do, the active fence belongs to exactly one of them (or to a failed
\* CPU packet), and the firmware never holds a job whose packet the adapter has
\* let go of.  A CPU packet that gave the engine back may still be on its way to
\* Windows (Paging.Pending) while a render runs.
OneJob ==
    /\ RenderPacket.State = "Active" => ActiveFence = RenderPacket.Fence
    /\ Platform.Phase = "Submitted" => RenderPacket.State = "Active"
    /\ ActiveFence # NoFence =>
         \/ Paging.Pending /\ Paging.Fence = ActiveFence
         \/ RenderPacket.State = "Active"
         \/ FailedFence = ActiveFence

\* Windows is told of completions in submission order: DMA_COMPLETED never
\* goes back, although the two executors report from different threads.  The
\* driver does not keep it: after a preemption a render work item that was
\* queued for the withdrawn packet takes the next render as soon as a CPU
\* packet has recorded its completion, and may report before that packet does.
ReportsInOrder == [][Reported' >= Reported]_vars

\* Until Windows first preempts or resets, completions are reported in
\* submission order: whoever holds DispatchedFence reports before it lets the
\* other executor start.
InOrderUndisturbed ==
    [][Used.Preemptions + Used.Resets = 0 => Reported' >= Reported]_vars

\* Each preemption is answered at most once, although the preempt call, the DPC
\* and a finishing worker compete to deliver the notification: whoever delivers
\* it is alone, and Windows is still waiting for it.
PreemptedOnce ==
    \A t \in Threads : At(t, "NotifyPreemption") =>
        /\ Preempting = "Waiting"
        /\ \A u \in Threads \ {t} : ~At(u, "NotifyPreemption")

\* The fences that hold a context: queued and running packets, and packets
\* some thread is about to publish or has just completed.
Holders(c) ==
    {packet.Fence : packet \in {q \in Entries(CpuQueue) : q.Context = c}}
    \cup {fence \in {Paging.Fence} : Paging.Pending /\ Paging.Context = c}
    \cup {fence \in {RenderPacket.Fence} :
            RenderPacket.State \in {"Queued", "Active"} /\ RenderPacket.Context = c}
    \cup {entry.Fence : entry \in {q \in PendingDropped : q.Context = c}}
    \cup {loc[t].Job : t \in {u \in Threads :
            /\ loc[u].Context = c
            /\ \E label \in {"PendingPublish", "QueuePacket", "Report", "Retire",
                             "ResetRetire"} : At(u, label)}}

\* A render waits in the slot, or runs, ahead of an older CPU packet of its own
\* context that is not retired yet: the work item that outlived a preemption
\* binds the head of the fence queue without a look at the CPU executor.
Overtaking ==
    /\ RenderPacket.State \in {"Queued", "Active"}
    /\ Paging.Pending /\ Paging.Context = RenderPacket.Context
    /\ Oldest(RenderPacket.Context) = Paging.Fence

\* A context's outstanding fences are exactly those of its live packets, oldest
\* first: no preempt, drop, reset or completion releases a context twice, too
\* early or not at all.  A render in the slot is its context's oldest, which
\* completion and preemption insist on (a preemption that finds it is not
\* faults the adapter and leaves the context held), unless it overtakes the one
\* CPU packet that is being executed.
ContextsCoherent ==
    ~SchedulerFaulted =>
        /\ \A c \in Contexts :
             /\ Entries(Outstanding[c]) = Holders(c)
             /\ Len(Outstanding[c]) = 2 => Outstanding[c][1] < Outstanding[c][2]
        /\ RenderPacket.State \in {"Queued", "Active"} =>
             Oldest(RenderPacket.Context) = RenderPacket.Fence \/ Overtaking

\* Every fence the scheduler holds queued has exactly one packet in the CPU
\* queue, the render slot or the pending ring, and every such packet a fence:
\* otherwise the head of the queue could never be dispatched.
QueueCoherent ==
    ~SchedulerFaulted =>
        LET live == {entry \in PendingDropped : TRUE}
            slot == {fence \in {RenderPacket.Fence} : RenderPacket.State = "Queued"}
        IN  /\ Entries(FenceQueue) = {packet.Fence : packet \in Entries(CpuQueue)}
                                       \cup {entry.Fence : entry \in live} \cup slot
            /\ Len(FenceQueue) = Len(CpuQueue) + Cardinality(live) + Cardinality(slot)

\* The events teardown and reset wait for tell the truth: PagingIdle is set
\* exactly when the CPU executor is quiet, and WorkIdle only when no render
\* work item is queued or running, a leaving one included.
IdleAccurate ==
    /\ PagingIdle = PagingQuiet
    /\ Platform.WorkIdle =>
         ~Platform.WorkQueued /\ \A r \in RenderWorkers : ~Running(r)

\* Nothing runs and nothing is going to run by itself.
Quiescent ==
    /\ \A t \in Threads : ~Running(t)
    /\ ~DpcQueued /\ ~Paging.WorkQueued /\ ~Platform.WorkQueued

\* Everyone who reserves the engine gives it back: at rest no reservation and
\* no active fence is left behind, but those of a failed CPU packet.
EngineReleased ==
    Quiescent /\ ~SchedulerFaulted
        => DispatchedFence \in {NoFence, FailedFence}
             /\ ActiveFence \in {NoFence, FailedFence}

\* At worst the wakeup of a render is lost, never that of a CPU packet, which
\* needs no second executor to give its reservation up: whatever is left
\* waiting at rest has a render at its head, and an idle engine.
OnlyRenderLost ==
    Quiescent /\ ~SchedulerFaulted /\ Preemption.Phase = Sched!Idle
              /\ ActiveFence = NoFence /\ FenceQueue # <<>>
        => ~CpuHead /\ RenderHead /\ Dispatchable

\* With hardware and binding that do not fail, only three races fault the
\* adapter: a worker that outlived the preemption of its job meets a packet that
\* is still being prepared or a notification being delivered; or Windows, told of
\* a preemption, preempts again before the driver commits the last one; or that
\* worker's next render is completed or preempted while it overtakes a CPU
\* packet of the same context.
OnlyRacesFault ==
    [][SchedulerFaulted' # SchedulerFaulted =>
         \/ \E r \in RenderWorkers :
              /\ At(r, "Activate")
              /\ RenderPacket.State = "Prepared" \/ Sched!DispatchBlocked
         \/ /\ Preempting' # Preempting
            /\ \E t \in Threads : At(t, "Commit")
         \/ Overtaking]_vars

\* The adapter drives the scheduler only through calls the scheduler accepts:
\* this specification implements AgxScheduler.
SchedulerRefined == Sched!Spec

\* A preemption is answered.
PreemptionAnswered ==
    (Preempting = "Waiting") ~> (Preempting # "Waiting" \/ SchedulerFaulted)
=============================================================================
