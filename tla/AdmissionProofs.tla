--------------------------- MODULE AdmissionProofs --------------------------
(***************************************************************************)
(* Proofs about AdmissionDispatch, for any sets of workers, contexts and   *)
(* preemption fences and any bounds: the adapter drives the fence          *)
(* scheduler only through calls it accepts (the specification implements   *)
(* AgxScheduler), the active fence has one owner, the events that teardown *)
(* and reset wait for tell the truth, and a preemption is answered once as *)
(* long as the engine is not reset.                                        *)
(*                                                                         *)
(* One lemma per action shows that it keeps the inductive invariant of     *)
(* AdmissionInvariant and calls the scheduler at most once; each has a     *)
(* step per part of the invariant that the action can disturb.             *)
(***************************************************************************)
EXTENDS AdmissionInvariant

-----------------------------------------------------------------------------
(* AdmissionDispatchQueuedWork.                                            *)

\* A faulted adapter dispatches nothing.
LEMMA DispatchCheckStep ==
    ASSUME IInv, NEW t \in Threads, DispatchCheck(t)
    PROVE  IInv' /\ SchedulerCall
<1>1. pc[t] # <<>> /\ Head(pc[t]) = "Dispatch" /\ Controlled(pc)
    BY DEF DispatchCheck, At, IInv, Control
<1>2. Moved(pc, pc', t) /\ Top(pc'[t]) \notin SubmitLabels
  <2>1. CASE SchedulerFaulted
    <3>1. pc' = [pc EXCEPT ![t] = Tail(pc[t])] /\ "Dispatch" \in DispatchFrame
      BY <2>1 DEF DispatchCheck, Return, DispatchFrame, DispatchLabels
    <3> QED BY <1>1, <3>1, ReturnPlain
  <2>2. CASE ~SchedulerFaulted
    <3>1. pc' = [pc EXCEPT ![t] = <<"Reserve">> \o Tail(pc[t])]
      BY <2>2 DEF DispatchCheck, Goto
    <3>2. Moved(pc, pc', t) /\ Top(pc'[t]) = "Reserve"
      BY <1>1, <3>1, GotoPlain, Jumps, PlainJumps
    <3> QED BY <3>2 DEF SubmitLabels
  <2> QED BY <2>1, <2>2
<1>3. Relocated(loc, loc', t)
    BY LocalFacts DEF DispatchCheck, IInv
<1> QED BY <1>2, <1>3, MovedStep DEF DispatchCheck, cpuVars, renderVars, osVars

\* The packet at the head of the CPU queue becomes the active fence and a
\* queued work item in one lock hold, so CpuOwns starts to hold exactly when
\* the fence becomes active.
LEMMA DispatchCpuStep ==
    ASSUME IInv, NEW t \in Threads, DispatchCpu(t)
    PROVE  IInv' /\ SchedulerCall
<1>1. /\ Controlled(pc) /\ pc[t] # <<>> /\ Head(pc[t]) = "Reserve"
      /\ pc' = [pc EXCEPT ![t] = Tail(pc[t])]
    BY DEF DispatchCpu, At, Return, IInv, Control
<1>2. Moved(pc, pc', t) /\ Top(pc'[t]) \notin SubmitLabels
    BY <1>1, ReturnPlain DEF DispatchFrame, DispatchLabels
<1>3. /\ ~Paging.Pending /\ ActiveFence = NoFence /\ CpuQueue # <<>>
      /\ CpuQueue' = Tail(CpuQueue) /\ PagingIdle' = PagingIdle
      /\ Paging' = [Paging EXCEPT !.Pending = TRUE, !.Fence = QueuedFence,
                                  !.Context = Head(CpuQueue).Context,
                                  !.WorkQueued = TRUE]
      /\ loc' = [loc EXCEPT ![t].Fence = NoFence, ![t].Attempt = 0]
      /\ UNCHANGED <<RenderPacket, G4Pending, Platform, Preempting, Used>>
    BY DEF DispatchCpu, Dispatchable, CpuHead, renderVars, osVars
<1>4. Sched!ActivateFence(QueuedFence)
    BY DEF DispatchCpu
<1>5. SchedulerCall /\ SchedTyped'
    BY <1>4, CallTyped DEF IInv, SchedTyped, SchedulerCall
<1>6. ActiveFence' = QueuedFence /\ QueuedFence # NoFence /\ Preemption' = Preemption
    BY <1>4 DEF Sched!ActivateFence, Sched!SchedActivateFence, Sched!MayActivateFence,
                Sched!NoFence, NoFence
<1>7. Relocated(loc, loc', t)
    BY <1>3, LocalFacts DEF IInv
<1>8. /\ DOMAIN Paging' = PagingFields /\ Paging'.Pending = TRUE /\ Paging'.WorkQueued = TRUE
      /\ Paging'.Fence = QueuedFence /\ Paging'.DpcPending = Paging.DpcPending
      /\ Paging'.Ok = Paging.Ok
    BY <1>3 DEF IInv, Records, PagingFields
<1>9. Records'
  <2>1. CpuQueue' \in Seq(CpuPacketType)
    BY <1>3 DEF IInv, Records
  <2>2. DOMAIN loc' = Threads /\ \A u \in Threads : DOMAIN loc'[u] = LocalFields
    BY <1>7 DEF IInv, Records, Relocated
  <2>3. Lab(V)' \in SubmitLabels => loc'[V].Job \in 1 .. MaxFence /\ loc'[V].Context \in Contexts
    BY <1>2, <1>7, ThreadFacts DEF IInv, Records, Lab, Moved, Relocated
  <2> QED BY <1>3, <1>8, <2>1, <2>2, <2>3 DEF IInv, Records
<1>10. CpuInv'
  <2>1. SameCpuLabels(pc, pc')
    BY <1>1, <1>2, CpuLabels DEF Moved, Plain
  <2>2. PagingToken'
    BY <1>3, <1>8, <2>1
       DEF IInv, CpuInv, PagingToken, Executing, DpcTook, Lab, SameCpuLabels
  <2>3. PagingQuiet = FALSE
    BY <1>3 DEF PagingQuiet
  <2>4. PagingQuiet' = FALSE
    BY <1>8 DEF PagingQuiet
  <2> QED BY <1>3, <2>2, <2>3, <2>4 DEF IInv, CpuInv
<1>11. WorkInv'
    BY <1>2, <1>3, WorkPlain
<1>12. OwnInv'
  <2>1. ~CpuOwns /\ RenderPacket.State # "Active" /\ Platform.Phase # "Submitted"
    BY <1>3 DEF IInv, OwnInv
  <2>2. CpuOwns'
    BY <1>8 DEF CpuOwns
  <2>3. \A u \in RenderWorkers \cup {V} : Top(pc'[u]) \in OwnMarks => pc'[u] = pc[u]
    BY <1>2, ThreadFacts DEF Moved, Plain
  <2> QED BY <1>3, <1>6, <1>8, <2>1, <2>2, <2>3 DEF IInv, OwnInv, Lab, OwnMarks, HolderLabels
<1>13. DeliveryInv'
    BY <1>2, <1>3, <1>6, DeliveryPlain
<1> QED BY <1>2, <1>5, <1>9, <1>10, <1>11, <1>12, <1>13 DEF IInv, Control, Moved

\* Reserving the engine for a render changes nothing the invariant speaks of:
\* the fence becomes active only when the worker activates it.
LEMMA DispatchRenderStep ==
    ASSUME IInv, NEW t \in Threads, DispatchRender(t)
    PROVE  IInv' /\ SchedulerCall
<1>1. /\ Controlled(pc) /\ t \in Threads
      /\ pc[t] # <<>> /\ Head(pc[t]) = "Reserve"
      /\ pc' = [pc EXCEPT ![t] = <<"RuntimeSubmit">> \o Tail(pc[t])]
    BY DEF DispatchRender, At, Goto, IInv, Control
<1>2. Moved(pc, pc', t) /\ Top(pc'[t]) = "RuntimeSubmit"
    BY <1>1, GotoPlain, Jumps, PlainJumps
<1>3. Relocated(loc, loc', t)
    BY <1>1, LocalFacts DEF DispatchRender, IInv
<1> QED BY <1>1, <1>2, <1>3, MovedStep DEF DispatchRender, cpuVars, renderVars, osVars, SubmitLabels

\* Nothing to dispatch.
LEMMA DispatchNothingStep ==
    ASSUME IInv, NEW t \in Threads, DispatchNothing(t)
    PROVE  IInv' /\ SchedulerCall
<1>1. /\ Controlled(pc) /\ t \in Threads
      /\ pc[t] # <<>> /\ Head(pc[t]) = "Reserve"
      /\ pc' = [pc EXCEPT ![t] = Tail(pc[t])]
    BY DEF DispatchNothing, At, Return, IInv, Control
<1>2. Moved(pc, pc', t) /\ Top(pc'[t]) \notin SubmitLabels
    BY <1>1, ReturnPlain DEF DispatchFrame, DispatchLabels, NotifyLabels
<1>3. Relocated(loc, loc', t)
    BY <1>1, LocalFacts DEF DispatchNothing, IInv
<1> QED BY <1>1, <1>2, <1>3, MovedStep DEF DispatchNothing, cpuVars, renderVars, osVars

\* AdmissionPlatformRuntimeSubmit queues the work item only when none is
\* scheduled and no reset is quiescing.
LEMMA RuntimeSubmitStep ==
    ASSUME IInv, NEW t \in Threads, RuntimeSubmit(t)
    PROVE  IInv' /\ SchedulerCall
<1>1. Controlled(pc) /\ pc[t] # <<>> /\ Head(pc[t]) = "RuntimeSubmit"
    BY DEF RuntimeSubmit, At, IInv, Control
<1>2. UNCHANGED <<schedulerVars, cpuVars, RenderPacket, G4Pending, Preempting, Used>>
    BY DEF RuntimeSubmit, osVars
<1>3. CASE ~RuntimeReady
  <2>1. pc' = [pc EXCEPT ![t] = <<"Release">> \o Tail(pc[t])] /\ loc' = loc /\ Platform' = Platform
    BY <1>3 DEF RuntimeSubmit, Goto
  <2>2. Moved(pc, pc', t) /\ Top(pc'[t]) = "Release"
    BY <1>1, <2>1, GotoPlain, Jumps, PlainJumps
  <2>3. Relocated(loc, loc', t)
    BY <2>1, LocalFacts DEF IInv
  <2> QED BY <1>2, <2>1, <2>2, <2>3, MovedStep DEF SubmitLabels
<1>4. CASE RuntimeReady
  <2>1. /\ pc' = [pc EXCEPT ![t] = Tail(pc[t])]
        /\ loc' = [loc EXCEPT ![t].Fence = NoFence, ![t].Attempt = 0]
        /\ Platform' = [Platform EXCEPT !.WorkScheduled = TRUE, !.WorkQueued = TRUE,
                                        !.WorkIdle = FALSE]
    BY <1>4 DEF RuntimeSubmit, Return
  <2>2. Moved(pc, pc', t) /\ Top(pc'[t]) \notin SubmitLabels
    BY <1>1, <2>1, ReturnPlain DEF DispatchFrame, DispatchLabels
  <2>3. Relocated(loc, loc', t)
    BY <2>1, LocalFacts DEF IInv
  <2>4. /\ DOMAIN Platform' = PlatformFields
        /\ Platform'.WorkScheduled = TRUE /\ Platform'.WorkIdle = FALSE
        /\ Platform'.Resetting = Platform.Resetting /\ Platform'.Phase = Platform.Phase
    BY <2>1 DEF IInv, Records, PlatformFields
  <2>5. SchedulerCall /\ SchedTyped'
    BY <1>2, CallTyped DEF IInv, SchedulerCall
  <2>6. Records'
    <3>1. Move(pc, pc', t, Top(pc[t]), Top(pc'[t]))
      BY <2>2 DEF Moved, Move
    <3> QED BY <1>2, <2>2, <2>3, <2>4, <3>1, RecordsKept DEF IInv, Records, cpuVars
  <2>7. CpuInv'
    BY <1>2, <2>2, CpuPlain DEF cpuVars
  <2>8. WorkInv'
    <3>1. ~Platform.WorkScheduled /\ ~Platform.Resetting
      BY <1>4 DEF RuntimeReady
    <3>2. \A r \in RenderWorkers : Top(pc'[r]) \notin WorkingLabels
      <4>1. \A r \in RenderWorkers : Top(pc[r]) \notin WorkingLabels
        BY <3>1 DEF IInv, WorkInv, Lab
      <4> QED BY <2>2, <4>1, ThreadFacts DEF Moved, Plain
    <3>3. Top(pc'[V]) \notin PollingLabels /\ Top(pc'[V]) # "QuiesceWait"
      <4>1. Top(pc[V]) \notin PollingLabels /\ Top(pc[V]) # "QuiesceWait"
        BY <3>1 DEF IInv, WorkInv, Lab
      <4> QED BY <2>2, <4>1, ThreadFacts DEF Moved, Plain
    <3> QED BY <2>4, <3>2, <3>3 DEF WorkInv, Lab
  <2>9. OwnInv'
    <3>1. ActiveFence' = ActiveFence /\ Paging' = Paging
      BY <1>2 DEF schedulerVars, cpuVars
    <3> QED BY <1>2, <2>2, <2>3, <2>4, <3>1, OwnPlain DEF Relocated
  <2>10. DeliveryInv'
    <3>1. Preemption' = Preemption
      BY <1>2 DEF schedulerVars
    <3> QED BY <1>2, <2>2, <3>1, DeliveryPlain
  <2> QED BY <2>2, <2>5, <2>6, <2>7, <2>8, <2>9, <2>10 DEF IInv, Control, Moved
<1> QED BY <1>3, <1>4

\* The reservation is given back after a refusal ...
LEMMA DispatchReleaseStep ==
    ASSUME IInv, NEW t \in Threads, DispatchRelease(t)
    PROVE  IInv' /\ SchedulerCall
<1>1. /\ Controlled(pc) /\ t \in Threads
      /\ pc[t] # <<>> /\ Head(pc[t]) = "Release"
      /\ pc' = [pc EXCEPT ![t] = <<"Retry">> \o Tail(pc[t])]
    BY DEF DispatchRelease, At, Goto, IInv, Control
<1>2. Moved(pc, pc', t) /\ Top(pc'[t]) = "Retry"
    BY <1>1, GotoPlain, Jumps, PlainJumps
<1>3. Relocated(loc, loc', t)
    BY <1>1, LocalFacts DEF DispatchRelease, IInv
<1> QED BY <1>1, <1>2, <1>3, MovedStep DEF DispatchRelease, cpuVars, renderVars, osVars, SubmitLabels

\* ... and the dispatch is tried again.
LEMMA DispatchRetryStep ==
    ASSUME IInv, NEW t \in Threads, DispatchRetry(t)
    PROVE  IInv' /\ SchedulerCall
<1>1. Controlled(pc) /\ pc[t] # <<>> /\ Head(pc[t]) = "Retry"
    BY DEF DispatchRetry, At, IInv, Control
<1>2. Moved(pc, pc', t) /\ Top(pc'[t]) \notin SubmitLabels
  <2>1. CASE loc[t].Attempt = 0 /\ RuntimeReady
    <3>1. pc' = [pc EXCEPT ![t] = <<"Reserve">> \o Tail(pc[t])]
      BY <2>1 DEF DispatchRetry, Goto
    <3>2. Moved(pc, pc', t) /\ Top(pc'[t]) = "Reserve"
      BY <1>1, <3>1, GotoPlain, Jumps, PlainJumps
    <3> QED BY <3>2 DEF SubmitLabels
  <2>2. CASE ~(loc[t].Attempt = 0 /\ RuntimeReady)
    <3>1. pc' = [pc EXCEPT ![t] = Tail(pc[t])] /\ "Retry" \in DispatchFrame
      BY <2>2 DEF DispatchRetry, Return, DispatchFrame, DispatchLabels
    <3> QED BY <1>1, <3>1, ReturnPlain
  <2> QED BY <2>1, <2>2
<1>3. \/ loc' = [loc EXCEPT ![t].Attempt = 1]
      \/ loc' = [loc EXCEPT ![t].Fence = NoFence, ![t].Attempt = 0]
    BY DEF DispatchRetry
<1>4. Relocated(loc, loc', t)
  <2>1. CASE loc' = [loc EXCEPT ![t].Attempt = 1]
    BY <2>1, LocalFacts DEF IInv
  <2>2. CASE loc' = [loc EXCEPT ![t].Fence = NoFence, ![t].Attempt = 0]
    BY <2>2, LocalFacts DEF IInv
  <2> QED BY <1>3, <2>1, <2>2
<1> QED BY <1>2, <1>4, MovedStep DEF DispatchRetry, cpuVars, renderVars, osVars

-----------------------------------------------------------------------------
(* AdmissionTryNotifyPreemption.                                           *)

\* The notification is left to the render worker.
LEMMA TryNotifyDeferStep ==
    ASSUME IInv, NEW t \in Threads, TryNotifyDefer(t)
    PROVE  IInv' /\ SchedulerCall
<1>1. /\ Controlled(pc) /\ t \in Threads
      /\ pc[t] # <<>> /\ Head(pc[t]) = "TryNotify"
      /\ pc' = [pc EXCEPT ![t] = Tail(pc[t])]
    BY DEF TryNotifyDefer, At, Return, IInv, Control
<1>2. Moved(pc, pc', t) /\ Top(pc'[t]) \notin SubmitLabels
    BY <1>1, ReturnPlain DEF DispatchFrame, DispatchLabels, NotifyLabels
<1>3. Relocated(loc, loc', t)
    BY <1>1, LocalFacts DEF TryNotifyDefer, IInv
<1> QED BY <1>1, <1>2, <1>3, MovedStep DEF TryNotifyDefer, cpuVars, renderVars, osVars

\* The claim takes the scheduler out of ReadyToNotify, so without a reset no
\* second thread can be delivering.
LEMMA TryNotifyClaimStep ==
    ASSUME IInv, NEW t \in Threads, TryNotifyClaim(t)
    PROVE  IInv' /\ SchedulerCall
<1>1. /\ Controlled(pc) /\ pc[t] # <<>> /\ Head(pc[t]) = "TryNotify"
      /\ pc' = [pc EXCEPT ![t] = <<"NotifyPreemption">> \o Tail(pc[t])]
    BY DEF TryNotifyClaim, At, Goto, IInv, Control
<1>2. Move(pc, pc', t, "TryNotify", "NotifyPreemption")
    BY <1>1, GotoMoves, Jumps
<1>3. /\ loc' = [loc EXCEPT ![t].Preemption = Preemption.Fence,
                            ![t].LastCompleted = Preemption.LastCompleted]
      /\ Sched!ClaimBoundaryPreemption
      /\ UNCHANGED <<CpuQueue, Paging, PagingIdle, RenderPacket, G4Pending,
                     Platform, Preempting, Used>>
    BY DEF TryNotifyClaim, cpuVars, renderVars, osVars
<1>4. Relocated(loc, loc', t)
    BY <1>3, LocalFacts DEF IInv
<1>5. /\ Preemption.Phase = Sched!ReadyToNotify
      /\ Preemption'.Phase = Sched!NotificationClaimed /\ ActiveFence' = ActiveFence
    BY <1>3 DEF Sched!ClaimBoundaryPreemption, Sched!SchedClaimBoundaryPreemption,
                IInv, SchedTyped
<1>7. SchedulerCall /\ SchedTyped'
    BY <1>3, CallTyped DEF IInv, SchedulerCall
<1>9. Records'
    BY <1>2, <1>3, <1>4, RecordsKept DEF IInv, Records, SubmitLabels
<1>11. CpuInv'
    BY <1>2, <1>3, CpuKept DEF CpuMarks, PagingLabels
<1>12. WorkInv'
    BY <1>2, <1>3, WorkKept
       DEF WorkingLabels, PollingLabels, WorkLabels, CompleteLabels
<1>13. OwnInv'
    BY <1>2, <1>3, <1>4, <1>5, OwnKept DEF OwnMarks, HolderLabels, Relocated
<1>14. DeliveryInv'
  <2>1. Top(pc'[t]) = "NotifyPreemption" /\ \A u \in Threads \ {t} : pc'[u] = pc[u]
    BY <1>2 DEF Move
  <2> QED BY <1>3, <1>5, <2>1, ThreadFacts
          DEF IInv, DeliveryInv, Lab, DeliveryLabels, ResettingLabels, QuiesceLabels,
              ResetLabels, CompleteLabels, Sched!WaitCurrentBoundary,
              Sched!ReadyToNotify, Sched!NotificationClaimed
<1> QED BY <1>2, <1>7, <1>9, <1>11, <1>12, <1>13, <1>14 DEF IInv, Control, Move

\* DMA_PREEMPTED: Windows was waiting for it.
LEMMA NotifyPreemptionStep ==
    ASSUME IInv, NEW t \in Threads, NotifyPreemption(t)
    PROVE  IInv' /\ SchedulerCall
<1>1. /\ Controlled(pc) /\ pc[t] # <<>> /\ Head(pc[t]) = "NotifyPreemption"
      /\ pc' = [pc EXCEPT ![t] = <<"Commit">> \o Tail(pc[t])]
    BY DEF NotifyPreemption, At, Goto, IInv, Control
<1>2. Move(pc, pc', t, "NotifyPreemption", "Commit")
    BY <1>1, GotoMoves, Jumps
<1>3. UNCHANGED <<schedulerVars, CpuQueue, Paging, PagingIdle, RenderPacket, G4Pending,
                  Platform, Used, loc>>
    BY DEF NotifyPreemption, cpuVars, renderVars
<1>4. Relocated(loc, loc', t)
    BY <1>3, LocalFacts DEF IInv
<1>5. Preemption' = Preemption /\ ActiveFence' = ActiveFence
    BY <1>3 DEF schedulerVars
<1>7. SchedulerCall /\ SchedTyped'
    BY <1>3, CallTyped DEF IInv, SchedulerCall
<1>9. Records'
    BY <1>2, <1>3, <1>4, RecordsKept DEF IInv, Records, SubmitLabels
<1>11. CpuInv'
    BY <1>2, <1>3, CpuKept DEF CpuMarks, PagingLabels
<1>12. WorkInv'
    BY <1>2, <1>3, WorkKept
       DEF WorkingLabels, PollingLabels, WorkLabels, CompleteLabels
<1>13. OwnInv'
    BY <1>2, <1>3, <1>4, <1>5, OwnKept DEF OwnMarks, HolderLabels, Relocated
<1>14. DeliveryInv'
  <2>1. /\ Top(pc[t]) = "NotifyPreemption" /\ Top(pc'[t]) = "Commit"
        /\ \A u \in Threads \ {t} : pc'[u] = pc[u]
    BY <1>2 DEF Move
  <2> QED BY <1>3, <1>5, <2>1, ThreadFacts
          DEF IInv, DeliveryInv, Lab, DeliveryLabels, ResettingLabels, QuiesceLabels,
              ResetLabels, CompleteLabels, Sched!WaitCurrentBoundary,
              Sched!ReadyToNotify, Sched!NotificationClaimed
<1> QED BY <1>2, <1>7, <1>9, <1>11, <1>12, <1>13, <1>14 DEF IInv, Control, Move

\* The commit ends the delivery.
LEMMA CommitNotificationStep ==
    ASSUME IInv, NEW t \in Threads, CommitNotification(t)
    PROVE  IInv' /\ SchedulerCall
<1>1. /\ Controlled(pc) /\ pc[t] # <<>> /\ Head(pc[t]) = "Commit"
    BY DEF CommitNotification, At, IInv, Control
<1>2. /\ loc' = [loc EXCEPT ![t].Preemption = NoFence, ![t].LastCompleted = NoFence]
      /\ UNCHANGED <<cpuVars, RenderPacket, G4Pending, Platform, Preempting, Used>>
    BY DEF CommitNotification, renderVars, osVars
<1>3. Relocated(loc, loc', t)
    BY <1>2, LocalFacts DEF IInv
<1>4. CASE UNCHANGED schedulerVars /\ pc' = [pc EXCEPT ![t] = Tail(pc[t])]
  <2>1. Moved(pc, pc', t) /\ Top(pc'[t]) \notin SubmitLabels
    BY <1>1, <1>4, ReturnPlain DEF DispatchFrame, NotifyLabels
  <2> QED BY <1>2, <1>3, <1>4, <2>1, MovedStep
<1>5. CASE /\ Sched!CommitBoundaryPreemption(loc[t].Preemption)
           /\ pc' = [pc EXCEPT ![t] = <<"Dispatch">> \o Tail(pc[t])]
  <2>1. Move(pc, pc', t, "Commit", "Dispatch")
    BY <1>1, <1>5, GotoMoves, Jumps
  <2>2. /\ Preemption.Phase = Sched!NotificationClaimed /\ Preemption.Fence = loc[t].Preemption
        /\ Preemption' = Sched!NoPreemption /\ ActiveFence' = ActiveFence
    BY <1>5 DEF Sched!CommitBoundaryPreemption, Sched!SchedCommitBoundaryPreemption,
                Sched!MayCommitBoundaryPreemption
  <2>3. loc[t].Preemption \in PreemptionFences
    BY <2>2 DEF IInv, SchedTyped, Sched!NotificationClaimed, Sched!Idle
  <2>4. SchedulerCall /\ SchedTyped'
    BY <1>5, <2>3, CallTyped DEF IInv, SchedulerCall
  <2>5. Records'
    BY <1>2, <1>3, <2>1, RecordsKept DEF IInv, Records, SubmitLabels, cpuVars
  <2>6. CpuInv'
    BY <1>2, <2>1, CpuKept DEF CpuMarks, PagingLabels, cpuVars
  <2>7. WorkInv'
    BY <1>2, <2>1, WorkKept
       DEF WorkingLabels, PollingLabels, WorkLabels, CompleteLabels
  <2>8. OwnInv'
    BY <1>2, <1>3, <2>1, <2>2, OwnKept
       DEF OwnMarks, HolderLabels, Relocated, cpuVars
  <2>9. DeliveryInv'
    <3>1. /\ Top(pc[t]) = "Commit" /\ Top(pc'[t]) = "Dispatch"
          /\ \A u \in Threads \ {t} : pc'[u] = pc[u]
      BY <2>1 DEF Move
    <3>2. Preemption'.Phase = Sched!Idle
      BY <2>2 DEF Sched!NoPreemption
    <3> QED BY <1>2, <3>1, <3>2, ThreadFacts
            DEF IInv, DeliveryInv, Lab, DeliveryLabels, ResettingLabels, QuiesceLabels,
                ResetLabels, CompleteLabels, Sched!WaitCurrentBoundary,
                Sched!ReadyToNotify, Sched!Idle
  <2> QED BY <2>1, <2>4, <2>5, <2>6, <2>7, <2>8, <2>9 DEF IInv, Control, Move
<1> QED BY <1>4, <1>5 DEF CommitNotification, Goto, Return

-----------------------------------------------------------------------------
(* The CPU executor.                                                       *)

\* The work item is taken off the queue by one worker.
LEMMA PagingWorkerStartStep ==
    ASSUME IInv, NEW p \in PagingWorkers, PagingWorkerStart(p)
    PROVE  IInv' /\ SchedulerCall
<1>1. /\ Controlled(pc) /\ p \in Threads /\ p \notin RenderWorkers /\ p # V /\ p # D
      /\ pc[p] = <<>> /\ pc' = [pc EXCEPT ![p] = <<"PagingRun">>]
    BY ThreadFacts DEF PagingWorkerStart, Enter, Running, IInv, Control
<1>2. Move(pc, pc', p, "", "PagingRun")
    BY <1>1, Entered, EnterMoves DEF PagingLabels
<1>3. /\ Paging.WorkQueued
      /\ Paging' = [Paging EXCEPT !.WorkQueued = FALSE]
      /\ UNCHANGED <<schedulerVars, CpuQueue, PagingIdle, RenderPacket, G4Pending,
                     Platform, Preempting, Used, loc>>
    BY DEF PagingWorkerStart, renderVars, osVars
<1>4. /\ DOMAIN Paging' = PagingFields /\ Paging'.Pending = Paging.Pending
      /\ Paging'.WorkQueued = FALSE /\ Paging'.DpcPending = Paging.DpcPending
      /\ Paging'.Fence = Paging.Fence /\ Paging'.Ok = Paging.Ok
    BY <1>3 DEF IInv, Records, PagingFields
<1>5. SchedulerCall /\ SchedTyped'
    BY <1>3, CallTyped DEF IInv, SchedulerCall
<1>6. Records'
    BY <1>1, <1>2, <1>3, <1>4, RecordsKept, LocalFacts DEF IInv, Records
<1>7. CpuInv'
  <2>1. Paging.Pending /\ ~Paging.DpcPending /\ ~DpcTook
        /\ \A q \in PagingWorkers : ~Executing(q)
    BY <1>3 DEF IInv, CpuInv, PagingToken
  <2>2. pc'[D] = pc[D] /\ \A q \in PagingWorkers \ {p} : pc'[q] = pc[q]
    BY <1>1, <1>2, ThreadFacts DEF Move
  <2>3. PagingToken'
    BY <1>4, <2>1, <2>2 DEF PagingToken, Executing, DpcTook, Lab
  <2> QED BY <1>3, <1>4, <2>1, <2>3, BusyKept
<1>8. WorkInv'
    BY <1>1, <1>2, <1>3, WorkKept
<1>9. OwnInv'
  <2>1. CpuOwns /\ CpuOwns'
    BY <1>2, <1>3 DEF CpuOwns, Lab, Move
  <2>2. \A u \in RenderWorkers \cup {V} : pc'[u] = pc[u]
    BY <1>1, <1>2, ThreadFacts DEF Move
  <2> QED BY <1>3, <1>4, <2>1, <2>2 DEF IInv, OwnInv, Lab, schedulerVars
<1>10. DeliveryInv'
  <2>1. Preemption' = Preemption
    BY <1>3 DEF schedulerVars
  <2>2. "PagingRun" \notin DeliveryLabels
    BY DEF DeliveryLabels
  <2> QED BY <1>1, <1>2, <1>3, <2>1, <2>2, DeliveryKept
<1> QED BY <1>2, <1>5, <1>6, <1>7, <1>8, <1>9, <1>10 DEF IInv, Control, Move

\* A worker that is done with its packet executes it no longer.
LEMMA PagingFinished ==
    ASSUME IInv, NEW p \in PagingWorkers, Lab(p) = "PagingRun"
    PROVE  /\ Paging.Pending /\ ~Paging.WorkQueued /\ ~Paging.DpcPending /\ ~DpcTook
           /\ \A q \in PagingWorkers \ {p} : ~Executing(q)
           /\ Paging.Fence = ActiveFence /\ ActiveFence # NoFence
           /\ RenderPacket.State # "Active" /\ Platform.Phase # "Submitted"
<1>1. Executing(p) /\ CpuOwns
    BY DEF Executing, CpuOwns
<1> QED BY <1>1 DEF IInv, CpuInv, PagingToken, OwnInv

\* The CPU executor gives the fence back when it records the completion; a
\* refused one leaves the fence to the failed packet.
LEMMA PagingRecordCompletionStep ==
    ASSUME IInv, NEW p \in PagingWorkers, PagingRecordCompletion(p)
    PROVE  IInv' /\ SchedulerCall
<1>1. /\ Controlled(pc) /\ p \in Threads /\ p \notin RenderWorkers /\ p # V /\ p # D
      /\ pc[p] # <<>> /\ Head(pc[p]) = "PagingRun"
      /\ pc' = [pc EXCEPT ![p] = <<"PagingNotify">> \o Tail(pc[p])]
    BY ThreadFacts DEF PagingRecordCompletion, At, Goto, IInv, Control
<1>2. Move(pc, pc', p, "PagingRun", "PagingNotify")
    BY <1>1, GotoMoves, Jumps
<1>3. UNCHANGED <<CpuQueue, PagingIdle, RenderPacket, G4Pending, Platform, Preempting, Used, loc>>
    BY DEF PagingRecordCompletion, renderVars, osVars
<1>4. /\ Paging.Pending /\ ~Paging.WorkQueued /\ ~Paging.DpcPending /\ ~DpcTook
      /\ \A q \in PagingWorkers \ {p} : ~Executing(q)
      /\ Paging.Fence = ActiveFence /\ ActiveFence # NoFence
      /\ RenderPacket.State # "Active" /\ Platform.Phase # "Submitted"
    BY <1>2, PagingFinished DEF Lab, Move
<1>5. /\ \/ Sched!RecordCompletion(Paging.Fence) /\ Paging' = [Paging EXCEPT !.Ok = TRUE]
         \/ UNCHANGED schedulerVars /\ Paging' = [Paging EXCEPT !.Ok = FALSE]
    BY DEF PagingRecordCompletion
<1>6. /\ DOMAIN Paging' = PagingFields /\ Paging'.Pending = Paging.Pending
      /\ Paging'.WorkQueued = Paging.WorkQueued /\ Paging'.DpcPending = Paging.DpcPending
      /\ Paging'.Fence = Paging.Fence
      /\ UNCHANGED schedulerVars => Paging'.Ok = FALSE \/ Sched!RecordCompletion(Paging.Fence)
    BY <1>5 DEF IInv, Records, PagingFields
<1>7. SchedulerCall /\ SchedTyped'
    BY <1>4, <1>5, CallTyped DEF IInv, SchedulerCall, SchedTyped
<1>8. \/ /\ ActiveFence' = NoFence
         /\ Preemption' = Preemption \/ /\ Preemption.Phase = Sched!WaitCurrentBoundary
                                        /\ Preemption'.Phase = Sched!ReadyToNotify
      \/ ActiveFence' = ActiveFence /\ Preemption' = Preemption /\ Paging'.Ok = FALSE
  <2>1. CASE Sched!RecordCompletion(Paging.Fence)
    BY <2>1 DEF Sched!RecordCompletion, Sched!SchedRecordCompletion, Sched!BoundaryObserved,
                IInv, SchedTyped, NoFence, Sched!NoFence
  <2>2. CASE UNCHANGED schedulerVars /\ Paging' = [Paging EXCEPT !.Ok = FALSE]
    BY <2>2 DEF schedulerVars, IInv, Records, PagingFields
  <2> QED BY <1>5, <2>1, <2>2
<1>9. Records'
    BY <1>1, <1>2, <1>3, <1>6, RecordsKept, LocalFacts DEF IInv, Records
<1>10. pc'[D] = pc[D] /\ \A q \in Threads \ {p} : pc'[q] = pc[q]
    BY <1>1, <1>2, ThreadFacts DEF Move
<1>11. CpuInv'
  <2>1. PagingToken'
    BY <1>4, <1>6, <1>10, ThreadFacts DEF PagingToken, Executing, DpcTook, Lab
  <2> QED BY <1>3, <1>4, <1>6, <2>1, BusyKept
<1>12. WorkInv'
    BY <1>1, <1>2, <1>3, WorkKept
<1>13. OwnInv'
  <2>1. ~CpuOwns'
    BY <1>2, <1>4, <1>6, <1>10, ThreadFacts DEF CpuOwns, Lab, Move, Executing
  <2>2. \A u \in RenderWorkers \cup {V} : pc'[u] = pc[u]
    BY <1>1, <1>10, ThreadFacts
  <2> QED BY <1>3, <1>4, <1>6, <1>8, <2>1, <2>2 DEF IInv, OwnInv, Lab
<1>14. DeliveryInv'
    BY <1>2, <1>3, <1>8, <1>10, ThreadFacts
       DEF IInv, DeliveryInv, Lab, DeliveryLabels, Move, Sched!WaitCurrentBoundary,
           Sched!ReadyToNotify, Sched!NotificationClaimed
<1> QED BY <1>2, <1>7, <1>9, <1>11, <1>12, <1>13, <1>14 DEF IInv, Control, Move

\* A packet that failed keeps the fence.
LEMMA PagingFailStep ==
    ASSUME IInv, NEW p \in PagingWorkers, PagingFail(p)
    PROVE  IInv' /\ SchedulerCall
<1>1. /\ Controlled(pc) /\ p \in Threads /\ p \notin RenderWorkers /\ p # V /\ p # D
      /\ pc[p] # <<>> /\ Head(pc[p]) = "PagingRun"
      /\ pc' = [pc EXCEPT ![p] = <<"PagingNotify">> \o Tail(pc[p])]
    BY ThreadFacts DEF PagingFail, At, Goto, IInv, Control
<1>2. Move(pc, pc', p, "PagingRun", "PagingNotify")
    BY <1>1, GotoMoves, Jumps
<1>3. /\ Paging' = [Paging EXCEPT !.Ok = FALSE]
      /\ UNCHANGED <<schedulerVars, CpuQueue, PagingIdle, RenderPacket, G4Pending,
                     Platform, Preempting, Used, loc>>
    BY DEF PagingFail, renderVars, osVars
<1>4. /\ Paging.Pending /\ ~Paging.WorkQueued /\ ~Paging.DpcPending /\ ~DpcTook
      /\ \A q \in PagingWorkers \ {p} : ~Executing(q)
      /\ Paging.Fence = ActiveFence /\ ActiveFence # NoFence
      /\ RenderPacket.State # "Active" /\ Platform.Phase # "Submitted"
    BY <1>2, PagingFinished DEF Lab, Move
<1>6. /\ DOMAIN Paging' = PagingFields /\ Paging'.Pending = Paging.Pending
      /\ Paging'.WorkQueued = Paging.WorkQueued /\ Paging'.DpcPending = Paging.DpcPending
      /\ Paging'.Fence = Paging.Fence /\ Paging'.Ok = FALSE
    BY <1>3 DEF IInv, Records, PagingFields
<1>7. SchedulerCall /\ SchedTyped'
    BY <1>3, CallTyped DEF IInv, SchedulerCall
<1>9. Records'
    BY <1>1, <1>2, <1>3, <1>6, RecordsKept, LocalFacts DEF IInv, Records
<1>10. pc'[D] = pc[D] /\ \A q \in Threads \ {p} : pc'[q] = pc[q]
    BY <1>1, <1>2, ThreadFacts DEF Move
<1>11. CpuInv'
  <2>1. PagingToken'
    BY <1>4, <1>6, <1>10, ThreadFacts DEF PagingToken, Executing, DpcTook, Lab
  <2> QED BY <1>3, <1>4, <1>6, <2>1, BusyKept
<1>12. WorkInv'
    BY <1>1, <1>2, <1>3, WorkKept
<1>13. OwnInv'
  <2>1. ~CpuOwns'
    BY <1>2, <1>4, <1>6, <1>10, ThreadFacts DEF CpuOwns, Lab, Move, Executing
  <2>2. \A u \in RenderWorkers \cup {V} : pc'[u] = pc[u]
    BY <1>1, <1>10, ThreadFacts
  <2> QED BY <1>3, <1>4, <1>6, <2>1, <2>2 DEF IInv, OwnInv, Lab, schedulerVars
<1>14. DeliveryInv'
  <2>1. Preemption' = Preemption
    BY <1>3 DEF schedulerVars
  <2>2. "PagingNotify" \notin DeliveryLabels
    BY DEF DeliveryLabels
  <2> QED BY <1>1, <1>2, <1>3, <2>1, <2>2, DeliveryKept
<1> QED BY <1>2, <1>7, <1>9, <1>11, <1>12, <1>13, <1>14 DEF IInv, Control, Move

\* The completion is handed to the DPC.
LEMMA PagingNotifyStep ==
    ASSUME IInv, NEW p \in PagingWorkers, PagingNotify(p)
    PROVE  IInv' /\ SchedulerCall
<1>1. /\ Controlled(pc) /\ p \in Threads /\ p \notin RenderWorkers /\ p # V /\ p # D
      /\ pc[p] # <<>> /\ Head(pc[p]) = "PagingNotify"
      /\ pc' = [pc EXCEPT ![p] = <<"PagingLeave">> \o Tail(pc[p])]
    BY ThreadFacts DEF PagingNotify, At, Goto, IInv, Control
<1>2. Move(pc, pc', p, "PagingNotify", "PagingLeave")
    BY <1>1, GotoMoves, Jumps
<1>3. /\ Paging' = [Paging EXCEPT !.DpcPending = TRUE]
      /\ UNCHANGED <<schedulerVars, CpuQueue, PagingIdle, RenderPacket, G4Pending,
                     Platform, Preempting, Used, loc>>
    BY DEF PagingNotify, renderVars, osVars
<1>4. /\ Paging.Pending /\ ~Paging.WorkQueued /\ ~Paging.DpcPending /\ ~DpcTook
      /\ \A q \in PagingWorkers \ {p} : ~Executing(q)
  <2>1. Executing(p)
    BY <1>2 DEF Executing, Lab, Move
  <2> QED BY <2>1 DEF IInv, CpuInv, PagingToken
<1>6. /\ DOMAIN Paging' = PagingFields /\ Paging'.Pending = Paging.Pending
      /\ Paging'.WorkQueued = Paging.WorkQueued /\ Paging'.DpcPending = TRUE
      /\ Paging'.Fence = Paging.Fence /\ Paging'.Ok = Paging.Ok
    BY <1>3 DEF IInv, Records, PagingFields
<1>7. SchedulerCall /\ SchedTyped'
    BY <1>3, CallTyped DEF IInv, SchedulerCall
<1>9. Records'
    BY <1>1, <1>2, <1>3, <1>6, RecordsKept, LocalFacts DEF IInv, Records
<1>10. pc'[D] = pc[D] /\ \A q \in Threads \ {p} : pc'[q] = pc[q]
    BY <1>1, <1>2, ThreadFacts DEF Move
<1>11. CpuInv'
  <2>1. PagingToken'
    BY <1>2, <1>4, <1>6, <1>10, ThreadFacts
       DEF PagingToken, Executing, DpcTook, Lab, Move
  <2> QED BY <1>3, <1>4, <1>6, <2>1, BusyKept
<1>12. WorkInv'
    BY <1>1, <1>2, <1>3, WorkKept
<1>13. OwnInv'
    BY <1>1, <1>2, <1>3, <1>6, OwnKept
       DEF OwnMarks, HolderLabels, schedulerVars
<1>14. DeliveryInv'
  <2>1. Preemption' = Preemption
    BY <1>3 DEF schedulerVars
  <2>2. "PagingLeave" \notin DeliveryLabels
    BY DEF DeliveryLabels
  <2> QED BY <1>1, <1>2, <1>3, <2>1, <2>2, DeliveryKept
<1> QED BY <1>2, <1>7, <1>9, <1>11, <1>12, <1>13, <1>14 DEF IInv, Control, Move

\* The leaving worker updates PagingIdle under the lock.
LEMMA PagingWorkerLeaveStep ==
    ASSUME IInv, NEW p \in PagingWorkers, PagingWorkerLeave(p)
    PROVE  IInv' /\ SchedulerCall
<1>1. /\ Controlled(pc) /\ p \in Threads /\ p \notin RenderWorkers /\ p # V /\ p # D
      /\ pc[p] # <<>> /\ Head(pc[p]) = "PagingLeave"
      /\ pc' = [pc EXCEPT ![p] = Tail(pc[p])]
    BY ThreadFacts DEF PagingWorkerLeave, At, Return, IInv, Control
<1>2. Move(pc, pc', p, "PagingLeave", Top(pc'[p])) /\ Popped(p, "PagingLeave", Top(pc'[p]))
    BY <1>1, ReturnMoves
<1>2a. Top(pc'[p]) = ""
    BY <1>2 DEF Popped, PagingLabels
<1>2b. Move(pc, pc', p, "PagingLeave", "")
    BY <1>2, <1>2a
<1>3. /\ PagingIdle' = PagingQuiet'
      /\ UNCHANGED <<schedulerVars, CpuQueue, Paging, RenderPacket, G4Pending,
                     Platform, Preempting, Used, loc>>
    BY DEF PagingWorkerLeave, renderVars, osVars
<1>7. SchedulerCall /\ SchedTyped'
    BY <1>3, CallTyped DEF IInv, SchedulerCall
<1>9. Records'
    BY <1>1, <1>2b, <1>3, RecordsKept, LocalFacts DEF IInv, Records
<1>10. pc'[D] = pc[D] /\ \A q \in Threads \ {p} : pc'[q] = pc[q]
    BY <1>1, <1>2, ThreadFacts DEF Move
<1>11. CpuInv'
  <2>1. PagingToken'
    BY <1>2a, <1>3, <1>10, ThreadFacts
       DEF IInv, CpuInv, PagingToken, Executing, DpcTook, Lab
  <2> QED BY <1>3, <2>1 DEF CpuInv
<1>12. WorkInv'
    BY <1>1, <1>2b, <1>3, WorkKept
<1>13. OwnInv'
    BY <1>1, <1>2b, <1>3, OwnKept DEF OwnMarks, HolderLabels, schedulerVars
<1>14. DeliveryInv'
  <2>1. Preemption' = Preemption
    BY <1>3 DEF schedulerVars
  <2>2. "" \notin DeliveryLabels
    BY DEF DeliveryLabels
  <2> QED BY <1>1, <1>2b, <1>3, <2>1, <2>2, DeliveryKept
<1> QED BY <1>2, <1>7, <1>9, <1>11, <1>12, <1>13, <1>14 DEF IInv, Control, Move

-----------------------------------------------------------------------------
(* The DPC.                                                                *)

\* The DPC starts.
LEMMA DpcStartStep ==
    ASSUME IInv, DpcStart
    PROVE  IInv' /\ SchedulerCall
<1>1. /\ Controlled(pc) /\ D \in Threads /\ D \notin RenderWorkers
      /\ pc[D] = <<>> /\ pc' = [pc EXCEPT ![D] = <<"PagingDpc">>]
    BY ThreadFacts DEF DpcStart, Enter, Running, IInv, Control
<1>2. "PagingDpc" \in Label /\ "PagingDpc" # "" /\ "PagingDpc" \in DpcFrame
    BY DEF Label, DpcLabels, DpcFrame
<1>3. StackOK(D, <<"PagingDpc">>)
  <2>1. Frame(<<"PagingDpc">>, DpcFrame, <<>>)
    BY <1>2, Single DEF Frame
  <2> QED BY <2>1, ThreadFacts DEF StackOK
<1>4. Move(pc, pc', D, "", "PagingDpc")
    BY <1>1, <1>2, <1>3, EnterMoves
<1>5. Moved(pc, pc', D) /\ Top(pc'[D]) = "PagingDpc"
    BY <1>1, <1>4, PlainJumps DEF Move, Moved
<1>6. Relocated(loc, loc', D)
    BY <1>1, LocalFacts DEF DpcStart, IInv
<1> QED BY <1>1, <1>5, <1>6, MovedStep DEF DpcStart, cpuVars, renderVars, SubmitLabels

\* The DPC takes the completion, and with it the packet ...
LEMMA PagingDpcTakeStep ==
    ASSUME IInv, PagingDpcTake
    PROVE  IInv' /\ SchedulerCall
<1>1. /\ Controlled(pc) /\ D \in Threads /\ D \notin RenderWorkers /\ V # D /\ D \notin PagingWorkers
      /\ pc[D] # <<>> /\ Head(pc[D]) = "PagingDpc"
    BY ThreadFacts DEF PagingDpcTake, At, IInv, Control
<1>0. PICK to \in {"PagingDpcEnter", "NotifyDpc"} :
        /\ to = IF Paging.DpcPending THEN "PagingDpcEnter" ELSE "NotifyDpc"
        /\ pc' = [pc EXCEPT ![D] = <<to>> \o Tail(pc[D])]
    BY DEF PagingDpcTake, Goto
<1>2. Move(pc, pc', D, "PagingDpc", to)
    BY <1>0, <1>1, GotoMoves, Jumps
<1>3. /\ Paging' = [Paging EXCEPT !.DpcPending = FALSE]
      /\ UNCHANGED <<schedulerVars, CpuQueue, PagingIdle, RenderPacket, G4Pending,
                     Platform, Preempting, Used, loc>>
    BY DEF PagingDpcTake, renderVars, osVars
<1>6. /\ DOMAIN Paging' = PagingFields /\ Paging'.Pending = Paging.Pending
      /\ Paging'.WorkQueued = Paging.WorkQueued /\ Paging'.DpcPending = FALSE
      /\ Paging'.Fence = Paging.Fence /\ Paging'.Ok = Paging.Ok
    BY <1>3 DEF IInv, Records, PagingFields
<1>7. SchedulerCall /\ SchedTyped'
    BY <1>3, CallTyped DEF IInv, SchedulerCall
<1>9. Records'
    BY <1>1, <1>2, <1>3, <1>6, RecordsKept, LocalFacts DEF IInv, Records
<1>10. \A q \in PagingWorkers : pc'[q] = pc[q]
    BY <1>1, <1>2, ThreadFacts DEF Move
<1>11. CpuInv'
  <2>0. Top(pc[D]) = "PagingDpc" /\ Top(pc'[D]) = to
    BY <1>2 DEF Move
  <2>1. PagingToken'
    BY <1>0, <1>6, <1>10, <2>0
       DEF IInv, CpuInv, PagingToken, Executing, DpcTook, Lab
  <2>2. CASE Paging.DpcPending
    <3>1. Paging.Pending
      BY <2>2 DEF IInv, CpuInv, PagingToken
    <3> QED BY <1>3, <1>6, <2>1, <3>1, BusyKept
  <2>3. CASE ~Paging.DpcPending
    <3>1. ~PagingDpcsActive /\ ~PagingDpcsActive'
      BY <1>0, <2>0 DEF PagingDpcsActive, At, Top
    <3>2. PagingWorkersActive' = PagingWorkersActive
      BY <1>10 DEF PagingWorkersActive, Running
    <3>3. PagingQuiet' = PagingQuiet
      BY <1>3, <1>6, <2>3, <3>1, <3>2 DEF PagingQuiet
    <3> QED BY <1>3, <2>1, <3>3 DEF IInv, CpuInv
  <2> QED BY <2>2, <2>3
<1>12. WorkInv'
    BY <1>1, <1>2, <1>3, WorkKept
<1>13. OwnInv'
    BY <1>0, <1>1, <1>2, <1>3, <1>6, OwnKept
       DEF OwnMarks, HolderLabels, schedulerVars
<1>14. DeliveryInv'
  <2>1. Preemption' = Preemption
    BY <1>3 DEF schedulerVars
  <2>2. to \notin DeliveryLabels
    BY <1>0 DEF DeliveryLabels
  <2> QED BY <1>1, <1>2, <1>3, <2>1, <2>2, DeliveryKept
<1> QED BY <1>2, <1>7, <1>9, <1>11, <1>12, <1>13, <1>14 DEF IInv, Control, Move

\* ... counts itself ...
LEMMA PagingDpcEnterStep ==
    ASSUME IInv, PagingDpcEnter
    PROVE  IInv' /\ SchedulerCall
<1>1. /\ Controlled(pc) /\ D \in Threads /\ D \notin RenderWorkers /\ V # D /\ D \notin PagingWorkers
      /\ pc[D] # <<>> /\ Head(pc[D]) = "PagingDpcEnter"
      /\ pc' = [pc EXCEPT ![D] = <<"PagingDpcRetire">> \o Tail(pc[D])]
    BY ThreadFacts DEF PagingDpcEnter, At, Goto, IInv, Control
<1>2. Move(pc, pc', D, "PagingDpcEnter", "PagingDpcRetire")
    BY <1>1, GotoMoves, Jumps
<1>3. /\ Paging' = Paging /\ PagingIdle' = PagingIdle
      /\ UNCHANGED <<schedulerVars, CpuQueue, RenderPacket, G4Pending,
                     Platform, Preempting, Used, loc>>
    BY DEF PagingDpcEnter, cpuVars, renderVars, osVars
<1>6. /\ DOMAIN Paging' = PagingFields /\ Paging'.Pending = Paging.Pending
      /\ Paging'.WorkQueued = Paging.WorkQueued /\ Paging'.DpcPending = Paging.DpcPending
      /\ Paging'.Fence = Paging.Fence /\ Paging'.Ok = Paging.Ok
    BY <1>3 DEF IInv, Records, PagingFields
<1>7. SchedulerCall /\ SchedTyped'
    BY <1>3, CallTyped DEF IInv, SchedulerCall
<1>9. Records'
    BY <1>1, <1>2, <1>3, <1>6, RecordsKept, LocalFacts DEF IInv, Records
<1>10. \A q \in PagingWorkers : pc'[q] = pc[q]
    BY <1>1, <1>2, ThreadFacts DEF Move
<1>11. CpuInv'
  <2>0. Top(pc[D]) = "PagingDpcEnter" /\ Top(pc'[D]) = "PagingDpcRetire"
    BY <1>2 DEF Move
  <2>1. PagingToken'
    BY <1>6, <1>10, <2>0 DEF IInv, CpuInv, PagingToken, Executing, DpcTook, Lab
  <2>2. Paging.Pending
    BY <2>0 DEF IInv, CpuInv, PagingToken, DpcTook, Lab
  <2> QED BY <1>3, <1>6, <2>1, <2>2, BusyKept
<1>12. WorkInv'
    BY <1>1, <1>2, <1>3, WorkKept
<1>13. OwnInv'
    BY <1>1, <1>2, <1>3, <1>6, OwnKept
       DEF OwnMarks, HolderLabels, schedulerVars
<1>14. DeliveryInv'
  <2>1. Preemption' = Preemption
    BY <1>3 DEF schedulerVars
  <2>2. "PagingDpcRetire" \notin DeliveryLabels
    BY DEF DeliveryLabels
  <2> QED BY <1>1, <1>2, <1>3, <2>1, <2>2, DeliveryKept
<1> QED BY <1>2, <1>7, <1>9, <1>11, <1>12, <1>13, <1>14 DEF IInv, Control, Move

\* ... retires the packet ...
LEMMA PagingDpcRetireStep ==
    ASSUME IInv, PagingDpcRetire
    PROVE  IInv' /\ SchedulerCall
<1>1. /\ Controlled(pc) /\ D \in Threads /\ D \notin RenderWorkers /\ V # D /\ D \notin PagingWorkers
      /\ pc[D] # <<>> /\ Head(pc[D]) = "PagingDpcRetire"
      /\ pc' = [pc EXCEPT ![D] = <<"PagingDpcLeave">> \o Tail(pc[D])]
    BY ThreadFacts DEF PagingDpcRetire, At, Goto, IInv, Control
<1>2. Move(pc, pc', D, "PagingDpcRetire", "PagingDpcLeave")
    BY <1>1, GotoMoves, Jumps
<1>3. /\ Paging' = [Paging EXCEPT !.Pending = FALSE, !.Context = NoContext]
      /\ PagingIdle' = PagingQuiet'
      /\ UNCHANGED <<schedulerVars, CpuQueue, RenderPacket, G4Pending,
                     Platform, Preempting, Used, loc>>
    BY DEF PagingDpcRetire, cpuVars, renderVars, osVars
<1>6. /\ DOMAIN Paging' = PagingFields /\ Paging'.Pending = FALSE
      /\ Paging'.WorkQueued = Paging.WorkQueued /\ Paging'.DpcPending = Paging.DpcPending
      /\ Paging'.Fence = Paging.Fence /\ Paging'.Ok = Paging.Ok
    BY <1>3 DEF IInv, Records, PagingFields
<1>7. SchedulerCall /\ SchedTyped'
    BY <1>3, CallTyped DEF IInv, SchedulerCall
<1>9. Records'
    BY <1>1, <1>2, <1>3, <1>6, RecordsKept, LocalFacts DEF IInv, Records
<1>10. \A q \in PagingWorkers : pc'[q] = pc[q]
    BY <1>1, <1>2, ThreadFacts DEF Move
<1>11. CpuInv'
  <2>0. Top(pc[D]) = "PagingDpcRetire" /\ Top(pc'[D]) = "PagingDpcLeave"
    BY <1>2 DEF Move
  <2>1. PagingToken'
    BY <1>6, <1>10, <2>0 DEF IInv, CpuInv, PagingToken, Executing, DpcTook, Lab
  <2> QED BY <1>3, <2>1 DEF CpuInv
<1>12. WorkInv'
    BY <1>1, <1>2, <1>3, WorkKept
<1>13. OwnInv'
    BY <1>1, <1>2, <1>3, <1>6, OwnKept
       DEF OwnMarks, HolderLabels, schedulerVars
<1>14. DeliveryInv'
  <2>1. Preemption' = Preemption
    BY <1>3 DEF schedulerVars
  <2>2. "PagingDpcLeave" \notin DeliveryLabels
    BY DEF DeliveryLabels
  <2> QED BY <1>1, <1>2, <1>3, <2>1, <2>2, DeliveryKept
<1> QED BY <1>2, <1>7, <1>9, <1>11, <1>12, <1>13, <1>14 DEF IInv, Control, Move

\* ... and updates PagingIdle when it is done.
LEMMA PagingDpcLeaveStep ==
    ASSUME IInv, PagingDpcLeave
    PROVE  IInv' /\ SchedulerCall
<1>1. /\ Controlled(pc) /\ D \in Threads /\ D \notin RenderWorkers /\ V # D /\ D \notin PagingWorkers
      /\ pc[D] # <<>> /\ Head(pc[D]) = "PagingDpcLeave"
      /\ pc' = [pc EXCEPT ![D] = <<"NotifyDpc">> \o Tail(pc[D])]
    BY ThreadFacts DEF PagingDpcLeave, At, Goto, IInv, Control
<1>2. Move(pc, pc', D, "PagingDpcLeave", "NotifyDpc")
    BY <1>1, GotoMoves, Jumps
<1>3. /\ Paging' = Paging /\ PagingIdle' = PagingQuiet'
      /\ UNCHANGED <<schedulerVars, CpuQueue, RenderPacket, G4Pending,
                     Platform, Preempting, Used, loc>>
    BY DEF PagingDpcLeave, cpuVars, renderVars, osVars
<1>6. /\ DOMAIN Paging' = PagingFields /\ Paging'.Pending = Paging.Pending
      /\ Paging'.WorkQueued = Paging.WorkQueued /\ Paging'.DpcPending = Paging.DpcPending
      /\ Paging'.Fence = Paging.Fence /\ Paging'.Ok = Paging.Ok
    BY <1>3 DEF IInv, Records, PagingFields
<1>7. SchedulerCall /\ SchedTyped'
    BY <1>3, CallTyped DEF IInv, SchedulerCall
<1>9. Records'
    BY <1>1, <1>2, <1>3, <1>6, RecordsKept, LocalFacts DEF IInv, Records
<1>10. \A q \in PagingWorkers : pc'[q] = pc[q]
    BY <1>1, <1>2, ThreadFacts DEF Move
<1>11. CpuInv'
  <2>0. Top(pc[D]) = "PagingDpcLeave" /\ Top(pc'[D]) = "NotifyDpc"
    BY <1>2 DEF Move
  <2>1. PagingToken'
    BY <1>6, <1>10, <2>0 DEF IInv, CpuInv, PagingToken, Executing, DpcTook, Lab
  <2> QED BY <1>3, <2>1 DEF CpuInv
<1>12. WorkInv'
    BY <1>1, <1>2, <1>3, WorkKept
<1>13. OwnInv'
    BY <1>1, <1>2, <1>3, <1>6, OwnKept
       DEF OwnMarks, HolderLabels, schedulerVars
<1>14. DeliveryInv'
  <2>1. Preemption' = Preemption
    BY <1>3 DEF schedulerVars
  <2>2. "NotifyDpc" \notin DeliveryLabels
    BY DEF DeliveryLabels
  <2> QED BY <1>1, <1>2, <1>3, <2>1, <2>2, DeliveryKept
<1> QED BY <1>2, <1>7, <1>9, <1>11, <1>12, <1>13, <1>14 DEF IInv, Control, Move

\* dxgkrnl learns what was reported.
LEMMA NotifyDpcStep ==
    ASSUME IInv, NotifyDpc
    PROVE  IInv' /\ SchedulerCall
<1>1. /\ Controlled(pc) /\ D \in Threads /\ D \notin RenderWorkers /\ V # D
      /\ pc[D] # <<>> /\ Head(pc[D]) = "NotifyDpc"
      /\ pc' = [pc EXCEPT ![D] = <<"SchedulerDpc">> \o Tail(pc[D])]
    BY ThreadFacts DEF NotifyDpc, At, Goto, IInv, Control
<1>2. Move(pc, pc', D, "NotifyDpc", "SchedulerDpc")
    BY <1>1, GotoMoves, Jumps
<1>3. /\ Preempting' = IF Preempting = "Reported" THEN "No" ELSE Preempting
      /\ UNCHANGED <<schedulerVars, CpuQueue, Paging, PagingIdle, RenderPacket, G4Pending,
                     Platform, Used, loc>>
    BY DEF NotifyDpc, cpuVars, renderVars
<1>7. SchedulerCall /\ SchedTyped'
    BY <1>3, CallTyped DEF IInv, SchedulerCall
<1>9. Records'
    BY <1>1, <1>2, <1>3, RecordsKept, LocalFacts DEF IInv, Records
<1>11. CpuInv'
    BY <1>1, <1>2, <1>3, CpuKept DEF CpuMarks, PagingLabels
<1>12. WorkInv'
    BY <1>1, <1>2, <1>3, WorkKept
<1>13. OwnInv'
    BY <1>1, <1>2, <1>3, OwnKept DEF OwnMarks, HolderLabels, schedulerVars
<1>14. DeliveryInv'
  <2>1. Preemption' = Preemption
    BY <1>3 DEF schedulerVars
  <2>2. Top(pc'[D]) \notin DeliveryLabels /\ \A u \in Threads \ {D} : pc'[u] = pc[u]
    BY <1>2 DEF DeliveryLabels, Move
  <2> QED BY <1>1, <1>3, <2>1, <2>2, ThreadFacts DEF IInv, DeliveryInv, Lab, DeliveryLabels
<1> QED BY <1>2, <1>7, <1>9, <1>11, <1>12, <1>13, <1>14 DEF IInv, Control, Move

\* AdmissionSchedulerDpc reads the phase and the reservation ...
LEMMA SchedulerDpcReadStep ==
    ASSUME IInv, SchedulerDpcRead
    PROVE  IInv' /\ SchedulerCall
<1>1. /\ Controlled(pc) /\ D \in Threads
      /\ pc[D] # <<>> /\ Head(pc[D]) = "SchedulerDpc"
      /\ pc' = [pc EXCEPT ![D] = <<"TakeRenderFence">> \o Tail(pc[D])]
    BY ThreadFacts DEF SchedulerDpcRead, At, Goto, IInv, Control
<1>2. Moved(pc, pc', D) /\ Top(pc'[D]) = "TakeRenderFence"
    BY <1>1, GotoPlain, Jumps, PlainJumps
<1>3. Relocated(loc, loc', D)
    BY <1>1, LocalFacts DEF SchedulerDpcRead, IInv
<1> QED BY <1>1, <1>2, <1>3, MovedStep DEF SchedulerDpcRead, cpuVars, renderVars, osVars, SubmitLabels

\* ... takes the completed render fence ...
LEMMA SchedulerDpcTakeStep ==
    ASSUME IInv, SchedulerDpcTake
    PROVE  IInv' /\ SchedulerCall
<1>1. /\ Controlled(pc) /\ D \in Threads
      /\ pc[D] # <<>> /\ Head(pc[D]) = "TakeRenderFence"
      /\ pc' = [pc EXCEPT ![D] = <<"TestUnreported">> \o Tail(pc[D])]
    BY ThreadFacts DEF SchedulerDpcTake, At, Goto, IInv, Control
<1>2. Moved(pc, pc', D) /\ Top(pc'[D]) = "TestUnreported"
    BY <1>1, GotoPlain, Jumps, PlainJumps
<1>3. Relocated(loc, loc', D)
    BY <1>1, LocalFacts DEF SchedulerDpcTake, IInv
<1> QED BY <1>1, <1>2, <1>3, MovedStep DEF SchedulerDpcTake, cpuVars, renderVars, osVars, SubmitLabels

\* ... delivers a notification or dispatches ...
LEMMA SchedulerDpcTryStep ==
    ASSUME IInv, SchedulerDpcTry
    PROVE  IInv' /\ SchedulerCall
<1>1. /\ Controlled(pc) /\ D \in Threads /\ D \notin RenderWorkers
      /\ pc[D] # <<>> /\ Head(pc[D]) = "TestUnreported"
    BY ThreadFacts DEF SchedulerDpcTry, At, IInv, Control
<1>2. Moved(pc, pc', D) /\ Top(pc'[D]) \notin SubmitLabels
  <2>1. CASE DpcMayNotify
    <3>1. pc' = [pc EXCEPT ![D] = <<"TryNotify", "ReleaseReserved">> \o Tail(pc[D])]
      BY <2>1 DEF SchedulerDpcTry, Call
    <3>2. /\ "TryNotify" \in Label /\ "ReleaseReserved" \in Label
          /\ "TestUnreported" \in DpcLabels /\ "TryNotify" \in DispatchFrame
      BY DEF Label, DpcLabels, DispatchFrame, NotifyLabels
    <3>3. Move(pc, pc', D, "TestUnreported", "TryNotify")
      BY <1>1, <3>1, <3>2, CallMoves
    <3> QED BY <1>1, <3>3, PlainJumps DEF Move, Moved, SubmitLabels
  <2>2. CASE ~DpcMayNotify
    <3>1. pc' = [pc EXCEPT ![D] = <<"ReleaseReserved">> \o Tail(pc[D])]
      BY <2>2 DEF SchedulerDpcTry, Goto
    <3>2. Moved(pc, pc', D) /\ Top(pc'[D]) = "ReleaseReserved"
      BY <1>1, <3>1, GotoPlain, Jumps, PlainJumps
    <3> QED BY <3>2 DEF SubmitLabels
  <2> QED BY <2>1, <2>2
<1>3. Relocated(loc, loc', D)
    BY <1>1, LocalFacts DEF SchedulerDpcTry, IInv
<1> QED BY <1>1, <1>2, <1>3, MovedStep DEF SchedulerDpcTry, cpuVars, renderVars, osVars

\* ... and releases the reservation it read.
LEMMA SchedulerDpcReleaseStep ==
    ASSUME IInv, SchedulerDpcRelease
    PROVE  IInv' /\ SchedulerCall
<1>1. /\ Controlled(pc) /\ D \in Threads
      /\ pc[D] # <<>> /\ Head(pc[D]) = "ReleaseReserved"
      /\ pc' = [pc EXCEPT ![D] = <<"Dispatch">> \o Tail(pc[D])]
    BY ThreadFacts DEF SchedulerDpcRelease, At, Goto, IInv, Control
<1>2. Moved(pc, pc', D) /\ Top(pc'[D]) = "Dispatch"
    BY <1>1, GotoPlain, Jumps, PlainJumps
<1>3. Relocated(loc, loc', D)
    BY <1>1, LocalFacts DEF SchedulerDpcRelease, IInv
<1> QED BY <1>1, <1>2, <1>3, MovedStep DEF SchedulerDpcRelease, cpuVars, renderVars, osVars, SubmitLabels

-----------------------------------------------------------------------------
(* The render work item.                                                   *)

\* One worker takes the work item off the queue.
LEMMA RenderWorkerStartStep ==
    ASSUME IInv, NEW r \in RenderWorkers, RenderWorkerStart(r)
    PROVE  IInv' /\ SchedulerCall
<1>1. /\ Controlled(pc) /\ r \in Threads /\ r # V /\ r # D
      /\ pc[r] = <<>> /\ pc' = [pc EXCEPT ![r] = <<"Bind">>]
    BY ThreadFacts DEF RenderWorkerStart, Enter, Running, IInv, Control
<1>2. Move(pc, pc', r, "", "Bind")
    BY <1>1, Entered, EnterMoves DEF WorkerFrame, WorkLabels
<1>3. /\ Platform.WorkQueued
      /\ Platform' = [Platform EXCEPT !.WorkQueued = FALSE]
      /\ UNCHANGED <<schedulerVars, CpuQueue, Paging, PagingIdle, RenderPacket, G4Pending,
                     Preempting, Used, loc>>
    BY DEF RenderWorkerStart, cpuVars, osVars
<1>4. Relocated(loc, loc', r)
    BY <1>1, <1>3, LocalFacts DEF IInv
<1>6. /\ DOMAIN Platform' = PlatformFields
      /\ Platform'.Phase = Platform.Phase
      /\ Platform'.WorkScheduled = Platform.WorkScheduled
      /\ Platform'.WorkQueued = FALSE
      /\ Platform'.WorkIdle = Platform.WorkIdle
      /\ Platform'.Resetting = Platform.Resetting
    BY <1>3 DEF IInv, Records, PlatformFields
<1>7. SchedulerCall /\ SchedTyped'
    BY <1>3, CallTyped DEF IInv, SchedulerCall
<1>9. Records'
    BY <1>1, <1>2, <1>3, <1>4, <1>6, RecordsKept DEF IInv, Records
<1>11. CpuInv'
    BY <1>1, <1>2, <1>3, CpuKept DEF CpuMarks, PagingLabels
<1>12. WorkInv'
  <2>1. /\ Platform.WorkScheduled /\ ~Platform.WorkIdle /\ Lab(V) \notin PollingLabels
        /\ \A q \in RenderWorkers : Lab(q) \notin WorkingLabels
    BY <1>3 DEF IInv, WorkInv
  <2>2. \A u \in Threads \ {r} : pc'[u] = pc[u]
    BY <1>2 DEF Move
  <2>3. Top(pc'[V]) = "QuiesceWait" => Platform'.Resetting
    BY <1>1, <1>6, <2>2, ThreadFacts DEF IInv, WorkInv, Lab
  <2> QED BY <1>1, <1>6, <2>1, <2>2, <2>3, ThreadFacts DEF WorkInv, Lab
<1>13. OwnInv'
    BY <1>1, <1>2, <1>3, <1>6, OwnKept
       DEF OwnMarks, HolderLabels, schedulerVars
<1>14. DeliveryInv'
  <2>1. Preemption' = Preemption
    BY <1>3 DEF schedulerVars
  <2>2. "Bind" \notin DeliveryLabels
    BY DEF DeliveryLabels
  <2> QED BY <1>1, <1>2, <1>3, <2>1, <2>2, DeliveryKept
<1> QED BY <1>2, <1>7, <1>9, <1>11, <1>12, <1>13, <1>14 DEF IInv, Control, Move

\* The worker binds the head of the pending ring into the empty slot, so
\* nobody else is binding.
LEMMA BindHeadStep ==
    ASSUME IInv, NEW r \in RenderWorkers, BindHead(r)
    PROVE  IInv' /\ SchedulerCall
<1>1. /\ Controlled(pc) /\ r \in Threads /\ r # V /\ r # D
      /\ pc[r] # <<>> /\ Head(pc[r]) = "Bind"
    BY ThreadFacts DEF BindHead, At, IInv, Control
<1>0. PICK to \in {"BindQueue", "Activate"} :
        /\ pc' = [pc EXCEPT ![r] = <<to>> \o Tail(pc[r])]
        /\ to = "BindQueue" =>
             /\ G4Pending # <<>> /\ RenderPacket.State = "Empty"
             /\ RenderPacket' = [Head(G4Pending) EXCEPT !.State = "Prepared"]
             /\ G4Pending' = [G4Pending EXCEPT ![1].State = "Binding"]
        /\ to # "BindQueue" => RenderPacket' = RenderPacket /\ G4Pending' = G4Pending
    BY DEF BindHead, Goto
<1>2. Move(pc, pc', r, "Bind", to)
    BY <1>0, <1>1, GotoMoves, Jumps
<1>3. UNCHANGED <<schedulerVars, CpuQueue, Paging, PagingIdle, Platform, Preempting, Used, loc>>
    BY DEF BindHead, cpuVars, osVars
<1>4. Relocated(loc, loc', r)
    BY <1>1, <1>3, LocalFacts DEF IInv
<1>7. SchedulerCall /\ SchedTyped'
    BY <1>3, CallTyped DEF IInv, SchedulerCall
<1>8. /\ DOMAIN RenderPacket' = {"State", "Fence", "Context"}
      /\ G4Pending' \in Seq(PendingType)
      /\ to = "BindQueue" => /\ RenderPacket'.State = "Prepared"
                             /\ G4Pending' # <<>> /\ Head(G4Pending').State = "Binding"
  <2>1. CASE to # "BindQueue"
    BY <1>0, <2>1 DEF IInv, Records
  <2>2. CASE to = "BindQueue"
    <3>1. G4Pending \in Seq(PendingType) /\ G4Pending # <<>>
      BY <1>0, <2>2 DEF IInv, Records
    <3>2. PICK e \in PendingType : e = Head(G4Pending) /\ e = G4Pending[1]
      BY <3>1
    <3>3. DOMAIN e = {"State", "Fence", "Context"}
      BY <3>2 DEF PendingType
    <3>4. RenderPacket' = [e EXCEPT !.State = "Prepared"]
      BY <1>0, <2>2, <3>2
    <3>5. DOMAIN RenderPacket' = {"State", "Fence", "Context"} /\ RenderPacket'.State = "Prepared"
      BY <3>3, <3>4
    <3>6. PICK n : n = [e EXCEPT !.State = "Binding"]
      OBVIOUS
    <3>7. n \in PendingType /\ n.State = "Binding"
      BY <3>2, <3>3, <3>6 DEF PendingType
    <3>8. G4Pending' = [G4Pending EXCEPT ![1] = n]
      BY <1>0, <2>2, <3>2, <3>6
    <3>9. G4Pending' \in Seq(PendingType) /\ G4Pending' # <<>> /\ Head(G4Pending') = n
      BY <3>1, <3>7, <3>8
    <3> QED BY <3>5, <3>7, <3>9
  <2> QED BY <2>1, <2>2
<1>9. Records'
    BY <1>1, <1>2, <1>3, <1>4, <1>8, RecordsKept DEF IInv, Records
<1>11. CpuInv'
    BY <1>0, <1>1, <1>2, <1>3, CpuKept DEF CpuMarks, PagingLabels
<1>12. WorkInv'
    BY <1>0, <1>1, <1>2, <1>3, WorkKept
       DEF WorkingLabels, WorkLabels, CompleteLabels
<1>13. OwnInv'
  <2>1. CASE to # "BindQueue"
    BY <1>0, <1>1, <1>2, <1>3, <2>1, OwnKept
       DEF OwnMarks, HolderLabels, schedulerVars
  <2>2. CASE to = "BindQueue"
    <3>1. RenderPacket.State = "Empty"
      BY <1>0, <2>2
    <3>2. /\ Platform.Phase # "Submitted"
          /\ \A u \in RenderWorkers \cup {V} : Lab(u) \notin OwnMarks
      BY <3>1 DEF IInv, OwnInv, OwnMarks
    <3>3. /\ Top(pc'[r]) = "BindQueue" /\ \A u \in RenderWorkers \cup {V} : u # r => pc'[u] = pc[u]
      BY <1>2, <2>2, ThreadFacts DEF Move
    <3>4. CpuOwns' = CpuOwns /\ ActiveFence' = ActiveFence
      BY <1>1, <1>2, <1>3, ThreadFacts DEF CpuOwns, Lab, Move, schedulerVars
    <3>5. "BindQueue" \notin HolderLabels
      BY DEF HolderLabels
    <3> QED BY <1>3, <1>8, <2>2, <3>1, <3>2, <3>3, <3>4, <3>5
            DEF IInv, OwnInv, Lab, OwnMarks, HolderLabels
  <2> QED BY <2>1, <2>2
<1>14. DeliveryInv'
  <2>1. Preemption' = Preemption
    BY <1>3 DEF schedulerVars
  <2>2. to \notin DeliveryLabels
    BY <1>0 DEF DeliveryLabels
  <2> QED BY <1>1, <1>2, <1>3, <2>1, <2>2, DeliveryKept
<1> QED BY <1>2, <1>7, <1>9, <1>11, <1>12, <1>13, <1>14 DEF IInv, Control, Move

\* The bound packet joins the slot, unless it was dropped meanwhile.
LEMMA BindQueueStep ==
    ASSUME IInv, NEW r \in RenderWorkers, BindQueue(r)
    PROVE  IInv' /\ SchedulerCall
<1>1. /\ Controlled(pc) /\ r \in Threads /\ r # V /\ r # D
      /\ pc[r] # <<>> /\ Head(pc[r]) = "BindQueue"
      /\ pc' = [pc EXCEPT ![r] = <<"Activate">> \o Tail(pc[r])]
    BY ThreadFacts DEF BindQueue, At, Goto, IInv, Control
<1>2. Move(pc, pc', r, "BindQueue", "Activate")
    BY <1>1, GotoMoves, Jumps
<1>3. /\ RenderPacket' \in {EmptyPacket, [RenderPacket EXCEPT !.State = "Queued"]}
      /\ G4Pending' = Tail(G4Pending)
      /\ UNCHANGED <<schedulerVars, CpuQueue, Paging, PagingIdle, Platform, Preempting, Used, loc>>
    BY DEF BindQueue, cpuVars, osVars
<1>4. Relocated(loc, loc', r)
    BY <1>1, <1>3, LocalFacts DEF IInv
<1>7. SchedulerCall /\ SchedTyped'
    BY <1>3, CallTyped DEF IInv, SchedulerCall
<1>5. /\ RenderPacket.State = "Prepared" /\ G4Pending # <<>> /\ Platform.Phase # "Submitted"
      /\ \A u \in RenderWorkers \cup {V} : Lab(u) \in OwnMarks => u = r
  <2>1. Lab(r) = "BindQueue"
    BY <1>2 DEF Move, Lab
  <2> QED BY <2>1 DEF IInv, OwnInv, OwnMarks
<1>8. /\ DOMAIN RenderPacket' = {"State", "Fence", "Context"}
      /\ RenderPacket'.State \in {"Empty", "Queued"}
      /\ G4Pending' \in Seq(PendingType)
  <2>1. G4Pending' \in Seq(PendingType)
    BY <1>3, <1>5 DEF IInv, Records
  <2> QED BY <1>3, <1>5, <2>1 DEF IInv, Records, EmptyPacket
<1>9. Records'
    BY <1>1, <1>2, <1>3, <1>4, <1>8, RecordsKept DEF IInv, Records
<1>11. CpuInv'
    BY <1>1, <1>2, <1>3, CpuKept DEF CpuMarks, PagingLabels
<1>12. WorkInv'
    BY <1>1, <1>2, <1>3, WorkKept DEF WorkingLabels, WorkLabels, CompleteLabels
<1>13. OwnInv'
  <2>1. "Activate" \notin OwnMarks
    BY DEF OwnMarks, HolderLabels
  <2>2. \A u \in RenderWorkers \cup {V} : Top(pc'[u]) \notin OwnMarks
    BY <1>2, <1>5, <2>1, ThreadFacts DEF Move, Lab
  <2>3. CpuOwns' = CpuOwns /\ ActiveFence' = ActiveFence
    BY <1>1, <1>2, <1>3, ThreadFacts DEF CpuOwns, Lab, Move, schedulerVars
  <2> QED BY <1>3, <1>5, <1>8, <2>2, <2>3 DEF IInv, OwnInv, Lab, OwnMarks, HolderLabels
<1>14. DeliveryInv'
  <2>1. Preemption' = Preemption
    BY <1>3 DEF schedulerVars
  <2>2. "Activate" \notin DeliveryLabels
    BY DEF DeliveryLabels
  <2> QED BY <1>1, <1>2, <1>3, <2>1, <2>2, DeliveryKept
<1> QED BY <1>2, <1>7, <1>9, <1>11, <1>12, <1>13, <1>14 DEF IInv, Control, Move

\* A binding that fails empties the slot and drops the entry.
LEMMA BindFailStep ==
    ASSUME IInv, NEW r \in RenderWorkers, BindFail(r)
    PROVE  IInv' /\ SchedulerCall
<1>0. PICK to \in {"Activate", "Finish"} : pc' = [pc EXCEPT ![r] = <<to>> \o Tail(pc[r])]
    BY DEF BindFail, Goto
<1>1. /\ Controlled(pc) /\ r \in Threads /\ r # V /\ r # D
      /\ pc[r] # <<>> /\ Head(pc[r]) = "BindQueue"
    BY ThreadFacts DEF BindFail, At, IInv, Control
<1>2. Move(pc, pc', r, "BindQueue", to)
    BY <1>0, <1>1, GotoMoves, Jumps
<1>3. /\ RenderPacket' \in {EmptyPacket, [RenderPacket EXCEPT !.State = "Queued"]}
      /\ G4Pending' = Tail(G4Pending)
      /\ UNCHANGED <<schedulerVars, CpuQueue, Paging, PagingIdle, Platform, Preempting, Used, loc>>
    BY DEF BindFail, cpuVars, osVars
<1>4. Relocated(loc, loc', r)
    BY <1>1, <1>3, LocalFacts DEF IInv
<1>7. SchedulerCall /\ SchedTyped'
    BY <1>3, CallTyped DEF IInv, SchedulerCall
<1>5. /\ RenderPacket.State = "Prepared" /\ G4Pending # <<>> /\ Platform.Phase # "Submitted"
      /\ \A u \in RenderWorkers \cup {V} : Lab(u) \in OwnMarks => u = r
  <2>1. Lab(r) = "BindQueue"
    BY <1>2 DEF Move, Lab
  <2> QED BY <2>1 DEF IInv, OwnInv, OwnMarks
<1>8. /\ DOMAIN RenderPacket' = {"State", "Fence", "Context"}
      /\ RenderPacket'.State \in {"Empty", "Queued"}
      /\ G4Pending' \in Seq(PendingType)
  <2>1. G4Pending' \in Seq(PendingType)
    BY <1>3, <1>5 DEF IInv, Records
  <2> QED BY <1>3, <1>5, <2>1 DEF IInv, Records, EmptyPacket
<1>9. Records'
    BY <1>1, <1>2, <1>3, <1>4, <1>8, RecordsKept DEF IInv, Records
<1>11. CpuInv'
    BY <1>0, <1>1, <1>2, <1>3, CpuKept DEF CpuMarks, PagingLabels
<1>12. WorkInv'
    BY <1>0, <1>1, <1>2, <1>3, WorkKept
       DEF WorkingLabels, WorkLabels, CompleteLabels
<1>13. OwnInv'
  <2>1. to \notin OwnMarks
    BY <1>0 DEF OwnMarks, HolderLabels
  <2>2. \A u \in RenderWorkers \cup {V} : Top(pc'[u]) \notin OwnMarks
    BY <1>2, <1>5, <2>1, ThreadFacts DEF Move, Lab
  <2>3. CpuOwns' = CpuOwns /\ ActiveFence' = ActiveFence
    BY <1>1, <1>2, <1>3, ThreadFacts DEF CpuOwns, Lab, Move, schedulerVars
  <2> QED BY <1>3, <1>5, <1>8, <2>2, <2>3 DEF IInv, OwnInv, Lab, OwnMarks, HolderLabels
<1>14. DeliveryInv'
  <2>1. Preemption' = Preemption
    BY <1>3 DEF schedulerVars
  <2>2. to \notin DeliveryLabels
    BY <1>0 DEF DeliveryLabels
  <2> QED BY <1>1, <1>2, <1>3, <2>1, <2>2, DeliveryKept
<1> QED BY <1>2, <1>7, <1>9, <1>11, <1>12, <1>13, <1>14 DEF IInv, Control, Move

\* Nothing to activate.
LEMMA ActivateSkipStep ==
    ASSUME IInv, NEW r \in RenderWorkers, ActivateSkip(r)
    PROVE  IInv' /\ SchedulerCall
<1>1. /\ Controlled(pc) /\ r \in Threads
      /\ pc[r] # <<>> /\ Head(pc[r]) = "Activate"
      /\ pc' = [pc EXCEPT ![r] = <<"Finish">> \o Tail(pc[r])]
    BY ThreadFacts DEF ActivateSkip, At, Goto, IInv, Control
<1>2. Moved(pc, pc', r) /\ Top(pc'[r]) = "Finish"
    BY <1>1, GotoPlain, Jumps, PlainJumps
<1>3. Relocated(loc, loc', r)
    BY <1>1, LocalFacts DEF ActivateSkip, IInv
<1> QED BY <1>1, <1>2, <1>3, MovedStep DEF ActivateSkip, cpuVars, renderVars, osVars, SubmitLabels

\* The queued packet becomes active together with its fence: the engine was
\* free.
LEMMA ActivatePacketStep ==
    ASSUME IInv, NEW r \in RenderWorkers, ActivatePacket(r)
    PROVE  IInv' /\ SchedulerCall
<1>1. /\ Controlled(pc) /\ r \in Threads /\ r # V /\ r # D
      /\ pc[r] # <<>> /\ Head(pc[r]) = "Activate"
      /\ pc' = [pc EXCEPT ![r] = <<"BackendSubmit">> \o Tail(pc[r])]
    BY ThreadFacts DEF ActivatePacket, At, Goto, IInv, Control
<1>2. Move(pc, pc', r, "Activate", "BackendSubmit")
    BY <1>1, GotoMoves, Jumps
<1>3. /\ Platform.Phase = "Ready" /\ RenderPacket.State = "Queued"
      /\ Sched!ActivateFence(RenderPacket.Fence)
      /\ RenderPacket' = [RenderPacket EXCEPT !.State = "Active"]
      /\ loc' = [loc EXCEPT ![r].Job = RenderPacket.Fence]
      /\ UNCHANGED <<CpuQueue, Paging, PagingIdle, G4Pending, Platform, Preempting, Used>>
    BY DEF ActivatePacket, cpuVars, osVars
<1>4. Relocated(loc, loc', r)
    BY <1>1, <1>3, LocalFacts DEF IInv
<1>5. /\ ActiveFence = NoFence /\ ActiveFence' = RenderPacket.Fence
      /\ RenderPacket.Fence # NoFence /\ RenderPacket.Fence = QueuedFence
      /\ Preemption' = Preemption
    BY <1>3 DEF Sched!ActivateFence, Sched!SchedActivateFence, Sched!MayActivateFence,
                NoFence, Sched!NoFence
<1>7. SchedulerCall /\ SchedTyped'
    BY <1>3, <1>5, CallTyped DEF IInv, SchedulerCall, SchedTyped
<1>8. /\ DOMAIN RenderPacket' = {"State", "Fence", "Context"}
      /\ RenderPacket'.State = "Active" /\ RenderPacket'.Fence = RenderPacket.Fence
      /\ loc'[r].Job = RenderPacket.Fence
    BY <1>1, <1>3, LocalFacts DEF IInv, Records, LocalFields
<1>9. Records'
    BY <1>1, <1>2, <1>3, <1>4, <1>8, RecordsKept DEF IInv, Records
<1>11. CpuInv'
    BY <1>1, <1>2, <1>3, CpuKept DEF CpuMarks, PagingLabels
<1>12. WorkInv'
    BY <1>1, <1>2, <1>3, WorkKept DEF WorkingLabels, WorkLabels
<1>13. OwnInv'
  <2>1. ~CpuOwns /\ \A u \in RenderWorkers \cup {V} : Lab(u) \notin OwnMarks
    BY <1>3, <1>5 DEF IInv, OwnInv, OwnMarks
  <2>2. /\ Top(pc'[r]) = "BackendSubmit"
        /\ \A u \in RenderWorkers \cup {V} : u # r => pc'[u] = pc[u] /\ loc'[u] = loc[u]
    BY <1>2, <1>4, ThreadFacts DEF Move, Relocated
  <2>3. CpuOwns' = CpuOwns
    BY <1>1, <1>2, <1>3, ThreadFacts DEF CpuOwns, Lab, Move
  <2>4. \A u \in RenderWorkers \cup {V} : Lab(u)' \in OwnMarks => u = r
    BY <2>1, <2>2 DEF Lab
  <2> QED BY <1>3, <1>5, <1>8, <2>1, <2>2, <2>3, <2>4 DEF OwnInv, Lab, OwnMarks, HolderLabels
<1>14. DeliveryInv'
  <2>2. "BackendSubmit" \notin DeliveryLabels
    BY DEF DeliveryLabels
  <2> QED BY <1>1, <1>2, <1>3, <1>5, <2>2, DeliveryKept
<1> QED BY <1>2, <1>7, <1>9, <1>11, <1>12, <1>13, <1>14 DEF IInv, Control, Move

\* A queued packet that the scheduler refuses faults the adapter.
LEMMA ActivateFaultStep ==
    ASSUME IInv, NEW r \in RenderWorkers, ActivateFault(r)
    PROVE  IInv' /\ SchedulerCall
<1>1. /\ Controlled(pc) /\ r \in Threads
      /\ pc[r] # <<>> /\ Head(pc[r]) = "Activate"
      /\ pc' = [pc EXCEPT ![r] = <<"Finish">> \o Tail(pc[r])]
    BY ThreadFacts DEF ActivateFault, At, Goto, IInv, Control
<1>2. Moved(pc, pc', r) /\ Top(pc'[r]) = "Finish"
    BY <1>1, GotoPlain, Jumps, PlainJumps
<1>3. Relocated(loc, loc', r)
    BY <1>1, LocalFacts DEF ActivateFault, IInv
<1> QED BY <1>1, <1>2, <1>3, MovedStep DEF ActivateFault, cpuVars, renderVars, osVars, SubmitLabels

\* The job goes to the firmware while its packet is active.
LEMMA BackendSubmitStep ==
    ASSUME IInv, NEW r \in RenderWorkers, BackendSubmit(r)
    PROVE  IInv' /\ SchedulerCall
<1>1. /\ Controlled(pc) /\ r \in Threads /\ r # V /\ r # D
      /\ pc[r] # <<>> /\ Head(pc[r]) = "BackendSubmit"
      /\ pc' = [pc EXCEPT ![r] = <<"Poll">> \o Tail(pc[r])]
    BY ThreadFacts DEF BackendSubmit, At, Goto, IInv, Control
<1>2. Move(pc, pc', r, "BackendSubmit", "Poll")
    BY <1>1, GotoMoves, Jumps
<1>3. /\ Platform' = [Platform EXCEPT !.Phase = "Submitted"]
      /\ UNCHANGED <<schedulerVars, CpuQueue, Paging, PagingIdle, RenderPacket, G4Pending,
                     Preempting, Used, loc>>
    BY DEF BackendSubmit, cpuVars, renderVars, osVars
<1>4. Relocated(loc, loc', r)
    BY <1>1, <1>3, LocalFacts DEF IInv
<1>6. /\ DOMAIN Platform' = PlatformFields
      /\ Platform'.Phase = "Submitted"
      /\ Platform'.WorkScheduled = Platform.WorkScheduled
      /\ Platform'.WorkQueued = Platform.WorkQueued
      /\ Platform'.WorkIdle = Platform.WorkIdle
      /\ Platform'.Resetting = Platform.Resetting
    BY <1>3 DEF IInv, Records, PlatformFields
<1>7. SchedulerCall /\ SchedTyped'
    BY <1>3, CallTyped DEF IInv, SchedulerCall
<1>8. /\ RenderPacket.State = "Active" /\ RenderPacket.Fence = loc[r].Job
      /\ \A u \in RenderWorkers \cup {V} : Lab(u) \in OwnMarks => u = r
  <2>1. Lab(r) \in HolderLabels
    BY <1>2 DEF Move, Lab, HolderLabels
  <2>2. RenderPacket.State = "Active" /\ RenderPacket.Fence = loc[r].Job
    BY <2>1 DEF IInv, OwnInv
  <2>3. \A u \in RenderWorkers \cup {V} : Lab(u) \notin {"BindQueue", "QueuePacket"}
    BY <2>2 DEF IInv, OwnInv
  <2> QED BY <2>1, <2>2, <2>3, SoleHolder DEF OwnMarks
<1>9. Records'
    BY <1>1, <1>2, <1>3, <1>4, <1>6, RecordsKept DEF IInv, Records
<1>11. CpuInv'
    BY <1>1, <1>2, <1>3, CpuKept DEF CpuMarks, PagingLabels
<1>12. WorkInv'
    BY <1>1, <1>2, <1>3, <1>6, WorkKept
       DEF WorkingLabels, WorkLabels, CompleteLabels
<1>13. OwnInv'
  <2>1. \A u \in RenderWorkers \cup {V} : Lab(u)' \in OwnMarks => u = r
    BY <1>2, <1>8, ThreadFacts DEF Lab, Move
  <2>2. CpuOwns' = CpuOwns /\ ActiveFence' = ActiveFence
    BY <1>1, <1>2, <1>3, ThreadFacts DEF CpuOwns, Lab, Move, schedulerVars
  <2>3. Lab(r)' = "Poll"
    BY <1>2 DEF Lab, Move
  <2> QED BY <1>3, <1>6, <1>8, <2>1, <2>2, <2>3 DEF IInv, OwnInv, OwnMarks, HolderLabels
<1>14. DeliveryInv'
  <2>1. Preemption' = Preemption
    BY <1>3 DEF schedulerVars
  <2>2. "Poll" \notin DeliveryLabels
    BY DEF DeliveryLabels
  <2> QED BY <1>1, <1>2, <1>3, <2>1, <2>2, DeliveryKept
<1> QED BY <1>2, <1>7, <1>9, <1>11, <1>12, <1>13, <1>14 DEF IInv, Control, Move

\* A submission that fails leaves nothing with the firmware.
LEMMA BackendSubmitFailStep ==
    ASSUME IInv, NEW r \in RenderWorkers, BackendSubmitFail(r)
    PROVE  IInv' /\ SchedulerCall
<1>1. /\ Controlled(pc) /\ r \in Threads /\ r # V /\ r # D
      /\ pc[r] # <<>> /\ Head(pc[r]) = "BackendSubmit"
      /\ pc' = [pc EXCEPT ![r] = <<"Finish">> \o Tail(pc[r])]
    BY ThreadFacts DEF BackendSubmitFail, At, Goto, IInv, Control
<1>2. Move(pc, pc', r, "BackendSubmit", "Finish")
    BY <1>1, GotoMoves, Jumps
<1>3. /\ \E phase \in {"Ready", "Failed"} : Platform' = [Platform EXCEPT !.Phase = phase]
      /\ UNCHANGED <<schedulerVars, CpuQueue, Paging, PagingIdle, RenderPacket, G4Pending,
                     Preempting, Used, loc>>
    BY DEF BackendSubmitFail, cpuVars, renderVars, osVars
<1>4. Relocated(loc, loc', r)
    BY <1>1, <1>3, LocalFacts DEF IInv
<1>6. /\ DOMAIN Platform' = PlatformFields
      /\ Platform'.WorkScheduled = Platform.WorkScheduled
      /\ Platform'.WorkQueued = Platform.WorkQueued
      /\ Platform'.WorkIdle = Platform.WorkIdle
      /\ Platform'.Resetting = Platform.Resetting
      /\ Platform'.Phase \in {"Ready", "Failed"}
    BY <1>3 DEF IInv, Records, PlatformFields
<1>7. SchedulerCall /\ SchedTyped'
    BY <1>3, CallTyped DEF IInv, SchedulerCall
<1>8. /\ RenderPacket.State = "Active" /\ RenderPacket.Fence = loc[r].Job
      /\ \A u \in RenderWorkers \cup {V} : Lab(u) \in OwnMarks => u = r
  <2>1. Lab(r) \in HolderLabels
    BY <1>2 DEF Move, Lab, HolderLabels
  <2>2. RenderPacket.State = "Active" /\ RenderPacket.Fence = loc[r].Job
    BY <2>1 DEF IInv, OwnInv
  <2>3. \A u \in RenderWorkers \cup {V} : Lab(u) \notin {"BindQueue", "QueuePacket"}
    BY <2>2 DEF IInv, OwnInv
  <2> QED BY <2>1, <2>2, <2>3, SoleHolder DEF OwnMarks
<1>9. Records'
    BY <1>1, <1>2, <1>3, <1>4, <1>6, RecordsKept DEF IInv, Records
<1>11. CpuInv'
    BY <1>1, <1>2, <1>3, CpuKept DEF CpuMarks, PagingLabels
<1>12. WorkInv'
    BY <1>1, <1>2, <1>3, <1>6, WorkKept
       DEF WorkingLabels, WorkLabels, CompleteLabels
<1>13. OwnInv'
  <2>1. \A u \in RenderWorkers \cup {V} : Lab(u)' \in OwnMarks => u = r
    BY <1>2, <1>8, ThreadFacts DEF Lab, Move
  <2>2. CpuOwns' = CpuOwns /\ ActiveFence' = ActiveFence
    BY <1>1, <1>2, <1>3, ThreadFacts DEF CpuOwns, Lab, Move, schedulerVars
  <2>3. Lab(r)' = "Finish"
    BY <1>2 DEF Lab, Move
  <2> QED BY <1>3, <1>6, <1>8, <2>1, <2>2, <2>3 DEF IInv, OwnInv, OwnMarks, HolderLabels
<1>14. DeliveryInv'
  <2>1. Preemption' = Preemption
    BY <1>3 DEF schedulerVars
  <2>2. "Finish" \notin DeliveryLabels
    BY DEF DeliveryLabels
  <2> QED BY <1>1, <1>2, <1>3, <2>1, <2>2, DeliveryKept
<1> QED BY <1>2, <1>7, <1>9, <1>11, <1>12, <1>13, <1>14 DEF IInv, Control, Move

\* The worker that polls finds the job ended.
LEMMA JobEndsStep ==
    ASSUME IInv, NEW r \in RenderWorkers, JobEnds(r)
    PROVE  IInv' /\ SchedulerCall
<1>1. /\ Controlled(pc) /\ r \in Threads /\ r # V /\ r # D
      /\ pc[r] # <<>> /\ Head(pc[r]) = "Poll"
      /\ pc' = [pc EXCEPT ![r] = <<"Complete", "Finish">> \o Tail(pc[r])]
    BY ThreadFacts DEF JobEnds, At, Call, IInv, Control
<1>2. Move(pc, pc', r, "Poll", "Complete")
  <2>1. "Poll" \in WorkerFrame /\ "Finish" \in WorkerFrame /\ "Complete" \in CompleteLabels
    BY DEF WorkerFrame, WorkLabels, CompleteLabels
  <2>2. "Complete" \in Label /\ "Finish" \in Label
    BY <2>1, Labels
  <2> QED BY <1>1, <2>1, <2>2, CallMoves
<1>3. /\ Platform' = [Platform EXCEPT !.Phase = "Ready"]
      /\ UNCHANGED <<schedulerVars, CpuQueue, Paging, PagingIdle, RenderPacket, G4Pending,
                     Preempting, Used, loc>>
    BY DEF JobEnds, cpuVars, osVars
<1>4. Relocated(loc, loc', r)
    BY <1>1, <1>3, LocalFacts DEF IInv
<1>6. /\ DOMAIN Platform' = PlatformFields
      /\ Platform'.Phase = "Ready"
      /\ Platform'.WorkScheduled = Platform.WorkScheduled
      /\ Platform'.WorkQueued = Platform.WorkQueued
      /\ Platform'.WorkIdle = Platform.WorkIdle
      /\ Platform'.Resetting = Platform.Resetting
    BY <1>3 DEF IInv, Records, PlatformFields
<1>7. SchedulerCall /\ SchedTyped'
    BY <1>3, CallTyped DEF IInv, SchedulerCall
<1>8. /\ RenderPacket.State = "Active" /\ RenderPacket.Fence = loc[r].Job
      /\ \A u \in RenderWorkers \cup {V} : Lab(u) \in OwnMarks => u = r
  <2>1. Lab(r) \in HolderLabels
    BY <1>2 DEF Move, Lab, HolderLabels
  <2>2. RenderPacket.State = "Active" /\ RenderPacket.Fence = loc[r].Job
    BY <2>1 DEF IInv, OwnInv
  <2>3. \A u \in RenderWorkers \cup {V} : Lab(u) \notin {"BindQueue", "QueuePacket"}
    BY <2>2 DEF IInv, OwnInv
  <2> QED BY <2>1, <2>2, <2>3, SoleHolder DEF OwnMarks
<1>9. Records'
    BY <1>1, <1>2, <1>3, <1>4, <1>6, RecordsKept DEF IInv, Records
<1>11. CpuInv'
    BY <1>1, <1>2, <1>3, CpuKept DEF CpuMarks, PagingLabels
<1>12. WorkInv'
    BY <1>1, <1>2, <1>3, <1>6, WorkKept
       DEF WorkingLabels, WorkLabels, CompleteLabels
<1>13. OwnInv'
  <2>1. \A u \in RenderWorkers \cup {V} : Lab(u)' \in OwnMarks => u = r
    BY <1>2, <1>8, ThreadFacts DEF Lab, Move
  <2>2. CpuOwns' = CpuOwns /\ ActiveFence' = ActiveFence
    BY <1>1, <1>2, <1>3, ThreadFacts DEF CpuOwns, Lab, Move, schedulerVars
  <2>3. Lab(r)' = "Complete"
    BY <1>2 DEF Lab, Move
  <2> QED BY <1>3, <1>6, <1>8, <2>1, <2>2, <2>3 DEF IInv, OwnInv, OwnMarks, HolderLabels
<1>14. DeliveryInv'
  <2>1. Preemption' = Preemption
    BY <1>3 DEF schedulerVars
  <2>2. "Complete" \notin DeliveryLabels
    BY DEF DeliveryLabels
  <2> QED BY <1>1, <1>2, <1>3, <2>1, <2>2, DeliveryKept
<1> QED BY <1>2, <1>7, <1>9, <1>11, <1>12, <1>13, <1>14 DEF IInv, Control, Move

\* The worker stops polling because a reset quiesces.
LEMMA PollAbandonStep ==
    ASSUME IInv, NEW r \in RenderWorkers, PollAbandon(r)
    PROVE  IInv' /\ SchedulerCall
<1>1. /\ Controlled(pc) /\ r \in Threads
      /\ pc[r] # <<>> /\ Head(pc[r]) = "Poll"
      /\ pc' = [pc EXCEPT ![r] = <<"Finish">> \o Tail(pc[r])]
    BY ThreadFacts DEF PollAbandon, At, Goto, IInv, Control
<1>2. Moved(pc, pc', r) /\ Top(pc'[r]) = "Finish"
    BY <1>1, GotoPlain, Jumps, PlainJumps
<1>3. Relocated(loc, loc', r)
    BY <1>1, LocalFacts DEF PollAbandon, IInv
<1> QED BY <1>1, <1>2, <1>3, MovedStep DEF PollAbandon, cpuVars, renderVars, osVars, SubmitLabels

\* WorkScheduled is cleared ...
LEMMA WorkerFinishedStep ==
    ASSUME IInv, NEW r \in RenderWorkers, WorkerFinished(r)
    PROVE  IInv' /\ SchedulerCall
<1>1. /\ Controlled(pc) /\ r \in Threads /\ r # V /\ r # D
      /\ pc[r] # <<>> /\ Head(pc[r]) = "Finish"
      /\ pc' = [pc EXCEPT ![r] = <<"FinishReset">> \o Tail(pc[r])]
    BY ThreadFacts DEF WorkerFinished, At, Goto, IInv, Control
<1>2. Move(pc, pc', r, "Finish", "FinishReset")
    BY <1>1, GotoMoves, Jumps
<1>3. /\ Platform' = [Platform EXCEPT !.WorkScheduled = FALSE]
      /\ loc' = [loc EXCEPT ![r] = NoLocals]
      /\ UNCHANGED <<schedulerVars, CpuQueue, Paging, PagingIdle, RenderPacket, G4Pending,
                     Preempting, Used>>
    BY DEF WorkerFinished, cpuVars, renderVars, osVars
<1>4. Relocated(loc, loc', r)
    BY <1>1, <1>3, LocalFacts DEF IInv
<1>6. /\ DOMAIN Platform' = PlatformFields
      /\ Platform'.Phase = Platform.Phase
      /\ Platform'.WorkScheduled = FALSE
      /\ Platform'.WorkQueued = Platform.WorkQueued
      /\ Platform'.WorkIdle = Platform.WorkIdle
      /\ Platform'.Resetting = Platform.Resetting
    BY <1>3 DEF IInv, Records, PlatformFields
<1>7. SchedulerCall /\ SchedTyped'
    BY <1>3, CallTyped DEF IInv, SchedulerCall
<1>9. Records'
    BY <1>1, <1>2, <1>3, <1>4, <1>6, RecordsKept DEF IInv, Records
<1>11. CpuInv'
    BY <1>1, <1>2, <1>3, CpuKept DEF CpuMarks, PagingLabels
<1>12. WorkInv'
  <2>1. /\ ~Platform.WorkQueued /\ \A q \in RenderWorkers \ {r} : Lab(q) \notin WorkingLabels
    BY <1>2 DEF IInv, WorkInv, Move, Lab, WorkingLabels, WorkLabels
  <2>2. /\ Top(pc[r]) = "Finish" /\ Top(pc'[r]) = "FinishReset"
        /\ \A u \in Threads \ {r} : pc'[u] = pc[u]
    BY <1>2 DEF Move
  <2>3. "FinishReset" \notin WorkingLabels
    BY DEF WorkingLabels, WorkLabels, CompleteLabels
  <2> QED BY <1>1, <1>6, <2>1, <2>2, <2>3, ThreadFacts DEF IInv, WorkInv, Lab
<1>13. OwnInv'
    BY <1>1, <1>2, <1>3, <1>4, <1>6, OwnKept
       DEF OwnMarks, HolderLabels, schedulerVars, Relocated
<1>14. DeliveryInv'
  <2>1. Preemption' = Preemption
    BY <1>3 DEF schedulerVars
  <2>2. "FinishReset" \notin DeliveryLabels
    BY DEF DeliveryLabels
  <2> QED BY <1>1, <1>2, <1>3, <2>1, <2>2, DeliveryKept
<1> QED BY <1>2, <1>7, <1>9, <1>11, <1>12, <1>13, <1>14 DEF IInv, Control, Move

\* ... a reset is looked for ...
LEMMA WorkerTestResetStep ==
    ASSUME IInv, NEW r \in RenderWorkers, WorkerTestReset(r)
    PROVE  IInv' /\ SchedulerCall
<1>1. /\ Controlled(pc) /\ r \in Threads
      /\ pc[r] # <<>> /\ Head(pc[r]) = "FinishReset"
    BY ThreadFacts DEF WorkerTestReset, At, IInv, Control
<1>2. \E to \in {"Leave", "FinishRetry"} :
        pc' = [pc EXCEPT ![r] = <<to>> \o Tail(pc[r])]
    BY DEF WorkerTestReset, Goto
<1>3. Moved(pc, pc', r) /\ Top(pc'[r]) \in {"Leave", "FinishRetry"}
    BY <1>1, <1>2, GotoPlain, Jumps, PlainJumps
<1>4. Relocated(loc, loc', r)
    BY <1>1, LocalFacts DEF WorkerTestReset, IInv
<1> QED BY <1>1, <1>3, <1>4, MovedStep DEF WorkerTestReset, cpuVars, renderVars, osVars, SubmitLabels

\* ... a deferred notification or dispatch is retried ...
LEMMA WorkerRetryNotifyStep ==
    ASSUME IInv, NEW r \in RenderWorkers, WorkerRetryNotify(r)
    PROVE  IInv' /\ SchedulerCall
<1>1. /\ Controlled(pc) /\ r \in Threads /\ r # V /\ r # D /\ r \notin PagingWorkers
      /\ pc[r] # <<>> /\ Head(pc[r]) = "FinishRetry" /\ Top(pc[r]) = "FinishRetry"
    BY ThreadFacts DEF WorkerRetryNotify, At, IInv, Control, Top
<1>2. PICK n : /\ pc' = [pc EXCEPT ![r] = n]
               /\ n \in {<<"TryNotify", "Dispatch", "Leave">>, <<"Dispatch", "Leave">>}
    BY DEF WorkerRetryNotify
<1>3. n \in Seq(Label) /\ n # <<>> /\ StackOK(r, n) /\ Top(n) \in {"TryNotify", "Dispatch"}
  <2>0. "TryNotify" \in Label /\ "Dispatch" \in Label /\ "Leave" \in Label
    BY DEF Label, NotifyLabels, DispatchLabels, WorkerFrame, LeaveLabels
  <2>1. CASE n = <<"Dispatch", "Leave">>
    <3>1. n \in Seq(Label) /\ n # <<>>
      BY <2>0, <2>1, Double
    <3> QED BY <1>1, <2>1, <3>1, Belows DEF StackOK
  <2>2. CASE n = <<"TryNotify", "Dispatch", "Leave">>
    <3>1. /\ n \in Seq(Label) /\ n # <<>>
          /\ Head(n) = "TryNotify" /\ Tail(n) = <<"Dispatch", "Leave">>
      BY <2>0, <2>2, Triple
    <3>2. Top(n) = "TryNotify" /\ Frame(n, DispatchFrame, <<"Dispatch", "Leave">>)
      BY <3>1 DEF Top, Frame, DispatchFrame, NotifyLabels
    <3> QED BY <1>1, <3>1, <3>2 DEF StackOK
  <2> QED BY <1>2, <2>1, <2>2
<1>4. Move(pc, pc', r, Top(pc[r]), Top(n))
    BY <1>1, <1>2, <1>3, SetMoves
<1>5. Moved(pc, pc', r) /\ Top(pc'[r]) \in {"TryNotify", "Dispatch"}
    BY <1>1, <1>3, <1>4, PlainJumps DEF Move, Moved
<1>6. Relocated(loc, loc', r)
    BY <1>1, LocalFacts DEF WorkerRetryNotify, IInv
<1> QED BY <1>1, <1>5, <1>6, MovedStep
        DEF WorkerRetryNotify, cpuVars, renderVars, osVars, SubmitLabels

\* ... and WorkIdle is set by the last worker to leave.
LEMMA WorkerLeaveStep ==
    ASSUME IInv, NEW r \in RenderWorkers, WorkerLeave(r)
    PROVE  IInv' /\ SchedulerCall
<1>1. /\ Controlled(pc) /\ r \in Threads /\ r # V /\ r # D
      /\ pc[r] # <<>> /\ Head(pc[r]) = "Leave"
      /\ pc' = [pc EXCEPT ![r] = Tail(pc[r])]
    BY ThreadFacts DEF WorkerLeave, At, Return, IInv, Control
<1>0. Move(pc, pc', r, "Leave", Top(pc'[r])) /\ Popped(r, "Leave", Top(pc'[r]))
    BY <1>1, ReturnMoves
<1>2. Move(pc, pc', r, "Leave", "")
    BY <1>0 DEF Popped, WorkerFrame, LeaveLabels
<1>3. /\ Platform' = [Platform EXCEPT !.WorkIdle =
                        \/ Platform.WorkIdle
                        \/ /\ ~Platform.WorkScheduled
                           /\ \A other \in RenderWorkers \ {r} : ~Running(other)]
      /\ UNCHANGED <<schedulerVars, CpuQueue, Paging, PagingIdle, RenderPacket, G4Pending,
                     Preempting, Used, loc>>
    BY DEF WorkerLeave, cpuVars, osVars
<1>4. Relocated(loc, loc', r)
    BY <1>1, <1>3, LocalFacts DEF IInv
<1>6. /\ DOMAIN Platform' = PlatformFields
      /\ Platform'.Phase = Platform.Phase
      /\ Platform'.WorkScheduled = Platform.WorkScheduled
      /\ Platform'.WorkQueued = Platform.WorkQueued
      /\ Platform'.Resetting = Platform.Resetting
      /\ Platform'.WorkIdle => \/ Platform.WorkIdle
                             \/ /\ ~Platform.WorkScheduled
                                /\ \A other \in RenderWorkers \ {r} : ~Running(other)
    BY <1>3 DEF IInv, Records, PlatformFields
<1>7. SchedulerCall /\ SchedTyped'
    BY <1>3, CallTyped DEF IInv, SchedulerCall
<1>9. Records'
    BY <1>1, <1>2, <1>3, <1>4, <1>6, RecordsKept DEF IInv, Records
<1>11. CpuInv'
    BY <1>1, <1>2, <1>3, CpuKept DEF CpuMarks, PagingLabels
<1>12. WorkInv'
  <2>1. Top(pc[r]) = "Leave" /\ Top(pc'[r]) = "" /\ \A u \in Threads \ {r} : pc'[u] = pc[u]
    BY <1>2 DEF Move
  <2>2. ~Platform.WorkIdle /\ Top(pc[V]) \notin PollingLabels
    BY <2>1 DEF IInv, WorkInv, Lab
  <2>3. "" \notin WorkingLabels
    BY DEF WorkingLabels, WorkLabels, CompleteLabels
  <2>4. \A q \in RenderWorkers : ~Running(q) => Top(pc[q]) = ""
    BY DEF Running, Top
  <2>5. Platform'.WorkIdle =>
          ~Platform'.WorkQueued /\ \A q \in RenderWorkers : Top(pc'[q]) = ""
    <3>1. HAVE Platform'.WorkIdle
    <3>2. /\ ~Platform.WorkScheduled
          /\ \A other \in RenderWorkers \ {r} : ~Running(other)
      BY <1>6, <2>2, <3>1
    <3>3. ~Platform'.WorkQueued
      BY <1>6, <3>2 DEF IInv, WorkInv
    <3>4. ASSUME NEW q \in RenderWorkers PROVE Top(pc'[q]) = ""
      <4>1. CASE q = r
        BY <2>1, <4>1
      <4>2. CASE q # r
        <5>1. pc'[q] = pc[q] /\ Top(pc[q]) = ""
          BY <2>1, <2>4, <3>2, <4>2, ThreadFacts
        <5> QED BY <5>1
      <4> QED BY <4>1, <4>2
    <3> QED BY <3>3, <3>4
  <2>6. \A q \in RenderWorkers : Top(pc'[q]) \in WorkingLabels =>
          /\ Platform'.WorkScheduled /\ ~Platform'.WorkQueued
          /\ \A o \in RenderWorkers \ {q} : Top(pc'[o]) \notin WorkingLabels
    BY <1>1, <1>6, <2>1, <2>3, ThreadFacts DEF IInv, WorkInv, Lab
  <2>7. Platform'.WorkQueued => Platform'.WorkScheduled
    BY <1>6 DEF IInv, WorkInv
  <2>8. Top(pc'[V]) = "QuiesceWait" => Platform'.Resetting
    BY <1>1, <1>6, <2>1, ThreadFacts DEF IInv, WorkInv, Lab
  <2> QED BY <1>1, <2>1, <2>2, <2>5, <2>6, <2>7, <2>8, ThreadFacts DEF WorkInv, Lab
<1>13. OwnInv'
    BY <1>1, <1>2, <1>3, <1>4, <1>6, OwnKept
       DEF OwnMarks, HolderLabels, schedulerVars, Relocated
<1>14. DeliveryInv'
  <2>1. Preemption' = Preemption
    BY <1>3 DEF schedulerVars
  <2>2. "" \notin DeliveryLabels
    BY DEF DeliveryLabels
  <2> QED BY <1>1, <1>2, <1>3, <2>1, <2>2, DeliveryKept
<1> QED BY <1>2, <1>7, <1>9, <1>11, <1>12, <1>13, <1>14 DEF IInv, Control, Move

-----------------------------------------------------------------------------
(* AdmissionBackendComplete.                                               *)

\* The completing thread finds its packet still active, gives the fence back
\* and empties the slot.
LEMMA CompleteCommitStep ==
    ASSUME IInv, NEW t \in Threads, CompleteCommit(t)
    PROVE  IInv' /\ SchedulerCall
<1>1. /\ Controlled(pc) /\ pc[t] # <<>> /\ Head(pc[t]) = "Complete" /\ Top(pc[t]) = "Complete"
    BY DEF CompleteCommit, At, IInv, Control, Top
<1>2. t \in RenderWorkers \cup {V}
    BY <1>1, CompleteAt DEF CompleteLabels
<1>3. Lab(t) \in HolderLabels /\ Lab(t) = "Complete"
    BY <1>1 DEF Lab, HolderLabels
<1>4. /\ RenderPacket.State = "Active" /\ Platform.Phase # "Submitted" /\ ~CpuOwns
      /\ \A u \in RenderWorkers \cup {V} : Lab(u) \in OwnMarks => u = t
  <2>1. RenderPacket.State = "Active" /\ Platform.Phase # "Submitted" /\ ~CpuOwns
    BY <1>2, <1>3 DEF IInv, OwnInv
  <2>2. \A u \in RenderWorkers \cup {V} : Lab(u) \notin {"BindQueue", "QueuePacket"}
    BY <2>1 DEF IInv, OwnInv
  <2> QED BY <1>2, <1>3, <2>1, <2>2, SoleHolder DEF OwnMarks
<1>5. UNCHANGED <<CpuQueue, Paging, PagingIdle, G4Pending, Preempting, Used>>
    BY DEF CompleteCommit, cpuVars, osVars
<1>6. CASE /\ Sched!RecordCompletion(loc[t].Job)
           /\ loc' = [loc EXCEPT ![t].Context = RenderPacket.Context]
           /\ RenderPacket' = EmptyPacket /\ Platform' = Platform
           /\ pc' = [pc EXCEPT ![t] = <<"Report">> \o Tail(pc[t])]
  <2>1. Move(pc, pc', t, "Complete", "Report")
    BY <1>1, <1>6, GotoMoves, Jumps
  <2>2. Relocated(loc, loc', t)
    BY <1>6, LocalFacts DEF IInv
  <2>3. /\ ActiveFence = loc[t].Job /\ ActiveFence' = NoFence
        /\ Preemption' = Preemption \/ /\ Preemption.Phase = Sched!WaitCurrentBoundary
                                       /\ Preemption'.Phase = Sched!ReadyToNotify
    BY <1>6 DEF Sched!RecordCompletion, Sched!SchedRecordCompletion, Sched!BoundaryObserved,
                Sched!CanCompleteActiveFence, IInv, SchedTyped, NoFence, Sched!NoFence
  <2>4. SchedulerCall /\ SchedTyped'
    BY <1>6, <2>3, CallTyped DEF IInv, SchedulerCall, SchedTyped
  <2>5. DOMAIN RenderPacket' = {"State", "Fence", "Context"} /\ RenderPacket'.State = "Empty"
    BY <1>6 DEF EmptyPacket
  <2>6. Records'
    BY <1>5, <1>6, <2>1, <2>2, <2>5, RecordsKept
       DEF IInv, Records, SubmitLabels
  <2>7. CpuInv'
    BY <1>5, <2>1, CpuKept DEF CpuMarks, PagingLabels
  <2>8. WorkInv'
    BY <1>6, <2>1, WorkKept DEF WorkingLabels, PollingLabels, CompleteLabels
  <2>9. OwnInv'
    <3>1. "Report" \notin OwnMarks
      BY DEF OwnMarks, HolderLabels
    <3>2. \A u \in RenderWorkers \cup {V} : Top(pc'[u]) \notin OwnMarks
      BY <1>4, <2>1, <3>1, ThreadFacts DEF Move, Lab
    <3>3. CpuOwns' = CpuOwns
      BY <1>5, <2>1, ThreadFacts DEF CpuOwns, Lab, Move
    <3> QED BY <1>4, <1>6, <2>3, <2>5, <3>2, <3>3 DEF OwnInv, Lab, OwnMarks, HolderLabels
  <2>10. DeliveryInv'
    <3>1. /\ Top(pc'[t]) = "Report" /\ \A u \in Threads \ {t} : pc'[u] = pc[u]
      BY <2>1 DEF Move
    <3> QED BY <1>1, <1>5, <2>3, <3>1, ThreadFacts
            DEF IInv, DeliveryInv, Lab, DeliveryLabels, ResettingLabels, CompleteLabels,
                Sched!WaitCurrentBoundary, Sched!ReadyToNotify, Sched!NotificationClaimed
  <2> QED BY <2>1, <2>4, <2>6, <2>7, <2>8, <2>9, <2>10 DEF IInv, Control, Move
<1>7. CASE /\ Platform' = [Platform EXCEPT !.Phase = "Submitted"]
           /\ pc' = [pc EXCEPT ![t] = Tail(pc[t])]
           /\ UNCHANGED <<schedulerVars, RenderPacket, loc>>
  <2>1. Move(pc, pc', t, "Complete", Top(pc'[t])) /\ Popped(t, "Complete", Top(pc'[t]))
    BY <1>1, <1>7, ReturnMoves
  <2>2. PICK to \in {"Finish", "QuiesceCheck"} : to = Top(pc'[t])
    BY <2>1 DEF Popped, CompleteLabels
  <2>3a. Move(pc, pc', t, "Complete", to)
    BY <2>1, <2>2
  <2>4. /\ DOMAIN Platform' = PlatformFields /\ Platform'.Phase = "Submitted"
        /\ Platform'.WorkScheduled = Platform.WorkScheduled
        /\ Platform'.WorkQueued = Platform.WorkQueued
        /\ Platform'.WorkIdle = Platform.WorkIdle /\ Platform'.Resetting = Platform.Resetting
    BY <1>7 DEF IInv, Records, PlatformFields
  <2>5. SchedulerCall /\ SchedTyped'
    BY <1>7, CallTyped DEF IInv, SchedulerCall
  <2>5a. Relocated(loc, loc', t)
    BY <1>7, LocalFacts DEF IInv
  <2>6. Records'
    BY <1>5, <1>7, <2>2, <2>3a, <2>4, <2>5a, RecordsKept
       DEF IInv, Records, SubmitLabels
  <2>7. CpuInv'
    BY <1>5, <2>2, <2>3a, CpuKept DEF CpuMarks, PagingLabels
  <2>8. WorkInv'
    BY <2>2, <2>3a, <2>4, WorkKept
       DEF WorkingLabels, PollingLabels, CompleteLabels
  <2>9. OwnInv'
    <3>1. to \notin OwnMarks
      BY <2>2 DEF OwnMarks, HolderLabels
    <3>2. \A u \in RenderWorkers \cup {V} : Top(pc'[u]) \notin OwnMarks
      BY <1>4, <2>3a, <3>1, ThreadFacts DEF Move, Lab
    <3>3. CpuOwns' = CpuOwns /\ ActiveFence' = ActiveFence
      BY <1>5, <1>7, <2>2, <2>3a, ThreadFacts
         DEF CpuOwns, Lab, Move, schedulerVars
    <3> QED BY <1>4, <1>5, <1>7, <2>4, <3>2, <3>3 DEF IInv, OwnInv, Lab, OwnMarks, HolderLabels
  <2>10. DeliveryInv'
    <3>1. Preemption' = Preemption
      BY <1>7 DEF schedulerVars
    <3>2. to \notin DeliveryLabels /\ "Complete" \in ResettingLabels
      BY <2>2 DEF DeliveryLabels, ResettingLabels, CompleteLabels
    <3> QED BY <1>5, <2>3a, <3>1, <3>2, DeliveryKept
  <2> QED BY <2>1, <2>5, <2>6, <2>7, <2>8, <2>9, <2>10 DEF IInv, Control, Move
<1> QED BY <1>6, <1>7 DEF CompleteCommit, Goto, Return

\* DMA_COMPLETED is reported outside the lock ...
LEMMA CompleteReportStep ==
    ASSUME IInv, NEW t \in Threads, CompleteReport(t)
    PROVE  IInv' /\ SchedulerCall
<1>1. /\ Controlled(pc) /\ t \in Threads
      /\ pc[t] # <<>> /\ Head(pc[t]) = "Report"
      /\ pc' = [pc EXCEPT ![t] = <<"Retire">> \o Tail(pc[t])]
    BY DEF CompleteReport, At, Goto, IInv, Control
<1>2. Moved(pc, pc', t) /\ Top(pc'[t]) = "Retire"
    BY <1>1, GotoPlain, Jumps, PlainJumps
<1>3. Relocated(loc, loc', t)
    BY <1>1, LocalFacts DEF CompleteReport, IInv
<1> QED BY <1>1, <1>2, <1>3, MovedStep DEF CompleteReport, cpuVars, renderVars, osVars, SubmitLabels

\* ... and the context released.
LEMMA CompleteRetireStep ==
    ASSUME IInv, NEW t \in Threads, CompleteRetire(t)
    PROVE  IInv' /\ SchedulerCall
<1>1. /\ Controlled(pc)
      /\ pc[t] # <<>> /\ Head(pc[t]) = "Retire"
      /\ pc' = [pc EXCEPT ![t] = Tail(pc[t])]
    BY DEF CompleteRetire, At, Return, IInv, Control
<1>2. Move(pc, pc', t, "Retire", Top(pc'[t])) /\ Popped(t, "Retire", Top(pc'[t]))
    BY <1>1, ReturnMoves
<1>3. Top(pc'[t]) \in {"Finish", "QuiesceCheck"}
    BY <1>2 DEF Popped, CompleteLabels
<1>4. Moved(pc, pc', t)
    BY <1>2, <1>3, PlainJumps DEF Move, Moved
<1>5. Relocated(loc, loc', t)
    BY LocalFacts DEF CompleteRetire, IInv
<1> QED BY <1>3, <1>4, <1>5, MovedStep DEF CompleteRetire, cpuVars, renderVars, osVars, SubmitLabels

-----------------------------------------------------------------------------
(* VidSch's submissions.                                                   *)

\* AdmissionCpuQueueSubmit: a packet that joins the CPU queue clears
\* PagingIdle.
LEMMA CpuAppended ==
    ASSUME IInv, NEW fence \in 1 .. MaxFence, NEW context \in Contexts \cup {NoContext},
           CpuQueueAppend(fence, context), SchedulerCall,
           ActiveFence' = ActiveFence, Preemption' = Preemption
    PROVE  IInv' /\ SchedulerCall
<1>1. /\ Controlled(pc) /\ V \in Threads /\ V \notin RenderWorkers /\ V # D /\ V \notin PagingWorkers
      /\ pc[V] = <<>> /\ pc' = [pc EXCEPT ![V] = <<"Dispatch">>]
    BY ThreadFacts DEF CpuQueueAppend, Enter, Running, IInv, Control
<1>2. Move(pc, pc', V, "", "Dispatch")
  <2>1. "Dispatch" \in VidSchFrame
    BY DEF VidSchFrame, DispatchFrame, DispatchLabels
  <2> QED BY <1>1, <2>1, Entered, EnterMoves
<1>3. /\ CpuQueue' = Append(CpuQueue, [Fence |-> fence, Context |-> context])
      /\ PagingIdle' = FALSE
      /\ UNCHANGED <<Paging, RenderPacket, G4Pending, Platform, Preempting, Used, loc>>
    BY DEF CpuQueueAppend, renderVars, osVars
<1>4. Relocated(loc, loc', V)
    BY <1>1, <1>3, LocalFacts DEF IInv
<1>6. CpuQueue' \in Seq(CpuPacketType) /\ CpuQueue' # <<>>
  <2>1. CpuQueue \in Seq(CpuPacketType) /\ [Fence |-> fence, Context |-> context] \in CpuPacketType
    BY DEF IInv, Records, CpuPacketType
  <2> QED BY <1>3, <2>1
<1>7. SchedulerCall /\ SchedTyped'
    BY CallTyped DEF IInv
<1>9. Records'
    BY <1>1, <1>2, <1>3, <1>4, <1>6, RecordsKept
       DEF IInv, Records, SubmitLabels
<1>11. CpuInv'
  <2>1. SameCpuLabels(pc, pc')
    BY <1>1, <1>2, CpuLabels DEF Move, CpuMarks, PagingLabels
  <2>2. PagingToken'
    BY <1>3, <2>1
       DEF IInv, CpuInv, PagingToken, Executing, DpcTook, Lab, SameCpuLabels
  <2>3. PagingQuiet' = FALSE
    BY <1>6 DEF PagingQuiet
  <2> QED BY <1>3, <2>2, <2>3 DEF CpuInv
<1>12. WorkInv'
    BY <1>1, <1>2, <1>3, WorkKept DEF PollingLabels, CompleteLabels
<1>13. OwnInv'
    BY <1>1, <1>2, <1>3, <1>4, OwnKept DEF OwnMarks, HolderLabels, Relocated
<1>14. DeliveryInv'
  <2>1. "Dispatch" \notin DeliveryLabels /\ "Dispatch" \notin ResettingLabels
    BY DEF DeliveryLabels, ResettingLabels, QuiesceLabels, ResetLabels,
           CompleteLabels
  <2> QED BY <1>1, <1>2, <1>3, <2>1, DeliveryKept
<1> QED BY <1>2, <1>7, <1>9, <1>11, <1>12, <1>13, <1>14 DEF IInv, Control, Move

\* Queueing a fence is a call the scheduler knows, and leaves the active fence
\* and the preemption alone.
LEMMA Queued ==
    ASSUME NEW fence \in 1 .. MaxFence, NEW paging \in BOOLEAN, Sched!QueueFence(fence, paging)
    PROVE  SchedulerCall /\ ActiveFence' = ActiveFence /\ Preemption' = Preemption
<1>1. SchedulerCall
    BY DEF SchedulerCall
<1>2. ActiveFence' = ActiveFence /\ Preemption' = Preemption
    BY DEF Sched!QueueFence, Sched!SchedQueueFence
<1> QED BY <1>1, <1>2

\* A paging or touch packet.
LEMMA SubmitCpuStep ==
    ASSUME IInv, NEW kind, SubmitCpu(kind)
    PROVE  IInv' /\ SchedulerCall
<1>1. /\ CpuQueueAppend(NewFence, NoContext) /\ NewFence <= MaxFence
      /\ Sched!QueueFence(NewFence, kind = "paging")
    BY DEF SubmitCpu, MaySubmitNew
<1>2. NewFence \in 1 .. MaxFence
    BY <1>1, WindowAssumption, HalfRangeAssumption
       DEF NewFence, IInv, SchedTyped
<1>3. SchedulerCall /\ ActiveFence' = ActiveFence /\ Preemption' = Preemption
    BY <1>1, <1>2, Queued
<1> QED BY <1>1, <1>2, <1>3, CpuAppended

\* A present, which also takes its context.
LEMMA SubmitPresentStep ==
    ASSUME IInv, NEW c \in Contexts, SubmitPresent(c)
    PROVE  IInv' /\ SchedulerCall
<1>1. /\ CpuQueueAppend(NewFence, c) /\ NewFence <= MaxFence
      /\ Sched!QueueFence(NewFence, FALSE)
    BY DEF SubmitPresent, MaySubmitNew
<1>2. NewFence \in 1 .. MaxFence
    BY <1>1, WindowAssumption, HalfRangeAssumption
       DEF NewFence, IInv, SchedTyped
<1>3. SchedulerCall /\ ActiveFence' = ActiveFence /\ Preemption' = Preemption
    BY <1>1, <1>2, Queued
<1> QED BY <1>1, <1>2, <1>3, CpuAppended

\* A paging packet submitted again after a preemption or a reset.
LEMMA ResubmitPagingStep ==
    ASSUME IInv, ResubmitPaging
    PROVE  IInv' /\ SchedulerCall
<1>1. PICK fence \in Owed : /\ CpuQueueAppend(fence, NoContext)
                            /\ Sched!QueueResubmittedPagingFence(fence)
    BY DEF ResubmitPaging
<1>2. fence \in 1 .. MaxFence
    BY <1>1 DEF IInv, SchedTyped
<1>3. SchedulerCall /\ ActiveFence' = ActiveFence /\ Preemption' = Preemption
  <2>1. SchedulerCall
    BY <1>1 DEF SchedulerCall
  <2>2. ActiveFence' = ActiveFence /\ Preemption' = Preemption
    BY <1>1
       DEF Sched!QueueResubmittedPagingFence,
           Sched!SchedQueueResubmittedPagingFence
  <2> QED BY <2>1, <2>2
<1> QED BY <1>1, <1>2, <1>3, CpuAppended

\* A virtual submission starts with its fence and context.
LEMMA SubmitRenderStep ==
    ASSUME IInv, NEW c \in Contexts, SubmitRender(c)
    PROVE  IInv' /\ SchedulerCall
<1>1. /\ Controlled(pc) /\ V \in Threads /\ V \notin RenderWorkers /\ V \notin PagingWorkers
      /\ V # D /\ pc[V] = <<>>
    BY ThreadFacts DEF SubmitRender, Enter, Running, IInv, Control
<1>2. PICK to \in {"Admissible", "AwaitReady"} : pc' = [pc EXCEPT ![V] = <<to>>]
    BY DEF SubmitRender, Enter
<1>3. to \in Label /\ to # "" /\ StackOK(V, <<to>>)
  <2>1. to \in Label /\ to # "" /\ to \in VidSchFrame
    BY <1>2 DEF Label, HostLabels, SubmitLabels, VidSchFrame
  <2>2. Frame(<<to>>, VidSchFrame, <<>>)
    BY <2>1, Single DEF Frame
  <2> QED BY <1>1, <2>1, <2>2 DEF StackOK
<1>4. Move(pc, pc', V, "", to)
    BY <1>1, <1>2, <1>3, EnterMoves
<1>5. /\ loc' = [loc EXCEPT ![V].Job = NewFence, ![V].Context = c,
                 ![V].Flag = Platform.WorkScheduled \/ Platform.Phase = "Submitted"]
      /\ NewFence <= MaxFence
      /\ UNCHANGED <<schedulerVars, cpuVars, RenderPacket, G4Pending, Platform, Preempting, Used>>
    BY DEF SubmitRender, MaySubmitNew, renderVars, osVars
<1>6. NewFence \in 1 .. MaxFence
    BY <1>5, WindowAssumption, HalfRangeAssumption
       DEF NewFence, IInv, SchedTyped
<1>7. Relocated(loc, loc', V) /\ loc'[V].Job = NewFence /\ loc'[V].Context = c
    BY <1>1, <1>5, LocalFacts DEF IInv, LocalFields, Relocated
<1>8. SchedulerCall /\ SchedTyped'
    BY <1>5, CallTyped DEF IInv, SchedulerCall
<1>9. Records'
    BY <1>5, <1>6, <1>7 DEF IInv, Records, Relocated, cpuVars
<1>10. /\ "" \notin CpuMarks
       /\ to \notin CpuMarks \cup OwnMarks \cup DeliveryLabels \cup PollingLabels \cup ResettingLabels
    BY <1>2 DEF CpuMarks, OwnMarks, HolderLabels, DeliveryLabels, PollingLabels,
                ResettingLabels, PagingLabels, CompleteLabels, QuiesceLabels, ResetLabels
<1>11. CpuInv'
    BY <1>1, <1>4, <1>5, <1>10, CpuFrame DEF IInv, Move, cpuVars
<1>12. WorkInv'
    BY <1>1, <1>2, <1>4, <1>5, <1>10, WorkFrame DEF IInv, Move
<1>13. OwnInv'
  <2>1. "" # "PagingRun" /\ to # "PagingRun"
    BY <1>2
  <2>2. ActiveFence' = ActiveFence /\ Paging' = Paging
    BY <1>5 DEF schedulerVars, cpuVars
  <2> QED BY <1>1, <1>4, <1>5, <1>7, <1>10, <2>1, <2>2, OwnFrame DEF IInv, Move, Relocated
<1>14. DeliveryInv'
    BY <1>1, <1>4, <1>5, <1>10, DeliveryFrame DEF IInv, Move, schedulerVars
<1> QED BY <1>4, <1>8, <1>9, <1>11, <1>12, <1>13, <1>14 DEF IInv, Control, Move

\* It is queued behind the slot, or waits for it.
LEMMA SubmitAdmissibleStep ==
    ASSUME IInv, SubmitAdmissible
    PROVE  IInv' /\ SchedulerCall
<1>1. /\ Controlled(pc) /\ V \in Threads /\ V \notin RenderWorkers
      /\ pc[V] # <<>> /\ Head(pc[V]) = "Admissible"
    BY ThreadFacts DEF SubmitAdmissible, At, IInv, Control
<1>2. \E to \in {"PendingReserve", "AwaitReady"} :
        pc' = [pc EXCEPT ![V] = <<to>> \o Tail(pc[V])]
    BY DEF SubmitAdmissible, Goto
<1>3. Moved(pc, pc', V)
    BY <1>1, <1>2, GotoPlain, Jumps, PlainJumps
<1>4. loc' = [loc EXCEPT ![V].Flag = FALSE]
    BY DEF SubmitAdmissible
<1>5. Relocated(loc, loc', V)
    BY <1>1, <1>4, LocalFacts DEF IInv
<1>6. loc'[V].Job = loc[V].Job /\ loc'[V].Context = loc[V].Context
    BY <1>1, <1>4, LocalFacts DEF IInv, LocalFields
<1> QED BY <1>1, <1>3, <1>5, <1>6, MovedStep DEF SubmitAdmissible, cpuVars, renderVars, osVars

\* The pending entry is reserved ...
LEMMA PendingReserveStep ==
    ASSUME IInv, PendingReserve
    PROVE  IInv' /\ SchedulerCall
<1>1. /\ Controlled(pc) /\ V \in Threads /\ V \notin RenderWorkers
      /\ pc[V] # <<>> /\ Head(pc[V]) = "PendingReserve"
    BY ThreadFacts DEF PendingReserve, At, IInv, Control
<1>2. CASE PendingRoom(loc[V].Context)
  <2>1. pc' = [pc EXCEPT ![V] = <<"PendingPublish">> \o Tail(pc[V])] /\ loc' = loc
    BY <1>2 DEF PendingReserve, Goto
  <2>2. Moved(pc, pc', V)
    BY <1>1, <2>1, GotoPlain, Jumps, PlainJumps
  <2>3. Relocated(loc, loc', V)
    BY <1>1, <2>1, LocalFacts DEF IInv
  <2> QED BY <1>1, <2>1, <2>2, <2>3, MovedStep DEF PendingReserve, cpuVars, renderVars, osVars
<1>3. CASE ~PendingRoom(loc[V].Context)
  <2>1. pc' = [pc EXCEPT ![V] = Tail(pc[V])] /\ loc' = [loc EXCEPT ![V] = NoLocals]
    BY <1>3 DEF PendingReserve, Reject, Return
  <2>2. Move(pc, pc', V, "PendingReserve", "")
    BY <1>1, <2>1, HostReturn DEF HostLabels, SubmitLabels
  <2>3. Moved(pc, pc', V) /\ Top(pc'[V]) = ""
    BY <1>1, <2>2, PlainJumps DEF Move, Moved
  <2>4. Relocated(loc, loc', V)
    BY <1>1, <2>1, LocalFacts DEF IInv
  <2> QED BY <1>1, <2>3, <2>4, MovedStep DEF PendingReserve, cpuVars, renderVars, osVars, SubmitLabels
<1> QED BY <1>2, <1>3

\* VidSch's own steps leave the CPU packet where it is.
LEMMA HostKeepsCpu ==
    ASSUME NEW from, NEW to, Move(pc, pc', V, from, to), Paging' = Paging
    PROVE  CpuOwns' = CpuOwns
<1>1. \A p \in PagingWorkers : pc'[p] = pc[p]
    BY ThreadFacts DEF Move
<1> QED BY <1>1 DEF CpuOwns, Lab

\* A published entry goes to the tail of the ring.
LEMMA PendingAppended ==
    ASSUME IInv, NEW entry \in PendingType, G4Pending' = Append(G4Pending, entry)
    PROVE  /\ G4Pending' \in Seq(PendingType) /\ G4Pending' # <<>>
           /\ G4Pending # <<>> => Head(G4Pending') = Head(G4Pending)
    BY DEF IInv, Records

\* ... and published with its fence: the head the worker may be binding stays
\* the head.
LEMMA PendingPublishStep ==
    ASSUME IInv, PendingPublish
    PROVE  IInv' /\ SchedulerCall
<1>1. /\ Controlled(pc) /\ V \in Threads /\ V \notin RenderWorkers /\ V # D /\ V \notin PagingWorkers
      /\ pc[V] # <<>> /\ Head(pc[V]) = "PendingPublish"
    BY ThreadFacts DEF PendingPublish, At, IInv, Control
<1>2. PICK to \in {"Dispatch", ""} : Move(pc, pc', V, "PendingPublish", to)
  <2>1. CASE Sched!MayQueueFence(loc[V].Job)
    <3>1. pc' = [pc EXCEPT ![V] = <<"Dispatch">> \o Tail(pc[V])]
      BY <2>1 DEF PendingPublish, Goto
    <3> QED BY <1>1, <3>1, GotoMoves, Jumps
  <2>2. CASE ~Sched!MayQueueFence(loc[V].Job)
    <3>1. pc' = [pc EXCEPT ![V] = Tail(pc[V])]
      BY <2>2 DEF PendingPublish, Reject, Return
    <3>2. Move(pc, pc', V, "PendingPublish", "")
      BY <1>1, <3>1, HostReturn DEF HostLabels, SubmitLabels
    <3> QED BY <3>2
  <2> QED BY <2>1, <2>2
<1>3. UNCHANGED <<CpuQueue, Paging, PagingIdle, RenderPacket, Platform, Preempting, Used>>
    BY DEF PendingPublish, cpuVars, osVars
<1>4. Relocated(loc, loc', V)
    BY <1>1, LocalFacts DEF PendingPublish, Reject, IInv
<1>5. SchedulerCall /\ ActiveFence' = ActiveFence /\ Preemption' = Preemption
  <2>1. loc[V].Job \in 1 .. MaxFence
    BY <1>2 DEF IInv, Records, Lab, Move, SubmitLabels
  <2>2. CASE Sched!MayQueueFence(loc[V].Job)
    <3>1. Sched!QueueFence(loc[V].Job, FALSE)
      BY <2>2 DEF PendingPublish
    <3> QED BY <2>1, <3>1, Queued
  <2>3. CASE ~Sched!MayQueueFence(loc[V].Job)
    <3>1. UNCHANGED schedulerVars
      BY <2>3 DEF PendingPublish
    <3> QED BY <3>1 DEF SchedulerCall, schedulerVars
  <2> QED BY <2>2, <2>3
<1>6. /\ G4Pending' \in Seq(PendingType)
      /\ G4Pending # <<>> => G4Pending' # <<>> /\ Head(G4Pending') = Head(G4Pending)
  <2>1. CASE Sched!MayQueueFence(loc[V].Job)
    <3>1. PICK entry : /\ entry = [State |-> "Queued", Fence |-> loc[V].Job, Context |-> loc[V].Context]
                       /\ G4Pending' = Append(G4Pending, entry)
      BY <2>1 DEF PendingPublish
    <3>2. loc[V].Job \in 1 .. MaxFence /\ loc[V].Context \in Contexts
      BY <1>2 DEF IInv, Records, Lab, Move, SubmitLabels
    <3>3. entry \in PendingType
      BY <3>1, <3>2 DEF PendingType
    <3> QED BY <3>1, <3>3, PendingAppended
  <2>2. CASE ~Sched!MayQueueFence(loc[V].Job)
    BY <2>2 DEF PendingPublish, IInv, Records
  <2> QED BY <2>1, <2>2
<1>7. SchedTyped'
    BY <1>5, CallTyped DEF IInv
<1>8. to \notin CpuMarks \cup OwnMarks \cup DeliveryLabels \cup PollingLabels \cup ResettingLabels
         \cup SubmitLabels \cup {"QuiesceWait", "PagingRun"}
    BY DEF CpuMarks, OwnMarks, HolderLabels, DeliveryLabels, PollingLabels, ResettingLabels,
           PagingLabels, CompleteLabels, QuiesceLabels, ResetLabels, SubmitLabels
<1>9. Records'
    BY <1>1, <1>2, <1>3, <1>4, <1>6, <1>8, RecordsKept DEF IInv, Records
<1>11. CpuInv'
    BY <1>1, <1>2, <1>3, <1>8, CpuKept DEF CpuMarks, PagingLabels
<1>12. WorkInv'
    BY <1>1, <1>2, <1>3, <1>8, WorkKept
<1>13. OwnInv'
  <2>1. CpuOwns' = CpuOwns
    BY <1>2, <1>3, HostKeepsCpu
  <2>2. \A u \in RenderWorkers \cup {V} : Top(pc'[u]) \in OwnMarks =>
          pc'[u] = pc[u] /\ loc'[u] = loc[u]
    BY <1>2, <1>4, <1>8, ThreadFacts DEF Move, Relocated
  <2> QED BY <1>3, <1>5, <1>6, <2>1, <2>2 DEF IInv, OwnInv, Lab, OwnMarks, HolderLabels
<1>14. DeliveryInv'
    BY <1>1, <1>2, <1>3, <1>5, <1>8, DeliveryKept
<1> QED BY <1>2, <1>5, <1>7, <1>9, <1>11, <1>12, <1>13, <1>14 DEF IInv, Control, Move

\* The immediate path waits for the runtime ...
LEMMA AwaitReadyStep ==
    ASSUME IInv, AwaitReady
    PROVE  IInv' /\ SchedulerCall
<1>1. /\ Controlled(pc) /\ V \in Threads /\ V \notin RenderWorkers
      /\ pc[V] # <<>> /\ Head(pc[V]) = "AwaitReady"
    BY ThreadFacts DEF AwaitReady, At, IInv, Control
<1>2. pc' = [pc EXCEPT ![V] = <<"AwaitSlot">> \o Tail(pc[V])] /\ loc' = loc
    BY DEF AwaitReady, Goto
<1>3. Moved(pc, pc', V)
    BY <1>1, <1>2, GotoPlain, Jumps, PlainJumps
<1>4. Relocated(loc, loc', V)
    BY <1>1, <1>2, LocalFacts DEF IInv
<1> QED BY <1>1, <1>2, <1>3, <1>4, MovedStep DEF AwaitReady, cpuVars, renderVars, osVars

\* ... and for the slot ...
LEMMA AwaitSlotStep ==
    ASSUME IInv, AwaitSlot
    PROVE  IInv' /\ SchedulerCall
<1>1. /\ Controlled(pc) /\ V \in Threads /\ V \notin RenderWorkers
      /\ pc[V] # <<>> /\ Head(pc[V]) = "AwaitSlot"
    BY ThreadFacts DEF AwaitSlot, At, IInv, Control
<1>2. /\ \E to \in {"Prepare", "AwaitReady"} :
           pc' = [pc EXCEPT ![V] = <<to>> \o Tail(pc[V])]
      /\ loc' = loc
    BY DEF AwaitSlot, Goto
<1>3. Moved(pc, pc', V)
    BY <1>1, <1>2, GotoPlain, Jumps, PlainJumps
<1>4. Relocated(loc, loc', V)
    BY <1>1, <1>2, LocalFacts DEF IInv
<1> QED BY <1>1, <1>2, <1>3, <1>4, MovedStep DEF AwaitSlot, cpuVars, renderVars, osVars

\* ... or gives up.
LEMMA AwaitGiveUpStep ==
    ASSUME IInv, AwaitGiveUp
    PROVE  IInv' /\ SchedulerCall
<1>1. /\ Controlled(pc) /\ V \in Threads /\ V \notin RenderWorkers
      /\ pc[V] # <<>> /\ Head(pc[V]) \in {"AwaitReady", "AwaitSlot"}
    BY ThreadFacts DEF AwaitGiveUp, At, IInv, Control
<1>2. pc' = [pc EXCEPT ![V] = Tail(pc[V])] /\ loc' = [loc EXCEPT ![V] = NoLocals]
    BY DEF AwaitGiveUp, Reject, Return
<1>3. Move(pc, pc', V, Head(pc[V]), "")
    BY <1>1, <1>2, HostReturn DEF HostLabels, SubmitLabels
<1>4. Moved(pc, pc', V) /\ Top(pc'[V]) = ""
    BY <1>1, <1>3, PlainJumps DEF Move, Moved
<1>5. Relocated(loc, loc', V)
    BY <1>1, <1>2, LocalFacts DEF IInv
<1> QED BY <1>1, <1>4, <1>5, MovedStep DEF AwaitGiveUp, cpuVars, renderVars, osVars, SubmitLabels

\* The empty slot is taken: nobody else is binding.
LEMMA PreparePacketStep ==
    ASSUME IInv, PreparePacket
    PROVE  IInv' /\ SchedulerCall
<1>1. /\ Controlled(pc) /\ V \in Threads /\ V \notin RenderWorkers /\ V # D /\ V \notin PagingWorkers
      /\ pc[V] # <<>> /\ Head(pc[V]) = "Prepare"
    BY ThreadFacts DEF PreparePacket, At, IInv, Control
<1>0. PICK to \in {"QueuePacket", ""} :
        /\ Move(pc, pc', V, "Prepare", to)
        /\ to = "QueuePacket" =>
             /\ RenderPacket.State = "Empty" /\ loc' = loc
             /\ RenderPacket' = [State |-> "Prepared", Fence |-> loc[V].Job,
                                 Context |-> loc[V].Context]
        /\ to = "" => RenderPacket' = RenderPacket /\ loc' = [loc EXCEPT ![V] = NoLocals]
  <2>1. \/ /\ pc' = [pc EXCEPT ![V] = <<"QueuePacket">> \o Tail(pc[V])]
           /\ RenderPacket.State = "Empty" /\ loc' = loc
           /\ RenderPacket' = [State |-> "Prepared", Fence |-> loc[V].Job,
                               Context |-> loc[V].Context]
        \/ /\ pc' = [pc EXCEPT ![V] = Tail(pc[V])]
           /\ RenderPacket' = RenderPacket /\ loc' = [loc EXCEPT ![V] = NoLocals]
    BY DEF PreparePacket, Goto, Reject, Return
  <2>2. CASE pc' = [pc EXCEPT ![V] = <<"QueuePacket">> \o Tail(pc[V])]
    <3>1. Move(pc, pc', V, "Prepare", "QueuePacket")
      BY <1>1, <2>2, GotoMoves, Jumps
    <3>2. pc' # [pc EXCEPT ![V] = Tail(pc[V])]
      <4>1. ASSUME pc' = [pc EXCEPT ![V] = Tail(pc[V])] PROVE FALSE
        <5>1. Move(pc, pc', V, "Prepare", "")
          BY <1>1, <4>1, HostReturn DEF HostLabels, SubmitLabels
        <5> QED BY <3>1, <5>1 DEF Move
      <4> QED BY <4>1
    <3> QED BY <2>1, <3>1, <3>2
  <2>3. CASE pc' = [pc EXCEPT ![V] = Tail(pc[V])]
    <3>1. Move(pc, pc', V, "Prepare", "")
      BY <1>1, <2>3, HostReturn DEF HostLabels, SubmitLabels
    <3>2. pc' # [pc EXCEPT ![V] = <<"QueuePacket">> \o Tail(pc[V])]
      <4>1. ASSUME pc' = [pc EXCEPT ![V] = <<"QueuePacket">> \o Tail(pc[V])] PROVE FALSE
        <5>1. Move(pc, pc', V, "Prepare", "QueuePacket")
          BY <1>1, <4>1, GotoMoves, Jumps
        <5> QED BY <3>1, <5>1 DEF Move
      <4> QED BY <4>1
    <3> QED BY <2>1, <3>1, <3>2
  <2> QED BY <2>1, <2>2, <2>3
<1>2. Move(pc, pc', V, "Prepare", to)
    BY <1>0
<1>3. UNCHANGED <<schedulerVars, CpuQueue, Paging, PagingIdle, G4Pending, Platform,
                  Preempting, Used>>
    BY DEF PreparePacket, cpuVars, osVars
<1>4. Relocated(loc, loc', V)
    BY <1>0, <1>1, LocalFacts DEF IInv
<1>6. /\ DOMAIN RenderPacket' = {"State", "Fence", "Context"}
      /\ to = "QueuePacket" => RenderPacket'.State = "Prepared"
  <2>1. CASE to = "QueuePacket"
    BY <1>0, <2>1
  <2>2. CASE to = ""
    BY <1>0, <2>2 DEF IInv, Records
  <2> QED BY <2>1, <2>2
<1>7. SchedulerCall /\ SchedTyped'
    BY <1>3, CallTyped DEF IInv, SchedulerCall
<1>8. V = V /\ to \in SubmitLabels =>
        loc'[V].Job \in 1 .. MaxFence /\ loc'[V].Context \in Contexts
    BY <1>0 DEF IInv, Records, Lab, Move, SubmitLabels
<1>9. Records'
    BY <1>1, <1>2, <1>3, <1>4, <1>6, <1>8, RecordsKept DEF IInv, Records
<1>11. CpuInv'
    BY <1>1, <1>2, <1>3, CpuKept DEF CpuMarks, PagingLabels
<1>12. WorkInv'
    BY <1>1, <1>2, <1>3, WorkKept DEF PollingLabels, CompleteLabels
<1>13. OwnInv'
  <2>1. CASE to = ""
    BY <1>0, <1>1, <1>3, <1>4, <2>1, OwnKept
       DEF OwnMarks, HolderLabels, schedulerVars, Relocated
  <2>2. CASE to = "QueuePacket"
    <3>1. RenderPacket.State = "Empty"
      BY <1>0, <2>2
    <3>2. /\ Platform.Phase # "Submitted"
          /\ \A u \in RenderWorkers \cup {V} : Lab(u) \notin OwnMarks
      BY <3>1 DEF IInv, OwnInv, OwnMarks
    <3>3. /\ Top(pc'[V]) = "QueuePacket" /\ \A u \in RenderWorkers \cup {V} : u # V => pc'[u] = pc[u]
      BY <1>2, <2>2, ThreadFacts DEF Move
    <3>4. CpuOwns' = CpuOwns /\ ActiveFence' = ActiveFence
      <4>1. CpuOwns' = CpuOwns
        BY <1>2, <1>3, HostKeepsCpu
      <4> QED BY <1>3, <4>1 DEF schedulerVars
    <3>5. "QueuePacket" \notin HolderLabels
      BY DEF HolderLabels
    <3> QED BY <1>1, <1>3, <1>6, <2>2, <3>1, <3>2, <3>3, <3>4, <3>5
            DEF IInv, OwnInv, Lab, OwnMarks, HolderLabels
  <2> QED BY <2>1, <2>2
<1>14. DeliveryInv'
  <2>1. to \notin DeliveryLabels /\ to \notin ResettingLabels
    BY DEF DeliveryLabels, ResettingLabels, QuiesceLabels, ResetLabels,
           CompleteLabels
  <2>2. Preemption' = Preemption
    BY <1>3 DEF schedulerVars
  <2> QED BY <1>1, <1>2, <1>3, <2>1, <2>2, DeliveryKept
<1> QED BY <1>2, <1>7, <1>9, <1>11, <1>12, <1>13, <1>14 DEF IInv, Control, Move

\* VidSch leaves the slot it prepared: queued or emptied, it is nobody's to
\* bind.
LEMMA SlotLeft ==
    ASSUME IInv, NEW to \in {"Dispatch", ""}, Move(pc, pc', V, "QueuePacket", to),
           Relocated(loc, loc', V), SchedulerCall,
           ActiveFence' = ActiveFence, Preemption' = Preemption,
           RenderPacket' \in {EmptyPacket, [RenderPacket EXCEPT !.State = "Queued"]},
           UNCHANGED <<CpuQueue, Paging, PagingIdle, G4Pending, Platform, Preempting, Used>>
    PROVE  IInv' /\ SchedulerCall
<1>1. V \in Threads /\ V \notin RenderWorkers /\ V # D /\ V \notin PagingWorkers
    BY ThreadFacts
<1>5. /\ RenderPacket.State = "Prepared" /\ Platform.Phase # "Submitted"
      /\ \A u \in RenderWorkers \cup {V} : Lab(u) \in OwnMarks => u = V
  <2>1. Lab(V) = "QueuePacket"
    BY DEF Move, Lab
  <2> QED BY <2>1 DEF IInv, OwnInv, OwnMarks
<1>6. /\ DOMAIN RenderPacket' = {"State", "Fence", "Context"}
      /\ RenderPacket'.State \in {"Empty", "Queued"}
  <2>1. CASE RenderPacket' = EmptyPacket
    BY <2>1 DEF EmptyPacket
  <2>2. CASE RenderPacket' = [RenderPacket EXCEPT !.State = "Queued"]
    <3>1. DOMAIN RenderPacket = {"State", "Fence", "Context"}
      BY DEF IInv, Records
    <3> QED BY <2>2, <3>1
  <2> QED BY <2>1, <2>2
<1>7. SchedTyped'
    BY CallTyped DEF IInv
<1>8. to \notin CpuMarks \cup OwnMarks \cup DeliveryLabels \cup PollingLabels \cup ResettingLabels
         \cup SubmitLabels \cup {"QuiesceWait", "PagingRun"}
    BY DEF CpuMarks, OwnMarks, HolderLabels, DeliveryLabels, PollingLabels, ResettingLabels,
           PagingLabels, CompleteLabels, QuiesceLabels, ResetLabels, SubmitLabels
<1>9. Records'
    BY <1>1, <1>6, <1>8, RecordsKept DEF IInv, Records
<1>11. CpuInv'
    BY <1>1, <1>8, CpuKept DEF CpuMarks, PagingLabels
<1>12. WorkInv'
    BY <1>1, <1>8, WorkKept
<1>13. OwnInv'
  <2>2. \A u \in RenderWorkers \cup {V} : Top(pc'[u]) \notin OwnMarks
    BY <1>5, <1>8, ThreadFacts DEF Move, Lab
  <2>3. CpuOwns' = CpuOwns
    BY HostKeepsCpu
  <2> QED BY <1>5, <1>6, <2>2, <2>3 DEF IInv, OwnInv, Lab, OwnMarks, HolderLabels
<1>14. DeliveryInv'
    BY <1>1, <1>8, DeliveryKept
<1> QED BY <1>7, <1>9, <1>11, <1>12, <1>13, <1>14 DEF IInv, Control, Move

\* The prepared packet is still the one that was prepared, and is queued with
\* its fence ...
LEMMA QueuePacketStep ==
    ASSUME IInv, QueuePacket
    PROVE  IInv' /\ SchedulerCall
<1>1. /\ Controlled(pc) /\ V \in Threads /\ V \notin RenderWorkers /\ V # D /\ V \notin PagingWorkers
      /\ pc[V] # <<>> /\ Head(pc[V]) = "QueuePacket"
    BY ThreadFacts DEF QueuePacket, At, IInv, Control
<1>2. Move(pc, pc', V, "QueuePacket", "Dispatch")
  <2>1. pc' = [pc EXCEPT ![V] = <<"Dispatch">> \o Tail(pc[V])]
    BY DEF QueuePacket, Goto
  <2> QED BY <1>1, <2>1, GotoMoves, Jumps
<1>3. /\ RenderPacket' = [RenderPacket EXCEPT !.State = "Queued"]
      /\ UNCHANGED <<CpuQueue, Paging, PagingIdle, G4Pending, Platform, Preempting, Used>>
    BY DEF QueuePacket, cpuVars, osVars
<1>4. Relocated(loc, loc', V)
    BY <1>1, LocalFacts DEF QueuePacket, IInv
<1>5. SchedulerCall /\ ActiveFence' = ActiveFence /\ Preemption' = Preemption
  <2>1. loc[V].Job \in 1 .. MaxFence
    BY <1>2 DEF IInv, Records, Lab, Move, SubmitLabels
  <2>2. Sched!QueueFence(loc[V].Job, FALSE)
    BY DEF QueuePacket
  <2> QED BY <2>1, <2>2, Queued
<1> QED BY <1>2, <1>3, <1>4, <1>5, SlotLeft

\* ... or taken back.
LEMMA RollbackPacketStep ==
    ASSUME IInv, RollbackPacket
    PROVE  IInv' /\ SchedulerCall
<1>1. /\ Controlled(pc) /\ V \in Threads /\ V \notin RenderWorkers /\ V # D /\ V \notin PagingWorkers
      /\ pc[V] # <<>> /\ Head(pc[V]) = "QueuePacket"
    BY ThreadFacts DEF RollbackPacket, At, IInv, Control
<1>2. Move(pc, pc', V, "QueuePacket", "")
  <2>1. pc' = [pc EXCEPT ![V] = Tail(pc[V])]
    BY DEF RollbackPacket, Reject, Return
  <2> QED BY <1>1, <2>1, HostReturn DEF HostLabels, SubmitLabels
<1>3. RenderPacket.State = "Prepared"
    BY <1>2 DEF IInv, OwnInv, Lab, Move
<1>4. /\ RenderPacket' = EmptyPacket
      /\ UNCHANGED <<schedulerVars, CpuQueue, Paging, PagingIdle, G4Pending, Platform,
                     Preempting, Used>>
    BY <1>3 DEF RollbackPacket, cpuVars, osVars
<1>5. Relocated(loc, loc', V)
    BY <1>1, LocalFacts DEF RollbackPacket, Reject, IInv
<1>6. SchedulerCall /\ ActiveFence' = ActiveFence /\ Preemption' = Preemption
    BY <1>4 DEF SchedulerCall, schedulerVars
<1> QED BY <1>2, <1>4, <1>5, <1>6, SlotLeft

-----------------------------------------------------------------------------
(* AdmissionDdiPreemptCommand.                                             *)

\* A preemption starts while VidSch is in no other call.
LEMMA PreemptFacts ==
    ASSUME IInv, PreemptGuard
    PROVE  /\ V \in Threads /\ V \notin RenderWorkers /\ V # D /\ V \notin PagingWorkers
           /\ Controlled(pc) /\ pc[V] = <<>> /\ Move(pc, pc, V, "", "")
           /\ Relocated(loc, loc', V)
           /\ Preempting' = "Waiting" /\ Used'.Resets = Used.Resets
           /\ DOMAIN Used' = {"Preemptions", "Resets"}
           /\ UNCHANGED <<Paging, Platform>>
<1>1. V \in Threads /\ V \notin RenderWorkers /\ V # D /\ V \notin PagingWorkers
    BY ThreadFacts
<1>2. Controlled(pc) /\ pc[V] = <<>>
    BY DEF IInv, Control, PreemptGuard, VidSchFree, Running
<1>3. Move(pc, pc, V, "", "")
    BY <1>1, <1>2 DEF Move, Top
<1>4. Relocated(loc, loc', V)
    BY <1>1, LocalFacts DEF PreemptGuard, IInv
<1>5. Used'.Resets = Used.Resets /\ DOMAIN Used' = {"Preemptions", "Resets"}
    BY DEF PreemptGuard, IInv, Records
<1>6. Preempting' = "Waiting" /\ UNCHANGED <<Paging, Platform>>
    BY DEF PreemptGuard
<1> QED BY <1>1, <1>2, <1>3, <1>4, <1>5, <1>6

\* AdmissionG4PendingDropLocked keeps the head a worker is binding.
LEMMA PendingKeptFacts ==
    ASSUME IInv
    PROVE  /\ PendingKept \in Seq(PendingType)
           /\ \A r \in RenderWorkers : Lab(r) = "BindQueue" =>
                PendingKept # <<>> /\ Head(PendingKept).State \in {"Binding", "Dropped"}
<1>1. <<>> \in Seq(PendingType)
    OBVIOUS
<1>2. CASE ~(G4Pending # <<>> /\ Head(G4Pending).State \in {"Binding", "Dropped"})
  <2>1. PendingKept = <<>>
    BY <1>2 DEF PendingKept
  <2> QED BY <1>1, <1>2, <2>1 DEF IInv, OwnInv
<1>3. CASE G4Pending # <<>> /\ Head(G4Pending).State \in {"Binding", "Dropped"}
  <2>1. PICK e \in PendingType : e = Head(G4Pending)
    BY <1>3 DEF IInv, Records
  <2>2. PICK n : n = [e EXCEPT !.State = "Dropped"]
    OBVIOUS
  <2>3. n \in PendingType /\ n.State = "Dropped"
    BY <2>1, <2>2 DEF PendingType
  <2>4. PendingKept = <<n>>
    BY <1>3, <2>1, <2>2 DEF PendingKept
  <2>5. <<n>> \in Seq(PendingType) /\ <<n>> # <<>> /\ Head(<<n>>) = n
    BY <2>3
  <2> QED BY <2>3, <2>4, <2>5
<1> QED BY <1>2, <1>3

\* Only a queued render packet is dropped; a prepared or active one stays.
LEMMA PacketDropped ==
    ASSUME IInv, RenderPacket' = IF QueuedPair # {} THEN EmptyPacket ELSE RenderPacket
    PROVE  /\ DOMAIN RenderPacket' = {"State", "Fence", "Context"}
           /\ RenderPacket'.State \in {"Empty", RenderPacket.State}
           /\ RenderPacket.State # "Queued" => RenderPacket' = RenderPacket
<1>1. CASE RenderPacket.State = "Queued"
  <2>1. RenderPacket' = EmptyPacket
    BY <1>1 DEF QueuedPair
  <2> QED BY <1>1, <2>1 DEF EmptyPacket
<1>2. CASE RenderPacket.State # "Queued"
  <2>1. RenderPacket' = RenderPacket
    BY <1>2 DEF QueuedPair
  <2> QED BY <1>2, <2>1 DEF IInv, Records
<1> QED BY <1>1, <1>2

\* A refused preemption faults the adapter and changes nothing else.
LEMMA PreemptRefusedStep ==
    ASSUME IInv, NEW preemption \in PreemptionFences, PreemptRefused(preemption)
    PROVE  IInv' /\ SchedulerCall
<1>1. /\ PreemptGuard
      /\ UNCHANGED <<schedulerVars, CpuQueue, PagingIdle, RenderPacket, G4Pending, pc>>
    BY DEF PreemptRefused
<1>2. Move(pc, pc', V, "", "")
    BY <1>1, PreemptFacts
<1>3. /\ V \in Threads /\ V \notin RenderWorkers /\ V # D /\ V \notin PagingWorkers
      /\ Relocated(loc, loc', V)
      /\ Preempting' = "Waiting" /\ Used'.Resets = Used.Resets
      /\ DOMAIN Used' = {"Preemptions", "Resets"}
      /\ UNCHANGED <<Paging, Platform>>
    BY <1>1, PreemptFacts
<1>7. SchedulerCall /\ SchedTyped'
    BY <1>1, CallTyped DEF IInv, SchedulerCall
<1>9. Records'
    BY <1>1, <1>2, <1>3, RecordsKept DEF IInv, Records, SubmitLabels
<1>11. CpuInv'
    BY <1>1, <1>2, <1>3, CpuKept DEF CpuMarks, PagingLabels
<1>12. WorkInv'
    BY <1>1, <1>2, <1>3, WorkKept DEF PollingLabels, CompleteLabels
<1>13. OwnInv'
    BY <1>1, <1>2, <1>3, OwnKept
       DEF OwnMarks, HolderLabels, schedulerVars, Relocated
<1>14. DeliveryInv'
  <2>1. Preemption' = Preemption /\ pc' = pc
    BY <1>1 DEF schedulerVars
  <2> QED BY <1>3, <2>1 DEF IInv, DeliveryInv, Lab
<1> QED BY <1>2, <1>7, <1>9, <1>11, <1>12, <1>13, <1>14 DEF IInv, Control, Move

\* The scheduler was idle, so nobody is delivering; queued packets go, the
\* active one and the one being bound stay.
LEMMA PreemptCommandStep ==
    ASSUME IInv, NEW preemption \in PreemptionFences, PreemptCommand(preemption)
    PROVE  IInv' /\ SchedulerCall
<1>1. /\ PreemptGuard /\ Sched!BeginBoundaryPreemption(preemption)
      /\ CpuQueue' = <<>>
      /\ RenderPacket' = IF QueuedPair # {} THEN EmptyPacket ELSE RenderPacket
      /\ G4Pending' = PendingKept /\ PagingIdle' = PagingQuiet'
      /\ \/ ~Running(V) /\ pc' = [pc EXCEPT ![V] = <<"TryNotify">>]
         \/ pc' = pc
    BY DEF PreemptCommand, Enter
<1>2. /\ V \in Threads /\ V \notin RenderWorkers /\ V # D /\ V \notin PagingWorkers
      /\ Controlled(pc) /\ pc[V] = <<>> /\ Move(pc, pc, V, "", "")
      /\ Relocated(loc, loc', V)
      /\ Preempting' = "Waiting" /\ Used'.Resets = Used.Resets
      /\ DOMAIN Used' = {"Preemptions", "Resets"}
      /\ UNCHANGED <<Paging, Platform>>
    BY <1>1, PreemptFacts
<1>3. PICK to \in {"TryNotify", ""} : Move(pc, pc', V, "", to)
  <2>1. CASE pc' = pc
    BY <1>2, <2>1
  <2>2. CASE pc' = [pc EXCEPT ![V] = <<"TryNotify">>]
    <3>1. "TryNotify" \in VidSchFrame
      BY DEF VidSchFrame, DispatchFrame, NotifyLabels
    <3>2. Move(pc, pc', V, "", "TryNotify")
      BY <1>2, <2>2, <3>1, Entered, EnterMoves
    <3> QED BY <3>2
  <2> QED BY <1>1, <2>1, <2>2
<1>4. /\ Preemption.Phase = Sched!Idle /\ Preemption'.Phase # Sched!NotificationClaimed
      /\ ActiveFence' = ActiveFence
    BY <1>1 DEF Sched!BeginBoundaryPreemption, Sched!SchedBeginBoundaryPreemption,
                Sched!MayBeginBoundaryPreemption, Sched!NotificationClaimed,
                Sched!ReadyToNotify, Sched!WaitCurrentBoundary, Sched!Idle
<1>6. /\ DOMAIN RenderPacket' = {"State", "Fence", "Context"}
      /\ RenderPacket'.State \in {"Empty", RenderPacket.State}
      /\ RenderPacket.State # "Queued" => RenderPacket' = RenderPacket
    BY <1>1, PacketDropped
<1>7. SchedulerCall /\ SchedTyped'
    BY <1>1, CallTyped DEF IInv, SchedulerCall
<1>8. <<>> \in Seq(CpuPacketType)
    BY NoPackets
<1>9. Records'
    BY <1>1, <1>2, <1>3, <1>6, <1>8, PendingKeptFacts, RecordsKept
       DEF IInv, Records, SubmitLabels
<1>11. CpuInv'
  <2>1. SameCpuLabels(pc, pc')
    BY <1>2, <1>3, CpuLabels DEF Move, CpuMarks, PagingLabels
  <2>2. PagingToken'
    BY <1>2, <2>1
       DEF IInv, CpuInv, PagingToken, Executing, DpcTook, Lab, SameCpuLabels
  <2> QED BY <1>1, <2>2 DEF CpuInv
<1>12. WorkInv'
    BY <1>2, <1>3, WorkKept DEF PollingLabels, CompleteLabels
<1>13. OwnInv'
  <2>1. CpuOwns' = CpuOwns
    BY <1>2, <1>3, HostKeepsCpu
  <2>2. \A u \in RenderWorkers \cup {V} : Top(pc'[u]) \in OwnMarks =>
          pc'[u] = pc[u] /\ loc'[u] = loc[u]
    BY <1>2, <1>3, ThreadFacts DEF Move, Relocated, OwnMarks, HolderLabels
  <2>3. \A r \in RenderWorkers : Lab(r)' = "BindQueue" =>
          G4Pending' # <<>> /\ Head(G4Pending').State \in {"Binding", "Dropped"}
    BY <1>1, <2>2, PendingKeptFacts DEF Lab, OwnMarks
  <2>4. \A u \in RenderWorkers \cup {V} : Top(pc'[u]) \in OwnMarks => RenderPacket' = RenderPacket
    BY <1>6, <2>2 DEF IInv, OwnInv, Lab, OwnMarks
  <2>5. /\ RenderPacket'.State = "Active" <=> RenderPacket.State = "Active"
        /\ RenderPacket.State = "Active" => RenderPacket' = RenderPacket
    BY <1>6
  <2> QED BY <1>2, <1>4, <2>1, <2>2, <2>3, <2>4, <2>5
          DEF IInv, OwnInv, Lab, OwnMarks, HolderLabels
<1>14. DeliveryInv'
  <2>1. MaxResets = 0 => \A t \in Threads : Lab(t) \notin DeliveryLabels
    BY <1>4 DEF IInv, DeliveryInv, Sched!NotificationClaimed, Sched!Idle
  <2>2. to \notin DeliveryLabels /\ to \notin ResettingLabels
    BY DEF DeliveryLabels, ResettingLabels, QuiesceLabels, ResetLabels,
           CompleteLabels
  <2>3. MaxResets = 0 => \A t \in Threads : Lab(t)' \notin DeliveryLabels
    BY <1>3, <2>1, <2>2 DEF Move, Lab
  <2>4. Lab(V)' \notin ResettingLabels
    BY <1>3, <2>2 DEF Move, Lab
  <2> QED BY <1>2, <2>3, <2>4 DEF IInv, DeliveryInv
<1> QED BY <1>3, <1>7, <1>9, <1>11, <1>12, <1>13, <1>14 DEF IInv, Control, Move

-----------------------------------------------------------------------------
(* The engine reset.                                                       *)

\* A reset starts; an active job must be proved ended first.
LEMMA ResetBeginStep ==
    ASSUME IInv, ResetBegin
    PROVE  IInv' /\ SchedulerCall
<1>1. /\ Controlled(pc) /\ V \in Threads /\ V \notin RenderWorkers /\ V # D /\ V \notin PagingWorkers
      /\ pc[V] = <<>>
    BY ThreadFacts DEF ResetBegin, Running, IInv, Control
<1>0. PICK to \in {"QuiesceClaim", "ResetEngine"} : pc' = [pc EXCEPT ![V] = <<to>>]
    BY DEF ResetBegin, Enter
<1>2. Move(pc, pc', V, "", to)
  <2>1. to \in VidSchFrame
    BY <1>0 DEF VidSchFrame, HostLabels, QuiesceLabels, ResetLabels
  <2> QED BY <1>0, <1>1, <2>1, Entered, EnterMoves
<1>3. /\ Used.Resets < MaxResets
      /\ Used' = [Used EXCEPT !.Resets = @ + 1]
      /\ loc' = loc \/ loc' = [loc EXCEPT ![V].Job = RenderPacket.Fence]
      /\ UNCHANGED <<schedulerVars, CpuQueue, Paging, PagingIdle, RenderPacket, G4Pending,
                     Platform, Preempting>>
    BY DEF ResetBegin, cpuVars, renderVars
<1>4. Relocated(loc, loc', V)
  <2>1. CASE loc' = loc
    BY <1>1, <2>1, LocalFacts DEF IInv
  <2>2. CASE loc' = [loc EXCEPT ![V].Job = RenderPacket.Fence]
    BY <1>1, <2>2, LocalFacts DEF IInv
  <2> QED BY <1>3, <2>1, <2>2
<1>6. DOMAIN Used' = {"Preemptions", "Resets"}
    BY <1>3 DEF IInv, Records
<1>7. SchedulerCall /\ SchedTyped'
    BY <1>3, CallTyped DEF IInv, SchedulerCall
<1>9. Records'
    BY <1>0, <1>1, <1>2, <1>3, <1>4, <1>6, RecordsKept
       DEF IInv, Records, SubmitLabels
<1>11. CpuInv'
    BY <1>0, <1>1, <1>2, <1>3, CpuKept DEF CpuMarks, PagingLabels
<1>12. WorkInv'
    BY <1>0, <1>1, <1>2, <1>3, WorkKept DEF PollingLabels, CompleteLabels
<1>13. OwnInv'
    BY <1>1, <1>2, <1>3, <1>4, <1>0, OwnKept
       DEF OwnMarks, HolderLabels, schedulerVars, Relocated
<1>14. DeliveryInv'
  <2>1. MaxResets # 0
    BY <1>3 DEF IInv, DeliveryInv
  <2> QED BY <2>1 DEF DeliveryInv
<1> QED BY <1>2, <1>7, <1>9, <1>11, <1>12, <1>13, <1>14 DEF IInv, Control, Move

\* From now on no work item is queued ...
LEMMA QuiesceClaimStep ==
    ASSUME IInv, QuiesceClaim
    PROVE  IInv' /\ SchedulerCall
<1>1. /\ Controlled(pc) /\ V \in Threads /\ V \notin RenderWorkers /\ V # D /\ V \notin PagingWorkers
      /\ pc[V] # <<>> /\ Head(pc[V]) = "QuiesceClaim"
      /\ pc' = [pc EXCEPT ![V] = <<"QuiesceWait">> \o Tail(pc[V])]
    BY ThreadFacts DEF QuiesceClaim, At, Goto, IInv, Control
<1>2. Move(pc, pc', V, "QuiesceClaim", "QuiesceWait")
    BY <1>1, GotoMoves, Jumps
<1>3. /\ Platform' = [Platform EXCEPT !.Resetting = TRUE]
      /\ UNCHANGED <<schedulerVars, CpuQueue, Paging, PagingIdle, RenderPacket, G4Pending,
                     Preempting, Used, loc>>
    BY DEF QuiesceClaim, cpuVars, renderVars, osVars, Reject
<1>4. Relocated(loc, loc', V)
    BY <1>1, <1>3, LocalFacts DEF IInv
<1>6. /\ DOMAIN Platform' = PlatformFields
      /\ Platform'.Phase = Platform.Phase
      /\ Platform'.WorkScheduled = Platform.WorkScheduled
      /\ Platform'.WorkQueued = Platform.WorkQueued
      /\ Platform'.WorkIdle = Platform.WorkIdle
      /\ Platform'.Resetting = TRUE
    BY <1>3 DEF IInv, Records, PlatformFields
<1>7. SchedulerCall /\ SchedTyped'
    BY <1>3, CallTyped DEF IInv, SchedulerCall
<1>9. Records'
    BY <1>1, <1>2, <1>3, <1>4, <1>6, RecordsKept
       DEF IInv, Records, SubmitLabels
<1>11. CpuInv'
    BY <1>1, <1>2, <1>3, CpuKept DEF CpuMarks, PagingLabels
<1>12. WorkInv'
  <2>1. Top(pc'[V]) = "QuiesceWait" /\ \A q \in RenderWorkers : pc'[q] = pc[q]
    BY <1>1, <1>2, ThreadFacts DEF Move
  <2>2. Top(pc'[V]) \notin PollingLabels
    BY <2>1 DEF PollingLabels, CompleteLabels
  <2> QED BY <1>6, <2>1, <2>2 DEF IInv, WorkInv, Lab
<1>13. OwnInv'
    BY <1>1, <1>2, <1>3, <1>4, <1>6, OwnKept
       DEF OwnMarks, HolderLabels, schedulerVars, Relocated
<1>14. DeliveryInv'
  <2>1. MaxResets # 0
    BY <1>2
       DEF IInv, DeliveryInv, Lab, Move, ResettingLabels, QuiesceLabels,
           ResetLabels, CompleteLabels
  <2> QED BY <2>1 DEF DeliveryInv
<1> QED BY <1>2, <1>7, <1>9, <1>11, <1>12, <1>13, <1>14 DEF IInv, Control, Move

\* ... the workers are waited for ...
LEMMA QuiesceWaitStep ==
    ASSUME IInv, QuiesceWait
    PROVE  IInv' /\ SchedulerCall
<1>1. /\ Controlled(pc) /\ V \in Threads /\ V \notin RenderWorkers /\ V # D /\ V \notin PagingWorkers
      /\ pc[V] # <<>> /\ Head(pc[V]) = "QuiesceWait"
      /\ pc' = [pc EXCEPT ![V] = <<"QuiesceCheck">> \o Tail(pc[V])]
    BY ThreadFacts DEF QuiesceWait, At, Goto, IInv, Control
<1>2. Move(pc, pc', V, "QuiesceWait", "QuiesceCheck")
    BY <1>1, GotoMoves, Jumps
<1>3. /\ Platform.WorkIdle
      /\ UNCHANGED <<schedulerVars, CpuQueue, Paging, PagingIdle, RenderPacket, G4Pending,
                     Preempting, Used, Platform, loc>>
    BY DEF QuiesceWait, cpuVars, renderVars, osVars, Reject
<1>4. Relocated(loc, loc', V)
    BY <1>1, <1>3, LocalFacts DEF IInv
<1>7. SchedulerCall /\ SchedTyped'
    BY <1>3, CallTyped DEF IInv, SchedulerCall
<1>9. Records'
    BY <1>1, <1>2, <1>3, <1>4, RecordsKept DEF IInv, Records, SubmitLabels
<1>11. CpuInv'
    BY <1>1, <1>2, <1>3, CpuKept DEF CpuMarks, PagingLabels
<1>12. WorkInv'
  <2>1. /\ Top(pc[V]) = "QuiesceWait" /\ Top(pc'[V]) = "QuiesceCheck"
        /\ \A q \in RenderWorkers : pc'[q] = pc[q]
    BY <1>1, <1>2, ThreadFacts DEF Move
  <2> QED BY <1>3, <2>1 DEF IInv, WorkInv, Lab
<1>13. OwnInv'
    BY <1>1, <1>2, <1>3, <1>4, OwnKept
       DEF OwnMarks, HolderLabels, schedulerVars, Relocated
<1>14. DeliveryInv'
  <2>1. MaxResets # 0
    BY <1>2
       DEF IInv, DeliveryInv, Lab, Move, ResettingLabels, QuiesceLabels,
           ResetLabels, CompleteLabels
  <2> QED BY <2>1 DEF DeliveryInv
<1> QED BY <1>2, <1>7, <1>9, <1>11, <1>12, <1>13, <1>14 DEF IInv, Control, Move

\* ... and the reset polls alone ...
LEMMA QuiesceCheckStep ==
    ASSUME IInv, QuiesceCheck
    PROVE  IInv' /\ SchedulerCall
<1>1. /\ Controlled(pc) /\ V \in Threads /\ V \notin RenderWorkers /\ V # D /\ V \notin PagingWorkers
      /\ pc[V] # <<>> /\ Head(pc[V]) = "QuiesceCheck"
    BY ThreadFacts DEF QuiesceCheck, At, IInv, Control
<1>0. PICK to \in {"QuiesceEnded", "QuiescePoll", "QuiesceFail"} :
        /\ pc' = [pc EXCEPT ![V] = <<to>> \o Tail(pc[V])]
        /\ to = "QuiescePoll" => JobActive
    BY DEF QuiesceCheck, Goto
<1>2. Move(pc, pc', V, "QuiesceCheck", to)
    BY <1>0, <1>1, GotoMoves, Jumps
<1>3. UNCHANGED <<schedulerVars, CpuQueue, Paging, PagingIdle, RenderPacket, G4Pending,
                     Preempting, Used, Platform, loc>>
    BY DEF QuiesceCheck, cpuVars, renderVars, osVars, Reject
<1>4. Relocated(loc, loc', V)
    BY <1>1, <1>3, LocalFacts DEF IInv
<1>7. SchedulerCall /\ SchedTyped'
    BY <1>3, CallTyped DEF IInv, SchedulerCall
<1>9. Records'
    BY <1>0, <1>1, <1>2, <1>3, <1>4, RecordsKept
       DEF IInv, Records, SubmitLabels
<1>11. CpuInv'
    BY <1>0, <1>1, <1>2, <1>3, CpuKept DEF CpuMarks, PagingLabels
<1>12. WorkInv'
    BY <1>0, <1>1, <1>2, <1>3, WorkKept DEF PollingLabels
<1>13. OwnInv'
  <2>1. CASE to # "QuiescePoll"
    BY <1>0, <1>1, <1>2, <1>3, <1>4, <2>1, OwnKept
       DEF OwnMarks, HolderLabels, schedulerVars, Relocated
  <2>2. CASE to = "QuiescePoll"
    <3>1. RenderPacket.State = "Active" /\ RenderPacket.Fence = loc[V].Job
      BY <1>0, <2>2 DEF JobActive
    <3>2. /\ Top(pc'[V]) = "QuiescePoll" /\ \A q \in RenderWorkers : pc'[q] = pc[q]
      BY <1>1, <1>2, <2>2, ThreadFacts DEF Move
    <3>3. CpuOwns' = CpuOwns /\ ActiveFence' = ActiveFence
      BY <1>1, <1>2, <1>3, ThreadFacts DEF CpuOwns, Lab, Move, schedulerVars
    <3> QED BY <1>3, <3>1, <3>2, <3>3 DEF IInv, OwnInv, Lab, OwnMarks, HolderLabels
  <2> QED BY <2>1, <2>2
<1>14. DeliveryInv'
  <2>1. MaxResets # 0
    BY <1>2
       DEF IInv, DeliveryInv, Lab, Move, ResettingLabels, QuiesceLabels,
           ResetLabels, CompleteLabels
  <2> QED BY <2>1 DEF DeliveryInv
<1> QED BY <1>2, <1>7, <1>9, <1>11, <1>12, <1>13, <1>14 DEF IInv, Control, Move

\* ... completing the job if it ended ...
LEMMA QuiescePollStep ==
    ASSUME IInv, QuiescePoll
    PROVE  IInv' /\ SchedulerCall
<1>1. /\ Controlled(pc) /\ V \in Threads /\ V \notin RenderWorkers /\ V # D /\ V \notin PagingWorkers
      /\ pc[V] # <<>> /\ Head(pc[V]) = "QuiescePoll"
      /\ pc' = [pc EXCEPT ![V] = <<"Complete", "QuiesceCheck">> \o Tail(pc[V])]
    BY ThreadFacts DEF QuiescePoll, At, Call, IInv, Control
<1>2. Move(pc, pc', V, "QuiescePoll", "Complete")
  <2>1. "QuiescePoll" \in QuiesceLabels /\ "QuiesceCheck" \in HostLabels /\ "Complete" \in CompleteLabels
    BY DEF QuiesceLabels, HostLabels, CompleteLabels
  <2>2. "Complete" \in Label /\ "QuiesceCheck" \in Label
    BY <2>1, Labels
  <2> QED BY <1>1, <2>1, <2>2, CallMoves
<1>3. /\ Platform' = [Platform EXCEPT !.Phase = "Ready"]
      /\ UNCHANGED <<schedulerVars, CpuQueue, Paging, PagingIdle, RenderPacket, G4Pending,
                     Preempting, Used, loc>>
    BY DEF QuiescePoll, cpuVars, renderVars, osVars, Reject
<1>4. Relocated(loc, loc', V)
    BY <1>1, <1>3, LocalFacts DEF IInv
<1>6. /\ DOMAIN Platform' = PlatformFields
      /\ Platform'.Phase = "Ready"
      /\ Platform'.WorkScheduled = Platform.WorkScheduled
      /\ Platform'.WorkQueued = Platform.WorkQueued
      /\ Platform'.WorkIdle = Platform.WorkIdle
      /\ Platform'.Resetting = Platform.Resetting
    BY <1>3 DEF IInv, Records, PlatformFields
<1>7. SchedulerCall /\ SchedTyped'
    BY <1>3, CallTyped DEF IInv, SchedulerCall
<1>9. Records'
    BY <1>1, <1>2, <1>3, <1>4, <1>6, RecordsKept
       DEF IInv, Records, SubmitLabels
<1>11. CpuInv'
    BY <1>1, <1>2, <1>3, CpuKept DEF CpuMarks, PagingLabels
<1>12. WorkInv'
    BY <1>1, <1>2, <1>3, <1>6, WorkKept DEF PollingLabels
<1>13. OwnInv'
  <2>1. RenderPacket.State = "Active" /\ RenderPacket.Fence = loc[V].Job
    BY <1>2 DEF IInv, OwnInv, Lab, Move, HolderLabels
  <2>2. /\ Top(pc'[V]) = "Complete" /\ \A q \in RenderWorkers : pc'[q] = pc[q]
    BY <1>1, <1>2, ThreadFacts DEF Move
  <2>3. CpuOwns' = CpuOwns /\ ActiveFence' = ActiveFence
    BY <1>1, <1>2, <1>3, ThreadFacts DEF CpuOwns, Lab, Move, schedulerVars
  <2> QED BY <1>3, <1>6, <2>1, <2>2, <2>3 DEF IInv, OwnInv, Lab, OwnMarks, HolderLabels
<1>14. DeliveryInv'
  <2>1. MaxResets # 0
    BY <1>2
       DEF IInv, DeliveryInv, Lab, Move, ResettingLabels, QuiesceLabels,
           ResetLabels, CompleteLabels
  <2> QED BY <2>1 DEF DeliveryInv
<1> QED BY <1>2, <1>7, <1>9, <1>11, <1>12, <1>13, <1>14 DEF IInv, Control, Move

\* ... or gives up.
LEMMA QuiesceGiveUpStep ==
    ASSUME IInv, QuiesceGiveUp
    PROVE  IInv' /\ SchedulerCall
<1>0. PICK from \in {"QuiesceWait", "QuiescePoll", "QuiesceFail"} : from = Head(pc[V])
    BY DEF QuiesceGiveUp, At
<1>1. /\ Controlled(pc) /\ V \in Threads /\ V \notin RenderWorkers /\ V # D /\ V \notin PagingWorkers
      /\ pc[V] # <<>> /\ pc' = [pc EXCEPT ![V] = Tail(pc[V])]
    BY ThreadFacts DEF QuiesceGiveUp, At, Reject, Return, IInv, Control
<1>2. Move(pc, pc', V, from, "")
  <2>1. Head(pc[V]) \in HostLabels
    BY <1>0 DEF HostLabels, QuiesceLabels
  <2>2. Move(pc, pc', V, Head(pc[V]), "")
    BY <1>1, <2>1, HostReturn
  <2> QED BY <1>0, <2>2
<1>3. /\ Platform' = [Platform EXCEPT !.Resetting = FALSE]
      /\ loc' = [loc EXCEPT ![V] = NoLocals]
      /\ UNCHANGED <<schedulerVars, CpuQueue, Paging, PagingIdle, RenderPacket, G4Pending,
                     Preempting, Used>>
    BY DEF QuiesceGiveUp, cpuVars, renderVars, osVars, Reject
<1>4. Relocated(loc, loc', V)
    BY <1>1, <1>3, LocalFacts DEF IInv
<1>6. /\ DOMAIN Platform' = PlatformFields
      /\ Platform'.Phase = Platform.Phase
      /\ Platform'.WorkScheduled = Platform.WorkScheduled
      /\ Platform'.WorkQueued = Platform.WorkQueued
      /\ Platform'.WorkIdle = Platform.WorkIdle
      /\ Platform'.Resetting = FALSE
    BY <1>3 DEF IInv, Records, PlatformFields
<1>7. SchedulerCall /\ SchedTyped'
    BY <1>3, CallTyped DEF IInv, SchedulerCall
<1>9. Records'
    BY <1>1, <1>2, <1>3, <1>4, <1>6, RecordsKept
       DEF IInv, Records, SubmitLabels
<1>11. CpuInv'
    BY <1>0, <1>1, <1>2, <1>3, CpuKept DEF CpuMarks, PagingLabels
<1>12. WorkInv'
  <2>1. Top(pc'[V]) = "" /\ \A q \in RenderWorkers : pc'[q] = pc[q]
    BY <1>1, <1>2, ThreadFacts DEF Move
  <2>2. Top(pc'[V]) \notin PollingLabels
    BY <2>1 DEF PollingLabels, CompleteLabels
  <2> QED BY <1>6, <2>1, <2>2 DEF IInv, WorkInv, Lab
<1>13. OwnInv'
    BY <1>1, <1>2, <1>3, <1>4, <1>0, <1>6, OwnKept
       DEF OwnMarks, HolderLabels, schedulerVars, Relocated
<1>14. DeliveryInv'
  <2>1. MaxResets # 0
    BY <1>0, <1>2
       DEF IInv, DeliveryInv, Lab, Move, ResettingLabels, QuiesceLabels,
           ResetLabels, CompleteLabels
  <2> QED BY <2>1 DEF DeliveryInv
<1> QED BY <1>2, <1>7, <1>9, <1>11, <1>12, <1>13, <1>14 DEF IInv, Control, Move

\* The job has ended, and work items may be queued again.
LEMMA QuiesceEndedStep ==
    ASSUME IInv, QuiesceEnded
    PROVE  IInv' /\ SchedulerCall
<1>1. /\ Controlled(pc) /\ V \in Threads /\ V \notin RenderWorkers /\ V # D /\ V \notin PagingWorkers
      /\ pc[V] # <<>> /\ Head(pc[V]) = "QuiesceEnded"
      /\ pc' = [pc EXCEPT ![V] = <<"ResetEngine">> \o Tail(pc[V])]
    BY ThreadFacts DEF QuiesceEnded, At, Goto, IInv, Control
<1>2. Move(pc, pc', V, "QuiesceEnded", "ResetEngine")
    BY <1>1, GotoMoves, Jumps
<1>3. /\ Platform' = [Platform EXCEPT !.Resetting = FALSE]
      /\ loc' = [loc EXCEPT ![V] = NoLocals]
      /\ UNCHANGED <<schedulerVars, CpuQueue, Paging, PagingIdle, RenderPacket, G4Pending,
                     Preempting, Used>>
    BY DEF QuiesceEnded, cpuVars, renderVars, osVars, Reject
<1>4. Relocated(loc, loc', V)
    BY <1>1, <1>3, LocalFacts DEF IInv
<1>6. /\ DOMAIN Platform' = PlatformFields
      /\ Platform'.Phase = Platform.Phase
      /\ Platform'.WorkScheduled = Platform.WorkScheduled
      /\ Platform'.WorkQueued = Platform.WorkQueued
      /\ Platform'.WorkIdle = Platform.WorkIdle
      /\ Platform'.Resetting = FALSE
    BY <1>3 DEF IInv, Records, PlatformFields
<1>7. SchedulerCall /\ SchedTyped'
    BY <1>3, CallTyped DEF IInv, SchedulerCall
<1>9. Records'
    BY <1>1, <1>2, <1>3, <1>4, <1>6, RecordsKept
       DEF IInv, Records, SubmitLabels
<1>11. CpuInv'
    BY <1>1, <1>2, <1>3, CpuKept DEF CpuMarks, PagingLabels
<1>12. WorkInv'
  <2>1. Top(pc'[V]) = "ResetEngine" /\ \A q \in RenderWorkers : pc'[q] = pc[q]
    BY <1>1, <1>2, ThreadFacts DEF Move
  <2>2. Top(pc'[V]) \notin PollingLabels
    BY <2>1 DEF PollingLabels, CompleteLabels
  <2> QED BY <1>6, <2>1, <2>2 DEF IInv, WorkInv, Lab
<1>13. OwnInv'
    BY <1>1, <1>2, <1>3, <1>4, <1>6, OwnKept
       DEF OwnMarks, HolderLabels, schedulerVars, Relocated
<1>14. DeliveryInv'
  <2>1. MaxResets # 0
    BY <1>2
       DEF IInv, DeliveryInv, Lab, Move, ResettingLabels, QuiesceLabels,
           ResetLabels, CompleteLabels
  <2> QED BY <2>1 DEF DeliveryInv
<1> QED BY <1>2, <1>7, <1>9, <1>11, <1>12, <1>13, <1>14 DEF IInv, Control, Move

\* A reset that meets a running packet fails.
LEMMA ResetFailsStep ==
    ASSUME IInv, ResetFails
    PROVE  IInv' /\ SchedulerCall
<1>1. /\ Controlled(pc) /\ V \in Threads /\ V \notin RenderWorkers
      /\ pc[V] # <<>> /\ Head(pc[V]) = "ResetEngine"
    BY ThreadFacts DEF ResetFails, At, IInv, Control
<1>2. pc' = [pc EXCEPT ![V] = Tail(pc[V])] /\ loc' = loc
    BY DEF ResetFails, Return
<1>3. Move(pc, pc', V, "ResetEngine", "")
    BY <1>1, <1>2, HostReturn DEF HostLabels, ResetLabels
<1>4. Moved(pc, pc', V) /\ Top(pc'[V]) = ""
    BY <1>1, <1>3, PlainJumps DEF Move, Moved
<1>5. Relocated(loc, loc', V)
    BY <1>1, <1>2, LocalFacts DEF IInv
<1> QED BY <1>1, <1>4, <1>5, MovedStep DEF ResetFails, cpuVars, renderVars, osVars, SubmitLabels

\* The scheduler forgets the active fence, which nobody owns any more: no CPU
\* packet is pending and no render packet is active.
LEMMA ResetEngineStep ==
    ASSUME IInv, ResetEngine
    PROVE  IInv' /\ SchedulerCall
<1>1. /\ Controlled(pc) /\ V \in Threads /\ V \notin RenderWorkers /\ V # D /\ V \notin PagingWorkers
      /\ pc[V] # <<>> /\ Head(pc[V]) = "ResetEngine"
      /\ pc' = [pc EXCEPT ![V] = <<"ResetRetire">> \o Tail(pc[V])]
    BY ThreadFacts DEF ResetEngine, At, Goto, IInv, Control
<1>2. Move(pc, pc', V, "ResetEngine", "ResetRetire")
    BY <1>1, GotoMoves, Jumps
<1>3. /\ ResetAllowed /\ Sched!ResetEngine
      /\ RenderPacket' = IF QueuedPair # {} THEN EmptyPacket ELSE RenderPacket
      /\ CpuQueue' = <<>> /\ G4Pending' = PendingKept
      /\ PagingIdle' = PagingQuiet'
      /\ UNCHANGED <<Paging, Platform, Preempting, Used>>
    BY DEF ResetEngine, ResetScheduler, osVars
<1>4. Relocated(loc, loc', V)
    BY <1>1, LocalFacts DEF ResetEngine, IInv
<1>5. ActiveFence' = NoFence
    BY <1>3
       DEF Sched!ResetEngine, Sched!SchedResetEngine, Sched!ResetQueues,
           NoFence, Sched!NoFence
<1>6. /\ DOMAIN RenderPacket' = {"State", "Fence", "Context"}
      /\ RenderPacket'.State \in {"Empty", RenderPacket.State}
      /\ RenderPacket.State # "Queued" => RenderPacket' = RenderPacket
    BY <1>3, PacketDropped
<1>7. SchedulerCall /\ SchedTyped'
    BY <1>3, CallTyped DEF IInv, SchedulerCall
<1>8. <<>> \in Seq(CpuPacketType)
    OBVIOUS
<1>9. Records'
    BY <1>1, <1>2, <1>3, <1>4, <1>6, <1>8, PendingKeptFacts, RecordsKept
       DEF IInv, Records, SubmitLabels
<1>11. CpuInv'
  <2>1. SameCpuLabels(pc, pc')
    BY <1>1, <1>2, CpuLabels DEF Move, CpuMarks, PagingLabels
  <2>2. PagingToken'
    BY <1>3, <2>1
       DEF IInv, CpuInv, PagingToken, Executing, DpcTook, Lab, SameCpuLabels
  <2> QED BY <1>3, <2>2 DEF CpuInv
<1>12. WorkInv'
    BY <1>1, <1>2, <1>3, WorkKept DEF PollingLabels, CompleteLabels
<1>13. OwnInv'
  <2>1. ~Paging.Pending /\ RenderPacket.State # "Active" /\ \A p \in PagingWorkers : pc[p] = <<>>
    BY <1>3 DEF ResetAllowed, ResetBusy, PagingWorkersActive, Running
  <2>2. \A u \in Threads : u # V => pc'[u] = pc[u]
    BY <1>2 DEF Move
  <2>3. ~CpuOwns'
    <3>1. ~Paging.WorkQueued
      BY <2>1 DEF IInv, CpuInv, PagingToken
    <3>2. \A p \in PagingWorkers : Top(pc'[p]) = ""
      BY <2>1, <2>2, ThreadFacts DEF Top
    <3> QED BY <1>3, <3>1, <3>2 DEF CpuOwns, Lab
  <2>4. Platform.Phase # "Submitted" /\ \A u \in RenderWorkers \cup {V} : Lab(u) \notin HolderLabels
    BY <2>1 DEF IInv, OwnInv
  <2>5. Top(pc'[V]) = "ResetRetire" /\ \A r \in RenderWorkers : pc'[r] = pc[r]
    BY <1>1, <1>2, <2>2, ThreadFacts DEF Move
  <2>6. /\ Lab(V)' \notin OwnMarks
        /\ \A r \in RenderWorkers : Lab(r)' = Lab(r) /\ Lab(r) \notin HolderLabels
    BY <2>4, <2>5 DEF Lab, OwnMarks, HolderLabels
  <2>7. RenderPacket'.State # "Active"
    BY <1>6, <2>1
  <2>8. \A r \in RenderWorkers : Lab(r)' = "BindQueue" =>
          /\ RenderPacket'.State = "Prepared"
          /\ \A u \in RenderWorkers \cup {V} : u # r => Lab(u)' \notin {"BindQueue", "QueuePacket"}
          /\ G4Pending' # <<>> /\ Head(G4Pending').State \in {"Binding", "Dropped"}
    BY <1>3, <1>6, <2>6, PendingKeptFacts DEF IInv, OwnInv, OwnMarks
  <2>9. \A r \in RenderWorkers : Lab(r)' # "QueuePacket"
    BY <1>2, WorkerLab DEF Lab, Move
  <2> QED BY <1>3, <1>5, <2>3, <2>4, <2>6, <2>7, <2>8, <2>9 DEF OwnInv, OwnMarks, HolderLabels
<1>14. DeliveryInv'
  <2>1. MaxResets # 0
    BY <1>2
       DEF IInv, DeliveryInv, Lab, Move, ResettingLabels, QuiesceLabels,
           ResetLabels, CompleteLabels
  <2> QED BY <2>1 DEF DeliveryInv
<1> QED BY <1>2, <1>7, <1>9, <1>11, <1>12, <1>13, <1>14 DEF IInv, Control, Move

\* The context of the discarded render is released ...
LEMMA ResetRetireStep ==
    ASSUME IInv, ResetRetire
    PROVE  IInv' /\ SchedulerCall
<1>1. /\ Controlled(pc) /\ V \in Threads
      /\ pc[V] # <<>> /\ Head(pc[V]) = "ResetRetire"
      /\ pc' = [pc EXCEPT ![V] = <<"ResetClear">> \o Tail(pc[V])]
    BY ThreadFacts DEF ResetRetire, At, Goto, IInv, Control
<1>2. Moved(pc, pc', V) /\ Top(pc'[V]) = "ResetClear"
    BY <1>1, GotoPlain, Jumps, PlainJumps
<1>3. Relocated(loc, loc', V)
    BY <1>1, LocalFacts DEF ResetRetire, IInv
<1> QED BY <1>1, <1>2, <1>3, MovedStep DEF ResetRetire, cpuVars, renderVars, osVars, SubmitLabels

\* ... and the fault is cleared.
LEMMA ResetClearStep ==
    ASSUME IInv, ResetClear
    PROVE  IInv' /\ SchedulerCall
<1>1. /\ Controlled(pc) /\ V \in Threads /\ V \notin RenderWorkers /\ V # D /\ V \notin PagingWorkers
      /\ pc[V] # <<>> /\ Head(pc[V]) = "ResetClear" /\ pc' = [pc EXCEPT ![V] = Tail(pc[V])]
    BY ThreadFacts DEF ResetClear, At, Return, IInv, Control
<1>2. Move(pc, pc', V, "ResetClear", "")
    BY <1>1, HostReturn DEF HostLabels, ResetLabels
<1>3. UNCHANGED <<schedulerVars, CpuQueue, Paging, PagingIdle, RenderPacket, G4Pending,
                  Platform, Used, loc>>
    BY DEF ResetClear, cpuVars, renderVars
<1>4. Relocated(loc, loc', V)
    BY <1>1, <1>3, LocalFacts DEF IInv
<1>7. SchedulerCall /\ SchedTyped'
    BY <1>3, CallTyped DEF IInv, SchedulerCall
<1>9. Records'
    BY <1>1, <1>2, <1>3, <1>4, RecordsKept DEF IInv, Records, SubmitLabels
<1>11. CpuInv'
    BY <1>1, <1>2, <1>3, CpuKept DEF CpuMarks, PagingLabels
<1>12. WorkInv'
    BY <1>1, <1>2, <1>3, WorkKept DEF PollingLabels, CompleteLabels
<1>13. OwnInv'
    BY <1>1, <1>2, <1>3, <1>4, OwnKept
       DEF OwnMarks, HolderLabels, schedulerVars, Relocated
<1>14. DeliveryInv'
  <2>1. MaxResets # 0
    BY <1>2
       DEF IInv, DeliveryInv, Lab, Move, ResettingLabels, QuiesceLabels,
           ResetLabels, CompleteLabels
  <2> QED BY <2>1 DEF DeliveryInv
<1> QED BY <1>2, <1>7, <1>9, <1>11, <1>12, <1>13, <1>14 DEF IInv, Control, Move

-----------------------------------------------------------------------------
(* The invariant holds, and what it implies.                               *)

\* Every step keeps the invariant and calls the scheduler at most once.
LEMMA NextInv == IInv /\ [Next]_vars => IInv' /\ SchedulerCall
<1> SUFFICES ASSUME IInv, [Next]_vars PROVE IInv' /\ SchedulerCall
    OBVIOUS
<1>1. CASE Submit
  <2>1. ASSUME NEW kind \in {"paging", "touch"}, SubmitCpu(kind) PROVE IInv' /\ SchedulerCall
    BY <2>1, SubmitCpuStep
  <2>2. ASSUME NEW c \in Contexts, SubmitPresent(c) PROVE IInv' /\ SchedulerCall
    BY <2>2, SubmitPresentStep
  <2>3. CASE ResubmitPaging
    BY <2>3, ResubmitPagingStep
  <2>4. ASSUME NEW c \in Contexts, SubmitRender(c) PROVE IInv' /\ SchedulerCall
    BY <2>4, SubmitRenderStep
  <2>5. CASE SubmitAdmissible
    BY <2>5, SubmitAdmissibleStep
  <2>6. CASE PendingReserve
    BY <2>6, PendingReserveStep
  <2>7. CASE PendingPublish
    BY <2>7, PendingPublishStep
  <2>8. CASE AwaitReady
    BY <2>8, AwaitReadyStep
  <2>9. CASE AwaitSlot
    BY <2>9, AwaitSlotStep
  <2>10. CASE AwaitGiveUp
    BY <2>10, AwaitGiveUpStep
  <2>11. CASE PreparePacket
    BY <2>11, PreparePacketStep
  <2>12. CASE QueuePacket
    BY <2>12, QueuePacketStep
  <2>13. CASE RollbackPacket
    BY <2>13, RollbackPacketStep
  <2> QED BY <1>1, <2>1, <2>2, <2>3, <2>4, <2>5, <2>6, <2>7, <2>8, <2>9, <2>10, <2>11, <2>12, <2>13 DEF Submit
<1>2. CASE Preempt
    BY <1>2, PreemptRefusedStep, PreemptCommandStep DEF Preempt
<1>3. CASE Reset
  <2>1. CASE ResetBegin
    BY <2>1, ResetBeginStep
  <2>2. CASE QuiesceClaim
    BY <2>2, QuiesceClaimStep
  <2>3. CASE QuiesceWait
    BY <2>3, QuiesceWaitStep
  <2>4. CASE QuiesceCheck
    BY <2>4, QuiesceCheckStep
  <2>5. CASE QuiescePoll
    BY <2>5, QuiescePollStep
  <2>6. CASE QuiesceGiveUp
    BY <2>6, QuiesceGiveUpStep
  <2>7. CASE QuiesceEnded
    BY <2>7, QuiesceEndedStep
  <2>8. CASE ResetFails
    BY <2>8, ResetFailsStep
  <2>9. CASE ResetEngine
    BY <2>9, ResetEngineStep
  <2>10. CASE ResetRetire
    BY <2>10, ResetRetireStep
  <2>11. CASE ResetClear
    BY <2>11, ResetClearStep
  <2> QED BY <1>3, <2>1, <2>2, <2>3, <2>4, <2>5, <2>6, <2>7, <2>8, <2>9, <2>10, <2>11 DEF Reset
<1>4. CASE Dpc
  <2>1. CASE DpcStart
    BY <2>1, DpcStartStep
  <2>2. CASE PagingDpcTake
    BY <2>2, PagingDpcTakeStep
  <2>3. CASE PagingDpcEnter
    BY <2>3, PagingDpcEnterStep
  <2>4. CASE PagingDpcRetire
    BY <2>4, PagingDpcRetireStep
  <2>5. CASE PagingDpcLeave
    BY <2>5, PagingDpcLeaveStep
  <2>6. CASE NotifyDpc
    BY <2>6, NotifyDpcStep
  <2>7. CASE SchedulerDpcRead
    BY <2>7, SchedulerDpcReadStep
  <2>8. CASE SchedulerDpcTake
    BY <2>8, SchedulerDpcTakeStep
  <2>9. CASE SchedulerDpcTry
    BY <2>9, SchedulerDpcTryStep
  <2>10. CASE SchedulerDpcRelease
    BY <2>10, SchedulerDpcReleaseStep
  <2> QED BY <1>4, <2>1, <2>2, <2>3, <2>4, <2>5, <2>6, <2>7, <2>8, <2>9, <2>10 DEF Dpc
<1>5. ASSUME NEW p \in PagingWorkers, PagingWorker(p) PROVE IInv' /\ SchedulerCall
  <2>1. CASE PagingWorkerStart(p)
    BY <2>1, PagingWorkerStartStep
  <2>2. CASE PagingRecordCompletion(p)
    BY <2>2, PagingRecordCompletionStep
  <2>3. CASE PagingFail(p)
    BY <2>3, PagingFailStep
  <2>4. CASE PagingNotify(p)
    BY <2>4, PagingNotifyStep
  <2>5. CASE PagingWorkerLeave(p)
    BY <2>5, PagingWorkerLeaveStep
  <2> QED BY <1>5, <2>1, <2>2, <2>3, <2>4, <2>5 DEF PagingWorker
<1>6. ASSUME NEW r \in RenderWorkers, RenderWorker(r) PROVE IInv' /\ SchedulerCall
  <2>1. CASE RenderWorkerStart(r)
    BY <2>1, RenderWorkerStartStep
  <2>2. CASE BindHead(r)
    BY <2>2, BindHeadStep
  <2>3. CASE BindQueue(r)
    BY <2>3, BindQueueStep
  <2>4. CASE BindFail(r)
    BY <2>4, BindFailStep
  <2>5. CASE ActivateSkip(r)
    BY <2>5, ActivateSkipStep
  <2>6. CASE ActivatePacket(r)
    BY <2>6, ActivatePacketStep
  <2>7. CASE ActivateFault(r)
    BY <2>7, ActivateFaultStep
  <2>8. CASE BackendSubmit(r)
    BY <2>8, BackendSubmitStep
  <2>9. CASE BackendSubmitFail(r)
    BY <2>9, BackendSubmitFailStep
  <2>10. CASE JobEnds(r)
    BY <2>10, JobEndsStep
  <2>11. CASE PollAbandon(r)
    BY <2>11, PollAbandonStep
  <2>12. CASE WorkerFinished(r)
    BY <2>12, WorkerFinishedStep
  <2>13. CASE WorkerTestReset(r)
    BY <2>13, WorkerTestResetStep
  <2>14. CASE WorkerRetryNotify(r)
    BY <2>14, WorkerRetryNotifyStep
  <2>15. CASE WorkerLeave(r)
    BY <2>15, WorkerLeaveStep
  <2> QED BY <1>6, <2>1, <2>2, <2>3, <2>4, <2>5, <2>6, <2>7, <2>8, <2>9, <2>10, <2>11, <2>12, <2>13, <2>14, <2>15 DEF RenderWorker
<1>7. ASSUME NEW t \in Threads, Dispatch(t) PROVE IInv' /\ SchedulerCall
  <2>1. CASE DispatchCheck(t)
    BY <2>1, DispatchCheckStep
  <2>2. CASE DispatchCpu(t)
    BY <2>2, DispatchCpuStep
  <2>3. CASE DispatchRender(t)
    BY <2>3, DispatchRenderStep
  <2>4. CASE DispatchNothing(t)
    BY <2>4, DispatchNothingStep
  <2>5. CASE RuntimeSubmit(t)
    BY <2>5, RuntimeSubmitStep
  <2>6. CASE DispatchRelease(t)
    BY <2>6, DispatchReleaseStep
  <2>7. CASE DispatchRetry(t)
    BY <2>7, DispatchRetryStep
  <2> QED BY <1>7, <2>1, <2>2, <2>3, <2>4, <2>5, <2>6, <2>7 DEF Dispatch
<1>8. ASSUME NEW t \in Threads, TryNotify(t) PROVE IInv' /\ SchedulerCall
  <2>1. CASE TryNotifyDefer(t)
    BY <2>1, TryNotifyDeferStep
  <2>2. CASE TryNotifyClaim(t)
    BY <2>2, TryNotifyClaimStep
  <2>3. CASE NotifyPreemption(t)
    BY <2>3, NotifyPreemptionStep
  <2>4. CASE CommitNotification(t)
    BY <2>4, CommitNotificationStep
  <2> QED BY <1>8, <2>1, <2>2, <2>3, <2>4 DEF TryNotify
<1>9. ASSUME NEW t \in Threads, Complete(t) PROVE IInv' /\ SchedulerCall
  <2>1. CASE CompleteCommit(t)
    BY <2>1, CompleteCommitStep
  <2>2. CASE CompleteReport(t)
    BY <2>2, CompleteReportStep
  <2>3. CASE CompleteRetire(t)
    BY <2>3, CompleteRetireStep
  <2> QED BY <1>9, <2>1, <2>2, <2>3 DEF Complete
<1>10. CASE UNCHANGED vars
    BY <1>10, StutterInv
<1> QED BY <1>1, <1>2, <1>3, <1>4, <1>5, <1>6, <1>7, <1>8, <1>9, <1>10 DEF Next

\* The invariant holds in every reachable state: each thread is where its
\* callers allow, and the CPU packet, the render slot, the work item and the
\* notification are each in one hand at a time.
THEOREM Inductive == Spec => []IInv
<1>1. Init => IInv
    BY InitInv
<1>2. IInv /\ [Next]_vars => IInv'
    BY NextInv
<1> QED BY <1>1, <1>2, PTL DEF Spec

\* AdmissionDispatch implements AgxScheduler: whatever the DDIs, the workers,
\* the DPC and the interrupt handlers do, each step makes at most one call
\* into apple_agx_scheduler.c, and one that AgxScheduler allows, so everything
\* proved of AgxScheduler holds of the scheduler inside the adapter.
THEOREM ImplementsScheduler == Spec => SchedulerRefined
<1>1. Init => Sched!Init
    BY DEF Init
<1>2. IInv /\ [Next]_vars => [Sched!Next]_(Sched!vars)
  <2> SUFFICES ASSUME IInv, [Next]_vars PROVE [Sched!Next]_(Sched!vars)
    OBVIOUS
  <2>1. SchedulerCall /\ SchedTyped
    BY NextInv DEF IInv
  <2> QED BY <2>1, CallTyped
<1> QED BY <1>1, <1>2, Inductive, PTL DEF Spec, SchedulerRefined, Sched!Spec

\* PagingIdle is set exactly when the CPU executor is quiet
\* (AdmissionPagingUpdateIdleLocked), and WorkIdle only when no render work
\* item is queued or running: what PagingStop and the reset wait for before
\* they free or poll.
THEOREM IdleEventsTellTheTruth == Spec => []IdleAccurate
<1>1. IInv => IdleAccurate
  <2> SUFFICES ASSUME IInv PROVE IdleAccurate
    OBVIOUS
  <2>1. \A r \in RenderWorkers : Lab(r) = "" => ~Running(r)
    BY RunningLab, ThreadFacts DEF IInv, Control, Lab, Running
  <2> QED BY <2>1 DEF IInv, CpuInv, WorkInv, IdleAccurate
<1> QED BY <1>1, Inductive, PTL

\* The active fence belongs to the CPU packet in progress, the active render
\* packet or a failed CPU packet, and the firmware holds a job only while its
\* packet is active.
THEOREM EngineHasOneOwner == Spec => []OneJob
<1>1. IInv => OneJob
  <2> SUFFICES ASSUME IInv PROVE OneJob
    OBVIOUS
  <2>1. CpuOwns => Paging.Pending /\ Paging.Fence = ActiveFence
    BY DEF IInv, CpuInv, PagingToken, Executing, OwnInv, CpuOwns
  <2>2. /\ RenderPacket.State = "Active" => ActiveFence = RenderPacket.Fence
        /\ Platform.Phase = "Submitted" => RenderPacket.State = "Active"
        /\ ActiveFence # NoFence => \/ CpuOwns
                                    \/ RenderPacket.State = "Active"
                                    \/ Paging.Fence = ActiveFence /\ ~Paging.Ok
    BY DEF IInv, OwnInv
  <2> QED BY <2>1, <2>2 DEF OneJob, FailedFence
<1> QED BY <1>1, Inductive, PTL

\* Without an engine reset, DMA_PREEMPTED is delivered by one thread at a time
\* (AdmissionTryNotifyPreemption from the preempt call, the DPC or a leaving
\* worker) and only while Windows waits for it.
THEOREM PreemptionAnsweredOnce ==
    ASSUME MaxResets = 0
    PROVE  Spec => []PreemptedOnce
<1>1. IInv => PreemptedOnce
  <2> SUFFICES ASSUME IInv, NEW t \in Threads, At(t, "NotifyPreemption")
               PROVE  /\ Preempting = "Waiting"
                      /\ \A u \in Threads \ {t} : ~At(u, "NotifyPreemption")
    BY DEF PreemptedOnce
  <2>1. \A u \in Threads : At(u, "NotifyPreemption") <=> Lab(u) = "NotifyPreemption"
    BY TopAt DEF At, Lab
  <2>2. "NotifyPreemption" \in DeliveryLabels
    BY DEF DeliveryLabels
  <2> QED BY <2>1, <2>2 DEF IInv, DeliveryInv
<1> QED BY <1>1, Inductive, PTL
=============================================================================
