---------------------------- MODULE EngineProofs ----------------------------
(***************************************************************************)
(* Proofs that the engine is given back, that no CPU packet is forgotten   *)
(* and that the queues agree (EngineReleased, OnlyRenderLost and           *)
(* QueueCoherent of AdmissionDispatch).                                    *)
(*                                                                         *)
(* They stand on the invariant of AdmissionInvariant.  EngineInv says who  *)
(* answers for the reservation DispatchedFence: the CPU packet in          *)
(* progress, a render that can be activated and somebody who will activate *)
(* it or give the reservation back, the render that runs, or a completion  *)
(* on its way to the DPC.  QueueInv says that the fences queued with the   *)
(* scheduler are those of the packets in the CPU queue, the pending ring   *)
(* and the render slot, each once.  WakeInv says where the CPU packet in   *)
(* progress is, and that somebody will dispatch while one is ready.        *)
(***************************************************************************)
EXTENDS AdmissionProofs, FiniteSetTheorems

-----------------------------------------------------------------------------
(* Who answers for the reservation.                                        *)

\* A reset quiesces with the adapter faulted, and only then is the platform
\* marked Resetting; between the reset of the scheduler and the end of the
\* fault there is nothing to run.
QuiescingLabels == QuiesceLabels \cup CompleteLabels
ClearingLabels == {"ResetRetire", "ResetClear"}
FaultInv ==
    /\ Lab(V) \in QuiescingLabels => SchedulerFaulted
    /\ Platform.Resetting => Lab(V) \in QuiescingLabels
    /\ Lab(V) \in ClearingLabels =>
         /\ QueuedFence = NoFence /\ DispatchedFence = NoFence
         /\ RenderPacket.State # "Active"

\* A running job has somebody who runs it.
RunLabels == {"BackendSubmit", "Poll", "Complete"}
ActiveHeld ==
    RenderPacket.State = "Active" =>
        SchedulerFaulted \/ \E r \in RenderWorkers : Lab(r) \in RunLabels

\* The fence is that of the CPU packet in progress, or of the one that failed.
CpuHas(f) ==
    Paging.Fence = f /\ ActiveFence = f /\ (CpuOwns \/ ~Paging.Ok)

\* The render packet of the fence can be activated, or bound first, or is
\* being bound.
BindingNow == \E r \in RenderWorkers : Lab(r) = "BindQueue"
HeadReady(f) ==
    \/ RenderPacket.State = "Queued" /\ RenderPacket.Fence = f
    \/ /\ RenderPacket.State = "Empty" /\ G4Pending # <<>>
       /\ Head(G4Pending).State = "Queued" /\ Head(G4Pending).Fence = f
    \/ /\ RenderPacket.State = "Prepared" /\ G4Pending # <<>>
       /\ Head(G4Pending).State = "Binding" /\ Head(G4Pending).Fence = f
       /\ RenderPacket.Fence = f /\ BindingNow

\* Somebody will activate that packet or give the reservation back: a
\* dispatcher that has not queued the work item yet, the queued work item, or
\* the worker on its way to the activation.
Dispatching(t, f) == Lab(t) \in {"RuntimeSubmit", "Release"} /\ loc[t].Fence = f
Activating(r) ==
    \/ Lab(r) = "Bind"
    \/ Lab(r) = "BindQueue" /\ RenderPacket.State = "Prepared"
    \/ Lab(r) = "Activate" /\ RenderPacket.State = "Queued"
Executor(f) ==
    \/ \E t \in Threads : Dispatching(t, f)
    \/ Platform.WorkQueued
    \/ \E r \in RenderWorkers : Activating(r)

\* The fence is at the head of the queue, ready, and on its way to the engine.
Waiting(f) ==
    f = QueuedFence /\ ActiveFence = NoFence /\ HeadReady(f) /\ Executor(f)

\* The fence has completed and its completion is on the way to the DPC.
BeforeTake == {"PagingDpc", "PagingDpcEnter", "PagingDpcRetire", "PagingDpcLeave",
               "NotifyDpc", "SchedulerDpc", "TakeRenderFence"}
Reporter(t, f) == Lab(t) = "Report" /\ loc[t].Job = f
ReportOnItsWay(f) ==
    \/ \E t \in RenderWorkers \cup {V} : Reporter(t, f)
    \/ RenderDpcFence = f /\ (DpcQueued \/ Lab(D) \in BeforeTake)
    \/ loc[D].Job = f

RunningJob(f) == RenderPacket.State = "Active" /\ RenderPacket.Fence = f

\* The reservation is answered for.
ReservedInv ==
    DispatchedFence # NoFence =>
        \/ SchedulerFaulted
        \/ CpuHas(DispatchedFence)
        \/ Waiting(DispatchedFence)
        \/ RunningJob(DispatchedFence)
        \/ ReportOnItsWay(DispatchedFence)

\* While a job runs, and until its completion is reported, the engine is not
\* reserved for another fence whose completion is on its way: the DPC has room
\* for one.
OneReport ==
    /\ RenderPacket.State = "Active" => DispatchedFence \in {NoFence, RenderPacket.Fence}
    /\ \A t \in RenderWorkers \cup {V} : Lab(t) = "Report" =>
         \/ SchedulerFaulted
         \/ DispatchedFence \in {NoFence, loc[t].Job}
         \/ CpuHas(DispatchedFence)
         \/ Waiting(DispatchedFence)

\* The DPC that took a completion is on its way to the release.
DpcReleases ==
    loc[D].Job # NoFence =>
        \/ Lab(D) \in {"TestUnreported", "ReleaseReserved"}
        \/ Frame(pc[D], DispatchFrame, <<"ReleaseReserved">>)

EngineInv ==
    /\ FaultInv
    /\ ActiveHeld
    /\ ReservedInv
    /\ OneReport
    /\ DpcReleases

-----------------------------------------------------------------------------
(* The queues agree.                                                       *)

\* The scheduler's queue by itself: the cached head, submission order, and no
\* fence beyond the last one submitted.
Increasing(seq) == \A i, j \in 1 .. Len(seq) : i < j => seq[i] < seq[j]
FenceQueueInv ==
    /\ QueuedFence = Sched!HeadOrNone(FenceQueue)
    /\ Increasing(FenceQueue)
    /\ \A i \in 1 .. Len(FenceQueue) : FenceQueue[i] <= LastSubmittedFence
    /\ Owed \cup PagingFences \subseteq 0 .. LastSubmittedFence

\* Only the head of the pending ring can be other than queued, only while a
\* worker binds it, and then it is the packet in the slot.  The immediate path
\* finds the ring empty.  A prepared packet is being bound.
Bound == G4Pending # <<>> /\ Head(G4Pending).State # "Queued"
BindInv ==
    /\ \A i \in 2 .. Len(G4Pending) : G4Pending[i].State = "Queued"
    /\ Bound => BindingNow
    /\ Bound /\ Head(G4Pending).State = "Binding" => RenderPacket.Fence = Head(G4Pending).Fence
    /\ Lab(V) = "QueuePacket" => G4Pending = <<>> /\ RenderPacket.Fence = loc[V].Job
    /\ RenderPacket.State = "Prepared" => Lab(V) = "QueuePacket" \/ BindingNow

\* A fence queued with the scheduler, and the packets that wait.
InQueue(f) == \E i \in 1 .. Len(FenceQueue) : FenceQueue[i] = f
InCpu(f) == \E i \in 1 .. Len(CpuQueue) : CpuQueue[i].Fence = f
Live(i) == G4Pending[i].State # "Dropped"
InPending(f) == \E i \in 1 .. Len(G4Pending) : Live(i) /\ G4Pending[i].Fence = f
InSlot(f) == RenderPacket.State = "Queued" /\ RenderPacket.Fence = f

\* The CPU queue and the pending ring are in submission order, the render slot
\* before the ring, and every fence queued has one packet.
QueuesAgree ==
    /\ \A i, j \in 1 .. Len(CpuQueue) : i < j => CpuQueue[i].Fence < CpuQueue[j].Fence
    /\ \A i, j \in 1 .. Len(G4Pending) :
         i < j /\ Live(i) => G4Pending[i].Fence < G4Pending[j].Fence
    /\ \A f : InPending(f) => ~InCpu(f)
    /\ \A f : InSlot(f) => ~InCpu(f)
    /\ \A f, g : InSlot(f) /\ InPending(g) => f < g
    /\ \A f : InQueue(f) <=> InCpu(f) \/ InPending(f) \/ InSlot(f)

\* A bind that failed leaves its fence without a packet until the reset.
QueueInv ==
    /\ FenceQueueInv
    /\ BindInv
    /\ ~SchedulerFaulted \/ Lab(V) \in ClearingLabels => QueuesAgree

-----------------------------------------------------------------------------
(* Nobody forgets the CPU queue.                                           *)

\* The CPU packet in progress is somewhere, and its completion finds a DPC.
TokenInv ==
    /\ Paging.Pending => \/ Paging.WorkQueued
                         \/ Paging.DpcPending
                         \/ DpcTook
                         \/ \E p \in PagingWorkers : Executing(p)
    /\ Paging.DpcPending => DpcQueued \/ Lab(D) = "PagingDpc"

\* Somebody will dispatch: a thread before AdmissionDispatchQueuedWork's lock, a
\* completion to be reported, or a DPC.
WakeLabels == {"Dispatch", "Reserve", "Report"}
DpcAwake ==
    \/ Lab(D) \in DpcLabels
    \/ Frame(pc[D], DispatchFrame, <<"ReleaseReserved">>)
Awake == DpcQueued \/ DpcAwake \/ \E t \in Threads : Lab(t) \in WakeLabels
WakeInv ==
    /\ TokenInv
    /\ ~SchedulerFaulted /\ Dispatchable /\ CpuHead => Awake

-----------------------------------------------------------------------------
(* What a step of one thread keeps.                                        *)

\* Thread t, and no other, moves from one label to another, and only its
\* locals change.
Went(t, from, to) ==
    /\ Lab(t) = from
    /\ Lab(t)' = to
    /\ \A u \in Threads \ {t} : pc'[u] = pc[u] /\ loc'[u] = loc[u]

\* A fault is not lifted.
FaultStays == SchedulerFaulted => SchedulerFaulted'

\* Where the other threads are.
LEMMA OthersStay ==
    ASSUME NEW t, NEW from, NEW to, Went(t, from, to), NEW u \in Threads, u # t
    PROVE  Lab(u)' = Lab(u) /\ pc'[u] = pc[u] /\ loc'[u] = loc[u]
    BY DEF Went, Lab

\* A thread that is not in the reset keeps FaultInv, unless it queues or
\* reserves or activates while VidSch clears the fault.
LEMMA FaultKept ==
    ASSUME FaultInv, NEW t \in Threads, NEW from, NEW to, Went(t, from, to), FaultStays,
           t = V => /\ to \notin QuiescingLabels \cup ClearingLabels
                    /\ from \notin QuiescingLabels,
           Platform'.Resetting = Platform.Resetting,
           t # V /\ QueuedFence = NoFence /\ DispatchedFence = NoFence
                 /\ RenderPacket.State # "Active" =>
             /\ QueuedFence' = NoFence /\ DispatchedFence' = NoFence
             /\ RenderPacket'.State # "Active"
    PROVE  FaultInv'
<1>1. CASE t = V
    BY <1>1 DEF FaultInv, Went, FaultStays
<1>2. CASE t # V
  <2>1. Lab(V)' = Lab(V)
    BY <1>2, OthersStay, ThreadFacts
  <2> QED BY <1>2, <2>1 DEF FaultInv, FaultStays
<1> QED BY <1>1, <1>2

\* A thread that does not run the job keeps ActiveHeld.
LEMMA ActiveKept ==
    ASSUME ActiveHeld, NEW t \in Threads, NEW from, NEW to, Went(t, from, to), FaultStays,
           t \in RenderWorkers /\ from \in RunLabels => to \in RunLabels,
           RenderPacket'.State = "Active" => RenderPacket.State = "Active"
    PROVE  ActiveHeld'
<1>1. SUFFICES ASSUME RenderPacket'.State = "Active", ~SchedulerFaulted'
               PROVE  \E r \in RenderWorkers : Lab(r)' \in RunLabels
    BY DEF ActiveHeld
<1>2. PICK r \in RenderWorkers : Lab(r) \in RunLabels
    BY <1>1 DEF ActiveHeld, FaultStays
<1>3. CASE r = t
    BY <1>2, <1>3 DEF Went
<1>4. CASE r # t
    BY <1>2, <1>4, OthersStay, ThreadFacts
<1> QED BY <1>3, <1>4

\* The CPU executor keeps its packet.
LEMMA CpuOwnsKept ==
    ASSUME CpuOwns, NEW t \in Threads, NEW from, NEW to, Went(t, from, to),
           from # "PagingRun", Paging'.WorkQueued = Paging.WorkQueued
    PROVE  CpuOwns'
<1>1. CASE Paging.WorkQueued
    BY <1>1 DEF CpuOwns
<1>2. ASSUME NEW p \in PagingWorkers, Lab(p) = "PagingRun" PROVE CpuOwns'
  <2>1. p # t /\ p \in Threads
    BY <1>2, ThreadFacts DEF Went
  <2>2. Lab(p)' = "PagingRun"
    BY <1>2, <2>1, OthersStay
  <2> QED BY <2>2 DEF CpuOwns
<1> QED BY <1>1, <1>2 DEF CpuOwns

\* A thread outside the CPU executor leaves the reservation with the CPU packet.
LEMMA CpuHasKept ==
    ASSUME NEW f, CpuHas(f), NEW t \in Threads, NEW from, NEW to, Went(t, from, to),
           from # "PagingRun", ActiveFence' = ActiveFence,
           Paging'.Fence = Paging.Fence, Paging'.Ok = Paging.Ok,
           Paging'.WorkQueued = Paging.WorkQueued
    PROVE  CpuHas(f)'
    BY CpuOwnsKept DEF CpuHas

\* A thread that is not on the way to the activation leaves a waiting render
\* waiting.
ExecutorLabels == {"RuntimeSubmit", "Release", "Bind", "BindQueue", "Activate"}
\* The places on that way.
LEMMA WaitingKept ==
    ASSUME NEW f, Waiting(f), NEW t \in Threads, NEW from, NEW to, Went(t, from, to),
           from \notin ExecutorLabels,
           QueuedFence' = QueuedFence, ActiveFence' = ActiveFence,
           RenderPacket' = RenderPacket,
           G4Pending # <<>> => G4Pending' # <<>> /\ Head(G4Pending') = Head(G4Pending),
           Platform'.WorkQueued = Platform.WorkQueued
    PROVE  Waiting(f)'
<1>1. \A u \in Threads : Lab(u) \in ExecutorLabels => Lab(u)' = Lab(u) /\ loc'[u] = loc[u]
    BY OthersStay DEF Went
<1>2. \A r \in RenderWorkers : Lab(r) \in ExecutorLabels => Lab(r)' = Lab(r)
    BY <1>1, ThreadFacts
<1>3. BindingNow => BindingNow'
    BY <1>2 DEF BindingNow, ExecutorLabels
<1>4. HeadReady(f)'
    BY <1>3 DEF Waiting, HeadReady
<1>5. \A u \in Threads : Dispatching(u, f) => Dispatching(u, f)'
    BY <1>1 DEF Dispatching, ExecutorLabels
<1>6. \A r \in RenderWorkers : Activating(r) => Activating(r)'
    BY <1>2 DEF Activating, ExecutorLabels
<1>7. Executor(f)'
    BY <1>5, <1>6 DEF Waiting, Executor
<1> QED BY <1>4, <1>7 DEF Waiting

\* A completion stays on its way to the DPC.
LEMMA ReportKept ==
    ASSUME NEW f, ReportOnItsWay(f), NEW t \in Threads, NEW from, NEW to, Went(t, from, to),
           from # "Report",
           t = D => /\ from \in BeforeTake => to \in BeforeTake
                    /\ loc'[D].Job = loc[D].Job,
           RenderDpcFence' = RenderDpcFence, DpcQueued => DpcQueued'
    PROVE  ReportOnItsWay(f)'
<1>1. \A u \in RenderWorkers \cup {V} : Reporter(u, f) => Reporter(u, f)'
  <2>1. SUFFICES ASSUME NEW u \in RenderWorkers \cup {V}, Reporter(u, f)
                 PROVE  Reporter(u, f)'
    OBVIOUS
  <2>2. u \in Threads /\ u # t
    BY <2>1, ThreadFacts DEF Reporter, Went
  <2> QED BY <2>1, <2>2, OthersStay DEF Reporter
<1>2. /\ loc'[D].Job = loc[D].Job
      /\ Lab(D) \in BeforeTake => Lab(D)' \in BeforeTake
  <2>1. CASE t = D
    BY <2>1 DEF Went
  <2>2. CASE t # D
    BY <2>2, OthersStay, ThreadFacts
  <2> QED BY <2>1, <2>2
<1> QED BY <1>1, <1>2 DEF ReportOnItsWay

\* The DPC's release is kept by every other thread ...
LEMMA ReleaseKept ==
    ASSUME DpcReleases, NEW t \in Threads, NEW from, NEW to, Went(t, from, to), t # D
    PROVE  DpcReleases'
    BY OthersStay, ThreadFacts DEF DpcReleases

\* ... and OneReport by a thread that reports nothing and keeps what the
\* reservation stands for.
LEMMA OneReportKept ==
    ASSUME OneReport, NEW t \in Threads, NEW from, NEW to, Went(t, from, to), FaultStays,
           to # "Report",
           RenderPacket'.State = "Active" =>
             RenderPacket.State = "Active" /\ RenderPacket'.Fence = RenderPacket.Fence,
           \/ DispatchedFence' = NoFence
           \/ /\ DispatchedFence' = DispatchedFence
              /\ CpuHas(DispatchedFence) => CpuHas(DispatchedFence)'
              /\ Waiting(DispatchedFence) => Waiting(DispatchedFence)'
    PROVE  OneReport'
<1>1. RenderPacket'.State = "Active" => DispatchedFence' \in {NoFence, RenderPacket'.Fence}
    BY DEF OneReport
<1>2. ASSUME NEW u \in RenderWorkers \cup {V}, Lab(u)' = "Report"
      PROVE  \/ SchedulerFaulted'
             \/ DispatchedFence' \in {NoFence, loc'[u].Job}
             \/ CpuHas(DispatchedFence)'
             \/ Waiting(DispatchedFence)'
  <2>1. u \in Threads /\ u # t
    BY <1>2, ThreadFacts DEF Went
  <2>2. Lab(u) = "Report" /\ loc'[u] = loc[u]
    BY <1>2, <2>1, OthersStay
  <2> QED BY <2>2 DEF OneReport, FaultStays
<1> QED BY <1>1, <1>2 DEF OneReport

\* The labels EngineInv speaks of.
EngineMarks == QuiescingLabels \cup ClearingLabels \cup RunLabels \cup ExecutorLabels
                 \cup BeforeTake \cup {"PagingRun", "Report"}

\* A step between other labels that leaves the reservation and what stands for
\* it alone keeps EngineInv.
EngineUntouched(t) ==
    /\ DispatchedFence' = DispatchedFence /\ ActiveFence' = ActiveFence
    /\ RenderPacket' = RenderPacket /\ RenderDpcFence' = RenderDpcFence
    /\ QueuedFence' = QueuedFence \/ (t = V /\ QueuedFence = NoFence)
    /\ G4Pending # <<>> => G4Pending' # <<>> /\ Head(G4Pending') = Head(G4Pending)
    /\ Paging'.Fence = Paging.Fence /\ Paging'.Ok = Paging.Ok
    /\ Paging'.WorkQueued = Paging.WorkQueued
    /\ Platform'.WorkQueued = Platform.WorkQueued
    /\ Platform'.Resetting = Platform.Resetting
    /\ DpcQueued => DpcQueued'

\* A step that leaves the engine alone and goes nowhere that matters to it keeps
\* EngineInv: every answer for the reservation stays an answer.
LEMMA EngineStays ==
    ASSUME EngineInv, NEW t \in Threads, NEW from, NEW to, Went(t, from, to), FaultStays,
           from \notin EngineMarks, to \notin EngineMarks, EngineUntouched(t),
           t = D => loc'[D].Job = loc[D].Job /\ DpcReleases'
    PROVE  EngineInv'
<1>1. FaultInv'
    BY FaultKept DEF EngineInv, EngineUntouched, EngineMarks
<1>2. ActiveHeld'
    BY ActiveKept DEF EngineInv, EngineUntouched, EngineMarks
<1>3. PICK f : f = DispatchedFence
    OBVIOUS
<1>4. CpuHas(f) => CpuHas(f)'
    BY CpuHasKept DEF EngineUntouched, EngineMarks
<1>5. f # NoFence /\ Waiting(f) => Waiting(f)'
  <2>1. f # NoFence /\ Waiting(f) => QueuedFence' = QueuedFence
    BY DEF EngineUntouched, Waiting
  <2> QED BY <2>1, WaitingKept DEF EngineUntouched, EngineMarks
<1>6. ReportOnItsWay(f) => ReportOnItsWay(f)'
    BY ReportKept DEF EngineUntouched, EngineMarks
<1>7. DispatchedFence' = f /\ RenderPacket' = RenderPacket
    BY <1>3 DEF EngineUntouched
<1>8. ReservedInv'
    BY <1>3, <1>4, <1>5, <1>6, <1>7 DEF EngineInv, ReservedInv, RunningJob, FaultStays
<1>9. OneReport'
    BY <1>3, <1>4, <1>5, <1>7, OneReportKept DEF EngineInv, EngineMarks
<1>10. DpcReleases'
    BY ReleaseKept DEF EngineInv
<1> QED BY <1>1, <1>2, <1>8, <1>9, <1>10 DEF EngineInv

-----------------------------------------------------------------------------
(* How a thread moves.                                                     *)

\* What is below the top of a stack.
LEMMA Below ==
    ASSUME NEW S, NEW s \in Seq(S), s # <<>>
    PROVE  Tail(s) \in Seq(S)
    OBVIOUS

\* A jump.
LEMMA WentGoto ==
    ASSUME IInv, NEW t \in Threads, NEW from, NEW to \in Label, from # "", to # "",
           At(t, from), Goto(t, to), \A u \in Threads \ {t} : loc'[u] = loc[u]
    PROVE  /\ Went(t, from, to)
           /\ pc'[t] # <<>> /\ Head(pc'[t]) = to /\ Tail(pc'[t]) = Tail(pc[t])
<1>1. pc \in [Threads -> Seq(Label)] /\ pc[t] \in Seq(Label) /\ pc[t] # <<>>
    BY DEF IInv, Control, Controlled, At
<1>t. Tail(pc[t]) \in Seq(Label)
    BY <1>1, Below
<1>2. PICK s \in Seq(Label) : s = Tail(pc[t])
    BY <1>t
<1>3. /\ <<to>> \o s # <<>> /\ Head(<<to>> \o s) = to /\ Tail(<<to>> \o s) = s
    BY Pushed
<1>4. pc' = [pc EXCEPT ![t] = <<to>> \o s]
    BY <1>2 DEF Goto
<1>5. pc'[t] = <<to>> \o s /\ \A u \in Threads \ {t} : pc'[u] = pc[u]
    BY <1>1, <1>4
<1>6. Lab(t) = from
    BY DEF At, Lab, Top
<1>7. Lab(t)' = to
    BY <1>3, <1>5 DEF Lab, Top
<1> QED BY <1>2, <1>3, <1>5, <1>6, <1>7 DEF Went

\* A return.
LEMMA WentReturn ==
    ASSUME IInv, NEW t \in Threads, NEW from, from # "",
           At(t, from), Return(t), \A u \in Threads \ {t} : loc'[u] = loc[u]
    PROVE  Went(t, from, Lab(t)') /\ Popped(t, from, Lab(t)')
<1>1. /\ Controlled(pc) /\ pc[t] # <<>> /\ Head(pc[t]) = from
      /\ pc' = [pc EXCEPT ![t] = Tail(pc[t])]
    BY DEF IInv, Control, At, Return
<1>2. Move(pc, pc', t, from, Top(pc'[t])) /\ Popped(t, from, Top(pc'[t]))
    BY <1>1, ReturnMoves
<1> QED BY <1>2 DEF Move, Went, Lab

\* The start of an idle thread.
LEMMA WentEnter ==
    ASSUME IInv, NEW t \in Threads, NEW to \in Label, to # "",
           Enter(t, to), \A u \in Threads \ {t} : loc'[u] = loc[u]
    PROVE  Went(t, "", to)
<1>1. pc \in [Threads -> Seq(Label)] /\ pc[t] = <<>> /\ pc' = [pc EXCEPT ![t] = <<to>>]
    BY DEF IInv, Control, Controlled, Enter, Running
<1>2. <<to>> # <<>> /\ Head(<<to>>) = to
    BY Single
<1>3. pc'[t] = <<to>> /\ \A u \in Threads \ {t} : pc'[u] = pc[u]
    BY <1>1
<1> QED BY <1>1, <1>2, <1>3 DEF Went, Lab, Top

\* A call.
LEMMA WentCall ==
    ASSUME IInv, NEW t \in Threads, NEW from, NEW to \in Label, NEW return \in Label,
           At(t, from), Call(t, to, return), \A u \in Threads \ {t} : loc'[u] = loc[u],
           \/ t = D /\ from \in DpcLabels /\ to \in DispatchFrame /\ return = "ReleaseReserved"
           \/ t \in RenderWorkers /\ from \in WorkerFrame /\ to \in CompleteLabels /\ return = "Finish"
           \/ t = V /\ from \in QuiesceLabels /\ to \in CompleteLabels /\ return = "QuiesceCheck"
    PROVE  Went(t, from, to)
<1>1. /\ Controlled(pc) /\ pc[t] # <<>> /\ Head(pc[t]) = from
      /\ pc' = [pc EXCEPT ![t] = <<to, return>> \o Tail(pc[t])]
    BY DEF IInv, Control, At, Call
<1>2. Move(pc, pc', t, from, to)
    BY <1>1, CallMoves
<1> QED BY <1>2 DEF Move, Went, Lab

\* The DPC dispatches and notifies on the way to the release.
LEMMA DispatcherReleases ==
    ASSUME IInv, EngineInv, NEW from \in DispatchFrame, At(D, from),
           \/ Return(D)
           \/ \E to \in DispatchFrame : Goto(D, to),
           loc'[D].Job = loc[D].Job, \A u \in Threads \ {D} : loc'[u] = loc[u]
    PROVE  DpcReleases'
<1>0. D \in Threads /\ from # "" /\ from \notin DpcLabels
    BY ThreadFacts, Labels, Disjoint DEF DispatchFrame
<1>1. Lab(D) = from /\ pc[D] # <<>> /\ pc \in [Threads -> Seq(Label)]
    BY DEF At, Lab, Top, IInv, Control, Controlled
<1>2. loc[D].Job # NoFence => Frame(pc[D], DispatchFrame, <<"ReleaseReserved">>)
    BY <1>0, <1>1 DEF EngineInv, DpcReleases, DpcLabels
<1>3. CASE Return(D)
  <2>1. pc'[D] = Tail(pc[D])
    BY <1>0, <1>1, <1>3 DEF Return
  <2>2. loc[D].Job # NoFence => Lab(D)' = "ReleaseReserved"
    BY <1>2, <2>1, Belows DEF Frame, Lab
  <2> QED BY <2>2 DEF DpcReleases
<1>4. ASSUME NEW to \in DispatchFrame, Goto(D, to) PROVE DpcReleases'
  <2>1. to \in Label /\ to # ""
    BY Labels DEF DispatchFrame
  <2>2. pc'[D] # <<>> /\ Head(pc'[D]) = to /\ Tail(pc'[D]) = Tail(pc[D])
    BY <1>0, <1>4, <2>1, WentGoto
  <2> QED BY <1>2, <2>2 DEF DpcReleases, Frame
<1> QED BY <1>3, <1>4

-----------------------------------------------------------------------------
(* What a step keeps of the queues.                                        *)

\* Fences do not wrap here: the later one is the larger.
LEMMA Later ==
    ASSUME NEW a \in 0 .. MaxFence, NEW b \in 0 .. MaxFence
    PROVE  Sched!FenceAfter(a, b) => a > b
    BY WindowAssumption, HalfRangeAssumption
       DEF Sched!FenceAfter, Sched!Distance, Sched!Modulus

\* Appending a larger element keeps a sequence increasing.
LEMMA IncreasingAppend ==
    ASSUME NEW seq \in Seq(1 .. MaxFence), NEW f \in 1 .. MaxFence, Increasing(seq),
           \A i \in 1 .. Len(seq) : seq[i] < f
    PROVE  /\ Increasing(Append(seq, f))
           /\ \A m \in Nat : (\A i \in 1 .. Len(seq) : seq[i] <= m) /\ f <= m =>
                \A i \in 1 .. Len(Append(seq, f)) : Append(seq, f)[i] <= m
           /\ Append(seq, f) # <<>>
           /\ Head(Append(seq, f)) = IF seq = <<>> THEN f ELSE Head(seq)
    BY WindowAssumption DEF Increasing

\* So does taking the head away.
LEMMA IncreasingTail ==
    ASSUME NEW seq \in Seq(1 .. MaxFence), seq # <<>>, Increasing(seq)
    PROVE  /\ Increasing(Tail(seq))
           /\ \A m \in Nat : (\A i \in 1 .. Len(seq) : seq[i] <= m) =>
                \A i \in 1 .. Len(Tail(seq)) : Tail(seq)[i] <= m
    BY WindowAssumption DEF Increasing

\* The empty queue is in order.
LEMMA NothingIncreases == Increasing(<<>>) /\ Len(<<>>) = 0
    BY DEF Increasing

\* Every call of the scheduler keeps its queue in order.
LEMMA FenceQueueKept ==
    ASSUME SchedTyped, SchedulerCall, FenceQueueInv
    PROVE  FenceQueueInv'
<1>0. /\ FenceQueue \in Seq(1 .. MaxFence) /\ MaxFence \in Nat \ {0}
      /\ LastSubmittedFence \in 0 .. MaxFence /\ LastSubmittedFence \in Nat
    BY WindowAssumption DEF SchedTyped
<1>e. Sched!HeadOrNone(<<>>) = 0
    BY DEF Sched!HeadOrNone, Sched!NoFence
<1>1. CASE UNCHANGED schedulerVars
    BY <1>1 DEF schedulerVars, FenceQueueInv
<1>2. ASSUME NEW fence \in 1 .. MaxFence, NEW paging \in BOOLEAN,
             Sched!QueueFence(fence, paging)
      PROVE  FenceQueueInv'
  <2>1. /\ LastSubmittedFence' = fence
        /\ FenceQueue' = Append(FenceQueue, fence)
        /\ QueuedFence' = IF FenceQueue = <<>> THEN fence ELSE QueuedFence
        /\ Owed' = Owed
        /\ PagingFences' \subseteq PagingFences \cup {fence}
        /\ Sched!FenceAfter(fence, LastSubmittedFence)
    BY <1>2 DEF Sched!QueueFence, Sched!SchedQueueFence, Sched!PushFence, Sched!MayQueueFence
  <2>2. fence > LastSubmittedFence
    BY <1>0, <2>1, Later
  <2>3. \A i \in 1 .. Len(FenceQueue) : FenceQueue[i] < fence
    BY <1>0, <2>2 DEF FenceQueueInv
  <2>4. /\ Increasing(FenceQueue')
        /\ \A i \in 1 .. Len(FenceQueue') : FenceQueue'[i] <= fence
        /\ FenceQueue' # <<>>
        /\ Head(FenceQueue') = IF FenceQueue = <<>> THEN fence ELSE Head(FenceQueue)
    BY <1>0, <2>1, <2>3, IncreasingAppend DEF FenceQueueInv
  <2>5. Owed' \cup PagingFences' \subseteq 0 .. fence
    BY <1>0, <2>1, <2>2 DEF FenceQueueInv
  <2> QED BY <2>1, <2>4, <2>5 DEF FenceQueueInv, Sched!HeadOrNone
<1>3. ASSUME NEW fence \in Owed, Sched!QueueResubmittedPagingFence(fence)
      PROVE  FenceQueueInv'
  <2>0. fence \in 1 .. MaxFence /\ fence <= LastSubmittedFence
    BY <1>0 DEF SchedTyped, FenceQueueInv
  <2>1. /\ LastSubmittedFence' = LastSubmittedFence
        /\ FenceQueue' = Append(FenceQueue, fence)
        /\ QueuedFence' = IF FenceQueue = <<>> THEN fence ELSE QueuedFence
        /\ Owed' \subseteq Owed
        /\ PagingFences' = PagingFences
        /\ FenceQueue # <<>> => Sched!FenceAfter(fence, FenceQueue[Len(FenceQueue)])
    BY <1>3 DEF Sched!QueueResubmittedPagingFence, Sched!SchedQueueResubmittedPagingFence,
                Sched!PushFence, Sched!MayQueueResubmittedPagingFence
  <2>2. FenceQueue # <<>> =>
          /\ Len(FenceQueue) \in 1 .. Len(FenceQueue)
          /\ FenceQueue[Len(FenceQueue)] \in 1 .. MaxFence
    BY <1>0
  <2>3. FenceQueue # <<>> => fence > FenceQueue[Len(FenceQueue)]
    BY <1>0, <2>0, <2>1, <2>2, Later
  <2>4. ASSUME NEW i \in 1 .. Len(FenceQueue) PROVE FenceQueue[i] < fence
    <3>1. FenceQueue # <<>> /\ FenceQueue[i] \in 1 .. MaxFence
      BY <1>0
    <3>2. CASE i = Len(FenceQueue)
      BY <2>3, <3>1, <3>2
    <3>3. CASE i # Len(FenceQueue)
      <4>1. i < Len(FenceQueue)
        BY <1>0, <3>3
      <4>2. FenceQueue[i] < FenceQueue[Len(FenceQueue)]
        BY <2>2, <3>1, <4>1 DEF FenceQueueInv, Increasing
      <4> QED BY <2>0, <2>2, <2>3, <3>1, <4>2
    <3> QED BY <3>2, <3>3
  <2>5. /\ Increasing(FenceQueue')
        /\ \A i \in 1 .. Len(FenceQueue') : FenceQueue'[i] <= LastSubmittedFence
        /\ FenceQueue' # <<>>
        /\ Head(FenceQueue') = IF FenceQueue = <<>> THEN fence ELSE Head(FenceQueue)
    BY <1>0, <2>0, <2>1, <2>4, IncreasingAppend DEF FenceQueueInv
  <2> QED BY <2>1, <2>5 DEF FenceQueueInv, Sched!HeadOrNone
<1>4. ASSUME NEW fence \in 0 .. MaxFence, Sched!ActivateFence(fence)
      PROVE  FenceQueueInv'
  <2>1. /\ LastSubmittedFence' = LastSubmittedFence
        /\ FenceQueue # <<>>
        /\ FenceQueue' = Tail(FenceQueue)
        /\ QueuedFence' = Sched!HeadOrNone(Tail(FenceQueue))
        /\ Owed' = Owed /\ PagingFences' = PagingFences
    BY <1>4 DEF Sched!ActivateFence, Sched!SchedActivateFence, Sched!MayActivateFence,
                Sched!vidschVars
  <2>2. /\ Increasing(FenceQueue')
        /\ \A i \in 1 .. Len(FenceQueue') : FenceQueue'[i] <= LastSubmittedFence
    BY <1>0, <2>1, IncreasingTail DEF FenceQueueInv
  <2> QED BY <2>1, <2>2 DEF FenceQueueInv
<1>5. ASSUME NEW fence \in 0 .. MaxFence, Sched!RecordCompletion(fence)
      PROVE  FenceQueueInv'
  <2>1. /\ LastSubmittedFence' = LastSubmittedFence
        /\ FenceQueue' = FenceQueue /\ QueuedFence' = QueuedFence
        /\ Owed' = Owed /\ PagingFences' = PagingFences \ {fence}
    BY <1>5 DEF Sched!RecordCompletion, Sched!SchedRecordCompletion
  <2> QED BY <2>1 DEF FenceQueueInv
<1>6. ASSUME NEW preemption \in PreemptionFences, Sched!BeginBoundaryPreemption(preemption)
      PROVE  FenceQueueInv'
  <2>1. /\ LastSubmittedFence' = LastSubmittedFence
        /\ FenceQueue' = <<>> /\ QueuedFence' = 0
        /\ Owed' = Owed \cup (Sched!Elements(FenceQueue) \cap PagingFences)
        /\ PagingFences' = Owed' \cup (PagingFences \cap {ActiveFence})
    BY <1>6 DEF Sched!BeginBoundaryPreemption, Sched!SchedBeginBoundaryPreemption,
                Sched!NoFence
  <2>2. Owed' \cup PagingFences' \subseteq 0 .. LastSubmittedFence
    BY <2>1 DEF FenceQueueInv
  <2> QED BY <1>e, <2>1, <2>2, NothingIncreases DEF FenceQueueInv
<1>7. CASE Sched!ClaimBoundaryPreemption
  <2>1. UNCHANGED <<LastSubmittedFence, FenceQueue, QueuedFence, Owed, PagingFences>>
    BY <1>7 DEF Sched!ClaimBoundaryPreemption, Sched!SchedClaimBoundaryPreemption,
                Sched!vidschVars
  <2> QED BY <2>1 DEF FenceQueueInv
<1>8. ASSUME NEW preemption \in PreemptionFences, Sched!CommitBoundaryPreemption(preemption)
      PROVE  FenceQueueInv'
  <2>1. UNCHANGED <<LastSubmittedFence, FenceQueue, QueuedFence, Owed, PagingFences>>
    BY <1>8 DEF Sched!CommitBoundaryPreemption, Sched!SchedCommitBoundaryPreemption,
                Sched!vidschVars
  <2> QED BY <2>1 DEF FenceQueueInv
<1>9. CASE Sched!ResetEngine
  <2>1. /\ LastSubmittedFence' = LastSubmittedFence
        /\ FenceQueue' = <<>> /\ QueuedFence' = 0
        /\ Owed' = Owed \cup (Sched!Elements(FenceQueue) \cap PagingFences)
        /\ PagingFences' = Owed'
    BY <1>9 DEF Sched!ResetEngine, Sched!SchedResetEngine, Sched!ResetQueues,
                Sched!Discard, Sched!NoFence
  <2>2. Owed' \cup PagingFences' \subseteq 0 .. LastSubmittedFence
    BY <2>1 DEF FenceQueueInv
  <2> QED BY <1>e, <2>1, <2>2, NothingIncreases DEF FenceQueueInv
<1> QED BY <1>1, <1>2, <1>3, <1>4, <1>5, <1>6, <1>7, <1>8, <1>9 DEF SchedulerCall

\* A thread that does not bind keeps BindInv.
LEMMA BindKept ==
    ASSUME BindInv, NEW t \in Threads, NEW from, NEW to, Went(t, from, to),
           from \notin {"BindQueue", "QueuePacket"}, to # "QueuePacket",
           G4Pending' = G4Pending, RenderPacket' = RenderPacket
    PROVE  BindInv'
<1>1. BindingNow => BindingNow'
    BY OthersStay, ThreadFacts DEF BindingNow, Went
<1>2. /\ Lab(V)' = "QueuePacket" => Lab(V) = "QueuePacket" /\ loc'[V] = loc[V]
      /\ Lab(V) = "QueuePacket" => Lab(V)' = "QueuePacket"
    BY OthersStay, ThreadFacts DEF Went
<1>3. Bound' = Bound
    BY DEF Bound
<1> QED BY <1>1, <1>2, <1>3 DEF BindInv

\* The queues agree as long as nobody touches them.
LEMMA AgreeKept ==
    ASSUME QueuesAgree, FenceQueue' = FenceQueue, CpuQueue' = CpuQueue,
           G4Pending' = G4Pending, RenderPacket'.State = "Queued" <=> RenderPacket.State = "Queued",
           RenderPacket.State = "Queued" => RenderPacket'.Fence = RenderPacket.Fence
    PROVE  QueuesAgree'
<1>1. \A f : /\ InQueue(f)' <=> InQueue(f)
             /\ InCpu(f)' <=> InCpu(f)
             /\ InPending(f)' <=> InPending(f)
             /\ InSlot(f)' <=> InSlot(f)
    BY DEF InQueue, InCpu, InPending, InSlot, Live
<1> QED BY <1>1 DEF QueuesAgree, Live

\* The condition under which they agree.
Agreeing == ~SchedulerFaulted \/ Lab(V) \in ClearingLabels
\* Only the reset arrives where the queues have to agree anew.
LEMMA AgreeingBefore ==
    ASSUME NEW t \in Threads, NEW from, NEW to, Went(t, from, to), FaultStays,
           t = V => to \notin ClearingLabels
    PROVE  Agreeing' => Agreeing
<1>1. Lab(V)' \in ClearingLabels => Lab(V) \in ClearingLabels
    BY OthersStay, ThreadFacts DEF Went
<1> QED BY <1>1 DEF Agreeing, FaultStays

\* A step that leaves the queues and the render slot alone keeps QueueInv.
LEMMA QueueStays ==
    ASSUME SchedTyped, SchedulerCall, QueueInv,
           NEW t \in Threads, NEW from, NEW to, Went(t, from, to), FaultStays,
           from \notin {"BindQueue", "QueuePacket"}, to # "QueuePacket", to \notin ClearingLabels,
           UNCHANGED <<FenceQueue, CpuQueue, G4Pending, RenderPacket>>
    PROVE  QueueInv'
<1>1. FenceQueueInv'
    BY FenceQueueKept DEF QueueInv
<1>2. BindInv'
    BY BindKept DEF QueueInv
<1>3. Agreeing' => QueuesAgree'
    BY AgreeingBefore, AgreeKept DEF QueueInv, Agreeing
<1> QED BY <1>1, <1>2, <1>3 DEF QueueInv, Agreeing

-----------------------------------------------------------------------------
(* What a step keeps of the wakeups.                                       *)

\* A thread outside the CPU executor leaves its packet where it is.
TokenLabels == {"PagingRun", "PagingNotify", "PagingDpc", "PagingDpcEnter", "PagingDpcRetire"}
\* The places where it is moved.
LEMMA TokenKept ==
    ASSUME TokenInv, NEW t \in Threads, NEW from, NEW to, Went(t, from, to),
           from \notin TokenLabels,
           Paging'.Pending = Paging.Pending, Paging'.DpcPending = Paging.DpcPending,
           Paging'.WorkQueued = Paging.WorkQueued, DpcQueued => DpcQueued'
    PROVE  TokenInv'
<1>1. \A u \in Threads : Lab(u) \in TokenLabels => Lab(u)' = Lab(u)
    BY OthersStay DEF Went
<1>2. DpcTook => DpcTook'
    BY <1>1, ThreadFacts DEF DpcTook, TokenLabels
<1>3. Lab(D) = "PagingDpc" => Lab(D)' = "PagingDpc"
    BY <1>1, ThreadFacts DEF TokenLabels
<1>4. \A p \in PagingWorkers : Executing(p) => Executing(p)'
    BY <1>1, ThreadFacts DEF Executing, TokenLabels
<1> QED BY <1>2, <1>3, <1>4 DEF TokenInv

\* Who is going to dispatch stays so.
LEMMA AwakeKept ==
    ASSUME Awake, NEW t \in Threads, NEW from, NEW to, Went(t, from, to),
           from \in WakeLabels => to \in WakeLabels,
           t = D => (DpcAwake => DpcAwake'),
           DpcQueued => DpcQueued'
    PROVE  Awake'
<1>1. CASE DpcQueued
    BY <1>1 DEF Awake
<1>2. CASE DpcAwake
  <2>1. DpcAwake'
    BY <1>2, OthersStay, ThreadFacts DEF DpcAwake
  <2> QED BY <2>1 DEF Awake
<1>3. ASSUME NEW u \in Threads, Lab(u) \in WakeLabels PROVE Awake'
  <2>1. Lab(u)' \in WakeLabels
    BY <1>3, OthersStay DEF Went
  <2> QED BY <2>1 DEF Awake
<1> QED BY <1>1, <1>2, <1>3 DEF Awake

\* The engine could run the CPU queue's head.
CpuReady == ~SchedulerFaulted /\ Dispatchable /\ CpuHead

\* A step that leaves the engine and the CPU queue alone does not make it ready.
CpuUntouched ==
    /\ DispatchedFence' = DispatchedFence /\ ActiveFence' = ActiveFence
    /\ QueuedFence' = QueuedFence /\ CpuQueue' = CpuQueue
    /\ Paging'.Pending = Paging.Pending
    /\ Preemption'.Phase = Sched!Idle => Preemption.Phase = Sched!Idle
\* So a CPU packet ready after it was ready before.
LEMMA ReadyBefore ==
    ASSUME CpuUntouched, FaultStays
    PROVE  CpuReady' => CpuReady
    BY DEF CpuUntouched, FaultStays, CpuReady, Dispatchable, CpuHead, Sched!DispatchBlocked

\* The DPC dispatches and notifies on the way to the release.
LEMMA DispatcherAwake ==
    ASSUME IInv, NEW from \in DispatchFrame, At(D, from),
           \/ Return(D)
           \/ \E to \in DispatchFrame : Goto(D, to),
           \A u \in Threads \ {D} : loc'[u] = loc[u]
    PROVE  DpcAwake => DpcAwake'
<1>0. D \in Threads /\ from # "" /\ from \notin DpcLabels
    BY ThreadFacts, Labels, Disjoint DEF DispatchFrame
<1>1. Lab(D) = from /\ pc[D] # <<>> /\ pc \in [Threads -> Seq(Label)]
    BY DEF At, Lab, Top, IInv, Control, Controlled
<1>2. DpcAwake => Frame(pc[D], DispatchFrame, <<"ReleaseReserved">>)
    BY <1>0, <1>1 DEF DpcAwake
<1>3. CASE Return(D)
  <2>1. pc'[D] = Tail(pc[D])
    BY <1>0, <1>1, <1>3 DEF Return
  <2>2. DpcAwake => Lab(D)' = "ReleaseReserved"
    BY <1>2, <2>1, Belows DEF Frame, Lab
  <2> QED BY <2>2 DEF DpcAwake, DpcLabels
<1>4. ASSUME NEW to \in DispatchFrame, Goto(D, to) PROVE DpcAwake => DpcAwake'
  <2>1. to \in Label /\ to # ""
    BY Labels DEF DispatchFrame
  <2>2. pc'[D] # <<>> /\ Head(pc'[D]) = to /\ Tail(pc'[D]) = Tail(pc[D])
    BY <1>0, <1>4, <2>1, WentGoto
  <2> QED BY <1>2, <2>2 DEF DpcAwake, Frame
<1> QED BY <1>3, <1>4

-----------------------------------------------------------------------------
(* The invariant of this module, and the steps that do not touch it.       *)

EInv == EngineInv /\ QueueInv /\ WakeInv

\* What is known of a step: the first invariant holds before and after it.
Known == IInv /\ IInv' /\ SchedulerCall /\ EInv

QuietMarks == EngineMarks \cup TokenLabels \cup {"QueuePacket"}
Untouched(t) ==
    /\ EngineUntouched(t) /\ CpuUntouched
    /\ FenceQueue' = FenceQueue /\ G4Pending' = G4Pending
    /\ Paging'.DpcPending = Paging.DpcPending

\* What a step of the DPC has to show besides.
DpcStays == loc'[D].Job = loc[D].Job /\ DpcReleases' /\ (DpcAwake => DpcAwake')

\* A step that touches none of it keeps the whole invariant, provided that a
\* thread which gives up dispatching found nothing to dispatch.
LEMMA Stays ==
    ASSUME Known, NEW t \in Threads, NEW from, NEW to, Went(t, from, to), FaultStays,
           from \notin QuietMarks, to \notin QuietMarks, Untouched(t),
           t = D => DpcStays,
           from \in WakeLabels => to \in WakeLabels \/ ~CpuReady
    PROVE  EInv'
<1>1. EngineInv'
    BY EngineStays DEF Known, EInv, Untouched, QuietMarks, DpcStays
<1>2. QueueInv'
  <2>1. from \notin {"BindQueue", "QueuePacket"} /\ to # "QueuePacket" /\ to \notin ClearingLabels
    BY DEF QuietMarks, EngineMarks, ExecutorLabels
  <2> QED BY <2>1, QueueStays DEF Known, EInv, IInv, Untouched, CpuUntouched, EngineUntouched
<1>3. TokenInv'
    BY TokenKept DEF Known, EInv, WakeInv, Untouched, CpuUntouched, EngineUntouched, QuietMarks
<1>4. CpuReady' => CpuReady
    BY ReadyBefore DEF Untouched
<1>5. CpuReady => Awake
    BY DEF Known, EInv, WakeInv, CpuReady
<1>6. CpuReady' => Awake'
    BY <1>4, <1>5, AwakeKept DEF DpcStays, Untouched, EngineUntouched
<1> QED BY <1>1, <1>2, <1>3, <1>6 DEF EInv, WakeInv, CpuReady

\* Labels that are in nobody's way.
QuietLabels == {"Leave", "Dispatch", "Reserve", "Retry", "ReleaseReserved",
                "TryNotify", "NotifyPreemption", "Commit", "PagingLeave", "Finish",
                "FinishReset", "FinishRetry", "Admissible", "PendingReserve",
                "PendingPublish", "AwaitReady", "AwaitSlot", "Prepare", "ResetEngine"}
\* They are labels, and none of them marks a place the invariant speaks of.
LEMMA Quiet ==
    /\ "" \notin QuietMarks
    /\ \A label \in QuietLabels : label \in Label /\ label # "" /\ label \notin QuietMarks
<1>1. \A label \in QuietLabels : label \in Label /\ label # ""
    BY DEF QuietLabels, Label, PagingLabels, WorkerFrame, WorkLabels, LeaveLabels, DispatchLabels,
           NotifyLabels, DpcLabels, HostLabels, SubmitLabels, ResetLabels
<1>2. \A label \in QuietLabels : label \notin QuiescingLabels \cup ClearingLabels \cup RunLabels
    BY DEF QuietLabels, QuiescingLabels, QuiesceLabels, CompleteLabels, ClearingLabels, RunLabels
<1>3. \A label \in QuietLabels :
        label \notin ExecutorLabels \cup BeforeTake \cup TokenLabels
                       \cup {"PagingRun", "Report", "QueuePacket"}
    BY DEF QuietLabels, ExecutorLabels, BeforeTake, TokenLabels
<1>4. "" \notin QuietMarks
    BY DEF QuietMarks, EngineMarks, QuiescingLabels, QuiesceLabels, CompleteLabels,
           ClearingLabels, RunLabels, ExecutorLabels, BeforeTake, TokenLabels
<1> QED BY <1>1, <1>2, <1>3, <1>4 DEF QuietMarks, EngineMarks

\* Assignments to a thread's locals that leave its job alone.
KeepsJob(m, t) == m[t].Job = loc[t].Job /\ \A u \in Threads \ {t} : m[u] = loc[u]
\* The assignments to a thread's locals in the actions keep its job and the
\* locals of the others.
LEMMA Locals ==
    ASSUME IInv, NEW t \in Threads
    PROVE  /\ KeepsJob(loc, t)
           /\ \A a, b : /\ KeepsJob([loc EXCEPT ![t].Fence = a, ![t].Attempt = b], t)
                       /\ KeepsJob([loc EXCEPT ![t].Preemption = a, ![t].LastCompleted = b], t)
                       /\ KeepsJob([loc EXCEPT ![t].Flag = a, ![t].Reserved = b], t)
           /\ \A a : /\ KeepsJob([loc EXCEPT ![t].Fence = a], t)
                    /\ KeepsJob([loc EXCEPT ![t].Attempt = a], t)
                    /\ KeepsJob([loc EXCEPT ![t].Context = a], t)
                    /\ KeepsJob([loc EXCEPT ![t].Flag = a], t)
           /\ \A u \in Threads \ {t} : [loc EXCEPT ![t] = NoLocals][u] = loc[u]
<1>1. /\ DOMAIN loc = Threads /\ DOMAIN loc[t] = LocalFields
    BY DEF IInv, Records
<1>2. KeepsJob(loc, t)
    BY DEF KeepsJob
<1>3. ASSUME NEW a, NEW b
      PROVE  /\ KeepsJob([loc EXCEPT ![t].Fence = a, ![t].Attempt = b], t)
             /\ KeepsJob([loc EXCEPT ![t].Preemption = a, ![t].LastCompleted = b], t)
             /\ KeepsJob([loc EXCEPT ![t].Flag = a, ![t].Reserved = b], t)
    BY <1>1 DEF KeepsJob, LocalFields
<1>4. ASSUME NEW a
      PROVE  /\ KeepsJob([loc EXCEPT ![t].Fence = a], t)
             /\ KeepsJob([loc EXCEPT ![t].Attempt = a], t)
             /\ KeepsJob([loc EXCEPT ![t].Context = a], t)
             /\ KeepsJob([loc EXCEPT ![t].Flag = a], t)
    BY <1>1 DEF KeepsJob, LocalFields
<1>5. \A u \in Threads \ {t} : [loc EXCEPT ![t] = NoLocals][u] = loc[u]
    BY <1>1
<1> QED BY <1>2, <1>3, <1>4, <1>5

\* A thread that dispatches or notifies: its jumps and returns.
LEMMA DispatcherMoves ==
    ASSUME Known, NEW t \in Threads, NEW from \in DispatchFrame, At(t, from),
           KeepsJob(loc', t)
    PROVE  /\ \A to \in DispatchFrame : Goto(t, to) =>
                Went(t, from, to) /\ (t = D => DpcStays)
           /\ Return(t) => /\ Went(t, from, Lab(t)') /\ (t = D => DpcStays)
                           /\ Lab(t)' \notin QuietMarks
                           /\ Popped(t, from, Lab(t)')
<1>0. IInv /\ EngineInv /\ from # "" /\ \A u \in Threads \ {t} : loc'[u] = loc[u]
    BY Labels DEF Known, EInv, DispatchFrame, KeepsJob
<1>1. ASSUME NEW to \in DispatchFrame, Goto(t, to)
      PROVE  Went(t, from, to) /\ (t = D => DpcStays)
  <2>1. to \in Label /\ to # ""
    BY Labels DEF DispatchFrame
  <2>2. Went(t, from, to)
    BY <1>0, <1>1, <2>1, WentGoto
  <2>3. t = D => DpcReleases' /\ (DpcAwake => DpcAwake')
    BY <1>0, <1>1, DispatcherReleases, DispatcherAwake DEF KeepsJob
  <2> QED BY <2>2, <2>3 DEF DpcStays, KeepsJob
<1>2. ASSUME Return(t)
      PROVE  /\ Went(t, from, Lab(t)') /\ (t = D => DpcStays)
             /\ Lab(t)' \notin QuietMarks /\ Popped(t, from, Lab(t)')
  <2>1. Went(t, from, Lab(t)') /\ Popped(t, from, Lab(t)')
    BY <1>0, <1>2, WentReturn
  <2>2. Lab(t)' \in {"", "Leave", "Dispatch", "ReleaseReserved"}
    BY <2>1 DEF Popped
  <2>3. Lab(t)' \notin QuietMarks
    BY <2>2, Quiet DEF QuietLabels
  <2>4. t = D => DpcReleases' /\ (DpcAwake => DpcAwake')
    BY <1>0, <1>2, DispatcherReleases, DispatcherAwake DEF KeepsJob
  <2> QED BY <2>1, <2>3, <2>4 DEF DpcStays, KeepsJob
<1> QED BY <1>1, <1>2

\* The labels of a dispatch and of a notification.
LEMMA DispatchSteps ==
    {"Dispatch", "Reserve", "RuntimeSubmit", "Release", "Retry",
     "TryNotify", "NotifyPreemption", "Commit"} = DispatchFrame
    BY DEF DispatchFrame, DispatchLabels, NotifyLabels

\* Nothing changes but locals.
LEMMA NothingTouched ==
    ASSUME UNCHANGED <<schedulerVars, cpuVars, DispatchedFence, renderVars>>, DpcQueued => DpcQueued',
           NEW t
    PROVE  Untouched(t)
<1>1. UNCHANGED <<FenceQueue, QueuedFence, ActiveFence, Preemption>>
    BY DEF schedulerVars
<1>2. UNCHANGED <<CpuQueue, Paging, RenderPacket, G4Pending, Platform, RenderDpcFence,
                  DispatchedFence>>
    BY DEF cpuVars, renderVars
<1>3. EngineUntouched(t)
    BY <1>1, <1>2 DEF EngineUntouched
<1>4. CpuUntouched
    BY <1>1, <1>2 DEF CpuUntouched
<1> QED BY <1>1, <1>2, <1>3, <1>4 DEF Untouched

\* A dispatcher that touches nothing.
LEMMA DispatcherStays ==
    ASSUME Known, NEW t \in Threads, NEW from \in DispatchFrame, from \notin ExecutorLabels,
           At(t, from), KeepsJob(loc', t), FaultStays, Untouched(t),
           \/ Return(t) /\ (from \in WakeLabels => ~CpuReady)
           \/ \E to \in DispatchFrame :
                /\ Goto(t, to) /\ to \notin ExecutorLabels
                /\ from \in WakeLabels => to \in WakeLabels
    PROVE  EInv'
<1>1. \A label \in DispatchFrame : label \notin ExecutorLabels => label \notin QuietMarks
    BY DispatchSteps, Quiet DEF QuietLabels, ExecutorLabels
<1>2. CASE Return(t) /\ (from \in WakeLabels => ~CpuReady)
  <2>1. Went(t, from, Lab(t)') /\ (t = D => DpcStays) /\ Lab(t)' \notin QuietMarks
    BY <1>2, DispatcherMoves
  <2> QED BY <1>1, <1>2, <2>1, Stays
<1>3. ASSUME NEW to \in DispatchFrame, Goto(t, to), to \notin ExecutorLabels,
             from \in WakeLabels => to \in WakeLabels
      PROVE  EInv'
  <2>1. Went(t, from, to) /\ (t = D => DpcStays)
    BY <1>3, DispatcherMoves
  <2> QED BY <1>1, <1>3, <2>1, Stays
<1> QED BY <1>2, <1>3

-----------------------------------------------------------------------------
(* Dispatch and notification.                                              *)

\* AdmissionDispatchQueuedWork tests the fault before it takes the lock.
LEMMA DispatchCheckKeeps ==
    ASSUME Known, NEW t \in Threads, DispatchCheck(t)
    PROVE  EInv'
<1>1. KeepsJob(loc', t) /\ At(t, "Dispatch") /\ FaultStays
    BY Locals DEF Known, DispatchCheck, FaultStays
<1>2. Untouched(t)
    BY NothingTouched DEF DispatchCheck, osVars
<1>3. CASE SchedulerFaulted
  <2>1. Return(t) /\ ~CpuReady
    BY <1>3 DEF DispatchCheck, CpuReady
  <2> QED BY <1>1, <1>2, <2>1, DispatchSteps, DispatcherStays DEF ExecutorLabels, WakeLabels
<1>4. CASE ~SchedulerFaulted
  <2>1. Goto(t, "Reserve")
    BY <1>4 DEF DispatchCheck
  <2> QED BY <1>1, <1>2, <2>1, DispatchSteps, DispatcherStays DEF ExecutorLabels, WakeLabels
<1> QED BY <1>3, <1>4

\* It finds nothing to reserve: no CPU packet was ready.
LEMMA DispatchNothingKeeps ==
    ASSUME Known, NEW t \in Threads, DispatchNothing(t)
    PROVE  EInv'
<1>1. KeepsJob(loc', t) /\ At(t, "Reserve") /\ FaultStays /\ Return(t) /\ ~CpuReady
    BY Locals DEF Known, DispatchNothing, FaultStays, CpuReady
<1>2. Untouched(t)
    BY NothingTouched DEF DispatchNothing, osVars
<1> QED BY <1>1, <1>2, DispatchSteps, DispatcherStays DEF ExecutorLabels, WakeLabels

\* The reserved fence could not be started: try once more or give up.
LEMMA DispatchRetryKeeps ==
    ASSUME Known, NEW t \in Threads, DispatchRetry(t)
    PROVE  EInv'
<1>0. \/ loc' = [loc EXCEPT ![t].Attempt = 1]
      \/ loc' = [loc EXCEPT ![t].Fence = NoFence, ![t].Attempt = 0]
    BY DEF DispatchRetry
<1>1. KeepsJob(loc', t) /\ At(t, "Retry") /\ FaultStays
  <2>1. CASE loc' = [loc EXCEPT ![t].Attempt = 1]
    BY <2>1, Locals DEF Known, DispatchRetry, FaultStays
  <2>2. CASE loc' = [loc EXCEPT ![t].Fence = NoFence, ![t].Attempt = 0]
    BY <2>2, Locals DEF Known, DispatchRetry, FaultStays
  <2> QED BY <1>0, <2>1, <2>2
<1>2. Untouched(t)
    BY NothingTouched DEF DispatchRetry, osVars
<1>3. CASE Return(t)
    BY <1>1, <1>2, <1>3, DispatchSteps, DispatcherStays DEF ExecutorLabels, WakeLabels
<1>4. CASE Goto(t, "Reserve")
    BY <1>1, <1>2, <1>4, DispatchSteps, DispatcherStays DEF ExecutorLabels, WakeLabels
<1> QED BY <1>3, <1>4 DEF DispatchRetry

\* A preemption that is not ready is left for later.
LEMMA TryNotifyDeferKeeps ==
    ASSUME Known, NEW t \in Threads, TryNotifyDefer(t)
    PROVE  EInv'
<1>1. KeepsJob(loc', t) /\ At(t, "TryNotify") /\ FaultStays /\ Return(t)
    BY Locals DEF Known, TryNotifyDefer, FaultStays
<1>2. Untouched(t)
    BY NothingTouched DEF TryNotifyDefer, osVars
<1> QED BY <1>1, <1>2, DispatchSteps, DispatcherStays DEF ExecutorLabels, WakeLabels

\* The claim of a notification opens no dispatch.
LEMMA TryNotifyClaimKeeps ==
    ASSUME Known, NEW t \in Threads, TryNotifyClaim(t)
    PROVE  EInv'
<1>1. KeepsJob(loc', t) /\ At(t, "TryNotify") /\ FaultStays /\ Goto(t, "NotifyPreemption")
    BY Locals DEF Known, TryNotifyClaim, FaultStays
<1>2. /\ UNCHANGED <<FenceQueue, QueuedFence, ActiveFence>>
      /\ Preemption' = [Preemption EXCEPT !.Phase = Sched!NotificationClaimed]
    BY DEF TryNotifyClaim, Sched!ClaimBoundaryPreemption, Sched!SchedClaimBoundaryPreemption
<1>3. Preemption'.Phase # Sched!Idle
    BY <1>2 DEF Known, IInv, SchedTyped, Sched!NotificationClaimed, Sched!Idle
<1>4. UNCHANGED <<CpuQueue, Paging, DispatchedFence, RenderPacket, G4Pending, Platform,
                  RenderDpcFence, DpcQueued>>
    BY DEF TryNotifyClaim, cpuVars, renderVars, osVars
<1>5. EngineUntouched(t)
    BY <1>2, <1>4 DEF EngineUntouched
<1>6. Untouched(t)
    BY <1>2, <1>3, <1>4, <1>5 DEF Untouched, CpuUntouched
<1> QED BY <1>1, <1>6, DispatchSteps, DispatcherStays DEF ExecutorLabels, WakeLabels

\* The notification itself changes no queue.
LEMMA NotifyPreemptionKeeps ==
    ASSUME Known, NEW t \in Threads, NotifyPreemption(t)
    PROVE  EInv'
<1>1. KeepsJob(loc', t) /\ At(t, "NotifyPreemption") /\ FaultStays /\ Goto(t, "Commit")
    BY Locals DEF Known, NotifyPreemption, FaultStays
<1>2. Untouched(t)
    BY NothingTouched DEF NotifyPreemption
<1> QED BY <1>1, <1>2, DispatchSteps, DispatcherStays DEF ExecutorLabels, WakeLabels

-----------------------------------------------------------------------------
(* Steps of the workers and of VidSch that are in nobody's way.            *)

\* A jump between such labels, a return from one, and a start at one.
LEMMA QuietGoto ==
    ASSUME Known, NEW t \in Threads, t # D, NEW from \in QuietLabels, NEW to \in QuietLabels,
           from \notin WakeLabels, At(t, from), Goto(t, to),
           \A u \in Threads \ {t} : loc'[u] = loc[u], FaultStays, Untouched(t)
    PROVE  EInv'
<1>1. Went(t, from, to)
    BY Quiet, WentGoto DEF Known
<1> QED BY <1>1, Quiet, Stays

\* A worker or VidSch returns from a routine nobody relies on.
LEMMA QuietReturn ==
    ASSUME Known, NEW t \in {V} \cup PagingWorkers \cup RenderWorkers, NEW from \in QuietLabels,
           from \notin DispatchFrame, At(t, from), Return(t),
           \A u \in Threads \ {t} : loc'[u] = loc[u], FaultStays, Untouched(t)
    PROVE  EInv'
<1>1. t \in Threads /\ t # D /\ from \notin WakeLabels
    BY ThreadFacts, DispatchSteps DEF WakeLabels, QuietLabels
<1>2. Went(t, from, Lab(t)') /\ Popped(t, from, Lab(t)')
    BY <1>1, Quiet, WentReturn DEF Known
<1>3. from \in PagingLabels \cup WorkerFrame \cup HostLabels \cup {"ReleaseReserved"}
    BY DispatchSteps DEF QuietLabels, PagingLabels, WorkerFrame, WorkLabels, LeaveLabels, HostLabels,
           SubmitLabels, ResetLabels
<1>4. from # "ReleaseReserved"
  <2>1. Lab(t) = from
    BY <1>2 DEF Went
  <2>2. StackOK(t, pc[t]) /\ pc[t] # <<>> /\ Head(pc[t]) = from
    BY <1>1 DEF Known, IInv, Control, Controlled, At
  <2>3. "ReleaseReserved" \in DpcLabels
    BY DEF DpcLabels
  <2>4. t \notin PagingWorkers \/ (t \notin RenderWorkers /\ t # V)
    BY ThreadFacts
  <2> QED BY <2>2, <2>3, Disjoint DEF StackOK, Frame, DispatchFrame, VidSchFrame
<1>5. Lab(t)' = ""
    BY <1>2, <1>3, <1>4 DEF Popped
<1> QED BY <1>1, <1>2, <1>5, Quiet, Stays

\* A thread enters a routine nobody relies on.
LEMMA QuietEnter ==
    ASSUME Known, NEW t \in Threads, t # D, NEW to \in QuietLabels, Enter(t, to),
           \A u \in Threads \ {t} : loc'[u] = loc[u], FaultStays, Untouched(t)
    PROVE  EInv'
<1>1. Went(t, "", to)
    BY Quiet, WentEnter DEF Known
<1> QED BY <1>1, Quiet, Stays DEF WakeLabels

\* The CPU worker leaves (PagingIdle).
LEMMA PagingWorkerLeaveKeeps ==
    ASSUME Known, NEW p \in PagingWorkers, PagingWorkerLeave(p)
    PROVE  EInv'
<1>1. At(p, "PagingLeave") /\ Return(p) /\ FaultStays /\ loc' = loc
    BY DEF PagingWorkerLeave, FaultStays
<1>2. UNCHANGED <<FenceQueue, QueuedFence, ActiveFence, Preemption, CpuQueue, Paging, RenderPacket,
                  G4Pending, Platform, RenderDpcFence, DispatchedFence, DpcQueued>>
    BY DEF PagingWorkerLeave, schedulerVars, renderVars, osVars
<1>3. Untouched(p)
    BY <1>2 DEF Untouched, EngineUntouched, CpuUntouched
<1>4. "PagingLeave" \in QuietLabels /\ "PagingLeave" \notin DispatchFrame
    BY DispatchSteps DEF QuietLabels
<1> QED BY <1>1, <1>3, <1>4, QuietReturn

\* The platform's bookkeeping does not concern the reservation.
LEMMA PlatformTouched ==
    ASSUME UNCHANGED <<schedulerVars, cpuVars, DispatchedFence, RenderPacket, G4Pending,
                       RenderDpcFence, osVars>>,
           Platform'.WorkQueued = Platform.WorkQueued, Platform'.Resetting = Platform.Resetting,
           NEW t
    PROVE  Untouched(t)
<1>1. UNCHANGED <<FenceQueue, QueuedFence, ActiveFence, Preemption>>
    BY DEF schedulerVars
<1>2. UNCHANGED <<CpuQueue, Paging, RenderPacket, G4Pending, RenderDpcFence, DispatchedFence,
                  DpcQueued>>
    BY DEF cpuVars, osVars
<1> QED BY <1>1, <1>2 DEF Untouched, EngineUntouched, CpuUntouched

\* The render worker clears WorkScheduled and its locals.
LEMMA WorkerFinishedKeeps ==
    ASSUME Known, NEW r \in RenderWorkers, WorkerFinished(r)
    PROVE  EInv'
<1>1. /\ At(r, "Finish") /\ Goto(r, "FinishReset") /\ FaultStays
      /\ loc' = [loc EXCEPT ![r] = NoLocals]
      /\ Platform' = [Platform EXCEPT !.WorkScheduled = FALSE]
    BY DEF WorkerFinished, FaultStays
<1>2. r \in Threads /\ r # D
    BY ThreadFacts
<1>3. Platform'.WorkQueued = Platform.WorkQueued /\ Platform'.Resetting = Platform.Resetting
    BY <1>1 DEF Known, IInv, Records, PlatformFields
<1>4. Untouched(r)
    BY <1>3, PlatformTouched DEF WorkerFinished
<1>5. \A u \in Threads \ {r} : loc'[u] = loc[u]
    BY <1>1, <1>2, Locals DEF Known
<1> QED BY <1>1, <1>2, <1>4, <1>5, QuietGoto DEF QuietLabels, WakeLabels

\* The render worker reads Resetting.
LEMMA WorkerTestResetKeeps ==
    ASSUME Known, NEW r \in RenderWorkers, WorkerTestReset(r)
    PROVE  EInv'
<1>1. /\ At(r, "FinishReset") /\ FaultStays /\ loc' = loc
      /\ Goto(r, "Leave") \/ Goto(r, "FinishRetry")
    BY DEF WorkerTestReset, FaultStays
<1>2. r \in Threads /\ r # D
    BY ThreadFacts
<1>3. Untouched(r)
    BY NothingTouched DEF WorkerTestReset, osVars
<1> QED BY <1>1, <1>2, <1>3, QuietGoto DEF QuietLabels, WakeLabels

\* The render worker goes on to notify a preemption and to dispatch.
LEMMA WorkerRetryNotifyKeeps ==
    ASSUME Known, NEW r \in RenderWorkers, WorkerRetryNotify(r)
    PROVE  EInv'
<1>1. /\ At(r, "FinishRetry") /\ FaultStays /\ loc' = loc
      /\ \/ pc' = [pc EXCEPT ![r] = <<"TryNotify", "Dispatch", "Leave">>]
         \/ pc' = [pc EXCEPT ![r] = <<"Dispatch", "Leave">>]
    BY DEF WorkerRetryNotify, FaultStays
<1>2. r \in Threads /\ r # D /\ pc \in [Threads -> Seq(Label)]
    BY ThreadFacts DEF Known, IInv, Control, Controlled
<1>3. Untouched(r)
    BY NothingTouched DEF WorkerRetryNotify, osVars
<1>4. \A u \in Threads \ {r} : pc'[u] = pc[u]
    BY <1>1, <1>2
<1>5. Lab(r) = "FinishRetry"
    BY <1>1 DEF At, Lab, Top
<1>6. Lab(r)' \in {"TryNotify", "Dispatch"}
  <2>1. /\ Top(<<"TryNotify", "Dispatch", "Leave">>) = "TryNotify"
        /\ Top(<<"Dispatch", "Leave">>) = "Dispatch"
    BY DEF Top
  <2> QED BY <1>1, <1>2, <2>1 DEF Lab
<1>7. Went(r, "FinishRetry", Lab(r)')
    BY <1>1, <1>4, <1>5 DEF Went
<1> QED BY <1>1, <1>2, <1>3, <1>6, <1>7, Quiet, Stays DEF QuietLabels, WakeLabels

\* The render worker leaves (WorkIdle).
LEMMA WorkerLeaveKeeps ==
    ASSUME Known, NEW r \in RenderWorkers, WorkerLeave(r)
    PROVE  EInv'
<1>1. At(r, "Leave") /\ Return(r) /\ FaultStays /\ loc' = loc
    BY DEF WorkerLeave, FaultStays
<1>2. PICK b : Platform' = [Platform EXCEPT !.WorkIdle = b]
    BY DEF WorkerLeave
<1>3. Platform'.WorkQueued = Platform.WorkQueued /\ Platform'.Resetting = Platform.Resetting
    BY <1>2 DEF Known, IInv, Records, PlatformFields
<1>4. Untouched(r)
    BY <1>3, PlatformTouched DEF WorkerLeave
<1>5. "Leave" \in QuietLabels /\ "Leave" \notin DispatchFrame
    BY DispatchSteps DEF QuietLabels
<1> QED BY <1>1, <1>4, <1>5, QuietReturn

\* A render is submitted: nothing is queued yet.
LEMMA SubmitRenderKeeps ==
    ASSUME Known, NEW c \in Contexts, SubmitRender(c)
    PROVE  EInv'
<1>1. /\ Enter(V, "Admissible") \/ Enter(V, "AwaitReady")
      /\ FaultStays /\ V \in Threads /\ V # D
    BY ThreadFacts DEF SubmitRender, FaultStays
<1>2. \A u \in Threads \ {V} : loc'[u] = loc[u]
  <2>1. DOMAIN loc = Threads
    BY DEF Known, IInv, Records
  <2> QED BY <2>1 DEF SubmitRender
<1>3. Untouched(V)
    BY NothingTouched DEF SubmitRender, osVars
<1> QED BY <1>1, <1>2, <1>3, QuietEnter DEF QuietLabels

\* The test for the pending path.
LEMMA SubmitAdmissibleKeeps ==
    ASSUME Known, SubmitAdmissible
    PROVE  EInv'
<1>1. /\ At(V, "Admissible") /\ (Goto(V, "PendingReserve") \/ Goto(V, "AwaitReady"))
      /\ FaultStays /\ V \in Threads /\ V # D
    BY ThreadFacts DEF SubmitAdmissible, FaultStays
<1>2. \A u \in Threads \ {V} : loc'[u] = loc[u]
    BY <1>1, Locals DEF Known, SubmitAdmissible, KeepsJob
<1>3. Untouched(V)
    BY NothingTouched DEF SubmitAdmissible, osVars
<1> QED BY <1>1, <1>2, <1>3, QuietGoto DEF QuietLabels, WakeLabels, SubmitAdmissible

\* A refused submission is forgotten.
LEMMA RejectKeeps ==
    ASSUME Known, NEW from \in {"PendingReserve", "PendingPublish", "AwaitReady", "AwaitSlot", "Prepare"},
           At(V, from), Reject, FaultStays, Untouched(V)
    PROVE  EInv'
<1>1. V \in Threads /\ Return(V) /\ loc' = [loc EXCEPT ![V] = NoLocals]
    BY ThreadFacts DEF Reject
<1>2. \A u \in Threads \ {V} : loc'[u] = loc[u]
    BY <1>1, Locals DEF Known
<1>3. from \in QuietLabels /\ from \notin DispatchFrame
    BY DispatchSteps DEF QuietLabels
<1> QED BY <1>1, <1>2, <1>3, QuietReturn

\* The tail entry and the context are reserved, or the submission is refused.
LEMMA PendingReserveKeeps ==
    ASSUME Known, PendingReserve
    PROVE  EInv'
<1>1. At(V, "PendingReserve") /\ FaultStays /\ V \in Threads /\ V # D
    BY ThreadFacts DEF PendingReserve, FaultStays
<1>2. Untouched(V)
    BY NothingTouched DEF PendingReserve, osVars
<1>3. CASE Reject
    BY <1>1, <1>2, <1>3, RejectKeeps
<1>4. CASE Goto(V, "PendingPublish") /\ loc' = loc
    BY <1>1, <1>2, <1>4, QuietGoto DEF QuietLabels, WakeLabels
<1> QED BY <1>3, <1>4 DEF PendingReserve

\* The immediate path waits until the backend is ready ...
LEMMA AwaitReadyKeeps ==
    ASSUME Known, AwaitReady
    PROVE  EInv'
<1>1. /\ At(V, "AwaitReady") /\ Goto(V, "AwaitSlot") /\ loc' = loc
      /\ FaultStays /\ V \in Threads /\ V # D
    BY ThreadFacts DEF AwaitReady, FaultStays
<1>2. Untouched(V)
    BY NothingTouched DEF AwaitReady, osVars
<1> QED BY <1>1, <1>2, QuietGoto DEF QuietLabels, WakeLabels

\* ... and until the slot is free ...
LEMMA AwaitSlotKeeps ==
    ASSUME Known, AwaitSlot
    PROVE  EInv'
<1>1. /\ At(V, "AwaitSlot") /\ loc' = loc
      /\ FaultStays /\ V \in Threads /\ V # D
    BY ThreadFacts DEF AwaitSlot, FaultStays
<1>2. Untouched(V)
    BY NothingTouched DEF AwaitSlot, osVars
<1>3. Goto(V, "Prepare") \/ Goto(V, "AwaitReady")
    BY DEF AwaitSlot
<1> QED BY <1>1, <1>2, <1>3, QuietGoto DEF QuietLabels, WakeLabels

\* ... or runs out of time and refuses.
LEMMA AwaitGiveUpKeeps ==
    ASSUME Known, AwaitGiveUp
    PROVE  EInv'
<1>1. (At(V, "AwaitReady") \/ At(V, "AwaitSlot")) /\ Reject /\ FaultStays
    BY DEF AwaitGiveUp, FaultStays
<1>2. Untouched(V)
    BY NothingTouched DEF AwaitGiveUp, osVars
<1> QED BY <1>1, <1>2, RejectKeeps

\* A refused preemption faults the adapter and changes nothing else.
LEMMA PreemptRefusedKeeps ==
    ASSUME Known, NEW preemption \in PreemptionFences, PreemptRefused(preemption)
    PROVE  EInv'
<1>1. /\ SchedulerFaulted' = TRUE /\ pc' = pc /\ loc' = loc
      /\ UNCHANGED <<schedulerVars, CpuQueue, Paging, DispatchedFence, RenderPacket, G4Pending,
                     Platform, RenderDpcFence, DpcQueued>>
      /\ ~Running(V)
    BY DEF PreemptRefused, PreemptGuard, VidSchFree
<1>2. V \in Threads /\ V # D /\ FaultStays /\ Lab(V) = ""
    BY <1>1, ThreadFacts DEF FaultStays, Running, Lab, Top
<1>3. Went(V, "", "")
    BY <1>1, <1>2 DEF Went, Lab
<1>4. UNCHANGED <<FenceQueue, QueuedFence, ActiveFence, Preemption>>
    BY <1>1 DEF schedulerVars
<1>5. Untouched(V)
    BY <1>1, <1>4 DEF Untouched, EngineUntouched, CpuUntouched
<1> QED BY <1>2, <1>3, <1>5, Quiet, Stays DEF WakeLabels

\* A reset that is refused faults the adapter at most.
LEMMA ResetFailsKeeps ==
    ASSUME Known, ResetFails
    PROVE  EInv'
<1>1. At(V, "ResetEngine") /\ Return(V) /\ FaultStays /\ loc' = loc
    BY DEF ResetFails, FaultStays
<1>2. Untouched(V)
    BY NothingTouched DEF ResetFails, osVars
<1>3. "ResetEngine" \in QuietLabels /\ "ResetEngine" \notin DispatchFrame
    BY DispatchSteps DEF QuietLabels
<1> QED BY <1>1, <1>2, <1>3, QuietReturn

-----------------------------------------------------------------------------
(* The invariant part by part.                                             *)

\* What is known before a step, spelled out ...
LEMMA Parts ==
    ASSUME Known
    PROVE  /\ IInv /\ IInv' /\ SchedTyped /\ Records /\ OwnInv /\ WorkInv /\ PagingToken
           /\ FaultInv /\ ActiveHeld /\ ReservedInv /\ OneReport /\ DpcReleases
           /\ FenceQueueInv /\ BindInv /\ (Agreeing => QueuesAgree)
           /\ TokenInv /\ (CpuReady => Awake)
    BY DEF Known, IInv, CpuInv, EInv, EngineInv, QueueInv, WakeInv, Agreeing, CpuReady

\* ... and what has to be shown after it: the scheduler's queue looks after
\* itself.
LEMMA Together ==
    ASSUME Known, FaultInv', ActiveHeld', ReservedInv', OneReport', DpcReleases',
           BindInv', Agreeing' => QueuesAgree', TokenInv', CpuReady' => Awake'
    PROVE  EInv'
<1>1. FenceQueueInv'
    BY FenceQueueKept DEF Known, IInv, EInv, QueueInv
<1> QED BY <1>1 DEF EInv, EngineInv, QueueInv, WakeInv, Agreeing, CpuReady

\* The reservation is answered for as before, or given up.
LEMMA ReservedKept ==
    ASSUME ReservedInv, FaultStays,
           \/ SchedulerFaulted'
           \/ DispatchedFence' = NoFence
           \/ /\ DispatchedFence' = DispatchedFence
              /\ CpuHas(DispatchedFence) => CpuHas(DispatchedFence)'
              /\ Waiting(DispatchedFence) => Waiting(DispatchedFence)'
              /\ RunningJob(DispatchedFence) => RunningJob(DispatchedFence)'
              /\ ReportOnItsWay(DispatchedFence) => ReportOnItsWay(DispatchedFence)'
    PROVE  ReservedInv'
    BY DEF ReservedInv, FaultStays

\* While the adapter is faulted only the running job constrains it.
LEMMA FaultedReports ==
    ASSUME OneReport, SchedulerFaulted', DispatchedFence' \in {NoFence, DispatchedFence},
           RenderPacket'.State = "Active" =>
             RenderPacket.State = "Active" /\ RenderPacket'.Fence = RenderPacket.Fence
    PROVE  OneReport' /\ ReservedInv'
    BY DEF OneReport, ReservedInv

\* A step that changes nothing of what the invariant speaks of but labels, and
\* the mark of a reset.
Same(t) ==
    /\ DispatchedFence' = DispatchedFence /\ ActiveFence' = ActiveFence
    /\ RenderPacket' = RenderPacket /\ RenderDpcFence' = RenderDpcFence
    /\ QueuedFence' = QueuedFence /\ FenceQueue' = FenceQueue
    /\ CpuQueue' = CpuQueue /\ G4Pending' = G4Pending
    /\ Paging'.Fence = Paging.Fence /\ Paging'.Ok = Paging.Ok
    /\ Paging'.WorkQueued = Paging.WorkQueued /\ Paging'.Pending = Paging.Pending
    /\ Paging'.DpcPending = Paging.DpcPending
    /\ Platform'.WorkQueued = Platform.WorkQueued
    /\ Preemption' = Preemption
    /\ DpcQueued => DpcQueued'

\* Such a step keeps the invariant if it keeps the parts about the fault and the
\* active fence.
LEMMA Passes ==
    ASSUME Known, NEW t \in Threads, t # D, NEW from, NEW to, Went(t, from, to), FaultStays,
           FaultInv', ActiveHeld', Same(t),
           from \notin ExecutorLabels \cup TokenLabels \cup WakeLabels \cup {"QueuePacket"},
           to \notin {"Report", "QueuePacket"}, Agreeing' => Agreeing
    PROVE  EInv'
<1>0. from \notin {"PagingRun", "Report", "BindQueue", "QueuePacket"} /\ from \notin WakeLabels
    BY DEF TokenLabels, WakeLabels, ExecutorLabels
<1>1. PICK f : f = DispatchedFence /\ f = DispatchedFence'
    BY DEF Same
<1>2. CpuHas(f) => CpuHas(f)'
    BY <1>0, CpuHasKept DEF Same
<1>3. Waiting(f) => Waiting(f)'
    BY WaitingKept DEF Same
<1>4. ReportOnItsWay(f) => ReportOnItsWay(f)'
    BY <1>0, ReportKept DEF Same
<1>5. RunningJob(f) => RunningJob(f)'
    BY DEF RunningJob, Same
<1>6. ReservedInv'
    BY <1>1, <1>2, <1>3, <1>4, <1>5, Parts, ReservedKept
<1>7. OneReport'
    BY <1>1, <1>2, <1>3, Parts, OneReportKept DEF Same
<1>8. DpcReleases'
    BY Parts, ReleaseKept
<1>9. BindInv'
    BY <1>0, Parts, BindKept DEF Same
<1>10. Agreeing' => QueuesAgree'
    BY Parts, AgreeKept DEF Same
<1>11. TokenInv'
    BY Parts, TokenKept DEF Same
<1>12. CpuReady' => Awake'
  <2>1. CpuUntouched
    BY DEF Same, CpuUntouched
  <2>2. CpuReady' => CpuReady
    BY <2>1, ReadyBefore
  <2> QED BY <1>0, <2>2, Parts, AwakeKept DEF Same
<1> QED BY <1>6, <1>7, <1>8, <1>9, <1>10, <1>11, <1>12, Together

-----------------------------------------------------------------------------
(* Taking from the queues and adding to them.                              *)

\* An element of a sequence.
LEMMA Member ==
    ASSUME NEW S, NEW s \in Seq(S), NEW i \in 1 .. Len(s)
    PROVE  s[i] \in S
    OBVIOUS

\* The head of the scheduler's queue is its smallest fence.
LEMMA QueueHead ==
    ASSUME SchedTyped, FenceQueueInv, FenceQueue # <<>>
    PROVE  /\ QueuedFence = FenceQueue[1] /\ InQueue(QueuedFence) /\ QueuedFence \in 1 .. MaxFence
           /\ \A f : InQueue(f) => f = QueuedFence \/ QueuedFence < f
<1>1. /\ FenceQueue \in Seq(1 .. MaxFence) /\ Len(FenceQueue) \in Nat /\ Len(FenceQueue) > 0
      /\ QueuedFence = FenceQueue[1] /\ 1 \in 1 .. Len(FenceQueue)
    BY DEF SchedTyped, FenceQueueInv, Sched!HeadOrNone
<1>2. ASSUME NEW f, InQueue(f) PROVE f = QueuedFence \/ QueuedFence < f
  <2>1. PICK i \in 1 .. Len(FenceQueue) : FenceQueue[i] = f
    BY <1>2 DEF InQueue
  <2>2. i = 1 \/ 1 < i
    BY <1>1
  <2> QED BY <1>1, <2>1, <2>2 DEF FenceQueueInv, Increasing
<1>3. QueuedFence \in 1 .. MaxFence
  <2>1. FenceQueue[1] \in 1 .. MaxFence
    BY <1>1, Member
  <2> QED BY <1>1, <2>1
<1>4. InQueue(QueuedFence)
    BY <1>1 DEF InQueue
<1> QED BY <1>1, <1>2, <1>3, <1>4

\* An empty queue has no head, and the other way round.
LEMMA QueueEmpty ==
    ASSUME SchedTyped, FenceQueueInv
    PROVE  FenceQueue = <<>> <=> QueuedFence = NoFence
<1>1. CASE FenceQueue = <<>>
    BY <1>1 DEF FenceQueueInv, Sched!HeadOrNone, Sched!NoFence, NoFence
<1>2. CASE FenceQueue # <<>>
    BY <1>2, QueueHead DEF NoFence
<1> QED BY <1>1, <1>2

\* Activation takes the head away.
LEMMA QueueTaken ==
    ASSUME SchedTyped, FenceQueueInv, FenceQueue # <<>>, FenceQueue' = Tail(FenceQueue)
    PROVE  \A f : InQueue(f)' <=> InQueue(f) /\ f # QueuedFence
<1>1. /\ FenceQueue \in Seq(1 .. MaxFence) /\ Len(FenceQueue) \in Nat /\ Len(FenceQueue) > 0
      /\ QueuedFence = FenceQueue[1] /\ MaxFence \in Nat
    BY WindowAssumption, QueueHead DEF SchedTyped
<1>2. /\ Len(FenceQueue') = Len(FenceQueue) - 1
      /\ \A i \in 1 .. Len(FenceQueue) - 1 : FenceQueue'[i] = FenceQueue[i + 1]
    BY <1>1
<1>3. \A i \in 2 .. Len(FenceQueue) : FenceQueue[i] # FenceQueue[1]
  <2>1. ASSUME NEW i \in 2 .. Len(FenceQueue) PROVE FenceQueue[i] # FenceQueue[1]
    <3>1. i \in 1 .. Len(FenceQueue) /\ 1 \in 1 .. Len(FenceQueue) /\ 1 < i
      BY <1>1
    <3>2. FenceQueue[1] < FenceQueue[i] /\ FenceQueue[1] \in 1 .. MaxFence
      BY <1>1, <3>1 DEF FenceQueueInv, Increasing
    <3> QED BY <1>1, <3>2
  <2> QED BY <2>1
<1>4. ASSUME NEW f, InQueue(f)' PROVE InQueue(f) /\ f # QueuedFence
  <2>1. PICK i \in 1 .. Len(FenceQueue) - 1 : FenceQueue[i + 1] = f
    BY <1>2, <1>4 DEF InQueue
  <2>2. i + 1 \in 2 .. Len(FenceQueue) /\ i + 1 \in 1 .. Len(FenceQueue)
    BY <1>1
  <2> QED BY <1>1, <1>3, <2>1, <2>2 DEF InQueue
<1>5. ASSUME NEW f, InQueue(f), f # QueuedFence PROVE InQueue(f)'
  <2>1. PICK i \in 1 .. Len(FenceQueue) : FenceQueue[i] = f
    BY <1>5 DEF InQueue
  <2>2. i # 1
    BY <1>1, <1>5, <2>1
  <2>3. i - 1 \in 1 .. Len(FenceQueue) - 1 /\ (i - 1) + 1 = i
    BY <1>1, <2>2
  <2>4. FenceQueue'[i - 1] = f
    BY <1>2, <2>1, <2>3
  <2> QED BY <1>2, <2>3, <2>4 DEF InQueue
<1> QED BY <1>4, <1>5

\* A submission adds its fence, the largest.
LEMMA QueueAdded ==
    ASSUME SchedTyped, NEW fence, FenceQueue' = Append(FenceQueue, fence)
    PROVE  \A f : InQueue(f)' <=> InQueue(f) \/ f = fence
<1>1. FenceQueue \in Seq(1 .. MaxFence) /\ Len(FenceQueue) \in Nat
    BY DEF SchedTyped
<1>2. /\ Len(FenceQueue') = Len(FenceQueue) + 1
      /\ \A i \in 1 .. Len(FenceQueue) : FenceQueue'[i] = FenceQueue[i]
      /\ FenceQueue'[Len(FenceQueue) + 1] = fence
    BY <1>1
<1>3. \A i \in 1 .. Len(FenceQueue') : i \in 1 .. Len(FenceQueue) \/ i = Len(FenceQueue) + 1
    BY <1>1, <1>2
<1>4. /\ \A i \in 1 .. Len(FenceQueue) : i \in 1 .. Len(FenceQueue')
      /\ Len(FenceQueue) + 1 \in 1 .. Len(FenceQueue')
    BY <1>1, <1>2
<1> QED BY <1>2, <1>3, <1>4 DEF InQueue

\* The CPU queue loses its head to the executor ...
CpuOrder == \A i, j \in 1 .. Len(CpuQueue) : i < j => CpuQueue[i].Fence < CpuQueue[j].Fence
\* A queue in order has each fence once, so taking the head removes its fence.
LEMMA CpuTaken ==
    ASSUME Records, CpuOrder, CpuQueue # <<>>, CpuQueue' = Tail(CpuQueue)
    PROVE  /\ CpuOrder' /\ InCpu(Head(CpuQueue).Fence)
           /\ \A f : InCpu(f)' <=> InCpu(f) /\ f # Head(CpuQueue).Fence
<1>1. /\ CpuQueue \in Seq(CpuPacketType) /\ Len(CpuQueue) \in Nat /\ Len(CpuQueue) > 0
      /\ Head(CpuQueue) = CpuQueue[1] /\ MaxFence \in Nat
    BY WindowAssumption DEF Records
<1>2. /\ Len(CpuQueue') = Len(CpuQueue) - 1
      /\ \A i \in 1 .. Len(CpuQueue) - 1 : CpuQueue'[i] = CpuQueue[i + 1]
    BY <1>1
<1>f. \A i \in 1 .. Len(CpuQueue) : CpuQueue[i].Fence \in 1 .. MaxFence
  <2>1. \A i \in 1 .. Len(CpuQueue) : CpuQueue[i] \in CpuPacketType
    BY <1>1
  <2> QED BY <2>1 DEF CpuPacketType
<1>3. \A i \in 2 .. Len(CpuQueue) : CpuQueue[i].Fence # CpuQueue[1].Fence
  <2>1. ASSUME NEW i \in 2 .. Len(CpuQueue) PROVE CpuQueue[i].Fence # CpuQueue[1].Fence
    <3>1. i \in 1 .. Len(CpuQueue) /\ 1 \in 1 .. Len(CpuQueue) /\ 1 < i
      BY <1>1
    <3>2. CpuQueue[1].Fence < CpuQueue[i].Fence
      BY <3>1 DEF CpuOrder
    <3> QED BY <1>1, <1>f, <3>1, <3>2
  <2> QED BY <2>1
<1>4. ASSUME NEW f, InCpu(f)' PROVE InCpu(f) /\ f # Head(CpuQueue).Fence
  <2>1. PICK i \in 1 .. Len(CpuQueue) - 1 : CpuQueue[i + 1].Fence = f
    BY <1>2, <1>4 DEF InCpu
  <2>2. i + 1 \in 2 .. Len(CpuQueue) /\ i + 1 \in 1 .. Len(CpuQueue)
    BY <1>1
  <2> QED BY <1>1, <1>3, <2>1, <2>2 DEF InCpu
<1>5. ASSUME NEW f, InCpu(f), f # Head(CpuQueue).Fence PROVE InCpu(f)'
  <2>1. PICK i \in 1 .. Len(CpuQueue) : CpuQueue[i].Fence = f
    BY <1>5 DEF InCpu
  <2>2. i # 1
    BY <1>1, <1>5, <2>1
  <2>3. i - 1 \in 1 .. Len(CpuQueue) - 1 /\ (i - 1) + 1 = i
    BY <1>1, <2>2
  <2>4. CpuQueue'[i - 1].Fence = f
    BY <1>2, <2>1, <2>3
  <2> QED BY <1>2, <2>3, <2>4 DEF InCpu
<1>6. CpuOrder'
  <2>1. SUFFICES ASSUME NEW i \in 1 .. Len(CpuQueue) - 1, NEW j \in 1 .. Len(CpuQueue) - 1, i < j
                 PROVE  CpuQueue'[i].Fence < CpuQueue'[j].Fence
    BY <1>2 DEF CpuOrder
  <2>2. i + 1 \in 1 .. Len(CpuQueue) /\ j + 1 \in 1 .. Len(CpuQueue) /\ i + 1 < j + 1
    BY <1>1, <2>1
  <2> QED BY <1>2, <2>2 DEF CpuOrder
<1>7. InCpu(Head(CpuQueue).Fence)
  <2>1. 1 \in 1 .. Len(CpuQueue)
    BY <1>1
  <2> QED BY <1>1, <2>1 DEF InCpu
<1> QED BY <1>4, <1>5, <1>6, <1>7

\* ... and gains packets in submission order.
LEMMA CpuAdded ==
    ASSUME Records, CpuOrder, NEW packet, CpuQueue' = Append(CpuQueue, packet),
           \A i \in 1 .. Len(CpuQueue) : CpuQueue[i].Fence < packet.Fence
    PROVE  CpuOrder' /\ \A f : InCpu(f)' <=> InCpu(f) \/ f = packet.Fence
<1>1. CpuQueue \in Seq(CpuPacketType) /\ Len(CpuQueue) \in Nat
    BY DEF Records
<1>2. /\ Len(CpuQueue') = Len(CpuQueue) + 1
      /\ \A i \in 1 .. Len(CpuQueue) : CpuQueue'[i] = CpuQueue[i]
      /\ CpuQueue'[Len(CpuQueue) + 1] = packet
    BY <1>1
<1>3. \A i \in 1 .. Len(CpuQueue') : i \in 1 .. Len(CpuQueue) \/ i = Len(CpuQueue) + 1
    BY <1>1, <1>2
<1>4. /\ \A i \in 1 .. Len(CpuQueue) : i \in 1 .. Len(CpuQueue')
      /\ Len(CpuQueue) + 1 \in 1 .. Len(CpuQueue')
    BY <1>1, <1>2
<1>5. \A f : InCpu(f)' <=> InCpu(f) \/ f = packet.Fence
    BY <1>2, <1>3, <1>4 DEF InCpu
<1>6. CpuOrder'
  <2>1. SUFFICES ASSUME NEW i \in 1 .. Len(CpuQueue'), NEW j \in 1 .. Len(CpuQueue'), i < j
                 PROVE  CpuQueue'[i].Fence < CpuQueue'[j].Fence
    BY DEF CpuOrder
  <2>2. i \in 1 .. Len(CpuQueue)
    BY <1>1, <1>2, <2>1
  <2>3. CASE j \in 1 .. Len(CpuQueue)
    BY <1>2, <2>1, <2>2, <2>3 DEF CpuOrder
  <2>4. CASE j = Len(CpuQueue) + 1
    BY <1>2, <2>2, <2>4
  <2> QED BY <1>3, <2>3, <2>4
<1> QED BY <1>5, <1>6

\* A render at the head of the queue is not a CPU packet.
LEMMA RenderNotCpu ==
    ASSUME QueuesAgree, Records, CpuHead, NEW f, f = QueuedFence
    PROVE  ~HeadReady(f)
<1>1. InCpu(f)
  <2>1. CpuQueue \in Seq(CpuPacketType) /\ CpuQueue # <<>> /\ Head(CpuQueue).Fence = f
    BY DEF Records, CpuHead
  <2>2. 1 \in 1 .. Len(CpuQueue) /\ CpuQueue[1].Fence = f
    BY <2>1
  <2> QED BY <2>2 DEF InCpu
<1>2. HeadReady(f) => InSlot(f) \/ InPending(f)
  <2>1. CASE RenderPacket.State = "Queued" /\ RenderPacket.Fence = f
    BY <2>1 DEF InSlot
  <2>2. CASE G4Pending # <<>> /\ Head(G4Pending).State # "Dropped" /\ Head(G4Pending).Fence = f
    <3>1. G4Pending \in Seq(PendingType)
      BY DEF Records
    <3>2. 1 \in 1 .. Len(G4Pending) /\ G4Pending[1] = Head(G4Pending)
      BY <2>2, <3>1
    <3> QED BY <2>2, <3>2 DEF InPending, Live
  <2> QED BY <2>1, <2>2 DEF HeadReady
<1> QED BY <1>1, <1>2 DEF QueuesAgree

\* A completion that is on its way wakes the dispatcher.
LEMMA ReportAwake ==
    ASSUME DpcReleases, NEW f, f # NoFence, ReportOnItsWay(f)
    PROVE  Awake
<1>1. CASE \E t \in RenderWorkers \cup {V} : Reporter(t, f)
    BY <1>1, ThreadFacts DEF Reporter, Awake, WakeLabels
<1>2. CASE DpcQueued
    BY <1>2 DEF Awake
<1>3. CASE Lab(D) \in BeforeTake
    BY <1>3 DEF BeforeTake, Awake, DpcAwake, DpcLabels
<1>4. CASE loc[D].Job = f
    BY <1>4 DEF DpcReleases, Awake, DpcAwake, DpcLabels
<1> QED BY <1>1, <1>2, <1>3, <1>4 DEF ReportOnItsWay

-----------------------------------------------------------------------------
(* Reserving the engine and giving it back.                                *)

\* A CPU packet is started: it answers for the reservation.
LEMMA DispatchCpuKeeps ==
    ASSUME Known, NEW t \in Threads, DispatchCpu(t)
    PROVE  EInv'
<1>1. /\ At(t, "Reserve") /\ Return(t) /\ FaultStays
      /\ QueuedFence # NoFence /\ ActiveFence = NoFence /\ CpuHead
      /\ loc' = [loc EXCEPT ![t].Fence = NoFence, ![t].Attempt = 0]
      /\ DispatchedFence' = QueuedFence /\ CpuQueue' = Tail(CpuQueue)
    BY DEF DispatchCpu, Dispatchable, FaultStays
<1>2. /\ FenceQueue # <<>> /\ FenceQueue' = Tail(FenceQueue) /\ ActiveFence' = QueuedFence
    BY DEF DispatchCpu, Sched!ActivateFence, Sched!SchedActivateFence, Sched!MayActivateFence
<1>3. /\ Paging'.Pending = TRUE /\ Paging'.Fence = QueuedFence /\ Paging'.WorkQueued = TRUE
      /\ Paging'.DpcPending = Paging.DpcPending
    BY DEF DispatchCpu, Known, IInv, Records, PagingFields
<1>4. UNCHANGED <<RenderPacket, G4Pending, Platform, RenderDpcFence, SchedulerFaulted, DpcQueued>>
    BY DEF DispatchCpu, renderVars, osVars
<1>5. KeepsJob(loc', t) /\ "Reserve" \in DispatchFrame
    BY <1>1, Locals, DispatchSteps DEF Known
<1>6. /\ Went(t, "Reserve", Lab(t)') /\ (t = D => DpcStays) /\ Lab(t)' \notin QuietMarks
    BY <1>1, <1>5, DispatcherMoves
<1>7. FaultInv'
    BY <1>1, <1>4, <1>6, Parts, FaultKept DEF QuietMarks, EngineMarks, QuiescingLabels,
         QuiesceLabels, CompleteLabels
<1>8. ActiveHeld'
    BY <1>1, <1>4, <1>6, Parts, ActiveKept DEF RunLabels
<1>9. CpuHas(DispatchedFence)'
    BY <1>1, <1>2, <1>3 DEF CpuHas, CpuOwns
<1>10. ReservedInv'
    BY <1>9 DEF ReservedInv
<1>11. OneReport'
  <2>1. RenderPacket'.State # "Active"
    BY <1>1, <1>4, Parts DEF OwnInv
  <2> QED BY <1>9, <2>1 DEF OneReport
<1>12. DpcReleases'
    BY <1>6, Parts, ReleaseKept DEF DpcStays
<1>13. BindInv'
  <2>1. Lab(t)' # "QueuePacket"
    BY <1>6 DEF QuietMarks
  <2> QED BY <1>4, <1>6, <2>1, Parts, BindKept
<1>14. Agreeing' => QueuesAgree'
  <2>1. SUFFICES ASSUME QueuesAgree PROVE QueuesAgree'
    <3>1. t = V => Lab(t)' \notin ClearingLabels
      BY <1>6 DEF QuietMarks, EngineMarks
    <3> QED BY <1>1, <1>6, <3>1, Parts, AgreeingBefore
  <2>2. CpuOrder /\ Head(CpuQueue).Fence = QueuedFence /\ CpuQueue # <<>>
    BY <1>1, <2>1 DEF QueuesAgree, CpuOrder, CpuHead
  <2>3. /\ CpuOrder' /\ InCpu(QueuedFence)
        /\ \A f : InCpu(f)' <=> InCpu(f) /\ f # QueuedFence
    BY <1>1, <2>2, Parts, CpuTaken
  <2>4. \A f : InQueue(f)' <=> InQueue(f) /\ f # QueuedFence
    BY <1>2, Parts, QueueTaken
  <2>5. \A f : (InPending(f)' <=> InPending(f)) /\ (InSlot(f)' <=> InSlot(f))
    BY <1>4 DEF InPending, Live, InSlot
  <2>6. \A f : InPending(f) \/ InSlot(f) => f # QueuedFence
    BY <2>1, <2>3 DEF QueuesAgree
  <2>7. \A i, j \in 1 .. Len(G4Pending') :
          i < j /\ Live(i)' => G4Pending'[i].Fence < G4Pending'[j].Fence
    BY <1>4, <2>1 DEF QueuesAgree, Live
  <2> QED BY <2>1, <2>3, <2>4, <2>5, <2>6, <2>7 DEF QueuesAgree, CpuOrder
<1>15. TokenInv'
  <2>1. ~Paging'.DpcPending
    BY <1>3 DEF Known, IInv, CpuInv, PagingToken
  <2> QED BY <1>3, <2>1 DEF TokenInv
<1>16. CpuReady' => Awake'
    BY <1>3 DEF CpuReady, Dispatchable
<1> QED BY <1>7, <1>8, <1>10, <1>11, <1>12, <1>13, <1>14, <1>15, <1>16, Together

\* A waiting render stays at the head, ready, while nobody touches the queues.
LEMMA ReadyKept ==
    ASSUME NEW f, HeadReady(f), NEW t \in Threads, NEW from, NEW to, Went(t, from, to),
           from # "BindQueue", RenderPacket' = RenderPacket, G4Pending' = G4Pending
    PROVE  HeadReady(f)'
<1>1. BindingNow => BindingNow'
    BY OthersStay, ThreadFacts DEF BindingNow, Went
<1> QED BY <1>1 DEF HeadReady

\* A render is reserved for: the dispatcher will queue the work item.
LEMMA DispatchRenderKeeps ==
    ASSUME Known, NEW t \in Threads, DispatchRender(t)
    PROVE  EInv'
<1>1. /\ At(t, "Reserve") /\ Goto(t, "RuntimeSubmit") /\ FaultStays
      /\ QueuedFence # NoFence /\ ActiveFence = NoFence /\ RenderHead
      /\ loc' = [loc EXCEPT ![t].Fence = QueuedFence]
      /\ DispatchedFence' = QueuedFence
    BY DEF DispatchRender, Dispatchable, FaultStays
<1>2. UNCHANGED <<FenceQueue, QueuedFence, ActiveFence, Preemption, CpuQueue, Paging,
                  RenderPacket, G4Pending, Platform, RenderDpcFence, SchedulerFaulted, DpcQueued>>
    BY DEF DispatchRender, schedulerVars, cpuVars, renderVars, osVars
<1>3. KeepsJob(loc', t) /\ "Reserve" \in DispatchFrame /\ "RuntimeSubmit" \in DispatchFrame
    BY <1>1, Locals, DispatchSteps DEF Known
<1>4. Went(t, "Reserve", "RuntimeSubmit") /\ (t = D => DpcStays)
    BY <1>1, <1>3, DispatcherMoves
<1>5. FaultInv'
    BY <1>1, <1>2, <1>4, Parts, FaultKept DEF QuiescingLabels, QuiesceLabels, CompleteLabels,
         ClearingLabels
<1>6. ActiveHeld'
    BY <1>1, <1>2, <1>4, Parts, ActiveKept DEF RunLabels
<1>7. Waiting(DispatchedFence)'
  <2>1. HeadReady(DispatchedFence)'
    BY <1>1, <1>2 DEF RenderHead, HeadReady
  <2>2. Dispatching(t, DispatchedFence)'
    <3>1. loc'[t].Fence = QueuedFence
      BY <1>1 DEF Known, IInv, Records, LocalFields
    <3> QED BY <1>1, <1>4, <3>1 DEF Dispatching, Went
  <2>3. Executor(DispatchedFence)'
    BY <2>2 DEF Executor
  <2> QED BY <1>1, <1>2, <2>1, <2>3 DEF Waiting
<1>8. ReservedInv'
    BY <1>7 DEF ReservedInv
<1>9. OneReport'
  <2>1. RenderPacket'.State # "Active"
    BY <1>1, <1>2, Parts DEF OwnInv
  <2> QED BY <1>7, <2>1 DEF OneReport
<1>10. DpcReleases'
    BY <1>4, Parts, ReleaseKept DEF DpcStays
<1>11. BindInv'
    BY <1>2, <1>4, Parts, BindKept
<1>12. Agreeing' => QueuesAgree'
    BY <1>1, <1>2, <1>4, Parts, AgreeingBefore, AgreeKept DEF ClearingLabels
<1>13. TokenInv'
    BY <1>2, <1>4, Parts, TokenKept DEF TokenLabels
<1>14. CpuReady' => Awake'
    BY <1>1, <1>2 DEF CpuReady, Dispatchable
<1> QED BY <1>5, <1>6, <1>8, <1>9, <1>10, <1>11, <1>12, <1>13, <1>14, Together

\* The work item is queued, or the reservation will be given back: as long as
\* a dispatcher keeps its render waiting and the queues alone, all is well.
LEMMA SubmittedKeeps ==
    ASSUME Known, NEW t \in Threads, NEW to, Went(t, "RuntimeSubmit", to), FaultStays,
           t = D => DpcStays, to \notin QuietMarks \/ to = "Release",
           UNCHANGED <<schedulerVars, cpuVars, DispatchedFence, RenderPacket, G4Pending,
                       RenderDpcFence, osVars>>,
           Platform'.Resetting = Platform.Resetting,
           Platform.WorkQueued => Platform'.WorkQueued,
           \/ Platform'.WorkQueued
           \/ to = "Release" /\ loc'[t].Fence = loc[t].Fence
    PROVE  EInv'
<1>1. UNCHANGED <<FenceQueue, QueuedFence, ActiveFence, Preemption, CpuQueue, Paging,
                  RenderPacket, G4Pending, RenderDpcFence, DispatchedFence, DpcQueued>>
    BY DEF schedulerVars, cpuVars, osVars
<1>2. to \notin QuiescingLabels \cup ClearingLabels \cup {"Report", "QueuePacket"}
    BY DEF QuietMarks, EngineMarks, QuiescingLabels, QuiesceLabels, CompleteLabels, ClearingLabels
<1>3. FaultInv'
    BY <1>1, <1>2, Parts, FaultKept DEF QuiescingLabels, QuiesceLabels, CompleteLabels
<1>4. ActiveHeld'
    BY <1>1, Parts, ActiveKept DEF RunLabels
<1>5. PICK f : f = DispatchedFence /\ f = DispatchedFence'
    BY <1>1
<1>6. CpuHas(f) => CpuHas(f)'
    BY <1>1, CpuHasKept
<1>7. Waiting(f) => Waiting(f)'
  <2>1. ASSUME Waiting(f) PROVE Executor(f)'
    <3>1. CASE Platform'.WorkQueued
      BY <3>1 DEF Executor
    <3>2. CASE ~Platform'.WorkQueued /\ \E u \in Threads : Dispatching(u, f)
      <4>1. PICK u \in Threads : Dispatching(u, f)
        BY <3>2
      <4>2. Dispatching(u, f)'
        BY <3>2, <4>1, OthersStay DEF Dispatching, Went
      <4> QED BY <4>2 DEF Executor
    <3>3. CASE \E r \in RenderWorkers : Activating(r)
      <4>1. PICK r \in RenderWorkers : Activating(r)
        BY <3>3
      <4>2. Lab(r) # "RuntimeSubmit" /\ r \in Threads
        BY <4>1, ThreadFacts DEF Activating
      <4>3. Activating(r)'
        BY <1>1, <4>1, <4>2, OthersStay DEF Activating, Went
      <4> QED BY <4>3 DEF Executor
    <3> QED BY <2>1, <3>1, <3>2, <3>3 DEF Waiting, Executor
  <2>2. HeadReady(f) => HeadReady(f)'
    BY <1>1, ReadyKept
  <2> QED BY <1>1, <2>1, <2>2 DEF Waiting
<1>8. ReportOnItsWay(f) => ReportOnItsWay(f)'
    BY <1>1, ReportKept DEF BeforeTake, DpcStays
<1>9. RunningJob(f) => RunningJob(f)'
    BY <1>1 DEF RunningJob
<1>10. ReservedInv'
    BY <1>5, <1>6, <1>7, <1>8, <1>9, Parts, ReservedKept
<1>11. OneReport'
    BY <1>1, <1>2, <1>5, <1>6, <1>7, Parts, OneReportKept
<1>12. DpcReleases'
    BY Parts, ReleaseKept DEF DpcStays
<1>13. BindInv'
    BY <1>1, <1>2, Parts, BindKept
<1>14. Agreeing' => QueuesAgree'
    BY <1>1, <1>2, Parts, AgreeingBefore, AgreeKept
<1>15. TokenInv'
    BY <1>1, Parts, TokenKept DEF TokenLabels
<1>16. CpuReady' => Awake'
  <2>1. CpuReady' => CpuReady
    BY <1>1, ReadyBefore DEF CpuUntouched
  <2> QED BY <1>1, <2>1, Parts, AwakeKept DEF WakeLabels, DpcStays
<1> QED BY <1>3, <1>4, <1>10, <1>11, <1>12, <1>13, <1>14, <1>15, <1>16, Together

\* AdmissionPlatformRuntimeSubmit accepts or refuses the work item.
LEMMA RuntimeSubmitKeeps ==
    ASSUME Known, NEW t \in Threads, RuntimeSubmit(t)
    PROVE  EInv'
<1>1. /\ At(t, "RuntimeSubmit") /\ FaultStays
      /\ UNCHANGED <<schedulerVars, cpuVars, DispatchedFence, RenderPacket, G4Pending,
                     RenderDpcFence, osVars>>
    BY DEF RuntimeSubmit, FaultStays
<1>2. {"RuntimeSubmit", "Release"} \subseteq DispatchFrame
    BY DispatchSteps
<1>3. CASE RuntimeReady
  <2>1. /\ Platform' = [Platform EXCEPT !.WorkScheduled = TRUE, !.WorkQueued = TRUE,
                                        !.WorkIdle = FALSE]
        /\ loc' = [loc EXCEPT ![t].Fence = NoFence, ![t].Attempt = 0]
        /\ Return(t)
    BY <1>3 DEF RuntimeSubmit
  <2>2. Platform'.WorkQueued = TRUE /\ Platform'.Resetting = Platform.Resetting
    BY <2>1 DEF Known, IInv, Records, PlatformFields
  <2>3. KeepsJob(loc', t)
    BY <2>1, Locals DEF Known
  <2>4. Went(t, "RuntimeSubmit", Lab(t)') /\ (t = D => DpcStays) /\ Lab(t)' \notin QuietMarks
    BY <1>1, <1>2, <2>1, <2>3, DispatcherMoves
  <2> QED BY <1>1, <2>2, <2>4, SubmittedKeeps
<1>4. CASE ~RuntimeReady
  <2>1. Goto(t, "Release") /\ Platform' = Platform /\ loc' = loc
    BY <1>4 DEF RuntimeSubmit
  <2>2. KeepsJob(loc', t)
    BY <2>1 DEF KeepsJob
  <2>3. Went(t, "RuntimeSubmit", "Release") /\ (t = D => DpcStays)
    BY <1>1, <1>2, <2>1, <2>2, DispatcherMoves
  <2> QED BY <1>1, <2>1, <2>3, SubmittedKeeps
<1> QED BY <1>3, <1>4

\* The refused dispatcher gives its reservation back; a CPU packet that may run
\* now has somebody to start it.
LEMMA DispatchReleaseKeeps ==
    ASSUME Known, NEW t \in Threads, DispatchRelease(t)
    PROVE  EInv'
<1>1. /\ At(t, "Release") /\ Goto(t, "Retry") /\ FaultStays /\ loc' = loc
      /\ DispatchedFence' = IF DispatchedFence = loc[t].Fence THEN NoFence ELSE DispatchedFence
    BY DEF DispatchRelease, FaultStays
<1>2. UNCHANGED <<FenceQueue, QueuedFence, ActiveFence, Preemption, CpuQueue, Paging,
                  RenderPacket, G4Pending, Platform, RenderDpcFence, SchedulerFaulted, DpcQueued>>
    BY DEF DispatchRelease, schedulerVars, cpuVars, renderVars, osVars
<1>3. KeepsJob(loc', t) /\ "Release" \in DispatchFrame /\ "Retry" \in DispatchFrame
    BY <1>1, DispatchSteps DEF KeepsJob
<1>4. Went(t, "Release", "Retry") /\ (t = D => DpcStays)
    BY <1>1, <1>3, DispatcherMoves
<1>5. FaultInv'
    BY <1>1, <1>2, <1>4, Parts, FaultKept DEF QuiescingLabels, QuiesceLabels, CompleteLabels,
         ClearingLabels
<1>6. ActiveHeld'
    BY <1>1, <1>2, <1>4, Parts, ActiveKept DEF RunLabels
<1>7. PICK f : f = DispatchedFence
    OBVIOUS
<1>8. CpuHas(f) => CpuHas(f)'
    BY <1>2, <1>4, CpuHasKept
<1>9. f # loc[t].Fence /\ Waiting(f) => Waiting(f)'
  <2>1. SUFFICES ASSUME f # loc[t].Fence, Waiting(f) PROVE Waiting(f)'
    OBVIOUS
  <2>2. \A u \in Threads : Dispatching(u, f) => Dispatching(u, f)'
    BY <1>4, <2>1, OthersStay DEF Dispatching
  <2>3. \A r \in RenderWorkers : Activating(r) => Activating(r)'
    BY <1>2, <1>4, OthersStay, ThreadFacts DEF Activating, Went
  <2>4. Executor(f)'
    BY <1>2, <2>1, <2>2, <2>3 DEF Waiting, Executor
  <2>5. HeadReady(f)'
    BY <1>2, <1>4, <2>1, ReadyKept DEF Waiting
  <2> QED BY <1>2, <2>1, <2>4, <2>5 DEF Waiting
<1>10. ReportOnItsWay(f) => ReportOnItsWay(f)'
    BY <1>2, <1>4, ReportKept DEF BeforeTake, DpcStays
<1>11. RunningJob(f) => RunningJob(f)'
    BY <1>2 DEF RunningJob
<1>12. DispatchedFence' = NoFence \/ (DispatchedFence' = f /\ f # loc[t].Fence)
    BY <1>1, <1>7
<1>13. ReservedInv'
    BY <1>1, <1>7, <1>8, <1>9, <1>10, <1>11, <1>12, Parts, ReservedKept
<1>14. OneReport'
    BY <1>1, <1>2, <1>4, <1>7, <1>8, <1>9, <1>12, Parts, OneReportKept
<1>15. DpcReleases'
    BY <1>4, Parts, ReleaseKept DEF DpcStays
<1>16. BindInv'
    BY <1>2, <1>4, Parts, BindKept
<1>17. Agreeing' => QueuesAgree'
    BY <1>1, <1>2, <1>4, Parts, AgreeingBefore, AgreeKept DEF ClearingLabels
<1>18. TokenInv'
    BY <1>2, <1>4, Parts, TokenKept DEF TokenLabels
<1>19. CpuReady' => Awake'
  <2>1. SUFFICES ASSUME CpuReady' PROVE Awake
    BY <1>2, <1>4, AwakeKept DEF WakeLabels, DpcStays
  <2>2. /\ ~SchedulerFaulted /\ QueuedFence # NoFence /\ ~Paging.Pending /\ ActiveFence = NoFence
        /\ ~Sched!DispatchBlocked /\ CpuHead
    BY <1>2, <2>1 DEF CpuReady, Dispatchable, CpuHead, Sched!DispatchBlocked
  <2>3. CASE f = NoFence
    BY <1>7, <2>2, <2>3, Parts DEF CpuReady, Dispatchable
  <2>4. CASE f # NoFence
    <3>1. QueuesAgree
      BY <2>2, Parts DEF Agreeing
    <3>2. ~Waiting(f)
      BY <2>2, <3>1, Parts, RenderNotCpu DEF Waiting
    <3>3. ~CpuHas(f) /\ ~RunningJob(f)
      BY <2>2, <2>4, Parts DEF CpuHas, RunningJob, OwnInv
    <3>4. ReportOnItsWay(f)
      BY <1>7, <2>2, <2>4, <3>2, <3>3, Parts DEF ReservedInv
    <3> QED BY <2>4, <3>4, Parts, ReportAwake
  <2> QED BY <2>3, <2>4
<1> QED BY <1>5, <1>6, <1>13, <1>14, <1>15, <1>16, <1>17, <1>18, <1>19, Together

\* The notification is committed, and the thread dispatches; or the commit is
\* refused, and the adapter faults.
LEMMA CommitNotificationKeeps ==
    ASSUME Known, NEW t \in Threads, CommitNotification(t)
    PROVE  EInv'
<1>1. /\ At(t, "Commit") /\ FaultStays
      /\ loc' = [loc EXCEPT ![t].Preemption = NoFence, ![t].LastCompleted = NoFence]
    BY DEF CommitNotification, FaultStays
<1>2. KeepsJob(loc', t) /\ "Commit" \in DispatchFrame /\ "Dispatch" \in DispatchFrame
    BY <1>1, Locals, DispatchSteps DEF Known
<1>3. UNCHANGED <<CpuQueue, Paging, RenderPacket, G4Pending, Platform, RenderDpcFence,
                  DispatchedFence, DpcQueued>>
    BY DEF CommitNotification, cpuVars, renderVars, osVars
<1>4. CASE /\ Sched!CommitBoundaryPreemption(loc[t].Preemption) /\ Goto(t, "Dispatch")
  <2>1. UNCHANGED <<FenceQueue, QueuedFence, ActiveFence>>
    BY <1>4 DEF Sched!CommitBoundaryPreemption, Sched!SchedCommitBoundaryPreemption
  <2>2. Went(t, "Commit", "Dispatch") /\ (t = D => DpcStays)
    BY <1>1, <1>2, <1>4, DispatcherMoves
  <2>3. "Commit" \notin QuietMarks /\ "Dispatch" \notin QuietMarks
    BY Quiet DEF QuietLabels
  <2>4. EngineInv'
    <3>1. EngineUntouched(t)
      BY <1>3, <2>1 DEF EngineUntouched
    <3> QED BY <1>1, <2>2, <2>3, <3>1, EngineStays DEF QuietMarks, DpcStays, Known, EInv
  <2>5. QueueInv'
    BY <1>1, <1>3, <2>1, <2>2, Parts, QueueStays DEF Known, EInv, ClearingLabels
  <2>6. TokenInv'
    BY <1>3, <2>2, Parts, TokenKept DEF TokenLabels
  <2>7. Awake'
    BY <2>2 DEF Went, Awake, WakeLabels
  <2> QED BY <2>4, <2>5, <2>6, <2>7 DEF EInv, WakeInv
<1>5. CASE SchedulerFaulted' = TRUE /\ Return(t) /\ UNCHANGED schedulerVars
  <2>1. UNCHANGED <<FenceQueue, QueuedFence, ActiveFence, Preemption>>
    BY <1>5 DEF schedulerVars
  <2>2. Untouched(t)
    BY <1>3, <2>1 DEF Untouched, EngineUntouched, CpuUntouched
  <2> QED BY <1>1, <1>2, <1>5, <2>2, DispatcherStays DEF ExecutorLabels, WakeLabels
<1> QED BY <1>4, <1>5 DEF CommitNotification

-----------------------------------------------------------------------------
(* The CPU executor.                                                       *)

\* The work item starts.
LEMMA PagingWorkerStartKeeps ==
    ASSUME Known, NEW p \in PagingWorkers, PagingWorkerStart(p)
    PROVE  EInv'
<1>1. /\ Enter(p, "PagingRun") /\ FaultStays /\ loc' = loc
      /\ Paging' = [Paging EXCEPT !.WorkQueued = FALSE]
    BY DEF PagingWorkerStart, FaultStays
<1>2. UNCHANGED <<FenceQueue, QueuedFence, ActiveFence, Preemption, CpuQueue, DispatchedFence,
                  RenderPacket, G4Pending, Platform, RenderDpcFence, DpcQueued>>
    BY DEF PagingWorkerStart, schedulerVars, renderVars, osVars
<1>3. /\ Paging'.Pending = Paging.Pending /\ Paging'.Fence = Paging.Fence /\ Paging'.Ok = Paging.Ok
      /\ Paging'.DpcPending = Paging.DpcPending
    BY <1>1 DEF Known, IInv, Records, PagingFields
<1>4. p \in Threads /\ p # D /\ p # V /\ p \notin RenderWorkers /\ "PagingRun" \in Label
    BY ThreadFacts DEF Label, PagingLabels
<1>5. Went(p, "", "PagingRun")
    BY <1>1, <1>4, WentEnter DEF Known
<1>6. FaultInv'
    BY <1>1, <1>2, <1>4, <1>5, Parts, FaultKept
<1>7. ActiveHeld'
    BY <1>1, <1>2, <1>4, <1>5, Parts, ActiveKept
<1>8. PICK f : f = DispatchedFence /\ f = DispatchedFence'
    BY <1>2
<1>9. CpuHas(f) => CpuHas(f)'
  <2>1. CpuOwns'
    BY <1>5 DEF CpuOwns, Went
  <2> QED BY <1>2, <1>3, <2>1 DEF CpuHas
<1>10. Waiting(f) => Waiting(f)'
    BY <1>2, <1>4, <1>5, WaitingKept DEF ExecutorLabels
<1>11. ReportOnItsWay(f) => ReportOnItsWay(f)'
    BY <1>2, <1>4, <1>5, ReportKept
<1>12. RunningJob(f) => RunningJob(f)'
    BY <1>2 DEF RunningJob
<1>13. ReservedInv'
    BY <1>1, <1>8, <1>9, <1>10, <1>11, <1>12, Parts, ReservedKept
<1>14. OneReport'
    BY <1>1, <1>2, <1>4, <1>5, <1>8, <1>9, <1>10, Parts, OneReportKept
<1>15. DpcReleases'
    BY <1>4, <1>5, Parts, ReleaseKept
<1>16. BindInv'
    BY <1>2, <1>4, <1>5, Parts, BindKept
<1>17. Agreeing' => QueuesAgree'
    BY <1>1, <1>2, <1>4, <1>5, Parts, AgreeingBefore, AgreeKept
<1>18. TokenInv'
  <2>1. \E q \in PagingWorkers : Executing(q)'
    BY <1>5 DEF Executing, Went
  <2>2. Lab(D)' = Lab(D)
    BY <1>4, <1>5, OthersStay, ThreadFacts
  <2> QED BY <1>2, <1>3, <2>1, <2>2, Parts DEF TokenInv
<1>19. CpuReady' => Awake'
  <2>1. CpuReady' => CpuReady
    BY <1>1, <1>2, <1>3, ReadyBefore DEF CpuUntouched
  <2> QED BY <1>2, <1>4, <1>5, <2>1, Parts, AwakeKept DEF WakeLabels
<1> QED BY <1>6, <1>7, <1>13, <1>14, <1>15, <1>16, <1>17, <1>18, <1>19, Together

\* The packet has been executed: whatever becomes of it, the worker that runs
\* it is the CPU executor, and its packet is not reported yet.
LEMMA ExecutedKeeps ==
    ASSUME Known, NEW p \in PagingWorkers, At(p, "PagingRun"), Goto(p, "PagingNotify"),
           loc' = loc, FaultStays,
           UNCHANGED <<FenceQueue, QueuedFence, CpuQueue, RenderPacket, G4Pending, Platform,
                       RenderDpcFence, DpcQueued>>,
           Paging'.Pending = Paging.Pending, Paging'.Fence = Paging.Fence,
           Paging'.DpcPending = Paging.DpcPending,
           \/ DispatchedFence' = NoFence
           \/ DispatchedFence' = DispatchedFence /\ SchedulerFaulted'
           \/ DispatchedFence' = DispatchedFence /\ DispatchedFence # Paging.Fence
           \/ /\ DispatchedFence' = DispatchedFence
              /\ Paging'.Ok = FALSE /\ ActiveFence' = ActiveFence
    PROVE  EInv'
<1>1. /\ p \in Threads /\ p # D /\ p # V /\ p \notin RenderWorkers
      /\ "PagingRun" \in Label /\ "PagingNotify" \in Label
    BY ThreadFacts DEF Label, PagingLabels
<1>2. Went(p, "PagingRun", "PagingNotify")
    BY <1>1, WentGoto DEF Known
<1>3. Lab(p) = "PagingRun"
    BY <1>2 DEF Went
<1>4. CpuOwns /\ Paging.Fence = ActiveFence /\ ActiveFence # NoFence /\ RenderPacket.State # "Active"
  <2>1. CpuOwns
    BY <1>3 DEF CpuOwns
  <2> QED BY <2>1, Parts DEF OwnInv
<1>5. Paging.Pending
    BY <1>3, Parts DEF PagingToken, Executing
<1>6. FaultInv'
  <2>1. DispatchedFence = NoFence => DispatchedFence' = NoFence
    OBVIOUS
  <2> QED BY <1>1, <1>2, <2>1, Parts, FaultKept
<1>7. ActiveHeld'
    BY <1>1, <1>2, Parts, ActiveKept
<1>8. PICK f : f = DispatchedFence
    OBVIOUS
<1>9. ~Waiting(f) /\ ~RunningJob(f)
    BY <1>4 DEF Waiting, RunningJob
<1>10. CpuHas(f) =>
         DispatchedFence' = NoFence \/ SchedulerFaulted' \/ CpuHas(f)'
    BY <1>8 DEF CpuHas
<1>11. ReportOnItsWay(f) => ReportOnItsWay(f)'
    BY <1>1, <1>2, ReportKept
<1>12. ReservedInv'
    BY <1>8, <1>9, <1>10, <1>11, Parts, ReservedKept
<1>13. OneReport'
  <2>1. CASE SchedulerFaulted'
    BY <2>1, <1>4, Parts, FaultedReports
  <2>2. CASE ~SchedulerFaulted'
    BY <1>1, <1>2, <1>8, <1>9, <1>10, <2>2, Parts, OneReportKept
  <2> QED BY <2>1, <2>2
<1>14. DpcReleases'
    BY <1>1, <1>2, Parts, ReleaseKept
<1>15. BindInv'
    BY <1>1, <1>2, Parts, BindKept
<1>16. Agreeing' => QueuesAgree'
    BY <1>1, <1>2, Parts, AgreeingBefore, AgreeKept
<1>17. TokenInv'
  <2>1. \E q \in PagingWorkers : Executing(q)'
    BY <1>2 DEF Executing, Went
  <2>2. Lab(D)' = Lab(D)
    BY <1>1, <1>2, OthersStay, ThreadFacts
  <2> QED BY <2>1, <2>2, Parts DEF TokenInv
<1>18. CpuReady' => Awake'
    BY <1>5 DEF CpuReady, Dispatchable
<1> QED BY <1>6, <1>7, <1>12, <1>13, <1>14, <1>15, <1>16, <1>17, <1>18, Together

\* The executor ends: the completion is recorded, or refused and the adapter faulted.
LEMMA PagingRecordCompletionKeeps ==
    ASSUME Known, NEW p \in PagingWorkers, PagingRecordCompletion(p)
    PROVE  EInv'
<1>1. /\ At(p, "PagingRun") /\ Goto(p, "PagingNotify") /\ loc' = loc
      /\ UNCHANGED <<CpuQueue, RenderPacket, G4Pending, Platform, RenderDpcFence, DpcQueued>>
    BY DEF PagingRecordCompletion, renderVars, osVars
<1>2. CASE /\ Sched!RecordCompletion(Paging.Fence)
           /\ DispatchedFence' = IF DispatchedFence = Paging.Fence THEN NoFence ELSE DispatchedFence
           /\ Paging' = [Paging EXCEPT !.Ok = TRUE]
           /\ UNCHANGED SchedulerFaulted
  <2>1. FenceQueue' = FenceQueue /\ QueuedFence' = QueuedFence
    BY <1>2 DEF Sched!RecordCompletion, Sched!SchedRecordCompletion
  <2>2. /\ Paging'.Pending = Paging.Pending /\ Paging'.Fence = Paging.Fence
        /\ Paging'.DpcPending = Paging.DpcPending
    BY <1>2 DEF Known, IInv, Records, PagingFields
  <2>3. FaultStays
    BY <1>2 DEF FaultStays
  <2> QED BY <1>1, <1>2, <2>1, <2>2, <2>3, ExecutedKeeps
<1>3. CASE /\ SchedulerFaulted' = TRUE
           /\ Paging' = [Paging EXCEPT !.Ok = FALSE]
           /\ UNCHANGED <<schedulerVars, DispatchedFence>>
  <2>1. FenceQueue' = FenceQueue /\ QueuedFence' = QueuedFence
    BY <1>3 DEF schedulerVars
  <2>2. /\ Paging'.Pending = Paging.Pending /\ Paging'.Fence = Paging.Fence
        /\ Paging'.DpcPending = Paging.DpcPending
    BY <1>3 DEF Known, IInv, Records, PagingFields
  <2>3. FaultStays
    BY <1>3 DEF FaultStays
  <2> QED BY <1>1, <1>3, <2>1, <2>2, <2>3, ExecutedKeeps
<1> QED BY <1>2, <1>3 DEF PagingRecordCompletion

\* The executor ends with an error.
LEMMA PagingFailKeeps ==
    ASSUME Known, NEW p \in PagingWorkers, PagingFail(p)
    PROVE  EInv'
<1>1. /\ At(p, "PagingRun") /\ Goto(p, "PagingNotify") /\ loc' = loc /\ FaultStays
      /\ UNCHANGED <<CpuQueue, RenderPacket, G4Pending, Platform, RenderDpcFence, DpcQueued,
                     DispatchedFence, FenceQueue, QueuedFence, ActiveFence>>
    BY DEF PagingFail, renderVars, osVars, schedulerVars, FaultStays
<1>2. /\ Paging'.Pending = Paging.Pending /\ Paging'.Fence = Paging.Fence
      /\ Paging'.DpcPending = Paging.DpcPending /\ Paging'.Ok = FALSE
    BY DEF PagingFail, Known, IInv, Records, PagingFields
<1> QED BY <1>1, <1>2, ExecutedKeeps

\* The interrupt queues the DPC, which will take the completion and dispatch.
LEMMA PagingNotifyKeeps ==
    ASSUME Known, NEW p \in PagingWorkers, PagingNotify(p)
    PROVE  EInv'
<1>1. /\ At(p, "PagingNotify") /\ Goto(p, "PagingLeave") /\ loc' = loc /\ FaultStays
      /\ UNCHANGED <<CpuQueue, RenderPacket, G4Pending, Platform, RenderDpcFence,
                     DispatchedFence, FenceQueue, QueuedFence, ActiveFence, Preemption>>
      /\ DpcQueued' = TRUE
    BY DEF PagingNotify, renderVars, schedulerVars, FaultStays
<1>2. /\ Paging'.Pending = Paging.Pending /\ Paging'.Fence = Paging.Fence
      /\ Paging'.WorkQueued = Paging.WorkQueued /\ Paging'.Ok = Paging.Ok
      /\ Paging'.DpcPending = TRUE
    BY DEF PagingNotify, Known, IInv, Records, PagingFields
<1>3. p \in Threads /\ p # D /\ p # V /\ "PagingNotify" \in Label /\ "PagingLeave" \in Label
    BY ThreadFacts DEF Label, PagingLabels
<1>4. Went(p, "PagingNotify", "PagingLeave")
    BY <1>1, <1>3, WentGoto DEF Known
<1>5. "PagingNotify" \notin EngineMarks /\ "PagingLeave" \notin EngineMarks
    BY DEF EngineMarks, QuiescingLabels, QuiesceLabels, CompleteLabels, ClearingLabels, RunLabels,
           ExecutorLabels, BeforeTake
<1>6. EngineInv'
  <2>1. EngineUntouched(p)
    BY <1>1, <1>2 DEF EngineUntouched
  <2> QED BY <1>1, <1>3, <1>4, <1>5, <2>1, EngineStays DEF Known, EInv
<1>7. QueueInv'
    BY <1>1, <1>3, <1>4, Parts, QueueStays DEF Known, EInv, ClearingLabels
<1>8. TokenInv'
    BY <1>1, <1>2 DEF TokenInv
<1>9. Awake'
    BY <1>1 DEF Awake
<1> QED BY <1>6, <1>7, <1>8, <1>9 DEF EInv, WakeInv

-----------------------------------------------------------------------------
(* The DPC.                                                                *)

\* Before it takes a completion the DPC holds none.
LEMMA NothingTaken ==
    ASSUME Known, Lab(D) \in BeforeTake \cup {""}
    PROVE  loc[D].Job = NoFence
<1>1. Lab(D) \notin {"TestUnreported", "ReleaseReserved"}
    BY DEF BeforeTake
<1>2. ~Frame(pc[D], DispatchFrame, <<"ReleaseReserved">>)
  <2>1. Frame(pc[D], DispatchFrame, <<"ReleaseReserved">>) => Lab(D) \in DispatchFrame
    BY DEF Frame, Lab, Top
  <2>2. \A label \in BeforeTake \cup {""} : label \notin DispatchFrame
    BY DispatchSteps DEF BeforeTake
  <2> QED BY <2>1, <2>2
<1> QED BY <1>1, <1>2, Parts DEF DpcReleases

\* Where everybody else is while the DPC moves.
LEMMA DpcAlone ==
    ASSUME NEW from, NEW to, Went(D, from, to)
    PROVE  /\ \A u \in RenderWorkers \cup {V} : Lab(u)' = Lab(u) /\ loc'[u] = loc[u]
           /\ \A p \in PagingWorkers : Lab(p)' = Lab(p)
<1>1. ASSUME NEW u \in Threads, u # D PROVE Lab(u)' = Lab(u) /\ loc'[u] = loc[u]
    BY <1>1, OthersStay
<1> QED BY <1>1, ThreadFacts

\* Until it takes the render's completion the DPC changes nothing of the
\* reservation and is going to dispatch.
LEMMA DpcKeeps ==
    ASSUME Known, NEW from \in BeforeTake \cup {""}, NEW to \in BeforeTake, Went(D, from, to),
           loc'[D].Job = loc[D].Job, FaultStays, TokenInv',
           DpcQueued' = DpcQueued \/ from = "",
           UNCHANGED <<FenceQueue, QueuedFence, ActiveFence, CpuQueue, DispatchedFence,
                       RenderPacket, G4Pending, Platform, RenderDpcFence>>,
           Paging'.Fence = Paging.Fence, Paging'.Ok = Paging.Ok,
           Paging'.WorkQueued = Paging.WorkQueued
    PROVE  EInv'
<1>1. D \in Threads /\ D # V /\ D \notin RenderWorkers
    BY ThreadFacts
<1>2. /\ from \notin ExecutorLabels \cup {"PagingRun", "Report", "QueuePacket"}
      /\ to \notin {"Report", "QueuePacket"}
    BY DEF BeforeTake, ExecutorLabels
<1>3. Lab(D) = from /\ Lab(D)' = to
    BY DEF Went
<1>4. FaultInv'
    BY <1>1, Parts, FaultKept
<1>5. ActiveHeld'
    BY <1>1, Parts, ActiveKept
<1>6. PICK f : f = DispatchedFence /\ f = DispatchedFence'
    OBVIOUS
<1>7. CpuHas(f) => CpuHas(f)'
    BY <1>1, <1>2, CpuHasKept
<1>8. Waiting(f) => Waiting(f)'
    BY <1>1, <1>2, WaitingKept
<1>9. ReportOnItsWay(f) => ReportOnItsWay(f)'
  <2>1. CASE from = ""
    <3>1. \A u \in RenderWorkers \cup {V} : Reporter(u, f) => Reporter(u, f)'
      BY DpcAlone DEF Reporter
    <3> QED BY <1>3, <3>1 DEF ReportOnItsWay
  <2>2. CASE from # ""
    <3>1. DpcQueued' = DpcQueued /\ from # "Report" /\ from \in BeforeTake
      BY <1>2, <2>2
    <3> QED BY <1>1, <3>1, ReportKept
  <2> QED BY <2>1, <2>2
<1>10. RunningJob(f) => RunningJob(f)'
    BY DEF RunningJob
<1>11. ReservedInv'
    BY <1>6, <1>7, <1>8, <1>9, <1>10, Parts, ReservedKept
<1>12. OneReport'
    BY <1>1, <1>2, <1>6, <1>7, <1>8, Parts, OneReportKept
<1>13. DpcReleases'
    BY <1>3, NothingTaken DEF DpcReleases
<1>14. BindInv'
    BY <1>1, <1>2, Parts, BindKept DEF ExecutorLabels
<1>15. Agreeing' => QueuesAgree'
    BY <1>1, Parts, AgreeingBefore, AgreeKept
<1>16. Awake'
    BY <1>3 DEF Awake, DpcAwake, DpcLabels, BeforeTake
<1> QED BY <1>4, <1>5, <1>11, <1>12, <1>13, <1>14, <1>15, <1>16, Together

\* A jump of the DPC.
LEMMA DpcGoto ==
    ASSUME Known, NEW from \in BeforeTake, NEW to \in BeforeTake \cup {"TestUnreported"},
           At(D, from), Goto(D, to), \A u \in Threads \ {D} : loc'[u] = loc[u]
    PROVE  Went(D, from, to)
<1>1. /\ from # "" /\ to # "" /\ to \in Label
    BY DEF BeforeTake, Label, DpcLabels
<1> QED BY <1>1, ThreadFacts, WentGoto DEF Known

\* The DPC starts: DpcQueued goes, the DPC itself is awake.
LEMMA DpcStartKeeps ==
    ASSUME Known, DpcStart
    PROVE  EInv'
<1>1. /\ Enter(D, "PagingDpc") /\ loc' = loc /\ FaultStays /\ Paging' = Paging
      /\ UNCHANGED <<FenceQueue, QueuedFence, ActiveFence, CpuQueue, DispatchedFence,
                     RenderPacket, G4Pending, Platform, RenderDpcFence>>
    BY DEF DpcStart, schedulerVars, cpuVars, renderVars, FaultStays
<1>2. Went(D, "", "PagingDpc")
  <2>1. "PagingDpc" \in Label
    BY DEF Label, DpcLabels
  <2> QED BY <1>1, <2>1, ThreadFacts, WentEnter DEF Known
<1>3. TokenInv'
  <2>1. \A p \in PagingWorkers : Executing(p) => Executing(p)'
    BY <1>2, DpcAlone DEF Executing
  <2>2. ~DpcTook /\ Lab(D)' = "PagingDpc"
    BY <1>2 DEF DpcTook, Went
  <2> QED BY <1>1, <2>1, <2>2, Parts DEF TokenInv
<1> QED BY <1>1, <1>2, <1>3, DpcKeeps DEF BeforeTake

\* The CPU packet's completion is taken ...
LEMMA PagingDpcTakeKeeps ==
    ASSUME Known, PagingDpcTake
    PROVE  EInv'
<1>1. /\ At(D, "PagingDpc") /\ loc' = loc /\ FaultStays
      /\ UNCHANGED <<FenceQueue, QueuedFence, ActiveFence, CpuQueue, DispatchedFence,
                     RenderPacket, G4Pending, Platform, RenderDpcFence, DpcQueued>>
    BY DEF PagingDpcTake, schedulerVars, renderVars, osVars, FaultStays
<1>2. /\ Paging'.Pending = Paging.Pending /\ Paging'.Fence = Paging.Fence
      /\ Paging'.WorkQueued = Paging.WorkQueued /\ Paging'.Ok = Paging.Ok
      /\ Paging'.DpcPending = FALSE
    BY DEF PagingDpcTake, Known, IInv, Records, PagingFields
<1>3. PICK to \in {"PagingDpcEnter", "NotifyDpc"} :
        Goto(D, to) /\ (Paging.DpcPending => to = "PagingDpcEnter")
    BY DEF PagingDpcTake
<1>4. Went(D, "PagingDpc", to)
    BY <1>1, <1>3, DpcGoto DEF BeforeTake
<1>5. TokenInv'
  <2>1. \A p \in PagingWorkers : Executing(p) => Executing(p)'
    BY <1>4, DpcAlone DEF Executing
  <2>2. ~DpcTook /\ Lab(D)' = to
    BY <1>4 DEF DpcTook, Went
  <2>3. Paging.DpcPending => DpcTook'
    BY <1>3, <2>2 DEF DpcTook
  <2> QED BY <1>2, <2>1, <2>2, <2>3, Parts DEF TokenInv
<1> QED BY <1>1, <1>2, <1>3, <1>4, <1>5, DpcKeeps DEF BeforeTake

\* ... counted ...
LEMMA PagingDpcEnterKeeps ==
    ASSUME Known, PagingDpcEnter
    PROVE  EInv'
<1>1. /\ At(D, "PagingDpcEnter") /\ Goto(D, "PagingDpcRetire") /\ loc' = loc /\ FaultStays
      /\ Paging' = Paging
      /\ UNCHANGED <<FenceQueue, QueuedFence, ActiveFence, CpuQueue, DispatchedFence,
                     RenderPacket, G4Pending, Platform, RenderDpcFence, DpcQueued>>
    BY DEF PagingDpcEnter, schedulerVars, cpuVars, renderVars, osVars, FaultStays
<1>2. Went(D, "PagingDpcEnter", "PagingDpcRetire")
    BY <1>1, DpcGoto DEF BeforeTake
<1>3. TokenInv'
  <2>1. DpcTook /\ DpcTook'
    BY <1>2 DEF DpcTook, Went
  <2> QED BY <1>1, <2>1, Parts DEF TokenInv, PagingToken
<1> QED BY <1>1, <1>2, <1>3, DpcKeeps DEF BeforeTake

\* ... and the packet retired.
LEMMA PagingDpcRetireKeeps ==
    ASSUME Known, PagingDpcRetire
    PROVE  EInv'
<1>1. /\ At(D, "PagingDpcRetire") /\ Goto(D, "PagingDpcLeave") /\ loc' = loc /\ FaultStays
      /\ UNCHANGED <<FenceQueue, QueuedFence, ActiveFence, CpuQueue, DispatchedFence,
                     RenderPacket, G4Pending, Platform, RenderDpcFence, DpcQueued>>
    BY DEF PagingDpcRetire, schedulerVars, renderVars, osVars, FaultStays
<1>2. /\ Paging'.Pending = FALSE /\ Paging'.Fence = Paging.Fence
      /\ Paging'.WorkQueued = Paging.WorkQueued /\ Paging'.Ok = Paging.Ok
      /\ Paging'.DpcPending = Paging.DpcPending
    BY DEF PagingDpcRetire, Known, IInv, Records, PagingFields
<1>3. Went(D, "PagingDpcRetire", "PagingDpcLeave")
    BY <1>1, DpcGoto DEF BeforeTake
<1>4. TokenInv'
  <2>1. DpcTook
    BY <1>3 DEF DpcTook, Went
  <2> QED BY <1>2, <2>1, Parts DEF TokenInv, PagingToken
<1> QED BY <1>1, <1>2, <1>3, <1>4, DpcKeeps DEF BeforeTake

\* The DPC leaves the CPU executor alone from here on.
LEMMA DpcToken ==
    ASSUME Known, NEW from \in BeforeTake \ TokenLabels, NEW to, Went(D, from, to),
           Paging' = Paging, DpcQueued' = DpcQueued
    PROVE  TokenInv'
    BY Parts, ThreadFacts, TokenKept

\* The part of the DPC for the CPU packet leaves.
LEMMA PagingDpcLeaveKeeps ==
    ASSUME Known, PagingDpcLeave
    PROVE  EInv'
<1>1. /\ At(D, "PagingDpcLeave") /\ Goto(D, "NotifyDpc") /\ loc' = loc /\ FaultStays
      /\ Paging' = Paging
      /\ UNCHANGED <<FenceQueue, QueuedFence, ActiveFence, CpuQueue, DispatchedFence,
                     RenderPacket, G4Pending, Platform, RenderDpcFence, DpcQueued>>
    BY DEF PagingDpcLeave, schedulerVars, renderVars, osVars, FaultStays
<1>2. Went(D, "PagingDpcLeave", "NotifyDpc")
    BY <1>1, DpcGoto DEF BeforeTake
<1>3. TokenInv'
    BY <1>1, <1>2, DpcToken DEF BeforeTake, TokenLabels
<1> QED BY <1>1, <1>2, <1>3, DpcKeeps DEF BeforeTake

\* The DPC tells VidSch what the interrupts reported (DxgkCbNotifyDpc).
LEMMA NotifyDpcKeeps ==
    ASSUME Known, NotifyDpc
    PROVE  EInv'
<1>1. /\ At(D, "NotifyDpc") /\ Goto(D, "SchedulerDpc") /\ loc' = loc /\ FaultStays
      /\ Paging' = Paging
      /\ UNCHANGED <<FenceQueue, QueuedFence, ActiveFence, CpuQueue, DispatchedFence,
                     RenderPacket, G4Pending, Platform, RenderDpcFence, DpcQueued>>
    BY DEF NotifyDpc, schedulerVars, cpuVars, renderVars, FaultStays
<1>2. Went(D, "NotifyDpc", "SchedulerDpc")
    BY <1>1, DpcGoto DEF BeforeTake
<1>3. TokenInv'
    BY <1>1, <1>2, DpcToken DEF BeforeTake, TokenLabels
<1> QED BY <1>1, <1>2, <1>3, DpcKeeps DEF BeforeTake

\* AdmissionSchedulerDpc reads the reservation ...
LEMMA SchedulerDpcReadKeeps ==
    ASSUME Known, SchedulerDpcRead
    PROVE  EInv'
<1>1. /\ At(D, "SchedulerDpc") /\ Goto(D, "TakeRenderFence") /\ FaultStays /\ Paging' = Paging
      /\ UNCHANGED <<FenceQueue, QueuedFence, ActiveFence, CpuQueue, DispatchedFence,
                     RenderPacket, G4Pending, Platform, RenderDpcFence, DpcQueued>>
    BY DEF SchedulerDpcRead, schedulerVars, cpuVars, renderVars, osVars, FaultStays
<1>2. KeepsJob(loc', D)
    BY ThreadFacts, Locals DEF SchedulerDpcRead, Known
<1>3. Went(D, "SchedulerDpc", "TakeRenderFence")
    BY <1>1, <1>2, DpcGoto DEF BeforeTake, KeepsJob
<1>4. TokenInv'
    BY <1>1, <1>3, DpcToken DEF BeforeTake, TokenLabels
<1> QED BY <1>1, <1>2, <1>3, <1>4, DpcKeeps DEF BeforeTake, KeepsJob

\* ... takes the render's completion ...
LEMMA SchedulerDpcTakeKeeps ==
    ASSUME Known, SchedulerDpcTake
    PROVE  EInv'
<1>1. /\ At(D, "TakeRenderFence") /\ Goto(D, "TestUnreported") /\ FaultStays
      /\ loc' = [loc EXCEPT ![D].Job = RenderDpcFence] /\ RenderDpcFence' = NoFence
      /\ UNCHANGED <<FenceQueue, QueuedFence, ActiveFence, Preemption, CpuQueue, Paging,
                     DispatchedFence, RenderPacket, G4Pending, Platform, DpcQueued>>
    BY DEF SchedulerDpcTake, schedulerVars, cpuVars, osVars, FaultStays
<1>2. D \in Threads /\ D # V /\ D \notin RenderWorkers
    BY ThreadFacts
<1>3. loc'[D].Job = RenderDpcFence /\ \A u \in Threads \ {D} : loc'[u] = loc[u]
    BY <1>1, <1>2 DEF Known, IInv, Records, LocalFields
<1>4. Went(D, "TakeRenderFence", "TestUnreported")
    BY <1>1, <1>3, DpcGoto DEF BeforeTake
<1>5. Lab(D) = "TakeRenderFence" /\ Lab(D)' = "TestUnreported"
    BY <1>4 DEF Went
<1>6. FaultInv'
    BY <1>1, <1>2, <1>4, Parts, FaultKept
<1>7. ActiveHeld'
    BY <1>1, <1>2, <1>4, Parts, ActiveKept
<1>8. PICK f : f = DispatchedFence /\ f = DispatchedFence'
    BY <1>1
<1>9. CpuHas(f) => CpuHas(f)'
    BY <1>1, <1>2, <1>4, CpuHasKept
<1>10. Waiting(f) => Waiting(f)'
    BY <1>1, <1>2, <1>4, WaitingKept DEF ExecutorLabels
<1>11. f # NoFence /\ ReportOnItsWay(f) => ReportOnItsWay(f)'
  <2>1. \A u \in RenderWorkers \cup {V} : Reporter(u, f) => Reporter(u, f)'
    BY <1>4, DpcAlone DEF Reporter
  <2>2. loc[D].Job = NoFence
    BY <1>5, NothingTaken DEF BeforeTake
  <2> QED BY <1>3, <2>1, <2>2 DEF ReportOnItsWay
<1>12. RunningJob(f) => RunningJob(f)'
    BY <1>1 DEF RunningJob
<1>13. ReservedInv'
    BY <1>1, <1>8, <1>9, <1>10, <1>11, <1>12, Parts, ReservedKept
<1>14. OneReport'
    BY <1>1, <1>2, <1>4, <1>8, <1>9, <1>10, Parts, OneReportKept
<1>15. DpcReleases'
    BY <1>5 DEF DpcReleases
<1>16. BindInv'
    BY <1>1, <1>2, <1>4, Parts, BindKept
<1>17. Agreeing' => QueuesAgree'
    BY <1>1, <1>2, <1>4, Parts, AgreeingBefore, AgreeKept
<1>18. TokenInv'
    BY <1>1, <1>2, <1>4, Parts, TokenKept DEF TokenLabels
<1>19. Awake'
    BY <1>5 DEF Awake, DpcAwake, DpcLabels
<1> QED BY <1>6, <1>7, <1>13, <1>14, <1>15, <1>16, <1>17, <1>18, <1>19, Together

\* ... delivers a preemption that has nothing left to wait for ...
LEMMA SchedulerDpcTryKeeps ==
    ASSUME Known, SchedulerDpcTry
    PROVE  EInv'
<1>1. /\ At(D, "TestUnreported") /\ loc' = loc /\ FaultStays
      /\ Call(D, "TryNotify", "ReleaseReserved") \/ Goto(D, "ReleaseReserved")
    BY DEF SchedulerDpcTry, FaultStays
<1>2. /\ D \in Threads /\ {"TestUnreported", "ReleaseReserved"} \subseteq DpcLabels
      /\ "TryNotify" \in DispatchFrame
      /\ {"TestUnreported", "ReleaseReserved", "TryNotify"} \subseteq Label
    BY ThreadFacts, DispatchSteps DEF DpcLabels, Label, NotifyLabels
<1>3. Untouched(D)
    BY NothingTouched DEF SchedulerDpcTry, osVars
<1>4. "TestUnreported" \notin QuietMarks
    BY DEF QuietMarks, EngineMarks, QuiescingLabels, QuiesceLabels, CompleteLabels, ClearingLabels,
           RunLabels, ExecutorLabels, BeforeTake, TokenLabels
<1>5. CASE Goto(D, "ReleaseReserved")
  <2>1. Went(D, "TestUnreported", "ReleaseReserved")
    BY <1>1, <1>2, <1>5, WentGoto DEF Known
  <2>2. Lab(D)' = "ReleaseReserved"
    BY <2>1 DEF Went
  <2>3. DpcStays
    BY <1>1, <1>2, <2>2 DEF DpcStays, DpcReleases, DpcAwake
  <2> QED BY <1>1, <1>2, <1>3, <1>4, <2>1, <2>3, Quiet, Stays DEF QuietLabels, WakeLabels
<1>6. CASE Call(D, "TryNotify", "ReleaseReserved")
  <2>1. Went(D, "TestUnreported", "TryNotify")
    BY <1>1, <1>2, <1>6, WentCall DEF Known
  <2>2. Frame(pc'[D], DispatchFrame, <<"ReleaseReserved">>)
    <3>1. /\ pc[D] # <<>> /\ Head(pc[D]) = "TestUnreported" /\ Controlled(pc)
          /\ pc' = [pc EXCEPT ![D] = <<"TryNotify", "ReleaseReserved">> \o Tail(pc[D])]
      BY <1>1, <1>6 DEF At, Call, Known, IInv, Control
    <3>2. Tail(pc[D]) = <<>>
      <4>1. StackOK(D, pc[D])
        BY <1>2, <3>1 DEF Controlled
      <4>2. "TestUnreported" \notin DispatchFrame
        BY DispatchSteps
      <4> QED BY <3>1, <4>1, <4>2, ThreadFacts DEF StackOK, Frame
    <3>3. pc'[D] = <<"TryNotify", "ReleaseReserved">>
      <4>1. <<"TryNotify", "ReleaseReserved">> \o <<>> = <<"TryNotify", "ReleaseReserved">>
        OBVIOUS
      <4>2. pc'[D] = <<"TryNotify", "ReleaseReserved">> \o Tail(pc[D])
        BY <1>2, <3>1 DEF Controlled
      <4> QED BY <3>2, <4>1, <4>2
    <3> QED BY <1>2, <3>3, Double DEF Frame
  <2>3. DpcStays
    BY <1>1, <2>2 DEF DpcStays, DpcReleases, DpcAwake
  <2> QED BY <1>1, <1>2, <1>3, <1>4, <2>1, <2>3, Quiet, Stays DEF QuietLabels, WakeLabels
<1> QED BY <1>1, <1>5, <1>6

\* ... and gives the reservation of the completed render back.
LEMMA SchedulerDpcGivesBackKeeps ==
    ASSUME Known, SchedulerDpcRelease
    PROVE  EInv'
<1>1. /\ At(D, "ReleaseReserved") /\ Goto(D, "Dispatch") /\ FaultStays
      /\ loc' = [loc EXCEPT ![D] = NoLocals]
      /\ DispatchedFence' = IF loc[D].Job # NoFence /\ DispatchedFence = loc[D].Job
                            THEN NoFence ELSE DispatchedFence
    BY DEF SchedulerDpcRelease, FaultStays
<1>u. UNCHANGED <<FenceQueue, QueuedFence, ActiveFence, Preemption, CpuQueue, Paging,
                  RenderDpcFence, RenderPacket, G4Pending, Platform, DpcQueued>>
    BY DEF SchedulerDpcRelease, schedulerVars, cpuVars, renderVars, osVars
<1>2. D \in Threads /\ D # V /\ D \notin RenderWorkers
    BY ThreadFacts
<1>3. loc'[D].Job = NoFence /\ \A u \in Threads \ {D} : loc'[u] = loc[u]
    BY <1>1, <1>u, <1>2 DEF Known, IInv, Records, NoLocals
<1>4. Went(D, "ReleaseReserved", "Dispatch")
  <2>1. "Dispatch" \in Label
    BY Quiet DEF QuietLabels
  <2> QED BY <1>1, <1>u, <1>2, <1>3, <2>1, WentGoto DEF Known
<1>5. Lab(D) = "ReleaseReserved" /\ Lab(D)' = "Dispatch"
    BY <1>4 DEF Went
<1>6. FaultInv'
    BY <1>1, <1>u, <1>2, <1>4, Parts, FaultKept
<1>7. ActiveHeld'
    BY <1>1, <1>u, <1>2, <1>4, Parts, ActiveKept
<1>8. PICK f : f = DispatchedFence
    OBVIOUS
<1>9. CpuHas(f) => CpuHas(f)'
    BY <1>1, <1>u, <1>2, <1>4, CpuHasKept
<1>10. Waiting(f) => Waiting(f)'
    BY <1>1, <1>u, <1>2, <1>4, WaitingKept DEF ExecutorLabels
<1>11. ReportOnItsWay(f) => ReportOnItsWay(f)' \/ DispatchedFence' = NoFence
  <2>1. \A u \in RenderWorkers \cup {V} : Reporter(u, f) => Reporter(u, f)'
    BY <1>4, DpcAlone DEF Reporter
  <2>2. Lab(D) \notin BeforeTake
    BY <1>5 DEF BeforeTake
  <2> QED BY <1>1, <1>u, <1>8, <2>1, <2>2 DEF ReportOnItsWay
<1>12. RunningJob(f) => RunningJob(f)'
    BY <1>u DEF RunningJob
<1>13. DispatchedFence' = NoFence \/ DispatchedFence' = f
    BY <1>1, <1>u, <1>8
<1>14. ReservedInv'
    BY <1>1, <1>u, <1>8, <1>9, <1>10, <1>11, <1>12, <1>13, Parts, ReservedKept
<1>15. OneReport'
    BY <1>1, <1>u, <1>2, <1>4, <1>8, <1>9, <1>10, <1>13, Parts, OneReportKept
<1>16. DpcReleases'
    BY <1>3 DEF DpcReleases
<1>17. BindInv'
    BY <1>1, <1>u, <1>2, <1>4, Parts, BindKept
<1>18. Agreeing' => QueuesAgree'
    BY <1>1, <1>u, <1>2, <1>4, Parts, AgreeingBefore, AgreeKept
<1>19. TokenInv'
    BY <1>1, <1>u, <1>2, <1>4, Parts, TokenKept DEF TokenLabels
<1>20. Awake'
    BY <1>2, <1>5 DEF Awake, WakeLabels
<1> QED BY <1>6, <1>7, <1>14, <1>15, <1>16, <1>17, <1>18, <1>19, <1>20, Together

-----------------------------------------------------------------------------
(* The render executor.                                                    *)

\* A step that leaves the reservation, the CPU packet and the running job
\* alone: what remains to be shown is that a waiting render keeps waiting,
\* unless the adapter is faulted, and what the step does to the queues.
LEMMA Proceeds ==
    ASSUME Known, NEW t \in Threads, t # D, NEW from, NEW to, Went(t, from, to), FaultStays,
           from \notin TokenLabels, from \notin WakeLabels, to # "Report",
           FaultInv', ActiveHeld', BindInv', Agreeing' => QueuesAgree',
           CpuReady' => CpuReady \/ Awake',
           UNCHANGED <<DispatchedFence, RenderDpcFence, Paging, ActiveFence, DpcQueued>>,
           RenderPacket'.State = "Active" <=> RenderPacket.State = "Active",
           RenderPacket.State = "Active" => RenderPacket'.Fence = RenderPacket.Fence,
           NEW f, f = DispatchedFence,
           SchedulerFaulted' \/ (f # NoFence /\ Waiting(f) => Waiting(f)')
    PROVE  EInv'
<1>0. from # "PagingRun" /\ from # "Report"
    BY DEF TokenLabels, WakeLabels
<1>1. CpuHas(f) => CpuHas(f)'
    BY <1>0, CpuHasKept
<1>2. ReportOnItsWay(f) => ReportOnItsWay(f)'
    BY <1>0, ReportKept
<1>3. RunningJob(f) => RunningJob(f)'
    BY DEF RunningJob
<1>4. ReservedInv' /\ OneReport'
  <2>1. CASE SchedulerFaulted'
    BY <2>1, Parts, FaultedReports
  <2>2. CASE f = NoFence
    BY <2>2, Parts, ReservedKept, OneReportKept
  <2>3. CASE f # NoFence /\ ~SchedulerFaulted'
    <3>1. ReservedInv'
      BY <1>1, <1>2, <1>3, <2>3, Parts, ReservedKept
    <3>2. OneReport'
      BY <1>1, <2>3, Parts, OneReportKept
    <3> QED BY <3>1, <3>2
  <2> QED BY <2>1, <2>2, <2>3
<1>5. DpcReleases'
    BY Parts, ReleaseKept
<1>6. TokenInv'
    BY Parts, TokenKept
<1>7. CpuReady' => Awake'
    BY Parts, AwakeKept
<1> QED BY <1>4, <1>5, <1>6, <1>7, Together

\* A worker at work is the only one, its work item is no longer queued, and
\* no reset polls.
LEMMA SoleWorker ==
    ASSUME Known, NEW r \in RenderWorkers, Lab(r) \in WorkingLabels
    PROVE  /\ r \in Threads /\ r # D /\ r # V /\ ~Platform.WorkQueued
           /\ \A q \in RenderWorkers : q # r => Lab(q) \notin WorkingLabels
           /\ Lab(V) \notin PollingLabels
<1>1. Lab(r) # ""
    BY DEF WorkingLabels, WorkLabels, CompleteLabels
<1> QED BY <1>1, ThreadFacts, Parts DEF WorkInv

\* It moves inside its function.
LEMMA WorkerGoto ==
    ASSUME Known, NEW r \in RenderWorkers, NEW from \in WorkLabels, NEW to \in WorkLabels,
           At(r, from), Goto(r, to), \A u \in Threads \ {r} : loc'[u] = loc[u]
    PROVE  /\ Went(r, from, to) /\ Lab(r) = from /\ Lab(r)' = to /\ Lab(r) \in WorkingLabels
           /\ from \notin TokenLabels /\ from \notin WakeLabels
<1>1. r \in Threads /\ from # "" /\ to # "" /\ to \in Label
    BY ThreadFacts, Labels DEF WorkerFrame
<1>2. Went(r, from, to)
    BY <1>1, WentGoto DEF Known
<1>3. from \notin TokenLabels /\ from \notin WakeLabels
    BY DEF WorkLabels, TokenLabels, WakeLabels
<1> QED BY <1>2, <1>3 DEF Went, WorkingLabels

\* What a worker does not do to the fault.
LEMMA WorkerFault ==
    ASSUME Known, NEW r \in RenderWorkers, NEW from, NEW to, Went(r, from, to), FaultStays,
           Platform'.Resetting = Platform.Resetting,
           QueuedFence' = QueuedFence, DispatchedFence' = DispatchedFence,
           RenderPacket'.State = "Active" => RenderPacket.State = "Active"
    PROVE  FaultInv'
    BY ThreadFacts, Parts, FaultKept

\* The work item starts: the worker is on its way to the activation.
LEMMA RenderWorkerStartKeeps ==
    ASSUME Known, NEW r \in RenderWorkers, RenderWorkerStart(r)
    PROVE  EInv'
<1>1. /\ Enter(r, "Bind") /\ loc' = loc /\ FaultStays
      /\ UNCHANGED <<FenceQueue, QueuedFence, ActiveFence, Preemption, CpuQueue, Paging,
                     DispatchedFence, RenderPacket, G4Pending, RenderDpcFence, DpcQueued>>
    BY DEF RenderWorkerStart, schedulerVars, cpuVars, osVars, FaultStays
<1>2. Platform'.Resetting = Platform.Resetting
    BY DEF RenderWorkerStart, Known, IInv, Records, PlatformFields
<1>3. r \in Threads /\ r # D /\ r # V
    BY ThreadFacts
<1>4. Went(r, "", "Bind")
  <2>1. "Bind" \in Label
    BY DEF Label, WorkerFrame, WorkLabels
  <2> QED BY <1>1, <1>3, <2>1, WentEnter DEF Known
<1>5. FaultInv'
    BY <1>1, <1>2, <1>4, WorkerFault
<1>6. ActiveHeld'
    BY <1>1, <1>3, <1>4, Parts, ActiveKept DEF RunLabels
<1>7. PICK f : f = DispatchedFence
    OBVIOUS
<1>8. Waiting(f) => Waiting(f)'
  <2>1. HeadReady(f) => HeadReady(f)'
    BY <1>1, <1>3, <1>4, ReadyKept
  <2>2. Executor(f)'
    BY <1>4 DEF Executor, Activating, Went
  <2> QED BY <1>1, <2>1, <2>2 DEF Waiting
<1>9. BindInv'
    BY <1>1, <1>3, <1>4, Parts, BindKept
<1>10. Agreeing' => QueuesAgree'
    BY <1>1, <1>3, <1>4, Parts, AgreeingBefore, AgreeKept
<1>11. CpuReady' => CpuReady
    BY <1>1, ReadyBefore DEF CpuUntouched
<1> QED BY <1>1, <1>3, <1>4, <1>5, <1>6, <1>7, <1>8, <1>9, <1>10, <1>11, Proceeds
       DEF TokenLabels, WakeLabels

-----------------------------------------------------------------------------
(* The pending ring.                                                       *)

PendingOrder ==
    \A i, j \in 1 .. Len(G4Pending) :
        i < j /\ Live(i) => G4Pending[i].Fence < G4Pending[j].Fence

\* The head of the ring.
LEMMA PendingHead ==
    ASSUME Records, G4Pending # <<>>
    PROVE  /\ G4Pending \in Seq(PendingType) /\ Len(G4Pending) \in Nat /\ Len(G4Pending) > 0
           /\ 1 \in 1 .. Len(G4Pending)
           /\ Head(G4Pending) = G4Pending[1] /\ G4Pending[1] \in PendingType
           /\ Head(G4Pending).State # "Dropped" => InPending(Head(G4Pending).Fence)
<1>1. G4Pending \in Seq(PendingType)
    BY DEF Records
<1>2. /\ Len(G4Pending) \in Nat /\ Len(G4Pending) > 0 /\ 1 \in 1 .. Len(G4Pending)
      /\ Head(G4Pending) = G4Pending[1]
    BY <1>1
<1>3. G4Pending[1] \in PendingType
    BY <1>1, <1>2, Member
<1>4. Head(G4Pending).State # "Dropped" => InPending(Head(G4Pending).Fence)
    BY <1>2 DEF InPending, Live
<1> QED BY <1>1, <1>2, <1>3, <1>4

\* Binding the head changes its state only.
LEMMA PendingBound ==
    ASSUME Records, G4Pending # <<>>, Head(G4Pending).State # "Dropped",
           G4Pending' = [G4Pending EXCEPT ![1].State = "Binding"]
    PROVE  /\ Len(G4Pending') = Len(G4Pending) /\ G4Pending' # <<>>
           /\ Head(G4Pending').State = "Binding" /\ Head(G4Pending').Fence = Head(G4Pending).Fence
           /\ \A i \in 2 .. Len(G4Pending) : G4Pending'[i] = G4Pending[i]
           /\ \A f : InPending(f)' <=> InPending(f)
           /\ PendingOrder => PendingOrder'
<1>1. /\ G4Pending \in Seq(PendingType) /\ Len(G4Pending) \in Nat /\ Len(G4Pending) > 0
      /\ 1 \in 1 .. Len(G4Pending)
      /\ Head(G4Pending) = G4Pending[1] /\ G4Pending[1] \in PendingType
    BY PendingHead
<1>2. PICK e \in PendingType : e = [G4Pending[1] EXCEPT !.State = "Binding"]
    BY <1>1 DEF PendingType
<1>3. e.State = "Binding" /\ e.Fence = G4Pending[1].Fence
    BY <1>1, <1>2 DEF PendingType
<1>4. G4Pending' = [G4Pending EXCEPT ![1] = e]
    BY <1>2
<1>5. /\ Len(G4Pending') = Len(G4Pending) /\ G4Pending' \in Seq(PendingType)
      /\ G4Pending'[1] = e
      /\ \A i \in 2 .. Len(G4Pending) : G4Pending'[i] = G4Pending[i]
    BY <1>1, <1>4
<1>6. Head(G4Pending') = e /\ G4Pending' # <<>>
    BY <1>1, <1>5
<1>7. \A i \in 1 .. Len(G4Pending) :
        G4Pending'[i].Fence = G4Pending[i].Fence /\ (Live(i)' <=> Live(i))
  <2>1. ASSUME NEW i \in 1 .. Len(G4Pending)
        PROVE  G4Pending'[i].Fence = G4Pending[i].Fence /\ (Live(i)' <=> Live(i))
    <3>1. CASE i = 1
      BY <1>1, <1>3, <1>5, <3>1 DEF Live
    <3>2. CASE i \in 2 .. Len(G4Pending)
      BY <1>5, <3>2 DEF Live
    <3> QED BY <1>1, <3>1, <3>2
  <2> QED BY <2>1
<1>8. \A f : InPending(f)' <=> InPending(f)
    BY <1>5, <1>7 DEF InPending
<1>9. PendingOrder => PendingOrder'
    BY <1>5, <1>7 DEF PendingOrder
<1> QED BY <1>1, <1>3, <1>5, <1>6, <1>8, <1>9

\* Taking the head away.
LEMMA PendingTaken ==
    ASSUME Records, PendingOrder, G4Pending # <<>>, G4Pending' = Tail(G4Pending)
    PROVE  /\ PendingOrder'
           /\ Head(G4Pending).State = "Dropped" => \A f : InPending(f)' <=> InPending(f)
           /\ Head(G4Pending).State # "Dropped" =>
                /\ \A f : InPending(f)' <=> InPending(f) /\ f # Head(G4Pending).Fence
                /\ \A f : InPending(f)' => Head(G4Pending).Fence < f
<1>1. /\ G4Pending \in Seq(PendingType) /\ Len(G4Pending) \in Nat /\ Len(G4Pending) > 0
      /\ 1 \in 1 .. Len(G4Pending) /\ Head(G4Pending) = G4Pending[1]
    BY PendingHead
<1>2. /\ Len(G4Pending') = Len(G4Pending) - 1
      /\ \A i \in 1 .. Len(G4Pending) - 1 : G4Pending'[i] = G4Pending[i + 1]
    BY <1>1
<1>3. \A i \in 1 .. Len(G4Pending) - 1 : Live(i)' <=> Live(i + 1)
    BY <1>2 DEF Live
<1>4. PendingOrder'
  <2>1. SUFFICES ASSUME NEW i \in 1 .. Len(G4Pending) - 1, NEW j \in 1 .. Len(G4Pending) - 1,
                        i < j, Live(i)'
                 PROVE  G4Pending'[i].Fence < G4Pending'[j].Fence
    BY <1>2 DEF PendingOrder
  <2>2. i + 1 \in 1 .. Len(G4Pending) /\ j + 1 \in 1 .. Len(G4Pending) /\ i + 1 < j + 1
    BY <1>1, <2>1
  <2> QED BY <1>2, <1>3, <2>1, <2>2 DEF PendingOrder
<1>5. ASSUME NEW f, InPending(f)'
      PROVE  InPending(f) /\ (Head(G4Pending).State # "Dropped" => Head(G4Pending).Fence < f)
  <2>1. PICK i \in 1 .. Len(G4Pending) - 1 : Live(i + 1) /\ G4Pending[i + 1].Fence = f
    BY <1>2, <1>3, <1>5 DEF InPending
  <2>2. i + 1 \in 1 .. Len(G4Pending) /\ 1 < i + 1
    BY <1>1
  <2> QED BY <1>1, <2>1, <2>2 DEF InPending, PendingOrder, Live
<1>6. ASSUME NEW f, InPending(f), Head(G4Pending).State = "Dropped" \/ f # Head(G4Pending).Fence
      PROVE  InPending(f)'
  <2>1. PICK i \in 1 .. Len(G4Pending) : Live(i) /\ G4Pending[i].Fence = f
    BY <1>6 DEF InPending
  <2>2. i # 1
    BY <1>1, <1>6, <2>1 DEF Live
  <2>3. i - 1 \in 1 .. Len(G4Pending) - 1 /\ (i - 1) + 1 = i
    BY <1>1, <2>2
  <2>4. Live(i - 1)' /\ G4Pending'[i - 1].Fence = f
    BY <1>2, <1>3, <2>1, <2>3
  <2> QED BY <1>2, <2>3, <2>4 DEF InPending
<1>7. \A f : InPending(f)' /\ Head(G4Pending).State # "Dropped" => f # Head(G4Pending).Fence
  <2>1. Head(G4Pending).Fence \in 1 .. MaxFence /\ MaxFence \in Nat
    BY PendingHead, WindowAssumption DEF PendingType
  <2>2. ~(Head(G4Pending).Fence < Head(G4Pending).Fence)
    BY <2>1
  <2> QED BY <1>5, <2>2
<1> QED BY <1>4, <1>5, <1>6, <1>7

-----------------------------------------------------------------------------
(* The render worker's steps.                                              *)

\* AdmissionG4PendingBindHead takes the head of the ring into the slot, or goes
\* on to activate what is in the slot.
LEMMA BindHeadKeeps ==
    ASSUME Known, NEW r \in RenderWorkers, BindHead(r)
    PROVE  EInv'
<1>1. /\ At(r, "Bind") /\ loc' = loc /\ FaultStays
      /\ UNCHANGED <<FenceQueue, QueuedFence, ActiveFence, Preemption, CpuQueue, Paging,
                     DispatchedFence, Platform, RenderDpcFence, DpcQueued>>
    BY DEF BindHead, schedulerVars, cpuVars, osVars, FaultStays
<1>2. {"Bind", "BindQueue", "Activate"} \subseteq WorkLabels
    BY DEF WorkLabels
<1>3. PICK f : f = DispatchedFence
    OBVIOUS
<1>4. CpuReady' => CpuReady
    BY <1>1, ReadyBefore DEF CpuUntouched
<1>5. CASE /\ G4Pending # <<>> /\ Head(G4Pending).State = "Queued"
           /\ RenderPacket.State = "Empty" /\ QueuedFence = Head(G4Pending).Fence
  <2>1. /\ RenderPacket' = [Head(G4Pending) EXCEPT !.State = "Prepared"]
        /\ G4Pending' = [G4Pending EXCEPT ![1].State = "Binding"]
        /\ Goto(r, "BindQueue")
    BY <1>5 DEF BindHead
  <2>2. /\ Went(r, "Bind", "BindQueue") /\ Lab(r) = "Bind" /\ Lab(r)' = "BindQueue"
        /\ Lab(r) \in WorkingLabels
    BY <1>1, <1>2, <2>1, WorkerGoto
  <2>3. r \in Threads /\ r # D /\ r # V
    BY <2>2, SoleWorker
  <2>4. RenderPacket'.State = "Prepared" /\ RenderPacket'.Fence = Head(G4Pending).Fence
    <3>1. Head(G4Pending) \in PendingType
      BY <1>5, Parts, PendingHead
    <3> QED BY <2>1, <3>1 DEF PendingType
  <2>5. /\ Len(G4Pending') = Len(G4Pending) /\ G4Pending' # <<>>
        /\ Head(G4Pending').State = "Binding" /\ Head(G4Pending').Fence = Head(G4Pending).Fence
        /\ \A i \in 2 .. Len(G4Pending) : G4Pending'[i] = G4Pending[i]
        /\ \A g : InPending(g)' <=> InPending(g)
        /\ PendingOrder => PendingOrder'
    BY <1>5, <2>1, Parts, PendingBound
  <2>6. BindingNow'
    BY <2>2 DEF BindingNow
  <2>7. FaultInv'
    BY <1>1, <2>2, <2>4, WorkerFault
  <2>8. ActiveHeld'
    BY <2>4 DEF ActiveHeld
  <2>9. Waiting(f) => Waiting(f)'
    <3>1. SUFFICES ASSUME Waiting(f) PROVE Waiting(f)'
      OBVIOUS
    <3>2. HeadReady(f)'
      BY <1>5, <2>4, <2>5, <2>6, <3>1 DEF HeadReady, Waiting
    <3>3. Executor(f)'
      BY <2>2, <2>4 DEF Executor, Activating
    <3> QED BY <1>1, <3>1, <3>2, <3>3 DEF Waiting
  <2>10. BindInv'
    <3>1. Lab(V)' # "QueuePacket"
      BY <1>5, <2>2, <2>3, OthersStay, ThreadFacts, Parts DEF BindInv
    <3> QED BY <2>4, <2>5, <2>6, <3>1, Parts DEF BindInv
  <2>11. Agreeing' => QueuesAgree'
    <3>1. SUFFICES ASSUME QueuesAgree PROVE QueuesAgree'
      BY <1>1, <2>2, <2>3, Parts, AgreeingBefore
    <3>2. \A g : (InQueue(g)' <=> InQueue(g)) /\ (InCpu(g)' <=> InCpu(g))
      BY <1>1 DEF InQueue, InCpu
    <3>3. \A g : ~InSlot(g) /\ ~InSlot(g)'
      BY <1>5, <2>4 DEF InSlot
    <3>4. \A i, j \in 1 .. Len(CpuQueue') : i < j => CpuQueue'[i].Fence < CpuQueue'[j].Fence
      BY <1>1, <3>1 DEF QueuesAgree
    <3>5. PendingOrder'
      BY <2>5, <3>1 DEF QueuesAgree, PendingOrder
    <3> QED BY <2>5, <3>1, <3>2, <3>3, <3>4, <3>5 DEF QueuesAgree, PendingOrder
  <2> QED BY <1>1, <1>3, <1>4, <1>5, <2>2, <2>3, <2>4, <2>7, <2>8, <2>9, <2>10, <2>11, Proceeds
         DEF TokenLabels, WakeLabels
<1>6. CASE ~(/\ G4Pending # <<>> /\ Head(G4Pending).State = "Queued"
             /\ RenderPacket.State = "Empty" /\ QueuedFence = Head(G4Pending).Fence)
  <2>1. Goto(r, "Activate") /\ UNCHANGED <<RenderPacket, G4Pending>>
    BY <1>6 DEF BindHead
  <2>2. /\ Went(r, "Bind", "Activate") /\ Lab(r) = "Bind" /\ Lab(r)' = "Activate"
        /\ Lab(r) \in WorkingLabels
    BY <1>1, <1>2, <2>1, WorkerGoto
  <2>3. /\ r \in Threads /\ r # D /\ r # V
        /\ \A q \in RenderWorkers : q # r => Lab(q) \notin WorkingLabels
    BY <2>2, SoleWorker
  <2>4. FaultInv'
    BY <1>1, <2>1, <2>2, WorkerFault
  <2>5. ActiveHeld'
    BY <1>1, <2>1, <2>2, <2>3, Parts, ActiveKept DEF RunLabels
  <2>6. Waiting(f) => Waiting(f)'
    <3>1. SUFFICES ASSUME Waiting(f) PROVE Waiting(f)'
      OBVIOUS
    <3>2. ~BindingNow
      BY <2>2, <2>3 DEF BindingNow, WorkingLabels, WorkLabels
    <3>3. RenderPacket.State = "Queued"
      BY <1>6, <3>1, <3>2 DEF Waiting, HeadReady
    <3>4. Executor(f)'
      BY <2>1, <2>2, <3>3 DEF Executor, Activating
    <3>5. HeadReady(f)'
      BY <2>1, <2>2, <2>3, <3>1, ReadyKept DEF Waiting
    <3> QED BY <1>1, <3>1, <3>4, <3>5 DEF Waiting
  <2>7. BindInv'
    BY <2>1, <2>2, <2>3, Parts, BindKept
  <2>8. Agreeing' => QueuesAgree'
    BY <1>1, <2>1, <2>2, <2>3, Parts, AgreeingBefore, AgreeKept
  <2> QED BY <1>1, <1>3, <1>4, <2>1, <2>2, <2>3, <2>4, <2>5, <2>6, <2>7, <2>8, Proceeds
         DEF TokenLabels, WakeLabels
<1> QED BY <1>5, <1>6

\* The worker that binds: the slot and the head of the ring are its own.
LEMMA Binder ==
    ASSUME Known, NEW r \in RenderWorkers, Lab(r) = "BindQueue"
    PROVE  /\ r \in Threads /\ r # D /\ r # V
           /\ RenderPacket.State = "Prepared" /\ G4Pending # <<>>
           /\ Head(G4Pending).State \in {"Binding", "Dropped"}
           /\ Head(G4Pending).State = "Binding" => RenderPacket.Fence = Head(G4Pending).Fence
           /\ Lab(V) # "QueuePacket"
           /\ \A q \in RenderWorkers : q # r => Lab(q) # "BindQueue"
<1>1. r \in Threads /\ r # D /\ r # V
    BY ThreadFacts
<1>2. /\ RenderPacket.State = "Prepared" /\ G4Pending # <<>>
      /\ Head(G4Pending).State \in {"Binding", "Dropped"}
      /\ \A u \in RenderWorkers \cup {V} : u # r => Lab(u) \notin {"BindQueue", "QueuePacket"}
    BY Parts DEF OwnInv
<1>3. Head(G4Pending).State = "Binding" => RenderPacket.Fence = Head(G4Pending).Fence
    BY <1>2, Parts DEF BindInv, Bound
<1> QED BY <1>1, <1>2, <1>3

\* The ring without its head has queued entries only.
LEMMA BoundGone ==
    ASSUME Known, NEW r \in RenderWorkers, NEW to \in WorkLabels, Went(r, "BindQueue", to),
           G4Pending # <<>>, Lab(V) # "QueuePacket",
           G4Pending' = Tail(G4Pending), RenderPacket'.State # "Prepared"
    PROVE  BindInv'
<1>1. r \in Threads /\ r # V
    BY ThreadFacts
<1>2. Lab(V)' # "QueuePacket"
    BY <1>1, OthersStay, ThreadFacts
<1>3. G4Pending \in Seq(PendingType) /\ Len(G4Pending) \in Nat /\ Len(G4Pending) > 0
    BY Parts, PendingHead
<1>4. /\ Len(G4Pending') = Len(G4Pending) - 1 /\ G4Pending' \in Seq(PendingType)
      /\ \A i \in 1 .. Len(G4Pending) - 1 : G4Pending'[i] = G4Pending[i + 1]
    BY <1>3
<1>5. \A i \in 1 .. Len(G4Pending') : G4Pending'[i].State = "Queued"
  <2>1. ASSUME NEW i \in 1 .. Len(G4Pending') PROVE G4Pending'[i].State = "Queued"
    <3>1. i \in 1 .. Len(G4Pending) - 1 /\ i + 1 \in 2 .. Len(G4Pending)
      BY <1>3, <1>4
    <3> QED BY <1>4, <3>1, Parts DEF BindInv
  <2> QED BY <2>1
<1>6. ~Bound'
  <2>1. SUFFICES ASSUME G4Pending' # <<>> PROVE Head(G4Pending').State = "Queued"
    BY DEF Bound
  <2>2. 1 \in 1 .. Len(G4Pending') /\ Head(G4Pending') = G4Pending'[1]
    BY <1>4, <2>1
  <2> QED BY <1>5, <2>2
<1>7. \A i \in 2 .. Len(G4Pending') : G4Pending'[i].State = "Queued"
  <2>1. \A i \in 2 .. Len(G4Pending') : i \in 1 .. Len(G4Pending')
    BY <1>3, <1>4
  <2> QED BY <1>5, <2>1
<1> QED BY <1>2, <1>6, <1>7 DEF BindInv

\* A dropped head just goes: nobody waits for it.
LEMMA DroppedKeeps ==
    ASSUME Known, NEW r \in RenderWorkers, At(r, "BindQueue"), Goto(r, "Activate"), FaultStays,
           loc' = loc, Head(G4Pending).State = "Dropped",
           RenderPacket' = EmptyPacket, G4Pending' = Tail(G4Pending),
           UNCHANGED <<FenceQueue, QueuedFence, ActiveFence, Preemption, CpuQueue, Paging,
                       DispatchedFence, Platform, RenderDpcFence, DpcQueued>>
    PROVE  EInv'
<1>1. {"BindQueue", "Activate"} \subseteq WorkLabels
    BY DEF WorkLabels
<1>2. Went(r, "BindQueue", "Activate") /\ Lab(r) = "BindQueue"
    BY <1>1, WorkerGoto
<1>3. /\ r \in Threads /\ r # D /\ r # V
      /\ RenderPacket.State = "Prepared" /\ G4Pending # <<>> /\ Lab(V) # "QueuePacket"
    BY <1>2, Binder
<1>4. RenderPacket'.State = "Empty"
    BY DEF EmptyPacket
<1>5. FaultInv'
    BY <1>2, <1>4, WorkerFault
<1>6. ActiveHeld'
    BY <1>4 DEF ActiveHeld
<1>7. PICK f : f = DispatchedFence
    OBVIOUS
<1>8. ~Waiting(f)
    BY <1>3 DEF Waiting, HeadReady
<1>9. BindInv'
    BY <1>1, <1>2, <1>3, <1>4, BoundGone
<1>10. Agreeing' => QueuesAgree'
  <2>1. SUFFICES ASSUME QueuesAgree PROVE QueuesAgree'
    BY <1>2, <1>3, Parts, AgreeingBefore DEF ClearingLabels
  <2>2. \A g : (InQueue(g)' <=> InQueue(g)) /\ (InCpu(g)' <=> InCpu(g))
    BY DEF InQueue, InCpu
  <2>3. \A g : ~InSlot(g) /\ ~InSlot(g)'
    BY <1>3, <1>4 DEF InSlot
  <2>4. \A i, j \in 1 .. Len(CpuQueue') : i < j => CpuQueue'[i].Fence < CpuQueue'[j].Fence
    BY <2>1 DEF QueuesAgree
  <2>5. PendingOrder
    BY <2>1 DEF QueuesAgree, PendingOrder
  <2>6. PendingOrder' /\ \A g : InPending(g)' <=> InPending(g)
    BY <1>3, <2>5, Parts, PendingTaken
  <2> QED BY <2>1, <2>2, <2>3, <2>4, <2>6 DEF QueuesAgree, PendingOrder
<1>11. CpuReady' => CpuReady
    BY ReadyBefore DEF CpuUntouched
<1> QED BY <1>2, <1>3, <1>4, <1>5, <1>6, <1>7, <1>8, <1>9, <1>10, <1>11, Proceeds
       DEF TokenLabels, WakeLabels

\* The bound packet moves from the ring to the slot.
LEMMA BindQueueKeeps ==
    ASSUME Known, NEW r \in RenderWorkers, BindQueue(r)
    PROVE  EInv'
<1>1. /\ At(r, "BindQueue") /\ Goto(r, "Activate") /\ loc' = loc /\ FaultStays
      /\ G4Pending' = Tail(G4Pending)
      /\ UNCHANGED <<FenceQueue, QueuedFence, ActiveFence, Preemption, CpuQueue, Paging,
                     DispatchedFence, Platform, RenderDpcFence, DpcQueued>>
    BY DEF BindQueue, schedulerVars, cpuVars, osVars, FaultStays
<1>2. {"BindQueue", "Activate"} \subseteq WorkLabels
    BY DEF WorkLabels
<1>3. Went(r, "BindQueue", "Activate") /\ Lab(r) = "BindQueue" /\ Lab(r)' = "Activate"
    BY <1>1, <1>2, WorkerGoto
<1>4. /\ r \in Threads /\ r # D /\ r # V
      /\ RenderPacket.State = "Prepared" /\ G4Pending # <<>> /\ Lab(V) # "QueuePacket"
      /\ Head(G4Pending).State \in {"Binding", "Dropped"}
      /\ Head(G4Pending).State = "Binding" => RenderPacket.Fence = Head(G4Pending).Fence
    BY <1>3, Binder
<1>5. CASE Head(G4Pending).State = "Dropped"
    BY <1>1, <1>5, DroppedKeeps DEF BindQueue
<1>6. CASE Head(G4Pending).State = "Binding"
  <2>1. RenderPacket'.State = "Queued" /\ RenderPacket'.Fence = RenderPacket.Fence
    BY <1>6 DEF BindQueue, Known, IInv, Records
  <2>2. FaultInv'
    BY <1>1, <1>3, <2>1, WorkerFault
  <2>3. ActiveHeld'
    BY <2>1 DEF ActiveHeld
  <2>4. PICK f : f = DispatchedFence
    OBVIOUS
  <2>5. Waiting(f) => Waiting(f)'
    <3>1. SUFFICES ASSUME Waiting(f) PROVE Waiting(f)'
      OBVIOUS
    <3>2. RenderPacket.Fence = f
      BY <1>4, <3>1 DEF Waiting, HeadReady
    <3>3. HeadReady(f)' /\ Executor(f)'
      BY <1>3, <2>1, <3>2 DEF HeadReady, Executor, Activating
    <3> QED BY <1>1, <3>1, <3>3 DEF Waiting
  <2>6. BindInv'
    BY <1>1, <1>2, <1>3, <1>4, <2>1, BoundGone
  <2>7. Agreeing' => QueuesAgree'
    <3>1. SUFFICES ASSUME QueuesAgree PROVE QueuesAgree'
      BY <1>1, <1>3, <1>4, Parts, AgreeingBefore DEF ClearingLabels
    <3>2. \A g : (InQueue(g)' <=> InQueue(g)) /\ (InCpu(g)' <=> InCpu(g))
      BY <1>1 DEF InQueue, InCpu
    <3>3. \A g : ~InSlot(g) /\ (InSlot(g)' <=> g = Head(G4Pending).Fence)
      BY <1>4, <1>6, <2>1 DEF InSlot
    <3>4. \A i, j \in 1 .. Len(CpuQueue') : i < j => CpuQueue'[i].Fence < CpuQueue'[j].Fence
      BY <1>1, <3>1 DEF QueuesAgree
    <3>5. PendingOrder
      BY <3>1 DEF QueuesAgree, PendingOrder
    <3>6. /\ PendingOrder'
          /\ \A g : InPending(g)' <=> InPending(g) /\ g # Head(G4Pending).Fence
          /\ \A g : InPending(g)' => Head(G4Pending).Fence < g
      BY <1>1, <1>4, <1>6, <3>5, Parts, PendingTaken
    <3>7. InPending(Head(G4Pending).Fence)
      BY <1>4, <1>6, Parts, PendingHead
    <3> QED BY <3>1, <3>2, <3>3, <3>4, <3>6, <3>7 DEF QueuesAgree, PendingOrder
  <2>8. CpuReady' => CpuReady
    BY <1>1, ReadyBefore DEF CpuUntouched
  <2> QED BY <1>1, <1>3, <1>4, <2>1, <2>2, <2>3, <2>4, <2>5, <2>6, <2>7, <2>8, Proceeds
         DEF TokenLabels, WakeLabels
<1> QED BY <1>4, <1>5, <1>6

\* While VidSch clears the fault nothing is queued, so no live entry is bound.
LEMMA NothingBound ==
    ASSUME Known, Lab(V) \in ClearingLabels, G4Pending # <<>>
    PROVE  Head(G4Pending).State = "Dropped"
<1>1. QueuesAgree /\ FenceQueue = <<>>
    BY Parts, QueueEmpty DEF Agreeing, FaultInv
<1>2. \A f : ~InQueue(f)
  <2>1. Len(FenceQueue) = 0
    BY <1>1
  <2> QED BY <2>1 DEF InQueue
<1> QED BY <1>1, <1>2, Parts, PendingHead DEF QueuesAgree

\* A packet that cannot be bound faults the adapter.
LEMMA BindFailKeeps ==
    ASSUME Known, NEW r \in RenderWorkers, BindFail(r)
    PROVE  EInv'
<1>1. /\ At(r, "BindQueue") /\ loc' = loc
      /\ RenderPacket' = EmptyPacket /\ G4Pending' = Tail(G4Pending)
      /\ UNCHANGED <<FenceQueue, QueuedFence, ActiveFence, Preemption, CpuQueue, Paging,
                     DispatchedFence, Platform, RenderDpcFence, DpcQueued>>
    BY DEF BindFail, schedulerVars, cpuVars, osVars
<1>2. CASE Head(G4Pending).State = "Dropped"
  <2>1. Goto(r, "Activate") /\ FaultStays
    BY <1>2 DEF BindFail, FaultStays
  <2> QED BY <1>1, <1>2, <2>1, DroppedKeeps
<1>3. CASE Head(G4Pending).State # "Dropped"
  <2>1. Goto(r, "Finish") /\ SchedulerFaulted' = TRUE /\ FaultStays
    BY <1>3 DEF BindFail, FaultStays
  <2>2. {"BindQueue", "Finish"} \subseteq WorkLabels
    BY DEF WorkLabels
  <2>3. Went(r, "BindQueue", "Finish") /\ Lab(r) = "BindQueue"
    BY <1>1, <2>1, <2>2, WorkerGoto
  <2>4. /\ r \in Threads /\ r # D /\ r # V
        /\ RenderPacket.State = "Prepared" /\ G4Pending # <<>> /\ Lab(V) # "QueuePacket"
    BY <2>3, Binder
  <2>5. RenderPacket'.State = "Empty"
    BY <1>1 DEF EmptyPacket
  <2>6. FaultInv'
    BY <1>1, <2>1, <2>3, <2>5, WorkerFault
  <2>7. ActiveHeld'
    BY <2>5 DEF ActiveHeld
  <2>8. BindInv'
    BY <1>1, <2>2, <2>3, <2>4, <2>5, BoundGone
  <2>9. ~Agreeing'
    <3>1. Lab(V) \notin ClearingLabels
      BY <1>3, <2>4, NothingBound
    <3>2. Lab(V)' \notin ClearingLabels
      BY <2>3, <2>4, <3>1, OthersStay, ThreadFacts
    <3> QED BY <2>1, <3>2 DEF Agreeing
  <2>10. ~CpuReady'
    BY <2>1 DEF CpuReady
  <2>11. PICK f : f = DispatchedFence
    OBVIOUS
  <2> QED BY <1>1, <2>1, <2>3, <2>4, <2>5, <2>6, <2>7, <2>8, <2>9, <2>10, <2>11, Proceeds
         DEF TokenLabels, WakeLabels
<1> QED BY <1>2, <1>3

\* There is nothing to activate, or not yet: the worker leaves, and a render
\* that waits has somebody else.
LEMMA ActivateSkipKeeps ==
    ASSUME Known, NEW r \in RenderWorkers, ActivateSkip(r)
    PROVE  EInv'
<1>1. /\ At(r, "Activate") /\ Goto(r, "Finish") /\ loc' = loc /\ FaultStays
      /\ ActivateCancelled \/ ActivateDeferred
      /\ SchedulerFaulted' = SchedulerFaulted
    BY DEF ActivateSkip, FaultStays
<1>u. UNCHANGED <<FenceQueue, QueuedFence, ActiveFence, Preemption, CpuQueue, Paging,
                  DispatchedFence, RenderPacket, G4Pending, Platform, RenderDpcFence, DpcQueued>>
    BY DEF ActivateSkip, schedulerVars, cpuVars, renderVars, osVars
<1>2. {"Activate", "Finish"} \subseteq WorkLabels
    BY DEF WorkLabels
<1>3. /\ Went(r, "Activate", "Finish") /\ Lab(r) = "Activate" /\ Lab(r)' = "Finish"
      /\ Lab(r) \in WorkingLabels
    BY <1>1, <1>2, WorkerGoto
<1>4. /\ r \in Threads /\ r # D /\ r # V /\ ~Platform.WorkQueued
      /\ \A q \in RenderWorkers : q # r => Lab(q) \notin WorkingLabels
    BY <1>3, SoleWorker
<1>5. FaultInv'
    BY <1>1, <1>u, <1>3, WorkerFault
<1>6. ActiveHeld'
    BY <1>1, <1>u, <1>3, <1>4, Parts, ActiveKept DEF RunLabels
<1>7. PICK f : f = DispatchedFence
    OBVIOUS
<1>8. SchedulerFaulted' \/ (Waiting(f) => Waiting(f)')
  <2>1. SUFFICES ASSUME ~SchedulerFaulted, Waiting(f) PROVE Waiting(f)'
    BY <1>1
  <2>2. ~Platform.Resetting
    BY <2>1, Parts DEF FaultInv
  <2>3. RenderPacket.State # "Queued"
    BY <1>1, <1>7, <2>1, <2>2 DEF ActivateCancelled, ActivateDeferred, Waiting, HeadReady
  <2>4. \A q \in RenderWorkers : ~Activating(q)
    BY <1>3, <1>4, <2>3 DEF Activating, WorkingLabels, WorkLabels
  <2>5. PICK u \in Threads : Dispatching(u, f)
    BY <1>4, <2>1, <2>4 DEF Waiting, Executor
  <2>6. Dispatching(u, f)'
    BY <1>3, <2>5, OthersStay DEF Dispatching
  <2>7. Executor(f)'
    BY <2>6 DEF Executor
  <2>8. HeadReady(f)'
    BY <1>u, <1>3, <1>4, <2>1, ReadyKept DEF Waiting
  <2> QED BY <1>u, <2>1, <2>7, <2>8 DEF Waiting
<1>9. BindInv'
    BY <1>u, <1>3, <1>4, Parts, BindKept
<1>10. Agreeing' => QueuesAgree'
    BY <1>1, <1>u, <1>3, <1>4, Parts, AgreeingBefore, AgreeKept
<1>11. CpuReady' => CpuReady
    BY <1>1, <1>u, ReadyBefore DEF CpuUntouched
<1> QED BY <1>1, <1>u, <1>3, <1>4, <1>5, <1>6, <1>7, <1>8, <1>9, <1>10, <1>11, Proceeds
       DEF TokenLabels, WakeLabels

\* The render is activated: the running job answers for the reservation.
LEMMA ActivatePacketKeeps ==
    ASSUME Known, NEW r \in RenderWorkers, ActivatePacket(r)
    PROVE  EInv'
<1>1. /\ At(r, "Activate") /\ Goto(r, "BackendSubmit") /\ FaultStays
      /\ RenderPacket.State = "Queued" /\ QueuedFence = RenderPacket.Fence
      /\ DispatchedFence' = RenderPacket.Fence
      /\ loc' = [loc EXCEPT ![r].Job = RenderPacket.Fence]
    BY DEF ActivatePacket, ActivateDeferred, FaultStays
<1>u. UNCHANGED <<CpuQueue, Paging, G4Pending, Platform, RenderDpcFence, DpcQueued,
                  SchedulerFaulted>>
    BY DEF ActivatePacket, cpuVars, osVars
<1>s. FenceQueue # <<>> /\ FenceQueue' = Tail(FenceQueue) /\ ActiveFence' = RenderPacket.Fence
    BY DEF ActivatePacket, Sched!ActivateFence, Sched!SchedActivateFence, Sched!MayActivateFence
<1>p. RenderPacket'.State = "Active" /\ RenderPacket'.Fence = RenderPacket.Fence
    BY DEF ActivatePacket, Known, IInv, Records
<1>f. QueuedFence \in 1 .. MaxFence /\ MaxFence \in Nat
    BY <1>s, WindowAssumption, Parts, QueueHead
<1>2. {"Activate", "BackendSubmit"} \subseteq WorkLabels
    BY DEF WorkLabels
<1>l. \A u \in Threads \ {r} : loc'[u] = loc[u]
  <2>1. DOMAIN loc = Threads
    BY DEF Known, IInv, Records
  <2> QED BY <1>1, <2>1
<1>3. /\ Went(r, "Activate", "BackendSubmit") /\ Lab(r) = "Activate" /\ Lab(r)' = "BackendSubmit"
      /\ Lab(r) \in WorkingLabels
    BY <1>1, <1>2, <1>l, WorkerGoto
<1>4. /\ r \in Threads /\ r # D /\ r # V
      /\ \A q \in RenderWorkers : q # r => Lab(q) \notin WorkingLabels
      /\ Lab(V) \notin PollingLabels
    BY <1>3, SoleWorker
<1>v. Lab(V)' = Lab(V)
    BY <1>3, <1>4, OthersStay, ThreadFacts
<1>5. FaultInv'
  <2>1. Lab(V) \notin ClearingLabels
    BY <1>1, <1>f, Parts DEF FaultInv, NoFence
  <2> QED BY <1>u, <1>v, <2>1, Parts DEF FaultInv
<1>6. ActiveHeld'
    BY <1>3 DEF ActiveHeld, RunLabels
<1>7. ReservedInv'
    BY <1>1, <1>p DEF ReservedInv, RunningJob
<1>8. OneReport'
  <2>1. ASSUME NEW u \in RenderWorkers \cup {V} PROVE Lab(u)' # "Report"
    <3>1. CASE u = r
      BY <1>3, <3>1
    <3>2. CASE u \in RenderWorkers /\ u # r
      <4>1. Lab(u)' = Lab(u)
        BY <1>3, <3>2, OthersStay, ThreadFacts
      <4> QED BY <1>4, <3>2, <4>1 DEF WorkingLabels, CompleteLabels
    <3>3. CASE u = V
      BY <1>v, <1>4, <3>3 DEF PollingLabels, CompleteLabels
    <3> QED BY <3>1, <3>2, <3>3
  <2> QED BY <1>1, <1>p, <2>1 DEF OneReport
<1>9. DpcReleases'
    BY <1>3, <1>4, Parts, ReleaseKept
<1>10. BindInv'
  <2>1. BindingNow => BindingNow'
    BY <1>3, OthersStay, ThreadFacts DEF BindingNow
  <2>2. Lab(V) # "QueuePacket"
    BY <1>1, Parts DEF OwnInv
  <2>3. Bound' = Bound
    BY <1>u DEF Bound
  <2> QED BY <1>u, <1>v, <1>p, <2>1, <2>2, <2>3, Parts DEF BindInv
<1>11. Agreeing' => QueuesAgree'
  <2>1. SUFFICES ASSUME QueuesAgree PROVE QueuesAgree'
    BY <1>1, <1>3, <1>4, Parts, AgreeingBefore
  <2>2. \A g : InQueue(g)' <=> InQueue(g) /\ g # QueuedFence
    BY <1>s, Parts, QueueTaken
  <2>3. \A g : (InCpu(g)' <=> InCpu(g)) /\ (InPending(g)' <=> InPending(g))
    BY <1>u DEF InCpu, InPending, Live
  <2>4. \A g : (InSlot(g) <=> g = QueuedFence) /\ ~InSlot(g)'
    BY <1>1, <1>p DEF InSlot
  <2>5. ~InCpu(QueuedFence)
    BY <2>1, <2>4 DEF QueuesAgree
  <2>6. ~InPending(QueuedFence)
    <3>1. ~(QueuedFence < QueuedFence)
      BY <1>f
    <3> QED BY <2>1, <2>4, <3>1 DEF QueuesAgree
  <2>7. /\ \A i, j \in 1 .. Len(CpuQueue') : i < j => CpuQueue'[i].Fence < CpuQueue'[j].Fence
        /\ PendingOrder'
    BY <1>u, <2>1 DEF QueuesAgree, PendingOrder, Live
  <2> QED BY <2>1, <2>2, <2>3, <2>4, <2>5, <2>6, <2>7 DEF QueuesAgree, PendingOrder
<1>12. TokenInv'
    BY <1>u, <1>3, <1>4, Parts, TokenKept DEF TokenLabels
<1>13. ~CpuReady'
    BY <1>1, <1>f DEF CpuReady, Dispatchable, NoFence
<1> QED BY <1>5, <1>6, <1>7, <1>8, <1>9, <1>10, <1>11, <1>12, <1>13, Together

\* A worker that faults the adapter, or only advances the job it runs.
LEMMA WorkerProceeds ==
    ASSUME Known, NEW r \in RenderWorkers, NEW from \in {"Activate", "BackendSubmit", "Poll"},
           NEW to, to \notin {"Report", "QueuePacket"}, Went(r, from, to), FaultStays,
           SchedulerFaulted' \/ (from # "Activate" /\ to \in RunLabels),
           Platform'.Resetting = Platform.Resetting, Platform'.WorkQueued = Platform.WorkQueued,
           UNCHANGED <<FenceQueue, QueuedFence, ActiveFence, Preemption, CpuQueue, Paging,
                       DispatchedFence, RenderPacket, G4Pending, RenderDpcFence, DpcQueued>>
    PROVE  EInv'
<1>1. r \in Threads /\ r # D /\ r # V
    BY ThreadFacts
<1>2. FaultInv'
    BY WorkerFault
<1>3. ActiveHeld'
  <2>1. CASE SchedulerFaulted'
    BY <2>1 DEF ActiveHeld
  <2>2. CASE to \in RunLabels
    BY <1>1, <2>2, Parts, ActiveKept
  <2> QED BY <2>1, <2>2
<1>4. PICK f : f = DispatchedFence
    OBVIOUS
<1>5. SchedulerFaulted' \/ (Waiting(f) => Waiting(f)')
  <2>1. CASE from # "Activate"
    BY <1>1, <2>1, WaitingKept DEF ExecutorLabels
  <2> QED BY <2>1
<1>6. BindInv'
    BY <1>1, Parts, BindKept
<1>7. Agreeing' => QueuesAgree'
    BY <1>1, Parts, AgreeingBefore, AgreeKept
<1>8. CpuReady' => CpuReady
    BY ReadyBefore DEF CpuUntouched
<1> QED BY <1>1, <1>2, <1>3, <1>4, <1>5, <1>6, <1>7, <1>8, Proceeds DEF TokenLabels, WakeLabels

\* The packet cannot be activated.
LEMMA ActivateFaultKeeps ==
    ASSUME Known, NEW r \in RenderWorkers, ActivateFault(r)
    PROVE  EInv'
<1>1. /\ At(r, "Activate") /\ Goto(r, "Finish") /\ loc' = loc /\ FaultStays
      /\ SchedulerFaulted' = TRUE
    BY DEF ActivateFault, FaultStays
<1>2. UNCHANGED <<FenceQueue, QueuedFence, ActiveFence, Preemption, CpuQueue, Paging,
                  DispatchedFence, RenderPacket, G4Pending, Platform, RenderDpcFence, DpcQueued>>
    BY DEF ActivateFault, schedulerVars, cpuVars, renderVars, osVars
<1>3. Went(r, "Activate", "Finish")
    BY <1>1, WorkerGoto DEF WorkLabels
<1> QED BY <1>1, <1>2, <1>3, WorkerProceeds

\* The job is handed to the backend ...
LEMMA BackendSubmitKeeps ==
    ASSUME Known, NEW r \in RenderWorkers, BackendSubmit(r)
    PROVE  EInv'
<1>1. At(r, "BackendSubmit") /\ Goto(r, "Poll") /\ loc' = loc /\ FaultStays
    BY DEF BackendSubmit, FaultStays
<1>2. UNCHANGED <<FenceQueue, QueuedFence, ActiveFence, Preemption, CpuQueue, Paging,
                  DispatchedFence, RenderPacket, G4Pending, RenderDpcFence, DpcQueued>>
    BY DEF BackendSubmit, schedulerVars, cpuVars, osVars
<1>3. Platform'.Resetting = Platform.Resetting /\ Platform'.WorkQueued = Platform.WorkQueued
    BY DEF BackendSubmit, Known, IInv, Records, PlatformFields
<1>4. Went(r, "BackendSubmit", "Poll")
    BY <1>1, WorkerGoto DEF WorkLabels
<1> QED BY <1>1, <1>2, <1>3, <1>4, WorkerProceeds DEF RunLabels

\* ... which may fail ...
LEMMA BackendSubmitFailKeeps ==
    ASSUME Known, NEW r \in RenderWorkers, BackendSubmitFail(r)
    PROVE  EInv'
<1>1. /\ At(r, "BackendSubmit") /\ Goto(r, "Finish") /\ loc' = loc /\ FaultStays
      /\ SchedulerFaulted' = TRUE
    BY DEF BackendSubmitFail, FaultStays
<1>2. UNCHANGED <<FenceQueue, QueuedFence, ActiveFence, Preemption, CpuQueue, Paging,
                  DispatchedFence, RenderPacket, G4Pending, RenderDpcFence, DpcQueued>>
    BY DEF BackendSubmitFail, schedulerVars, cpuVars, osVars
<1>3. Platform'.Resetting = Platform.Resetting /\ Platform'.WorkQueued = Platform.WorkQueued
  <2>1. PICK phase \in {"Ready", "Failed"} : Platform' = [Platform EXCEPT !.Phase = phase]
    BY DEF BackendSubmitFail
  <2> QED BY <2>1 DEF Known, IInv, Records, PlatformFields
<1>4. Went(r, "BackendSubmit", "Finish")
    BY <1>1, WorkerGoto DEF WorkLabels
<1> QED BY <1>1, <1>2, <1>3, <1>4, WorkerProceeds

\* ... and ends in the completion ...
LEMMA JobEndsKeeps ==
    ASSUME Known, NEW r \in RenderWorkers, JobEnds(r)
    PROVE  EInv'
<1>1. At(r, "Poll") /\ Call(r, "Complete", "Finish") /\ loc' = loc /\ FaultStays
    BY DEF JobEnds, FaultStays
<1>2. UNCHANGED <<FenceQueue, QueuedFence, ActiveFence, Preemption, CpuQueue, Paging,
                  DispatchedFence, RenderPacket, G4Pending, RenderDpcFence, DpcQueued>>
    BY DEF JobEnds, schedulerVars, cpuVars, osVars
<1>3. Platform'.Resetting = Platform.Resetting /\ Platform'.WorkQueued = Platform.WorkQueued
    BY DEF JobEnds, Known, IInv, Records, PlatformFields
<1>4. Went(r, "Poll", "Complete")
  <2>1. /\ "Poll" \in WorkerFrame /\ "Complete" \in CompleteLabels
        /\ "Complete" \in Label /\ "Finish" \in Label /\ r \in Threads
    BY ThreadFacts DEF WorkerFrame, WorkLabels, CompleteLabels, Label
  <2> QED BY <1>1, <2>1, WentCall DEF Known
<1> QED BY <1>1, <1>2, <1>3, <1>4, WorkerProceeds DEF RunLabels

\* ... or is abandoned: to a reset, which has faulted the adapter, or by a fault.
LEMMA PollAbandonKeeps ==
    ASSUME Known, NEW r \in RenderWorkers, PollAbandon(r)
    PROVE  EInv'
<1>1. /\ At(r, "Poll") /\ Goto(r, "Finish") /\ loc' = loc /\ FaultStays
      /\ SchedulerFaulted' = (SchedulerFaulted \/ ~Platform.Resetting)
    BY DEF PollAbandon, FaultStays
<1>2. UNCHANGED <<FenceQueue, QueuedFence, ActiveFence, Preemption, CpuQueue, Paging,
                  DispatchedFence, RenderPacket, G4Pending, Platform, RenderDpcFence, DpcQueued>>
    BY DEF PollAbandon, schedulerVars, cpuVars, renderVars, osVars
<1>3. SchedulerFaulted'
    BY <1>1, Parts DEF FaultInv
<1>4. Went(r, "Poll", "Finish")
    BY <1>1, WorkerGoto DEF WorkLabels
<1> QED BY <1>1, <1>2, <1>3, <1>4, WorkerProceeds

-----------------------------------------------------------------------------
(* AdmissionBackendComplete.                                               *)

\* Who completes, and how it moves.
LEMMA CompleteMoves ==
    ASSUME Known, NEW t \in Threads, NEW from \in CompleteLabels, At(t, from),
           \A u \in Threads \ {t} : loc'[u] = loc[u]
    PROVE  /\ t \in RenderWorkers \cup {V} /\ t # D /\ Lab(t) = from
           /\ \A to \in CompleteLabels : Goto(t, to) => Went(t, from, to) /\ Lab(t)' = to
           /\ Return(t) => /\ Went(t, from, Lab(t)')
                           /\ t = V => Lab(t)' = "QuiesceCheck"
                           /\ t # V => Lab(t)' = "Finish"
<1>1. Lab(t) = from /\ from # ""
    BY Labels DEF At, Lab, Top
<1>2. t \in RenderWorkers \cup {V} /\ t # D
    BY <1>1, CompleteAt, ThreadFacts DEF Known, IInv, Control, Lab
<1>3. ASSUME NEW to \in CompleteLabels, Goto(t, to) PROVE Went(t, from, to) /\ Lab(t)' = to
  <2>1. to \in Label /\ to # ""
    BY Labels
  <2>2. Went(t, from, to)
    BY <1>1, <1>3, <2>1, WentGoto DEF Known
  <2> QED BY <2>2 DEF Went
<1>4. ASSUME Return(t)
      PROVE  /\ Went(t, from, Lab(t)') /\ (t = V => Lab(t)' = "QuiesceCheck")
             /\ (t # V => Lab(t)' = "Finish")
    BY <1>1, <1>2, <1>4, WentReturn DEF Known, Popped
<1> QED BY <1>1, <1>2, <1>3, <1>4

\* One thread completes at a time.
LEMMA SoleCompleter ==
    ASSUME Known, NEW t \in RenderWorkers \cup {V}, Lab(t) \in CompleteLabels
    PROVE  \A u \in RenderWorkers \cup {V} : u # t => Lab(u) \notin CompleteLabels
<1>1. \A r \in RenderWorkers : Lab(r) \in CompleteLabels => Lab(r) \in WorkingLabels /\ Lab(r) # ""
    BY DEF WorkingLabels, CompleteLabels
<1>2. Lab(V) \in CompleteLabels => \A r \in RenderWorkers : Lab(r) = ""
    BY Parts DEF WorkInv, PollingLabels
<1>3. \A r, q \in RenderWorkers :
        Lab(r) \in CompleteLabels /\ Lab(q) \in CompleteLabels => r = q
    BY <1>1, Parts DEF WorkInv
<1> QED BY <1>1, <1>2, <1>3

\* The fault of a reset lasts as long as it quiesces.
LEMMA QuiescingKept ==
    ASSUME FaultInv, NEW t \in Threads, NEW from, NEW to, Went(t, from, to), FaultStays,
           t = V => from \in QuiescingLabels /\ to \in QuiescingLabels,
           t # V => Platform'.Resetting = Platform.Resetting,
           QueuedFence' = QueuedFence, DispatchedFence' = DispatchedFence,
           RenderPacket'.State = "Active" => RenderPacket.State = "Active"
    PROVE  FaultInv'
<1>1. CASE t = V
  <2>1. Lab(V) = from /\ Lab(V)' = to
    BY <1>1 DEF Went
  <2>2. to \notin ClearingLabels
    BY <1>1 DEF QuiescingLabels, QuiesceLabels, CompleteLabels, ClearingLabels
  <2> QED BY <1>1, <2>1, <2>2 DEF FaultInv, FaultStays
<1>2. CASE t # V
    BY <1>2, FaultKept
<1> QED BY <1>1, <1>2

\* The completion is recorded: it is on its way to the DPC.
LEMMA CompleteCommitKeeps ==
    ASSUME Known, NEW t \in Threads, CompleteCommit(t)
    PROVE  EInv'
<1>1. /\ At(t, "Complete") /\ FaultStays
      /\ UNCHANGED <<CpuQueue, Paging, DispatchedFence, G4Pending, RenderDpcFence, DpcQueued>>
    BY DEF CompleteCommit, cpuVars, osVars, FaultStays
<1>2. {"Complete", "Report"} \subseteq CompleteLabels
    BY DEF CompleteLabels
<1>c. \A label \in CompleteLabels : label \in QuiescingLabels
    BY DEF QuiescingLabels
<1>3. CASE /\ RenderPacket.State = "Active" /\ RenderPacket.Fence = loc[t].Job
           /\ Sched!RecordCompletion(loc[t].Job)
           /\ loc' = [loc EXCEPT ![t].Context = RenderPacket.Context]
           /\ RenderPacket' = EmptyPacket
           /\ Goto(t, "Report")
           /\ UNCHANGED <<Platform, SchedulerFaulted>>
  <2>1. KeepsJob(loc', t)
    BY <1>3, Locals DEF Known
  <2>2. /\ t \in RenderWorkers \cup {V} /\ t # D /\ Lab(t) = "Complete" /\ Lab(t)' = "Report"
        /\ Went(t, "Complete", "Report")
    BY <1>1, <1>2, <1>3, <2>1, CompleteMoves DEF KeepsJob
  <2>3. FenceQueue' = FenceQueue /\ QueuedFence' = QueuedFence
    BY <1>3 DEF Sched!RecordCompletion, Sched!SchedRecordCompletion
  <2>4. RenderPacket'.State = "Empty"
    BY <1>3 DEF EmptyPacket
  <2>5. FaultInv'
    BY <1>1, <1>2, <1>c, <1>3, <2>2, <2>3, <2>4, Parts, QuiescingKept
  <2>6. ActiveHeld'
    BY <2>4 DEF ActiveHeld
  <2>7. DispatchedFence' \in {NoFence, loc'[t].Job}
    BY <1>1, <1>3, <2>1, Parts DEF OneReport, KeepsJob
  <2>8. ReservedInv'
    <3>1. DispatchedFence' # NoFence => Reporter(t, DispatchedFence)'
      BY <2>2, <2>7 DEF Reporter
    <3>2. DispatchedFence' # NoFence => ReportOnItsWay(DispatchedFence)'
      BY <2>2, <3>1 DEF ReportOnItsWay
    <3> QED BY <3>2 DEF ReservedInv
  <2>9. OneReport'
    <3>1. ASSUME NEW u \in RenderWorkers \cup {V}, Lab(u)' = "Report" PROVE u = t
      <4>1. SUFFICES ASSUME u # t PROVE FALSE
        OBVIOUS
      <4>2. Lab(u) = "Report"
        BY <2>2, <3>1, <4>1, OthersStay, ThreadFacts
      <4>3. Lab(u) \notin CompleteLabels
        BY <1>2, <2>2, <4>1, SoleCompleter
      <4> QED BY <1>2, <4>2, <4>3
    <3> QED BY <2>4, <2>7, <3>1 DEF OneReport
  <2>10. DpcReleases'
    BY <2>2, Parts, ReleaseKept
  <2>11. BindInv'
    <3>1. ~BindingNow /\ Lab(V) # "QueuePacket"
      BY <1>3, Parts DEF OwnInv, BindingNow
    <3>2. Lab(V)' # "QueuePacket"
      BY <2>2, <3>1, OthersStay, ThreadFacts
    <3>3. ~Bound'
      BY <1>1, <3>1, Parts DEF BindInv, Bound
    <3> QED BY <1>1, <2>4, <3>2, <3>3, Parts DEF BindInv
  <2>12. Agreeing' => QueuesAgree'
    <3>1. Agreeing' => Agreeing
      BY <1>1, <2>2, AgreeingBefore DEF ClearingLabels
    <3> QED BY <1>1, <1>3, <2>3, <2>4, <3>1, Parts, AgreeKept
  <2>13. TokenInv'
    BY <1>1, <2>2, Parts, TokenKept DEF TokenLabels
  <2>14. Awake'
    BY <2>2 DEF Awake, WakeLabels
  <2> QED BY <2>5, <2>6, <2>8, <2>9, <2>10, <2>11, <2>12, <2>13, <2>14, Together
<1>4. CASE /\ Platform' = [Platform EXCEPT !.Phase = "Submitted"]
           /\ SchedulerFaulted' = TRUE
           /\ Return(t)
           /\ UNCHANGED <<schedulerVars, RenderPacket, loc>>
  <2>1. /\ t \in RenderWorkers \cup {V} /\ t # D /\ Lab(t) = "Complete"
        /\ Went(t, "Complete", Lab(t)')
        /\ t = V => Lab(t)' = "QuiesceCheck"
        /\ t # V => Lab(t)' = "Finish"
    BY <1>1, <1>2, <1>4, CompleteMoves
  <2>2. UNCHANGED <<FenceQueue, QueuedFence, ActiveFence, Preemption>>
    BY <1>4 DEF schedulerVars
  <2>3. Platform'.Resetting = Platform.Resetting
    BY <1>4 DEF Known, IInv, Records, PlatformFields
  <2>4. FaultInv'
    <3>1. "QuiesceCheck" \in QuiescingLabels /\ "Complete" \in QuiescingLabels
      BY DEF QuiescingLabels, QuiesceLabels, CompleteLabels
    <3> QED BY <1>1, <1>4, <2>1, <2>2, <2>3, <3>1, Parts, QuiescingKept
  <2>5. ActiveHeld'
    BY <1>4 DEF ActiveHeld
  <2>6. Lab(t)' \notin {"Report", "QueuePacket"} /\ Lab(t)' \notin ClearingLabels
    BY <2>1 DEF ClearingLabels
  <2>7. BindInv'
    BY <1>1, <1>4, <2>1, <2>6, Parts, BindKept
  <2>8. Agreeing' => QueuesAgree'
    BY <1>1, <1>4, <2>1, <2>2, <2>6, Parts, AgreeingBefore, AgreeKept
  <2>9. ~CpuReady'
    BY <1>4 DEF CpuReady
  <2>10. PICK f : f = DispatchedFence
    OBVIOUS
  <2> QED BY <1>1, <1>4, <2>1, <2>2, <2>4, <2>5, <2>6, <2>7, <2>8, <2>9, <2>10, Proceeds
         DEF TokenLabels, WakeLabels
<1> QED BY <1>3, <1>4 DEF CompleteCommit

\* The interrupt hands the completion to the DPC.
LEMMA CompleteReportKeeps ==
    ASSUME Known, NEW t \in Threads, CompleteReport(t)
    PROVE  EInv'
<1>1. /\ At(t, "Report") /\ Goto(t, "Retire") /\ FaultStays /\ loc' = loc
      /\ RenderDpcFence' = loc[t].Job /\ DpcQueued' = TRUE
      /\ SchedulerFaulted' = SchedulerFaulted
      /\ UNCHANGED <<FenceQueue, QueuedFence, ActiveFence, Preemption, CpuQueue, Paging,
                     DispatchedFence, RenderPacket, G4Pending, Platform>>
    BY DEF CompleteReport, schedulerVars, cpuVars, FaultStays
<1>2. {"Report", "Retire"} \subseteq CompleteLabels
    BY DEF CompleteLabels
<1>3. /\ t \in RenderWorkers \cup {V} /\ t # D /\ Lab(t) = "Report"
      /\ Went(t, "Report", "Retire")
    BY <1>1, <1>2, CompleteMoves
<1>4. FaultInv'
    BY <1>1, <1>2, <1>3, Parts, QuiescingKept DEF QuiescingLabels
<1>5. ActiveHeld'
    BY <1>1, <1>3, Parts, ActiveKept DEF RunLabels
<1>6. PICK f : f = DispatchedFence /\ f = DispatchedFence'
    BY <1>1
<1>7. CpuHas(f) => CpuHas(f)'
    BY <1>1, <1>3, CpuHasKept
<1>8. Waiting(f) => Waiting(f)'
    BY <1>1, <1>3, WaitingKept DEF ExecutorLabels
<1>9. ReservedInv'
  <2>1. \/ SchedulerFaulted \/ f \in {NoFence, loc[t].Job} \/ CpuHas(f) \/ Waiting(f)
    BY <1>3, <1>6, Parts DEF OneReport
  <2>2. CASE f = loc[t].Job
    <3>1. ReportOnItsWay(f)'
      BY <1>1, <2>2 DEF ReportOnItsWay
    <3> QED BY <1>6, <3>1 DEF ReservedInv
  <2> QED BY <1>1, <1>6, <1>7, <1>8, <2>1, <2>2 DEF ReservedInv
<1>10. OneReport'
    BY <1>1, <1>3, <1>6, <1>7, <1>8, Parts, OneReportKept
<1>11. DpcReleases'
    BY <1>3, Parts, ReleaseKept
<1>12. BindInv'
    BY <1>1, <1>3, Parts, BindKept
<1>13. Agreeing' => QueuesAgree'
    BY <1>1, <1>3, Parts, AgreeingBefore, AgreeKept DEF ClearingLabels
<1>14. TokenInv'
    BY <1>1, <1>3, Parts, TokenKept DEF TokenLabels
<1>15. Awake'
    BY <1>1 DEF Awake
<1> QED BY <1>4, <1>5, <1>9, <1>10, <1>11, <1>12, <1>13, <1>14, <1>15, Together

\* The context forgets the job.
LEMMA CompleteRetireKeeps ==
    ASSUME Known, NEW t \in Threads, CompleteRetire(t)
    PROVE  EInv'
<1>1. /\ At(t, "Retire") /\ Return(t) /\ FaultStays
      /\ loc' = [loc EXCEPT ![t].Context = NoContext]
    BY DEF CompleteRetire, FaultStays
<1>u. UNCHANGED <<FenceQueue, QueuedFence, ActiveFence, Preemption, CpuQueue, Paging,
                  DispatchedFence, RenderPacket, G4Pending, Platform, RenderDpcFence, DpcQueued>>
    BY DEF CompleteRetire, schedulerVars, cpuVars, renderVars, osVars
<1>2. KeepsJob(loc', t) /\ "Retire" \in CompleteLabels
    BY <1>1, Locals DEF Known, CompleteLabels
<1>3. /\ t \in RenderWorkers \cup {V} /\ t # D
      /\ Went(t, "Retire", Lab(t)')
      /\ t = V => Lab(t)' = "QuiesceCheck"
      /\ t # V => Lab(t)' = "Finish"
    BY <1>1, <1>2, CompleteMoves DEF KeepsJob
<1>4. FaultInv'
  <2>1. "QuiesceCheck" \in QuiescingLabels /\ "Retire" \in QuiescingLabels
    BY DEF QuiescingLabels, QuiesceLabels, CompleteLabels
  <2> QED BY <1>1, <1>u, <1>3, <2>1, Parts, QuiescingKept
<1>5. ActiveHeld'
    BY <1>1, <1>u, <1>3, Parts, ActiveKept DEF RunLabels
<1>6. Lab(t)' \notin {"Report", "QueuePacket"} /\ Lab(t)' \notin ClearingLabels
    BY <1>3 DEF ClearingLabels
<1>7. Agreeing' => Agreeing
    BY <1>1, <1>3, <1>6, AgreeingBefore
<1>8. Same(t)
    BY <1>u DEF Same
<1> QED BY <1>1, <1>3, <1>4, <1>5, <1>6, <1>7, <1>8, Passes
       DEF ExecutorLabels, TokenLabels, WakeLabels

-----------------------------------------------------------------------------
(* Submissions.                                                            *)

\* A fence joins the scheduler's queue behind all others.
Queues(fence) ==
    /\ fence \in 1 .. MaxFence
    /\ FenceQueue' = Append(FenceQueue, fence)
    /\ FenceQueue # <<>> => QueuedFence' = QueuedFence
    /\ \A f : InQueue(f) => f < fence
    /\ ActiveFence' = ActiveFence

\* A new fence is later than all fences submitted.
LEMMA NewQueues ==
    ASSUME Known, NEW fence \in 1 .. MaxFence, NEW paging, Sched!QueueFence(fence, paging)
    PROVE  Queues(fence)
<1>1. /\ FenceQueue' = Append(FenceQueue, fence)
      /\ QueuedFence' = IF FenceQueue = <<>> THEN fence ELSE QueuedFence
      /\ Sched!FenceAfter(fence, LastSubmittedFence)
      /\ ActiveFence' = ActiveFence
    BY DEF Sched!QueueFence, Sched!SchedQueueFence, Sched!PushFence, Sched!MayQueueFence
<1>2. LastSubmittedFence \in 0 .. MaxFence /\ MaxFence \in Nat
    BY WindowAssumption DEF Known, IInv, SchedTyped
<1>3. fence > LastSubmittedFence
    BY <1>1, <1>2, Later
<1>4. ASSUME NEW f, InQueue(f) PROVE f < fence
  <2>1. PICK i \in 1 .. Len(FenceQueue) : FenceQueue[i] = f
    BY <1>4 DEF InQueue
  <2>2. FenceQueue[i] \in 1 .. MaxFence
    BY Member, Parts DEF SchedTyped
  <2>3. FenceQueue[i] <= LastSubmittedFence
    BY Parts DEF FenceQueueInv
  <2> QED BY <1>2, <1>3, <2>1, <2>2, <2>3
<1> QED BY <1>1, <1>4 DEF Queues

\* A resubmitted one is later than all fences queued.
LEMMA OldQueues ==
    ASSUME Known, NEW fence \in Owed, Sched!QueueResubmittedPagingFence(fence)
    PROVE  Queues(fence)
<1>1. /\ FenceQueue' = Append(FenceQueue, fence)
      /\ QueuedFence' = IF FenceQueue = <<>> THEN fence ELSE QueuedFence
      /\ FenceQueue # <<>> => Sched!FenceAfter(fence, FenceQueue[Len(FenceQueue)])
      /\ ActiveFence' = ActiveFence
    BY DEF Sched!QueueResubmittedPagingFence, Sched!SchedQueueResubmittedPagingFence,
           Sched!PushFence, Sched!MayQueueResubmittedPagingFence
<1>2. /\ fence \in 1 .. MaxFence /\ MaxFence \in Nat
      /\ FenceQueue \in Seq(1 .. MaxFence)
    BY WindowAssumption DEF Known, IInv, SchedTyped
<1>3. ASSUME NEW f, InQueue(f) PROVE f < fence
  <2>1. PICK i \in 1 .. Len(FenceQueue) : FenceQueue[i] = f
    BY <1>3 DEF InQueue
  <2>2. /\ FenceQueue # <<>> /\ FenceQueue[i] \in 1 .. MaxFence
        /\ Len(FenceQueue) \in 1 .. Len(FenceQueue)
        /\ FenceQueue[Len(FenceQueue)] \in 1 .. MaxFence
    BY <1>2
  <2>3. fence > FenceQueue[Len(FenceQueue)]
    BY <1>1, <1>2, <2>2, Later
  <2>4. i = Len(FenceQueue) \/ FenceQueue[i] < FenceQueue[Len(FenceQueue)]
    BY <2>2, Parts DEF FenceQueueInv, Increasing
  <2> QED BY <1>2, <2>1, <2>2, <2>3, <2>4
<1> QED BY <1>1, <1>2, <1>3 DEF Queues

\* VidSch queues a fence and goes on to dispatch: what remains to be shown is
\* that the fence has a packet.
LEMMA SubmittedDispatches ==
    ASSUME Known, NEW from \in {"", "PendingPublish", "QueuePacket"}, Went(V, from, "Dispatch"),
           NEW fence, Queues(fence), BindInv', Agreeing => QueuesAgree',
           UNCHANGED <<DispatchedFence, RenderDpcFence, Paging, DpcQueued, Platform, SchedulerFaulted>>,
           RenderPacket'.State = "Active" <=> RenderPacket.State = "Active",
           RenderPacket.State = "Active" => RenderPacket'.Fence = RenderPacket.Fence,
           G4Pending # <<>> => G4Pending' # <<>> /\ Head(G4Pending') = Head(G4Pending),
           \/ RenderPacket' = RenderPacket
           \/ RenderPacket.State = "Prepared" /\ G4Pending = <<>>
    PROVE  EInv'
<1>1. V \in Threads /\ V # D /\ V \notin RenderWorkers /\ FaultStays
    BY ThreadFacts DEF FaultStays
<1>2. /\ from \notin QuiescingLabels /\ from \notin TokenLabels /\ from \notin WakeLabels
      /\ from \notin ExecutorLabels
      /\ "Dispatch" \notin QuiescingLabels \cup ClearingLabels
    BY DEF QuiescingLabels, QuiesceLabels, CompleteLabels, ClearingLabels, TokenLabels, WakeLabels,
           ExecutorLabels
<1>3. FaultInv'
    BY <1>1, <1>2, Parts, FaultKept
<1>4. ActiveHeld'
    BY <1>1, Parts, ActiveKept
<1>5. Agreeing' => QueuesAgree'
    BY <1>1, <1>2, AgreeingBefore
<1>6. Lab(V)' \in WakeLabels
    BY DEF Went, WakeLabels
<1>7. Awake'
    BY <1>1, <1>6 DEF Awake
<1>8. PICK f : f = DispatchedFence
    OBVIOUS
<1>9. f # NoFence /\ Waiting(f) => Waiting(f)'
  <2>1. SUFFICES ASSUME f # NoFence, Waiting(f) PROVE Waiting(f)'
    OBVIOUS
  <2>2. QueuedFence = f /\ HeadReady(f)
    BY <2>1 DEF Waiting
  <2>3. FenceQueue # <<>>
    BY <2>1, <2>2, Parts, QueueEmpty
  <2>4. RenderPacket' = RenderPacket
    BY <2>2 DEF HeadReady
  <2>5. QueuedFence' = QueuedFence /\ ActiveFence' = ActiveFence
    BY <2>3 DEF Queues
  <2> QED BY <1>1, <1>2, <2>1, <2>4, <2>5, WaitingKept
<1>10. ActiveFence' = ActiveFence
    BY DEF Queues
<1> QED BY <1>1, <1>2, <1>3, <1>4, <1>5, <1>7, <1>8, <1>9, <1>10, Proceeds

\* A packet joins the CPU queue with its fence.
LEMMA CpuQueueAppendKeeps ==
    ASSUME Known, NEW fence, NEW context, CpuQueueAppend(fence, context), Queues(fence)
    PROVE  EInv'
<1>1. /\ CpuQueue' = Append(CpuQueue, [Fence |-> fence, Context |-> context])
      /\ Enter(V, "Dispatch") /\ loc' = loc
      /\ UNCHANGED <<DispatchedFence, RenderPacket, G4Pending, RenderDpcFence, Paging, DpcQueued,
                     Platform, SchedulerFaulted>>
    BY DEF CpuQueueAppend, renderVars, osVars
<1>2. V \in Threads /\ "Dispatch" \in Label
    BY ThreadFacts DEF Label, DispatchLabels
<1>3. Went(V, "", "Dispatch")
    BY <1>1, <1>2, WentEnter DEF Known
<1>4. BindInv'
    BY <1>1, <1>2, <1>3, Parts, BindKept
<1>5. ASSUME Agreeing PROVE QueuesAgree'
  <2>1. QueuesAgree /\ Records /\ fence \in 1 .. MaxFence /\ MaxFence \in Nat
    BY <1>5, Parts, WindowAssumption DEF Queues
  <2>2. \A f : InQueue(f)' <=> InQueue(f) \/ f = fence
    BY Parts, QueueAdded DEF Queues
  <2>3. ~InQueue(fence)
    BY <2>1 DEF Queues
  <2>4. PICK packet : packet = [Fence |-> fence, Context |-> context]
    OBVIOUS
  <2>5. packet.Fence = fence /\ CpuQueue' = Append(CpuQueue, packet)
    BY <1>1, <2>4
  <2>6. \A i \in 1 .. Len(CpuQueue) : CpuQueue[i].Fence < fence
    <3>1. ASSUME NEW i \in 1 .. Len(CpuQueue) PROVE CpuQueue[i].Fence < fence
      <4>1. InCpu(CpuQueue[i].Fence)
        BY DEF InCpu
      <4>2. InQueue(CpuQueue[i].Fence)
        BY <2>1, <4>1 DEF QueuesAgree
      <4> QED BY <4>2 DEF Queues
    <3> QED BY <3>1
  <2>7. CpuOrder' /\ \A f : InCpu(f)' <=> InCpu(f) \/ f = fence
    <3>1. CpuOrder
      BY <2>1 DEF QueuesAgree, CpuOrder
    <3> QED BY <2>1, <2>5, <2>6, <3>1, CpuAdded
  <2>8. \A f : (InPending(f)' <=> InPending(f)) /\ (InSlot(f)' <=> InSlot(f))
    BY <1>1 DEF InPending, InSlot, Live
  <2>9. \A i, j \in 1 .. Len(G4Pending') :
          i < j /\ Live(i)' => G4Pending'[i].Fence < G4Pending'[j].Fence
    BY <1>1, <2>1 DEF QueuesAgree, Live
  <2>10. ~InPending(fence) /\ ~InSlot(fence)
    BY <2>1, <2>3 DEF QueuesAgree
  <2>11. /\ \A f : InPending(f)' => ~InCpu(f)'
         /\ \A f : InSlot(f)' => ~InCpu(f)'
         /\ \A f, g : InSlot(f)' /\ InPending(g)' => f < g
         /\ \A f : InQueue(f)' <=> InCpu(f)' \/ InPending(f)' \/ InSlot(f)'
    BY <2>1, <2>2, <2>7, <2>8, <2>10 DEF QueuesAgree
  <2> QED BY <2>7, <2>9, <2>11 DEF QueuesAgree, CpuOrder
<1> QED BY <1>1, <1>3, <1>4, <1>5, SubmittedDispatches

\* A paging packet or a touch ...
LEMMA SubmitCpuKeeps ==
    ASSUME Known, NEW kind, SubmitCpu(kind)
    PROVE  EInv'
<1>1. CpuQueueAppend(NewFence, NoContext) /\ Sched!QueueFence(NewFence, kind = "paging")
    BY DEF SubmitCpu
<1>2. NewFence \in 1 .. MaxFence
    BY WindowAssumption, Parts DEF SubmitCpu, MaySubmitNew, NewFence, SchedTyped
<1> QED BY <1>1, <1>2, NewQueues, CpuQueueAppendKeeps

\* ... a present ...
LEMMA SubmitPresentKeeps ==
    ASSUME Known, NEW c \in Contexts, SubmitPresent(c)
    PROVE  EInv'
<1>1. CpuQueueAppend(NewFence, c) /\ Sched!QueueFence(NewFence, FALSE)
    BY DEF SubmitPresent
<1>2. NewFence \in 1 .. MaxFence
    BY WindowAssumption, Parts DEF SubmitPresent, MaySubmitNew, NewFence, SchedTyped
<1> QED BY <1>1, <1>2, NewQueues, CpuQueueAppendKeeps

\* ... and a paging packet that is submitted again.
LEMMA ResubmitPagingKeeps ==
    ASSUME Known, ResubmitPaging
    PROVE  EInv'
<1>1. PICK fence \in Owed : CpuQueueAppend(fence, NoContext) /\ Sched!QueueResubmittedPagingFence(fence)
    BY DEF ResubmitPaging
<1> QED BY <1>1, OldQueues, CpuQueueAppendKeeps

\* A packet joins the pending ring.
LEMMA PendingAdded ==
    ASSUME Records, PendingOrder, NEW packet, packet.State = "Queued",
           G4Pending' = Append(G4Pending, packet),
           \A i \in 1 .. Len(G4Pending) : Live(i) => G4Pending[i].Fence < packet.Fence
    PROVE  /\ PendingOrder'
           /\ \A f : InPending(f)' <=> InPending(f) \/ f = packet.Fence
<1>1. G4Pending \in Seq(PendingType) /\ Len(G4Pending) \in Nat
    BY DEF Records
<1>n. PICK n \in Nat : n = Len(G4Pending) + 1
    BY <1>1
<1>2. /\ Len(G4Pending') = n
      /\ \A i \in 1 .. Len(G4Pending) : G4Pending'[i] = G4Pending[i]
      /\ G4Pending'[n] = packet
    BY <1>1, <1>n
<1>3. /\ \A i \in 1 .. Len(G4Pending) : Live(i)' <=> Live(i)
      /\ Live(n)'
    BY <1>2 DEF Live
<1>4. PendingOrder'
  <2>1. SUFFICES ASSUME NEW i \in 1 .. n, NEW j \in 1 .. n,
                        i < j, Live(i)'
                 PROVE  G4Pending'[i].Fence < G4Pending'[j].Fence
    BY <1>2 DEF PendingOrder
  <2>2. i \in 1 .. Len(G4Pending) /\ Live(i)
    BY <1>1, <1>n, <1>3, <2>1
  <2>3. CASE j \in 1 .. Len(G4Pending)
    BY <1>2, <2>1, <2>2, <2>3 DEF PendingOrder
  <2>4. CASE j = n
    BY <1>2, <2>2, <2>4
  <2> QED BY <1>1, <1>n, <2>3, <2>4
<1>5. ASSUME NEW f, InPending(f)' PROVE InPending(f) \/ f = packet.Fence
  <2>1. PICK i \in 1 .. n : Live(i)' /\ G4Pending'[i].Fence = f
    BY <1>2, <1>5 DEF InPending
  <2>2. CASE i \in 1 .. Len(G4Pending)
    BY <1>2, <1>3, <2>1, <2>2 DEF InPending
  <2>3. CASE i = n
    BY <1>2, <2>1, <2>3
  <2> QED BY <1>1, <1>n, <2>2, <2>3
<1>6. ASSUME NEW f, InPending(f) PROVE InPending(f)'
  <2>1. PICK i \in 1 .. Len(G4Pending) : Live(i) /\ G4Pending[i].Fence = f
    BY <1>6 DEF InPending
  <2>2. i \in 1 .. Len(G4Pending')
    BY <1>1, <1>n, <1>2
  <2> QED BY <1>2, <1>3, <2>1, <2>2 DEF InPending
<1>7. InPending(packet.Fence)'
  <2>1. n \in 1 .. Len(G4Pending')
    BY <1>1, <1>n, <1>2
  <2> QED BY <1>2, <1>3, <2>1 DEF InPending
<1> QED BY <1>4, <1>5, <1>6, <1>7

\* The entry is published with its fence, or given up.
LEMMA PendingPublishKeeps ==
    ASSUME Known, PendingPublish
    PROVE  EInv'
<1>1. /\ At(V, "PendingPublish") /\ FaultStays
      /\ UNCHANGED <<CpuQueue, Paging, DispatchedFence, RenderPacket, Platform, RenderDpcFence,
                     SchedulerFaulted, DpcQueued>>
    BY DEF PendingPublish, cpuVars, osVars, FaultStays
<1>2. CASE Reject /\ UNCHANGED <<schedulerVars, G4Pending>>
  <2>1. Untouched(V)
    BY <1>1, <1>2 DEF Untouched, EngineUntouched, CpuUntouched, schedulerVars
  <2> QED BY <1>1, <1>2, <2>1, RejectKeeps
<1>3. CASE /\ Sched!QueueFence(loc[V].Job, FALSE)
           /\ G4Pending' = Append(G4Pending, [State |-> "Queued", Fence |-> loc[V].Job,
                                              Context |-> loc[V].Context])
           /\ Goto(V, "Dispatch") /\ loc' = [loc EXCEPT ![V] = NoLocals]
  <2>1. V \in Threads /\ "Dispatch" \in Label /\ \A u \in Threads \ {V} : loc'[u] = loc[u]
    BY <1>3, ThreadFacts, Locals DEF Known, Label, DispatchLabels
  <2>2. Went(V, "PendingPublish", "Dispatch") /\ Lab(V) = "PendingPublish"
    BY <1>1, <1>3, <2>1, WentGoto DEF Known, Went
  <2>3. PICK fence : fence = loc[V].Job
    OBVIOUS
  <2>4. fence \in 1 .. MaxFence
    BY <2>2, <2>3, Parts DEF Records, SubmitLabels
  <2>5. Queues(fence)
    BY <1>3, <2>3, <2>4, NewQueues
  <2>6. PICK packet : packet = [State |-> "Queued", Fence |-> fence, Context |-> loc[V].Context]
    OBVIOUS
  <2>7. packet.State = "Queued" /\ packet.Fence = fence /\ G4Pending' = Append(G4Pending, packet)
    BY <1>3, <2>3, <2>6
  <2>8. /\ G4Pending \in Seq(PendingType) /\ G4Pending' # <<>>
        /\ G4Pending # <<>> => Head(G4Pending') = Head(G4Pending)
        /\ G4Pending = <<>> => Head(G4Pending') = packet
        /\ Len(G4Pending) \in Nat /\ Len(G4Pending') = Len(G4Pending) + 1
        /\ \A i \in 1 .. Len(G4Pending) : G4Pending'[i] = G4Pending[i]
        /\ G4Pending'[Len(G4Pending) + 1] = packet
    <3>1. G4Pending \in Seq(PendingType)
      BY Parts DEF Records
    <3> QED BY <2>7, <3>1
  <2>9. BindInv'
    <3>1. \A i \in 2 .. Len(G4Pending') : G4Pending'[i].State = "Queued"
      <4>1. ASSUME NEW i \in 2 .. Len(G4Pending') PROVE G4Pending'[i].State = "Queued"
        <5>1. CASE i = Len(G4Pending) + 1
          BY <2>7, <2>8, <5>1
        <5>2. CASE i # Len(G4Pending) + 1
          <6>1. i \in 2 .. Len(G4Pending) /\ G4Pending'[i] = G4Pending[i]
            BY <2>8, <5>2
          <6> QED BY <6>1, Parts DEF BindInv
        <5> QED BY <5>1, <5>2
      <4> QED BY <4>1
    <3>2. Bound' => Bound /\ G4Pending # <<>> /\ Head(G4Pending') = Head(G4Pending)
      BY <2>7, <2>8 DEF Bound
    <3>3. BindingNow => BindingNow'
      BY <2>1, <2>2, OthersStay, ThreadFacts DEF BindingNow
    <3>4. Lab(V)' # "QueuePacket"
      BY <2>2 DEF Went
    <3> QED BY <1>1, <2>2, <3>1, <3>2, <3>3, <3>4, Parts DEF BindInv
  <2>10. ASSUME Agreeing PROVE QueuesAgree'
    <3>1. QueuesAgree /\ Records /\ MaxFence \in Nat
      BY <2>10, Parts, WindowAssumption
    <3>2. \A f : InQueue(f)' <=> InQueue(f) \/ f = fence
      BY <2>5, Parts, QueueAdded DEF Queues
    <3>3. ~InQueue(fence) /\ \A f : InQueue(f) => f < fence
      BY <2>4, <2>5, <3>1 DEF Queues
    <3>4. \A i \in 1 .. Len(G4Pending) : Live(i) => G4Pending[i].Fence < fence
      <4>1. ASSUME NEW i \in 1 .. Len(G4Pending), Live(i) PROVE G4Pending[i].Fence < fence
        <5>1. InPending(G4Pending[i].Fence)
          BY <4>1 DEF InPending
        <5>2. InQueue(G4Pending[i].Fence)
          BY <3>1, <5>1 DEF QueuesAgree
        <5> QED BY <3>3, <5>2
      <4> QED BY <4>1
    <3>5. PendingOrder' /\ \A f : InPending(f)' <=> InPending(f) \/ f = fence
      <4>1. PendingOrder
        BY <3>1 DEF QueuesAgree, PendingOrder
      <4> QED BY <2>7, <3>1, <3>4, <4>1, PendingAdded
    <3>6. \A f : (InCpu(f)' <=> InCpu(f)) /\ (InSlot(f)' <=> InSlot(f))
      BY <1>1 DEF InCpu, InSlot
    <3>7. \A i, j \in 1 .. Len(CpuQueue') : i < j => CpuQueue'[i].Fence < CpuQueue'[j].Fence
      BY <1>1, <3>1 DEF QueuesAgree
    <3>8. ~InCpu(fence) /\ \A f : InSlot(f) => f < fence
      BY <3>1, <3>3 DEF QueuesAgree
    <3>9. /\ \A f : InPending(f)' => ~InCpu(f)'
          /\ \A f : InSlot(f)' => ~InCpu(f)'
          /\ \A f, g : InSlot(f)' /\ InPending(g)' => f < g
          /\ \A f : InQueue(f)' <=> InCpu(f)' \/ InPending(f)' \/ InSlot(f)'
      BY <3>1, <3>2, <3>5, <3>6, <3>8 DEF QueuesAgree
    <3> QED BY <3>5, <3>7, <3>9 DEF QueuesAgree, PendingOrder
  <2> QED BY <1>1, <2>2, <2>5, <2>8, <2>9, <2>10, SubmittedDispatches
<1> QED BY <1>2, <1>3 DEF PendingPublish

\* The immediate path finds the slot and the ring empty.
LEMMA PreparePacketKeeps ==
    ASSUME Known, PreparePacket
    PROVE  EInv'
<1>1. /\ At(V, "Prepare") /\ FaultStays
      /\ UNCHANGED <<FenceQueue, QueuedFence, ActiveFence, Preemption, CpuQueue, Paging,
                     DispatchedFence, G4Pending, Platform, RenderDpcFence, SchedulerFaulted, DpcQueued>>
    BY DEF PreparePacket, schedulerVars, cpuVars, osVars, FaultStays
<1>2. CASE Reject /\ RenderPacket' = RenderPacket
  <2>1. Untouched(V)
    BY <1>1, <1>2 DEF Untouched, EngineUntouched, CpuUntouched
  <2> QED BY <1>1, <1>2, <2>1, RejectKeeps
<1>3. CASE /\ RenderPacket.State = "Empty" /\ G4Pending = <<>>
           /\ RenderPacket' = [State |-> "Prepared", Fence |-> loc[V].Job, Context |-> loc[V].Context]
           /\ Goto(V, "QueuePacket") /\ loc' = loc
  <2>1. V \in Threads /\ V # D /\ "QueuePacket" \in Label
    BY ThreadFacts DEF Label, HostLabels, SubmitLabels
  <2>2. Went(V, "Prepare", "QueuePacket")
    BY <1>1, <1>3, <2>1, WentGoto DEF Known
  <2>3. RenderPacket'.State = "Prepared" /\ RenderPacket'.Fence = loc'[V].Job
    BY <1>3
  <2>4. FaultInv'
    BY <1>1, <2>1, <2>2, <2>3, Parts, FaultKept
       DEF QuiescingLabels, QuiesceLabels, CompleteLabels, ClearingLabels
  <2>5. ActiveHeld'
    BY <2>3 DEF ActiveHeld
  <2>6. BindInv'
    <3>1. Lab(V)' = "QueuePacket"
      BY <2>2 DEF Went
    <3>2. \A i \in 2 .. Len(<<>>) : G4Pending'[i].State = "Queued"
      OBVIOUS
    <3> QED BY <1>1, <1>3, <2>3, <3>1, <3>2 DEF BindInv, Bound
  <2>7. Agreeing' => QueuesAgree'
    BY <1>1, <1>3, <2>1, <2>2, <2>3, Parts, AgreeingBefore, AgreeKept DEF ClearingLabels
  <2>8. CpuReady' => CpuReady
    BY <1>1, ReadyBefore DEF CpuUntouched
  <2>9. PICK f : f = DispatchedFence
    OBVIOUS
  <2>10. ~Waiting(f)
    BY <1>3 DEF Waiting, HeadReady
  <2> QED BY <1>1, <1>3, <2>1, <2>2, <2>3, <2>4, <2>5, <2>6, <2>7, <2>8, <2>9, <2>10, Proceeds
         DEF TokenLabels, WakeLabels
<1> QED BY <1>2, <1>3 DEF PreparePacket

\* At QueuePacket VidSch alone is binding, and the ring is empty.
LEMMA Immediate ==
    ASSUME Known, At(V, "QueuePacket")
    PROVE  /\ V \in Threads /\ V # D /\ Lab(V) = "QueuePacket"
           /\ RenderPacket.State = "Prepared" /\ RenderPacket.Fence = loc[V].Job
           /\ G4Pending = <<>> /\ ~BindingNow /\ loc[V].Job \in 1 .. MaxFence
<1>1. V \in Threads /\ V # D /\ V \notin RenderWorkers /\ Lab(V) = "QueuePacket"
    BY ThreadFacts DEF At, Lab, Top
<1>2. loc[V].Job \in 1 .. MaxFence
    BY <1>1, Parts DEF Records, SubmitLabels
<1>3. RenderPacket.State = "Prepared" /\ ~BindingNow
    BY <1>1, Parts DEF OwnInv, BindingNow
<1>4. G4Pending = <<>> /\ RenderPacket.Fence = loc[V].Job
    BY <1>1, Parts DEF BindInv
<1> QED BY <1>1, <1>2, <1>3, <1>4

\* It queues the packet with its fence ...
LEMMA QueuePacketKeeps ==
    ASSUME Known, QueuePacket
    PROVE  EInv'
<1>1. /\ At(V, "QueuePacket") /\ Goto(V, "Dispatch") /\ loc' = [loc EXCEPT ![V] = NoLocals]
      /\ Sched!QueueFence(loc[V].Job, FALSE)
      /\ RenderPacket' = [RenderPacket EXCEPT !.State = "Queued"]
      /\ UNCHANGED <<CpuQueue, Paging, DispatchedFence, G4Pending, Platform, RenderDpcFence,
                     SchedulerFaulted, DpcQueued>>
    BY DEF QueuePacket, cpuVars, osVars
<1>2. /\ V \in Threads /\ V # D /\ Lab(V) = "QueuePacket"
      /\ RenderPacket.State = "Prepared" /\ RenderPacket.Fence = loc[V].Job
      /\ G4Pending = <<>> /\ ~BindingNow /\ loc[V].Job \in 1 .. MaxFence
    BY <1>1, Immediate
<1>3. "Dispatch" \in Label /\ \A u \in Threads \ {V} : loc'[u] = loc[u]
    BY <1>1, <1>2, Locals DEF Known, Label, DispatchLabels
<1>4. Went(V, "QueuePacket", "Dispatch")
    BY <1>1, <1>2, <1>3, WentGoto DEF Known
<1>5. PICK fence : fence = loc[V].Job
    OBVIOUS
<1>6. Queues(fence)
    BY <1>1, <1>2, <1>5, NewQueues
<1>7. RenderPacket'.State = "Queued" /\ RenderPacket'.Fence = fence
    BY <1>1, <1>2, <1>5, Parts DEF Records
<1>8. BindInv'
  <2>1. Lab(V)' # "QueuePacket"
    BY <1>4 DEF Went
  <2>2. \A i \in 2 .. Len(<<>>) : G4Pending'[i].State = "Queued"
    OBVIOUS
  <2> QED BY <1>1, <1>2, <1>7, <2>1, <2>2 DEF BindInv, Bound
<1>9. ASSUME Agreeing PROVE QueuesAgree'
  <2>1. QueuesAgree /\ MaxFence \in Nat /\ fence \in 1 .. MaxFence
    BY <1>2, <1>5, <1>9, Parts, WindowAssumption
  <2>2. \A f : InQueue(f)' <=> InQueue(f) \/ f = fence
    BY <1>6, Parts, QueueAdded DEF Queues
  <2>3. ~InQueue(fence)
    BY <1>6, <2>1 DEF Queues
  <2>4. \A f : /\ InCpu(f)' <=> InCpu(f)
               /\ InPending(f)' <=> InPending(f)
               /\ InSlot(f)' <=> f = fence
               /\ ~InSlot(f)
               /\ ~InPending(f)
    BY <1>1, <1>2, <1>7 DEF InCpu, InPending, InSlot, Live
  <2>5. ~InCpu(fence)
    BY <2>1, <2>3 DEF QueuesAgree
  <2>6. /\ \A f : InPending(f)' => ~InCpu(f)'
        /\ \A f : InSlot(f)' => ~InCpu(f)'
        /\ \A f, g : InSlot(f)' /\ InPending(g)' => f < g
        /\ \A f : InQueue(f)' <=> InCpu(f)' \/ InPending(f)' \/ InSlot(f)'
    BY <2>1, <2>2, <2>4, <2>5 DEF QueuesAgree
  <2>7. /\ \A i, j \in 1 .. Len(CpuQueue') : i < j => CpuQueue'[i].Fence < CpuQueue'[j].Fence
        /\ \A i, j \in 1 .. Len(G4Pending') :
             i < j /\ Live(i)' => G4Pending'[i].Fence < G4Pending'[j].Fence
    BY <1>1, <2>1 DEF QueuesAgree, Live
  <2> QED BY <2>6, <2>7 DEF QueuesAgree
<1> QED BY <1>1, <1>2, <1>4, <1>6, <1>7, <1>8, <1>9, SubmittedDispatches

\* ... or gives the slot back.
LEMMA RollbackPacketKeeps ==
    ASSUME Known, RollbackPacket
    PROVE  EInv'
<1>1. /\ At(V, "QueuePacket") /\ Return(V) /\ loc' = [loc EXCEPT ![V] = NoLocals] /\ FaultStays
      /\ RenderPacket' = IF RenderPacket.State = "Prepared" THEN EmptyPacket ELSE RenderPacket
      /\ UNCHANGED <<FenceQueue, QueuedFence, ActiveFence, Preemption, CpuQueue, Paging,
                     DispatchedFence, G4Pending, Platform, RenderDpcFence, SchedulerFaulted, DpcQueued>>
    BY DEF RollbackPacket, Reject, schedulerVars, cpuVars, osVars, FaultStays
<1>2. /\ V \in Threads /\ V # D /\ Lab(V) = "QueuePacket"
      /\ RenderPacket.State = "Prepared" /\ G4Pending = <<>> /\ ~BindingNow
    BY <1>1, Immediate
<1>3. \A u \in Threads \ {V} : loc'[u] = loc[u]
    BY <1>1, <1>2, Locals DEF Known
<1>4. Went(V, "QueuePacket", Lab(V)') /\ Popped(V, "QueuePacket", Lab(V)')
    BY <1>1, <1>2, <1>3, WentReturn DEF Known
<1>5. Lab(V)' = ""
    BY <1>2, <1>4, ThreadFacts, Disjoint, Labels
       DEF Popped, HostLabels, SubmitLabels
<1>6. RenderPacket'.State = "Empty"
    BY <1>1, <1>2 DEF EmptyPacket
<1>7. FaultInv'
    BY <1>1, <1>2, <1>4, <1>5, <1>6, Parts, FaultKept
       DEF QuiescingLabels, QuiesceLabels, CompleteLabels, ClearingLabels
<1>8. ActiveHeld'
    BY <1>6 DEF ActiveHeld
<1>9. BindInv'
  <2>1. \A i \in 2 .. Len(<<>>) : G4Pending'[i].State = "Queued"
    OBVIOUS
  <2> QED BY <1>1, <1>2, <1>5, <1>6, <2>1 DEF BindInv, Bound
<1>10. Agreeing' => QueuesAgree'
    BY <1>1, <1>2, <1>4, <1>5, <1>6, Parts, AgreeingBefore, AgreeKept DEF ClearingLabels
<1>11. CpuReady' => CpuReady
    BY <1>1, ReadyBefore DEF CpuUntouched
<1>12. PICK f : f = DispatchedFence
    OBVIOUS
<1>13. ~Waiting(f)
    BY <1>2 DEF Waiting, HeadReady
<1> QED BY <1>1, <1>2, <1>4, <1>5, <1>6, <1>7, <1>8, <1>9, <1>10, <1>11, <1>12, <1>13, Proceeds
       DEF TokenLabels, WakeLabels

-----------------------------------------------------------------------------
(* Preemption and reset.                                                   *)

\* What is thrown away of the ring: all but a head that is being bound.
LEMMA PendingLeft ==
    ASSUME Known, G4Pending' = PendingKept
    PROVE  /\ \A f : ~InPending(f)'
           /\ PendingOrder'
           /\ \A i \in 2 .. Len(G4Pending') : G4Pending'[i].State = "Queued"
           /\ G4Pending' # <<>> => Bound /\ Head(G4Pending').State = "Dropped"
<1>1. CASE ~(G4Pending # <<>> /\ Head(G4Pending).State \in {"Binding", "Dropped"})
  <2>1. G4Pending' = <<>>
    BY <1>1 DEF PendingKept
  <2> QED BY <2>1 DEF InPending, PendingOrder
<1>2. CASE G4Pending # <<>> /\ Head(G4Pending).State \in {"Binding", "Dropped"}
  <2>1. Head(G4Pending) \in PendingType
    BY <1>2, PendingHead, Parts
  <2>2. PICK n : n = [Head(G4Pending) EXCEPT !.State = "Dropped"]
    OBVIOUS
  <2>3. n.State = "Dropped" /\ n \in PendingType
    BY <2>1, <2>2 DEF PendingType
  <2>4. G4Pending' = <<n>>
    BY <1>2, <2>2 DEF PendingKept
  <2>5. Len(G4Pending') = 1 /\ G4Pending'[1] = n /\ Head(G4Pending') = n /\ G4Pending' # <<>>
    BY <2>3, <2>4
  <2>6. \A i \in 1 .. 1 : i = 1
    OBVIOUS
  <2>7. \A i \in 1 .. Len(G4Pending') : ~Live(i)'
    BY <2>3, <2>5, <2>6 DEF Live
  <2>8. \A i \in 2 .. 1 : FALSE
    OBVIOUS
  <2>9. Bound
    BY <1>2 DEF Bound
  <2> QED BY <2>3, <2>5, <2>7, <2>8, <2>9 DEF InPending, PendingOrder
<1> QED BY <1>1, <1>2

\* A preemption and a reset empty the queues together.
LEMMA Emptied ==
    ASSUME Known, NEW from, NEW to, Went(V, from, to), from # "QueuePacket", to # "QueuePacket",
           FenceQueue' = <<>>, CpuQueue' = <<>>, G4Pending' = PendingKept,
           RenderPacket' = IF QueuedPair # {} THEN EmptyPacket ELSE RenderPacket
    PROVE  /\ BindInv' /\ QueuesAgree' /\ ~CpuReady'
           /\ RenderPacket'.State \in {"Empty", RenderPacket.State}
           /\ RenderPacket'.State # "Queued"
           /\ RenderPacket.State # "Queued" => RenderPacket' = RenderPacket
<1>1. /\ RenderPacket'.State \in {"Empty", RenderPacket.State}
      /\ RenderPacket.State # "Queued" => RenderPacket' = RenderPacket
    BY PacketDropped DEF Known
<1>2. RenderPacket'.State # "Queued"
    BY DEF QueuedPair, EmptyPacket
<1>3. /\ \A f : ~InPending(f)'
      /\ PendingOrder'
      /\ \A i \in 2 .. Len(G4Pending') : G4Pending'[i].State = "Queued"
      /\ G4Pending' # <<>> => Bound /\ Head(G4Pending').State = "Dropped"
    BY PendingLeft
<1>4. V \in Threads /\ Lab(V) = from /\ Lab(V)' = to
    BY ThreadFacts DEF Went
<1>5. BindingNow => BindingNow'
    BY <1>4, OthersStay, ThreadFacts DEF BindingNow
<1>6. BindInv'
    BY <1>1, <1>3, <1>4, <1>5, Parts DEF BindInv, Bound
<1>7. \A f : ~InQueue(f)' /\ ~InCpu(f)' /\ ~InSlot(f)'
    BY <1>2 DEF InQueue, InCpu, InSlot
<1>8. \A i, j \in 1 .. Len(CpuQueue') : i < j => CpuQueue'[i].Fence < CpuQueue'[j].Fence
    OBVIOUS
<1>9. QueuesAgree'
    BY <1>3, <1>7, <1>8 DEF QueuesAgree, PendingOrder
<1>10. ~CpuReady'
    BY DEF CpuReady, CpuHead
<1> QED BY <1>1, <1>2, <1>6, <1>9, <1>10

\* A preemption takes the reservation of a packet it throws away with it.
LEMMA PreemptCommandKeeps ==
    ASSUME Known, NEW preemption \in PreemptionFences, PreemptCommand(preemption)
    PROVE  EInv'
<1>1. /\ ~Running(V) /\ loc' = loc /\ FaultStays
      /\ CpuQueue' = <<>> /\ G4Pending' = PendingKept
      /\ RenderPacket' = IF QueuedPair # {} THEN EmptyPacket ELSE RenderPacket
      /\ UNCHANGED <<Paging, Platform, RenderDpcFence, DpcQueued>>
      /\ Enter(V, "TryNotify") \/ pc' = pc
    BY DEF PreemptCommand, PreemptGuard, VidSchFree, FaultStays
<1>2. FenceQueue' = <<>> /\ QueuedFence' = NoFence /\ ActiveFence' = ActiveFence
    BY DEF PreemptCommand, Sched!BeginBoundaryPreemption, Sched!SchedBeginBoundaryPreemption,
           Sched!NoFence, NoFence
<1>3. PICK reserved :
        /\ reserved = {fence \in {RenderPacket.Fence} : QueuedPair # {} /\ ActiveFence = NoFence}
                        \cup {entry.Fence : entry \in PendingDropped}
        /\ DispatchedFence' = IF DispatchedFence \in reserved THEN NoFence ELSE DispatchedFence
    BY DEF PreemptCommand
<1>4. V \in Threads /\ V # D /\ V \notin RenderWorkers /\ "TryNotify" \in Label
    BY ThreadFacts DEF Label, NotifyLabels
<1>5. PICK to \in {"", "TryNotify"} : Went(V, "", to)
  <2>1. CASE Enter(V, "TryNotify")
    BY <1>1, <1>4, <2>1, WentEnter DEF Known
  <2>2. CASE pc' = pc
    <3>1. Lab(V) = "" /\ Lab(V)' = ""
      BY <1>1, <2>2 DEF Lab, Top, Running
    <3>2. Went(V, "", "")
      BY <1>1, <2>2, <3>1 DEF Went
    <3> QED BY <3>2
  <2> QED BY <1>1, <2>1, <2>2
<1>6. /\ BindInv' /\ QueuesAgree' /\ ~CpuReady'
      /\ RenderPacket'.State \in {"Empty", RenderPacket.State}
      /\ RenderPacket.State # "Queued" => RenderPacket' = RenderPacket
    BY <1>1, <1>2, <1>5, Emptied
<1>7. RenderPacket'.State = "Active" => RenderPacket.State = "Active" /\ RenderPacket' = RenderPacket
    BY <1>6
<1>8. FaultInv'
    BY <1>1, <1>4, <1>5, Parts, FaultKept
       DEF QuiescingLabels, QuiesceLabels, CompleteLabels, ClearingLabels
<1>9. ActiveHeld'
    BY <1>1, <1>4, <1>5, <1>7, Parts, ActiveKept
<1>10. ReservedInv' /\ OneReport'
  <2>1. CASE DispatchedFence' = NoFence
    BY <1>1, <1>4, <1>5, <1>7, <2>1, Parts, ReservedKept, OneReportKept
  <2>2. CASE DispatchedFence' # NoFence
    <3>1. DispatchedFence' = DispatchedFence /\ DispatchedFence \notin reserved
      BY <1>3, <2>2
    <3>2. PICK f : f = DispatchedFence /\ f = DispatchedFence'
      BY <3>1
    <3>3. ~Waiting(f)
      <4>1. SUFFICES ASSUME Waiting(f) PROVE f \in reserved
        BY <3>1, <3>2
      <4>2. ActiveFence = NoFence /\ HeadReady(f)
        BY <4>1 DEF Waiting
      <4>3. CASE RenderPacket.State = "Queued" /\ RenderPacket.Fence = f
        <5>1. QueuedPair # {}
          BY <4>3 DEF QueuedPair
        <5> QED BY <1>3, <4>2, <4>3, <5>1
      <4>4. CASE /\ G4Pending # <<>> /\ Head(G4Pending).State # "Dropped"
                 /\ Head(G4Pending).Fence = f
        <5>1. Head(G4Pending) = G4Pending[1] /\ 1 \in 1 .. Len(G4Pending)
          BY <4>4, Parts, PendingHead
        <5>2. Head(G4Pending) \in Entries(G4Pending)
          BY <5>1 DEF Entries
        <5>3. Head(G4Pending) \in PendingDropped
          BY <4>4, <5>2 DEF PendingDropped
        <5> QED BY <1>3, <4>4, <5>3
      <4> QED BY <4>2, <4>3, <4>4 DEF HeadReady
    <3>4. CpuHas(f) => CpuHas(f)'
      BY <1>1, <1>2, <1>4, <1>5, CpuHasKept
    <3>5. RunningJob(f) => RunningJob(f)'
      BY <1>6 DEF RunningJob
    <3>6. ReportOnItsWay(f) => ReportOnItsWay(f)'
      BY <1>1, <1>4, <1>5, ReportKept
    <3>7. ReservedInv'
      BY <1>1, <3>2, <3>3, <3>4, <3>5, <3>6, Parts, ReservedKept
    <3>8. OneReport'
      BY <1>1, <1>4, <1>5, <1>7, <3>2, <3>3, <3>4, Parts, OneReportKept
    <3> QED BY <3>7, <3>8
  <2> QED BY <2>1, <2>2
<1>11. DpcReleases'
    BY <1>4, <1>5, Parts, ReleaseKept
<1>12. TokenInv'
    BY <1>1, <1>4, <1>5, Parts, TokenKept DEF TokenLabels
<1> QED BY <1>6, <1>8, <1>9, <1>10, <1>11, <1>12, Together

\* A reset that quiesces first faults the adapter.
LEMMA ResetBeginKeeps ==
    ASSUME Known, ResetBegin
    PROVE  EInv'
<1>1. /\ ~Running(V) /\ FaultStays
      /\ UNCHANGED <<schedulerVars, cpuVars, DispatchedFence, renderVars, DpcQueued>>
    BY DEF ResetBegin, FaultStays
<1>2. V \in Threads /\ V # D /\ "QuiesceClaim" \in Label /\ Lab(V) = ""
    BY <1>1, ThreadFacts DEF Label, HostLabels, QuiesceLabels, Running, Lab, Top
<1>3. CASE SchedulerFaulted' = TRUE /\ loc' = [loc EXCEPT ![V].Job = RenderPacket.Fence]
           /\ Enter(V, "QuiesceClaim")
  <2>1. \A u \in Threads \ {V} : loc'[u] = loc[u]
    BY <1>3 DEF Known, IInv, Records
  <2>2. Went(V, "", "QuiesceClaim")
    BY <1>2, <1>3, <2>1, WentEnter DEF Known
  <2>3. UNCHANGED <<FenceQueue, QueuedFence, ActiveFence, Preemption, CpuQueue, Paging,
                    RenderPacket, G4Pending, Platform, RenderDpcFence>>
    BY <1>1 DEF schedulerVars, cpuVars, renderVars
  <2>4. FaultInv'
    <3>1. ~Platform.Resetting
      BY <1>2, Parts DEF FaultInv, QuiescingLabels, QuiesceLabels, CompleteLabels
    <3> QED BY <1>3, <2>2, <2>3, <3>1 DEF FaultInv, Went, ClearingLabels
  <2>5. ActiveHeld'
    BY <1>3 DEF ActiveHeld
  <2>6. Same(V)
    BY <1>1, <2>3 DEF Same
  <2>7. ~Agreeing'
    BY <1>3, <2>2 DEF Agreeing, Went, ClearingLabels
  <2> QED BY <1>1, <1>2, <2>2, <2>4, <2>5, <2>6, <2>7, Passes
         DEF ExecutorLabels, TokenLabels, WakeLabels
<1>4. CASE Enter(V, "ResetEngine") /\ UNCHANGED <<SchedulerFaulted, loc>>
  <2>1. Untouched(V)
    BY <1>1, NothingTouched
  <2> QED BY <1>1, <1>2, <1>4, <2>1, QuietEnter DEF QuietLabels
<1> QED BY <1>3, <1>4 DEF ResetBegin

\* Quiescing moves on ...
LEMMA QuiesceKeeps ==
    ASSUME Known, NEW from \in QuiesceLabels, NEW to \in QuiescingLabels, to # "Report",
           Went(V, from, to), Same(V), SchedulerFaulted' = SchedulerFaulted
    PROVE  EInv'
<1>1. V \in Threads /\ V # D /\ V \notin RenderWorkers /\ FaultStays /\ from \in QuiescingLabels
    BY ThreadFacts DEF FaultStays, QuiescingLabels
<1>2. FaultInv'
    BY <1>1, Parts, QuiescingKept DEF Same
<1>3. ActiveHeld'
    BY <1>1, Parts, ActiveKept DEF Same
<1>4. to \notin ClearingLabels /\ to # "QueuePacket"
    BY DEF QuiescingLabels, QuiesceLabels, CompleteLabels, ClearingLabels
<1>5. Agreeing' => Agreeing
    BY <1>1, <1>4, AgreeingBefore
<1>6. from \notin ExecutorLabels \cup TokenLabels \cup WakeLabels \cup {"QueuePacket"}
    BY DEF QuiesceLabels, ExecutorLabels, TokenLabels, WakeLabels
<1> QED BY <1>1, <1>2, <1>3, <1>4, <1>5, <1>6, Passes

\* ... and ends, one way or the other.
LEMMA QuiesceLeavesKeeps ==
    ASSUME Known, NEW from \in QuiesceLabels, NEW to \in {"", "ResetEngine"},
           Went(V, from, to), Same(V), SchedulerFaulted' = SchedulerFaulted, ~Platform'.Resetting
    PROVE  EInv'
<1>1. V \in Threads /\ V # D /\ V \notin RenderWorkers /\ FaultStays
    BY ThreadFacts DEF FaultStays
<1>2. to \notin ClearingLabels /\ to # "QueuePacket" /\ to \notin QuiescingLabels /\ to # "Report"
    BY DEF QuiescingLabels, QuiesceLabels, CompleteLabels, ClearingLabels
<1>3. FaultInv'
    BY <1>2 DEF FaultInv, Went
<1>4. ActiveHeld'
    BY <1>1, Parts, ActiveKept DEF Same
<1>5. Agreeing' => Agreeing
    BY <1>1, <1>2, AgreeingBefore
<1>6. from \notin ExecutorLabels \cup TokenLabels \cup WakeLabels \cup {"QueuePacket"}
    BY DEF QuiesceLabels, ExecutorLabels, TokenLabels, WakeLabels
<1> QED BY <1>1, <1>2, <1>3, <1>4, <1>5, <1>6, Passes

\* How VidSch moves while it quiesces.
LEMMA QuiesceMoves ==
    ASSUME Known, NEW from \in QuiesceLabels, At(V, from),
           \A u \in Threads \ {V} : loc'[u] = loc[u]
    PROVE  /\ \A to \in QuiesceLabels \cup {"ResetEngine"} : Goto(V, to) => Went(V, from, to)
           /\ Call(V, "Complete", "QuiesceCheck") => Went(V, from, "Complete")
           /\ Return(V) => Went(V, from, "")
<1>1. /\ V \in Threads /\ from # "" /\ from \in HostLabels
      /\ \A to \in QuiesceLabels \cup {"ResetEngine"} : to \in Label /\ to # ""
    BY ThreadFacts, Labels DEF HostLabels, ResetLabels
<1>2. \A to \in QuiesceLabels \cup {"ResetEngine"} : Goto(V, to) => Went(V, from, to)
    BY <1>1, WentGoto DEF Known
<1>3. Call(V, "Complete", "QuiesceCheck") => Went(V, from, "Complete")
  <2>1. "Complete" \in CompleteLabels /\ "QuiesceCheck" \in QuiesceLabels
    BY DEF CompleteLabels, QuiesceLabels
  <2> QED BY <1>1, <2>1, Labels, WentCall DEF Known
<1>4. Return(V) => Went(V, from, Lab(V)') /\ Popped(V, from, Lab(V)')
    BY <1>1, WentReturn DEF Known
<1>5. Return(V) => Lab(V)' = ""
    BY <1>1, <1>4 DEF Popped
<1> QED BY <1>2, <1>3, <1>4, <1>5

\* The reset is marked on the platform ...
LEMMA QuiesceClaimKeeps ==
    ASSUME Known, QuiesceClaim
    PROVE  EInv'
<1>1. /\ At(V, "QuiesceClaim") /\ Goto(V, "QuiesceWait") /\ loc' = loc
      /\ SchedulerFaulted' = SchedulerFaulted
    BY DEF QuiesceClaim
<1>2. Same(V)
  <2>1. Platform'.WorkQueued = Platform.WorkQueued
    BY DEF QuiesceClaim, Known, IInv, Records, PlatformFields
  <2> QED BY <2>1 DEF QuiesceClaim, Same, schedulerVars, cpuVars, osVars
<1>3. {"QuiesceClaim", "QuiesceWait"} \subseteq QuiesceLabels
    BY DEF QuiesceLabels
<1>4. Went(V, "QuiesceClaim", "QuiesceWait")
    BY <1>1, <1>3, QuiesceMoves
<1> QED BY <1>1, <1>2, <1>3, <1>4, QuiesceKeeps DEF QuiescingLabels

\* ... the worker has left ...
LEMMA QuiesceWaitKeeps ==
    ASSUME Known, QuiesceWait
    PROVE  EInv'
<1>1. /\ At(V, "QuiesceWait") /\ Goto(V, "QuiesceCheck") /\ loc' = loc
      /\ SchedulerFaulted' = SchedulerFaulted
    BY DEF QuiesceWait
<1>2. Same(V)
    BY DEF QuiesceWait, Same, schedulerVars, cpuVars, renderVars, osVars
<1>3. {"QuiesceCheck", "QuiesceWait"} \subseteq QuiesceLabels
    BY DEF QuiesceLabels
<1>4. Went(V, "QuiesceWait", "QuiesceCheck")
    BY <1>1, <1>3, QuiesceMoves
<1> QED BY <1>1, <1>2, <1>3, <1>4, QuiesceKeeps DEF QuiescingLabels

\* ... the job is looked at ...
LEMMA QuiesceCheckKeeps ==
    ASSUME Known, QuiesceCheck
    PROVE  EInv'
<1>1. /\ At(V, "QuiesceCheck") /\ loc' = loc /\ SchedulerFaulted' = SchedulerFaulted
      /\ \E to \in {"QuiesceEnded", "QuiescePoll", "QuiesceFail"} : Goto(V, to)
    BY DEF QuiesceCheck
<1>2. Same(V)
    BY DEF QuiesceCheck, Same, schedulerVars, cpuVars, renderVars, osVars
<1>3. {"QuiesceCheck", "QuiesceEnded", "QuiescePoll", "QuiesceFail"} \subseteq QuiesceLabels
    BY DEF QuiesceLabels
<1>4. PICK to \in {"QuiesceEnded", "QuiescePoll", "QuiesceFail"} : Went(V, "QuiesceCheck", to)
    BY <1>1, <1>3, QuiesceMoves
<1> QED BY <1>1, <1>2, <1>3, <1>4, QuiesceKeeps DEF QuiescingLabels

\* ... found ended, and completed.
LEMMA QuiescePollKeeps ==
    ASSUME Known, QuiescePoll
    PROVE  EInv'
<1>1. /\ At(V, "QuiescePoll") /\ Call(V, "Complete", "QuiesceCheck") /\ loc' = loc
      /\ SchedulerFaulted' = SchedulerFaulted
    BY DEF QuiescePoll
<1>2. Same(V)
  <2>1. Platform'.WorkQueued = Platform.WorkQueued
    BY DEF QuiescePoll, Known, IInv, Records, PlatformFields
  <2> QED BY <2>1 DEF QuiescePoll, Same, schedulerVars, cpuVars, osVars
<1>3. "QuiescePoll" \in QuiesceLabels /\ "Complete" \in CompleteLabels
    BY DEF QuiesceLabels, CompleteLabels
<1>4. Went(V, "QuiescePoll", "Complete")
    BY <1>1, <1>3, QuiesceMoves
<1> QED BY <1>1, <1>2, <1>3, <1>4, QuiesceKeeps DEF QuiescingLabels

\* A failed reset leaves the adapter faulted.
LEMMA QuiesceGiveUpKeeps ==
    ASSUME Known, QuiesceGiveUp
    PROVE  EInv'
<1>1. /\ Return(V) /\ loc' = [loc EXCEPT ![V] = NoLocals] /\ SchedulerFaulted' = SchedulerFaulted
      /\ \E from \in {"QuiesceWait", "QuiescePoll", "QuiesceFail"} : At(V, from)
    BY DEF QuiesceGiveUp, Reject
<1>2. Platform'.WorkQueued = Platform.WorkQueued /\ ~Platform'.Resetting
    BY DEF QuiesceGiveUp, Known, IInv, Records, PlatformFields
<1>3. Same(V)
    BY <1>2 DEF QuiesceGiveUp, Same, schedulerVars, cpuVars, osVars
<1>4. {"QuiesceWait", "QuiescePoll", "QuiesceFail"} \subseteq QuiesceLabels
    BY DEF QuiesceLabels
<1>5. \A u \in Threads \ {V} : loc'[u] = loc[u]
    BY <1>1, Locals, ThreadFacts DEF Known
<1>6. PICK from \in QuiesceLabels : Went(V, from, "")
    BY <1>1, <1>4, <1>5, QuiesceMoves
<1> QED BY <1>1, <1>2, <1>3, <1>6, QuiesceLeavesKeeps

\* The job has ended.
LEMMA QuiesceEndedKeeps ==
    ASSUME Known, QuiesceEnded
    PROVE  EInv'
<1>1. /\ At(V, "QuiesceEnded") /\ Goto(V, "ResetEngine") /\ SchedulerFaulted' = SchedulerFaulted
      /\ loc' = [loc EXCEPT ![V] = NoLocals]
    BY DEF QuiesceEnded
<1>2. Platform'.WorkQueued = Platform.WorkQueued /\ ~Platform'.Resetting
    BY DEF QuiesceEnded, Known, IInv, Records, PlatformFields
<1>3. Same(V)
    BY <1>2 DEF QuiesceEnded, Same, schedulerVars, cpuVars, osVars
<1>4. "QuiesceEnded" \in QuiesceLabels
    BY DEF QuiesceLabels
<1>5. \A u \in Threads \ {V} : loc'[u] = loc[u]
    BY <1>1, Locals, ThreadFacts DEF Known
<1>6. Went(V, "QuiesceEnded", "ResetEngine")
    BY <1>1, <1>4, <1>5, QuiesceMoves
<1> QED BY <1>1, <1>2, <1>3, <1>4, <1>6, QuiesceLeavesKeeps

\* The scheduler's queue, the packets and the reservation go together.
LEMMA ResetEngineKeeps ==
    ASSUME Known, ResetEngine
    PROVE  EInv'
<1>1. /\ At(V, "ResetEngine") /\ Goto(V, "ResetRetire") /\ FaultStays
      /\ CpuQueue' = <<>> /\ G4Pending' = PendingKept
      /\ RenderPacket' = IF QueuedPair # {} THEN EmptyPacket ELSE RenderPacket
      /\ DispatchedFence' = NoFence /\ RenderPacket.State # "Active"
      /\ UNCHANGED <<Paging, Platform, DpcQueued>>
    BY DEF ResetEngine, ResetScheduler, ResetAllowed, osVars, FaultStays
<1>2. FenceQueue' = <<>> /\ QueuedFence' = NoFence
    BY DEF ResetEngine, ResetScheduler, Sched!ResetEngine, Sched!SchedResetEngine, Sched!ResetQueues,
           Sched!NoFence, NoFence
<1>3. \A u \in Threads \ {V} : loc'[u] = loc[u]
  <2>1. DOMAIN loc = Threads
    BY DEF Known, IInv, Records
  <2> QED BY <2>1 DEF ResetEngine
<1>4. V \in Threads /\ V # D /\ "ResetRetire" \in Label
    BY ThreadFacts DEF Label, HostLabels, ResetLabels
<1>5. Went(V, "ResetEngine", "ResetRetire") /\ Lab(V) = "ResetEngine" /\ Lab(V)' = "ResetRetire"
    BY <1>1, <1>3, <1>4, WentGoto DEF Known, Went
<1>6. /\ BindInv' /\ QueuesAgree' /\ ~CpuReady'
      /\ RenderPacket'.State \in {"Empty", RenderPacket.State}
    BY <1>1, <1>2, <1>5, Emptied
<1>7. RenderPacket'.State # "Active"
    BY <1>1, <1>6
<1>8. FaultInv'
  <2>1. /\ "ResetRetire" \notin QuiescingLabels /\ "ResetEngine" \notin QuiescingLabels
    BY DEF QuiescingLabels, QuiesceLabels, CompleteLabels
  <2>2. ~Platform.Resetting
    BY <1>5, <2>1, Parts DEF FaultInv
  <2> QED BY <1>1, <1>2, <1>5, <1>7, <2>1, <2>2 DEF FaultInv
<1>9. ActiveHeld' /\ ReservedInv' /\ OneReport'
    BY <1>1, <1>7 DEF ActiveHeld, ReservedInv, OneReport
<1>10. DpcReleases'
    BY <1>4, <1>5, Parts, ReleaseKept
<1>11. TokenInv'
    BY <1>1, <1>4, <1>5, Parts, TokenKept DEF TokenLabels
<1> QED BY <1>6, <1>8, <1>9, <1>10, <1>11, Together

\* The context of the packet the reset threw away forgets it ...
LEMMA ResetRetireKeeps ==
    ASSUME Known, ResetRetire
    PROVE  EInv'
<1>1. /\ At(V, "ResetRetire") /\ Goto(V, "ResetClear") /\ FaultStays
      /\ loc' = [loc EXCEPT ![V] = NoLocals]
      /\ SchedulerFaulted' = SchedulerFaulted
    BY DEF ResetRetire, FaultStays
<1>u. UNCHANGED <<FenceQueue, QueuedFence, ActiveFence, Preemption, CpuQueue, Paging,
                  DispatchedFence, RenderPacket, G4Pending, Platform, RenderDpcFence, DpcQueued>>
    BY DEF ResetRetire, schedulerVars, cpuVars, renderVars, osVars
<1>2. V \in Threads /\ V # D /\ V \notin RenderWorkers /\ "ResetClear" \in Label
    BY ThreadFacts DEF Label, HostLabels, ResetLabels
<1>3. \A u \in Threads \ {V} : loc'[u] = loc[u]
    BY <1>1, <1>2, Locals DEF Known
<1>4. Went(V, "ResetRetire", "ResetClear") /\ Lab(V) = "ResetRetire" /\ Lab(V)' = "ResetClear"
    BY <1>1, <1>2, <1>3, WentGoto DEF Known, Went
<1>5. /\ "ResetRetire" \notin QuiescingLabels /\ "ResetClear" \notin QuiescingLabels
      /\ "ResetRetire" \in ClearingLabels
    BY DEF QuiescingLabels, QuiesceLabels, CompleteLabels, ClearingLabels
<1>6. FaultInv'
    BY <1>1, <1>u, <1>4, <1>5, Parts DEF FaultInv
<1>7. ActiveHeld'
    BY <1>1, <1>u, <1>2, <1>4, Parts, ActiveKept
<1>8. Agreeing
    BY <1>4, <1>5 DEF Agreeing
<1>9. Same(V)
    BY <1>u DEF Same
<1> QED BY <1>1, <1>2, <1>4, <1>6, <1>7, <1>8, <1>9, Passes
       DEF ExecutorLabels, TokenLabels, WakeLabels

\* ... and the fault ends with nothing queued, reserved or running.
LEMMA ResetClearKeeps ==
    ASSUME Known, ResetClear
    PROVE  EInv'
<1>1. At(V, "ResetClear") /\ Return(V) /\ loc' = loc
    BY DEF ResetClear
<1>u. UNCHANGED <<FenceQueue, QueuedFence, ActiveFence, Preemption, CpuQueue, Paging,
                  DispatchedFence, RenderPacket, G4Pending, Platform, RenderDpcFence, DpcQueued>>
    BY DEF ResetClear, schedulerVars, cpuVars, renderVars
<1>2. V \in Threads /\ V # D /\ "ResetClear" \in HostLabels
    BY ThreadFacts DEF HostLabels, ResetLabels
<1>3. Went(V, "ResetClear", Lab(V)') /\ Popped(V, "ResetClear", Lab(V)')
    BY <1>1, <1>2, WentReturn DEF Known
<1>4. Lab(V)' = "" /\ Lab(V) = "ResetClear"
    BY <1>2, <1>3 DEF Popped, Went
<1>5. /\ "ResetClear" \notin QuiescingLabels /\ "" \notin QuiescingLabels
      /\ "ResetClear" \in ClearingLabels /\ "" \notin ClearingLabels
    BY DEF QuiescingLabels, QuiesceLabels, CompleteLabels, ClearingLabels
<1>6. /\ QueuedFence = NoFence /\ DispatchedFence = NoFence /\ RenderPacket.State # "Active"
      /\ ~Platform.Resetting /\ QueuesAgree
    BY <1>4, <1>5, Parts DEF FaultInv, Agreeing
<1>7. FaultInv'
    BY <1>u, <1>4, <1>5, <1>6 DEF FaultInv
<1>8. ActiveHeld' /\ ReservedInv' /\ OneReport'
    BY <1>u, <1>6 DEF ActiveHeld, ReservedInv, OneReport
<1>9. DpcReleases'
    BY <1>2, <1>3, Parts, ReleaseKept
<1>10. BindInv'
    BY <1>u, <1>2, <1>3, <1>4, Parts, BindKept
<1>11. QueuesAgree'
    BY <1>u, <1>6, AgreeKept
<1>12. TokenInv'
    BY <1>u, <1>2, <1>3, Parts, TokenKept DEF TokenLabels
<1>13. ~CpuReady'
    BY <1>u, <1>6 DEF CpuReady, Dispatchable
<1> QED BY <1>7, <1>8, <1>9, <1>10, <1>11, <1>12, <1>13, Together

-----------------------------------------------------------------------------
(* The invariant of this module holds.                                     *)

\* The driver starts with nothing queued, reserved or running ...
LEMMA InitKeeps == Init => EInv
<1> SUFFICES ASSUME Init PROVE EInv
    OBVIOUS
<1>1. /\ \A t \in Threads : pc[t] = <<>> /\ Lab(t) = "" /\ loc[t].Job = NoFence
      /\ Lab(V) = "" /\ Lab(D) = "" /\ loc[D].Job = NoFence
      /\ \A t \in RenderWorkers : Lab(t) = ""
    BY ThreadFacts DEF Init, Lab, Top, NoLocals
<1>2. /\ FenceQueue = <<>> /\ QueuedFence = NoFence /\ ActiveFence = NoFence
      /\ Owed = {} /\ PagingFences = {} /\ LastSubmittedFence = 0
    BY DEF Init, Sched!Init, Sched!NoFence, NoFence
<1>3. /\ CpuQueue = <<>> /\ G4Pending = <<>> /\ DispatchedFence = NoFence
      /\ RenderPacket.State = "Empty" /\ Platform.Resetting = FALSE
      /\ Paging.Pending = FALSE /\ Paging.DpcPending = FALSE
    BY DEF Init, EmptyPacket
<1>4. EngineInv
    BY <1>1, <1>2, <1>3
       DEF EngineInv, FaultInv, ActiveHeld, ReservedInv, OneReport, DpcReleases, QuiescingLabels,
           QuiesceLabels, CompleteLabels, ClearingLabels
<1>5. FenceQueueInv
  <2>1. \A i \in 1 .. Len(<<>>) : FALSE
    OBVIOUS
  <2> QED BY <1>2, <2>1, NothingIncreases DEF FenceQueueInv, Sched!HeadOrNone, Sched!NoFence, NoFence
<1>6. BindInv
  <2>1. \A i \in 2 .. Len(<<>>) : FALSE
    OBVIOUS
  <2> QED BY <1>1, <1>3, <2>1 DEF BindInv, Bound
<1>7. QueuesAgree
  <2>1. \A i \in 1 .. Len(<<>>) : FALSE
    OBVIOUS
  <2>2. \A f : ~InQueue(f) /\ ~InCpu(f) /\ ~InPending(f) /\ ~InSlot(f)
    BY <1>2, <1>3, <2>1 DEF InQueue, InCpu, InPending, InSlot
  <2> QED BY <1>3, <2>1, <2>2 DEF QueuesAgree
<1>8. WakeInv
    BY <1>3 DEF WakeInv, TokenInv, CpuHead
<1> QED BY <1>4, <1>5, <1>6, <1>7, <1>8 DEF EInv, QueueInv

\* ... a step that changes nothing keeps the invariant ...
LEMMA StutterKeeps == EInv /\ UNCHANGED vars => EInv'
<1> SUFFICES ASSUME EInv, UNCHANGED vars PROVE EInv'
    OBVIOUS
<1>1. UNCHANGED <<FenceQueue, QueuedFence, ActiveFence, LastSubmittedFence, Owed, PagingFences,
                  Preemption, CpuQueue, Paging, DispatchedFence, RenderPacket, G4Pending, Platform,
                  RenderDpcFence, SchedulerFaulted, DpcQueued, pc, loc>>
    BY DEF vars, schedulerVars, cpuVars, renderVars, osVars
<1>2. \A t : Lab(t)' = Lab(t)
    BY <1>1 DEF Lab
<1>3. FaultInv' /\ ActiveHeld' /\ DpcReleases'
    BY <1>1, <1>2 DEF EInv, EngineInv, FaultInv, ActiveHeld, DpcReleases
<1>4. \A f : /\ CpuHas(f)' <=> CpuHas(f)
             /\ HeadReady(f)' <=> HeadReady(f)
             /\ Executor(f)' <=> Executor(f)
             /\ ReportOnItsWay(f)' <=> ReportOnItsWay(f)
             /\ RunningJob(f)' <=> RunningJob(f)
    BY <1>1, <1>2 DEF CpuHas, CpuOwns, HeadReady, BindingNow, Executor, Dispatching, Activating,
                      ReportOnItsWay, Reporter, RunningJob
<1>5. \A f : Waiting(f)' <=> Waiting(f)
    BY <1>1, <1>4 DEF Waiting
<1>6. PICK f : f = DispatchedFence /\ f = DispatchedFence'
    BY <1>1
<1>7. /\ CpuHas(f)' <=> CpuHas(f)
      /\ Waiting(f)' <=> Waiting(f)
      /\ ReportOnItsWay(f)' <=> ReportOnItsWay(f)
      /\ RunningJob(f)' <=> RunningJob(f)
    BY <1>4, <1>5
<1>8. ReservedInv' /\ OneReport'
    BY <1>1, <1>2, <1>6, <1>7 DEF EInv, EngineInv, ReservedInv, OneReport
<1>9. FenceQueueInv'
    BY <1>1 DEF EInv, QueueInv, FenceQueueInv
<1>10. BindInv'
    BY <1>1, <1>2 DEF EInv, QueueInv, BindInv, Bound, BindingNow
<1>11. ~SchedulerFaulted' \/ Lab(V)' \in ClearingLabels => QueuesAgree'
    BY <1>1, <1>2, AgreeKept DEF EInv, QueueInv
<1>12. TokenInv'
    BY <1>1, <1>2 DEF EInv, WakeInv, TokenInv, DpcTook, Executing
<1>13. Awake' <=> Awake
    BY <1>1, <1>2 DEF Awake, DpcAwake
<1>14. ~SchedulerFaulted' /\ Dispatchable' /\ CpuHead' => Awake'
    BY <1>1, <1>13 DEF EInv, WakeInv, Dispatchable, CpuHead, Sched!DispatchBlocked
<1>15. EngineInv'
    BY <1>3, <1>8 DEF EngineInv
<1>16. QueueInv'
    BY <1>9, <1>10, <1>11 DEF QueueInv
<1>17. WakeInv'
    BY <1>12, <1>14 DEF WakeInv
<1> QED BY <1>15, <1>16, <1>17 DEF EInv

\* ... and so does every other.
LEMMA NextKeeps == IInv /\ EInv /\ [Next]_vars => EInv'
<1> SUFFICES ASSUME IInv, EInv, [Next]_vars PROVE EInv'
    OBVIOUS
<1>k. Known
    BY NextInv DEF Known
<1>1. CASE Submit
  <2>1. ASSUME NEW kind \in {"paging", "touch"}, SubmitCpu(kind) PROVE EInv'
    BY <1>k, <2>1, SubmitCpuKeeps
  <2>2. ASSUME NEW c \in Contexts, SubmitPresent(c) PROVE EInv'
    BY <1>k, <2>2, SubmitPresentKeeps
  <2>3. CASE ResubmitPaging
    BY <1>k, <2>3, ResubmitPagingKeeps
  <2>4. ASSUME NEW c \in Contexts, SubmitRender(c) PROVE EInv'
    BY <1>k, <2>4, SubmitRenderKeeps
  <2>5. CASE SubmitAdmissible
    BY <1>k, <2>5, SubmitAdmissibleKeeps
  <2>6. CASE PendingReserve
    BY <1>k, <2>6, PendingReserveKeeps
  <2>7. CASE PendingPublish
    BY <1>k, <2>7, PendingPublishKeeps
  <2>8. CASE AwaitReady
    BY <1>k, <2>8, AwaitReadyKeeps
  <2>9. CASE AwaitSlot
    BY <1>k, <2>9, AwaitSlotKeeps
  <2>10. CASE AwaitGiveUp
    BY <1>k, <2>10, AwaitGiveUpKeeps
  <2>11. CASE PreparePacket
    BY <1>k, <2>11, PreparePacketKeeps
  <2>12. CASE QueuePacket
    BY <1>k, <2>12, QueuePacketKeeps
  <2>13. CASE RollbackPacket
    BY <1>k, <2>13, RollbackPacketKeeps
  <2> QED BY <1>1, <2>1, <2>2, <2>3, <2>4, <2>5, <2>6, <2>7, <2>8, <2>9, <2>10, <2>11, <2>12, <2>13 DEF Submit
<1>2. CASE Preempt
    BY <1>k, <1>2, PreemptRefusedKeeps, PreemptCommandKeeps DEF Preempt
<1>3. CASE Reset
  <2>1. CASE ResetBegin
    BY <1>k, <2>1, ResetBeginKeeps
  <2>2. CASE QuiesceClaim
    BY <1>k, <2>2, QuiesceClaimKeeps
  <2>3. CASE QuiesceWait
    BY <1>k, <2>3, QuiesceWaitKeeps
  <2>4. CASE QuiesceCheck
    BY <1>k, <2>4, QuiesceCheckKeeps
  <2>5. CASE QuiescePoll
    BY <1>k, <2>5, QuiescePollKeeps
  <2>6. CASE QuiesceGiveUp
    BY <1>k, <2>6, QuiesceGiveUpKeeps
  <2>7. CASE QuiesceEnded
    BY <1>k, <2>7, QuiesceEndedKeeps
  <2>8. CASE ResetFails
    BY <1>k, <2>8, ResetFailsKeeps
  <2>9. CASE ResetEngine
    BY <1>k, <2>9, ResetEngineKeeps
  <2>10. CASE ResetRetire
    BY <1>k, <2>10, ResetRetireKeeps
  <2>11. CASE ResetClear
    BY <1>k, <2>11, ResetClearKeeps
  <2> QED BY <1>3, <2>1, <2>2, <2>3, <2>4, <2>5, <2>6, <2>7, <2>8, <2>9, <2>10, <2>11 DEF Reset
<1>4. CASE Dpc
  <2>1. CASE DpcStart
    BY <1>k, <2>1, DpcStartKeeps
  <2>2. CASE PagingDpcTake
    BY <1>k, <2>2, PagingDpcTakeKeeps
  <2>3. CASE PagingDpcEnter
    BY <1>k, <2>3, PagingDpcEnterKeeps
  <2>4. CASE PagingDpcRetire
    BY <1>k, <2>4, PagingDpcRetireKeeps
  <2>5. CASE PagingDpcLeave
    BY <1>k, <2>5, PagingDpcLeaveKeeps
  <2>6. CASE NotifyDpc
    BY <1>k, <2>6, NotifyDpcKeeps
  <2>7. CASE SchedulerDpcRead
    BY <1>k, <2>7, SchedulerDpcReadKeeps
  <2>8. CASE SchedulerDpcTake
    BY <1>k, <2>8, SchedulerDpcTakeKeeps
  <2>9. CASE SchedulerDpcTry
    BY <1>k, <2>9, SchedulerDpcTryKeeps
  <2>10. CASE SchedulerDpcRelease
    BY <1>k, <2>10, SchedulerDpcGivesBackKeeps
  <2> QED BY <1>4, <2>1, <2>2, <2>3, <2>4, <2>5, <2>6, <2>7, <2>8, <2>9, <2>10 DEF Dpc
<1>5. ASSUME NEW p \in PagingWorkers, PagingWorker(p) PROVE EInv'
  <2>1. CASE PagingWorkerStart(p)
    BY <1>k, <2>1, PagingWorkerStartKeeps
  <2>2. CASE PagingRecordCompletion(p)
    BY <1>k, <2>2, PagingRecordCompletionKeeps
  <2>3. CASE PagingFail(p)
    BY <1>k, <2>3, PagingFailKeeps
  <2>4. CASE PagingNotify(p)
    BY <1>k, <2>4, PagingNotifyKeeps
  <2>5. CASE PagingWorkerLeave(p)
    BY <1>k, <2>5, PagingWorkerLeaveKeeps
  <2> QED BY <1>5, <2>1, <2>2, <2>3, <2>4, <2>5 DEF PagingWorker
<1>6. ASSUME NEW r \in RenderWorkers, RenderWorker(r) PROVE EInv'
  <2>1. CASE RenderWorkerStart(r)
    BY <1>k, <2>1, RenderWorkerStartKeeps
  <2>2. CASE BindHead(r)
    BY <1>k, <2>2, BindHeadKeeps
  <2>3. CASE BindQueue(r)
    BY <1>k, <2>3, BindQueueKeeps
  <2>4. CASE BindFail(r)
    BY <1>k, <2>4, BindFailKeeps
  <2>5. CASE ActivateSkip(r)
    BY <1>k, <2>5, ActivateSkipKeeps
  <2>6. CASE ActivatePacket(r)
    BY <1>k, <2>6, ActivatePacketKeeps
  <2>7. CASE ActivateFault(r)
    BY <1>k, <2>7, ActivateFaultKeeps
  <2>8. CASE BackendSubmit(r)
    BY <1>k, <2>8, BackendSubmitKeeps
  <2>9. CASE BackendSubmitFail(r)
    BY <1>k, <2>9, BackendSubmitFailKeeps
  <2>10. CASE JobEnds(r)
    BY <1>k, <2>10, JobEndsKeeps
  <2>11. CASE PollAbandon(r)
    BY <1>k, <2>11, PollAbandonKeeps
  <2>12. CASE WorkerFinished(r)
    BY <1>k, <2>12, WorkerFinishedKeeps
  <2>13. CASE WorkerTestReset(r)
    BY <1>k, <2>13, WorkerTestResetKeeps
  <2>14. CASE WorkerRetryNotify(r)
    BY <1>k, <2>14, WorkerRetryNotifyKeeps
  <2>15. CASE WorkerLeave(r)
    BY <1>k, <2>15, WorkerLeaveKeeps
  <2> QED BY <1>6, <2>1, <2>2, <2>3, <2>4, <2>5, <2>6, <2>7, <2>8, <2>9,
             <2>10, <2>11, <2>12, <2>13, <2>14, <2>15 DEF RenderWorker
<1>7. ASSUME NEW t \in Threads, Dispatch(t) PROVE EInv'
  <2>1. CASE DispatchCheck(t)
    BY <1>k, <2>1, DispatchCheckKeeps
  <2>2. CASE DispatchCpu(t)
    BY <1>k, <2>2, DispatchCpuKeeps
  <2>3. CASE DispatchRender(t)
    BY <1>k, <2>3, DispatchRenderKeeps
  <2>4. CASE DispatchNothing(t)
    BY <1>k, <2>4, DispatchNothingKeeps
  <2>5. CASE RuntimeSubmit(t)
    BY <1>k, <2>5, RuntimeSubmitKeeps
  <2>6. CASE DispatchRelease(t)
    BY <1>k, <2>6, DispatchReleaseKeeps
  <2>7. CASE DispatchRetry(t)
    BY <1>k, <2>7, DispatchRetryKeeps
  <2> QED BY <1>7, <2>1, <2>2, <2>3, <2>4, <2>5, <2>6, <2>7 DEF Dispatch
<1>8. ASSUME NEW t \in Threads, TryNotify(t) PROVE EInv'
  <2>1. CASE TryNotifyDefer(t)
    BY <1>k, <2>1, TryNotifyDeferKeeps
  <2>2. CASE TryNotifyClaim(t)
    BY <1>k, <2>2, TryNotifyClaimKeeps
  <2>3. CASE NotifyPreemption(t)
    BY <1>k, <2>3, NotifyPreemptionKeeps
  <2>4. CASE CommitNotification(t)
    BY <1>k, <2>4, CommitNotificationKeeps
  <2> QED BY <1>8, <2>1, <2>2, <2>3, <2>4 DEF TryNotify
<1>9. ASSUME NEW t \in Threads, Complete(t) PROVE EInv'
  <2>1. CASE CompleteCommit(t)
    BY <1>k, <2>1, CompleteCommitKeeps
  <2>2. CASE CompleteReport(t)
    BY <1>k, <2>2, CompleteReportKeeps
  <2>3. CASE CompleteRetire(t)
    BY <1>k, <2>3, CompleteRetireKeeps
  <2> QED BY <1>9, <2>1, <2>2, <2>3 DEF Complete
<1>10. CASE UNCHANGED vars
    BY <1>10, StutterKeeps
<1> QED BY <1>1, <1>2, <1>3, <1>4, <1>5, <1>6, <1>7, <1>8, <1>9, <1>10 DEF Next

\* The reservation is answered for, the queues agree and nobody forgets the CPU
\* queue, in every reachable state.
THEOREM ReservationAnswered == Spec => []EInv
<1>1. Init => EInv
    BY InitKeeps
<1>2. IInv /\ EInv /\ [Next]_vars => EInv'
    BY NextKeeps
<1> QED BY <1>1, <1>2, Inductive, PTL DEF Spec

-----------------------------------------------------------------------------
(* What it says of a driver at rest.                                       *)

\* The states of the render slot (ADMISSION_RENDER_PACKET.State).
SlotTyped == RenderPacket.State \in {"Empty", "Prepared", "Queued", "Active"}

\* Every step leaves the slot in one of them.
LEMMA SlotStep == IInv /\ SlotTyped /\ [Next]_vars => SlotTyped'
<1> SUFFICES ASSUME IInv, SlotTyped, [Next]_vars PROVE SlotTyped'
    OBVIOUS
<1>r. DOMAIN RenderPacket = {"State", "Fence", "Context"}
    BY DEF IInv, Records
<1>e. EmptyPacket.State = "Empty"
    BY DEF EmptyPacket
<1>s. \A state \in {"Queued", "Active"} : [RenderPacket EXCEPT !.State = state].State = state
    BY <1>r
<1>u. RenderPacket' = RenderPacket => SlotTyped'
    BY DEF SlotTyped
<1>d. (RenderPacket' = IF QueuedPair # {} THEN EmptyPacket ELSE RenderPacket) => SlotTyped'
    BY <1>e DEF SlotTyped
<1>1. CASE Submit
  <2>1. CASE PreparePacket
    BY <1>u, <2>1 DEF PreparePacket, SlotTyped
  <2>2. CASE QueuePacket
    BY <1>s, <2>2 DEF QueuePacket, SlotTyped
  <2>3. CASE RollbackPacket
    BY <1>e, <2>3 DEF RollbackPacket, SlotTyped
  <2>4. CASE ~(PreparePacket \/ QueuePacket \/ RollbackPacket)
    <3>1. RenderPacket' = RenderPacket
      BY <1>1, <2>4 DEF Submit, SubmitCpu, SubmitPresent, ResubmitPaging, CpuQueueAppend, SubmitRender,
         SubmitAdmissible, PendingReserve, PendingPublish, AwaitReady, AwaitSlot, AwaitGiveUp, renderVars
    <3> QED BY <1>u, <3>1
  <2> QED BY <2>1, <2>2, <2>3, <2>4
<1>2. CASE Preempt
    BY <1>2, <1>u, <1>d DEF Preempt, PreemptRefused, PreemptCommand
<1>3. CASE Reset
  <2>1. CASE ResetEngine
    BY <1>d, <2>1 DEF ResetEngine
  <2>2. CASE ~ResetEngine
    <3>1. RenderPacket' = RenderPacket
      BY <1>3, <2>2 DEF Reset, ResetBegin, QuiesceClaim, QuiesceWait, QuiesceCheck, QuiescePoll,
         QuiesceGiveUp, QuiesceEnded, ResetFails, ResetRetire, ResetClear, renderVars
    <3> QED BY <1>u, <3>1
  <2> QED BY <2>1, <2>2
<1>4. CASE Dpc
  <2>1. RenderPacket' = RenderPacket
    BY <1>4 DEF Dpc, DpcStart, PagingDpcTake, PagingDpcEnter, PagingDpcRetire, PagingDpcLeave,
       NotifyDpc, SchedulerDpcRead, SchedulerDpcTake, SchedulerDpcTry, SchedulerDpcRelease, renderVars
  <2> QED BY <1>u, <2>1
<1>5. ASSUME NEW p \in PagingWorkers, PagingWorker(p) PROVE SlotTyped'
  <2>1. RenderPacket' = RenderPacket
    BY <1>5 DEF PagingWorker, PagingWorkerStart, PagingRecordCompletion, PagingFail, PagingNotify,
       PagingWorkerLeave, renderVars
  <2> QED BY <1>u, <2>1
<1>6. ASSUME NEW r \in RenderWorkers, RenderWorker(r) PROVE SlotTyped'
  <2>1. CASE BindHead(r)
    <3>1. G4Pending # <<>> => [Head(G4Pending) EXCEPT !.State = "Prepared"].State = "Prepared"
      BY PendingHead DEF IInv, PendingType
    <3> QED BY <1>u, <2>1, <3>1 DEF BindHead, SlotTyped
  <2>2. CASE BindQueue(r)
    BY <1>e, <1>s, <2>2 DEF BindQueue, SlotTyped
  <2>3. CASE BindFail(r)
    BY <1>e, <2>3 DEF BindFail, SlotTyped
  <2>4. CASE ActivatePacket(r)
    BY <1>s, <2>4 DEF ActivatePacket, SlotTyped
  <2>5. CASE RenderPacket' = RenderPacket \/ RenderPacket' = EmptyPacket
    BY <1>u, <1>e, <2>5 DEF SlotTyped
  <2>6. CASE ~(BindHead(r) \/ BindQueue(r) \/ BindFail(r) \/ ActivatePacket(r))
    <3>1. RenderPacket' = RenderPacket \/ RenderPacket' = EmptyPacket
      BY <1>6, <2>6 DEF RenderWorker, RenderWorkerStart, ActivateSkip, ActivateFault,
         BackendSubmit, BackendSubmitFail, JobEnds, PollAbandon, WorkerFinished, WorkerTestReset,
         WorkerRetryNotify, WorkerLeave, renderVars
    <3> QED BY <2>5, <3>1
  <2> QED BY <2>1, <2>2, <2>3, <2>4, <2>6
<1>7. ASSUME NEW t \in Threads, Dispatch(t) \/ TryNotify(t) PROVE SlotTyped'
  <2>1. RenderPacket' = RenderPacket
    BY <1>7 DEF Dispatch, DispatchCheck, DispatchCpu, DispatchRender, DispatchNothing, RuntimeSubmit,
       DispatchRelease, DispatchRetry, TryNotify, TryNotifyDefer, TryNotifyClaim, NotifyPreemption,
       CommitNotification, renderVars
  <2> QED BY <1>u, <2>1
<1>8. ASSUME NEW t \in Threads, Complete(t) PROVE SlotTyped'
  <2>1. RenderPacket' = RenderPacket \/ RenderPacket' = EmptyPacket
    BY <1>8 DEF Complete, CompleteCommit, CompleteReport, CompleteRetire, renderVars
  <2> QED BY <1>u, <1>e, <2>1 DEF SlotTyped
<1>9. CASE UNCHANGED vars
    BY <1>u, <1>9 DEF vars, renderVars
<1> QED BY <1>1, <1>2, <1>3, <1>4, <1>5, <1>6, <1>7, <1>8, <1>9 DEF Next

\* So the slot is always in one of them.
LEMMA SlotAlways == Spec => []SlotTyped
<1>1. Init => SlotTyped
    BY DEF Init, SlotTyped, EmptyPacket
<1> QED BY <1>1, SlotStep, Inductive, PTL DEF Spec

\* At rest nobody is anywhere, so nothing runs, waits or is on its way.
LEMMA Rest ==
    ASSUME IInv, EInv, Quiescent, ~SchedulerFaulted
    PROVE  /\ \A t \in Threads : Lab(t) = ""
           /\ Lab(V) = "" /\ Lab(D) = "" /\ \A r \in RenderWorkers : Lab(r) = ""
           /\ ~CpuOwns /\ ~Awake /\ ~Paging.Pending /\ ~BindingNow
           /\ RenderPacket.State # "Active"
           /\ DispatchedFence # NoFence => CpuHas(DispatchedFence)
<1>1. /\ \A t \in Threads : pc[t] = <<>> /\ Lab(t) = ""
      /\ ~DpcQueued /\ ~Paging.WorkQueued /\ ~Platform.WorkQueued
    BY DEF Quiescent, Running, Lab, Top
<1>2. /\ Lab(V) = "" /\ Lab(D) = "" /\ pc[D] = <<>>
      /\ \A r \in RenderWorkers : Lab(r) = ""
      /\ \A p \in PagingWorkers : Lab(p) = ""
    BY <1>1, ThreadFacts
<1>3. ~CpuOwns
    BY <1>1, <1>2 DEF CpuOwns
<1>4. ~Awake
  <2>1. ~DpcAwake
    BY <1>2 DEF DpcAwake, DpcLabels, Frame
  <2> QED BY <1>1, <2>1 DEF Awake, WakeLabels
<1>5. ~Paging.Pending
    BY <1>1, <1>2 DEF EInv, WakeInv, TokenInv, DpcTook, Executing
<1>6. ~BindingNow
    BY <1>2 DEF BindingNow
<1>7. RenderPacket.State # "Active"
    BY <1>2 DEF EInv, EngineInv, ActiveHeld, RunLabels
<1>8. ASSUME NEW f, f # NoFence PROVE ~Waiting(f) /\ ~RunningJob(f) /\ ~ReportOnItsWay(f)
  <2>1. ~Executor(f)
    BY <1>1, <1>2 DEF Executor, Dispatching, Activating
  <2>2. loc[D].Job = NoFence
    BY <1>2 DEF EInv, EngineInv, DpcReleases, Frame
  <2>3. ~ReportOnItsWay(f)
    BY <1>1, <1>2, <1>8, <2>2 DEF ReportOnItsWay, Reporter, BeforeTake
  <2> QED BY <1>7, <2>1, <2>3 DEF Waiting, RunningJob
<1>9. DispatchedFence # NoFence => CpuHas(DispatchedFence)
  <2>1. PICK f : f = DispatchedFence
    OBVIOUS
  <2> QED BY <1>8, <2>1 DEF EInv, EngineInv, ReservedInv
<1> QED BY <1>1, <1>2, <1>3, <1>4, <1>5, <1>6, <1>7, <1>9

\* Everyone who reserves the engine gives it back: when no thread, work item or
\* DPC is left, neither a reservation (DispatchedFence) nor an active fence is,
\* but for a CPU packet that failed, whatever AdmissionDispatchQueuedWork, the
\* workers, the DPC, preemption and reset did and in whatever order.
THEOREM ReservationsGivenBack == Spec => []EngineReleased
<1>1. IInv /\ EInv => EngineReleased
  <2> SUFFICES ASSUME IInv, EInv, Quiescent, ~SchedulerFaulted
               PROVE  /\ DispatchedFence \in {NoFence, FailedFence}
                      /\ ActiveFence \in {NoFence, FailedFence}
    BY DEF EngineReleased
  <2>1. /\ ~CpuOwns /\ RenderPacket.State # "Active"
        /\ DispatchedFence # NoFence => CpuHas(DispatchedFence)
    BY Rest
  <2>2. DispatchedFence # NoFence => Paging.Fence = DispatchedFence /\ ~Paging.Ok
    BY <2>1 DEF CpuHas
  <2>3. ActiveFence # NoFence => Paging.Fence = ActiveFence /\ ~Paging.Ok
    BY <2>1 DEF IInv, OwnInv
  <2> QED BY <2>2, <2>3 DEF FailedFence
<1> QED BY <1>1, Inductive, ReservationAnswered, PTL

\* A fence that waits at rest is that of a render at the head of its queue: the
\* wakeup of a CPU packet is never lost (the DPC and every release dispatch
\* again), and the engine is idle when a render's is.
THEOREM CpuWakeupsKept == Spec => []OnlyRenderLost
<1>1. IInv /\ EInv /\ SlotTyped => OnlyRenderLost
  <2> SUFFICES ASSUME IInv, EInv, SlotTyped, Quiescent, ~SchedulerFaulted,
                      Preemption.Phase = Sched!Idle, ActiveFence = NoFence, FenceQueue # <<>>
               PROVE  ~CpuHead /\ RenderHead /\ Dispatchable
    BY DEF OnlyRenderLost
  <2>1. /\ Lab(V) = "" /\ ~CpuOwns /\ ~Awake /\ ~Paging.Pending /\ ~BindingNow
        /\ RenderPacket.State # "Active"
        /\ DispatchedFence # NoFence => CpuHas(DispatchedFence)
    BY Rest
  <2>2. /\ SchedTyped /\ Records /\ FenceQueueInv /\ BindInv /\ QueuesAgree
        /\ Dispatchable /\ CpuHead => Awake
    BY DEF IInv, EInv, QueueInv, WakeInv
  <2>3. QueuedFence # NoFence
    BY <2>2, QueueEmpty
  <2>4. DispatchedFence = NoFence
    BY <2>1 DEF CpuHas
  <2>5. Dispatchable
    BY <2>1, <2>3, <2>4 DEF Dispatchable, Sched!DispatchBlocked
  <2>6. ~CpuHead
    BY <2>1, <2>2, <2>5
  <2>7. PICK q \in 1 .. MaxFence : q = QueuedFence /\ InQueue(q) /\ \A f : InQueue(f) => f = q \/ q < f
    BY <2>2, QueueHead
  <2>n. MaxFence \in Nat /\ q \in Nat
    BY WindowAssumption
  <2>8. ~InCpu(q)
    <3>1. SUFFICES ASSUME NEW i \in 1 .. Len(CpuQueue), CpuQueue[i].Fence = q PROVE FALSE
      BY DEF InCpu
    <3>2. /\ CpuQueue \in Seq(CpuPacketType) /\ CpuQueue # <<>> /\ 1 \in 1 .. Len(CpuQueue)
          /\ Head(CpuQueue) = CpuQueue[1]
      BY <2>2, <3>1 DEF Records
    <3>3. i # 1
      BY <2>6, <2>7, <3>1, <3>2 DEF CpuHead
    <3>4. CpuQueue[1].Fence < q
      BY <2>2, <3>1, <3>2, <3>3 DEF QueuesAgree
    <3>5. InQueue(CpuQueue[1].Fence)
      BY <2>2, <3>2 DEF QueuesAgree, InCpu
    <3>6. CpuQueue[1] \in CpuPacketType
      BY <3>2, Member
    <3>7. CpuQueue[1].Fence \in 1 .. MaxFence
      BY <3>6 DEF CpuPacketType
    <3> QED BY <2>7, <2>n, <3>4, <3>5, <3>7
  <2>9. CASE InSlot(q)
    BY <2>6, <2>5, <2>7, <2>9 DEF InSlot, RenderHead
  <2>10. CASE InPending(q)
    <3>1. PICK i \in 1 .. Len(G4Pending) : Live(i) /\ G4Pending[i].Fence = q
      BY <2>10 DEF InPending
    <3>2. G4Pending # <<>>
      BY <2>2, <3>1 DEF Records
    <3>3. /\ 1 \in 1 .. Len(G4Pending) /\ Head(G4Pending) = G4Pending[1]
          /\ G4Pending[1] \in PendingType
      BY <2>2, <3>2, PendingHead
    <3>4. Head(G4Pending).State = "Queued"
      BY <2>1, <2>2, <3>2 DEF BindInv, Bound
    <3>5. G4Pending[1].Fence \in 1 .. MaxFence /\ Live(1)
      BY <3>3, <3>4 DEF PendingType, Live
    <3>6. InQueue(G4Pending[1].Fence)
      BY <2>2, <3>3, <3>5 DEF QueuesAgree, InPending
    <3>7. i = 1
      <4>1. SUFFICES ASSUME i # 1 PROVE FALSE
        OBVIOUS
      <4>2. 1 < i
        BY <3>3, <4>1
      <4>3. G4Pending[1].Fence < q
        BY <2>2, <3>1, <3>3, <3>5, <4>2 DEF QueuesAgree
      <4> QED BY <2>7, <2>n, <3>5, <3>6, <4>3
    <3>8. RenderPacket.State # "Prepared"
      BY <2>1, <2>2 DEF BindInv
    <3>9. RenderPacket.State # "Queued"
      <4>1. SUFFICES ASSUME RenderPacket.State = "Queued" PROVE FALSE
        OBVIOUS
      <4>2. InSlot(RenderPacket.Fence)
        BY <4>1 DEF InSlot
      <4>3. RenderPacket.Fence < q /\ InQueue(RenderPacket.Fence)
        BY <2>2, <2>10, <4>2 DEF QueuesAgree
      <4>4. PICK k \in 1 .. Len(FenceQueue) : FenceQueue[k] = RenderPacket.Fence
        BY <4>3 DEF InQueue
      <4>5. RenderPacket.Fence \in 1 .. MaxFence
        BY <2>2, <4>4, Member DEF SchedTyped
      <4> QED BY <2>7, <2>n, <4>3, <4>5
    <3>10. RenderPacket.State = "Empty"
      BY <2>1, <3>8, <3>9 DEF SlotTyped
    <3> QED BY <2>5, <2>6, <2>7, <3>1, <3>2, <3>3, <3>4, <3>7, <3>10 DEF RenderHead
  <2> QED BY <2>2, <2>7, <2>8, <2>9, <2>10 DEF QueuesAgree
<1> QED BY <1>1, Inductive, ReservationAnswered, SlotAlways, PTL

-----------------------------------------------------------------------------
(* Every queued fence has one packet.                                      *)

\* Counting a set by the indices of its elements.
LEMMA Counted ==
    ASSUME NEW n \in Nat, NEW T, NEW f \in [1 .. n -> T],
           \A x \in T : \E i \in 1 .. n : f[i] = x
    PROVE  /\ IsFiniteSet(T)
           /\ (\A i, j \in 1 .. n : i < j => f[i] # f[j]) => Cardinality(T) = n
<1>1. f \in Surjection(1 .. n, T)
    BY DEF Surjection
<1>2. IsFiniteSet(1 .. n) /\ Cardinality(1 .. n) = n
    BY FS_Interval
<1>3. /\ IsFiniteSet(T)
      /\ Cardinality(T) = Cardinality(1 .. n) <=> f \in Injection(1 .. n, T)
    BY <1>1, <1>2, FS_Surjection
<1>4. ASSUME \A i, j \in 1 .. n : i < j => f[i] # f[j] PROVE f \in Injection(1 .. n, T)
  <2>1. ASSUME NEW i \in 1 .. n, NEW j \in 1 .. n, f[i] = f[j] PROVE i = j
    <3>1. i < j \/ j < i \/ i = j
      OBVIOUS
    <3> QED BY <1>4, <2>1, <3>1
  <2> QED BY <2>1 DEF Injection, IsInjective
<1> QED BY <1>2, <1>3, <1>4

\* The scheduler's queue ...
LEMMA QueueCounted ==
    ASSUME SchedTyped, FenceQueueInv
    PROVE  /\ IsFiniteSet(Entries(FenceQueue)) /\ Cardinality(Entries(FenceQueue)) = Len(FenceQueue)
           /\ \A f : f \in Entries(FenceQueue) <=> InQueue(f)
<1>1. /\ FenceQueue \in Seq(1 .. MaxFence) /\ Len(FenceQueue) \in Nat /\ MaxFence \in Nat
      /\ DOMAIN FenceQueue = 1 .. Len(FenceQueue)
    BY WindowAssumption DEF SchedTyped
<1>2. \A f : f \in Entries(FenceQueue) <=> InQueue(f)
    BY DEF Entries, InQueue
<1>3. PICK g : g = [i \in 1 .. Len(FenceQueue) |-> FenceQueue[i]]
    OBVIOUS
<1>4. /\ g \in [1 .. Len(FenceQueue) -> Entries(FenceQueue)]
      /\ \A x \in Entries(FenceQueue) : \E i \in 1 .. Len(FenceQueue) : g[i] = x
    BY <1>3 DEF Entries
<1>5. \A i, j \in 1 .. Len(FenceQueue) : i < j => g[i] # g[j]
  <2>1. ASSUME NEW i \in 1 .. Len(FenceQueue), NEW j \in 1 .. Len(FenceQueue), i < j
        PROVE  g[i] # g[j]
    <3>1. FenceQueue[i] \in 1 .. MaxFence /\ FenceQueue[j] \in 1 .. MaxFence
      BY <1>1
    <3>2. FenceQueue[i] < FenceQueue[j]
      BY <2>1 DEF FenceQueueInv, Increasing
    <3> QED BY <1>1, <1>3, <3>1, <3>2
  <2> QED BY <2>1
<1> QED BY <1>1, <1>2, <1>4, <1>5, Counted

\* ... the CPU queue ...
LEMMA CpuCounted ==
    ASSUME Records, CpuOrder, NEW T, T = {packet.Fence : packet \in Entries(CpuQueue)}
    PROVE  /\ IsFiniteSet(T) /\ Cardinality(T) = Len(CpuQueue)
           /\ \A f : f \in T <=> InCpu(f)
<1>1. CpuQueue \in Seq(CpuPacketType) /\ Len(CpuQueue) \in Nat /\ MaxFence \in Nat
    BY WindowAssumption DEF Records
<1>2. \A f : f \in T <=> InCpu(f)
    BY DEF Entries, InCpu
<1>3. PICK g : g = [i \in 1 .. Len(CpuQueue) |-> CpuQueue[i].Fence]
    OBVIOUS
<1>4. /\ g \in [1 .. Len(CpuQueue) -> T]
      /\ \A x \in T : \E i \in 1 .. Len(CpuQueue) : g[i] = x
    BY <1>2, <1>3 DEF InCpu
<1>5. \A i, j \in 1 .. Len(CpuQueue) : i < j => g[i] # g[j]
  <2>1. ASSUME NEW i \in 1 .. Len(CpuQueue), NEW j \in 1 .. Len(CpuQueue), i < j
        PROVE  g[i] # g[j]
    <3>1. CpuQueue[i] \in CpuPacketType /\ CpuQueue[j] \in CpuPacketType
      BY <1>1
    <3>2. CpuQueue[i].Fence \in 1 .. MaxFence /\ CpuQueue[j].Fence \in 1 .. MaxFence
      BY <3>1 DEF CpuPacketType
    <3>3. CpuQueue[i].Fence < CpuQueue[j].Fence
      BY <2>1 DEF CpuOrder
    <3> QED BY <1>1, <1>3, <3>2, <3>3
  <2> QED BY <2>1
<1> QED BY <1>1, <1>2, <1>4, <1>5, Counted

\* ... and the pending ring.
LEMMA PendingCounted ==
    ASSUME Records, PendingOrder, NEW T, T = {entry.Fence : entry \in PendingDropped}
    PROVE  /\ IsFiniteSet(T) /\ IsFiniteSet(PendingDropped)
           /\ Cardinality(T) = Cardinality(PendingDropped)
           /\ \A f : f \in T <=> InPending(f)
<1>1. G4Pending \in Seq(PendingType) /\ Len(G4Pending) \in Nat /\ MaxFence \in Nat
    BY WindowAssumption DEF Records
<1>2. \A f : f \in T <=> InPending(f)
    BY DEF PendingDropped, Entries, InPending, Live
<1>3. IsFiniteSet(Entries(G4Pending))
  <2>1. PICK g : g = [i \in 1 .. Len(G4Pending) |-> G4Pending[i]]
    OBVIOUS
  <2>2. /\ g \in [1 .. Len(G4Pending) -> Entries(G4Pending)]
        /\ \A x \in Entries(G4Pending) : \E i \in 1 .. Len(G4Pending) : g[i] = x
    BY <2>1 DEF Entries
  <2> QED BY <1>1, <2>2, Counted
<1>4. IsFiniteSet(PendingDropped)
  <2>1. PendingDropped \in SUBSET Entries(G4Pending)
    BY DEF PendingDropped
  <2> QED BY <1>3, <2>1, FS_Subset
<1>5. PICK g : g = [entry \in PendingDropped |-> entry.Fence]
    OBVIOUS
<1>6. g \in Surjection(PendingDropped, T)
    BY <1>5 DEF Surjection
<1>7. g \in Injection(PendingDropped, T)
  <2>1. ASSUME NEW a \in PendingDropped, NEW b \in PendingDropped, a.Fence = b.Fence PROVE a = b
    <3>1. PICK i \in 1 .. Len(G4Pending) : a = G4Pending[i]
      BY DEF PendingDropped, Entries
    <3>2. PICK j \in 1 .. Len(G4Pending) : b = G4Pending[j]
      BY DEF PendingDropped, Entries
    <3>3. Live(i) /\ Live(j)
      BY <3>1, <3>2 DEF PendingDropped, Live
    <3>4. a \in PendingType /\ b \in PendingType
      BY <1>1, <3>1, <3>2
    <3>5. a.Fence \in 1 .. MaxFence /\ b.Fence \in 1 .. MaxFence
      BY <3>4 DEF PendingType
    <3>6. ~(i < j) /\ ~(j < i)
      <4>1. i < j => a.Fence < b.Fence
        BY <3>1, <3>2, <3>3 DEF PendingOrder
      <4>2. j < i => b.Fence < a.Fence
        BY <3>1, <3>2, <3>3 DEF PendingOrder
      <4> QED BY <1>1, <2>1, <3>5, <4>1, <4>2
    <3> QED BY <1>1, <3>1, <3>2, <3>6
  <2>2. g \in [PendingDropped -> T]
    BY <1>5
  <2> QED BY <1>5, <2>1, <2>2 DEF Injection, IsInjective
<1>8. IsFiniteSet(T) /\ Cardinality(T) = Cardinality(PendingDropped)
    BY <1>4, <1>6, <1>7, FS_Surjection
<1> QED BY <1>2, <1>4, <1>8

\* Every fence queued with the scheduler has exactly one packet, in the CPU
\* queue, the pending ring or the render slot, and every packet that waits has
\* its fence queued: the two are queued, taken, dropped and reset together,
\* whoever does it (AdmissionCpuQueueSubmit, AdmissionG4PendingQueue, the
\* workers, the preempt and the reset DDI).
THEOREM QueuesStayTogether == Spec => []QueueCoherent
<1>1. IInv /\ EInv => QueueCoherent
  <2> SUFFICES ASSUME IInv, EInv, ~SchedulerFaulted PROVE QueueCoherent
    BY DEF QueueCoherent
  <2>1. SchedTyped /\ Records /\ FenceQueueInv /\ QueuesAgree /\ MaxFence \in Nat
    BY WindowAssumption DEF IInv, EInv, QueueInv
  <2>2. CpuOrder /\ PendingOrder
    BY <2>1 DEF QueuesAgree, CpuOrder, PendingOrder
  <2>3. PICK Q, C, P, S :
          /\ Q = Entries(FenceQueue)
          /\ C = {packet.Fence : packet \in Entries(CpuQueue)}
          /\ P = {entry.Fence : entry \in PendingDropped}
          /\ S = {fence \in {RenderPacket.Fence} : RenderPacket.State = "Queued"}
    OBVIOUS
  <2>4. IsFiniteSet(Q) /\ Cardinality(Q) = Len(FenceQueue) /\ \A f : f \in Q <=> InQueue(f)
    BY <2>1, <2>3, QueueCounted
  <2>5. IsFiniteSet(C) /\ Cardinality(C) = Len(CpuQueue) /\ \A f : f \in C <=> InCpu(f)
    BY <2>1, <2>2, <2>3, CpuCounted
  <2>6. /\ IsFiniteSet(P) /\ Cardinality(P) = Cardinality(PendingDropped)
        /\ \A f : f \in P <=> InPending(f)
    BY <2>1, <2>2, <2>3, PendingCounted
  <2>7. IsFiniteSet(S) /\ \A f : f \in S <=> InSlot(f)
    <3>1. S \in SUBSET {RenderPacket.Fence} /\ IsFiniteSet({RenderPacket.Fence})
      BY <2>3, FS_Singleton
    <3>2. IsFiniteSet(S)
      BY <3>1, FS_Subset
    <3>3. \A f : f \in S <=> InSlot(f)
      BY <2>3 DEF InSlot
    <3> QED BY <3>2, <3>3
  <2>8. Q = C \cup P \cup S
    BY <2>1, <2>4, <2>5, <2>6, <2>7 DEF QueuesAgree
  <2>9. C \cap P = {}
    BY <2>1, <2>5, <2>6 DEF QueuesAgree
  <2>10. (C \cup P) \cap S = {}
    <3>1. ASSUME NEW f, f \in S PROVE f \notin C /\ f \notin P
      <4>1. InSlot(f) /\ InQueue(f) /\ ~InCpu(f)
        BY <2>1, <2>7, <3>1 DEF QueuesAgree
      <4>2. PICK k \in 1 .. Len(FenceQueue) : FenceQueue[k] = f
        BY <4>1 DEF InQueue
      <4>3. f \in 1 .. MaxFence
        BY <2>1, <4>2, Member DEF SchedTyped
      <4>4. InPending(f) => f < f
        BY <2>1, <4>1 DEF QueuesAgree
      <4> QED BY <2>1, <2>5, <2>6, <4>1, <4>3, <4>4
    <3> QED BY <3>1
  <2>11. IsFiniteSet(C \cup P) /\ Cardinality(C \cup P) = Cardinality(C) + Cardinality(P)
    <3>1. /\ IsFiniteSet(C \cup P)
          /\ Cardinality(C \cup P) = Cardinality(C) + Cardinality(P) - Cardinality(C \cap P)
      BY <2>5, <2>6, FS_Union
    <3>2. /\ Cardinality(C) \in Nat /\ Cardinality(P) \in Nat /\ Cardinality(C \cap P) = 0
      BY <2>5, <2>6, <2>9, FS_CardinalityType, FS_EmptySet
    <3> QED BY <3>1, <3>2
  <2>12. Cardinality(Q) = Cardinality(C) + Cardinality(P) + Cardinality(S)
    <3>1. Cardinality(Q) = Cardinality(C \cup P) + Cardinality(S) - Cardinality((C \cup P) \cap S)
      BY <2>7, <2>8, <2>11, FS_Union
    <3>2. /\ Cardinality(C \cup P) \in Nat /\ Cardinality(S) \in Nat
          /\ Cardinality((C \cup P) \cap S) = 0
      BY <2>7, <2>10, <2>11, FS_CardinalityType, FS_EmptySet
    <3> QED BY <2>11, <3>1, <3>2
  <2>13. {entry \in PendingDropped : TRUE} = PendingDropped
    OBVIOUS
  <2> QED BY <2>3, <2>4, <2>5, <2>6, <2>8, <2>12, <2>13 DEF QueueCoherent
<1> QED BY <1>1, Inductive, ReservationAnswered, PTL
=============================================================================
