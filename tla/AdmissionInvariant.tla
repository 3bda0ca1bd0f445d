-------------------------- MODULE AdmissionInvariant ------------------------
(***************************************************************************)
(* The inductive invariant of AdmissionDispatch and the lemmas its proof   *)
(* is made of.                                                             *)
(*                                                                         *)
(* The driver's threads interleave at any lock release, so the invariant   *)
(* has to say where every thread may be and what each place guarantees.    *)
(* IInv is the conjunction of: Control, the call stacks the threads can    *)
(* have; SchedTyped, the scheduler's fields; Records, the adapter's        *)
(* records and queues; CpuInv, one thread at a time holds the CPU packet,  *)
(* and PagingIdle tells the truth; WorkInv, one render work item at a time *)
(* works, and a polling reset has seen it leave; OwnInv, who owns the      *)
(* active fence; DeliveryInv, who delivers a preemption notification.      *)
(*                                                                         *)
(* A step moves one thread and touches few fields: the lemmas below say    *)
(* once what such a step keeps, part by part, and AdmissionProofs uses     *)
(* them for each action.                                                   *)
(***************************************************************************)
EXTENDS AdmissionDispatch, TLAPS

\* The places of the control state, by the function they belong to:
\* AdmissionDispatchQueuedWork, AdmissionTryNotifyPreemption,
\* AdmissionBackendComplete, the paging worker, the DPC, the render work item
\* (at work, and leaving), a virtual submission, the quiescence of a reset,
\* and the reset.
DispatchLabels == {"Dispatch", "Reserve", "RuntimeSubmit", "Release", "Retry"}
NotifyLabels == {"TryNotify", "NotifyPreemption", "Commit"}
CompleteLabels == {"Complete", "Report", "Retire"}
PagingLabels == {"PagingRun", "PagingNotify", "PagingLeave"}

DpcLabels == {"PagingDpc", "PagingDpcEnter", "PagingDpcRetire", "PagingDpcLeave",
              "NotifyDpc", "SchedulerDpc", "TakeRenderFence", "TestUnreported",
              "ReleaseReserved"}

WorkLabels == {"Bind", "BindQueue", "Activate", "BackendSubmit", "Poll", "Finish"}
LeaveLabels == {"FinishReset", "FinishRetry", "Leave"}

SubmitLabels == {"Admissible", "PendingReserve", "PendingPublish", "AwaitReady",
                 "AwaitSlot", "Prepare", "QueuePacket"}

QuiesceLabels == {"QuiesceClaim", "QuiesceWait", "QuiesceCheck", "QuiescePoll",
                  "QuiesceFail", "QuiesceEnded"}

ResetLabels == {"ResetEngine", "ResetRetire", "ResetClear"}

\* The labels a worker, VidSch and any thread can be at.
WorkerFrame == WorkLabels \cup LeaveLabels
HostLabels == SubmitLabels \cup QuiesceLabels \cup ResetLabels

Label == PagingLabels \cup WorkerFrame \cup CompleteLabels \cup DispatchLabels
           \cup NotifyLabels \cup DpcLabels \cup HostLabels

\* Where a thread is: the top of its call stack, or nowhere.
Top(s) == IF s = <<>> THEN "" ELSE Head(s)

\* A stack with one of these labels on top of the given rest.
Frame(s, labels, below) == s # <<>> /\ Head(s) \in labels /\ Tail(s) = below

\* A thread that dispatches may first try to deliver a notification; the DPC
\* and VidSch run their own code, dispatch and notify.
DispatchFrame == NotifyLabels \cup DispatchLabels
DpcFrame == DpcLabels \cup DispatchLabels
VidSchFrame == HostLabels \cup DispatchFrame

\* Who calls whom: a paging worker calls nobody; a render worker completes a
\* job, and dispatches and notifies when it leaves; the DPC dispatches or
\* notifies and comes back to release the reservation; VidSch submits,
\* preempts and resets, and a reset completes the job it polls.
StackOK(t, s) ==
    /\ t \in PagingWorkers => s = <<>> \/ Frame(s, PagingLabels, <<>>)
    /\ t \in RenderWorkers =>
         \/ s = <<>>
         \/ Frame(s, WorkerFrame, <<>>)
         \/ Frame(s, CompleteLabels, <<"Finish">>)
         \/ Frame(s, DispatchLabels, <<"Leave">>)
         \/ Frame(s, DispatchFrame, <<"Dispatch", "Leave">>)
    /\ t = D =>
         \/ s = <<>>
         \/ Frame(s, DpcFrame, <<>>)
         \/ Frame(s, DispatchFrame, <<"ReleaseReserved">>)
    /\ t = V =>
         \/ s = <<>>
         \/ Frame(s, VidSchFrame, <<>>)
         \/ Frame(s, CompleteLabels, <<"QuiesceCheck">>)

\* Every thread's stack is one of those.
Controlled(f) ==
    /\ f \in [Threads -> Seq(Label)]
    /\ \A t \in Threads : StackOK(t, f[t])

\* The part of the invariant about control.
Control == Controlled(pc)

\* A jump from one label to another inside one function, or from a function to
\* the one it ends with.
Fits(from, to) ==
    /\ from # "" /\ to # "" /\ to \in Label
    /\ from \in PagingLabels => to \in PagingLabels
    /\ from \in WorkerFrame => to \in WorkerFrame
    /\ from \in CompleteLabels => to \in CompleteLabels
    /\ from \in DispatchLabels => to \in DispatchLabels
    /\ from \in DispatchFrame => to \in DispatchFrame
    /\ from \in DpcFrame => to \in DpcFrame
    /\ from \in VidSchFrame => to \in VidSchFrame

-----------------------------------------------------------------------------

\* The threads of the model are different threads.
LEMMA ThreadFacts ==
    /\ V \in Threads /\ D \in Threads /\ V # D
    /\ V \notin PagingWorkers /\ V \notin RenderWorkers
    /\ D \notin PagingWorkers /\ D \notin RenderWorkers
    /\ PagingWorkers \subseteq Threads /\ RenderWorkers \subseteq Threads
    /\ \A t \in PagingWorkers : t \notin RenderWorkers
    BY ThreadsAssumption DEF V, D, Threads

\* At is a test of the top of the stack.
LEMMA TopAt ==
    ASSUME NEW s, NEW label, label # ""
    PROVE  (s # <<>> /\ Head(s) = label) <=> Top(s) = label
    BY DEF Top

\* Calling pushes a label.
LEMMA Pushed ==
    ASSUME NEW S, NEW s \in Seq(S), NEW label \in S
    PROVE  /\ <<label>> \o s \in Seq(S)
           /\ <<label>> \o s # <<>>
           /\ Head(<<label>> \o s) = label
           /\ Tail(<<label>> \o s) = s
    OBVIOUS

\* A stack of one call.
LEMMA Single ==
    ASSUME NEW S, NEW label \in S
    PROVE  /\ <<label>> \in Seq(S) /\ <<label>> # <<>>
           /\ Head(<<label>>) = label /\ Tail(<<label>>) = <<>>
    OBVIOUS

\* A stack of two calls.
LEMMA Double ==
    ASSUME NEW S, NEW label \in S, NEW below \in S
    PROVE  /\ <<label, below>> \in Seq(S) /\ <<label, below>> # <<>>
           /\ Head(<<label, below>>) = label /\ Tail(<<label, below>>) = <<below>>
    OBVIOUS

\* A stack of three calls.
LEMMA Triple ==
    ASSUME NEW S, NEW label \in S, NEW below \in S, NEW bottom \in S
    PROVE  /\ <<label, below, bottom>> \in Seq(S) /\ <<label, below, bottom>> # <<>>
           /\ Head(<<label, below, bottom>>) = label
           /\ Tail(<<label, below, bottom>>) = <<below, bottom>>
    OBVIOUS

\* The stacks that a return can uncover are stacks the thread can have.
LEMMA Belows ==
    /\ Top(<<>>) = "" /\ \A t : StackOK(t, <<>>)
    /\ Top(<<"Finish">>) = "Finish" /\ Frame(<<"Finish">>, WorkerFrame, <<>>)
    /\ Top(<<"Leave">>) = "Leave" /\ Frame(<<"Leave">>, WorkerFrame, <<>>)
    /\ Top(<<"Dispatch", "Leave">>) = "Dispatch"
    /\ Frame(<<"Dispatch", "Leave">>, DispatchLabels, <<"Leave">>)
    /\ Top(<<"ReleaseReserved">>) = "ReleaseReserved"
    /\ Frame(<<"ReleaseReserved">>, DpcFrame, <<>>)
    /\ Top(<<"QuiesceCheck">>) = "QuiesceCheck"
    /\ Frame(<<"QuiesceCheck">>, VidSchFrame, <<>>)
<1>1. Top(<<>>) = "" /\ \A t : StackOK(t, <<>>)
    BY DEF Top, StackOK
<1>2. \A l \in Label : <<l>> # <<>> /\ Head(<<l>>) = l /\ Tail(<<l>>) = <<>>
    BY Single
<1>3. /\ Top(<<"Dispatch", "Leave">>) = "Dispatch"
      /\ Frame(<<"Dispatch", "Leave">>, DispatchLabels, <<"Leave">>)
  <2>1. /\ <<"Dispatch", "Leave">> # <<>> /\ Head(<<"Dispatch", "Leave">>) = "Dispatch"
        /\ Tail(<<"Dispatch", "Leave">>) = <<"Leave">>
    BY Double
  <2> QED BY <2>1 DEF Top, Frame, DispatchLabels
<1>4. /\ "Finish" \in WorkerFrame /\ "Leave" \in WorkerFrame
      /\ "ReleaseReserved" \in DpcFrame /\ "QuiesceCheck" \in VidSchFrame
    BY DEF WorkerFrame, WorkLabels, LeaveLabels, DpcFrame, DpcLabels, VidSchFrame,
           HostLabels, QuiesceLabels
<1>5. Top(<<"Finish">>) = "Finish" /\ Frame(<<"Finish">>, WorkerFrame, <<>>)
    BY <1>2, <1>4 DEF Top, Frame
<1>6. Top(<<"Leave">>) = "Leave" /\ Frame(<<"Leave">>, WorkerFrame, <<>>)
    BY <1>2, <1>4 DEF Top, Frame
<1>7. /\ Top(<<"ReleaseReserved">>) = "ReleaseReserved"
      /\ Frame(<<"ReleaseReserved">>, DpcFrame, <<>>)
    BY <1>2, <1>4 DEF Top, Frame
<1>8. /\ Top(<<"QuiesceCheck">>) = "QuiesceCheck"
      /\ Frame(<<"QuiesceCheck">>, VidSchFrame, <<>>)
    BY <1>2, <1>4 DEF Top, Frame
<1> QED BY <1>1, <1>3, <1>5, <1>6, <1>7, <1>8

\* The functions share no label.
LEMMA Disjoint ==
    /\ \A label \in PagingLabels :
         label \notin WorkerFrame \cup CompleteLabels \cup DispatchLabels
                        \cup NotifyLabels \cup DpcLabels \cup HostLabels
    /\ \A label \in WorkerFrame :
         label \notin PagingLabels \cup CompleteLabels \cup DispatchLabels
                        \cup NotifyLabels \cup DpcLabels \cup HostLabels
    /\ \A label \in CompleteLabels :
         label \notin PagingLabels \cup WorkerFrame \cup DispatchLabels
                        \cup NotifyLabels \cup DpcLabels \cup HostLabels
    /\ \A label \in DispatchLabels :
         label \notin PagingLabels \cup WorkerFrame \cup CompleteLabels
                        \cup NotifyLabels \cup DpcLabels \cup HostLabels
    /\ \A label \in NotifyLabels :
         label \notin PagingLabels \cup WorkerFrame \cup CompleteLabels
                        \cup DispatchLabels \cup DpcLabels \cup HostLabels
    /\ \A label \in DpcLabels :
         label \notin PagingLabels \cup WorkerFrame \cup CompleteLabels
                        \cup DispatchLabels \cup NotifyLabels \cup HostLabels
    /\ \A label \in HostLabels :
         label \notin PagingLabels \cup WorkerFrame \cup CompleteLabels
                        \cup DispatchLabels \cup NotifyLabels \cup DpcLabels
    BY DEF PagingLabels, CompleteLabels, WorkerFrame, WorkLabels, LeaveLabels,
           HostLabels, SubmitLabels, QuiesceLabels, ResetLabels, DispatchLabels,
           NotifyLabels, DpcLabels

\* No label is the empty one.
LEMMA Labels ==
    /\ \A label \in PagingLabels : label \in Label /\ label # ""
    /\ \A label \in WorkerFrame : label \in Label /\ label # ""
    /\ \A label \in CompleteLabels : label \in Label /\ label # ""
    /\ \A label \in DispatchLabels : label \in Label /\ label # ""
    /\ \A label \in NotifyLabels : label \in Label /\ label # ""
    /\ \A label \in DpcLabels : label \in Label /\ label # ""
    /\ \A label \in HostLabels : label \in Label /\ label # ""
<1>1. \A label \in PagingLabels : label # ""
    BY DEF PagingLabels
<1>2. \A label \in WorkerFrame : label # ""
    BY DEF WorkerFrame, WorkLabels, LeaveLabels
<1>3. \A label \in CompleteLabels : label # ""
    BY DEF CompleteLabels
<1>4. \A label \in DispatchLabels : label # ""
    BY DEF DispatchLabels
<1>5. \A label \in NotifyLabels : label # ""
    BY DEF NotifyLabels
<1>6. \A label \in DpcLabels : label # ""
    BY DEF DpcLabels
<1>7. \A label \in HostLabels : label # ""
    BY DEF HostLabels, SubmitLabels, QuiesceLabels, ResetLabels
<1> QED BY <1>1, <1>2, <1>3, <1>4, <1>5, <1>6, <1>7 DEF Label

\* Thread t, and no other, moves from one label to another, and all stacks
\* stay possible.
Move(f, g, t, from, to) ==
    /\ Controlled(g)
    /\ Top(f[t]) = from
    /\ Top(g[t]) = to
    /\ \A u \in Threads \ {t} : g[u] = f[u]

\* A jump that fits is a move.
LEMMA GotoMoves ==
    ASSUME NEW f, NEW g, NEW t \in Threads, NEW from, NEW to,
           Controlled(f), f[t] # <<>>, Head(f[t]) = from, Fits(from, to),
           g = [f EXCEPT ![t] = <<to>> \o Tail(f[t])]
    PROVE  Move(f, g, t, from, to)
<1>1. f \in [Threads -> Seq(Label)] /\ f[t] \in Seq(Label)
    BY DEF Controlled
<1>2. Tail(f[t]) \in Seq(Label)
    BY <1>1
<1>3. to \in Label /\ to # ""
    BY DEF Fits
<1>4. PICK n \in Seq(Label) : /\ g = [f EXCEPT ![t] = n]
                               /\ n # <<>> /\ Head(n) = to /\ Tail(n) = Tail(f[t])
    BY <1>2, <1>3, Pushed
<1>5. g \in [Threads -> Seq(Label)] /\ g[t] = n /\ \A u \in Threads \ {t} : g[u] = f[u]
    BY <1>1, <1>4
<1>6. StackOK(t, n)
  <2>1. StackOK(t, f[t])
    BY DEF Controlled
  <2>2. \A labels \in {PagingLabels, WorkerFrame, CompleteLabels, DispatchLabels,
                      DispatchFrame, DpcFrame, VidSchFrame} :
          \A below : Frame(f[t], labels, below) => Frame(n, labels, below)
    BY <1>4 DEF Frame, Fits
  <2> HIDE DEF PagingLabels, WorkerFrame, CompleteLabels, DispatchLabels,
               DispatchFrame, DpcFrame, VidSchFrame
  <2> QED BY <2>1, <2>2 DEF StackOK
<1>7. Top(f[t]) = from /\ Top(g[t]) = to
    BY <1>4, <1>5 DEF Top
<1>8. ASSUME NEW u \in Threads PROVE StackOK(u, g[u])
    BY <1>5, <1>6 DEF Controlled
<1> QED BY <1>5, <1>7, <1>8 DEF Controlled, Move

\* So is the start of an idle thread.
LEMMA EnterMoves ==
    ASSUME NEW f, NEW g, NEW t \in Threads, NEW to \in Label, to # "",
           Controlled(f), f[t] = <<>>, g = [f EXCEPT ![t] = <<to>>],
           StackOK(t, <<to>>)
    PROVE  Move(f, g, t, "", to)
<1>1. f \in [Threads -> Seq(Label)]
    BY DEF Controlled
<1>2. <<to>> \in Seq(Label) /\ <<to>> # <<>> /\ Head(<<to>>) = to
    BY Single
<1>3. PICK n \in Seq(Label) : n = <<to>> /\ n # <<>> /\ Head(n) = to
    BY <1>2
<1>5. g \in [Threads -> Seq(Label)] /\ g[t] = n /\ \A u \in Threads \ {t} : g[u] = f[u]
    BY <1>1, <1>3
<1>7. Top(f[t]) = "" /\ Top(g[t]) = to
    BY <1>3, <1>5 DEF Top
<1>8. ASSUME NEW u \in Threads PROVE StackOK(u, g[u])
    BY <1>3, <1>5 DEF Controlled
<1> QED BY <1>5, <1>7, <1>8 DEF Controlled, Move

\* Where a thread is after a return.
Popped(t, from, to) ==
    /\ from \in DispatchFrame =>
         /\ t \in {V, D} \cup RenderWorkers
         /\ t \in RenderWorkers => to \in {"Leave", "Dispatch"}
         /\ t = D => to \in {"", "ReleaseReserved"}
         /\ t = V => to = ""
    /\ from \in CompleteLabels =>
         /\ t \in {V} \cup RenderWorkers
         /\ t \in RenderWorkers => to = "Finish"
         /\ t = V => to = "QuiesceCheck"
    /\ from \in PagingLabels \cup WorkerFrame \cup HostLabels => to = ""

\* A return is a move to the caller.
LEMMA ReturnMoves ==
    ASSUME NEW f, NEW g, NEW t \in Threads, NEW from,
           Controlled(f), f[t] # <<>>, Head(f[t]) = from,
           g = [f EXCEPT ![t] = Tail(f[t])]
    PROVE  Move(f, g, t, from, Top(g[t])) /\ Popped(t, from, Top(g[t]))
<1>1. f \in [Threads -> Seq(Label)] /\ f[t] \in Seq(Label)
    BY DEF Controlled
<1>2. Tail(f[t]) \in Seq(Label)
    BY <1>1
<1>3. g \in [Threads -> Seq(Label)] /\ g[t] = Tail(f[t]) /\ \A u \in Threads \ {t} : g[u] = f[u]
    BY <1>1, <1>2
<1>4. StackOK(t, f[t])
    BY DEF Controlled
<1>5. t \in {V, D} \cup PagingWorkers \cup RenderWorkers
    BY DEF Threads
<1> DEFINE n == Tail(f[t])
<1>7. \A labels, below : Frame(f[t], labels, below) => from \in labels /\ n = below
    BY DEF Frame
<1> HIDE DEF n
<1>8. StackOK(t, n) /\ Popped(t, from, Top(n))
  <2>1. CASE t \in PagingWorkers
    <3>1. from \in PagingLabels /\ n = <<>>
      BY <1>4, <1>7, <2>1 DEF StackOK
    <3> QED BY <3>1, Belows, Disjoint DEF Popped, DispatchFrame
  <2>2. CASE t \in RenderWorkers
    <3>1. \/ from \in WorkerFrame /\ n = <<>>
          \/ from \in CompleteLabels /\ n = <<"Finish">>
          \/ from \in DispatchLabels /\ n = <<"Leave">>
          \/ from \in DispatchFrame /\ n = <<"Dispatch", "Leave">>
      BY <1>4, <1>7, <2>2 DEF StackOK
    <3>2. t \notin PagingWorkers /\ t # D /\ t # V
      BY <2>2, ThreadFacts
    <3>3. StackOK(t, n)
      BY <3>1, <3>2, Belows DEF StackOK
    <3>4. DispatchLabels \subseteq DispatchFrame
      BY DEF DispatchFrame
    <3>5. Popped(t, from, Top(n))
      BY <2>2, <3>1, <3>2, <3>4, Belows, Disjoint DEF Popped, DispatchFrame
    <3> QED BY <3>3, <3>5
  <2>3. CASE t = D
    <3>1. \/ from \in DpcFrame /\ n = <<>>
          \/ from \in DispatchFrame /\ n = <<"ReleaseReserved">>
      BY <1>4, <1>7, <2>3 DEF StackOK
    <3>2. t \notin PagingWorkers /\ t \notin RenderWorkers /\ t # V
      BY <2>3, ThreadFacts
    <3>3. StackOK(t, n)
      BY <3>1, <3>2, Belows DEF StackOK
    <3>4. Popped(t, from, Top(n))
      BY <2>3, <3>1, <3>2, Belows, Disjoint DEF Popped, DpcFrame, DispatchFrame
    <3> QED BY <3>3, <3>4
  <2>4. CASE t = V
    <3>1. \/ from \in VidSchFrame /\ n = <<>>
          \/ from \in CompleteLabels /\ n = <<"QuiesceCheck">>
      BY <1>4, <1>7, <2>4 DEF StackOK
    <3>2. t \notin PagingWorkers /\ t \notin RenderWorkers /\ t # D
      BY <2>4, ThreadFacts
    <3>3. StackOK(t, n)
      BY <3>1, <3>2, Belows DEF StackOK
    <3>4. Popped(t, from, Top(n))
      BY <2>4, <3>1, <3>2, Belows, Disjoint
         DEF Popped, VidSchFrame, DispatchFrame
    <3> QED BY <3>3, <3>4
  <2> QED BY <1>5, <2>1, <2>2, <2>3, <2>4
<1>9. Top(f[t]) = from /\ g[t] = n
    BY <1>3 DEF Top, n
<1>10. ASSUME NEW u \in Threads PROVE StackOK(u, g[u])
    BY <1>3, <1>8, <1>9 DEF Controlled
<1> QED BY <1>3, <1>8, <1>9, <1>10 DEF Controlled, Move

\* Setting a thread's stack to a possible one is a move.
LEMMA SetMoves ==
    ASSUME NEW f, NEW g, NEW t \in Threads, NEW n \in Seq(Label),
           Controlled(f), StackOK(t, n), g = [f EXCEPT ![t] = n]
    PROVE  Move(f, g, t, Top(f[t]), Top(n))
<1>1. f \in [Threads -> Seq(Label)]
    BY DEF Controlled
<1>2. g \in [Threads -> Seq(Label)] /\ g[t] = n /\ \A u \in Threads \ {t} : g[u] = f[u]
    BY <1>1
<1>3. ASSUME NEW u \in Threads PROVE StackOK(u, g[u])
    BY <1>2 DEF Controlled
<1> QED BY <1>2, <1>3 DEF Controlled, Move

\* A call is a move to the callee.
LEMMA CallMoves ==
    ASSUME NEW f, NEW g, NEW t \in Threads, NEW from, NEW to \in Label, NEW return \in Label,
           Controlled(f), f[t] # <<>>, Head(f[t]) = from,
           g = [f EXCEPT ![t] = <<to, return>> \o Tail(f[t])],
           \/ t = D /\ from \in DpcLabels /\ to \in DispatchFrame /\ return = "ReleaseReserved"
           \/ t \in RenderWorkers /\ from \in WorkerFrame /\ to \in CompleteLabels /\ return = "Finish"
           \/ t = V /\ from \in QuiesceLabels /\ to \in CompleteLabels /\ return = "QuiesceCheck"
    PROVE  Move(f, g, t, from, to)
<1>1. StackOK(t, f[t])
    BY DEF Controlled
<1>2. \A labels, below : Frame(f[t], labels, below) => from \in labels /\ Tail(f[t]) = below
    BY DEF Frame
<1>3. Tail(f[t]) = <<>>
  <2>1. CASE t = D /\ from \in DpcLabels
    BY <1>1, <1>2, <2>1, Disjoint DEF StackOK, DispatchFrame
  <2>2. CASE t \in RenderWorkers /\ from \in WorkerFrame
    BY <1>1, <1>2, <2>2, Disjoint DEF StackOK, DispatchFrame
  <2>3. CASE t = V /\ from \in QuiesceLabels
    BY <1>1, <1>2, <2>3, Disjoint DEF StackOK, DispatchFrame, HostLabels
  <2> QED BY <2>1, <2>2, <2>3
<1>4. <<to, return>> \o <<>> = <<to, return>>
    OBVIOUS
<1>5. PICK n \in Seq(Label) : /\ n = <<to, return>> /\ n # <<>>
                               /\ Head(n) = to /\ Tail(n) = <<return>>
    BY Double
<1>6. StackOK(t, n)
    BY <1>5, ThreadFacts DEF StackOK, Frame
<1>7. g = [f EXCEPT ![t] = n]
    BY <1>3, <1>4, <1>5
<1>8. Move(f, g, t, Top(f[t]), Top(n))
    BY <1>5, <1>6, <1>7, SetMoves
<1>9. Top(f[t]) = from /\ Top(n) = to
    BY <1>5 DEF Top
<1> QED BY <1>8, <1>9

\* The jumps of the model all fit.
LEMMA Jumps ==
    /\ Fits("Dispatch", "Reserve") /\ Fits("Reserve", "RuntimeSubmit")
    /\ Fits("RuntimeSubmit", "Release") /\ Fits("Release", "Retry")
    /\ Fits("Retry", "Reserve")
    /\ Fits("TryNotify", "NotifyPreemption") /\ Fits("NotifyPreemption", "Commit")
    /\ Fits("Commit", "Dispatch")
    /\ Fits("PagingRun", "PagingNotify") /\ Fits("PagingNotify", "PagingLeave")
    /\ Fits("PagingDpc", "PagingDpcEnter") /\ Fits("PagingDpc", "NotifyDpc")
    /\ Fits("PagingDpcEnter", "PagingDpcRetire")
    /\ Fits("PagingDpcRetire", "PagingDpcLeave") /\ Fits("PagingDpcLeave", "NotifyDpc")
    /\ Fits("NotifyDpc", "SchedulerDpc") /\ Fits("SchedulerDpc", "TakeRenderFence")
    /\ Fits("TakeRenderFence", "TestUnreported")
    /\ Fits("TestUnreported", "ReleaseReserved") /\ Fits("ReleaseReserved", "Dispatch")
    /\ Fits("Bind", "BindQueue") /\ Fits("Bind", "Activate")
    /\ Fits("BindQueue", "Activate") /\ Fits("BindQueue", "Finish")
    /\ Fits("Activate", "Finish") /\ Fits("Activate", "BackendSubmit")
    /\ Fits("BackendSubmit", "Poll") /\ Fits("BackendSubmit", "Finish")
    /\ Fits("Poll", "Finish") /\ Fits("Finish", "FinishReset")
    /\ Fits("FinishReset", "Leave") /\ Fits("FinishReset", "FinishRetry")
    /\ Fits("Complete", "Report") /\ Fits("Report", "Retire")
    /\ Fits("Admissible", "PendingReserve") /\ Fits("Admissible", "AwaitReady")
    /\ Fits("PendingReserve", "PendingPublish") /\ Fits("PendingPublish", "Dispatch")
    /\ Fits("AwaitReady", "AwaitSlot") /\ Fits("AwaitSlot", "Prepare")
    /\ Fits("AwaitSlot", "AwaitReady") /\ Fits("Prepare", "QueuePacket")
    /\ Fits("QueuePacket", "Dispatch")
    /\ Fits("QuiesceClaim", "QuiesceWait") /\ Fits("QuiesceWait", "QuiesceCheck")
    /\ Fits("QuiesceCheck", "QuiesceEnded") /\ Fits("QuiesceCheck", "QuiescePoll")
    /\ Fits("QuiesceCheck", "QuiesceFail") /\ Fits("QuiesceEnded", "ResetEngine")
    /\ Fits("ResetEngine", "ResetRetire") /\ Fits("ResetRetire", "ResetClear")
<1>1. /\ \A from, to \in DispatchLabels : Fits(from, to)
      /\ \A from \in NotifyLabels, to \in DispatchFrame : Fits(from, to)
    BY Disjoint, Labels DEF Fits, DispatchFrame, DpcFrame, VidSchFrame
<1>2. /\ \A from, to \in CompleteLabels : Fits(from, to)
      /\ \A from, to \in PagingLabels : Fits(from, to)
    BY Disjoint, Labels DEF Fits, DispatchFrame, DpcFrame, VidSchFrame
<1>3. /\ \A from \in DpcLabels, to \in DpcFrame : Fits(from, to)
    BY Disjoint, Labels DEF Fits, DispatchFrame, DpcFrame, VidSchFrame
<1>4. /\ \A from, to \in WorkerFrame : Fits(from, to)
    BY Disjoint, Labels DEF Fits, DispatchFrame, DpcFrame, VidSchFrame
<1>5. \A from \in HostLabels, to \in VidSchFrame :
        Fits(from, to)
    BY Disjoint, Labels DEF Fits, DispatchFrame, DpcFrame, VidSchFrame
<1> QED
  BY <1>1, <1>2, <1>3, <1>4, <1>5
     DEF PagingLabels, WorkerFrame, CompleteLabels, DispatchLabels,
           DispatchFrame, DpcFrame, VidSchFrame, WorkLabels, LeaveLabels, NotifyLabels,
           DpcLabels, HostLabels, SubmitLabels, QuiesceLabels, ResetLabels

-----------------------------------------------------------------------------
(* The invariant.                                                          *)

\* Records are typed by their fields, which is what the steps change.
LocalFields == {"Fence", "Attempt", "Preemption", "LastCompleted", "Job", "Context",
                "Reserved", "Flag"}

PagingFields == {"Pending", "Fence", "Context", "Ok", "DpcPending", "WorkQueued"}
PlatformFields == {"Phase", "WorkScheduled", "WorkQueued", "WorkIdle", "Resetting"}
CpuPacketType == [Fence : 1 .. MaxFence, Context : Contexts \cup {NoContext}]

\* Where thread t is.
Lab(t) == Top(pc[t])

\* The adapter's records keep their fields, the queues hold packets, and a
\* submission in progress has a fence and a context.
Records ==
    /\ DOMAIN loc = Threads
    /\ \A t \in Threads : DOMAIN loc[t] = LocalFields
    /\ Lab(V) \in SubmitLabels => loc[V].Job \in 1 .. MaxFence /\ loc[V].Context \in Contexts
    /\ DOMAIN Paging = PagingFields
    /\ DOMAIN Platform = PlatformFields
    /\ DOMAIN RenderPacket = {"State", "Fence", "Context"}
    /\ DOMAIN Used = {"Preemptions", "Resets"}
    /\ CpuQueue \in Seq(CpuPacketType)
    /\ G4Pending \in Seq(PendingType)

\* What the adapter relies on of the scheduler's fields.
SchedTyped ==
    /\ LastSubmittedFence \in 0 .. MaxFence
    /\ FenceQueue \in Seq(1 .. MaxFence)
    /\ QueuedFence \in 0 .. MaxFence
    /\ ActiveFence \in 0 .. MaxFence
    /\ Owed \subseteq 1 .. MaxFence
    /\ PagingFences \subseteq 1 .. MaxFence
    /\ DOMAIN Preemption = {"Phase", "Fence", "Cutoff", "Active", "LastCompleted"}
    /\ Preemption.Phase # Sched!Idle => Preemption.Fence \in PreemptionFences

\* The paging worker that has taken the packet, and the DPC that has taken its
\* completion.
Executing(p) == Lab(p) \in {"PagingRun", "PagingNotify"}
DpcTook == Lab(D) \in {"PagingDpcEnter", "PagingDpcRetire"}

\* The CPU packet is in one place: queued as a work item, with the worker that
\* executes it, waiting for the DPC, or with the DPC that reports it.
PagingToken ==
    /\ Paging.WorkQueued => Paging.Pending /\ ~Paging.DpcPending
    /\ Paging.DpcPending => Paging.Pending
    /\ DpcTook => Paging.Pending /\ ~Paging.WorkQueued /\ ~Paging.DpcPending
    /\ \A p \in PagingWorkers : Executing(p) =>
         /\ Paging.Pending /\ ~Paging.WorkQueued /\ ~Paging.DpcPending /\ ~DpcTook
         /\ \A q \in PagingWorkers \ {p} : ~Executing(q)

\* ... and the event PagingStop waits for is set exactly when nothing of the
\* CPU executor is left.
CpuInv == PagingToken /\ PagingIdle = PagingQuiet

\* A render worker is at work until it has finished its job; a reset polls
\* from the moment it has seen the worker leave.
WorkingLabels == WorkLabels \cup CompleteLabels
PollingLabels == {"QuiesceCheck", "QuiescePoll", "QuiesceFail"} \cup CompleteLabels

\* One render worker works at a time, and only while WorkScheduled says so;
\* WorkIdle means that none is queued or leaving; a reset that polls has the
\* platform marked Resetting and idle, so that no worker polls beside it.
WorkInv ==
    /\ Platform.WorkQueued => Platform.WorkScheduled
    /\ \A r \in RenderWorkers : Lab(r) \in WorkingLabels =>
         /\ Platform.WorkScheduled /\ ~Platform.WorkQueued
         /\ \A q \in RenderWorkers \ {r} : Lab(q) \notin WorkingLabels
    /\ Platform.WorkIdle =>
         ~Platform.WorkQueued /\ \A r \in RenderWorkers : Lab(r) = ""
    /\ Lab(V) \in PollingLabels => Platform.Resetting /\ Platform.WorkIdle
    /\ Lab(V) = "QuiesceWait" => Platform.Resetting

\* The CPU executor has not recorded its packet's completion yet.
CpuOwns == Paging.WorkQueued \/ \E p \in PagingWorkers : Lab(p) = "PagingRun"

\* Places where a thread acts on the active render packet.
HolderLabels == {"BackendSubmit", "Poll", "Complete", "QuiescePoll"}

\* Who owns the active fence: the CPU executor, the active render packet, or a
\* CPU packet that failed.  The firmware holds a job only while its packet is
\* active, whoever acts on the packet finds it active and unchanged, and a
\* packet being bound belongs to the thread that binds it alone.
OwnInv ==
    /\ RenderPacket.State = "Active" =>
         ActiveFence = RenderPacket.Fence /\ ActiveFence # NoFence
    /\ Platform.Phase = "Submitted" => RenderPacket.State = "Active"
    /\ CpuOwns => Paging.Fence = ActiveFence /\ ActiveFence # NoFence
                    /\ RenderPacket.State # "Active"
    /\ ActiveFence # NoFence =>
         \/ CpuOwns
         \/ RenderPacket.State = "Active"
         \/ Paging.Fence = ActiveFence /\ ~Paging.Ok
    /\ \A t \in RenderWorkers \cup {V} : Lab(t) \in HolderLabels =>
         RenderPacket.State = "Active" /\ RenderPacket.Fence = loc[t].Job
    /\ \A t \in RenderWorkers \cup {V} :
         Lab(t) \in {"BackendSubmit", "Complete"} => Platform.Phase # "Submitted"
    /\ \A t \in RenderWorkers \cup {V} :
         Lab(t) \in {"BindQueue", "QueuePacket"} =>
           /\ RenderPacket.State = "Prepared"
           /\ \A u \in RenderWorkers \cup {V} :
                u # t => Lab(u) \notin {"BindQueue", "QueuePacket"}
    /\ \A r \in RenderWorkers : Lab(r) = "BindQueue" =>
         G4Pending # <<>> /\ Head(G4Pending).State \in {"Binding", "Dropped"}

\* Places between the claim and the commit of a notification.
DeliveryLabels == {"NotifyPreemption", "Commit"}
ResettingLabels == QuiesceLabels \cup ResetLabels \cup CompleteLabels

\* As long as Windows does not reset the engine, one thread at a time delivers
\* a notification that Windows still waits for.  A reset may run between the
\* claim and the commit, after which a second thread can deliver the next one.
DeliveryInv ==
    MaxResets = 0 =>
        /\ Used.Resets = 0
        /\ Lab(V) \notin ResettingLabels
        /\ Preemption.Phase \in {Sched!WaitCurrentBoundary, Sched!ReadyToNotify} =>
             Preempting = "Waiting"
        /\ \A t \in Threads : Lab(t) \in DeliveryLabels =>
             /\ Preemption.Phase = Sched!NotificationClaimed
             /\ Lab(t) = "NotifyPreemption" => Preempting = "Waiting"
             /\ \A u \in Threads \ {t} : Lab(u) \notin DeliveryLabels

\* The inductive invariant.
IInv ==
    /\ Control
    /\ SchedTyped
    /\ Records
    /\ CpuInv
    /\ WorkInv
    /\ OwnInv
    /\ DeliveryInv

-----------------------------------------------------------------------------
(* The scheduler's part.                                                   *)

\* What a step does to the scheduler: nothing, or one of the calls the driver
\* makes.
SchedulerCall ==
    \/ UNCHANGED schedulerVars
    \/ \E fence \in 1 .. MaxFence, paging \in BOOLEAN : Sched!QueueFence(fence, paging)
    \/ \E fence \in Owed : Sched!QueueResubmittedPagingFence(fence)
    \/ \E fence \in 0 .. MaxFence : Sched!ActivateFence(fence)
    \/ \E fence \in 0 .. MaxFence : Sched!RecordCompletion(fence)
    \/ \E preemption \in PreemptionFences : Sched!BeginBoundaryPreemption(preemption)
    \/ Sched!ClaimBoundaryPreemption
    \/ \E preemption \in PreemptionFences : Sched!CommitBoundaryPreemption(preemption)
    \/ Sched!ResetEngine

\* The scheduler starts with its fields typed.
LEMMA SchedInit == Sched!Init => SchedTyped
    BY WindowAssumption, HalfRangeAssumption
       DEF Sched!Init, SchedTyped, Sched!NoFence, Sched!NoPreemption, Sched!Idle

\* Every call keeps them typed, and is a step of AgxScheduler.
LEMMA CallTyped ==
    ASSUME SchedTyped, SchedulerCall
    PROVE  SchedTyped' /\ [Sched!Next]_(Sched!vars)
<1>0. MaxFence \in Nat \ {0} /\ 0 .. MaxFence \subseteq Sched!Fence
    BY WindowAssumption, HalfRangeAssumption DEF Sched!Fence, Sched!Modulus
<1>e. <<>> \in Seq(1 .. MaxFence)
    OBVIOUS
<1>1. CASE UNCHANGED schedulerVars
    BY <1>1 DEF schedulerVars, SchedTyped, Sched!vars
<1>2. ASSUME NEW fence \in 1 .. MaxFence, NEW paging \in BOOLEAN,
             Sched!QueueFence(fence, paging)
      PROVE  SchedTyped' /\ Sched!Next
  <2>1. Sched!Next
    BY <1>0, <1>2 DEF Sched!Next
  <2>2. /\ LastSubmittedFence' = fence
        /\ FenceQueue' = Append(FenceQueue, fence)
        /\ QueuedFence' \in {fence, QueuedFence}
        /\ ActiveFence' = ActiveFence /\ Preemption' = Preemption /\ Owed' = Owed
        /\ PagingFences' \subseteq PagingFences \cup {fence}
    BY <1>2 DEF Sched!QueueFence, Sched!SchedQueueFence, Sched!PushFence
  <2>3. FenceQueue' \in Seq(1 .. MaxFence)
    BY <2>2 DEF SchedTyped
  <2>4. SchedTyped'
    BY <1>0, <2>2, <2>3 DEF SchedTyped
  <2> QED BY <2>1, <2>4
<1>3. ASSUME NEW fence \in Owed, Sched!QueueResubmittedPagingFence(fence)
      PROVE  SchedTyped' /\ Sched!Next
  <2>0. fence \in 1 .. MaxFence
    BY DEF SchedTyped
  <2>1. Sched!Next
    BY <1>0, <1>3, <2>0 DEF Sched!Next
  <2>2. /\ LastSubmittedFence' = LastSubmittedFence
        /\ FenceQueue' = Append(FenceQueue, fence)
        /\ QueuedFence' \in {fence, QueuedFence}
        /\ ActiveFence' = ActiveFence /\ Preemption' = Preemption /\ Owed' \subseteq Owed
        /\ PagingFences' = PagingFences
    BY <1>3 DEF Sched!QueueResubmittedPagingFence,
                Sched!SchedQueueResubmittedPagingFence, Sched!PushFence
  <2>3. FenceQueue' \in Seq(1 .. MaxFence)
    BY <2>0, <2>2 DEF SchedTyped
  <2>4. SchedTyped'
    BY <1>0, <2>0, <2>2, <2>3 DEF SchedTyped
  <2> QED BY <2>1, <2>4
<1>4. ASSUME NEW fence \in 0 .. MaxFence, Sched!ActivateFence(fence)
      PROVE  SchedTyped' /\ Sched!Next
  <2>1. Sched!Next
    BY <1>0, <1>4 DEF Sched!Next
  <2>2. /\ LastSubmittedFence' = LastSubmittedFence
        /\ FenceQueue # <<>>
        /\ FenceQueue' = Tail(FenceQueue)
        /\ QueuedFence' = Sched!HeadOrNone(Tail(FenceQueue))
        /\ ActiveFence' = fence /\ Preemption' = Preemption /\ Owed' = Owed
        /\ PagingFences' = PagingFences
    BY <1>4 DEF Sched!ActivateFence, Sched!SchedActivateFence, Sched!MayActivateFence,
                Sched!vidschVars
  <2>3. Tail(FenceQueue) \in Seq(1 .. MaxFence)
    BY <2>2 DEF SchedTyped
  <2>4. Sched!HeadOrNone(Tail(FenceQueue)) \in 0 .. MaxFence
    BY <1>0, <2>3 DEF Sched!HeadOrNone, Sched!NoFence
  <2>5. SchedTyped'
    BY <1>0, <2>2, <2>3, <2>4 DEF SchedTyped
  <2> QED BY <2>1, <2>5
<1>5. ASSUME NEW fence \in 0 .. MaxFence, Sched!RecordCompletion(fence)
      PROVE  SchedTyped' /\ Sched!Next
  <2>1. Sched!Next
    BY <1>0, <1>5 DEF Sched!Next
  <2>2. /\ LastSubmittedFence' = LastSubmittedFence
        /\ FenceQueue' = FenceQueue /\ QueuedFence' = QueuedFence
        /\ ActiveFence' = 0 /\ Owed' = Owed
        /\ PagingFences' = PagingFences \ {fence}
        /\ Preemption' = IF Preemption.Phase = Sched!WaitCurrentBoundary
                         THEN Sched!BoundaryObserved(fence) ELSE Preemption
    BY <1>5
       DEF Sched!RecordCompletion, Sched!SchedRecordCompletion, Sched!NoFence
  <2>3. /\ DOMAIN Preemption' = {"Phase", "Fence", "Cutoff", "Active", "LastCompleted"}
        /\ Preemption'.Phase # Sched!Idle => Preemption'.Fence \in PreemptionFences
    BY <2>2
       DEF SchedTyped, Sched!BoundaryObserved, Sched!WaitCurrentBoundary,
           Sched!Idle
  <2>4. SchedTyped'
    BY <1>0, <2>2, <2>3 DEF SchedTyped
  <2> QED BY <2>1, <2>4
<1>6. ASSUME NEW preemption \in PreemptionFences, Sched!BeginBoundaryPreemption(preemption)
      PROVE  SchedTyped' /\ Sched!Next
  <2>1. Sched!Next
    BY <1>6 DEF Sched!Next
  <2>2. /\ LastSubmittedFence' = LastSubmittedFence
        /\ FenceQueue' = <<>> /\ QueuedFence' = 0 /\ ActiveFence' = ActiveFence
        /\ Owed' = Owed \cup (Sched!Elements(FenceQueue) \cap PagingFences)
        /\ PagingFences' = Owed' \cup (PagingFences \cap {ActiveFence})
        /\ Preemption' =
             [Phase |-> IF ActiveFence = 0 THEN Sched!ReadyToNotify ELSE Sched!WaitCurrentBoundary,
              Fence |-> preemption, Cutoff |-> LastSubmittedFence,
              Active |-> ActiveFence, LastCompleted |-> CompletedFence]
    BY <1>6 DEF Sched!BeginBoundaryPreemption, Sched!SchedBeginBoundaryPreemption,
                Sched!NoFence
  <2>3. /\ DOMAIN Preemption' = {"Phase", "Fence", "Cutoff", "Active", "LastCompleted"}
        /\ Preemption'.Fence = preemption
    BY <2>2
  <2>4. Owed' \subseteq 1 .. MaxFence /\ PagingFences' \subseteq 1 .. MaxFence
    BY <2>2 DEF SchedTyped
  <2>5. SchedTyped'
    BY <1>0, <1>e, <2>2, <2>3, <2>4 DEF SchedTyped
  <2> QED BY <2>1, <2>5
<1>7. CASE Sched!ClaimBoundaryPreemption
  <2>1. Sched!Next
    BY <1>7 DEF Sched!Next
  <2>2. /\ LastSubmittedFence' = LastSubmittedFence
        /\ FenceQueue' = FenceQueue /\ QueuedFence' = QueuedFence
        /\ ActiveFence' = ActiveFence /\ Owed' = Owed /\ PagingFences' = PagingFences
        /\ Preemption' = [Preemption EXCEPT !.Phase = Sched!NotificationClaimed]
        /\ Preemption.Phase # Sched!Idle
    BY <1>7 DEF Sched!ClaimBoundaryPreemption, Sched!SchedClaimBoundaryPreemption,
                Sched!vidschVars, Sched!ReadyToNotify, Sched!Idle
  <2>3. /\ DOMAIN Preemption' = {"Phase", "Fence", "Cutoff", "Active", "LastCompleted"}
        /\ Preemption'.Fence \in PreemptionFences
    BY <2>2 DEF SchedTyped
  <2>4. SchedTyped'
    BY <1>0, <2>2, <2>3 DEF SchedTyped
  <2> QED BY <2>1, <2>4
<1>8. ASSUME NEW preemption \in PreemptionFences, Sched!CommitBoundaryPreemption(preemption)
      PROVE  SchedTyped' /\ Sched!Next
  <2>1. Sched!Next
    BY <1>8 DEF Sched!Next
  <2>2. /\ LastSubmittedFence' = LastSubmittedFence
        /\ FenceQueue' = FenceQueue /\ QueuedFence' = QueuedFence
        /\ ActiveFence' = ActiveFence /\ Owed' = Owed /\ PagingFences' = PagingFences
        /\ Preemption' = Sched!NoPreemption
    BY <1>8 DEF Sched!CommitBoundaryPreemption, Sched!SchedCommitBoundaryPreemption,
                Sched!vidschVars
  <2>4. SchedTyped'
    BY <1>0, <1>e, <2>2 DEF SchedTyped, Sched!NoPreemption
  <2> QED BY <2>1, <2>4
<1>9. CASE Sched!ResetEngine
  <2>1. Sched!Next
    BY <1>9 DEF Sched!Next
  <2>2. /\ LastSubmittedFence' = LastSubmittedFence
        /\ FenceQueue' = <<>> /\ QueuedFence' = 0 /\ ActiveFence' = 0
        /\ Owed' = Owed \cup (Sched!Elements(FenceQueue) \cap PagingFences)
        /\ PagingFences' = Owed'
        /\ Preemption' = Sched!NoPreemption
    BY <1>9 DEF Sched!ResetEngine, Sched!SchedResetEngine, Sched!ResetQueues,
                Sched!Discard, Sched!NoFence
  <2>4. Owed' \subseteq 1 .. MaxFence /\ PagingFences' \subseteq 1 .. MaxFence
    BY <2>2 DEF SchedTyped
  <2>5. SchedTyped'
    BY <1>0, <1>e, <2>2, <2>4 DEF SchedTyped, Sched!NoPreemption
  <2> QED BY <2>1, <2>5
<1> QED BY <1>1, <1>2, <1>3, <1>4, <1>5, <1>6, <1>7, <1>8, <1>9 DEF SchedulerCall

-----------------------------------------------------------------------------
(* What a step leaves alone.                                               *)

\* The places CpuInv speaks of.
CpuMarks == PagingLabels \cup {"PagingDpcEnter", "PagingDpcRetire", "PagingDpcLeave"}

\* A paging worker is in its own function or nowhere.
LEMMA PagingLab ==
    ASSUME NEW f, Controlled(f), NEW p \in PagingWorkers
    PROVE  Top(f[p]) \in PagingLabels \cup {""}
    BY ThreadFacts DEF Controlled, StackOK, Frame, Top

\* A thread runs exactly when it is at a label.
LEMMA RunningLab ==
    ASSUME NEW f, Controlled(f), NEW t \in Threads
    PROVE  f[t] = <<>> <=> Top(f[t]) = ""
<1>1. \A s : Frame(s, PagingLabels, <<>>) => Top(s) # ""
    BY Labels DEF Frame, Top
<1>2. \A s, below : Frame(s, WorkerFrame, below) => Top(s) # ""
    BY Labels DEF Frame, Top
<1>3. \A s, below : Frame(s, CompleteLabels, below) => Top(s) # ""
    BY Labels DEF Frame, Top
<1>4. \A s, below : Frame(s, DispatchFrame, below) => Top(s) # ""
    BY Labels DEF Frame, Top, DispatchFrame
<1>5. \A s, below : Frame(s, DpcFrame, below) => Top(s) # ""
    BY Labels DEF Frame, Top, DpcFrame
<1>6. \A s, below : Frame(s, VidSchFrame, below) => Top(s) # ""
    BY Labels DEF Frame, Top, VidSchFrame, DispatchFrame
<1>7. \A s, below : Frame(s, DispatchLabels, below) => Top(s) # ""
    BY Labels DEF Frame, Top
<1>8. Top(<<>>) = ""
    BY DEF Top
<1> QED BY <1>1, <1>2, <1>3, <1>4, <1>5, <1>6, <1>7, <1>8 DEF Controlled, StackOK, Threads

\* No thread of the CPU executor moves.
SameCpuLabels(f, g) ==
    /\ \A p \in PagingWorkers : Top(g[p]) = Top(f[p])
    /\ \A label \in {"PagingDpcEnter", "PagingDpcRetire", "PagingDpcLeave"} :
         Top(g[D]) = label <=> Top(f[D]) = label

\* A move between places CpuInv does not speak of leaves the CPU executor's
\* threads where they are.
LEMMA CpuLabels ==
    ASSUME NEW f, NEW g, NEW t \in Threads, Controlled(f), Controlled(g),
           \A u \in Threads \ {t} : g[u] = f[u],
           Top(f[t]) \notin CpuMarks, Top(g[t]) \notin CpuMarks
    PROVE  SameCpuLabels(f, g)
<1>1. \A p \in PagingWorkers : Top(g[p]) = Top(f[p])
  <2> SUFFICES ASSUME NEW p \in PagingWorkers PROVE Top(g[p]) = Top(f[p])
    OBVIOUS
  <2>1. p \in Threads
    BY ThreadFacts
  <2>2. Top(f[p]) \in PagingLabels \cup {""} /\ Top(g[p]) \in PagingLabels \cup {""}
    BY PagingLab
  <2> QED BY <2>1, <2>2 DEF CpuMarks
<1>2. \A label \in {"PagingDpcEnter", "PagingDpcRetire", "PagingDpcLeave"} :
        Top(g[D]) = label <=> Top(f[D]) = label
    BY ThreadFacts DEF CpuMarks
<1> QED BY <1>1, <1>2 DEF SameCpuLabels

\* Such a move keeps CpuInv.
LEMMA CpuFrame ==
    ASSUME CpuInv, Control, NEW t \in Threads, Controlled(pc'),
           \A u \in Threads \ {t} : pc'[u] = pc[u],
           Top(pc[t]) \notin CpuMarks, Top(pc'[t]) \notin CpuMarks,
           CpuQueue' = CpuQueue, Paging' = Paging, PagingIdle' = PagingIdle
    PROVE  CpuInv'
<1>1. SameCpuLabels(pc, pc')
    BY CpuLabels DEF Control
<1>3. PagingToken'
    BY <1>1 DEF CpuInv, PagingToken, Executing, DpcTook, Lab, SameCpuLabels
<1>4. PagingWorkersActive' = PagingWorkersActive
  <2>1. \A p \in PagingWorkers : pc'[p] = <<>> <=> pc[p] = <<>>
    BY <1>1, RunningLab, ThreadFacts DEF Control, SameCpuLabels
  <2> QED BY <2>1 DEF PagingWorkersActive, Running
<1>5. PagingDpcsActive' <=> PagingDpcsActive
  <2>1. PagingDpcsActive <=> Top(pc[D]) \in {"PagingDpcRetire", "PagingDpcLeave"}
    BY DEF PagingDpcsActive, At, Top
  <2>2. PagingDpcsActive' <=> Top(pc'[D]) \in {"PagingDpcRetire", "PagingDpcLeave"}
    BY DEF PagingDpcsActive, At, Top
  <2> QED BY <1>1, <2>1, <2>2 DEF SameCpuLabels
<1>6. PagingIdle' = PagingQuiet'
    BY <1>4, <1>5 DEF CpuInv, PagingQuiet
<1> QED BY <1>3, <1>6 DEF CpuInv

\* A move that starts no work and no polling keeps WorkInv.
LEMMA WorkFrame ==
    ASSUME WorkInv, NEW t \in Threads,
           \A u \in Threads \ {t} : pc'[u] = pc[u],
           t \in RenderWorkers =>
             /\ Top(pc[t]) # "" /\ Top(pc'[t]) # ""
             /\ Top(pc'[t]) \in WorkingLabels => Top(pc[t]) \in WorkingLabels,
           t = V => /\ Top(pc'[t]) \in PollingLabels => Top(pc[t]) \in PollingLabels
                    /\ Top(pc'[t]) # "QuiesceWait",
           Platform'.WorkScheduled = Platform.WorkScheduled,
           Platform'.WorkQueued = Platform.WorkQueued,
           Platform'.WorkIdle = Platform.WorkIdle,
           Platform'.Resetting = Platform.Resetting
    PROVE  WorkInv'
    BY ThreadFacts DEF WorkInv, Lab

\* The places OwnInv speaks of.
OwnMarks == HolderLabels \cup {"BindQueue", "QueuePacket"}

\* A move to none of them that leaves packets and fences alone keeps OwnInv.
LEMMA OwnFrame ==
    ASSUME OwnInv, NEW t \in Threads,
           \A u \in Threads \ {t} : pc'[u] = pc[u] /\ loc'[u] = loc[u],
           Top(pc[t]) # "PagingRun", Top(pc'[t]) # "PagingRun",
           Top(pc'[t]) \notin OwnMarks,
           RenderPacket' = RenderPacket, G4Pending' = G4Pending,
           Platform'.Phase = Platform.Phase,
           ActiveFence' = ActiveFence, Paging'.Fence = Paging.Fence,
           Paging'.WorkQueued = Paging.WorkQueued, Paging'.Ok = Paging.Ok
    PROVE  OwnInv'
<1>1. CpuOwns' = CpuOwns
    BY ThreadFacts DEF CpuOwns, Lab
<1>2. \A u \in RenderWorkers \cup {V} : Top(pc'[u]) \in OwnMarks =>
        pc'[u] = pc[u] /\ loc'[u] = loc[u]
    BY ThreadFacts
<1> QED BY <1>1, <1>2 DEF OwnInv, Lab, OwnMarks, HolderLabels

\* A move that delivers nothing keeps DeliveryInv.
LEMMA DeliveryFrame ==
    ASSUME DeliveryInv, NEW t \in Threads,
           \A u \in Threads \ {t} : pc'[u] = pc[u],
           Top(pc'[t]) \notin DeliveryLabels,
           t = V => (Top(pc'[t]) \in ResettingLabels => Top(pc[t]) \in ResettingLabels),
           Preemption' = Preemption, Preempting' = Preempting, Used' = Used
    PROVE  DeliveryInv'
    BY ThreadFacts DEF DeliveryInv, Lab

\* A move that none of the parts of the invariant speaks of.
Plain(from, to) ==
    /\ from \notin CpuMarks
    /\ to \notin CpuMarks \cup OwnMarks \cup DeliveryLabels \cup {"QuiesceWait"}
    /\ to \in WorkingLabels => from \in WorkingLabels
    /\ to \in PollingLabels => from \in PollingLabels
    /\ to \in ResettingLabels => from \in ResettingLabels
    /\ to \in SubmitLabels => from \in SubmitLabels

\* A plain move that changes only the thread's locals keeps the invariant.
LEMMA PlainStep ==
    ASSUME IInv, NEW t \in Threads, Controlled(pc'),
           \A u \in Threads \ {t} : pc'[u] = pc[u],
           Plain(Top(pc[t]), Top(pc'[t])),
           t \in RenderWorkers => Top(pc[t]) # "" /\ Top(pc'[t]) # "",
           DOMAIN loc' = Threads, DOMAIN loc'[t] = LocalFields,
           \A u \in Threads \ {t} : loc'[u] = loc[u],
           Top(pc'[t]) \in SubmitLabels =>
             loc'[t].Job = loc[t].Job /\ loc'[t].Context = loc[t].Context,
           UNCHANGED <<schedulerVars, cpuVars, RenderPacket, G4Pending, Platform,
                       Preempting, Used>>
    PROVE  IInv' /\ SchedulerCall
<1>1. SchedulerCall
    BY DEF SchedulerCall
<1>2. SchedTyped'
    BY <1>1, CallTyped DEF IInv
<1>3. Records'
  <2>1. /\ DOMAIN loc' = Threads
        /\ \A u \in Threads : DOMAIN loc'[u] = LocalFields
    BY DEF IInv, Records
  <2>2. Lab(V)' \in SubmitLabels => loc'[V].Job \in 1 .. MaxFence /\ loc'[V].Context \in Contexts
    BY ThreadFacts DEF IInv, Records, Lab, Plain
  <2> QED BY <2>1, <2>2 DEF IInv, Records, cpuVars
<1>4. CpuInv'
    BY CpuFrame DEF IInv, Plain, cpuVars
<1>5. WorkInv'
    BY WorkFrame DEF IInv, Plain
<1>6. OwnInv'
  <2>1. Top(pc[t]) # "PagingRun" /\ Top(pc'[t]) # "PagingRun"
    BY DEF Plain, CpuMarks, PagingLabels
  <2>2. ActiveFence' = ActiveFence /\ Paging' = Paging
    BY DEF schedulerVars, cpuVars
  <2> QED BY <2>1, <2>2, OwnFrame DEF IInv, Plain
<1>7. DeliveryInv'
    BY DeliveryFrame DEF IInv, Plain, schedulerVars
<1> QED BY <1>1, <1>2, <1>3, <1>4, <1>5, <1>6, <1>7 DEF IInv, Control

\* The plain moves of the model.
LEMMA PlainJumps ==
    /\ \A from \in DispatchFrame, to \in {"", "Leave", "Dispatch", "ReleaseReserved"} :
         Plain(from, to)
    /\ Plain("Dispatch", "Reserve")
    /\ Plain("Reserve", "RuntimeSubmit")
    /\ Plain("RuntimeSubmit", "Release")
    /\ Plain("Release", "Retry")
    /\ Plain("Retry", "Reserve")
    /\ Plain("Commit", "Dispatch")
    /\ Plain("", "PagingDpc")
    /\ Plain("NotifyDpc", "SchedulerDpc")
    /\ Plain("SchedulerDpc", "TakeRenderFence")
    /\ Plain("TakeRenderFence", "TestUnreported")
    /\ Plain("TestUnreported", "ReleaseReserved")
    /\ Plain("TestUnreported", "TryNotify")
    /\ Plain("ReleaseReserved", "Dispatch")
    /\ Plain("Activate", "Finish")
    /\ Plain("Poll", "Finish")
    /\ Plain("FinishReset", "Leave")
    /\ Plain("FinishReset", "FinishRetry")
    /\ Plain("FinishRetry", "TryNotify")
    /\ Plain("FinishRetry", "Dispatch")
    /\ Plain("Report", "Retire")
    /\ Plain("Retire", "Finish")
    /\ Plain("Retire", "QuiesceCheck")
    /\ Plain("Complete", "Finish")
    /\ Plain("Complete", "QuiesceCheck")
    /\ Plain("Admissible", "PendingReserve")
    /\ Plain("Admissible", "AwaitReady")
    /\ Plain("PendingReserve", "PendingPublish")
    /\ Plain("PendingReserve", "")
    /\ Plain("AwaitReady", "AwaitSlot")
    /\ Plain("AwaitReady", "")
    /\ Plain("AwaitSlot", "Prepare")
    /\ Plain("AwaitSlot", "AwaitReady")
    /\ Plain("AwaitSlot", "")
    /\ Plain("ResetEngine", "")
    /\ Plain("ResetRetire", "ResetClear")
<1>0. \A from \in DispatchFrame, to \in {"", "Leave", "Dispatch", "ReleaseReserved"} :
         Plain(from, to)
    BY DEF Plain, CpuMarks, OwnMarks, HolderLabels, DeliveryLabels, WorkingLabels,
           PollingLabels, ResettingLabels, PagingLabels, WorkLabels, CompleteLabels,
           QuiesceLabels, ResetLabels, SubmitLabels, DispatchFrame, DispatchLabels,
           NotifyLabels
<1>1. /\ Plain("Dispatch", "Reserve")
      /\ Plain("Reserve", "RuntimeSubmit")
      /\ Plain("RuntimeSubmit", "Release")
      /\ Plain("Release", "Retry")
      /\ Plain("Retry", "Reserve")
      /\ Plain("Commit", "Dispatch")
    BY DEF Plain, CpuMarks, OwnMarks, HolderLabels, DeliveryLabels, WorkingLabels,
           PollingLabels, ResettingLabels, PagingLabels, WorkLabels, CompleteLabels,
           QuiesceLabels, ResetLabels, SubmitLabels
<1>2. /\ Plain("", "PagingDpc")
      /\ Plain("NotifyDpc", "SchedulerDpc")
      /\ Plain("SchedulerDpc", "TakeRenderFence")
      /\ Plain("TakeRenderFence", "TestUnreported")
      /\ Plain("TestUnreported", "ReleaseReserved")
      /\ Plain("TestUnreported", "TryNotify")
      /\ Plain("ReleaseReserved", "Dispatch")
    BY DEF Plain, CpuMarks, OwnMarks, HolderLabels, DeliveryLabels, WorkingLabels,
           PollingLabels, ResettingLabels, PagingLabels, WorkLabels, CompleteLabels,
           QuiesceLabels, ResetLabels, SubmitLabels
<1>3. /\ Plain("Activate", "Finish")
      /\ Plain("Poll", "Finish")
      /\ Plain("FinishReset", "Leave")
      /\ Plain("FinishReset", "FinishRetry")
      /\ Plain("FinishRetry", "TryNotify")
      /\ Plain("FinishRetry", "Dispatch")
      /\ Plain("Report", "Retire")
      /\ Plain("Retire", "Finish")
      /\ Plain("Retire", "QuiesceCheck")
      /\ Plain("Complete", "Finish")
      /\ Plain("Complete", "QuiesceCheck")
    BY DEF Plain, CpuMarks, OwnMarks, HolderLabels, DeliveryLabels, WorkingLabels,
           PollingLabels, ResettingLabels, PagingLabels, WorkLabels, CompleteLabels,
           QuiesceLabels, ResetLabels, SubmitLabels
<1>4. /\ Plain("Admissible", "PendingReserve")
      /\ Plain("Admissible", "AwaitReady")
      /\ Plain("PendingReserve", "PendingPublish")
      /\ Plain("PendingReserve", "")
      /\ Plain("AwaitReady", "AwaitSlot")
      /\ Plain("AwaitReady", "")
      /\ Plain("AwaitSlot", "Prepare")
      /\ Plain("AwaitSlot", "AwaitReady")
      /\ Plain("AwaitSlot", "")
      /\ Plain("ResetEngine", "")
      /\ Plain("ResetRetire", "ResetClear")
    BY DEF Plain, CpuMarks, OwnMarks, HolderLabels, DeliveryLabels, WorkingLabels,
           PollingLabels, ResettingLabels, PagingLabels, WorkLabels, CompleteLabels,
           QuiesceLabels, ResetLabels, SubmitLabels
<1> QED BY <1>0, <1>1, <1>2, <1>3, <1>4

\* A plain move of thread t.
Moved(f, g, t) ==
    /\ Controlled(g)
    /\ \A u \in Threads \ {t} : g[u] = f[u]
    /\ Plain(Top(f[t]), Top(g[t]))
    /\ t \in RenderWorkers => Top(f[t]) # "" /\ Top(g[t]) # ""

\* Only thread t's locals change, and they keep their fields.
Relocated(l, m, t) ==
    /\ DOMAIN m = Threads
    /\ DOMAIN m[t] = LocalFields
    /\ \A u \in Threads \ {t} : m[u] = l[u]

\* A plain jump is a plain move.
LEMMA GotoPlain ==
    ASSUME NEW f, NEW g, NEW t \in Threads, NEW from, NEW to,
           Controlled(f), f[t] # <<>>, Head(f[t]) = from, Fits(from, to), Plain(from, to),
           g = [f EXCEPT ![t] = <<to>> \o Tail(f[t])]
    PROVE  Moved(f, g, t) /\ Top(g[t]) = to
<1>1. Move(f, g, t, from, to)
    BY GotoMoves
<1> QED BY <1>1 DEF Moved, Move, Fits

\* So is the return from a dispatch or a notification.
LEMMA ReturnPlain ==
    ASSUME NEW f, NEW g, NEW t \in Threads,
           Controlled(f), f[t] # <<>>, Head(f[t]) \in DispatchFrame,
           g = [f EXCEPT ![t] = Tail(f[t])]
    PROVE  Moved(f, g, t) /\ Top(g[t]) \notin SubmitLabels
<1>0. PICK from : from = Head(f[t]) /\ from \in DispatchFrame
    OBVIOUS
<1>1. Move(f, g, t, from, Top(g[t])) /\ Popped(t, from, Top(g[t]))
    BY <1>0, ReturnMoves
<1>2. from # ""
    BY <1>0, Labels DEF DispatchFrame
<1>3. /\ Top(g[t]) \in {"", "Leave", "Dispatch", "ReleaseReserved"}
      /\ t \in RenderWorkers => Top(g[t]) # ""
    BY <1>0, <1>1 DEF Popped
<1>4. Plain(from, Top(g[t]))
    BY <1>0, <1>3, PlainJumps
<1> QED BY <1>1, <1>2, <1>3, <1>4 DEF Moved, Move, SubmitLabels

\* A plain move that changes only the thread's locals keeps the invariant.
LEMMA MovedStep ==
    ASSUME IInv, NEW t \in Threads, Moved(pc, pc', t), Relocated(loc, loc', t),
           Top(pc'[t]) \in SubmitLabels =>
             loc'[t].Job = loc[t].Job /\ loc'[t].Context = loc[t].Context,
           UNCHANGED <<schedulerVars, cpuVars, RenderPacket, G4Pending, Platform,
                       Preempting, Used>>
    PROVE  IInv' /\ SchedulerCall
    BY PlainStep DEF Moved, Relocated

\* Assigning a local keeps the fields.
LEMMA LocalFacts ==
    ASSUME Records, NEW t \in Threads
    PROVE  /\ DOMAIN loc = Threads /\ DOMAIN loc[t] = LocalFields
           /\ Relocated(loc, loc, t)
           /\ Relocated(loc, [loc EXCEPT ![t] = NoLocals], t)
           /\ \A a, b : /\ Relocated(loc, [loc EXCEPT ![t].Fence = a, ![t].Attempt = b], t)
                       /\ Relocated(loc, [loc EXCEPT ![t].Preemption = a, ![t].LastCompleted = b], t)
                       /\ Relocated(loc, [loc EXCEPT ![t].Flag = a, ![t].Reserved = b], t)
                       /\ Relocated(loc, [loc EXCEPT ![t].Job = a, ![t].Context = b], t)
           /\ \A a : /\ Relocated(loc, [loc EXCEPT ![t].Fence = a], t)
                    /\ Relocated(loc, [loc EXCEPT ![t].Attempt = a], t)
                    /\ Relocated(loc, [loc EXCEPT ![t].Job = a], t)
                    /\ Relocated(loc, [loc EXCEPT ![t].Context = a], t)
                    /\ Relocated(loc, [loc EXCEPT ![t].Flag = a], t)
<1>1. /\ DOMAIN loc = Threads /\ DOMAIN loc[t] = LocalFields
    BY DEF Records
<1>2. Relocated(loc, loc, t)
    BY <1>1 DEF Relocated
<1>3. DOMAIN NoLocals = LocalFields
    BY DEF NoLocals, LocalFields
<1>4. Relocated(loc, [loc EXCEPT ![t] = NoLocals], t)
    BY <1>1, <1>3 DEF Relocated
<1>5. ASSUME NEW a, NEW b
      PROVE  /\ Relocated(loc, [loc EXCEPT ![t].Fence = a, ![t].Attempt = b], t)
             /\ Relocated(loc, [loc EXCEPT ![t].Preemption = a, ![t].LastCompleted = b], t)
             /\ Relocated(loc, [loc EXCEPT ![t].Flag = a, ![t].Reserved = b], t)
             /\ Relocated(loc, [loc EXCEPT ![t].Job = a, ![t].Context = b], t)
    BY <1>1 DEF Relocated
<1>6. ASSUME NEW a
      PROVE  /\ Relocated(loc, [loc EXCEPT ![t].Fence = a], t)
             /\ Relocated(loc, [loc EXCEPT ![t].Attempt = a], t)
             /\ Relocated(loc, [loc EXCEPT ![t].Job = a], t)
             /\ Relocated(loc, [loc EXCEPT ![t].Context = a], t)
             /\ Relocated(loc, [loc EXCEPT ![t].Flag = a], t)
    BY <1>1 DEF Relocated
<1> QED BY <1>1, <1>2, <1>4, <1>5, <1>6

\* VidSch's functions return to Windows.
LEMMA HostReturn ==
    ASSUME NEW f, NEW g, Controlled(f), f[V] # <<>>, Head(f[V]) \in HostLabels,
           g = [f EXCEPT ![V] = Tail(f[V])]
    PROVE  Move(f, g, V, Head(f[V]), "")
<1>1. V \in Threads
    BY ThreadFacts
<1>2. PICK from : from = Head(f[V])
    OBVIOUS
<1>3. Move(f, g, V, from, Top(g[V])) /\ Popped(V, from, Top(g[V]))
    BY <1>1, <1>2, ReturnMoves
<1> QED BY <1>2, <1>3 DEF Popped

\* A plain move that leaves the CPU packet alone keeps CpuInv.
LEMMA CpuPlain ==
    ASSUME IInv, NEW t \in Threads, Moved(pc, pc', t),
           CpuQueue' = CpuQueue, Paging' = Paging, PagingIdle' = PagingIdle
    PROVE  CpuInv'
    BY CpuFrame DEF IInv, Moved, Plain

\* A plain move that leaves the work item alone keeps WorkInv.
LEMMA WorkPlain ==
    ASSUME IInv, NEW t \in Threads, Moved(pc, pc', t),
           Platform'.WorkScheduled = Platform.WorkScheduled,
           Platform'.WorkQueued = Platform.WorkQueued,
           Platform'.WorkIdle = Platform.WorkIdle,
           Platform'.Resetting = Platform.Resetting
    PROVE  WorkInv'
    BY WorkFrame DEF IInv, Moved, Plain

\* A plain move that leaves packets and fences alone keeps OwnInv.
LEMMA OwnPlain ==
    ASSUME IInv, NEW t \in Threads, Moved(pc, pc', t),
           \A u \in Threads \ {t} : loc'[u] = loc[u],
           RenderPacket' = RenderPacket, G4Pending' = G4Pending,
           Platform'.Phase = Platform.Phase,
           ActiveFence' = ActiveFence, Paging'.Fence = Paging.Fence,
           Paging'.WorkQueued = Paging.WorkQueued, Paging'.Ok = Paging.Ok
    PROVE  OwnInv'
<1>1. Top(pc[t]) # "PagingRun" /\ Top(pc'[t]) # "PagingRun"
    BY DEF Moved, Plain, CpuMarks, PagingLabels
<1> QED BY <1>1, OwnFrame DEF IInv, Moved, Plain

\* A plain move that leaves the preemption alone keeps DeliveryInv.
LEMMA DeliveryPlain ==
    ASSUME IInv, NEW t \in Threads, Moved(pc, pc', t),
           Preemption' = Preemption, Preempting' = Preempting, Used' = Used
    PROVE  DeliveryInv'
    BY DeliveryFrame DEF IInv, Moved, Plain

\* What the move of one thread has to show for Records ...
LEMMA RecordsKept ==
    ASSUME IInv, NEW t \in Threads, NEW from, NEW to, Move(pc, pc', t, from, to),
           Relocated(loc, loc', t),
           t = V /\ to \in SubmitLabels =>
             loc'[V].Job \in 1 .. MaxFence /\ loc'[V].Context \in Contexts,
           DOMAIN Paging' = PagingFields, DOMAIN Platform' = PlatformFields,
           DOMAIN RenderPacket' = {"State", "Fence", "Context"},
           DOMAIN Used' = {"Preemptions", "Resets"},
           CpuQueue' \in Seq(CpuPacketType), G4Pending' \in Seq(PendingType)
    PROVE  Records'
<1>1. DOMAIN loc' = Threads /\ \A u \in Threads : DOMAIN loc'[u] = LocalFields
    BY DEF IInv, Records, Relocated
<1>2. Lab(V)' \in SubmitLabels => loc'[V].Job \in 1 .. MaxFence /\ loc'[V].Context \in Contexts
    BY ThreadFacts DEF IInv, Records, Lab, Move, Relocated
<1> QED BY <1>1, <1>2 DEF Records

\* ... for CpuInv, when the CPU executor is not concerned ...
LEMMA CpuKept ==
    ASSUME IInv, NEW t \in Threads, NEW from, NEW to, Move(pc, pc', t, from, to),
           from \notin CpuMarks, to \notin CpuMarks,
           CpuQueue' = CpuQueue, Paging' = Paging, PagingIdle' = PagingIdle
    PROVE  CpuInv'
    BY CpuFrame DEF IInv, Move

\* ... for WorkInv, when the work item is not concerned ...
LEMMA WorkKept ==
    ASSUME IInv, NEW t \in Threads, NEW from, NEW to, Move(pc, pc', t, from, to),
           t \in RenderWorkers => /\ from # "" /\ to # ""
                                  /\ to \in WorkingLabels => from \in WorkingLabels,
           t = V => /\ to \in PollingLabels => from \in PollingLabels
                    /\ to # "QuiesceWait",
           Platform'.WorkScheduled = Platform.WorkScheduled,
           Platform'.WorkQueued = Platform.WorkQueued,
           Platform'.WorkIdle = Platform.WorkIdle,
           Platform'.Resetting = Platform.Resetting
    PROVE  WorkInv'
    BY WorkFrame DEF IInv, Move

\* ... for OwnInv, when ownership does not change ...
LEMMA OwnKept ==
    ASSUME IInv, NEW t \in Threads, NEW from, NEW to, Move(pc, pc', t, from, to),
           \A u \in Threads \ {t} : loc'[u] = loc[u],
           from # "PagingRun", to # "PagingRun", to \notin OwnMarks,
           RenderPacket' = RenderPacket, G4Pending' = G4Pending,
           Platform'.Phase = Platform.Phase,
           ActiveFence' = ActiveFence, Paging'.Fence = Paging.Fence,
           Paging'.WorkQueued = Paging.WorkQueued, Paging'.Ok = Paging.Ok
    PROVE  OwnInv'
    BY OwnFrame DEF IInv, Move

\* ... for DeliveryInv, when no notification is concerned ...
LEMMA DeliveryKept ==
    ASSUME IInv, NEW t \in Threads, NEW from, NEW to, Move(pc, pc', t, from, to),
           to \notin DeliveryLabels,
           t = V => (to \in ResettingLabels => from \in ResettingLabels),
           Preemption' = Preemption, Preempting' = Preempting, Used' = Used
    PROVE  DeliveryInv'
    BY DeliveryFrame DEF IInv, Move

\* ... and for CpuInv, when a CPU packet is in progress before and after.
LEMMA BusyKept ==
    ASSUME IInv, PagingToken', Paging.Pending, Paging'.Pending, PagingIdle' = PagingIdle
    PROVE  CpuInv'
<1>1. PagingQuiet = FALSE /\ PagingQuiet' = FALSE
    BY DEF PagingQuiet
<1> QED BY <1>1 DEF IInv, CpuInv

\* An idle thread may start any of its functions.
LEMMA Entered ==
    /\ \A to \in VidSchFrame : to \in Label /\ to # "" /\ StackOK(V, <<to>>)
    /\ \A to \in PagingLabels, p \in PagingWorkers : to \in Label /\ to # "" /\ StackOK(p, <<to>>)
    /\ \A to \in WorkerFrame, r \in RenderWorkers : to \in Label /\ to # "" /\ StackOK(r, <<to>>)
<1>1. \A to \in Label : \A labels : to \in labels => Frame(<<to>>, labels, <<>>)
    BY Single DEF Frame
<1>2. ASSUME NEW to \in VidSchFrame PROVE to \in Label /\ to # "" /\ StackOK(V, <<to>>)
  <2>1. to \in Label /\ to # ""
    BY Labels DEF VidSchFrame, DispatchFrame
  <2> QED BY <1>1, <2>1, ThreadFacts DEF StackOK
<1>3. ASSUME NEW to \in PagingLabels, NEW p \in PagingWorkers
      PROVE  to \in Label /\ to # "" /\ StackOK(p, <<to>>)
  <2>1. to \in Label /\ to # ""
    BY Labels
  <2> QED BY <1>1, <2>1, ThreadFacts DEF StackOK
<1>4. ASSUME NEW to \in WorkerFrame, NEW r \in RenderWorkers
      PROVE  to \in Label /\ to # "" /\ StackOK(r, <<to>>)
  <2>1. to \in Label /\ to # ""
    BY Labels
  <2> QED BY <1>1, <2>1, ThreadFacts DEF StackOK
<1> QED BY <1>2, <1>3, <1>4

\* Only render workers and VidSch complete a job.
LEMMA CompleteAt ==
    ASSUME NEW f, Controlled(f), NEW t \in Threads, Top(f[t]) \in CompleteLabels
    PROVE  t \in RenderWorkers \cup {V}
<1>1. f[t] # <<>> /\ Head(f[t]) \in CompleteLabels
    BY Belows, Labels DEF Top
<1>2. StackOK(t, f[t])
    BY DEF Controlled
<1>3. CASE t \in PagingWorkers
    BY <1>1, <1>2, <1>3, Disjoint DEF StackOK, Frame
<1>4. CASE t = D
    BY <1>1, <1>2, <1>4, Disjoint DEF StackOK, Frame, DpcFrame, DispatchFrame
<1> QED BY <1>3, <1>4 DEF Threads

\* VidSch is never in the render worker's function ...
LEMMA HostLab ==
    ASSUME NEW f, Controlled(f)
    PROVE  Top(f[V]) \notin {"BindQueue", "BackendSubmit", "Poll"}
<1>1. StackOK(V, f[V])
    BY ThreadFacts DEF Controlled
<1>2. {"BindQueue", "BackendSubmit", "Poll"} \subseteq WorkerFrame
    BY DEF WorkerFrame, WorkLabels
<1> QED BY <1>1, <1>2, Disjoint, Belows, Labels DEF StackOK, Frame, Top, VidSchFrame, DispatchFrame

\* ... nor a render worker in VidSch's.
LEMMA WorkerLab ==
    ASSUME NEW f, Controlled(f), NEW r \in RenderWorkers
    PROVE  Top(f[r]) \notin {"QueuePacket", "QuiescePoll"}
<1>1. StackOK(r, f[r])
    BY ThreadFacts DEF Controlled
<1>2. {"QueuePacket", "QuiescePoll"} \subseteq HostLabels
    BY DEF HostLabels, SubmitLabels, QuiesceLabels
<1> QED BY <1>1, <1>2, Disjoint, Belows, Labels DEF StackOK, Frame, Top, DispatchFrame

\* One thread at a time acts on the active render packet: a worker has left
\* before a reset polls.
LEMMA SoleHolder ==
    ASSUME IInv, NEW t \in RenderWorkers \cup {V}, Lab(t) \in HolderLabels
    PROVE  \A u \in RenderWorkers \cup {V} : u # t => Lab(u) \notin HolderLabels
<1>1. /\ Lab(V) \in HolderLabels => Lab(V) \in PollingLabels
      /\ \A r \in RenderWorkers : Lab(r) \in HolderLabels => Lab(r) \in WorkingLabels
    BY HostLab, WorkerLab
       DEF IInv, Control, Lab, HolderLabels, PollingLabels, WorkingLabels, WorkLabels, CompleteLabels
<1>2. \A r \in RenderWorkers : Lab(r) \in WorkingLabels => Lab(r) # ""
    BY DEF WorkingLabels, WorkLabels, CompleteLabels
<1>3. Lab(V) \in PollingLabels => \A r \in RenderWorkers : Lab(r) = ""
    BY DEF IInv, WorkInv
<1>4. \A r, q \in RenderWorkers : Lab(r) \in WorkingLabels /\ Lab(q) \in WorkingLabels => r = q
    BY DEF IInv, WorkInv
<1> QED BY <1>1, <1>2, <1>3, <1>4

\* An empty queue is a queue.
LEMMA NoPackets == \A S : <<>> \in Seq(S)
    OBVIOUS

-----------------------------------------------------------------------------
(* The initial states and stuttering steps.                                *)

\* The driver starts in the invariant.
LEMMA InitInv == Init => IInv
<1> SUFFICES ASSUME Init PROVE IInv
    OBVIOUS
<1>1. \A t \in Threads : pc[t] = <<>> /\ Lab(t) = ""
    BY DEF Init, Lab, Top
<1>2. Control
  <2>1. <<>> \in Seq(Label)
    BY NoPackets
  <2>2. pc \in [Threads -> Seq(Label)]
    BY <2>1 DEF Init
  <2> QED BY <1>1, <2>2, Belows DEF Control, Controlled
<1>3. SchedTyped
    BY SchedInit DEF Init
<1>4. /\ Lab(V) = "" /\ \A t \in PagingWorkers \cup RenderWorkers : Lab(t) = ""
    BY <1>1, ThreadFacts
<1>5. Records
  <2>1. DOMAIN loc = Threads /\ \A t \in Threads : DOMAIN loc[t] = LocalFields
    BY DEF Init, NoLocals, LocalFields
  <2>2. /\ DOMAIN Paging = PagingFields /\ DOMAIN Platform = PlatformFields
        /\ DOMAIN RenderPacket = {"State", "Fence", "Context"}
        /\ DOMAIN Used = {"Preemptions", "Resets"}
    BY DEF Init, PagingFields, PlatformFields, EmptyPacket
  <2>3. CpuQueue \in Seq(CpuPacketType) /\ G4Pending \in Seq(PendingType)
    BY NoPackets DEF Init
  <2> QED BY <1>4, <2>1, <2>2, <2>3 DEF Records, SubmitLabels
<1>6. /\ Paging.Pending = FALSE /\ Paging.WorkQueued = FALSE /\ Paging.DpcPending = FALSE
      /\ Platform.Phase = "Ready" /\ Platform.WorkQueued = FALSE
      /\ RenderPacket.State = "Empty" /\ CpuQueue = <<>> /\ PagingIdle = TRUE
      /\ Used.Resets = 0
    BY DEF Init, EmptyPacket
<1>7. CpuInv
  <2>1. PagingToken
    BY <1>1, <1>4, <1>6, ThreadFacts DEF PagingToken, Executing, DpcTook
  <2>2. PagingQuiet = TRUE
    <3>1. ~PagingDpcsActive
      BY <1>1, ThreadFacts DEF PagingDpcsActive, At
    <3>2. ~PagingWorkersActive
      BY <1>1, ThreadFacts DEF PagingWorkersActive, Running
    <3> QED BY <1>6, <3>1, <3>2 DEF PagingQuiet
  <2> QED BY <1>6, <2>1, <2>2 DEF CpuInv
<1>8. WorkInv
    BY <1>4, <1>6
       DEF WorkInv, WorkingLabels, WorkLabels, CompleteLabels, PollingLabels
<1>9. OwnInv
  <2>1. ActiveFence = NoFence
    BY DEF Init, Sched!Init, Sched!NoFence, NoFence
  <2>2. ~CpuOwns
    BY <1>4, <1>6 DEF CpuOwns
  <2> QED BY <1>4, <1>6, <2>1, <2>2 DEF OwnInv, HolderLabels
<1>10. DeliveryInv
  <2>1. Preemption.Phase = Sched!Idle
    BY DEF Init, Sched!Init, Sched!NoPreemption
  <2> QED BY <1>1, <1>4, <1>6, <2>1
          DEF DeliveryInv, DeliveryLabels, ResettingLabels, QuiesceLabels, ResetLabels,
              CompleteLabels, Sched!Idle, Sched!WaitCurrentBoundary, Sched!ReadyToNotify
<1> QED BY <1>2, <1>3, <1>5, <1>7, <1>8, <1>9, <1>10 DEF IInv

\* A step that changes nothing keeps it.
LEMMA StutterInv == IInv /\ UNCHANGED vars => IInv' /\ SchedulerCall
<1> SUFFICES ASSUME IInv, UNCHANGED vars PROVE IInv' /\ SchedulerCall
    OBVIOUS
<1>1. UNCHANGED <<schedulerVars, CpuQueue, Paging, PagingIdle, RenderPacket, G4Pending, Platform,
                  Preempting, Used, pc, loc>>
    BY DEF vars, cpuVars, renderVars, osVars
<1>2. SchedulerCall /\ SchedTyped'
    BY <1>1, CallTyped DEF IInv, SchedulerCall
<1>3. UNCHANGED <<ActiveFence, Preemption>>
    BY <1>1 DEF schedulerVars
<1>4. Control' /\ Records' /\ WorkInv'
    BY <1>1 DEF IInv, Control, Records, WorkInv, Lab
<1>5. PagingToken' /\ PagingQuiet' = PagingQuiet
    BY <1>1 DEF IInv, CpuInv, PagingToken, PagingQuiet, Executing, DpcTook, Lab,
                PagingWorkersActive, PagingDpcsActive, Running, At
<1>6. CpuInv'
    BY <1>1, <1>5 DEF IInv, CpuInv
<1>7. OwnInv'
    BY <1>1, <1>3 DEF IInv, OwnInv, CpuOwns, Lab
<1>8. DeliveryInv'
    BY <1>1, <1>3 DEF IInv, DeliveryInv, Lab
<1> QED BY <1>2, <1>4, <1>6, <1>7, <1>8 DEF IInv
=============================================================================
