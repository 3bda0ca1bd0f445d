--------------------------- MODULE G13QueueProofs ---------------------------
(***************************************************************************)
(* Proofs about the queue stack of G13Queue, for every capacity of the     *)
(* rings, every stamp width and any number of jobs and faults: it          *)
(* implements JobEngine, the firmware performs only the job the backend    *)
(* holds, the layers agree on it, no event is refused and the buffer       *)
(* manager is initialised before it is used.                               *)
(*                                                                         *)
(* A compute job whose run message fails is the exception the run          *)
(* compute_admission shows; the theorems assume that those messages are    *)
(* sent (ComputeSends).                                                    *)
(***************************************************************************)
EXTENDS G13Queue, FiniteSetTheorems, SequenceTheorems, TLAPS

ComputeSends == "compute" \notin FailingSends

-----------------------------------------------------------------------------
(* Types.                                                                  *)

Terminal == {"none", "success", "dropped", "faulted", "cancelled"}
ProviderPhase == {"Initialized", "Created", "3dStaged", "Submitted", "ComputeOnly", "Faulted"}
ProviderType == [phase : ProviderPhase, fence : 0 .. MaxFence, quiesced : BOOLEAN]
RuntimeType == [phase : {"Ready", "Submitted", "ComputeSubmitted", "Faulted"},
                fence : 0 .. MaxFence, bm : BOOLEAN, seen : SUBSET Queue,
                complete : SUBSET Queue, inRender : BOOLEAN]
BackendType == [phase : {"Ready", "Submitted", "Failed", "Stopping", "Stopped"},
                quiesced : BOOLEAN,
                job : [kind : Kinds \cup {"none"}, fence : 0 .. MaxFence,
                       complete : SUBSET Queue, terminal : Terminal],
                expected : [Queue -> Slot]]
FirmwareType == [running : BOOLEAN, halted : BOOLEAN, active : Queue \cup {"none"},
                 done : [Queue -> Slot], head : [Queue -> Slot],
                 stamp : [Queue -> 0 .. StampModulus - 1], raised : SUBSET Queue,
                 dropped : 0 .. MaxFence, init : BOOLEAN, blind : BOOLEAN]
JobsType == [last : 0 .. MaxFence, faults : 0 .. MaxFaults, ran : SUBSET (Fence \X Queue),
             rejected : SUBSET ProviderPhase, kind : [Fence -> Kinds \cup {"none"}],
             verdict : [Fence -> Reply]]

Typed ==
    /\ backend \in BackendType /\ provider \in ProviderType /\ runtime \in RuntimeType
    /\ written \in [Queue -> Slot]
    /\ ring \in [Queue -> [Slot -> Entry]]
    /\ todo \in Seq({"publish", "send"} \X Queue)
    /\ batch \in Seq(Observation)
    /\ events \in Seq(Event)
    /\ window \in Nat /\ window <= Len(events)
    /\ firmware \in FirmwareType /\ jobs \in JobsType

-----------------------------------------------------------------------------
(* The job and its layers.                                                 *)

F == backend.job.fence
Kind == backend.job.kind
Terminated == backend.job.terminal
Busy == backend.phase \in {"Ready", "Submitted"}

\* The record of the jobs: the one the backend holds has no verdict, and none
\* after the last has a trace.
JobInv ==
    /\ F = 0 => backend.job = NoJob
    /\ F # 0 => /\ F <= jobs.last /\ Kind \in Kinds
                /\ jobs.kind[F] = Kind /\ jobs.verdict[F] = "none"
    /\ \A f \in Fence : f > jobs.last =>
         /\ jobs.kind[f] = "none" /\ jobs.verdict[f] = "none"
         /\ \A q \in Queue : <<f, q>> \notin jobs.ran
    /\ \A q \in Queue, s \in Slot : ring[q][s].fence <= jobs.last
    /\ firmware.dropped <= jobs.last

\* Provider and runtime hold no job.
Free ==
    /\ provider = Idle
    /\ runtime.phase = "Ready" /\ runtime.fence = 0 /\ ~runtime.inRender
    /\ runtime.seen = {} /\ runtime.complete = {}

\* The backend has ended a joined job whose compute event was not read.
Early ==
    /\ provider.phase = "Submitted" /\ ~provider.quiesced
    /\ runtime.phase = "Submitted" /\ runtime.inRender /\ firmware.dropped # 0
    /\ {"d3", "ta"} \subseteq runtime.complete /\ "compute" \notin runtime.complete

\* A submission in progress.
SubmittingInv ==
    todo # <<>> =>
        /\ backend.phase = "Ready" /\ ~backend.quiesced /\ todo[Len(todo)][1] = "send"
        /\ F = jobs.last /\ F > firmware.dropped /\ firmware.running
        /\ Terminated = "none" /\ backend.job.complete = {} /\ batch = <<>> /\ window = 0
        /\ runtime.phase = "Ready" /\ runtime.fence = F /\ ~runtime.inRender
        /\ runtime.seen = {} /\ runtime.complete = {}
        /\ provider = IF Kind = "compute" THEN Idle
                      ELSE [phase |-> "3dStaged", fence |-> F, quiesced |-> FALSE]

\* Between two jobs.
ReadyInv ==
    backend.phase = "Ready" /\ todo = <<>> =>
        /\ backend.job = NoJob /\ ~backend.quiesced /\ batch = <<>> /\ firmware.running
        /\ Free \/ Early

\* The queues of a render that the backend counts; what the runtime has
\* completed of them it has observed or will observe next.
Counted == {"d3", "ta"}
RenderBatches == {<<>>, <<"d3">>, <<"ta">>, <<"d3", "ta">>}
Noted(b) == {b[i] : i \in 1 .. Len(b)}
Observed(complete) ==
    /\ batch \in RenderBatches
    /\ backend.job.complete \cap Noted(batch) = {}
    /\ backend.job.complete \cup Noted(batch) = complete \cap Counted
    /\ ~(Counted \subseteq backend.job.complete)

\* A submitted job: on the rings, completed by the runtime, dropped, faulted,
\* and faulted with the queues stopped.
InFlight ==
    /\ provider = [phase |-> IF Kind = "compute" THEN "ComputeOnly" ELSE "Submitted",
                   fence |-> F, quiesced |-> FALSE]
    /\ runtime.phase = IF Kind = "compute" THEN "ComputeSubmitted" ELSE "Submitted"
    /\ runtime.fence = F /\ runtime.inRender = (Kind = "joined")
    /\ runtime.complete \subseteq JobQueues(Kind) /\ runtime.complete # JobQueues(Kind)
    /\ firmware.running /\ F > firmware.dropped /\ ~backend.quiesced
    /\ Observed(runtime.complete)
    /\ Terminated \in {"none", "success"}
Completed ==
    /\ Free /\ firmware.running /\ F > firmware.dropped /\ ~backend.quiesced
    /\ IF Kind = "compute" THEN backend.job.complete = {} /\ batch = <<"compute">>
       ELSE Observed(Counted)
    /\ Terminated \in {"none", "success"}
Dropped ==
    /\ Free /\ firmware.running /\ F = firmware.dropped /\ ~backend.quiesced
    /\ batch = <<"recovered">>
    /\ Terminated \in {"none", "dropped"}
Faulting ==
    /\ provider = [phase |-> "Faulted", fence |-> F, quiesced |-> ~firmware.running]
    /\ runtime.phase = "Faulted" /\ Terminated = "none" /\ ~backend.quiesced
    /\ firmware.running => F > firmware.dropped /\ runtime.fence = F
    /\ batch = IF firmware.running THEN <<>> ELSE <<"fault">>
FaultSeen ==
    /\ provider = Idle /\ ~firmware.running /\ Terminated = "faulted" /\ backend.quiesced
    /\ window = 0 /\ batch = <<"fault">>
SubmittedInv ==
    backend.phase = "Submitted" =>
        /\ todo = <<>> /\ F # 0
        /\ InFlight \/ Completed \/ Dropped \/ Faulting \/ FaultSeen
        /\ Terminated = "success" =>
             /\ batch # <<>> /\ Tail(batch) = <<>>
             /\ JobQueues(Kind) \ {"compute"} \subseteq backend.job.complete \cup {Head(batch)}

\* After a failure or a stop.
DownInv ==
    ~Busy =>
        /\ todo = <<>> /\ window = 0
        /\ provider.fence \in {0, F} \/ EndedEarly
        /\ EndsFence(Terminated) => provider.fence = 0 \/ EndedEarly
        /\ provider.phase # "3dStaged"
        /\ provider.phase = "Created" => provider = Idle
        /\ provider.quiesced => ~firmware.running
        /\ backend.quiesced => provider = Idle
        /\ backend.phase = "Stopping" => backend.quiesced

LayerInv == SubmittingInv /\ ReadyInv /\ SubmittedInv /\ DownInv

-----------------------------------------------------------------------------
(* The rings.                                                              *)

\* From one slot forward to another, and the slot so many places back.
Dist(a, b) == IF a <= b THEN b - a ELSE b + Capacity - a
Back(p, k) == IF k <= p THEN p - k ELSE p + Capacity - k

\* What the firmware has still to retire of a queue, counted from its end.
Left(q) == Dist(firmware.done[q], backend.expected[q])
Behind(q, k) == ring[q][Back(backend.expected[q], k)]

PublishLeft(q) == \E i \in 1 .. Len(todo) : todo[i] = <<"publish", q>>
SendLeft(q) == \E i \in 1 .. Len(todo) : todo[i] = <<"send", q>>
PointerInv ==
    Busy /\ firmware.running => \A q \in Queue :
        /\ ~PublishLeft(q) => written[q] = backend.expected[q]
        /\ ~SendLeft(q) => firmware.head[q] = backend.expected[q]

\* Entries that are left belong to the job or are dropped, oldest first.
RegionInv ==
    firmware.running => \A q \in Queue :
        /\ Dist(firmware.done[q], firmware.head[q]) <= Left(q)
        /\ \A k \in 1 .. Left(q) :
             \/ Behind(q, k).fence \in 1 .. firmware.dropped
             \/ Behind(q, k).fence = F /\ F # 0 /\ q \in JobQueues(Kind)
        /\ \A j, k \in 1 .. Left(q) : j < k => Behind(q, k).fence <= Behind(q, j).fence

\* The job's work on the queue is performed and retired.
Ran(q) == <<F, q>> \in jobs.ran
Retired(q) == Ran(q) /\ (firmware.running /\ F > firmware.dropped => Left(q) = 0)

ActiveInv ==
    firmware.running /\ firmware.active # "none" =>
        LET q == firmware.active
        IN  /\ ~firmware.halted /\ F > firmware.dropped /\ ~backend.quiesced
            /\ q \in JobQueues(Kind) /\ Ran(q) /\ Left(q) = 1
            /\ firmware.done[q] # firmware.head[q]

\* The queue whose work a barrier on this one waits for.
Needs(q) == CASE q = "d3" -> {"ta"}
              [] q = "ta" -> IF Kind = "joined" THEN {"compute"} ELSE {}
              [] OTHER -> {}

\* Entries of a job that is on the rings: the work comes last, a barrier
\* before it.
OnRings == firmware.running /\ ~backend.quiesced /\ F > firmware.dropped
EntryInv ==
    OnRings => \A q \in JobQueues(Kind) :
        /\ Left(q) = 0 => Ran(q)
        /\ Ran(q) => Left(q) = 0 \/ firmware.active = q
        /\ Left(q) > 0 => Behind(q, 1) = [fence |-> F, work |-> "work"]
        /\ \A k \in 2 .. Left(q) : Behind(q, k).fence = F => Behind(q, k).work # "work"
        /\ \A n \in Needs(q) :
             \/ Retired(n)
             \/ \E k \in 2 .. Left(q) : Behind(q, k) = [fence |-> F, work |-> "barrier"]

RanInv ==
    /\ \A q \in Queue : Ran(q) => \A n \in Needs(q) : Retired(n)
    /\ \A q \in backend.job.complete : Retired(q)
    /\ Terminated = "success" => \A q \in JobQueues(Kind) : Retired(q)
    /\ Terminated = "dropped" => F <= firmware.dropped
    /\ backend.phase = "Submitted" =>
         \A q \in (Noted(batch) \cap Queue) \cup runtime.complete : Retired(q)

QuiescedInv ==
    backend.quiesced /\ firmware.running => \A q \in Queue, s \in Slot :
        ring[q][s].fence = 0 \/ ring[q][s].fence # F

\* An InitBM is performed or on its way.
Initialising ==
    \/ firmware.init
    \/ \E k \in 2 .. Left("ta") : Behind("ta", k).work = "init"
ManagerInv ==
    /\ firmware.running /\ firmware.dropped = 0 =>
         /\ runtime.bm => Initialising
         /\ F # 0 /\ ~backend.quiesced /\ Kind # "compute" => Initialising
    /\ firmware.blind => firmware.dropped # 0

-----------------------------------------------------------------------------
(* Events.                                                                 *)

Fault(i) == events[i].kind = "fault"
Flag(i, q) == events[i].kind = "flag" /\ q \in events[i].queues
Places == 1 .. Len(events)

\* A fault is reported once, by a firmware that halted on the job.
HaltInv ==
    /\ \A i \in Places : events[i].kind = "flag" => events[i].queues # {}
    /\ firmware.running /\ Busy => \A i \in Places : Fault(i) =>
         /\ firmware.halted /\ F > firmware.dropped
         /\ \E q \in JobQueues(Kind) : Left(q) > 0
         /\ \A j \in Places : Fault(j) => i = j

\* Until a job is dropped every queue reports once, in the order in which the
\* queues wait for each other, and the runtime has read what is not in the ring.
Undropped == firmware.running /\ Busy /\ firmware.dropped = 0
FlagInv ==
    Undropped =>
        /\ Free /\ todo = <<>> => events = <<>> /\ firmware.raised = {}
        /\ \A q \in Queue : (q \in firmware.raised \/ \E i \in Places : Flag(i, q)) =>
             q \in JobQueues(Kind) /\ Ran(q) /\ firmware.active # q /\ q \notin runtime.complete
        /\ \A q \in Queue, i, j \in Places :
             Flag(i, q) => q \notin firmware.raised /\ (Flag(j, q) => i = j)
        /\ \A q \in JobQueues(Kind) : Ran(q) =>
             \/ firmware.active = q \/ q \in firmware.raised \/ q \in runtime.complete
             \/ \E i \in Places : Flag(i, q)
             \/ Free /\ todo = <<>>
        /\ \A i, j \in Places : Flag(i, "ta") =>
             "compute" \notin firmware.raised /\ (Flag(j, "compute") => j <= i)
        /\ \A i, j \in Places : events[i].kind = "grow" =>
             /\ "ta" \in JobQueues(Kind) /\ "ta" \notin runtime.complete
             /\ Flag(j, "ta") => i < j
        /\ \A q \in JobQueues(Kind) : Ran(q) => firmware.stamp[q] = F % StampModulus
        /\ Kind = "joined" /\ "ta" \in runtime.complete => "compute" \in runtime.complete

RingInv == PointerInv /\ RegionInv /\ ActiveInv /\ EntryInv /\ RanInv /\ QuiescedInv
EventInv == HaltInv /\ FlagInv /\ EventsAccepted
IInv == Typed /\ JobInv /\ LayerInv /\ RingInv /\ ManagerInv /\ EventInv

-----------------------------------------------------------------------------
(* Arithmetic of the rings.                                                *)

\* A sum of less than twice the capacity wraps at most once.
LEMMA Wraps ==
    ASSUME NEW x \in Nat, x < 2 * Capacity
    PROVE  x % Capacity = IF x < Capacity THEN x ELSE x - Capacity
    BY CapacityAssumption

\* Advance and Dist are inverse to each other.
LEMMA Advances ==
    ASSUME NEW p \in Slot, NEW n \in Nat, n < Capacity
    PROVE  /\ Advance(p, n) = IF p + n < Capacity THEN p + n ELSE p + n - Capacity
           /\ Advance(p, n) \in Slot
           /\ Dist(p, Advance(p, n)) = n
           /\ Back(Advance(p, n), n) = p
<1>1. p + n \in Nat /\ p + n < 2 * Capacity
    BY CapacityAssumption DEF Slot
<1>2. Advance(p, n) = IF p + n < Capacity THEN p + n ELSE p + n - Capacity
  <2>1. PICK x \in Nat : x = p + n
    BY <1>1
  <2>2. x % Capacity = IF x < Capacity THEN x ELSE x - Capacity
    BY <1>1, <2>1, Wraps
  <2>3. Advance(p, n) = x % Capacity
    BY <2>1, Zenon DEF Advance
  <2> QED BY <2>1, <2>2, <2>3, CapacityAssumption DEF Slot
<1> QED BY <1>2, CapacityAssumption DEF Slot, Dist, Back

\* Distances are below the capacity, zero only from a slot to itself.
LEMMA Distances ==
    ASSUME NEW a \in Slot, NEW b \in Slot
    PROVE  /\ Dist(a, b) \in 0 .. Capacity - 1
           /\ Dist(a, b) = 0 <=> a = b
           /\ Advance(a, Dist(a, b)) = b
           /\ Back(b, Dist(a, b)) = a
<1>1. Dist(a, b) \in Nat /\ Dist(a, b) < Capacity
    BY CapacityAssumption DEF Slot, Dist
<1>2. Advance(a, Dist(a, b)) = IF a + Dist(a, b) < Capacity THEN a + Dist(a, b)
                               ELSE a + Dist(a, b) - Capacity
    BY <1>1, Advances
<1> QED BY <1>1, <1>2, CapacityAssumption DEF Slot, Dist, Back

\* Going forward from the first slot brings the second nearer.
LEMMA Nearer ==
    ASSUME NEW a \in Slot, NEW b \in Slot, NEW n \in Nat, n <= Dist(a, b)
    PROVE  Dist(Advance(a, n), b) = Dist(a, b) - n
<1>1. n < Capacity
    BY Distances, CapacityAssumption DEF Slot
<1>2. Advance(a, n) = IF a + n < Capacity THEN a + n ELSE a + n - Capacity
    BY <1>1, Advances
<1> QED BY <1>1, <1>2, CapacityAssumption DEF Slot, Dist

\* Moving the second slot on takes it further, if it does not pass the first.
LEMMA Further ==
    ASSUME NEW a \in Slot, NEW b \in Slot, NEW n \in Nat, Dist(a, b) + n < Capacity
    PROVE  Dist(a, Advance(b, n)) = Dist(a, b) + n
<1>1. n < Capacity
    BY Distances, CapacityAssumption DEF Slot
<1>2. Advance(b, n) = IF b + n < Capacity THEN b + n ELSE b + n - Capacity
    BY <1>1, Advances
<1> QED BY <1>1, <1>2, CapacityAssumption DEF Slot, Dist

\* Places back from a slot, and from one further on.
LEMMA Backs ==
    ASSUME NEW b \in Slot, NEW k \in Nat, k < Capacity
    PROVE  /\ Back(b, k) \in Slot
           /\ \A n \in Nat : n <= k => Back(Advance(b, n), k) = Back(b, k - n)
           /\ \A n \in Nat : k <= n /\ n < Capacity =>
                Back(Advance(b, n), k) = Advance(b, n - k)
<1>1. Back(b, k) \in Slot
    BY CapacityAssumption DEF Slot, Back
<1>2. ASSUME NEW n \in Nat, n <= k PROVE Back(Advance(b, n), k) = Back(b, k - n)
  <2>1. Advance(b, n) = IF b + n < Capacity THEN b + n ELSE b + n - Capacity
    BY <1>2, Advances, CapacityAssumption
  <2> QED BY <1>2, <2>1, CapacityAssumption DEF Slot, Back
<1>3. ASSUME NEW n \in Nat, k <= n, n < Capacity
      PROVE  Back(Advance(b, n), k) = Advance(b, n - k)
  <2>1. Advance(b, n) = IF b + n < Capacity THEN b + n ELSE b + n - Capacity
    BY <1>3, Advances
  <2>2. n - k \in Nat /\ n - k < Capacity
    BY <1>3, CapacityAssumption
  <2>3. Advance(b, n - k) = IF b + (n - k) < Capacity THEN b + (n - k) ELSE b + (n - k) - Capacity
    BY <2>2, Advances
  <2> QED BY <1>3, <2>1, <2>3, CapacityAssumption DEF Slot, Back
<1> QED BY <1>1, <1>2, <1>3

-----------------------------------------------------------------------------
(* What a step keeps that leaves the rings alone.                          *)

\* The rings and the job on them; the firmware may be told of entries, or stopped.
RingSame ==
    /\ ring' = ring /\ firmware'.done = firmware.done
    /\ \A q \in Queue : firmware'.head[q] \in {firmware.head[q], backend.expected[q]}
    /\ backend'.expected = backend.expected
    /\ F' = F /\ Kind' = Kind /\ jobs'.ran = jobs.ran
    /\ firmware'.dropped = firmware.dropped
    /\ firmware'.active = firmware.active /\ firmware'.halted = firmware.halted
    /\ firmware'.init = firmware.init /\ firmware'.blind = firmware.blind
    /\ firmware'.running => firmware.running
    /\ firmware'.running => backend'.quiesced = backend.quiesced \/ F = 0

\* Such a step moves nothing on the rings ...
LEMMA SameRings ==
    ASSUME RingSame
    PROVE  /\ \A q : Left(q)' = Left(q) /\ Ran(q)' = Ran(q) /\ Needs(q)' = Needs(q)
           /\ \A q, k : Behind(q, k)' = Behind(q, k)
           /\ \A q : Retired(q) => Retired(q)'
<1>1. \A q : Left(q)' = Left(q) /\ Ran(q)' = Ran(q) /\ Needs(q)' = Needs(q)
    BY DEF RingSame, Left, Dist, Ran, Needs, F, Kind
<1>2. \A q, k : Behind(q, k)' = Behind(q, k)
    BY DEF RingSame, Behind, Back
<1>3. \A q : Retired(q) => Retired(q)'
    BY <1>1 DEF RingSame, Retired, F
<1> QED BY <1>1, <1>2, <1>3

\* ... and keeps what is said of them.
LEMMA RingsKept ==
    ASSUME RingSame, Typed, RegionInv, ActiveInv, EntryInv, QuiescedInv
    PROVE  RegionInv' /\ ActiveInv' /\ EntryInv' /\ QuiescedInv'
<1>1. /\ \A q : Left(q)' = Left(q) /\ Ran(q)' = Ran(q) /\ Needs(q)' = Needs(q)
      /\ \A q, k : Behind(q, k)' = Behind(q, k)
      /\ \A q : Retired(q) => Retired(q)'
    BY SameRings
<1>2. RegionInv'
  <2>1. \A q \in Queue : firmware.running /\ Dist(firmware.done[q], firmware.head[q]) <= Left(q) =>
          Dist(firmware.done[q], firmware.head[q])' <= Left(q)
    <3> SUFFICES ASSUME NEW q \in Queue, Dist(firmware.done[q], firmware.head[q]) <= Left(q)
                 PROVE  Dist(firmware.done[q], firmware.head[q])' <= Left(q)
      OBVIOUS
    <3>1. CASE firmware'.head[q] = firmware.head[q]
      BY <3>1 DEF RingSame, Dist
    <3>2. CASE firmware'.head[q] = backend.expected[q]
      <4>1. Dist(firmware.done[q], firmware.head[q])' = Left(q)
        BY <3>2 DEF RingSame, Dist, Left
      <4>2. Left(q) \in Int
        BY CapacityAssumption DEF Left, Dist, Typed, FirmwareType, BackendType, Slot
      <4> QED BY <4>1, <4>2
    <3> QED BY <3>1, <3>2 DEF RingSame
  <2>2. firmware'.running => firmware.running
    BY DEF RingSame
  <2>3. /\ firmware'.dropped = firmware.dropped /\ F' = F /\ Kind' = Kind
        /\ JobQueues(Kind)' = JobQueues(Kind)
    BY DEF RingSame, F, Kind
  <2> QED BY <1>1, <2>1, <2>2, <2>3 DEF RegionInv
<1>3. F \in Nat /\ firmware.dropped \in Nat
    BY BoundAssumption DEF Typed, BackendType, FirmwareType, F
<1>4. ActiveInv'
  <2> SUFFICES ASSUME firmware'.running, firmware.active # "none", NEW q, q = firmware.active
               PROVE  /\ ~firmware.halted /\ F > firmware.dropped /\ ~backend'.quiesced
                      /\ q \in JobQueues(Kind) /\ Ran(q) /\ Left(q) = 1
                      /\ firmware.done[q] # firmware'.head[q]
    BY <1>1 DEF ActiveInv, RingSame, F, Kind
  <2>1. /\ ~firmware.halted /\ F > firmware.dropped /\ ~backend.quiesced
        /\ q \in JobQueues(Kind) /\ Ran(q) /\ Left(q) = 1
        /\ firmware.done[q] # firmware.head[q]
    BY DEF ActiveInv, RingSame
  <2>2. q \in Queue /\ firmware.done[q] \in Slot /\ backend.expected[q] \in Slot
    BY DEF Typed, FirmwareType, BackendType
  <2>3. firmware.done[q] # backend.expected[q]
    BY <2>1, <2>2, Distances DEF Left
  <2>4. ~backend'.quiesced
    BY <1>3, <2>1 DEF RingSame
  <2> QED BY <2>1, <2>2, <2>3, <2>4 DEF RingSame
<1>5. EntryInv'
    BY <1>1, <1>3 DEF EntryInv, OnRings, RingSame, F, Kind
<1>6. QuiescedInv'
    BY DEF QuiescedInv, RingSame, F
<1> QED BY <1>2, <1>4, <1>5, <1>6

\* The buffer manager.
LEMMA ManagerKept ==
    ASSUME RingSame, ManagerInv, runtime'.bm => runtime.bm
    PROVE  ManagerInv'
<1>1. Initialising' = Initialising
    BY SameRings DEF Initialising, RingSame
<1> QED BY <1>1 DEF ManagerInv, RingSame, F, Kind

\* What the layers know of the job.
LEMMA RanKept ==
    ASSUME RingSame, RanInv, backend'.job.complete = backend.job.complete,
           Terminated' = Terminated \/ Terminated' \notin {"success", "dropped"},
           backend'.phase = "Submitted" =>
             /\ backend.phase = "Submitted"
             /\ Noted(batch)' \cap Queue \subseteq Noted(batch) \cup runtime.complete
             /\ runtime'.complete \subseteq runtime.complete
    PROVE  RanInv'
<1>1. /\ \A q : Ran(q)' = Ran(q) /\ Needs(q)' = Needs(q)
      /\ \A q : Retired(q) => Retired(q)'
    BY SameRings
<1>2. \A q \in Queue : Ran(q)' => \A n \in Needs(q)' : Retired(n)'
    BY <1>1 DEF RanInv
<1>3. \A q \in backend'.job.complete : Retired(q)'
    BY <1>1 DEF RanInv
<1>4. Terminated' = "success" => \A q \in JobQueues(Kind)' : Retired(q)'
    BY <1>1 DEF RanInv, RingSame, Kind
<1>5. Terminated' = "dropped" => F' <= firmware'.dropped
    BY DEF RanInv, RingSame, F
<1>6. backend'.phase = "Submitted" =>
        \A q \in (Noted(batch)' \cap Queue) \cup runtime'.complete : Retired(q)'
    BY <1>1 DEF RanInv
<1> QED BY <1>2, <1>3, <1>4, <1>5, <1>6 DEF RanInv

\* The pointers.
LEMMA PointersKept ==
    ASSUME PointerInv, firmware'.running => firmware.running, Busy' => Busy,
           firmware'.head = firmware.head, backend'.expected = backend.expected,
           Busy' => written' = written, Busy' => todo' = todo
    PROVE  PointerInv'
<1>1. Busy' => \A q : (PublishLeft(q)' <=> PublishLeft(q)) /\ (SendLeft(q)' <=> SendLeft(q))
    BY DEF PublishLeft, SendLeft
<1> QED BY <1>1 DEF PointerInv

\* The record of the jobs.
LEMMA JobKept ==
    ASSUME JobInv, Typed, F' = F, Kind' = Kind, F = 0 => backend'.job = backend.job,
           jobs'.last = jobs.last, jobs'.kind = jobs.kind, jobs'.verdict = jobs.verdict,
           jobs'.ran = jobs.ran, ring' = ring,
           firmware'.dropped \in {firmware.dropped, F}
    PROVE  JobInv'
<1>1. jobs.last \in Nat
    BY BoundAssumption DEF Typed, JobsType
<1> QED BY <1>1 DEF JobInv, F, Kind

\* Events that are not read and not written.
LEMMA EventsKept ==
    ASSUME RingSame, HaltInv, FlagInv, events' = events, Busy' => Busy,
           firmware'.running =>
             /\ runtime'.complete = runtime.complete
             /\ firmware'.raised = firmware.raised /\ firmware'.stamp = firmware.stamp
             /\ Busy' => ((Free /\ todo = <<>>)' <=> (Free /\ todo = <<>>))
    PROVE  HaltInv' /\ FlagInv'
<1>1. /\ \A q : Left(q)' = Left(q) /\ Ran(q)' = Ran(q)
    BY SameRings
<1>2. /\ \A i : Fault(i)' <=> Fault(i)
      /\ \A i, q : Flag(i, q)' <=> Flag(i, q)
      /\ Places' = Places
    BY DEF Fault, Flag, Places
<1>3. HaltInv'
    BY <1>1, <1>2 DEF HaltInv, RingSame, F, Kind
<1>4. CASE ~Undropped'
    BY <1>3, <1>4 DEF FlagInv
<1>5. CASE Undropped'
  <2>1. Undropped /\ firmware'.running
    BY <1>5 DEF Undropped, RingSame
  <2>2. JobQueues(Kind)' = JobQueues(Kind)
    BY DEF RingSame, Kind
  <2> QED BY <1>1, <1>2, <1>3, <1>5, <2>1, <2>2 DEF FlagInv, Undropped, RingSame, F, Kind
<1> QED BY <1>4, <1>5

-----------------------------------------------------------------------------
(* Types and layers.                                                       *)

Known == IInv /\ ComputeSends

\* The numbers and records in the state.
LEMMA Fields ==
    ASSUME Typed
    PROVE  /\ MaxFence \in Nat /\ MaxFaults \in Nat /\ Capacity \in Nat
           /\ F \in 0 .. MaxFence /\ firmware.dropped \in 0 .. MaxFence
           /\ jobs.last \in 0 .. MaxFence /\ provider.fence \in 0 .. MaxFence
           /\ runtime.fence \in 0 .. MaxFence /\ window \in Nat
           /\ provider.phase \in ProviderPhase /\ Kind \in Kinds \cup {"none"}
           /\ backend.job = [kind |-> Kind, fence |-> F, complete |-> backend.job.complete,
                             terminal |-> Terminated]
           /\ backend.job.complete \subseteq Queue /\ Terminated \in Terminal
           /\ runtime.complete \subseteq Queue
           /\ batch \in Seq(Observation) /\ events \in Seq(Event)
           /\ Len(events) \in Nat /\ Len(batch) \in Nat
<1>1. MaxFence \in Nat /\ MaxFaults \in Nat /\ Capacity \in Nat
    BY BoundAssumption, CapacityAssumption
<1>2. /\ F \in 0 .. MaxFence /\ Kind \in Kinds \cup {"none"}
      /\ backend.job = [kind |-> Kind, fence |-> F, complete |-> backend.job.complete,
                        terminal |-> Terminated]
      /\ backend.job.complete \subseteq Queue /\ Terminated \in Terminal
    BY DEF Typed, BackendType, F, Kind, Terminated
<1>3. /\ firmware.dropped \in 0 .. MaxFence /\ jobs.last \in 0 .. MaxFence
      /\ provider.fence \in 0 .. MaxFence /\ provider.phase \in ProviderPhase
      /\ runtime.fence \in 0 .. MaxFence /\ runtime.complete \subseteq Queue
    BY DEF Typed, FirmwareType, JobsType, ProviderType, RuntimeType
<1>4. window \in Nat /\ batch \in Seq(Observation) /\ events \in Seq(Event)
    BY DEF Typed
<1> QED BY <1>1, <1>2, <1>3, <1>4

\* The layers do not look at the rings.
LEMMA LayersKept ==
    ASSUME LayerInv, backend' = backend, provider' = provider, runtime' = runtime,
           todo' = todo, batch' = batch, window' = window, jobs'.last = jobs.last,
           firmware'.running = firmware.running, firmware'.dropped = firmware.dropped
    PROVE  LayerInv'
<1>1. F' = F /\ Kind' = Kind /\ Terminated' = Terminated /\ Busy' = Busy
    BY DEF F, Kind, Terminated, Busy
<1>2. Free' = Free /\ Early' = Early /\ EndedEarly' = EndedEarly
    BY DEF Free, Early, EndedEarly
<1>3. \A c : Observed(c)' = Observed(c)
    BY DEF Observed, Noted
<1>4. InFlight' = InFlight
    BY <1>1, <1>3 DEF InFlight
<1>5. Completed' = Completed
    BY <1>1, <1>2, <1>3 DEF Completed
<1>6. Dropped' = Dropped /\ Faulting' = Faulting /\ FaultSeen' = FaultSeen
    BY <1>1, <1>2 DEF Dropped, Faulting, FaultSeen
<1>7. SubmittingInv' /\ ReadyInv'
    BY <1>1, <1>2 DEF LayerInv, SubmittingInv, ReadyInv
<1>8. SubmittedInv'
    BY <1>1, <1>4, <1>5, <1>6 DEF LayerInv, SubmittedInv
<1>9. DownInv'
    BY <1>1, <1>2 DEF LayerInv, DownInv
<1> QED BY <1>7, <1>8, <1>9 DEF LayerInv

-----------------------------------------------------------------------------
(* Steps of the worker that leave the rings alone.                         *)

\* A poll begins.
LEMMA PollKeeps ==
    ASSUME Known, Poll
    PROVE  IInv'
<1>1. /\ backend' = backend /\ provider' = provider /\ runtime' = runtime
      /\ written' = written /\ ring' = ring /\ todo' = todo /\ batch' = batch
      /\ events' = events /\ firmware' = firmware /\ jobs' = jobs
      /\ window' = Len(events) /\ backend.phase = "Submitted" /\ batch = <<>> /\ todo = <<>>
    BY DEF Poll
<1>2. RingSame /\ F' = F /\ Kind' = Kind /\ Terminated' = Terminated /\ Busy' = Busy
    BY <1>1 DEF RingSame, F, Kind, Terminated, Busy
<1>3. Typed'
    BY <1>1 DEF Known, IInv, Typed
<1>4. JobInv'
    BY <1>1, <1>2, JobKept DEF Known, IInv
<1>5. LayerInv'
  <2>1. Free' = Free /\ \A c : Observed(c)' = Observed(c)
    BY <1>1 DEF Free, Observed, Noted
  <2>2. /\ InFlight' = InFlight /\ Completed' = Completed
        /\ Dropped' = Dropped /\ Faulting' = Faulting
    BY <1>1, <1>2, <2>1 DEF InFlight, Completed, Dropped, Faulting
  <2>3. ~FaultSeen
    BY <1>1 DEF FaultSeen
  <2>4. SubmittedInv'
    BY <1>1, <1>2, <2>2, <2>3 DEF Known, IInv, LayerInv, SubmittedInv
  <2> QED BY <1>1, <2>4 DEF LayerInv, SubmittingInv, ReadyInv, DownInv, Busy
<1>6. RingInv'
    BY <1>1, <1>2, RingsKept, PointersKept, RanKept DEF Known, IInv, RingInv, Noted
<1>7. ManagerInv'
    BY <1>1, <1>2, ManagerKept DEF Known, IInv
<1>8. EventInv'
    BY <1>1, <1>2, EventsKept DEF Known, IInv, EventInv, EventsAccepted, Free
<1> QED BY <1>3, <1>4, <1>5, <1>6, <1>7, <1>8 DEF IInv

\* An event is refused: only after a stop that failed, or when a job was dropped.
LEMMA RejectEventKeeps ==
    ASSUME Known, RejectEvent
    PROVE  IInv'
<1>1. /\ backend' = backend /\ provider' = provider /\ runtime' = runtime
      /\ written' = written /\ ring' = ring /\ todo' = todo /\ batch' = batch
      /\ events' = events /\ firmware' = firmware
      /\ jobs' = [jobs EXCEPT !.rejected = @ \cup {provider.phase}]
      /\ window' = 0 /\ window > 0 /\ batch = <<>>
      /\ provider.phase \notin {"Submitted", "ComputeOnly"}
    BY DEF RejectEvent, Draining
<1>2. /\ jobs'.ran = jobs.ran /\ jobs'.last = jobs.last /\ jobs'.kind = jobs.kind
      /\ jobs'.verdict = jobs.verdict /\ jobs'.rejected = jobs.rejected \cup {provider.phase}
      /\ jobs' \in JobsType /\ firmware.running \in BOOLEAN
    BY <1>1 DEF Known, IInv, Typed, JobsType, ProviderType, FirmwareType
<1>3. RingSame /\ F' = F /\ Kind' = Kind /\ Terminated' = Terminated /\ Busy' = Busy
    BY <1>1, <1>2 DEF RingSame, F, Kind, Terminated, Busy
<1>4. Typed'
    BY <1>1, <1>2 DEF Known, IInv, Typed
<1>5. JobInv'
    BY <1>1, <1>2, <1>3, JobKept DEF Known, IInv
<1>6. todo = <<>> /\ Busy
    BY <1>1, Fields DEF Known, IInv, LayerInv, SubmittingInv, DownInv
<1>7. LayerInv'
  <2>1. Free' = Free /\ Early' = Early /\ \A c : Observed(c)' = Observed(c)
    BY <1>1 DEF Free, Early, Observed, Noted
  <2>2. /\ InFlight' = InFlight /\ Completed' = Completed
        /\ Dropped' = Dropped /\ Faulting' = Faulting /\ (FaultSeen => FaultSeen')
    BY <1>1, <1>3, <2>1 DEF InFlight, Completed, Dropped, Faulting, FaultSeen
  <2>3. SubmittedInv'
    BY <1>1, <1>3, <2>2 DEF Known, IInv, LayerInv, SubmittedInv
  <2>4. ReadyInv'
    BY <1>1, <2>1 DEF Known, IInv, LayerInv, ReadyInv
  <2> QED BY <1>1, <1>3, <1>6, <2>3, <2>4 DEF LayerInv, SubmittingInv, DownInv
<1>8. RingInv'
    BY <1>1, <1>3, RingsKept, PointersKept, RanKept DEF Known, IInv, RingInv, Noted
<1>9. ManagerInv'
    BY <1>1, <1>3, ManagerKept DEF Known, IInv
<1>10. HaltInv' /\ FlagInv'
    BY <1>1, <1>3, EventsKept DEF Known, IInv, EventInv, Free
<1>11. provider.phase = "Faulted" \/ firmware.dropped # 0
  <2> SUFFICES ASSUME provider.phase # "Faulted", firmware.dropped = 0 PROVE FALSE
    OBVIOUS
  <2>1. ~InFlight /\ ~Early /\ ~Faulting
    BY <1>1 DEF InFlight, Early, Faulting
  <2>2. ~FaultSeen
    BY <1>1 DEF FaultSeen
  <2>3. Free /\ firmware.running
    BY <1>6, <2>1, <2>2 DEF Known, IInv, LayerInv, ReadyInv, SubmittedInv, Busy, Completed, Dropped
  <2>4. events = <<>>
    BY <1>6, <2>3 DEF Known, IInv, EventInv, FlagInv, Undropped
  <2> QED BY <1>1, <2>4 DEF Known, IInv, Typed
<1>12. EventsAccepted'
    BY <1>1, <1>2, <1>11 DEF Known, IInv, EventInv, EventsAccepted
<1> QED BY <1>4, <1>5, <1>7, <1>8, <1>9, <1>10, <1>12 DEF IInv, EventInv

-----------------------------------------------------------------------------
(* Observations.                                                           *)

\* The queues of each kind of job.
LEMMA KindQueues ==
    /\ JobQueues("render") = {"d3", "ta"} /\ JobQueues("joined") = {"compute", "d3", "ta"}
    /\ JobQueues("compute") = {"compute"} /\ JobQueues("none") = {}
    /\ \A kind \in Kinds : kind \in {"render", "joined", "compute"}
    BY KindsAssumption DEF JobQueues

\* The first observation of a batch, and the others.
LEMMA BatchParts ==
    ASSUME NEW b \in RenderBatches, b # <<>>
    PROVE  /\ Head(b) \in Counted /\ Tail(b) \in RenderBatches
           /\ Noted(b) = {Head(b)} \cup Noted(Tail(b)) /\ Head(b) \notin Noted(Tail(b))
           /\ Tail(b) = <<>> <=> Noted(Tail(b)) = {}
<1>1. CASE b = <<"d3">>
    BY <1>1 DEF RenderBatches, Counted, Noted
<1>2. CASE b = <<"ta">>
    BY <1>2 DEF RenderBatches, Counted, Noted
<1>3. CASE b = <<"d3", "ta">>
  <2>1. Tail(b) = <<"ta">> /\ Head(b) = "d3"
    BY <1>3
  <2>2. Noted(b) = {"d3", "ta"} /\ Noted(<<"ta">>) = {"ta"}
    BY <1>3 DEF Noted
  <2>3. <<"ta">> \in RenderBatches /\ <<"ta">> # <<>>
    BY DEF RenderBatches
  <2> QED BY <2>1, <2>2, <2>3 DEF Counted
<1> QED BY <1>1, <1>2, <1>3 DEF RenderBatches

\* Noted of the short batches.
LEMMA NotedOnes ==
    /\ Noted(<<>>) = {} /\ \A o : Noted(<<o>>) = {o} /\ Head(<<o>>) = o /\ Tail(<<o>>) = <<>>
    BY DEF Noted

\* A queue is observed while the job is in flight or completed, and it is not
\* the last of a render.
LEMMA ObserveModes ==
    ASSUME IInv, backend.phase = "Submitted", batch # <<>>, Head(batch) \in Queue
    PROVE  /\ InFlight \/ Completed
           /\ Kind = "compute" => Completed /\ batch = <<"compute">> /\ backend.job.complete = {}
           /\ Kind # "compute" => Kind \in {"render", "joined"} /\ batch \in RenderBatches
<1>1. F # 0 /\ (InFlight \/ Completed \/ Dropped \/ Faulting \/ FaultSeen)
    BY DEF IInv, LayerInv, SubmittedInv
<1>2. "recovered" \notin Queue /\ "fault" \notin Queue
    BY DEF Queue
<1>3. InFlight \/ Completed
    BY <1>1, <1>2, NotedOnes DEF Dropped, Faulting, FaultSeen
<1>4. Kind \in {"render", "joined", "compute"}
    BY <1>1, KindQueues DEF IInv, JobInv
<1>5. ASSUME Kind = "compute", InFlight PROVE FALSE
  <2>1. runtime.complete = {}
    BY <1>5, KindQueues DEF InFlight
  <2>2. batch \in RenderBatches /\ Noted(batch) = {}
    BY <1>5, <2>1 DEF InFlight, Observed
  <2> QED BY <2>2, BatchParts
<1> QED BY <1>3, <1>4, <1>5 DEF InFlight, Completed, Observed

\* What is known of the job when the backend concludes that its fence ended.
LEMMA Concludes ==
    ASSUME IInv, Observing, EndsFence(Conclusion)
    PROVE  \/ /\ Conclusion = "success" /\ (InFlight \/ Completed)
              /\ Tail(batch) = <<>>
              /\ JobQueues(Kind) \ {"compute"} \subseteq backend.job.complete \cup {Head(batch)}
              /\ \A q \in JobQueues(Kind) : Retired(q)
           \/ Conclusion = "dropped" /\ Dropped
<1>1. /\ backend.phase = "Submitted" /\ batch # <<>> /\ F # 0
      /\ InFlight \/ Completed \/ Dropped \/ Faulting \/ FaultSeen
    BY DEF Observing, IInv, LayerInv, SubmittedInv
<1>2. CASE EndsFence(Terminated)
  <2>1. Conclusion = Terminated
    BY <1>2 DEF Conclusion, Terminated, EndsFence
  <2>2. CASE Terminated = "success"
    <3>1. InFlight \/ Completed
      BY <1>1, <2>2 DEF Dropped, Faulting, FaultSeen
    <3> QED BY <1>1, <2>1, <2>2, <3>1 DEF IInv, LayerInv, SubmittedInv, RingInv, RanInv
  <2>3. CASE Terminated = "dropped"
    BY <1>1, <2>1, <2>3 DEF InFlight, Completed, Faulting, FaultSeen
  <2> QED BY <1>2, <2>2, <2>3 DEF EndsFence
<1>3. CASE ~EndsFence(Terminated) /\ Head(batch) = "recovered"
  <2>1. "recovered" \notin Queue /\ "recovered" \notin Counted
    BY DEF Queue, Counted
  <2>2. Conclusion = "dropped"
    BY <1>3, <2>1 DEF Conclusion, Terminated, EndsFence
  <2>3. ~InFlight /\ ~Completed
    BY <1>1, <1>3, <2>1, BatchParts, NotedOnes DEF InFlight, Completed, Observed
  <2>4. ~Faulting /\ ~FaultSeen
    BY <1>1, <1>3, NotedOnes DEF Faulting, FaultSeen
  <2> QED BY <1>1, <2>2, <2>3, <2>4
<1>4. CASE ~EndsFence(Terminated) /\ Head(batch) # "recovered"
  <2>1. /\ Conclusion = "success" /\ Head(batch) \in Queue
        /\ JobQueues(Kind) \ {"compute"} \subseteq backend.job.complete \cup {Head(batch)}
    BY <1>4 DEF Conclusion, Terminated, EndsFence, Kind
  <2>2. /\ InFlight \/ Completed
        /\ Kind = "compute" => Completed /\ batch = <<"compute">> /\ backend.job.complete = {}
        /\ Kind # "compute" => Kind \in {"render", "joined"} /\ batch \in RenderBatches
    BY <1>1, <2>1, ObserveModes
  <2>3. CASE Kind = "compute"
    <3>1. Retired("compute")
      BY <1>1, <2>2, <2>3, NotedOnes DEF IInv, RingInv, RanInv, Queue
    <3> QED BY <2>1, <2>2, <2>3, <3>1, KindQueues, NotedOnes
  <2>4. CASE Kind # "compute"
    <3>1. JobQueues(Kind) \ {"compute"} = Counted
      BY <2>2, <2>4, KindQueues DEF Counted
    <3>2. Tail(batch) = <<>>
      BY <1>1, <2>1, <2>2, <2>4, <3>1, BatchParts DEF InFlight, Completed, Observed, Counted
    <3>3. Head(batch) \in Noted(batch) \cap Queue
      BY <1>1, <2>1, <2>2, <2>4, BatchParts
    <3>4. Retired("d3") /\ Retired("ta")
      BY <1>1, <2>1, <3>1, <3>3 DEF IInv, RingInv, RanInv, Counted
    <3>5. Kind = "joined" => Retired("compute")
      <4>1. Ran("ta") /\ "ta" \in Queue
        BY <3>4 DEF Retired, Queue
      <4>2. Kind = "joined" => "compute" \in Needs("ta")
        BY DEF Needs
      <4> QED BY <4>1, <4>2 DEF IInv, RingInv, RanInv
    <3> QED BY <2>1, <2>2, <2>4, <3>2, <3>4, <3>5, KindQueues
  <2> QED BY <2>3, <2>4
<1> QED BY <1>2, <1>3, <1>4

\* A job ended while the runtime still waits: only after a drop.
LEMMA EndsEarly ==
    ASSUME IInv, backend.phase = "Submitted", InFlight, batch # <<>>,
           JobQueues(Kind) \ {"compute"} \subseteq backend.job.complete \cup {Head(batch)}
    PROVE  Early /\ EndedEarly
<1>1. F # 0 /\ Kind \in {"render", "joined", "compute"} /\ todo = <<>>
    BY KindQueues DEF IInv, LayerInv, SubmittedInv, JobInv
<1>2. Observed(runtime.complete) /\ runtime.complete \subseteq JobQueues(Kind)
      /\ runtime.complete # JobQueues(Kind)
    BY DEF InFlight
<1>3. Head(batch) \in Noted(batch) /\ Head(batch) \in Counted
    BY <1>2, BatchParts DEF Observed
<1>4. Kind # "compute"
  <2> SUFFICES ASSUME Kind = "compute" PROVE FALSE
    OBVIOUS
  <2>1. JobQueues(Kind) = {"compute"}
    BY KindQueues
  <2>2. runtime.complete = {}
    BY <1>2, <2>1
  <2> QED BY <1>2, <1>3, <2>2 DEF Observed
<1>5. Counted \subseteq runtime.complete
  <2>1. JobQueues(Kind) \ {"compute"} = Counted
    BY <1>1, <1>4, KindQueues DEF Counted
  <2> QED BY <1>2, <1>3, <2>1 DEF Observed
<1>6. Kind = "joined" /\ "compute" \notin runtime.complete
    BY <1>1, <1>2, <1>4, <1>5, KindQueues DEF Counted
<1>7. firmware.dropped # 0
  <2>1. firmware.dropped = 0 => Undropped
    BY DEF Undropped, InFlight, Busy
  <2> QED BY <1>5, <1>6, <2>1 DEF IInv, EventInv, FlagInv, Counted
<1> QED BY <1>5, <1>6, <1>7 DEF Early, EndedEarly, InFlight, Counted

\* A queue is observed and another is awaited.
LEMMA ObserveQueueKeeps ==
    ASSUME Known, ObserveQueue
    PROVE  IInv'
<1>1. /\ provider' = provider /\ runtime' = runtime
      /\ written' = written /\ ring' = ring /\ todo' = todo /\ window' = window
      /\ events' = events /\ firmware' = firmware /\ jobs' = jobs
      /\ batch # <<>> /\ batch' = Tail(batch) /\ backend.phase = "Submitted"
      /\ Terminated = "none" /\ Head(batch) \in Queue /\ Conclusion = "none"
    BY DEF ObserveQueue, Observing, Terminated
<1>2. /\ backend' \in BackendType /\ backend'.expected = backend.expected
      /\ backend'.phase = backend.phase /\ backend'.quiesced = backend.quiesced
      /\ F' = F /\ Kind' = Kind /\ Terminated' = Terminated
      /\ backend'.job.complete = backend.job.complete \cup {Head(batch)}
    BY <1>1 DEF ObserveQueue, Known, IInv, Typed, BackendType, F, Kind, Terminated
<1>3. RingSame /\ Busy' = Busy /\ Free' = Free /\ Early' = Early
    BY <1>1, <1>2 DEF RingSame, Busy, Free, Early
<1>4. Typed'
  <2>1. batch' \in Seq(Observation)
    BY <1>1, Fields DEF Known, IInv
  <2> QED BY <1>1, <1>2, <2>1 DEF Known, IInv, Typed
<1>5. F # 0
    BY <1>1 DEF Known, IInv, LayerInv, SubmittedInv
<1>6. JobInv'
    BY <1>1, <1>2, <1>5, JobKept DEF Known, IInv
<1>7. /\ InFlight \/ Completed
      /\ Kind = "compute" => Completed /\ batch = <<"compute">> /\ backend.job.complete = {}
      /\ Kind # "compute" => Kind \in {"render", "joined"} /\ batch \in RenderBatches
    BY <1>1, ObserveModes DEF Known
<1>8. ~(JobQueues(Kind) \ {"compute"} \subseteq backend.job.complete \cup {Head(batch)})
  <2>1. Head(batch) # "recovered"
    BY <1>1 DEF Queue
  <2> QED BY <1>1, <2>1 DEF Conclusion, EndsFence, Terminated, Kind
<1>9. Kind \in {"render", "joined"} /\ batch \in RenderBatches
    BY <1>7, <1>8, KindQueues
<1>10. JobQueues(Kind) \ {"compute"} = Counted
    BY <1>9, KindQueues DEF Counted
<1>11. /\ Head(batch) \in Counted /\ Tail(batch) \in RenderBatches
       /\ Noted(batch) = {Head(batch)} \cup Noted(batch') /\ Head(batch) \notin Noted(batch')
    BY <1>1, <1>9, BatchParts
<1>12. \A c : Observed(c) => Observed(c)'
    BY <1>1, <1>2, <1>8, <1>10, <1>11 DEF Observed, Noted, Counted
<1>13. LayerInv'
  <2>1. InFlight => InFlight'
    BY <1>1, <1>2, <1>12 DEF InFlight
  <2>2. Completed => Completed'
    BY <1>1, <1>2, <1>3, <1>9, <1>12 DEF Completed, Counted
  <2>3. SubmittedInv'
    BY <1>1, <1>2, <1>7, <2>1, <2>2 DEF Known, IInv, LayerInv, SubmittedInv
  <2> QED BY <1>1, <1>2, <1>3, <2>3
          DEF Known, IInv, LayerInv, SubmittingInv, SubmittedInv, ReadyInv, DownInv, Busy
<1>14. RanInv'
  <2>1. \A q \in Queue : Ran(q)' => \A n \in Needs(q)' : Retired(n)'
    BY <1>3, SameRings DEF Known, IInv, RingInv, RanInv
  <2>2. Retired(Head(batch))
    BY <1>1, <1>11 DEF Known, IInv, RingInv, RanInv
  <2>3. \A q \in backend'.job.complete : Retired(q)'
    BY <1>2, <1>3, <2>2, SameRings DEF Known, IInv, RingInv, RanInv
  <2>4. \A q \in (Noted(batch') \cap Queue) \cup runtime'.complete : Retired(q)'
    BY <1>1, <1>3, <1>11, SameRings DEF Known, IInv, RingInv, RanInv
  <2> QED BY <1>1, <1>2, <2>1, <2>3, <2>4 DEF RanInv, Noted
<1>15. RingInv'
    BY <1>1, <1>2, <1>3, <1>14, RingsKept, PointersKept DEF Known, IInv, RingInv
<1>16. ManagerInv'
    BY <1>1, <1>3, ManagerKept DEF Known, IInv
<1>17. EventInv'
    BY <1>1, <1>3, EventsKept DEF Known, IInv, EventInv, EventsAccepted
<1> QED BY <1>4, <1>6, <1>13, <1>15, <1>16, <1>17 DEF IInv

\* The completion is refused for now: the status of the fence is kept.
LEMMA AcknowledgeRefusedKeeps ==
    ASSUME Known, AcknowledgeRefused
    PROVE  IInv'
<1>1. /\ provider' = provider /\ runtime' = runtime
      /\ written' = written /\ ring' = ring /\ todo' = todo /\ window' = 0
      /\ events' = events /\ firmware' = firmware /\ jobs' = jobs
      /\ batch' = batch /\ batch # <<>> /\ backend.phase = "Submitted"
      /\ Observing /\ EndsFence(Conclusion)
    BY DEF AcknowledgeRefused, Observing
<1>2. Conclusion \in Terminal
    BY <1>1 DEF EndsFence, Terminal
<1>3. /\ backend' \in BackendType /\ backend'.expected = backend.expected
      /\ backend'.phase = backend.phase /\ backend'.quiesced = backend.quiesced
      /\ F' = F /\ Kind' = Kind /\ Terminated' = Conclusion
      /\ backend'.job.complete = backend.job.complete
    BY <1>1, <1>2 DEF AcknowledgeRefused, Known, IInv, Typed, BackendType, F, Kind, Terminated
<1>4. RingSame /\ Busy' = Busy /\ Free' = Free /\ Early' = Early
    BY <1>1, <1>3 DEF RingSame, Busy, Free, Early
<1>5. Typed'
    BY <1>1, <1>3 DEF Known, IInv, Typed
<1>6. F # 0
    BY <1>1 DEF Known, IInv, LayerInv, SubmittedInv
<1>7. JobInv'
    BY <1>1, <1>3, <1>6, JobKept DEF Known, IInv
<1>8. \/ /\ Conclusion = "success" /\ (InFlight \/ Completed)
         /\ Tail(batch) = <<>>
         /\ JobQueues(Kind) \ {"compute"} \subseteq backend.job.complete \cup {Head(batch)}
         /\ \A q \in JobQueues(Kind) : Retired(q)
      \/ Conclusion = "dropped" /\ Dropped
    BY <1>1, Concludes DEF Known
<1>9. \A c : Observed(c) => Observed(c)'
    BY <1>1, <1>3 DEF Observed, Noted
<1>10. LayerInv'
  <2>1. Conclusion = "success" /\ InFlight => InFlight'
    BY <1>1, <1>3, <1>9 DEF InFlight
  <2>2. Conclusion = "success" /\ Completed => Completed'
    BY <1>1, <1>3, <1>4, <1>9 DEF Completed, Counted
  <2>3. Conclusion = "dropped" /\ Dropped => Dropped'
    BY <1>1, <1>3, <1>4 DEF Dropped
  <2>4. SubmittedInv'
    BY <1>1, <1>3, <1>8, <2>1, <2>2, <2>3 DEF Known, IInv, LayerInv, SubmittedInv
  <2> QED BY <1>1, <1>3, <1>4, <2>4
          DEF Known, IInv, LayerInv, SubmittingInv, SubmittedInv, ReadyInv, DownInv, Busy
<1>11. RanInv'
  <2>1. \A q \in Queue : Ran(q)' => \A n \in Needs(q)' : Retired(n)'
    BY <1>4, SameRings DEF Known, IInv, RingInv, RanInv
  <2>2. \A q : Retired(q) => Retired(q)'
    BY <1>4, SameRings
  <2>3. Conclusion = "dropped" => F <= firmware.dropped
    BY <1>8, Fields DEF Dropped, Known, IInv
  <2>4. /\ \A q \in backend'.job.complete : Retired(q)'
        /\ \A q \in (Noted(batch)' \cap Queue) \cup runtime'.complete : Retired(q)'
    BY <1>1, <1>3, <2>2 DEF Known, IInv, RingInv, RanInv, Noted
  <2>5. Terminated' = "success" => \A q \in JobQueues(Kind)' : Retired(q)'
    BY <1>3, <1>8, <2>2
  <2>6. Terminated' = "dropped" => F' <= firmware'.dropped
    BY <1>1, <1>3, <2>3
  <2> QED BY <1>1, <2>1, <2>4, <2>5, <2>6 DEF RanInv
<1>12. RingInv'
    BY <1>1, <1>3, <1>4, <1>11, RingsKept, PointersKept DEF Known, IInv, RingInv
<1>13. ManagerInv'
    BY <1>1, <1>4, ManagerKept DEF Known, IInv
<1>14. EventInv'
    BY <1>1, <1>4, EventsKept DEF Known, IInv, EventInv, EventsAccepted
<1> QED BY <1>5, <1>7, <1>10, <1>12, <1>13, <1>14 DEF IInv

-----------------------------------------------------------------------------
(* The end of a job.                                                       *)

\* The backend lets the job go; the rings stay as they are.
JobGone ==
    /\ ring' = ring /\ firmware'.done = firmware.done /\ firmware'.head = firmware.head
    /\ backend'.expected = backend.expected /\ backend'.job = NoJob
    /\ jobs'.ran = jobs.ran /\ firmware'.dropped = firmware.dropped
    /\ firmware'.active = firmware.active /\ firmware'.halted = firmware.halted
    /\ firmware'.init = firmware.init /\ firmware'.blind = firmware.blind
    /\ firmware'.running => firmware.running

\* Nothing of the job is left on the rings.
NothingLeft ==
    \A q \in Queue : \A k \in 1 .. Left(q) : Behind(q, k).fence \in 1 .. firmware.dropped

\* A job that is retired, or dropped, leaves nothing.
LEMMA RetiredGone ==
    ASSUME Typed, firmware.running, RegionInv,
           (\A q \in JobQueues(Kind) : Retired(q)) \/ F <= firmware.dropped
    PROVE  NothingLeft
<1> SUFFICES ASSUME NEW q \in Queue, NEW k \in 1 .. Left(q)
             PROVE  Behind(q, k).fence \in 1 .. firmware.dropped
    BY DEF NothingLeft
<1>1. \/ Behind(q, k).fence \in 1 .. firmware.dropped
      \/ Behind(q, k).fence = F /\ F # 0 /\ q \in JobQueues(Kind)
    BY DEF RegionInv
<1>2. F \in Nat /\ firmware.dropped \in Nat
    BY Fields
<1>3. CASE F <= firmware.dropped
    BY <1>1, <1>2, <1>3
<1>4. CASE F > firmware.dropped /\ \A n \in JobQueues(Kind) : Retired(n)
  <2>1. q \in JobQueues(Kind) => Left(q) = 0
    BY <1>4 DEF Retired
  <2> QED BY <1>1, <2>1
<1> QED BY <1>2, <1>3, <1>4

\* A quiesced job that never got on the rings leaves nothing either.
LEMMA QuiescedGone ==
    ASSUME Typed, firmware.running, RegionInv, QuiescedInv, backend.quiesced
    PROVE  NothingLeft
<1> SUFFICES ASSUME NEW q \in Queue, NEW k \in 1 .. Left(q)
             PROVE  Behind(q, k).fence \in 1 .. firmware.dropped
    BY DEF NothingLeft
<1>1. firmware.done[q] \in Slot /\ backend.expected[q] \in Slot
    BY DEF Typed, FirmwareType, BackendType
<1>2. k \in Nat /\ k < Capacity
    BY <1>1, Distances, CapacityAssumption DEF Left
<1>3. Back(backend.expected[q], k) \in Slot
    BY <1>1, <1>2, Backs
<1>4. Behind(q, k).fence = 0 \/ Behind(q, k).fence # F
    BY <1>3 DEF QuiescedInv, Behind
<1> QED BY <1>4 DEF RegionInv

\* What is said of the rings without a job.
LEMMA RingsWithoutJob ==
    ASSUME JobGone, Typed, RegionInv, ActiveInv, EntryInv, ManagerInv,
           firmware'.running => NothingLeft, runtime'.bm => runtime.bm,
           backend'.phase # "Submitted"
    PROVE  RegionInv' /\ ActiveInv' /\ EntryInv' /\ QuiescedInv' /\ ManagerInv' /\ RanInv'
<1>1. /\ \A q : Left(q)' = Left(q)
      /\ \A q, k : Behind(q, k)' = Behind(q, k)
    BY DEF JobGone, Left, Dist, Behind, Back
<1>2. F' = 0 /\ Kind' = "none" /\ Terminated' = "none" /\ backend'.job.complete = {}
    BY DEF JobGone, F, Kind, Terminated, NoJob
<1>3. JobQueues(Kind)' = {}
    BY <1>2, KindQueues DEF Kind
<1>4. firmware.dropped \in Nat /\ F \in Nat
    BY Fields
<1>5. RegionInv'
  <2>1. \A q : Dist(firmware.done[q], firmware.head[q])' = Dist(firmware.done[q], firmware.head[q])
    BY DEF JobGone, Dist
  <2> QED BY <1>1, <2>1 DEF RegionInv, JobGone, NothingLeft
<1>6. ActiveInv'
  <2> SUFFICES ASSUME firmware'.running, firmware.active # "none" PROVE FALSE
    BY DEF ActiveInv, JobGone
  <2>1. /\ firmware.running /\ F > firmware.dropped /\ ~backend.quiesced
        /\ firmware.active \in JobQueues(Kind) /\ Left(firmware.active) = 1
    BY DEF ActiveInv, JobGone
  <2>2. Behind(firmware.active, 1).fence = F
    BY <2>1 DEF EntryInv, OnRings
  <2>3. firmware.active \in Queue
    BY DEF Typed, FirmwareType
  <2> QED BY <1>4, <2>1, <2>2, <2>3 DEF NothingLeft
<1>7. EntryInv'
    BY <1>2, <1>3 DEF EntryInv
<1>8. QuiescedInv'
    BY <1>2 DEF QuiescedInv
<1>9. ManagerInv'
    BY <1>1, <1>2 DEF ManagerInv, JobGone, Initialising
<1>10. RanInv'
  <2>1. \A q : ~Ran(q)'
    BY <1>2 DEF Ran, JobGone, Typed, JobsType, Fence
  <2>2. Terminated' # "success" /\ Terminated' # "dropped"
    BY <1>2
  <2> QED BY <1>2, <2>1, <2>2 DEF RanInv
<1> QED BY <1>5, <1>6, <1>7, <1>8, <1>9, <1>10

\* The record of the jobs without one.
LEMMA RecordWithoutJob ==
    ASSUME JobInv, Typed, JobGone, jobs'.last = jobs.last, jobs'.kind = jobs.kind,
           F = 0 => jobs'.verdict = jobs.verdict,
           F # 0 => \E v : jobs'.verdict = [jobs.verdict EXCEPT ![F] = v]
    PROVE  JobInv'
<1>1. jobs.last \in Nat /\ F \in Nat
    BY Fields
<1>2. \A f \in Fence : f > jobs.last => jobs'.verdict[f] = jobs.verdict[f]
  <2> SUFFICES ASSUME NEW f \in Fence, f > jobs.last PROVE jobs'.verdict[f] = jobs.verdict[f]
    OBVIOUS
  <2>1. f # F
    BY <1>1 DEF JobInv, Fence
  <2>2. DOMAIN jobs.verdict = Fence
    BY DEF Typed, JobsType
  <2> QED BY <2>1, <2>2
<1>3. F' = 0 /\ backend'.job = NoJob
    BY DEF JobGone, F, NoJob
<1> QED BY <1>2, <1>3 DEF JobInv, JobGone

\* The completion is taken: the backend is ready for the next job.
LEMMA AcknowledgeKeeps ==
    ASSUME Known, Acknowledge
    PROVE  IInv'
<1>1. /\ provider' = provider /\ runtime' = runtime
      /\ written' = written /\ ring' = ring /\ todo' = todo /\ window' = window
      /\ events' = events /\ firmware' = firmware
      /\ batch' = Tail(batch) /\ batch # <<>> /\ backend.phase = "Submitted"
      /\ Observing /\ EndsFence(Conclusion)
      /\ backend' = [backend EXCEPT !.phase = "Ready", !.job = NoJob]
      /\ jobs' = [jobs EXCEPT !.verdict[F] = Conclusion]
    BY DEF Acknowledge, Observing, F
<1>2. /\ F # 0 /\ F \in Fence /\ todo = <<>>
    BY <1>1, Fields DEF Known, IInv, LayerInv, SubmittedInv, Fence
<1>3. \/ /\ Conclusion = "success" /\ (InFlight \/ Completed)
         /\ Tail(batch) = <<>>
         /\ JobQueues(Kind) \ {"compute"} \subseteq backend.job.complete \cup {Head(batch)}
         /\ \A q \in JobQueues(Kind) : Retired(q)
      \/ Conclusion = "dropped" /\ Dropped
    BY <1>1, Concludes DEF Known
<1>4. /\ backend' \in BackendType /\ backend'.expected = backend.expected
      /\ backend'.phase = "Ready" /\ backend'.quiesced = backend.quiesced /\ backend'.job = NoJob
  <2>1. NoJob \in [kind : Kinds \cup {"none"}, fence : 0 .. MaxFence,
                  complete : SUBSET Queue, terminal : Terminal]
    BY Fields DEF Known, IInv, NoJob, Terminal
  <2>2. backend \in BackendType
    BY DEF Known, IInv, Typed
  <2> QED BY <1>1, <2>1, <2>2 DEF BackendType
<1>5. /\ jobs' \in JobsType /\ jobs'.ran = jobs.ran /\ jobs'.last = jobs.last
      /\ jobs'.kind = jobs.kind /\ jobs'.rejected = jobs.rejected
      /\ jobs'.verdict = [jobs.verdict EXCEPT ![F] = Conclusion]
    BY <1>1, <1>2, <1>3 DEF Known, IInv, Typed, JobsType, Reply
<1>6. /\ batch' = <<>> /\ firmware.running /\ ~backend.quiesced
  <2>1. Dropped => batch' = <<>>
    BY <1>1, NotedOnes DEF Dropped
  <2> QED BY <1>1, <1>3, <2>1 DEF InFlight, Completed, Dropped
<1>7. Free \/ Early
    BY <1>1, <1>3, EndsEarly DEF Known, Completed, Dropped
<1>8. Typed'
  <2>1. batch' \in Seq(Observation)
    BY <1>6
  <2> QED BY <1>1, <1>4, <1>5, <2>1 DEF Known, IInv, Typed
<1>9. JobGone
    BY <1>1, <1>4, <1>5 DEF JobGone
<1>10. JobInv'
    BY <1>2, <1>5, <1>9, RecordWithoutJob DEF Known, IInv
<1>11. Free' = Free /\ Early' = Early /\ Busy'
    BY <1>1, <1>4 DEF Free, Early, Busy
<1>12. LayerInv'
    BY <1>1, <1>2, <1>4, <1>6, <1>7, <1>11
    DEF LayerInv, SubmittingInv, ReadyInv, SubmittedInv, DownInv
<1>13. NothingLeft
    BY <1>3, <1>6, RetiredGone, Fields DEF Known, IInv, RingInv, Dropped
<1>14. RegionInv' /\ ActiveInv' /\ EntryInv' /\ QuiescedInv' /\ ManagerInv' /\ RanInv'
    BY <1>1, <1>4, <1>9, <1>13, RingsWithoutJob DEF Known, IInv, RingInv
<1>15. PointerInv'
    BY <1>1, <1>4, PointersKept DEF Known, IInv, RingInv, Busy
<1>16. \A i \in Places : ~Fault(i)
  <2> SUFFICES ASSUME NEW i \in Places, Fault(i) PROVE FALSE
    OBVIOUS
  <2>1. F > firmware.dropped /\ \E q \in JobQueues(Kind) : Left(q) > 0
    BY <1>1, <1>6 DEF Known, IInv, EventInv, HaltInv, Busy
  <2>2. Dropped => F = firmware.dropped
    BY DEF Dropped
  <2>3. \A q \in JobQueues(Kind) : Retired(q)
    BY <1>3, <2>1, <2>2, Fields DEF Known, IInv
  <2> QED BY <1>6, <2>1, <2>3 DEF Retired
<1>17. HaltInv'
    BY <1>1, <1>16 DEF Known, IInv, EventInv, HaltInv, Places, Fault
<1>18. FlagInv'
  <2> SUFFICES ASSUME firmware.dropped = 0 PROVE FlagInv'
    BY <1>1 DEF FlagInv, Undropped
  <2>1. Free /\ Undropped
    BY <1>1, <1>6, <1>7 DEF Early, Undropped, Busy
  <2>2. events = <<>> /\ firmware.raised = {}
    BY <1>2, <2>1 DEF Known, IInv, EventInv, FlagInv
  <2>3. JobQueues(Kind)' = {} /\ Kind' = "none"
    BY <1>4, KindQueues DEF Kind, NoJob
  <2>4. Places' = {}
    BY <1>1, <2>2 DEF Places
  <2> QED BY <1>1, <2>2, <2>3, <2>4 DEF FlagInv
<1>19. EventsAccepted'
    BY <1>1, <1>5 DEF Known, IInv, EventInv, EventsAccepted
<1> QED BY <1>8, <1>10, <1>12, <1>14, <1>15, <1>17, <1>18, <1>19 DEF IInv, RingInv, EventInv

-----------------------------------------------------------------------------
(* Stopping.                                                               *)

\* A step of a backend that has failed or stops, with the job still held.
LEMMA DownKeeps ==
    ASSUME IInv, RingSame, events' = events, ~Busy', Typed', DownInv', todo' = <<>>,
           F = 0 => backend'.job = backend.job, jobs'.last = jobs.last, jobs'.kind = jobs.kind,
           jobs'.verdict = jobs.verdict, jobs'.rejected = jobs.rejected,
           backend'.job.complete = backend.job.complete,
           Terminated' = Terminated \/ Terminated' \notin {"success", "dropped"},
           runtime'.bm => runtime.bm
    PROVE  IInv'
<1>1. JobInv'
    BY JobKept DEF IInv, RingSame
<1>2. LayerInv'
    BY DEF LayerInv, SubmittingInv, ReadyInv, SubmittedInv, Busy
<1>3. RegionInv' /\ ActiveInv' /\ EntryInv' /\ QuiescedInv'
    BY RingsKept DEF IInv, RingInv
<1>4. RanInv'
    BY RanKept DEF IInv, RingInv, Busy
<1>5. PointerInv'
    BY DEF PointerInv
<1>6. ManagerInv'
    BY ManagerKept DEF IInv
<1>7. HaltInv' /\ FlagInv'
    BY DEF IInv, EventInv, HaltInv, FlagInv, Undropped, Places
<1>8. EventsAccepted'
    BY DEF IInv, EventInv, EventsAccepted, RingSame
<1> QED BY <1>1, <1>2, <1>3, <1>4, <1>5, <1>6, <1>7, <1>8 DEF IInv, RingInv, EventInv

\* ... and one that lets it go.
LEMMA DownWithoutJob ==
    ASSUME IInv, JobGone, events' = events, ~Busy', Typed', DownInv', todo' = <<>>,
           jobs'.last = jobs.last, jobs'.kind = jobs.kind, jobs'.rejected = jobs.rejected,
           F = 0 => jobs'.verdict = jobs.verdict,
           F # 0 => \E v : jobs'.verdict = [jobs.verdict EXCEPT ![F] = v],
           firmware'.running => NothingLeft, runtime'.bm => runtime.bm
    PROVE  IInv'
<1>1. JobInv'
    BY RecordWithoutJob DEF IInv
<1>2. LayerInv'
    BY DEF LayerInv, SubmittingInv, ReadyInv, SubmittedInv, Busy
<1>3. RegionInv' /\ ActiveInv' /\ EntryInv' /\ QuiescedInv' /\ ManagerInv' /\ RanInv'
    BY RingsWithoutJob DEF IInv, RingInv, Busy
<1>4. PointerInv'
    BY DEF PointerInv
<1>5. HaltInv' /\ FlagInv'
    BY DEF IInv, EventInv, HaltInv, FlagInv, Undropped, Places
<1>6. EventsAccepted'
    BY DEF IInv, EventInv, EventsAccepted, JobGone
<1> QED BY <1>1, <1>2, <1>3, <1>4, <1>5, <1>6 DEF IInv, RingInv, EventInv

\* A step with the firmware stopped.
LEMMA StoppedKeeps ==
    ASSUME IInv, RingSame, ~firmware'.running, Typed', LayerInv', todo' = todo,
           \A i \in Places' : \E j \in Places : events'[i] = events[j],
           F = 0 => backend'.job = backend.job, jobs'.last = jobs.last, jobs'.kind = jobs.kind,
           jobs'.verdict = jobs.verdict, jobs'.rejected = jobs.rejected,
           backend'.job.complete = backend.job.complete,
           Terminated' = Terminated \/ Terminated' \notin {"success", "dropped"},
           backend'.phase = "Submitted" =>
             /\ backend.phase = "Submitted"
             /\ Noted(batch)' \cap Queue \subseteq Noted(batch) \cup runtime.complete
             /\ runtime'.complete \subseteq runtime.complete
    PROVE  IInv'
<1>1. JobInv'
    BY JobKept DEF IInv, RingSame
<1>2. RegionInv' /\ ActiveInv' /\ EntryInv' /\ QuiescedInv'
    BY RingsKept DEF IInv, RingInv
<1>3. RanInv'
    BY RanKept DEF IInv, RingInv
<1>4. PointerInv'
    BY DEF PointerInv
<1>5. ManagerInv'
    BY DEF IInv, ManagerInv, RingSame
<1>6. HaltInv' /\ FlagInv'
    BY DEF IInv, EventInv, HaltInv, FlagInv, Undropped
<1>7. EventsAccepted'
    BY DEF IInv, EventInv, EventsAccepted, RingSame
<1> QED BY <1>1, <1>2, <1>3, <1>4, <1>5, <1>6, <1>7 DEF IInv, RingInv, EventInv

\* What a call to stop the queues works on.
DeviceType == [prov : ProviderType, rt : RuntimeType, written : [Queue -> Slot],
               running : BOOLEAN, ok : BOOLEAN]

\* The state of the driver when it is called.
LEMMA DeviceTyped ==
    ASSUME Typed
    PROVE  /\ Device \in DeviceType /\ Device.prov = provider /\ Device.rt = runtime
           /\ Device.written = written /\ Device.running = firmware.running /\ Device.ok
    BY DEF Typed, FirmwareType, Device, DeviceType

\* The firmware is stopped, or the call is refused.
LEMMA Quiesces ==
    ASSUME NEW d \in DeviceType, NEW f, NEW e \in Quiesce(d, f)
    PROVE  /\ e \in DeviceType /\ e.prov = d.prov /\ e.rt = d.rt /\ e.written = d.written
           /\ e.running => d.running
           /\ e.ok => f # 0 /\ f = d.prov.fence /\ ~e.running
           /\ ~e.ok => e.running = d.running
<1>1. \/ (f = 0 \/ d.prov.fence # f) /\ e = [d EXCEPT !.ok = FALSE]
      \/ ~(f = 0 \/ d.prov.fence # f) /\ e = [d EXCEPT !.ok = TRUE, !.running = FALSE]
      \/ ~(f = 0 \/ d.prov.fence # f) /\ e = [d EXCEPT !.ok = ~d.running]
    BY DEF Quiesce
<1> QED BY <1>1 DEF DeviceType

\* Restoring the queues after a stop.
LEMMA Restores ==
    ASSUME Typed, NEW d \in DeviceType
    PROVE  /\ RestoreAfterQuiesce(d) \in DeviceType /\ RestoreAfterQuiesce(d).prov = Idle
           /\ RestoreAfterQuiesce(d).ok /\ RestoreAfterQuiesce(d).running = d.running
           /\ RestoreAfterQuiesce(d).rt.bm = FALSE /\ RestoreAfterQuiesce(d).rt.complete = {}
<1>1. firmware.done \in [Queue -> Slot] /\ 0 \in 0 .. MaxFence
    BY BoundAssumption DEF Typed, FirmwareType
<1>2. Idle \in ProviderType
    BY <1>1 DEF Idle, ProviderType, ProviderPhase
<1>3. DEFINE rt == [ClearPending(d.rt) EXCEPT !.bm = FALSE, !.phase = "Ready"]
<1>4. rt \in RuntimeType /\ rt.bm = FALSE /\ rt.complete = {}
    BY <1>1 DEF ClearPending, RuntimeType, DeviceType
<1>5. RestoreAfterQuiesce(d) = [d EXCEPT !.ok = TRUE, !.written = firmware.done, !.rt = rt,
                                        !.prov = Idle]
    BY DEF RestoreAfterQuiesce, RuntimeReset, DeviceType
<1> HIDE DEF rt
<1> QED BY <1>1, <1>2, <1>4, <1>5 DEF DeviceType

\* What the provider leaves when it is told to stop a fence: a fence it does not
\* hold is refused, and one it holds is gone with a stopped firmware or stays.
LEMMA Stops ==
    ASSUME Typed, NEW d \in DeviceType, d.prov.quiesced => ~d.running, NEW f \in 0 .. MaxFence,
           NEW e \in ProviderStop(d, f)
    PROVE  /\ e \in DeviceType /\ (e.running => d.running) /\ (e.rt.bm => d.rt.bm)
           /\ e.rt.complete \subseteq d.rt.complete
           /\ f = 0 \/ f # d.prov.fence =>
                /\ e.prov = d.prov /\ e.rt = d.rt /\ e.running = d.running
                /\ e.ok => f = 0 /\ d.prov.phase = "Created" /\ d.prov.fence = 0
           /\ f # 0 /\ f = d.prov.fence =>
                IF e.ok THEN e.prov = Idle /\ (e.running => d.prov.phase = "3dStaged")
                ELSE /\ e.prov.fence = f /\ e.prov.phase \in {d.prov.phase, "Faulted"}
                     /\ e.prov.quiesced => ~e.running
           /\ f # 0 /\ f = d.prov.fence /\ d.prov.phase = "Faulted" /\ d.prov.quiesced => e.ok
<1>1. CASE f = 0
  <2>1. e = [d EXCEPT !.ok = (d.prov.phase = "Created" /\ d.prov.fence = 0)]
    BY <1>1, Zenon DEF ProviderStop
  <2> QED BY <1>1, <2>1 DEF DeviceType
<1>2. CASE f # 0 /\ f # d.prov.fence
  <2>1. e = [d EXCEPT !.ok = FALSE]
    BY <1>2 DEF ProviderStop
  <2> QED BY <1>2, <2>1 DEF DeviceType
<1>3. CASE f # 0 /\ f = d.prov.fence /\ d.prov.phase = "3dStaged"
  <2>1. e = [d EXCEPT !.ok = TRUE, !.prov = Idle]
    BY <1>3 DEF ProviderStop
  <2>2. Idle \in ProviderType
    BY BoundAssumption DEF Idle, ProviderType, ProviderPhase
  <2> QED BY <1>3, <2>1, <2>2 DEF DeviceType
<1>4. CASE f # 0 /\ f = d.prov.fence /\ d.prov.phase = "Faulted"
  <2>1. PICK c \in EnsureFailureQuiesced(d) : e = IF c.ok THEN RestoreAfterQuiesce(c) ELSE c
    BY <1>4 DEF ProviderStop
  <2>2. CASE d.prov.quiesced
    <3>1. c = [d EXCEPT !.ok = TRUE]
      BY <2>1, <2>2 DEF EnsureFailureQuiesced
    <3>2. c \in DeviceType /\ c.ok /\ c.running = d.running
      BY <3>1 DEF DeviceType
    <3>3. e = RestoreAfterQuiesce(c)
      BY <2>1, <3>2
    <3> QED BY <1>4, <2>2, <3>2, <3>3, Restores
  <2>3. CASE ~d.prov.quiesced
    <3>1. PICK b \in Quiesce(d, d.prov.fence) :
            c = IF b.ok THEN [b EXCEPT !.prov.quiesced = TRUE] ELSE b
      BY <2>1, <2>3 DEF EnsureFailureQuiesced
    <3>2. /\ b \in DeviceType /\ b.prov = d.prov /\ b.rt = d.rt
          /\ b.running => d.running
          /\ b.ok => ~b.running
          /\ ~b.ok => b.running = d.running
      BY Quiesces
    <3>3. CASE b.ok
      <4>1. c = [b EXCEPT !.prov.quiesced = TRUE]
        BY <3>1, <3>3
      <4>2. c \in DeviceType /\ c.ok /\ c.running = b.running
        BY <3>2, <3>3, <4>1 DEF DeviceType, ProviderType
      <4>3. e = RestoreAfterQuiesce(c)
        BY <2>1, <4>2
      <4> QED BY <1>4, <3>2, <3>3, <4>2, <4>3, Restores
    <3>4. CASE ~b.ok
      <4>1. e = b
        BY <2>1, <3>1, <3>4
      <4> QED BY <1>4, <2>3, <3>2, <3>4, <4>1
    <3> QED BY <3>3, <3>4
  <2> QED BY <2>2, <2>3 DEF DeviceType, ProviderType
<1>5. CASE f # 0 /\ f = d.prov.fence /\ d.prov.phase \in {"Submitted", "ComputeOnly"}
  <2>1. PICK c \in Cancel(d, f) : e = IF c.ok THEN RestoreAfterQuiesce(c) ELSE c
    BY <1>5 DEF ProviderStop
  <2>2. PICK b \in Quiesce(d, f) :
          c = IF b.ok THEN [b EXCEPT !.rt = [ClearPending(@) EXCEPT !.phase = "Faulted"]]
              ELSE [b EXCEPT !.rt.phase = "Faulted",
                             !.prov.phase = "Faulted", !.prov.quiesced = FALSE]
    BY <2>1 DEF Cancel
  <2>3. /\ b \in DeviceType /\ b.prov = d.prov /\ b.rt = d.rt
        /\ b.running => d.running
        /\ b.ok => ~b.running
        /\ ~b.ok => b.running = d.running
    BY Quiesces
  <2>4. CASE b.ok
    <3>1. c = [b EXCEPT !.rt = [ClearPending(b.rt) EXCEPT !.phase = "Faulted"]]
      BY <2>2, <2>4
    <3>2. [ClearPending(b.rt) EXCEPT !.phase = "Faulted"] \in RuntimeType
      <4>1. b.rt \in RuntimeType /\ 0 \in 0 .. MaxFence
        BY <2>3, BoundAssumption DEF DeviceType
      <4> QED BY <4>1 DEF ClearPending, RuntimeType
    <3>3. c \in DeviceType /\ c.ok /\ c.running = b.running
      BY <2>3, <2>4, <3>1, <3>2 DEF DeviceType
    <3>4. e = RestoreAfterQuiesce(c)
      BY <2>1, <3>3
    <3> QED BY <1>5, <2>3, <2>4, <3>3, <3>4, Restores
  <2>5. CASE ~b.ok
    <3>1. c = [b EXCEPT !.rt.phase = "Faulted", !.prov.phase = "Faulted", !.prov.quiesced = FALSE]
      BY <2>2, <2>5
    <3>2. b.rt \in RuntimeType /\ b.prov \in ProviderType
      BY <2>3 DEF DeviceType
    <3>3. /\ c \in DeviceType /\ ~c.ok /\ c.running = b.running /\ c.rt.bm = b.rt.bm
          /\ c.rt.complete = b.rt.complete
          /\ c.prov.fence = b.prov.fence /\ c.prov.phase = "Faulted" /\ ~c.prov.quiesced
      BY <2>3, <2>5, <3>1, <3>2 DEF DeviceType, RuntimeType, ProviderType, ProviderPhase
    <3>4. e = c
      BY <2>1, <3>3
    <3> QED BY <1>5, <2>3, <3>3, <3>4
  <2> QED BY <2>4, <2>5 DEF DeviceType
<1>6. CASE f # 0 /\ f = d.prov.fence /\ d.prov.phase \in {"Initialized", "Created"}
  <2>1. e = [d EXCEPT !.ok = FALSE]
    BY <1>6 DEF ProviderStop
  <2> QED BY <1>6, <2>1 DEF DeviceType
<1>7. d.prov.phase \in ProviderPhase
    BY DEF DeviceType, ProviderType
<1> QED BY <1>1, <1>2, <1>3, <1>4, <1>5, <1>6, <1>7 DEF ProviderPhase

\* The provider of a job whose end the backend knows.
LEMMA ToldProvider ==
    ASSUME IInv, backend.phase \in {"Ready", "Submitted", "Failed"}, todo = <<>>,
           EndsFence(Terminated)
    PROVE  provider.fence = 0 \/ EndedEarly
<1>1. CASE backend.phase = "Ready"
    BY <1>1 DEF IInv, LayerInv, ReadyInv, NoJob, EndsFence, Terminated
<1>2. CASE backend.phase = "Failed"
    BY <1>2 DEF IInv, LayerInv, DownInv, Busy
<1>3. CASE backend.phase = "Submitted"
  <2>1. /\ InFlight \/ Completed \/ Dropped
        /\ Terminated = "success" =>
             /\ batch # <<>>
             /\ JobQueues(Kind) \ {"compute"} \subseteq backend.job.complete \cup {Head(batch)}
    BY <1>3 DEF IInv, LayerInv, SubmittedInv, EndsFence, Faulting, FaultSeen
  <2>2. InFlight => Terminated = "success"
    BY DEF InFlight, EndsFence
  <2> QED BY <1>3, <2>1, <2>2, EndsEarly DEF Completed, Dropped, Free, Idle
<1> QED BY <1>1, <1>2, <1>3

\* The provider when the backend may be stopped.
LEMMA StopProvider ==
    ASSUME IInv, backend.phase \in {"Ready", "Submitted", "Failed"}, todo = <<>>
    PROVE  /\ provider.fence \in {0, F} \/ EndedEarly
           /\ provider.phase # "3dStaged"
           /\ provider.phase = "Created" => provider = Idle
           /\ provider.quiesced => ~firmware.running
           /\ backend.quiesced => provider = Idle
<1>1. CASE backend.phase = "Ready"
  <2>1. Free \/ Early
    BY <1>1 DEF IInv, LayerInv, ReadyInv
  <2>2. ~backend.quiesced
    BY <1>1 DEF IInv, LayerInv, ReadyInv
  <2>3. Early => EndedEarly
    BY DEF Early, EndedEarly
  <2> QED BY <2>1, <2>2, <2>3 DEF Free, Early, Idle
<1>2. CASE backend.phase = "Failed"
    BY <1>2 DEF IInv, LayerInv, DownInv, Busy
<1>3. CASE backend.phase = "Submitted"
  <2>1. InFlight \/ Completed \/ Dropped \/ Faulting \/ FaultSeen
    BY <1>3 DEF IInv, LayerInv, SubmittedInv
  <2>2. CASE InFlight
    BY <2>2 DEF InFlight
  <2>3. CASE Faulting
    BY <2>3 DEF Faulting
  <2>4. CASE Completed \/ Dropped \/ FaultSeen
    BY <2>4 DEF Completed, Dropped, FaultSeen, Free, Idle
  <2> QED BY <2>1, <2>2, <2>3, <2>4
<1> QED BY <1>1, <1>2, <1>3

\* The receipt of the completed fence is refused.
LEMMA StopRefusedKeeps ==
    ASSUME Known, StopRefused
    PROVE  IInv'
<1>1. /\ provider' = provider /\ runtime' = runtime /\ written' = written /\ ring' = ring
      /\ todo' = todo /\ batch' = batch /\ window' = window /\ events' = events
      /\ firmware' = firmware /\ jobs' = jobs /\ todo = <<>> /\ window = 0
      /\ backend.phase \in {"Ready", "Submitted", "Failed"} /\ EndsFence(Terminated)
      /\ backend' = [backend EXCEPT !.phase = "Failed"]
    BY DEF StopRefused, Terminated
<1>2. /\ backend' \in BackendType /\ backend'.job = backend.job
      /\ backend'.expected = backend.expected /\ backend'.quiesced = backend.quiesced
      /\ backend'.phase = "Failed"
    BY <1>1 DEF Known, IInv, Typed, BackendType
<1>3. RingSame /\ ~Busy'
    BY <1>1, <1>2 DEF RingSame, F, Kind, Busy
<1>4. Typed'
    BY <1>1, <1>2 DEF Known, IInv, Typed
<1>5. DownInv'
  <2>1. provider.fence = 0 \/ EndedEarly
    BY <1>1, ToldProvider DEF Known
  <2>2. EndedEarly' = EndedEarly /\ Terminated' = Terminated /\ F' = F
    BY <1>1, <1>2 DEF EndedEarly, Terminated, F
  <2> QED BY <1>1, <1>2, <2>1, <2>2, StopProvider DEF DownInv, Known
<1> QED BY <1>1, <1>2, <1>3, <1>4, <1>5, DownKeeps DEF Known, Terminated

\* The retirement of the fence is refused.
LEMMA RetireRefusedKeeps ==
    ASSUME Known, RetireRefused
    PROVE  IInv'
<1>1. /\ provider' = provider /\ runtime' = runtime /\ written' = written /\ ring' = ring
      /\ todo' = todo /\ batch' = batch /\ window' = window /\ events' = events
      /\ firmware' = firmware /\ jobs' = jobs
      /\ backend.phase = "Stopping" /\ F # 0 /\ ~Busy
      /\ backend' = [backend EXCEPT !.phase = "Failed", !.job.terminal = "cancelled"]
    BY DEF RetireRefused, F, Busy
<1>2. /\ backend' \in BackendType /\ F' = F /\ Kind' = Kind /\ Terminated' = "cancelled"
      /\ backend'.job.complete = backend.job.complete
      /\ backend'.expected = backend.expected /\ backend'.quiesced = backend.quiesced
      /\ backend'.phase = "Failed"
    BY <1>1 DEF Known, IInv, Typed, BackendType, F, Kind, Terminated, Terminal
<1>3. RingSame /\ ~Busy'
    BY <1>1, <1>2 DEF RingSame, Busy
<1>4. Typed'
    BY <1>1, <1>2 DEF Known, IInv, Typed
<1>5. DownInv'
  <2>1. EndedEarly' = EndedEarly /\ ~EndsFence(Terminated')
    BY <1>1, <1>2 DEF EndedEarly, EndsFence
  <2> QED BY <1>1, <1>2, <2>1 DEF DownInv, Known, IInv, LayerInv
<1>6. todo' = <<>>
    BY <1>1 DEF DownInv, Known, IInv, LayerInv
<1> QED BY <1>1, <1>2, <1>3, <1>4, <1>5, <1>6, DownKeeps DEF Known

\* The pending fence is cancelled and the queues are destroyed.
LEMMA StopFinishKeeps ==
    ASSUME Known, StopFinish
    PROVE  IInv'
<1>1. backend.phase = "Stopping" /\ ~Busy /\ backend.quiesced /\ provider = Idle
      /\ todo = <<>> /\ window = 0
    BY DEF StopFinish, Busy, Known, IInv, LayerInv, DownInv
<1>2. /\ ring' = ring /\ todo' = todo /\ batch' = batch /\ window' = window
      /\ events' = events /\ firmware' = firmware
      /\ Adopt([RuntimeReset(Device) EXCEPT !.prov.phase = "Initialized"])
      /\ backend' = [backend EXCEPT !.phase = "Stopped", !.job = NoJob, !.quiesced = FALSE]
      /\ jobs' = IF F = 0 THEN jobs ELSE [jobs EXCEPT !.verdict[F] = "cancelled"]
    BY <1>1 DEF StopFinish, Idle, F
<1>3. /\ backend' \in BackendType /\ backend'.job = NoJob
      /\ backend'.expected = backend.expected /\ ~backend'.quiesced /\ backend'.phase = "Stopped"
  <2>1. NoJob \in [kind : Kinds \cup {"none"}, fence : 0 .. MaxFence,
                  complete : SUBSET Queue, terminal : Terminal]
    BY Fields DEF Known, IInv, NoJob, Terminal
  <2>2. backend \in BackendType
    BY DEF Known, IInv, Typed
  <2> QED BY <1>2, <2>1, <2>2 DEF BackendType
<1>4. /\ written' = firmware.done /\ runtime' \in RuntimeType /\ ~runtime'.bm
      /\ provider' = [Idle EXCEPT !.phase = "Initialized"] /\ provider' \in ProviderType
  <2>1. Device \in DeviceType /\ Device.prov = Idle
    BY <1>1, DeviceTyped DEF Known, IInv
  <2>2. /\ RuntimeReset(Device).written = firmware.done /\ RuntimeReset(Device).prov = Idle
        /\ RuntimeReset(Device).rt = [ClearPending(Device.rt) EXCEPT !.bm = FALSE, !.phase = "Ready"]
    BY <2>1 DEF RuntimeReset, DeviceType
  <2>3. Device.rt \in RuntimeType /\ 0 \in 0 .. MaxFence
    BY <2>1, BoundAssumption DEF DeviceType
  <2>4. /\ RuntimeReset(Device).rt \in RuntimeType /\ ~RuntimeReset(Device).rt.bm
    BY <2>2, <2>3 DEF ClearPending, RuntimeType
  <2>5. RuntimeReset(Device) = [prov |-> Idle, rt |-> RuntimeReset(Device).rt,
                                written |-> firmware.done, running |-> Device.running,
                                ok |-> TRUE]
    <3>1. RuntimeReset(Device) =
            [Device EXCEPT !.ok = TRUE, !.written = firmware.done,
                           !.rt = [ClearPending(Device.rt) EXCEPT !.bm = FALSE, !.phase = "Ready"]]
      BY DEF RuntimeReset
    <3>2. PICK rt : rt = [ClearPending(Device.rt) EXCEPT !.bm = FALSE, !.phase = "Ready"]
      OBVIOUS
    <3> QED BY <2>1, <3>1, <3>2 DEF DeviceType
  <2>6. /\ written' = firmware.done /\ runtime' = RuntimeReset(Device).rt
        /\ provider' = [Idle EXCEPT !.phase = "Initialized"]
    BY <1>2, <2>5 DEF Adopt
  <2>7. provider' \in ProviderType
    BY <2>3, <2>6 DEF Idle, ProviderType, ProviderPhase
  <2> QED BY <2>4, <2>6, <2>7
<1>5. /\ jobs' \in JobsType /\ jobs'.ran = jobs.ran /\ jobs'.last = jobs.last
      /\ jobs'.kind = jobs.kind /\ jobs'.rejected = jobs.rejected
      /\ F = 0 => jobs'.verdict = jobs.verdict
      /\ F # 0 => jobs'.verdict = [jobs.verdict EXCEPT ![F] = "cancelled"]
    BY <1>2 DEF Known, IInv, Typed, JobsType, Reply
<1>6. Typed'
    BY <1>2, <1>3, <1>4, <1>5 DEF Known, IInv, Typed, FirmwareType
<1>7. JobGone /\ ~Busy'
    BY <1>2, <1>3, <1>5 DEF JobGone, Busy
<1>8. DownInv'
    BY <1>1, <1>2, <1>3, <1>4 DEF DownInv, Idle, F, Terminated, NoJob, EndsFence
<1>9. firmware'.running => NothingLeft
    BY <1>1, <1>2, QuiescedGone DEF Known, IInv, RingInv
<1> QED BY <1>1, <1>2, <1>4, <1>5, <1>6, <1>7, <1>8, <1>9, DownWithoutJob DEF Known

\* The teardown begins.
LEMMA StopBeginKeeps ==
    ASSUME Known, StopBegin
    PROVE  IInv'
<1> DEFINE told == EndsFence(Terminated)
           job == IF told THEN NoJob ELSE backend.job
<1>1. /\ backend.phase \in {"Ready", "Submitted", "Failed"} /\ todo = <<>> /\ window = 0
      /\ ring' = ring /\ todo' = todo /\ batch' = batch /\ window' = window /\ events' = events
      /\ jobs' = IF told THEN [jobs EXCEPT !.verdict[F] = Terminated] ELSE jobs
    BY DEF StopBegin, F, Terminated
<1>2. PICK d \in IF backend.quiesced THEN {Device} ELSE ProviderStop(Device, job.fence) :
        /\ Adopt(d)
        /\ firmware' = [firmware EXCEPT !.running = d.running]
        /\ backend' = [backend EXCEPT !.job = job,
                               !.phase = IF d.ok THEN "Stopping" ELSE "Failed",
                               !.quiesced = d.ok]
    BY DEF StopBegin, Terminated
<1>3. /\ Device \in DeviceType /\ Device.prov = provider /\ Device.rt = runtime
      /\ Device.running = firmware.running /\ Device.ok
    BY DeviceTyped DEF Known, IInv
<1>4. /\ provider.fence \in {0, F} \/ EndedEarly
      /\ provider.phase # "3dStaged"
      /\ provider.phase = "Created" => provider = Idle
      /\ provider.quiesced => ~firmware.running
      /\ backend.quiesced => provider = Idle
    BY <1>1, StopProvider DEF Known
<1>5. told => provider.fence = 0 \/ EndedEarly
    BY <1>1, ToldProvider DEF Known
<1>6. NoJob \in [kind : Kinds \cup {"none"}, fence : 0 .. MaxFence,
                 complete : SUBSET Queue, terminal : Terminal]
    BY Fields DEF Known, IInv, NoJob, Terminal
<1>7. job \in [kind : Kinds \cup {"none"}, fence : 0 .. MaxFence,
               complete : SUBSET Queue, terminal : Terminal]
    BY <1>6 DEF Known, IInv, Typed, BackendType
<1>8. /\ d \in DeviceType /\ (d.running => firmware.running) /\ (d.rt.bm => runtime.bm)
      /\ backend.quiesced => d = Device
      /\ ~backend.quiesced /\ (job.fence = 0 \/ job.fence # provider.fence) =>
           /\ d.prov = provider /\ d.rt = runtime /\ d.running = firmware.running
           /\ d.ok => job.fence = 0 /\ provider.phase = "Created" /\ provider.fence = 0
      /\ ~backend.quiesced /\ job.fence # 0 /\ job.fence = provider.fence =>
           IF d.ok THEN d.prov = Idle /\ ~d.running
           ELSE /\ d.prov.fence = job.fence /\ d.prov.phase \in {provider.phase, "Faulted"}
                /\ d.prov.quiesced => ~d.running
  <2>1. CASE backend.quiesced
    BY <1>2, <1>3, <2>1
  <2>2. CASE ~backend.quiesced
    <3>1. d \in ProviderStop(Device, job.fence) /\ job.fence \in 0 .. MaxFence
      BY <1>2, <1>7, <2>2
    <3> HIDE DEF job, told
    <3> QED BY <1>3, <1>4, <2>2, <3>1, Stops DEF Known, IInv
  <2> QED BY <2>1, <2>2
<1>9. /\ backend' \in BackendType /\ backend'.job = job /\ backend'.expected = backend.expected
      /\ backend'.quiesced = d.ok /\ backend'.phase \in {"Stopping", "Failed"}
      /\ backend'.phase = "Stopping" => d.ok
  <2>1. backend \in BackendType /\ d.ok \in BOOLEAN
    BY <1>8 DEF Known, IInv, Typed, DeviceType
  <2> HIDE DEF job, told
  <2> QED BY <1>2, <1>7, <2>1 DEF BackendType
<1>10. /\ firmware' \in FirmwareType /\ firmware'.running = d.running
       /\ firmware'.done = firmware.done /\ firmware'.head = firmware.head
       /\ firmware'.active = firmware.active /\ firmware'.halted = firmware.halted
       /\ firmware'.init = firmware.init /\ firmware'.blind = firmware.blind
       /\ firmware'.dropped = firmware.dropped
    BY <1>2, <1>8 DEF Known, IInv, Typed, FirmwareType, DeviceType
<1>11. provider' = d.prov /\ runtime' = d.rt /\ written' = d.written
    BY <1>2 DEF Adopt
<1>12. /\ jobs' \in JobsType /\ jobs'.ran = jobs.ran /\ jobs'.last = jobs.last
       /\ jobs'.kind = jobs.kind /\ jobs'.rejected = jobs.rejected
       /\ ~told => jobs'.verdict = jobs.verdict
       /\ told => jobs'.verdict = [jobs.verdict EXCEPT ![F] = Terminated]
    BY <1>1 DEF Known, IInv, Typed, JobsType, Reply, EndsFence
<1>13. Typed'
    BY <1>1, <1>8, <1>9, <1>10, <1>11, <1>12 DEF Known, IInv, Typed, DeviceType
<1>14. ~Busy'
    BY <1>9 DEF Busy
<1>15. F' = job.fence /\ Terminated' = job.terminal /\ Kind' = job.kind
       /\ (told => job.fence = 0) /\ ~EndsFence(job.terminal)
    BY <1>9 DEF F, Terminated, Kind, NoJob, EndsFence
<1>16. DownInv'
  <2>1. d.prov = provider /\ d.rt = runtime => EndedEarly' = EndedEarly
    BY <1>10, <1>11 DEF EndedEarly
  <2>2. ~told => job.fence = F
    BY DEF F
  <2> HIDE DEF job, told
  <2>3. CASE backend.quiesced
    BY <1>1, <1>3, <1>4, <1>5, <1>8, <1>9, <1>10, <1>11, <1>15, <2>1, <2>2, <2>3
    DEF DownInv, Idle
  <2>4. CASE ~backend.quiesced /\ (job.fence = 0 \/ job.fence # provider.fence)
    BY <1>1, <1>4, <1>5, <1>8, <1>9, <1>10, <1>11, <1>15, <2>1, <2>2, <2>4 DEF DownInv
  <2>5. CASE ~backend.quiesced /\ job.fence # 0 /\ job.fence = provider.fence
    BY <1>1, <1>4, <1>8, <1>9, <1>10, <1>11, <1>15, <2>5 DEF DownInv, Idle
  <2> QED BY <2>3, <2>4, <2>5
<1>17. CASE told
  <2>1. F # 0
    <3>1. F = 0 => backend.job = NoJob
      BY DEF Known, IInv, JobInv
    <3> QED BY <1>17, <3>1 DEF NoJob, EndsFence, Terminated
  <2>2. JobGone
    BY <1>1, <1>8, <1>9, <1>10, <1>12, <1>17 DEF JobGone
  <2>3. firmware'.running => NothingLeft
    BY <1>8, <1>10, <1>17, RetiredGone DEF Known, IInv, RingInv, RanInv, EndsFence
  <2> HIDE DEF job, told
  <2> QED BY <1>1, <1>8, <1>11, <1>12, <1>13, <1>14, <1>16, <1>17, <2>1, <2>2, <2>3,
             DownWithoutJob DEF Known
<1>18. CASE ~told
  <2>1. job = backend.job
    BY <1>18
  <2>2. job.fence = F
    BY <2>1 DEF F
  <2>3. firmware'.running => backend'.quiesced = backend.quiesced \/ F = 0
    <3> HIDE DEF job, told
    <3> QED BY <1>3, <1>8, <1>9, <1>10, <2>2 DEF Known, IInv, Typed, BackendType
  <2>4. RingSame
    BY <1>1, <1>8, <1>9, <1>10, <1>12, <2>1, <2>3, Zenon DEF RingSame, F, Kind
  <2> HIDE DEF job, told
  <2> QED BY <1>1, <1>8, <1>9, <1>11, <1>12, <1>13, <1>14, <1>15, <1>16, <1>18, <2>1, <2>4,
             DownKeeps DEF Known, Terminated
<1> QED BY <1>17, <1>18

-----------------------------------------------------------------------------
(* The stores and messages of a submission.                                *)

\* The first store or message is taken.
LEMMA TodoTail ==
    ASSUME todo \in Seq({"publish", "send"} \X Queue), todo # <<>>, todo' = Tail(todo)
    PROVE  /\ Head(todo)[1] \in {"publish", "send"} /\ Head(todo)[2] \in Queue
           /\ Head(todo) = <<Head(todo)[1], Head(todo)[2]>> /\ Head(todo) = todo[1]
           /\ todo' \in Seq({"publish", "send"} \X Queue)
           /\ todo' = <<>> <=> Len(todo) = 1
           /\ todo' # <<>> => todo'[Len(todo')] = todo[Len(todo)]
           /\ \A q : PublishLeft(q) => Head(todo) = <<"publish", q>> \/ PublishLeft(q)'
           /\ \A q : SendLeft(q) => Head(todo) = <<"send", q>> \/ SendLeft(q)'
<1>1. /\ Head(todo) \in {"publish", "send"} \X Queue /\ Head(todo) = todo[1]
      /\ todo' \in Seq({"publish", "send"} \X Queue)
      /\ Len(todo) \in Nat /\ Len(todo) > 0 /\ Len(todo') = Len(todo) - 1
      /\ \A i \in 1 .. Len(todo') : todo'[i] = todo[i + 1]
    OBVIOUS
<1>2. todo' = <<>> <=> Len(todo) = 1
  <2>1. \A T, s : s \in Seq(T) => (s = <<>> <=> Len(s) = 0)
    OBVIOUS
  <2>2. todo' = <<>> <=> Len(todo') = 0
    BY <1>1, <2>1, Zenon
  <2> QED BY <1>1, <2>2
<1>3. todo' # <<>> => todo'[Len(todo')] = todo[Len(todo)]
  <2> SUFFICES ASSUME todo' # <<>> PROVE todo'[Len(todo')] = todo[Len(todo)]
    OBVIOUS
  <2>1. Len(todo') \in 1 .. Len(todo') /\ Len(todo') + 1 = Len(todo)
    BY <1>1, <1>2
  <2> QED BY <1>1, <2>1
<1>4. \A i \in 1 .. Len(todo) : i = 1 \/ (i - 1 \in 1 .. Len(todo') /\ todo'[i - 1] = todo[i])
    BY <1>1
<1>5. ASSUME NEW q, PublishLeft(q) PROVE Head(todo) = <<"publish", q>> \/ PublishLeft(q)'
  <2>1. PICK i \in 1 .. Len(todo) : todo[i] = <<"publish", q>>
    BY <1>5 DEF PublishLeft
  <2> QED BY <1>1, <1>4, <2>1 DEF PublishLeft
<1>6. ASSUME NEW q, SendLeft(q) PROVE Head(todo) = <<"send", q>> \/ SendLeft(q)'
  <2>1. PICK i \in 1 .. Len(todo) : todo[i] = <<"send", q>>
    BY <1>6 DEF SendLeft
  <2> QED BY <1>1, <1>4, <2>1 DEF SendLeft
<1> QED BY <1>1, <1>2, <1>3, <1>5, <1>6

\* The write pointer of a queue is published.
LEMMA PublishKeeps ==
    ASSUME Known, Publish
    PROVE  IInv'
<1> DEFINE q == Head(todo)[2]
<1>1. /\ backend' = backend /\ provider' = provider /\ runtime' = runtime
      /\ ring' = ring /\ batch' = batch /\ window' = window
      /\ events' = events /\ firmware' = firmware /\ jobs' = jobs
      /\ todo # <<>> /\ Head(todo)[1] = "publish" /\ todo' = Tail(todo)
      /\ written' = [written EXCEPT ![q] = backend.expected[q]]
    BY DEF Publish
<1>2. todo \in Seq({"publish", "send"} \X Queue)
    BY DEF Known, IInv, Typed
<1>3. /\ q \in Queue /\ Head(todo) = <<"publish", q>> /\ Head(todo) = todo[1]
      /\ todo' \in Seq({"publish", "send"} \X Queue)
      /\ todo' = <<>> <=> Len(todo) = 1
      /\ todo' # <<>> => todo'[Len(todo')] = todo[Len(todo)]
      /\ \A x : PublishLeft(x) => x = q \/ PublishLeft(x)'
      /\ \A x : SendLeft(x) => SendLeft(x)'
    BY <1>1, <1>2, TodoTail
<1>4. todo[Len(todo)][1] = "send"
    BY <1>1 DEF Known, IInv, LayerInv, SubmittingInv
<1>5. todo' # <<>> /\ todo'[Len(todo')][1] = "send"
    BY <1>1, <1>3, <1>4
<1> HIDE DEF q
<1>6. RingSame /\ F' = F /\ Kind' = Kind /\ Terminated' = Terminated /\ Busy' = Busy
    BY <1>1 DEF RingSame, F, Kind, Terminated, Busy
<1>7. Typed'
    BY <1>1, <1>3 DEF Known, IInv, Typed, BackendType
<1>8. JobInv'
    BY <1>1, <1>6, JobKept DEF Known, IInv
<1>9. LayerInv'
    BY <1>1, <1>5, <1>6
    DEF Known, IInv, LayerInv, SubmittingInv, ReadyInv, SubmittedInv, DownInv, Busy
<1>10. PointerInv'
  <2>1. PointerInv /\ written \in [Queue -> Slot]
    BY DEF Known, IInv, RingInv, Typed
  <2> QED BY <1>1, <1>3, <1>6, <2>1 DEF PointerInv
<1>11. RingInv'
    BY <1>1, <1>6, <1>10, RingsKept, RanKept DEF Known, IInv, RingInv, Noted
<1>12. ManagerInv'
    BY <1>1, <1>6, ManagerKept DEF Known, IInv
<1>13. EventInv'
    BY <1>1, <1>5, <1>6, EventsKept DEF Known, IInv, EventInv, EventsAccepted
<1> QED BY <1>7, <1>8, <1>9, <1>11, <1>12, <1>13 DEF IInv

\* A run message is sent.
LEMMA SendKeeps ==
    ASSUME Known, Send
    PROVE  IInv'
<1> DEFINE q == Head(todo)[2]
           last == Len(todo) = 1
<1>1. /\ ring' = ring /\ batch' = batch /\ window' = window /\ written' = written
      /\ events' = events /\ jobs' = jobs
      /\ todo # <<>> /\ Head(todo)[1] = "send" /\ todo' = Tail(todo)
      /\ firmware' = [firmware EXCEPT !.head[q] = backend.expected[q]]
      /\ backend' = IF last THEN [backend EXCEPT !.phase = "Submitted"] ELSE backend
      /\ ~last => provider' = provider /\ runtime' = runtime
      /\ last => /\ provider' = IF Kind = "compute"
                                THEN [provider EXCEPT !.phase = "ComputeOnly", !.fence = F]
                                ELSE [provider EXCEPT !.phase = "Submitted"]
                 /\ runtime' = [runtime EXCEPT
                               !.phase = IF Kind = "compute" THEN "ComputeSubmitted"
                                         ELSE "Submitted",
                               !.bm = @ \/ Kind # "compute",
                               !.inRender = (Kind = "joined")]
    BY DEF Send, Kind, F
<1>2. todo \in Seq({"publish", "send"} \X Queue)
    BY DEF Known, IInv, Typed
<1>3. /\ q \in Queue /\ Head(todo) = <<"send", q>> /\ Head(todo) = todo[1]
      /\ todo' \in Seq({"publish", "send"} \X Queue)
      /\ todo' = <<>> <=> last
      /\ todo' # <<>> => todo'[Len(todo')] = todo[Len(todo)]
      /\ \A x : PublishLeft(x) => PublishLeft(x)'
      /\ \A x : SendLeft(x) => x = q \/ SendLeft(x)'
    BY <1>1, <1>2, TodoTail
<1> HIDE DEF q, last
<1>4. /\ backend.phase = "Ready" /\ ~backend.quiesced /\ todo[Len(todo)][1] = "send"
      /\ F = jobs.last /\ F > firmware.dropped /\ firmware.running
      /\ Terminated = "none" /\ backend.job.complete = {} /\ batch = <<>> /\ window = 0
      /\ runtime.phase = "Ready" /\ runtime.fence = F /\ ~runtime.inRender
      /\ runtime.seen = {} /\ runtime.complete = {}
      /\ provider = IF Kind = "compute" THEN Idle
                    ELSE [phase |-> "3dStaged", fence |-> F, quiesced |-> FALSE]
    BY <1>1 DEF Known, IInv, LayerInv, SubmittingInv
<1>5. /\ backend' \in BackendType /\ backend'.job = backend.job
      /\ backend'.expected = backend.expected /\ backend'.quiesced = backend.quiesced
      /\ backend'.phase = IF last THEN "Submitted" ELSE "Ready"
    BY <1>1, <1>4 DEF Known, IInv, Typed, BackendType
<1>6. /\ firmware' \in FirmwareType /\ firmware'.running = firmware.running
      /\ firmware'.done = firmware.done /\ firmware'.stamp = firmware.stamp
      /\ firmware'.head = [firmware.head EXCEPT ![q] = backend.expected[q]]
      /\ firmware'.active = firmware.active /\ firmware'.halted = firmware.halted
      /\ firmware'.init = firmware.init /\ firmware'.blind = firmware.blind
      /\ firmware'.dropped = firmware.dropped /\ firmware'.raised = firmware.raised
    BY <1>1, <1>3 DEF Known, IInv, Typed, FirmwareType, BackendType
<1>7. F \in 1 .. MaxFence /\ Kind \in {"render", "joined", "compute"}
  <2>1. F # 0
    BY <1>4, Fields DEF Known, IInv
  <2> QED BY <2>1, Fields, KindQueues DEF Known, IInv, JobInv
<1>8. /\ runtime' \in RuntimeType /\ runtime'.fence = F /\ runtime'.complete = {}
      /\ last => /\ runtime'.phase = IF Kind = "compute" THEN "ComputeSubmitted" ELSE "Submitted"
                 /\ runtime'.inRender = (Kind = "joined")
                 /\ runtime'.bm = (runtime.bm \/ Kind # "compute")
    BY <1>1, <1>4 DEF Known, IInv, Typed, RuntimeType
<1>9. /\ provider' \in ProviderType
      /\ last => provider' = [phase |-> IF Kind = "compute" THEN "ComputeOnly" ELSE "Submitted",
                              fence |-> F, quiesced |-> FALSE]
  <2>1. CASE Kind = "compute"
    <3>1. CASE last
      <4>1. provider' = [Idle EXCEPT !.phase = "ComputeOnly", !.fence = F]
        BY <1>1, <1>4, <2>1, <3>1
      <4>2. provider' = [phase |-> "ComputeOnly", fence |-> F, quiesced |-> FALSE]
        BY <4>1 DEF Idle
      <4> QED BY <1>7, <2>1, <4>2 DEF ProviderType, ProviderPhase
    <3>2. CASE ~last
      BY <1>1, <3>2 DEF Known, IInv, Typed
    <3> QED BY <3>1, <3>2
  <2>2. CASE Kind # "compute"
    BY <1>1, <1>4, <1>7, <2>2 DEF Known, IInv, Typed, ProviderType, ProviderPhase
  <2> QED BY <2>1, <2>2
<1>10. RingSame /\ F' = F /\ Kind' = Kind /\ Terminated' = Terminated /\ Busy /\ Busy'
  <2>1. \A x \in Queue : firmware'.head[x] \in {firmware.head[x], backend.expected[x]}
    BY <1>3, <1>6 DEF Known, IInv, Typed, FirmwareType
  <2> QED BY <1>1, <1>4, <1>5, <1>6, <2>1 DEF RingSame, F, Kind, Terminated, Busy
<1>11. Typed'
    BY <1>1, <1>3, <1>5, <1>6, <1>8, <1>9 DEF Known, IInv, Typed
<1>12. JobInv'
    BY <1>1, <1>5, <1>6, <1>10, JobKept DEF Known, IInv
<1>13. SubmittingInv'
    BY <1>1, <1>3, <1>4, <1>5, <1>6, <1>10 DEF SubmittingInv
<1>14. ReadyInv' /\ DownInv'
    BY <1>3, <1>5, <1>10 DEF ReadyInv, DownInv
<1>15. SubmittedInv'
  <2>1. CASE ~last
    BY <1>5, <2>1 DEF SubmittedInv
  <2>2. CASE last
    <3>1. Observed({})'
      BY <1>1, <1>4, <1>5, NotedOnes DEF Observed, RenderBatches, Counted, Noted
    <3>2. JobQueues(Kind) # {}
      BY <1>7, KindQueues
    <3>3. InFlight'
      BY <1>4, <1>5, <1>6, <1>8, <1>9, <1>10, <2>2, <3>1, <3>2 DEF InFlight
    <3> QED BY <1>3, <1>4, <1>7, <1>10, <2>2, <3>3 DEF SubmittedInv
  <2> QED BY <2>1, <2>2
<1>16. PointerInv'
  <2>1. PointerInv /\ firmware.head \in [Queue -> Slot]
    BY DEF Known, IInv, RingInv, Typed, FirmwareType
  <2> QED BY <1>1, <1>3, <1>4, <1>5, <1>6, <1>10, <2>1 DEF PointerInv
<1>17. RanInv'
  <2>1. Noted(batch)' = {}
    BY <1>1, <1>4, NotedOnes DEF Noted
  <2>2. /\ \A x : Ran(x)' = Ran(x) /\ Needs(x)' = Needs(x)
        /\ \A x : Retired(x) => Retired(x)'
    BY <1>10, SameRings
  <2>3. /\ backend'.job.complete = {} /\ Terminated' = "none" /\ runtime'.complete = {}
    BY <1>4, <1>5, <1>8, <1>10
  <2> QED BY <2>1, <2>2, <2>3 DEF Known, IInv, RingInv, RanInv
<1>18. RingInv'
    BY <1>10, <1>16, <1>17, RingsKept DEF Known, IInv, RingInv
<1>19. ManagerInv'
  <2>1. Initialising' = Initialising
    BY <1>10, SameRings DEF Initialising, RingSame
  <2>2. runtime'.bm => runtime.bm \/ Kind # "compute"
    BY <1>1, <1>8
  <2> QED BY <1>4, <1>6, <1>7, <1>10, <2>1, <2>2 DEF Known, IInv, ManagerInv
<1>20. EventInv'
  <2>1. ~(Free /\ todo = <<>>)' /\ ~(Free /\ todo = <<>>)
    BY <1>1, <1>3, <1>9 DEF Free, Idle
  <2>2. runtime'.complete = runtime.complete
    BY <1>4, <1>8
  <2> QED BY <1>1, <1>4, <1>5, <1>6, <1>10, <2>1, <2>2, EventsKept
          DEF Known, IInv, EventInv, EventsAccepted
<1> QED BY <1>11, <1>12, <1>13, <1>14, <1>15, <1>18, <1>19, <1>20 DEF IInv, LayerInv

\* A run message cannot be sent: the job is given up, the backend fails.
LEMMA SendFailsKeeps ==
    ASSUME Known, SendFails
    PROVE  IInv'
<1> DEFINE q == Head(todo)[2]
<1>1. /\ todo # <<>> /\ Head(todo)[1] = "send" /\ todo' = <<>>
      /\ ring' = ring /\ batch' = batch /\ window' = window /\ events' = events
      /\ Kind \in FailingSends
    BY DEF SendFails, Kind
<1>2. PICK d \in SubmitFailure(Device, F),
           fw \in {firmware, [firmware EXCEPT !.head[q] = backend.expected[q]]} :
        GiveUpJob(fw, d, F)
    BY DEF SendFails, F
<1>3. Kind # "compute"
    BY <1>1 DEF Known, ComputeSends
<1>4. q \in Queue
    BY <1>1, TodoTail DEF Known, IInv, Typed
<1> HIDE DEF q
<1>5. /\ backend.phase = "Ready" /\ ~backend.quiesced
      /\ F > firmware.dropped /\ Terminated = "none" /\ window = 0
      /\ provider = [phase |-> "3dStaged", fence |-> F, quiesced |-> FALSE]
    BY <1>1, <1>3 DEF Known, IInv, LayerInv, SubmittingInv
<1>6. F \in 1 .. MaxFence
    BY <1>5, Fields DEF Known, IInv
<1>7. /\ Device \in DeviceType /\ Device.prov = provider /\ Device.rt = runtime
      /\ Device.running = firmware.running
    BY DeviceTyped DEF Known, IInv
<1>8. /\ d \in DeviceType /\ d.prov = provider /\ (d.running => firmware.running)
      /\ d.ok => ~d.running
      /\ d.rt.bm => runtime.bm
  <2>1. PICK b \in Quiesce(Device, F) :
          d = IF b.ok THEN [b EXCEPT !.rt = [ClearPending(@) EXCEPT !.phase = "Faulted"]]
              ELSE [b EXCEPT !.rt.phase = "Faulted"]
    BY <1>2 DEF SubmitFailure
  <2>2. /\ b \in DeviceType /\ b.prov = provider /\ b.rt = runtime
        /\ b.running => firmware.running
        /\ b.ok => ~b.running
    BY <1>7, Quiesces
  <2>3. b.rt \in RuntimeType /\ 0 \in 0 .. MaxFence
    BY <2>2, BoundAssumption DEF DeviceType
  <2>4. CASE b.ok
    <3>1. PICK rt : rt = [ClearPending(b.rt) EXCEPT !.phase = "Faulted"]
      OBVIOUS
    <3>2. rt \in RuntimeType /\ rt.bm = b.rt.bm
      BY <2>3, <3>1 DEF ClearPending, RuntimeType
    <3>3. d = [b EXCEPT !.rt = rt]
      BY <2>1, <2>4, <3>1
    <3> QED BY <2>2, <2>4, <3>2, <3>3 DEF DeviceType
  <2>5. CASE ~b.ok
    <3>1. d = [b EXCEPT !.rt.phase = "Faulted"]
      BY <2>1, <2>5
    <3> QED BY <2>2, <2>3, <2>5, <3>1 DEF DeviceType, RuntimeType
  <2> QED BY <2>4, <2>5
<1> DEFINE d2 == [d EXCEPT !.prov.phase = "Faulted", !.prov.quiesced = d.ok]
<1>9. PICK e \in ProviderStop(d2, F) :
        /\ Adopt(e) /\ firmware' = [fw EXCEPT !.running = e.running]
        /\ backend' = [backend EXCEPT !.phase = "Failed", !.quiesced = e.ok]
        /\ jobs' = jobs
    BY <1>2, <1>3 DEF GiveUpJob, Kind
<1>10. /\ d2 \in DeviceType /\ d2.running = d.running /\ d2.rt = d.rt
       /\ d2.prov.phase = "Faulted" /\ d2.prov.fence = F /\ d2.prov.quiesced = d.ok
  <2>1. d.prov \in ProviderType /\ d.ok \in BOOLEAN
    BY <1>8 DEF DeviceType
  <2>2. d2 = [d EXCEPT !.prov = [d.prov EXCEPT !.phase = "Faulted", !.quiesced = d.ok]]
    BY <1>8 DEF DeviceType
  <2> HIDE DEF d2
  <2>3. PICK p : p = [d.prov EXCEPT !.phase = "Faulted", !.quiesced = d.ok]
    OBVIOUS
  <2>4. /\ p \in ProviderType /\ p.phase = "Faulted" /\ p.fence = d.prov.fence
        /\ p.quiesced = d.ok
    BY <2>1, <2>3 DEF ProviderType, ProviderPhase
  <2>5. d2 = [d EXCEPT !.prov = p]
    BY <2>2, <2>3
  <2> QED BY <1>5, <1>8, <2>4, <2>5 DEF DeviceType
<1> HIDE DEF d2
<1>11. /\ e \in DeviceType /\ (e.running => firmware.running) /\ (e.rt.bm => runtime.bm)
       /\ IF e.ok THEN e.prov = Idle /\ ~e.running
          ELSE /\ e.prov.fence = F /\ e.prov.phase = "Faulted"
               /\ e.prov.quiesced => ~e.running
    BY <1>6, <1>8, <1>9, <1>10, Stops DEF Known, IInv
<1>12. provider' = e.prov /\ runtime' = e.rt /\ written' = e.written
    BY <1>9 DEF Adopt
<1>13. /\ backend' \in BackendType /\ backend'.job = backend.job
       /\ backend'.expected = backend.expected /\ backend'.quiesced = e.ok
       /\ backend'.phase = "Failed"
    BY <1>9, <1>11 DEF Known, IInv, Typed, BackendType, DeviceType
<1>14. /\ firmware' \in FirmwareType /\ firmware'.running = e.running
       /\ firmware'.done = firmware.done
       /\ firmware'.head = firmware.head
          \/ firmware'.head = [firmware.head EXCEPT ![q] = backend.expected[q]]
       /\ firmware'.active = firmware.active /\ firmware'.halted = firmware.halted
       /\ firmware'.init = firmware.init /\ firmware'.blind = firmware.blind
       /\ firmware'.dropped = firmware.dropped
  <2>1. firmware \in FirmwareType /\ backend.expected[q] \in Slot /\ e.running \in BOOLEAN
    BY <1>4, <1>11 DEF Known, IInv, Typed, BackendType, DeviceType
  <2>2. CASE fw = firmware
    BY <1>9, <2>1, <2>2 DEF FirmwareType
  <2>3. CASE fw = [firmware EXCEPT !.head[q] = backend.expected[q]]
    <3>1. PICK h : h = [firmware.head EXCEPT ![q] = backend.expected[q]]
      OBVIOUS
    <3>2. h \in [Queue -> Slot]
      BY <1>4, <2>1, <3>1 DEF FirmwareType
    <3>3. fw = [firmware EXCEPT !.head = h]
      BY <2>1, <2>3, <3>1 DEF FirmwareType
    <3> QED BY <1>9, <2>1, <3>1, <3>2, <3>3 DEF FirmwareType
  <2> QED BY <2>2, <2>3
<1>15. RingSame /\ ~Busy'
  <2>1. \A x \in Queue : firmware'.head[x] \in {firmware.head[x], backend.expected[x]}
    BY <1>4, <1>14 DEF Known, IInv, Typed, FirmwareType
  <2>2. firmware'.running => ~backend'.quiesced
    BY <1>11, <1>13, <1>14
  <2>3. backend'.quiesced \in BOOLEAN /\ backend.quiesced \in BOOLEAN
    BY <1>13 DEF BackendType, Known, IInv, Typed
  <2> QED BY <1>1, <1>5, <1>9, <1>11, <1>13, <1>14, <2>1, <2>2, <2>3 DEF RingSame, F, Kind, Busy
<1>16. Typed'
    BY <1>1, <1>9, <1>11, <1>12, <1>13, <1>14 DEF Known, IInv, Typed, DeviceType
<1>17. DownInv'
  <2>1. F' = F /\ ~EndsFence(Terminated')
    BY <1>5, <1>13 DEF F, Terminated, EndsFence
  <2> QED BY <1>1, <1>5, <1>11, <1>12, <1>13, <1>14, <2>1 DEF DownInv, Idle
<1> QED BY <1>1, <1>9, <1>11, <1>12, <1>13, <1>15, <1>16, <1>17, DownKeeps DEF Known, Terminated

-----------------------------------------------------------------------------
(* A fault.                                                                *)

\* A fault is observed: the queues are stopped already.
LEMMA ObserveFaultKeeps ==
    ASSUME Known, ObserveFault
    PROVE  IInv'
<1>1. /\ batch # <<>> /\ Head(batch) = "fault" /\ backend.phase = "Submitted"
      /\ Terminated = "none"
      /\ window' = 0 /\ ring' = ring /\ todo' = todo /\ batch' = batch /\ events' = events
      /\ jobs' = jobs
    BY DEF ObserveFault, Observing, Terminated
<1>2. PICK d \in ProviderStop(Device, F) :
        /\ Adopt(d) /\ firmware' = [firmware EXCEPT !.running = d.running]
        /\ backend' = IF d.ok THEN [backend EXCEPT !.quiesced = TRUE,
                                                   !.job.terminal = "faulted"]
                      ELSE [backend EXCEPT !.phase = "Failed"]
    BY DEF ObserveFault, F
<1>3. /\ todo = <<>> /\ F # 0
      /\ InFlight \/ Completed \/ Dropped \/ Faulting \/ FaultSeen
    BY <1>1 DEF Known, IInv, LayerInv, SubmittedInv
<1>4. Faulting /\ ~firmware.running /\ batch = <<"fault">>
  <2>1. "fault" \notin Counted
    BY DEF Counted
  <2>2. ~InFlight /\ ~Completed
    BY <1>1, <2>1, BatchParts, NotedOnes DEF InFlight, Completed, Observed
  <2>3. ~Dropped /\ ~FaultSeen
    BY <1>1, NotedOnes DEF Dropped, FaultSeen
  <2> QED BY <1>1, <1>3, <2>2, <2>3 DEF Faulting
<1>5. /\ Device \in DeviceType /\ Device.prov = provider /\ Device.rt = runtime
      /\ Device.running = firmware.running
    BY DeviceTyped DEF Known, IInv
<1>6. /\ provider.phase = "Faulted" /\ provider.fence = F /\ provider.quiesced
    BY <1>4 DEF Faulting
<1>7. /\ d \in DeviceType /\ d.ok /\ d.prov = Idle /\ ~d.running
      /\ d.rt.complete \subseteq runtime.complete
    BY <1>2, <1>3, <1>4, <1>5, <1>6, Fields, Stops DEF Known, IInv
<1>8. provider' = Idle /\ runtime' \in RuntimeType /\ written' \in [Queue -> Slot]
      /\ provider' \in ProviderType
    BY <1>2, <1>7 DEF Adopt, DeviceType
<1>9. /\ backend' \in BackendType /\ F' = F /\ Kind' = Kind /\ Terminated' = "faulted"
      /\ backend'.expected = backend.expected /\ backend'.phase = "Submitted"
      /\ backend'.quiesced /\ backend'.job.complete = backend.job.complete
    BY <1>1, <1>2, <1>7 DEF Known, IInv, Typed, BackendType, F, Kind, Terminated, Terminal
<1>10. firmware' = [firmware EXCEPT !.running = FALSE]
  <2>1. d.running \in BOOLEAN
    BY <1>7 DEF DeviceType
  <2> QED BY <1>2, <1>7, <2>1
<1>11. /\ firmware' \in FirmwareType /\ ~firmware'.running /\ firmware'.done = firmware.done
       /\ firmware'.head = firmware.head
       /\ firmware'.active = firmware.active /\ firmware'.halted = firmware.halted
       /\ firmware'.init = firmware.init /\ firmware'.blind = firmware.blind
       /\ firmware'.dropped = firmware.dropped
    BY <1>10 DEF Known, IInv, Typed, FirmwareType
<1>12. RingSame
    BY <1>1, <1>9, <1>11 DEF RingSame
<1>13. Typed'
    BY <1>1, <1>8, <1>9, <1>11, Fields DEF Known, IInv, Typed
<1>14. LayerInv'
  <2>1. FaultSeen'
    BY <1>1, <1>4, <1>8, <1>9, <1>11 DEF FaultSeen
  <2>2. SubmittedInv'
    BY <1>1, <1>3, <1>9, <2>1 DEF SubmittedInv
  <2> QED BY <1>1, <1>3, <1>9, <2>2 DEF LayerInv, SubmittingInv, ReadyInv, DownInv, Busy
<1>15. Noted(batch)' \cap Queue \subseteq Noted(batch)
    BY <1>1 DEF Noted
<1>16. runtime'.complete \subseteq runtime.complete
    BY <1>2, <1>7 DEF Adopt
<1> QED BY <1>1, <1>3, <1>9, <1>11, <1>12, <1>13, <1>14, <1>15, <1>16, StoppedKeeps
        DEF Known, Places

-----------------------------------------------------------------------------
(* Events.                                                                 *)

\* The first event is taken from the ring.
LEMMA EventsTail ==
    ASSUME events \in Seq(Event), events # <<>>, events' = Tail(events)
    PROVE  /\ events' \in Seq(Event) /\ Len(events') = Len(events) - 1
           /\ Head(events) = events[1] /\ 1 \in Places /\ Head(events) \in Event
           /\ \A i \in Places' :
                /\ i + 1 \in Places /\ events'[i] = events[i + 1]
                /\ (Fault(i)' <=> Fault(i + 1)) /\ \A q : Flag(i, q)' <=> Flag(i + 1, q)
           /\ \A i \in Places : i = 1 \/ (i - 1 \in Places' /\ events'[i - 1] = events[i])
<1>1. /\ events' \in Seq(Event) /\ Len(events') = Len(events) - 1 /\ Len(events) \in Nat
      /\ Len(events) > 0 /\ Head(events) = events[1] /\ Head(events) \in Event
      /\ \A i \in 1 .. Len(events') : events'[i] = events[i + 1]
    OBVIOUS
<1>2. \A i \in Places' : i + 1 \in Places /\ events'[i] = events[i + 1]
    BY <1>1 DEF Places
<1>3. \A i \in Places : i = 1 \/ (i - 1 \in Places' /\ events'[i - 1] = events[i])
    BY <1>1 DEF Places
<1>4. 1 \in Places
    BY <1>1 DEF Places
<1> QED BY <1>1, <1>2, <1>3, <1>4 DEF Fault, Flag

\* Every event is of one kind.
LEMMA EventKinds ==
    ASSUME Typed
    PROVE  \A i \in Places :
             /\ events[i].kind \in {"flag", "fault", "grow"} /\ events[i].queues \subseteq Queue
             /\ events[i].kind # "flag" => events[i].queues = {}
<1> SUFFICES ASSUME NEW i \in Places
             PROVE  /\ events[i].kind \in {"flag", "fault", "grow"} /\ events[i].queues \subseteq Queue
                    /\ events[i].kind # "flag" => events[i].queues = {}
    OBVIOUS
<1>1. events[i] \in Event
    BY DEF Typed, Places
<1> QED BY <1>1 DEF Event

\* The job while an event can be ingested: in flight, or ended early.
LEMMA IngestModes ==
    ASSUME IInv, Ingesting
    PROVE  /\ todo = <<>> /\ batch = <<>> /\ window > 0 /\ firmware.running /\ Busy
           /\ ~backend.quiesced /\ events # <<>>
           /\ \/ backend.phase = "Submitted" /\ InFlight /\ Terminated = "none" /\ F # 0
              \/ backend.phase = "Ready" /\ Early /\ F = 0 /\ firmware.dropped # 0
<1>1. window > 0 /\ batch = <<>> /\ provider.phase \in {"Submitted", "ComputeOnly"}
    BY DEF Ingesting, Draining
<1>2. todo = <<>> /\ Busy
    BY <1>1, Fields DEF IInv, LayerInv, SubmittingInv, DownInv
<1>3. events # <<>>
    BY <1>1 DEF IInv, Typed
<1>4. CASE backend.phase = "Ready"
    BY <1>1, <1>2, <1>3, <1>4 DEF IInv, LayerInv, ReadyInv, Free, Early, Idle, F, NoJob
<1>5. CASE backend.phase = "Submitted"
  <2>1. InFlight /\ F # 0
    BY <1>1, <1>5 DEF IInv, LayerInv, SubmittedInv, Completed, Dropped, Faulting, FaultSeen, Free, Idle
  <2>2. Terminated = "none"
    BY <1>1, <1>5, <2>1 DEF IInv, LayerInv, SubmittedInv, InFlight
  <2> QED BY <1>1, <1>2, <1>3, <1>5, <2>1, <2>2 DEF InFlight
<1> QED BY <1>2, <1>4, <1>5 DEF Busy

\* The events of the job in flight and of one ended early are not the last of it.
LEMMA NotFree ==
    ASSUME Ingesting
    PROVE  ~Free
    BY DEF Ingesting, Free, Idle

\* An event that says nothing about the job is consumed.
LEMMA IngestOtherKeeps ==
    ASSUME Known, IngestOther
    PROVE  IInv'
<1>1. /\ backend' = backend /\ provider' = provider /\ runtime' = runtime
      /\ written' = written /\ ring' = ring /\ todo' = todo /\ batch' = batch
      /\ firmware' = firmware /\ jobs' = jobs
      /\ Ingesting /\ Head(events).kind = "grow"
      /\ events' = Tail(events) /\ window' = window - 1
    BY DEF IngestOther, Consume
<1>2. /\ todo = <<>> /\ batch = <<>> /\ window > 0 /\ firmware.running /\ Busy
      /\ ~backend.quiesced /\ events # <<>>
      /\ \/ backend.phase = "Submitted" /\ InFlight /\ Terminated = "none" /\ F # 0
         \/ backend.phase = "Ready" /\ Early /\ F = 0 /\ firmware.dropped # 0
    BY <1>1, IngestModes DEF Known
<1>3. /\ events' \in Seq(Event) /\ Len(events') = Len(events) - 1
      /\ Head(events) = events[1] /\ 1 \in Places
      /\ \A i \in Places' :
           /\ i + 1 \in Places /\ events'[i] = events[i + 1]
           /\ (Fault(i)' <=> Fault(i + 1)) /\ \A q : Flag(i, q)' <=> Flag(i + 1, q)
      /\ \A i \in Places : i = 1 \/ (i - 1 \in Places' /\ events'[i - 1] = events[i])
    BY <1>1, <1>2, EventsTail DEF Known, IInv, Typed
<1>4. RingSame /\ F' = F /\ Kind' = Kind /\ Terminated' = Terminated /\ Busy' = Busy
    BY <1>1 DEF RingSame, F, Kind, Terminated, Busy
<1>5. Typed'
  <2>1. Len(events) \in Nat /\ window \in Nat /\ window <= Len(events)
    BY DEF Known, IInv, Typed
  <2>2. window' \in Nat /\ window' <= Len(events')
    BY <1>1, <1>2, <1>3, <2>1
  <2> QED BY <1>1, <1>3, <2>2 DEF Known, IInv, Typed
<1>6. JobInv'
    BY <1>1, <1>4, JobKept DEF Known, IInv
<1>7. LayerInv'
  <2>1. Early' = Early /\ \A c : Observed(c)' = Observed(c)
    BY <1>1 DEF Early, Observed, Noted
  <2>2. InFlight' = InFlight
    BY <1>1, <1>4, <2>1 DEF InFlight
  <2>3. SubmittedInv' /\ ReadyInv'
    BY <1>1, <1>2, <1>4, <2>1, <2>2 DEF Known, IInv, LayerInv, SubmittedInv, ReadyInv
  <2> QED BY <1>1, <1>2, <1>4, <2>3 DEF LayerInv, SubmittingInv, DownInv
<1>8. RingInv'
    BY <1>1, <1>4, RingsKept, PointersKept, RanKept DEF Known, IInv, RingInv, Noted
<1>9. ManagerInv'
    BY <1>1, <1>4, ManagerKept DEF Known, IInv
<1>10. /\ \A q : Left(q)' = Left(q) /\ Ran(q)' = Ran(q) /\ JobQueues(Kind)' = JobQueues(Kind)
    BY <1>4, SameRings
<1>11. \A i \in Places : i + 1 \in Int /\ i \in Int
    BY DEF Places
<1>12. HaltInv'
  <2>1. \A i, j \in Places' : i + 1 = j + 1 => i = j
    BY DEF Places
  <2>2. HaltInv
    BY DEF Known, IInv, EventInv
  <2>3. \A i \in Places' : events'[i].kind = "flag" => events'[i].queues # {}
    BY <1>3, <2>2 DEF HaltInv
  <2>4. ASSUME NEW i \in Places', Fault(i)'
        PROVE  /\ firmware'.halted /\ F' > firmware'.dropped
               /\ \E q \in JobQueues(Kind)' : Left(q)' > 0
               /\ \A j \in Places' : Fault(j)' => i = j
    <3>1. i + 1 \in Places /\ Fault(i + 1)
      BY <1>3, <2>4
    <3> QED BY <1>1, <1>2, <1>3, <1>4, <1>10, <2>1, <2>2, <3>1 DEF HaltInv
  <2> QED BY <2>3, <2>4 DEF HaltInv
<1>13. FlagInv'
  <2> SUFFICES ASSUME firmware.dropped = 0 PROVE FlagInv'
    BY <1>1 DEF FlagInv, Undropped
  <2>1. Undropped /\ ~Free /\ ~Free'
    BY <1>1, <1>2, NotFree DEF Undropped, Free
  <2>2. \A q : ~Flag(1, q)
    BY <1>1, <1>3 DEF Flag
  <2>3. \A q : (\E i \in Places' : Flag(i, q)') <=> (\E i \in Places : Flag(i, q))
    <3>1. ASSUME NEW q, NEW i \in Places, Flag(i, q) PROVE \E j \in Places' : Flag(j, q)'
      <4>1. i - 1 \in Places' /\ events'[i - 1] = events[i]
        BY <1>3, <2>2, <3>1
      <4> QED BY <3>1, <4>1 DEF Flag
    <3> QED BY <1>3, <3>1
  <2>4. \A i, j \in Places' : (i + 1 = j + 1 => i = j) /\ (j + 1 <= i + 1 => j <= i)
                              /\ (i + 1 < j + 1 => i < j)
    BY DEF Places
  <2>5. /\ firmware'.raised = firmware.raised /\ runtime'.complete = runtime.complete
        /\ firmware'.active = firmware.active /\ firmware'.stamp = firmware.stamp
    BY <1>1
  <2>6. FlagInv
    BY DEF Known, IInv, EventInv
  <2> HIDE DEF Known
  <2>7. \A q \in Queue : (q \in firmware'.raised \/ \E i \in Places' : Flag(i, q)') =>
          q \in JobQueues(Kind)' /\ Ran(q)' /\ firmware'.active # q /\ q \notin runtime'.complete
    BY <1>10, <2>1, <2>3, <2>5, <2>6 DEF FlagInv
  <2>8. \A q \in Queue, i, j \in Places' :
          Flag(i, q)' => q \notin firmware'.raised /\ (Flag(j, q)' => i = j)
    BY <1>3, <2>1, <2>4, <2>5, <2>6 DEF FlagInv
  <2>9. \A q \in JobQueues(Kind)' : Ran(q)' =>
          \/ firmware'.active = q \/ q \in firmware'.raised \/ q \in runtime'.complete
          \/ \E i \in Places' : Flag(i, q)'
    BY <1>10, <2>1, <2>3, <2>5, <2>6 DEF FlagInv
  <2>10. \A i, j \in Places' : Flag(i, "ta")' =>
          "compute" \notin firmware'.raised /\ (Flag(j, "compute")' => j <= i)
    BY <1>3, <2>1, <2>4, <2>5, <2>6 DEF FlagInv
  <2>11. \A i, j \in Places' : events'[i].kind = "grow" =>
           /\ "ta" \in JobQueues(Kind)' /\ "ta" \notin runtime'.complete
           /\ Flag(j, "ta")' => i < j
    BY <1>3, <1>10, <2>1, <2>4, <2>5, <2>6 DEF FlagInv
  <2>12. /\ \A q \in JobQueues(Kind)' : Ran(q)' => firmware'.stamp[q] = F' % StampModulus
         /\ Kind' = "joined" /\ "ta" \in runtime'.complete => "compute" \in runtime'.complete
    BY <1>4, <1>10, <2>1, <2>5, <2>6 DEF FlagInv
  <2> QED BY <2>1, <2>7, <2>8, <2>9, <2>10, <2>11, <2>12 DEF FlagInv
<1>14. EventsAccepted'
    BY <1>1 DEF Known, IInv, EventInv, EventsAccepted
<1> QED BY <1>5, <1>6, <1>7, <1>8, <1>9, <1>12, <1>13, <1>14 DEF IInv, EventInv

\* The stop of the firmware after an event that ends the job, or its refusal.
LEMMA IngestTerminalKeeps ==
    ASSUME Known, IngestTerminal
    PROVE  IInv'
<1>1. /\ backend' = backend /\ written' = written /\ ring' = ring /\ todo' = todo
      /\ jobs' = jobs /\ Ingesting /\ Head(events).kind = "fault"
    BY DEF IngestTerminal
<1>2. PICK d \in Quiesce(Device, runtime.fence) :
        /\ firmware' = [firmware EXCEPT !.running = d.running]
        /\ provider' = [provider EXCEPT !.phase = "Faulted", !.quiesced = @ \/ d.ok]
        /\ IF d.ok
           THEN /\ runtime' = [ClearPending(runtime) EXCEPT !.phase = "Faulted"]
                /\ batch' = <<"fault">>
                /\ Consume
           ELSE /\ runtime' = [runtime EXCEPT !.phase = "Faulted"]
                /\ window' = 0
                /\ UNCHANGED <<batch, events>>
    BY DEF IngestTerminal
<1>3. /\ todo = <<>> /\ batch = <<>> /\ window > 0 /\ firmware.running /\ Busy
      /\ ~backend.quiesced /\ events # <<>>
      /\ \/ backend.phase = "Submitted" /\ InFlight /\ Terminated = "none" /\ F # 0
         \/ backend.phase = "Ready" /\ Early /\ F = 0 /\ firmware.dropped # 0
    BY <1>1, IngestModes DEF Known
<1>4. 1 \in Places /\ Fault(1)
    BY <1>1, <1>3 DEF Places, Fault, Known, IInv, Typed
<1>5. /\ backend.phase = "Submitted" /\ InFlight /\ Terminated = "none" /\ F # 0
      /\ F > firmware.dropped
    BY <1>3, <1>4, Fields DEF Known, IInv, EventInv, HaltInv
<1>6. /\ Device \in DeviceType /\ Device.prov = provider /\ Device.running = firmware.running
    BY DeviceTyped DEF Known, IInv
<1>7. /\ d.running \in BOOLEAN /\ d.ok \in BOOLEAN
      /\ d.ok => ~d.running
      /\ ~d.ok => d.running = firmware.running
    BY <1>6, Quiesces DEF DeviceType
<1>8. /\ provider.fence = F /\ ~provider.quiesced /\ provider.quiesced \in BOOLEAN
      /\ runtime.fence = F
    BY <1>5 DEF InFlight
<1>9. /\ provider' \in ProviderType /\ provider'.fence = F /\ provider'.phase = "Faulted"
      /\ provider'.quiesced = d.ok
    BY <1>2, <1>7, <1>8 DEF Known, IInv, Typed, ProviderType, ProviderPhase
<1>10. /\ firmware' \in FirmwareType /\ firmware'.running = d.running
       /\ firmware'.done = firmware.done /\ firmware'.head = firmware.head
       /\ firmware'.active = firmware.active /\ firmware'.halted = firmware.halted
       /\ firmware'.init = firmware.init /\ firmware'.blind = firmware.blind
       /\ firmware'.dropped = firmware.dropped /\ firmware'.raised = firmware.raised
       /\ firmware'.stamp = firmware.stamp
    BY <1>2, <1>7 DEF Known, IInv, Typed, FirmwareType
<1>11. /\ runtime' \in RuntimeType /\ runtime'.phase = "Faulted" /\ runtime'.bm = runtime.bm
       /\ runtime'.complete \subseteq runtime.complete
       /\ ~d.ok => runtime'.fence = F /\ runtime'.complete = runtime.complete
  <2>1. runtime \in RuntimeType /\ 0 \in 0 .. MaxFence
    BY Fields DEF Known, IInv, Typed
  <2>2. CASE d.ok
    <3>1. runtime' = [ClearPending(runtime) EXCEPT !.phase = "Faulted"]
      BY <1>2, <2>2
    <3> QED BY <2>1, <2>2, <3>1 DEF ClearPending, RuntimeType
  <2>3. CASE ~d.ok
    <3>1. runtime' = [runtime EXCEPT !.phase = "Faulted"]
      BY <1>2, <2>3
    <3> QED BY <1>8, <2>1, <2>3, <3>1 DEF RuntimeType
  <2> QED BY <1>7, <2>2, <2>3
<1>12. RingSame /\ F' = F /\ Kind' = Kind /\ Terminated' = Terminated /\ Busy'
    BY <1>1, <1>3, <1>10 DEF RingSame, F, Kind, Terminated, Busy
<1>13. /\ events' \in Seq(Event) /\ batch' \in Seq(Observation) /\ window' \in Nat
       /\ window' <= Len(events')
       /\ \A i \in Places' : \E j \in Places : events'[i] = events[j]
  <2>1. Len(events) \in Nat /\ window \in Nat /\ window <= Len(events) /\ events \in Seq(Event)
    BY DEF Known, IInv, Typed
  <2>2. CASE d.ok
    <3>1. /\ events' = Tail(events) /\ window' = window - 1 /\ batch' = <<"fault">>
      BY <1>2, <2>2 DEF Consume
    <3>2. /\ events' \in Seq(Event) /\ Len(events') = Len(events) - 1
          /\ \A i \in Places' : i + 1 \in Places /\ events'[i] = events[i + 1]
      BY <1>3, <2>1, <3>1, EventsTail
    <3>3. <<"fault">> \in Seq(Observation)
      BY DEF Observation
    <3>4. window' \in Nat /\ window' <= Len(events')
      BY <1>3, <2>1, <3>1, <3>2
    <3> QED BY <3>1, <3>2, <3>3, <3>4
  <2>3. CASE ~d.ok
    BY <1>2, <2>1, <2>3 DEF Known, IInv, Typed, Places
  <2> QED BY <1>7, <2>2, <2>3
<1>14. Typed'
    BY <1>1, <1>9, <1>10, <1>11, <1>13 DEF Known, IInv, Typed
<1>15. Faulting'
  <2>1. CASE d.ok
    <3>1. provider' = [phase |-> "Faulted", fence |-> F, quiesced |-> ~firmware'.running]
      BY <1>7, <1>9, <1>10, <2>1 DEF ProviderType
    <3> QED BY <1>1, <1>2, <1>3, <1>5, <1>7, <1>10, <1>11, <1>12, <2>1, <3>1 DEF Faulting
  <2>2. CASE ~d.ok
    <3>1. provider' = [phase |-> "Faulted", fence |-> F, quiesced |-> ~firmware'.running]
      BY <1>3, <1>7, <1>9, <1>10, <2>2 DEF ProviderType
    <3> QED BY <1>1, <1>2, <1>3, <1>5, <1>7, <1>10, <1>11, <1>12, <2>2, <3>1 DEF Faulting
  <2> QED BY <1>7, <2>1, <2>2
<1>16. LayerInv'
  <2>1. SubmittedInv'
    BY <1>1, <1>3, <1>5, <1>12, <1>15 DEF SubmittedInv
  <2> QED BY <1>1, <1>3, <1>5, <1>12, <2>1 DEF LayerInv, SubmittingInv, ReadyInv, DownInv
<1>17. Noted(batch)' \cap Queue = {}
  <2>1. batch' = <<"fault">> \/ batch' = <<>>
    BY <1>2, <1>3
  <2> QED BY <2>1, NotedOnes DEF Noted, Queue
<1>18. CASE d.ok
    BY <1>1, <1>5, <1>7, <1>10, <1>11, <1>12, <1>13, <1>14, <1>16, <1>17, <1>18, StoppedKeeps
    DEF Known
<1>19. CASE ~d.ok
  <2>1. JobInv'
    BY <1>1, <1>10, <1>12, JobKept DEF Known, IInv
  <2>2. RingInv'
    <3>1. RegionInv' /\ ActiveInv' /\ EntryInv' /\ QuiescedInv'
      BY <1>12, RingsKept DEF Known, IInv, RingInv
    <3>2. PointerInv'
      BY <1>1, <1>3, <1>10, PointersKept DEF Known, IInv, RingInv
    <3>3. RanInv'
      BY <1>1, <1>5, <1>11, <1>12, <1>17, RanKept DEF Known, IInv, RingInv
    <3> QED BY <3>1, <3>2, <3>3 DEF RingInv
  <2>3. ManagerInv'
    BY <1>11, <1>12, ManagerKept DEF Known, IInv
  <2>4. ~Free /\ ~Free'
    BY <1>1, <1>9, NotFree DEF Free, Idle
  <2>5. EventInv'
    BY <1>1, <1>2, <1>3, <1>10, <1>11, <1>12, <1>19, <2>4, EventsKept
    DEF Known, IInv, EventInv, EventsAccepted
  <2> QED BY <1>14, <1>16, <2>1, <2>2, <2>3, <2>5 DEF IInv
<1> QED BY <1>7, <1>18, <1>19

\* The halted firmware is resumed and drops the job.
LEMMA IngestRecoveredKeeps ==
    ASSUME Known, IngestRecovered
    PROVE  IInv'
<1>1. /\ backend' = backend /\ written' = written /\ ring' = ring /\ todo' = todo /\ jobs' = jobs
      /\ Ingesting /\ Head(events).kind = "fault" /\ firmware.halted
      /\ firmware' = [firmware EXCEPT !.halted = FALSE, !.dropped = runtime.fence]
      /\ runtime' = [ClearPending(runtime) EXCEPT !.phase = "Ready"]
      /\ provider' = Idle /\ batch' = <<"recovered">>
      /\ events' = Tail(events) /\ window' = window - 1
    BY DEF IngestRecovered, Consume
<1>2. /\ todo = <<>> /\ batch = <<>> /\ window > 0 /\ firmware.running /\ Busy
      /\ ~backend.quiesced /\ events # <<>>
      /\ \/ backend.phase = "Submitted" /\ InFlight /\ Terminated = "none" /\ F # 0
         \/ backend.phase = "Ready" /\ Early /\ F = 0 /\ firmware.dropped # 0
    BY <1>1, IngestModes DEF Known
<1>3. 1 \in Places /\ Fault(1)
    BY <1>1, <1>2 DEF Places, Fault, Known, IInv, Typed
<1>4. /\ backend.phase = "Submitted" /\ InFlight /\ Terminated = "none" /\ F # 0
      /\ F > firmware.dropped
    BY <1>2, <1>3, Fields DEF Known, IInv, EventInv, HaltInv
<1>5. runtime.fence = F /\ F \in 1 .. MaxFence
    BY <1>4, Fields DEF InFlight, Known, IInv
<1>6. /\ runtime' \in RuntimeType /\ runtime'.bm = runtime.bm /\ runtime'.complete = {}
      /\ Free'
  <2>1. runtime \in RuntimeType /\ 0 \in 0 .. MaxFence
    BY Fields DEF Known, IInv, Typed
  <2> QED BY <1>1, <2>1 DEF ClearPending, RuntimeType, Free
<1>7. /\ firmware' \in FirmwareType /\ firmware'.running = firmware.running
      /\ firmware'.done = firmware.done /\ firmware'.head = firmware.head
      /\ firmware'.active = firmware.active /\ ~firmware'.halted
      /\ firmware'.init = firmware.init /\ firmware'.blind = firmware.blind
      /\ firmware'.dropped = F /\ firmware'.raised = firmware.raised
  <2>1. firmware \in FirmwareType /\ runtime.fence \in 0 .. MaxFence
    BY <1>5, Fields DEF Known, IInv, Typed
  <2> QED BY <1>1, <1>5, <2>1 DEF FirmwareType
<1>8. F' = F /\ Kind' = Kind /\ Terminated' = Terminated /\ Busy'
    BY <1>1, <1>2 DEF F, Kind, Terminated, Busy
<1>9. /\ events' \in Seq(Event) /\ Len(events') = Len(events) - 1
      /\ \A i \in Places' :
           /\ i + 1 \in Places /\ events'[i] = events[i + 1] /\ (Fault(i)' <=> Fault(i + 1))
    BY <1>1, <1>2, EventsTail DEF Known, IInv, Typed
<1>10. Typed'
  <2>1. Len(events) \in Nat /\ window \in Nat /\ window <= Len(events)
    BY DEF Known, IInv, Typed
  <2>2. window' \in Nat /\ window' <= Len(events')
    BY <1>1, <1>2, <1>9, <2>1
  <2>3. Idle \in ProviderType
    BY Fields DEF Idle, ProviderType, ProviderPhase, Known, IInv
  <2>4. <<"recovered">> \in Seq(Observation)
    BY DEF Observation
  <2> QED BY <1>1, <1>6, <1>7, <1>9, <2>2, <2>3, <2>4 DEF Known, IInv, Typed
<1>11. JobInv'
    BY <1>1, <1>7, <1>8, JobKept DEF Known, IInv
<1>12. LayerInv'
  <2>1. Dropped'
    BY <1>1, <1>2, <1>4, <1>6, <1>7, <1>8 DEF Dropped
  <2>2. SubmittedInv'
    BY <1>1, <1>2, <1>4, <1>8, <2>1 DEF SubmittedInv
  <2> QED BY <1>1, <1>2, <1>4, <1>8, <2>2 DEF LayerInv, SubmittingInv, ReadyInv, DownInv
<1>13. /\ \A q : Left(q)' = Left(q) /\ Ran(q)' = Ran(q) /\ Needs(q)' = Needs(q)
       /\ \A q, k : Behind(q, k)' = Behind(q, k)
       /\ \A q : Ran(q) => Retired(q)'
  <2>1. /\ \A q : Left(q)' = Left(q) /\ Ran(q)' = Ran(q) /\ Needs(q)' = Needs(q)
        /\ \A q, k : Behind(q, k)' = Behind(q, k)
    BY <1>1, <1>7, <1>8 DEF Left, Dist, Ran, Needs, Behind, Back
  <2> QED BY <1>5, <1>7, <1>8, <2>1 DEF Retired
<1>14. PointerInv'
    BY <1>1, <1>2, <1>7, PointersKept DEF Known, IInv, RingInv
<1>15. RegionInv'
  <2>1. \A q : Dist(firmware.done[q], firmware.head[q])' = Dist(firmware.done[q], firmware.head[q])
    BY <1>7 DEF Dist
  <2>2. \A x : x \in 1 .. firmware.dropped => x \in 1 .. firmware'.dropped
    BY <1>4, <1>5, <1>7, Fields DEF Known, IInv
  <2>3. JobQueues(Kind)' = JobQueues(Kind)
    BY <1>8
  <2> QED BY <1>2, <1>7, <1>8, <1>13, <2>1, <2>2, <2>3 DEF RegionInv, Known, IInv, RingInv
<1>16. ActiveInv'
    BY <1>1, <1>2, <1>7 DEF ActiveInv, Known, IInv, RingInv
<1>17. EntryInv'
    BY <1>5, <1>7, <1>8 DEF EntryInv, OnRings
<1>18. QuiescedInv'
    BY <1>1, <1>2 DEF QuiescedInv
<1>19. RanInv'
  <2>1. Noted(batch)' \cap Queue = {}
    BY <1>1, NotedOnes DEF Noted, Queue
  <2>2. \A q \in Queue : Ran(q)' => \A n \in Needs(q)' : Retired(n)'
    BY <1>13 DEF Known, IInv, RingInv, RanInv, Retired
  <2>3. \A q \in backend'.job.complete : Retired(q)'
    BY <1>1, <1>13 DEF Known, IInv, RingInv, RanInv, Retired
  <2> QED BY <1>4, <1>6, <1>8, <2>1, <2>2, <2>3 DEF RanInv
<1>20. ManagerInv'
    BY <1>5, <1>7 DEF ManagerInv
<1>21. EventInv'
  <2>1. \A i \in Places' : ~Fault(i)'
    <3> SUFFICES ASSUME NEW i \in Places', Fault(i)' PROVE FALSE
      OBVIOUS
    <3>1. i + 1 \in Places /\ Fault(i + 1)
      BY <1>9
    <3>2. i + 1 = 1
      BY <1>2, <1>3, <3>1 DEF Known, IInv, EventInv, HaltInv
    <3> QED BY <3>2 DEF Places
  <2>2. \A i \in Places' : events'[i].kind = "flag" => events'[i].queues # {}
    BY <1>9 DEF Known, IInv, EventInv, HaltInv
  <2>3. firmware'.dropped # 0
    BY <1>5, <1>7
  <2> QED BY <1>1, <2>1, <2>2, <2>3 DEF EventInv, HaltInv, FlagInv, Undropped, EventsAccepted
<1> QED BY <1>10, <1>11, <1>12, <1>14, <1>15, <1>16, <1>17, <1>18, <1>19, <1>20, <1>21
        DEF IInv, RingInv

\* What a Flag event completes, and what is complete with it.
Newly == {q \in (Awaited \cap (runtime.seen \cup (Awaited \cap Head(events).queues)))
                  \ runtime.complete : CompletionSatisfied(q, Head(events))}
Sofar == runtime.complete \cup Newly

\* The step of a Flag event in these terms.
LEMMA FlagStep ==
    ASSUME IngestFlag
    PROVE  /\ backend' = backend /\ written' = written /\ ring' = ring /\ todo' = todo
           /\ firmware' = firmware /\ jobs' = jobs
           /\ Ingesting /\ Head(events).kind = "flag"
           /\ events' = Tail(events) /\ window' = window - 1
           /\ batch' = Reported(Newly)
           /\ Awaited \subseteq Sofar =>
                /\ runtime' = [ClearPending(runtime) EXCEPT !.phase = "Ready"]
                /\ provider' = Idle
           /\ ~(Awaited \subseteq Sofar) =>
                /\ runtime' = [runtime EXCEPT
                       !.seen = runtime.seen \cup (Awaited \cap Head(events).queues),
                       !.complete = Sofar]
                /\ provider' = provider
    BY DEF IngestFlag, Newly, Sofar, Consume

\* The done pointer has not passed what was published only if it has reached it.
LEMMA DoneReached ==
    ASSUME NEW p \in Slot, NEW x \in Slot,
           (p + Capacity - x) % Capacity <= (x + Capacity - x) % Capacity
    PROVE  p = x
<1>1. x + Capacity - x = Capacity /\ Capacity % Capacity = 0
    BY CapacityAssumption DEF Slot
<1>2. PICK y \in Nat : y = p + Capacity - x
    BY CapacityAssumption DEF Slot
<1>3. y < 2 * Capacity /\ y > 0
    BY <1>2, CapacityAssumption DEF Slot
<1>4. y % Capacity <= 0
    BY <1>1, <1>2
<1>5. y % Capacity = IF y < Capacity THEN y ELSE y - Capacity
    BY <1>3, Wraps
<1> QED BY <1>2, <1>3, <1>4, <1>5, CapacityAssumption DEF Slot

\* A stamp has reached itself.
LEMMA StampSame ==
    ASSUME NEW n \in Nat
    PROVE  StampReached(n % StampModulus, n % StampModulus)
<1>1. n % StampModulus \in Int
    BY StampAssumption
<1>2. (n % StampModulus) - (n % StampModulus) = 0
    BY <1>1
<1>3. 0 % StampModulus = 0 /\ 0 < StampModulus \div 2
    BY StampAssumption
<1> QED BY <1>2, <1>3 DEF StampReached

\* The queues that complete are queues of the job whose work is retired.
LEMMA NewlyRetired ==
    ASSUME IInv, InFlight, backend.phase = "Submitted", F # 0
    PROVE  /\ Awaited = JobQueues(Kind)
           /\ Newly \subseteq JobQueues(Kind) \ runtime.complete
           /\ Newly \subseteq Head(events).queues
           /\ \A q \in Sofar : q \in JobQueues(Kind) /\ Retired(q) /\ Left(q) = 0
<1>1. Kind \in {"render", "joined", "compute"}
    BY KindQueues DEF IInv, JobInv
<1>2. Awaited = JobQueues(Kind)
  <2>1. CASE Kind = "compute"
    BY <2>1, KindQueues DEF InFlight, Awaited
  <2>2. CASE Kind # "compute"
    BY <1>1, <2>2, KindQueues DEF InFlight, Awaited
  <2> QED BY <2>1, <2>2
<1>3. Newly \subseteq JobQueues(Kind) \ runtime.complete /\ Newly \subseteq Head(events).queues
    BY <1>2 DEF Newly, CompletionSatisfied
<1>4. firmware.running /\ F > firmware.dropped /\ ~backend.quiesced /\ todo = <<>>
    BY DEF InFlight, IInv, LayerInv, SubmittedInv
<1>5. ASSUME NEW q \in Newly PROVE Retired(q) /\ Left(q) = 0
  <2>1. q \in JobQueues(Kind) /\ q \in Queue /\ CompletionSatisfied(q, Head(events))
    BY <1>1, <1>3, KindQueues DEF Newly, Queue
  <2>2. /\ firmware.done[q] \in Slot /\ backend.expected[q] \in Slot
    BY <2>1 DEF IInv, Typed, FirmwareType, BackendType
  <2>3. written[q] = backend.expected[q]
    <3>1. ~PublishLeft(q)
      BY <1>4 DEF PublishLeft
    <3> QED BY <1>4, <2>1, <3>1 DEF IInv, RingInv, PointerInv, Busy
  <2>4. firmware.done[q] = backend.expected[q]
    BY <2>1, <2>2, <2>3, DoneReached DEF CompletionSatisfied
  <2>5. Left(q) = 0
    BY <2>2, <2>4, Distances DEF Left
  <2>6. Ran(q)
    BY <1>4, <2>1, <2>5 DEF IInv, RingInv, EntryInv, OnRings
  <2> QED BY <2>5, <2>6 DEF Retired
<1>6. \A q \in runtime.complete : q \in JobQueues(Kind) /\ Retired(q) /\ Left(q) = 0
  <2>1. \A q \in runtime.complete : q \in JobQueues(Kind) /\ Retired(q)
    BY DEF InFlight, IInv, RingInv, RanInv
  <2> QED BY <1>4, <2>1 DEF Retired
<1> QED BY <1>2, <1>3, <1>5, <1>6 DEF Sofar

\* While no job was dropped, every queue an event names completes.
LEMMA FlagExact ==
    ASSUME IInv, Ingesting, InFlight, backend.phase = "Submitted", F # 0,
           Head(events).kind = "flag", firmware.dropped = 0
    PROVE  Newly = Head(events).queues
<1>1. /\ todo = <<>> /\ firmware.running /\ Busy /\ ~backend.quiesced /\ events # <<>>
    BY IngestModes
<1>2. Undropped /\ ~Free /\ OnRings
    BY <1>1, NotFree, Fields DEF Undropped, OnRings, InFlight, IInv
<1>3. Head(events) = events[1] /\ 1 \in Places
    BY <1>1 DEF IInv, Typed, Places
<1>4. Newly \subseteq Head(events).queues /\ Awaited = JobQueues(Kind)
    BY NewlyRetired
<1>5. ASSUME NEW q \in Head(events).queues PROVE q \in Newly
  <2>1. q \in Queue /\ Flag(1, q)
    BY <1>3, <1>5, EventKinds DEF Flag, IInv
  <2>2. q \in JobQueues(Kind) /\ Ran(q) /\ firmware.active # q /\ q \notin runtime.complete
    BY <1>2, <1>3, <2>1 DEF IInv, EventInv, FlagInv
  <2>3. Left(q) = 0
    BY <1>2, <2>2 DEF IInv, RingInv, EntryInv
  <2>4. firmware.done[q] \in Slot /\ backend.expected[q] \in Slot
    BY <2>1 DEF IInv, Typed, FirmwareType, BackendType
  <2>5. firmware.done[q] = backend.expected[q]
    BY <2>3, <2>4, Distances DEF Left
  <2>6. written[q] = backend.expected[q]
    <3>1. ~PublishLeft(q)
      BY <1>1 DEF PublishLeft
    <3> QED BY <1>1, <2>1, <3>1 DEF IInv, RingInv, PointerInv
  <2>7. StampReached(firmware.stamp[q], runtime.fence % StampModulus)
    <3>1. firmware.stamp[q] = F % StampModulus
      BY <1>2, <2>2 DEF IInv, EventInv, FlagInv
    <3>2. runtime.fence = F /\ F \in Nat
      BY Fields DEF InFlight, IInv
    <3> QED BY <3>1, <3>2, StampSame
  <2>8. CompletionSatisfied(q, Head(events))
    <3>1. PICK x : x = (backend.expected[q] + Capacity - backend.expected[q]) % Capacity
      OBVIOUS
    <3>2. x \in Int
      BY <2>4, <3>1, CapacityAssumption DEF Slot
    <3> QED BY <1>5, <2>5, <2>6, <2>7, <3>1, <3>2 DEF CompletionSatisfied
  <2> QED BY <1>4, <1>5, <2>2, <2>8 DEF Newly
<1> QED BY <1>4, <1>5

\* Two sequences of one element each.
LEMMA Pair ==
    ASSUME NEW a, NEW b
    PROVE  <<a>> \o <<b>> = <<a, b>>
<1>1. PICK s : s = <<a>> \o <<b>>
    OBVIOUS
<1>2. s \in Seq({a, b}) /\ Len(s) = 2 /\ s[1] = a /\ s[2] = b
    BY <1>1
<1>3. PICK t : t = <<a, b>>
    OBVIOUS
<1>4. t \in Seq({a, b}) /\ Len(t) = 2 /\ t[1] = a /\ t[2] = b
    BY <1>3
<1>5. s = [i \in 1 .. 2 |-> s[i]] /\ t = [i \in 1 .. 2 |-> t[i]]
    BY <1>2, <1>4
<1>6. \A i \in 1 .. 2 : s[i] = t[i]
    BY <1>2, <1>4
<1>7. [i \in 1 .. 2 |-> s[i]] = [i \in 1 .. 2 |-> t[i]]
    BY <1>6
<1> QED BY <1>1, <1>3, <1>5, <1>7

\* What the provider reports of them.
LEMMA Reports ==
    ASSUME NEW s \in SUBSET Queue
    PROVE  /\ Reported(s) \in Seq(Observation)
           /\ provider.phase = "ComputeOnly" =>
                Reported(s) = IF "compute" \in s THEN <<"compute">> ELSE <<>>
           /\ provider.phase # "ComputeOnly" =>
                /\ Reported(s) \in RenderBatches /\ Noted(Reported(s)) = s \cap Counted
                /\ s \cap Counted = {} => Reported(s) = <<>>
<1>1. CASE provider.phase = "ComputeOnly"
  <2>1. Reported(s) = IF "compute" \in s THEN <<"compute">> ELSE <<>>
    BY <1>1 DEF Reported
  <2>2. <<"compute">> \in Seq(Observation) /\ <<>> \in Seq(Observation)
    BY DEF Observation, Queue
  <2> QED BY <1>1, <2>1, <2>2
<1>2. CASE provider.phase # "ComputeOnly"
  <2>1. Reported(s) = (IF "d3" \in s THEN <<"d3">> ELSE <<>>) \o (IF "ta" \in s THEN <<"ta">> ELSE <<>>)
    BY <1>2 DEF Reported
  <2>2. CASE "d3" \in s /\ "ta" \in s
    <3>1. Reported(s) = <<"d3", "ta">>
      <4>1. Reported(s) = <<"d3">> \o <<"ta">>
        BY <2>1, <2>2
      <4>2. <<"d3">> \o <<"ta">> = <<"d3", "ta">>
        BY Pair, Zenon
      <4> QED BY <4>1, <4>2
    <3>2. Noted(<<"d3", "ta">>) = {"d3", "ta"}
      BY DEF Noted
    <3>3. <<"d3", "ta">> \in Seq(Observation)
      BY DEF Observation, Queue
    <3> QED BY <1>2, <2>2, <3>1, <3>2, <3>3 DEF RenderBatches, Counted
  <2>3. CASE "d3" \in s /\ "ta" \notin s
    <3>1. Reported(s) = <<"d3">>
      BY <2>1, <2>3
    <3>2. <<"d3">> \in Seq(Observation)
      BY DEF Observation, Queue
    <3> QED BY <1>2, <2>3, <3>1, <3>2, NotedOnes DEF RenderBatches, Counted
  <2>4. CASE "d3" \notin s /\ "ta" \in s
    <3>1. Reported(s) = <<"ta">>
      BY <2>1, <2>4
    <3>2. <<"ta">> \in Seq(Observation)
      BY DEF Observation, Queue
    <3> QED BY <1>2, <2>4, <3>1, <3>2, NotedOnes DEF RenderBatches, Counted
  <2>5. CASE "d3" \notin s /\ "ta" \notin s
    <3>1. Reported(s) = <<>>
      BY <2>1, <2>5
    <3> QED BY <1>2, <2>5, <3>1, NotedOnes DEF RenderBatches, Counted
  <2> QED BY <2>2, <2>3, <2>4, <2>5
<1> QED BY <1>1, <1>2

\* The layers after a Flag event of the job in flight.
LEMMA FlagLayers ==
    ASSUME Known, IngestFlag, InFlight, backend.phase = "Submitted", F # 0, Terminated = "none"
    PROVE  /\ IF Awaited \subseteq Sofar THEN Completed' /\ Free' ELSE InFlight'
           /\ runtime' \in RuntimeType /\ provider' \in ProviderType
           /\ runtime'.bm = runtime.bm
           /\ runtime'.complete = (IF Awaited \subseteq Sofar THEN {} ELSE Sofar)
           /\ batch' \in Seq(Observation) /\ Noted(batch)' \subseteq Newly
<1>1. /\ backend' = backend /\ firmware' = firmware /\ jobs' = jobs /\ Ingesting
      /\ batch' = Reported(Newly)
      /\ Awaited \subseteq Sofar =>
           /\ runtime' = [ClearPending(runtime) EXCEPT !.phase = "Ready"]
           /\ provider' = Idle
      /\ ~(Awaited \subseteq Sofar) =>
           /\ runtime' = [runtime EXCEPT
                  !.seen = runtime.seen \cup (Awaited \cap Head(events).queues),
                  !.complete = Sofar]
           /\ provider' = provider
    BY FlagStep
<1>2. /\ Awaited = JobQueues(Kind) /\ Newly \subseteq JobQueues(Kind) \ runtime.complete
      /\ \A q \in Sofar : q \in JobQueues(Kind)
    BY NewlyRetired DEF Known
<1>3. /\ batch = <<>> /\ runtime \in RuntimeType /\ provider \in ProviderType
      /\ Kind \in {"render", "joined", "compute"} /\ 0 \in 0 .. MaxFence
    BY <1>1, IngestModes, KindQueues, Fields DEF Known, IInv, Typed, JobInv
<1>4. F' = F /\ Kind' = Kind /\ Terminated' = Terminated
    BY <1>1 DEF F, Kind, Terminated
<1>5. JobQueues(Kind) \subseteq Queue /\ Newly \subseteq Queue /\ Awaited \subseteq Queue
      /\ Sofar \subseteq Queue
    BY <1>2, <1>3, KindQueues DEF Queue
<1>6. /\ Reported(Newly) \in Seq(Observation)
      /\ provider.phase = "ComputeOnly" =>
           Reported(Newly) = IF "compute" \in Newly THEN <<"compute">> ELSE <<>>
      /\ provider.phase # "ComputeOnly" =>
           /\ Reported(Newly) \in RenderBatches /\ Noted(Reported(Newly)) = Newly \cap Counted
    BY <1>5, Reports
<1>7. /\ provider = [phase |-> IF Kind = "compute" THEN "ComputeOnly" ELSE "Submitted",
                     fence |-> F, quiesced |-> FALSE]
      /\ firmware.running /\ F > firmware.dropped /\ ~backend.quiesced
      /\ Observed(runtime.complete)
      /\ runtime.complete \subseteq JobQueues(Kind) /\ runtime.complete # JobQueues(Kind)
    BY DEF InFlight
<1>8. provider.phase = "ComputeOnly" <=> Kind = "compute"
    BY <1>7
<1>9. /\ backend.job.complete = runtime.complete \cap Counted
      /\ ~(Counted \subseteq backend.job.complete)
    BY <1>3, <1>7, NotedOnes DEF Observed
<1>10. Noted(batch') \subseteq Newly
    BY <1>1, <1>6, NotedOnes
<1>11. CASE Awaited \subseteq Sofar
  <2>1. runtime' = [ClearPending(runtime) EXCEPT !.phase = "Ready"] /\ provider' = Idle
    BY <1>1, <1>11
  <2>2. runtime' \in RuntimeType /\ runtime'.bm = runtime.bm /\ runtime'.complete = {} /\ Free'
    BY <1>3, <2>1 DEF ClearPending, RuntimeType, Free
  <2>3. provider' \in ProviderType
    BY <1>3, <2>1 DEF Idle, ProviderType, ProviderPhase
  <2>4. IF Kind = "compute" THEN backend.job.complete = {} /\ batch' = <<"compute">>
        ELSE Observed(Counted)'
    <3>1. CASE Kind = "compute"
      <4>1. runtime.complete = {}
        BY <1>7, <3>1, KindQueues
      <4>2. "compute" \in Newly
        BY <1>2, <1>11, <3>1, <4>1, KindQueues DEF Sofar
      <4> QED BY <1>1, <1>6, <1>8, <1>9, <3>1, <4>1, <4>2
    <3>2. CASE Kind # "compute"
      <4>1. Counted \subseteq Sofar
        BY <1>2, <1>3, <1>11, <3>2, KindQueues DEF Counted
      <4>2. Newly \cap runtime.complete = {}
        BY <1>2
      <4>3. backend.job.complete \cap Noted(batch') = {}
            /\ backend.job.complete \cup Noted(batch') = Counted
        BY <1>1, <1>6, <1>8, <1>9, <3>2, <4>1, <4>2 DEF Sofar
      <4>4. Noted(batch)' = Noted(batch')
        BY DEF Noted
      <4> QED BY <1>1, <1>6, <1>8, <1>9, <3>2, <4>3, <4>4 DEF Observed, Counted
    <3> QED BY <3>1, <3>2
  <2>5. Completed'
    BY <1>1, <1>4, <1>7, <2>2, <2>4 DEF Completed, Counted
  <2> QED BY <1>1, <1>6, <1>10, <1>11, <2>2, <2>3, <2>5 DEF Noted
<1>12. CASE ~(Awaited \subseteq Sofar)
  <2>1. runtime' = [runtime EXCEPT
                      !.seen = runtime.seen \cup (Awaited \cap Head(events).queues),
                      !.complete = Sofar]
        /\ provider' = provider
    BY <1>1, <1>12
  <2>2. /\ runtime' \in RuntimeType /\ runtime'.bm = runtime.bm /\ runtime'.complete = Sofar
        /\ runtime'.phase = runtime.phase /\ runtime'.fence = runtime.fence
        /\ runtime'.inRender = runtime.inRender
    BY <1>3, <1>5, <2>1 DEF RuntimeType
  <2>3. Observed(runtime.complete)'
    <3>1. CASE Kind = "compute"
      <4>1. runtime.complete = {}
        BY <1>7, <3>1, KindQueues
      <4>2. "compute" \notin Sofar
        BY <1>2, <1>12, <3>1, KindQueues
      <4>3. Sofar = {}
        BY <1>2, <3>1, <4>2, KindQueues
      <4>4. batch' = <<>>
        BY <1>1, <1>6, <1>8, <3>1, <4>2 DEF Sofar
      <4>5. Noted(batch)' = {} /\ batch' \in RenderBatches
        BY <4>4, NotedOnes DEF Noted, RenderBatches
      <4> QED BY <1>1, <1>9, <2>2, <4>1, <4>3, <4>5 DEF Observed, Counted
    <3>2. CASE Kind # "compute"
      <4>1. Newly \cap runtime.complete = {}
        BY <1>2
      <4>2. backend.job.complete \cap Noted(batch') = {}
            /\ backend.job.complete \cup Noted(batch') = Sofar \cap Counted
        BY <1>1, <1>6, <1>8, <1>9, <3>2, <4>1 DEF Sofar
      <4>3. Noted(batch)' = Noted(batch')
        BY DEF Noted
      <4> QED BY <1>1, <1>6, <1>8, <1>9, <2>2, <3>2, <4>2, <4>3 DEF Observed, Counted
    <3> QED BY <3>1, <3>2
  <2>4. InFlight'
    <3>1. Sofar \subseteq JobQueues(Kind) /\ Sofar # JobQueues(Kind)
      BY <1>2, <1>12
    <3> QED BY <1>1, <1>4, <1>7, <2>1, <2>2, <2>3, <3>1 DEF InFlight
  <2> QED BY <1>1, <1>3, <1>6, <1>10, <1>12, <2>1, <2>2, <2>4 DEF Noted
<1> QED BY <1>11, <1>12

\* The events that are left after a Flag event, while no job was dropped.
LEMMA FlagFlags ==
    ASSUME Known, IngestFlag, InFlight, backend.phase = "Submitted", F # 0,
           Terminated = "none", firmware.dropped = 0
    PROVE  FlagInv'
<1>1. /\ backend' = backend /\ firmware' = firmware /\ jobs' = jobs /\ todo' = todo
      /\ Ingesting /\ Head(events).kind = "flag" /\ events' = Tail(events) /\ ring' = ring
      /\ written' = written
    BY FlagStep
<1>2. /\ todo = <<>> /\ firmware.running /\ Busy /\ ~backend.quiesced /\ events # <<>>
    BY <1>1, IngestModes DEF Known
<1>3. Undropped /\ ~Free /\ OnRings /\ F \in Nat /\ F > firmware.dropped
    BY <1>1, <1>2, NotFree, Fields DEF Undropped, OnRings, InFlight, Known, IInv
<1>4. /\ Awaited = JobQueues(Kind)
      /\ \A q \in Sofar : q \in JobQueues(Kind) /\ Retired(q) /\ Left(q) = 0
    BY NewlyRetired DEF Known
<1>5. Sofar = runtime.complete \cup Head(events).queues
    BY <1>1, FlagExact DEF Known, Sofar
<1>6. /\ Head(events) = events[1] /\ 1 \in Places
      /\ \A i \in Places' :
           /\ i + 1 \in Places /\ events'[i] = events[i + 1]
           /\ (Fault(i)' <=> Fault(i + 1)) /\ \A q : Flag(i, q)' <=> Flag(i + 1, q)
      /\ \A i \in Places : i = 1 \/ (i - 1 \in Places' /\ events'[i - 1] = events[i])
    BY <1>1, <1>2, EventsTail DEF Known, IInv, Typed
<1>7. \A q : Flag(1, q) <=> q \in Head(events).queues
    BY <1>1, <1>6 DEF Flag
<1>8. FlagInv /\ HaltInv
    BY DEF Known, IInv, EventInv
<1>9. RingSame /\ F' = F /\ Kind' = Kind
    BY <1>1 DEF RingSame, F, Kind
<1>10. \A q : Left(q)' = Left(q) /\ Ran(q)' = Ran(q) /\ JobQueues(Kind)' = JobQueues(Kind)
    BY <1>9, SameRings
<1>11. \A q \in Queue : (q \in firmware.raised \/ \E i \in Places' : Flag(i, q)') =>
         q \in JobQueues(Kind) /\ Ran(q) /\ firmware.active # q /\ q \notin Sofar
  <2> SUFFICES ASSUME NEW q \in Queue, q \in firmware.raised \/ \E i \in Places' : Flag(i, q)'
               PROVE  q \in JobQueues(Kind) /\ Ran(q) /\ firmware.active # q /\ q \notin Sofar
    OBVIOUS
  <2>1. q \in firmware.raised \/ \E i \in Places : i # 1 /\ Flag(i, q)
    <3>1. ASSUME NEW i \in Places', Flag(i, q)' PROVE i + 1 \in Places /\ i + 1 # 1 /\ Flag(i + 1, q)
      BY <1>6, <3>1 DEF Places
    <3> QED BY <3>1
  <2>2. q \in JobQueues(Kind) /\ Ran(q) /\ firmware.active # q /\ q \notin runtime.complete
    BY <1>3, <1>8, <2>1 DEF FlagInv
  <2>3. ~Flag(1, q)
    BY <1>3, <1>6, <1>8, <2>1 DEF FlagInv
  <2> QED BY <1>5, <1>7, <2>2, <2>3
<1>12. \A i \in Places' : events'[i].kind = "grow" => "ta" \in JobQueues(Kind) /\ "ta" \notin Sofar
  <2> SUFFICES ASSUME NEW i \in Places', events'[i].kind = "grow"
               PROVE  "ta" \in JobQueues(Kind) /\ "ta" \notin Sofar
    OBVIOUS
  <2>1. i + 1 \in Places /\ events[i + 1].kind = "grow" /\ i \in Nat /\ i >= 1
    BY <1>6 DEF Places
  <2>2. "ta" \in JobQueues(Kind) /\ "ta" \notin runtime.complete
    BY <1>3, <1>8, <2>1 DEF FlagInv
  <2>3. ~Flag(1, "ta")
    <3>1. Flag(1, "ta") => i + 1 < 1
      BY <1>3, <1>6, <1>8, <2>1 DEF FlagInv
    <3> QED BY <2>1, <3>1
  <2> QED BY <1>5, <1>7, <2>2, <2>3
<1>13. runtime'.complete = (IF Awaited \subseteq Sofar THEN {} ELSE Sofar)
    BY FlagLayers
<1>14. CASE Awaited \subseteq Sofar
  <2>1. Free' /\ runtime'.complete = {}
    BY <1>13, <1>14, FlagLayers
  <2>2. firmware.raised = {} /\ \A i \in Places', q \in Queue : ~Flag(i, q)'
    BY <1>4, <1>11, <1>14 DEF Known, IInv, Typed, FirmwareType
  <2>3. \A i \in Places' : events'[i].kind # "grow"
    BY <1>4, <1>12, <1>14
  <2>4. \A i \in Places' : ~Fault(i)'
    <3> SUFFICES ASSUME NEW i \in Places', Fault(i)' PROVE FALSE
      OBVIOUS
    <3>1. i + 1 \in Places /\ Fault(i + 1)
      BY <1>6
    <3>2. \E q \in JobQueues(Kind) : Left(q) > 0
      BY <1>2, <1>8, <3>1 DEF HaltInv
    <3> QED BY <1>4, <1>14, <3>2
  <2>5. Places' = {}
    <3> SUFFICES ASSUME NEW i \in Places' PROVE FALSE
      OBVIOUS
    <3>1. i + 1 \in Places /\ events'[i] = events[i + 1]
      BY <1>6
    <3>2. /\ events[i + 1].kind \in {"flag", "fault", "grow"} /\ events[i + 1].queues \subseteq Queue
      BY <3>1, EventKinds DEF Known, IInv
    <3>3. events'[i].kind = "flag"
      BY <2>3, <2>4, <3>1, <3>2 DEF Fault
    <3>4. events[i + 1].queues # {}
      BY <1>8, <3>1, <3>3 DEF HaltInv
    <3> QED BY <2>2, <3>1, <3>2, <3>3, <3>4 DEF Flag
  <2>6. events' = <<>>
    <3>1. events' \in Seq(Event)
      BY <1>1, <1>2, EventsTail DEF Known, IInv, Typed
    <3>2. Len(events') \in Nat /\ (Len(events') = 0 => events' = <<>>)
      BY <3>1
    <3>3. ~(1 \in 1 .. Len(events'))
      BY <2>5 DEF Places
    <3> QED BY <3>2, <3>3
  <2>7. \A q \in JobQueues(Kind)' : Ran(q)' => firmware'.stamp[q] = F' % StampModulus
    BY <1>1, <1>3, <1>8, <1>9, <1>10 DEF FlagInv
  <2> QED BY <1>1, <1>2, <2>1, <2>2, <2>5, <2>6, <2>7 DEF FlagInv
<1>15. CASE ~(Awaited \subseteq Sofar)
  <2>1. runtime'.complete = Sofar /\ ~Free'
    <3>1. InFlight'
      BY <1>15, FlagLayers
    <3> QED BY <1>13, <1>15, <3>1 DEF InFlight, Free, Idle
  <2>2. \A i, j \in Places' : (i + 1 = j + 1 => i = j) /\ (j + 1 <= i + 1 => j <= i)
                              /\ (i + 1 < j + 1 => i < j)
    BY DEF Places
  <2>3. \A q \in Queue, i, j \in Places' :
          Flag(i, q)' => q \notin firmware'.raised /\ (Flag(j, q)' => i = j)
    BY <1>1, <1>3, <1>6, <1>8, <2>2 DEF FlagInv
  <2>4. \A q \in JobQueues(Kind)' : Ran(q)' =>
          \/ firmware'.active = q \/ q \in firmware'.raised \/ q \in runtime'.complete
          \/ \E i \in Places' : Flag(i, q)'
    <3> SUFFICES ASSUME NEW q \in JobQueues(Kind), Ran(q), firmware.active # q,
                        q \notin firmware.raised, q \notin Sofar
                 PROVE  \E i \in Places' : Flag(i, q)'
      BY <1>1, <1>10, <2>1
    <3>1. PICK i \in Places : Flag(i, q)
      BY <1>3, <1>5, <1>8 DEF FlagInv
    <3>2. i # 1
      BY <1>5, <1>7, <3>1
    <3>3. i - 1 \in Places' /\ events'[i - 1] = events[i]
      BY <1>6, <3>2
    <3> QED BY <3>1, <3>3 DEF Flag
  <2>5. \A i, j \in Places' : Flag(i, "ta")' =>
          "compute" \notin firmware'.raised /\ (Flag(j, "compute")' => j <= i)
    BY <1>1, <1>3, <1>6, <1>8, <2>2 DEF FlagInv
  <2>6. ASSUME NEW i \in Places', NEW j \in Places', events'[i].kind = "grow", Flag(j, "ta")'
        PROVE  i < j
    <3>1. /\ i + 1 \in Places /\ j + 1 \in Places /\ events[i + 1].kind = "grow"
          /\ Flag(j + 1, "ta")
      BY <1>6, <2>6
    <3>2. i + 1 < j + 1
      BY <1>3, <1>8, <3>1 DEF FlagInv
    <3> QED BY <2>2, <3>2
  <2>7. \A q \in JobQueues(Kind)' : Ran(q)' => firmware'.stamp[q] = F' % StampModulus
    BY <1>1, <1>3, <1>8, <1>9, <1>10 DEF FlagInv
  <2>8. Kind = "joined" /\ "ta" \in Sofar => "compute" \in Sofar
    <3> SUFFICES ASSUME Kind = "joined", "ta" \in Sofar, "compute" \notin Sofar PROVE FALSE
      OBVIOUS
    <3>1. "compute" \in JobQueues(Kind) /\ "compute" \in Queue /\ "ta" \in Queue
      BY KindQueues DEF Queue
    <3>2. Retired("compute")
      <4>1. Ran("ta")
        BY <1>4 DEF Retired
      <4>2. "compute" \in Needs("ta")
        BY DEF Needs
      <4> QED BY <3>1, <4>1, <4>2 DEF Known, IInv, RingInv, RanInv
    <3>3. Ran("compute") /\ Left("compute") = 0
      BY <1>2, <1>3, <3>2 DEF Retired
    <3>4. firmware.active # "compute"
      BY <1>2, <3>3 DEF Known, IInv, RingInv, ActiveInv
    <3>5. "ta" \in Head(events).queues
      BY <1>3, <1>5, <1>8 DEF FlagInv
    <3>6. Flag(1, "ta")
      BY <1>7, <3>5
    <3>7. "compute" \notin firmware.raised
      BY <1>3, <1>6, <1>8, <3>6 DEF FlagInv
    <3>8. PICK i \in Places : Flag(i, "compute")
      BY <1>3, <1>5, <1>8, <3>1, <3>3, <3>4, <3>7 DEF FlagInv
    <3>9. i <= 1
      BY <1>3, <1>6, <1>8, <3>6, <3>8 DEF FlagInv
    <3>10. i = 1
      BY <3>9 DEF Places
    <3> QED BY <1>5, <1>7, <3>8, <3>10
  <2> QED BY <1>1, <1>9, <1>10, <1>11, <1>12, <2>1, <2>3, <2>4, <2>5, <2>6, <2>7, <2>8 DEF FlagInv
<1> QED BY <1>14, <1>15

\* The layers after a Flag event for a job that was ended early.
LEMMA EarlyLayers ==
    ASSUME Known, IngestFlag, Early, backend.phase = "Ready"
    PROVE  /\ Free' \/ Early'
           /\ runtime' \in RuntimeType /\ provider' \in ProviderType
           /\ runtime'.bm = runtime.bm
           /\ batch' = <<>>
<1>1. /\ backend' = backend /\ firmware' = firmware /\ Ingesting
      /\ batch' = Reported(Newly)
      /\ Awaited \subseteq Sofar =>
           /\ runtime' = [ClearPending(runtime) EXCEPT !.phase = "Ready"]
           /\ provider' = Idle
      /\ ~(Awaited \subseteq Sofar) =>
           /\ runtime' = [runtime EXCEPT
                  !.seen = runtime.seen \cup (Awaited \cap Head(events).queues),
                  !.complete = Sofar]
           /\ provider' = provider
    BY FlagStep
<1>2. runtime \in RuntimeType /\ provider \in ProviderType /\ 0 \in 0 .. MaxFence
    BY Fields DEF Known, IInv, Typed
<1>3. /\ Awaited = {"d3", "ta", "compute"} /\ {"d3", "ta"} \subseteq runtime.complete
      /\ "compute" \notin runtime.complete /\ runtime.complete \subseteq Queue
    BY Fields DEF Early, Awaited, Known, IInv
<1>4. Newly \subseteq {"compute"} /\ Newly \subseteq Queue
    BY <1>3 DEF Newly, Queue
<1>5. batch' = <<>>
  <2>1. provider.phase # "ComputeOnly" /\ Newly \cap Counted = {}
    BY <1>4 DEF Early, Counted
  <2> QED BY <1>1, <1>4, <2>1, Reports
<1>6. CASE Awaited \subseteq Sofar
  <2>1. runtime' = [ClearPending(runtime) EXCEPT !.phase = "Ready"] /\ provider' = Idle
    BY <1>1, <1>6
  <2>2. runtime' \in RuntimeType /\ runtime'.bm = runtime.bm /\ Free'
    BY <1>2, <2>1 DEF ClearPending, RuntimeType, Free
  <2>3. provider' \in ProviderType
    BY <1>2, <2>1 DEF Idle, ProviderType, ProviderPhase
  <2> QED BY <1>5, <2>2, <2>3
<1>7. CASE ~(Awaited \subseteq Sofar)
  <2>1. runtime' = [runtime EXCEPT
                      !.seen = runtime.seen \cup (Awaited \cap Head(events).queues),
                      !.complete = Sofar]
        /\ provider' = provider
    BY <1>1, <1>7
  <2>2. Sofar = runtime.complete
    BY <1>3, <1>4, <1>7 DEF Sofar
  <2>3. Awaited \subseteq Queue
    BY <1>3 DEF Queue
  <2>4. /\ runtime' \in RuntimeType /\ runtime'.bm = runtime.bm
        /\ runtime'.complete = runtime.complete
        /\ runtime'.phase = runtime.phase /\ runtime'.inRender = runtime.inRender
    BY <1>2, <1>3, <2>1, <2>2, <2>3 DEF RuntimeType
  <2> QED BY <1>1, <1>2, <1>5, <2>1, <2>4 DEF Early
<1> QED BY <1>6, <1>7

\* A Flag event is read.
LEMMA IngestFlagKeeps ==
    ASSUME Known, IngestFlag
    PROVE  IInv'
<1>1. /\ backend' = backend /\ written' = written /\ ring' = ring /\ todo' = todo
      /\ firmware' = firmware /\ jobs' = jobs
      /\ Ingesting /\ events' = Tail(events) /\ window' = window - 1
    BY FlagStep
<1>2. /\ todo = <<>> /\ batch = <<>> /\ window > 0 /\ firmware.running /\ Busy
      /\ ~backend.quiesced /\ events # <<>>
      /\ \/ backend.phase = "Submitted" /\ InFlight /\ Terminated = "none" /\ F # 0
         \/ backend.phase = "Ready" /\ Early /\ F = 0 /\ firmware.dropped # 0
    BY <1>1, IngestModes DEF Known
<1>3. /\ events' \in Seq(Event) /\ Len(events') = Len(events) - 1
      /\ \A i \in Places' :
           /\ i + 1 \in Places /\ events'[i] = events[i + 1] /\ (Fault(i)' <=> Fault(i + 1))
    BY <1>1, <1>2, EventsTail DEF Known, IInv, Typed
<1>4. RingSame /\ F' = F /\ Kind' = Kind /\ Terminated' = Terminated /\ Busy' = Busy
    BY <1>1 DEF RingSame, F, Kind, Terminated, Busy
<1>5. /\ runtime' \in RuntimeType /\ provider' \in ProviderType
      /\ runtime'.bm = runtime.bm /\ batch' \in Seq(Observation)
  <2>1. <<>> \in Seq(Observation)
    OBVIOUS
  <2> QED BY <1>2, <2>1, FlagLayers, EarlyLayers
<1>6. Typed'
  <2>1. Len(events) \in Nat /\ window \in Nat /\ window <= Len(events)
    BY DEF Known, IInv, Typed
  <2>2. window' \in Nat /\ window' <= Len(events')
    BY <1>1, <1>2, <1>3, <2>1
  <2> QED BY <1>1, <1>3, <1>5, <2>2 DEF Known, IInv, Typed
<1>7. JobInv'
    BY <1>1, <1>4, JobKept DEF Known, IInv
<1>8. LayerInv'
  <2>1. CASE backend.phase = "Submitted"
    <3>1. Completed' \/ InFlight'
      BY <1>2, <2>1, FlagLayers
    <3>2. SubmittedInv'
      BY <1>1, <1>2, <1>4, <2>1, <3>1 DEF SubmittedInv
    <3> QED BY <1>1, <1>2, <1>4, <2>1, <3>2 DEF LayerInv, SubmittingInv, ReadyInv, DownInv
  <2>2. CASE backend.phase = "Ready"
    <3>1. (Free' \/ Early') /\ batch' = <<>>
      BY <1>2, <2>2, EarlyLayers
    <3>2. ReadyInv'
      BY <1>1, <1>2, <2>2, <3>1 DEF ReadyInv, Known, IInv, LayerInv
    <3> QED BY <1>1, <1>2, <1>4, <2>2, <3>2 DEF LayerInv, SubmittingInv, SubmittedInv, DownInv
  <2> QED BY <1>2, <2>1, <2>2
<1>9. RanInv'
  <2>1. /\ \A q : Ran(q)' = Ran(q) /\ Needs(q)' = Needs(q) /\ JobQueues(Kind)' = JobQueues(Kind)
        /\ \A q : Retired(q) => Retired(q)'
    BY <1>4, SameRings
  <2>2. backend.phase = "Submitted" =>
          \A q \in (Noted(batch)' \cap Queue) \cup runtime'.complete : Retired(q)
    <3> SUFFICES ASSUME backend.phase = "Submitted"
                 PROVE  \A q \in (Noted(batch)' \cap Queue) \cup runtime'.complete : Retired(q)
      OBVIOUS
    <3>1. /\ Noted(batch)' \subseteq Newly
          /\ runtime'.complete = (IF Awaited \subseteq Sofar THEN {} ELSE Sofar)
      BY <1>2, FlagLayers
    <3>2. \A q \in Sofar : Retired(q)
      BY <1>2, NewlyRetired DEF Known
    <3> QED BY <3>1, <3>2 DEF Sofar
  <2> QED BY <1>1, <1>4, <2>1, <2>2 DEF Known, IInv, RingInv, RanInv
<1>10. RingInv'
  <2>1. RegionInv' /\ ActiveInv' /\ EntryInv' /\ QuiescedInv'
    BY <1>4, RingsKept DEF Known, IInv, RingInv
  <2>2. PointerInv'
    BY <1>1, <1>2, PointersKept DEF Known, IInv, RingInv
  <2> QED BY <1>9, <2>1, <2>2 DEF RingInv
<1>11. ManagerInv'
    BY <1>4, <1>5, ManagerKept DEF Known, IInv
<1>12. HaltInv'
  <2>1. HaltInv
    BY DEF Known, IInv, EventInv
  <2>2. \A i \in Places' : events'[i].kind = "flag" => events'[i].queues # {}
    BY <1>3, <2>1 DEF HaltInv
  <2>3. ASSUME NEW i \in Places', Fault(i)'
        PROVE  /\ firmware'.halted /\ F' > firmware'.dropped
               /\ \E q \in JobQueues(Kind)' : Left(q)' > 0
               /\ \A j \in Places' : Fault(j)' => i = j
    <3>1. i + 1 \in Places /\ Fault(i + 1)
      BY <1>3, <2>3
    <3>2. /\ firmware.halted /\ F > firmware.dropped /\ \E q \in JobQueues(Kind) : Left(q) > 0
          /\ \A j \in Places : Fault(j) => i + 1 = j
      BY <1>2, <2>1, <3>1 DEF HaltInv
    <3>3. \A j \in Places' : i + 1 = j + 1 => i = j
      BY DEF Places
    <3>4. \A q : Left(q)' = Left(q) /\ JobQueues(Kind)' = JobQueues(Kind)
      BY <1>4, SameRings
    <3> QED BY <1>1, <1>3, <1>4, <3>2, <3>3, <3>4
  <2> QED BY <2>2, <2>3 DEF HaltInv
<1>13. FlagInv'
  <2>1. CASE firmware.dropped # 0
    BY <1>1, <2>1 DEF FlagInv, Undropped
  <2>2. CASE firmware.dropped = 0
    BY <1>2, <2>2, FlagFlags
  <2> QED BY <2>1, <2>2
<1>14. EventsAccepted'
    BY <1>1 DEF Known, IInv, EventInv, EventsAccepted
<1> QED BY <1>6, <1>7, <1>8, <1>10, <1>11, <1>12, <1>13, <1>14 DEF IInv, EventInv

-----------------------------------------------------------------------------
(* The firmware.                                                           *)

\* What the firmware may fetch belongs to a dropped job, or is left of the job
\* the backend holds.
LEMMA Fetchable ==
    ASSUME IInv, NEW q \in Queue, Fetching(q)
    PROVE  /\ firmware.running /\ ~firmware.halted /\ firmware.active = "none"
           /\ firmware.done[q] \in Slot /\ firmware.head[q] \in Slot
           /\ backend.expected[q] \in Slot
           /\ Left(q) \in 1 .. Capacity - 1
           /\ Dist(firmware.done[q], firmware.head[q]) \in 1 .. Left(q)
           /\ Fetched(q) = Behind(q, Left(q)) /\ Fetched(q) \in Entry
           /\ firmware.dropped = 0 \/ Fetched(q).fence > firmware.dropped =>
                /\ Fetched(q).fence = F /\ F # 0 /\ F > firmware.dropped
                /\ q \in JobQueues(Kind) /\ OnRings /\ ~Ran(q)
           /\ Fetched(q).fence <= firmware.dropped => Fetched(q).fence # 0
<1>1. /\ firmware.running /\ ~firmware.halted /\ firmware.active = "none"
      /\ firmware.done[q] # firmware.head[q]
    BY DEF Fetching
<1>2. /\ firmware.done[q] \in Slot /\ firmware.head[q] \in Slot
      /\ backend.expected[q] \in Slot /\ ring[q] \in [Slot -> Entry]
    BY DEF IInv, Typed, FirmwareType, BackendType
<1>3. /\ Left(q) \in 0 .. Capacity - 1 /\ Back(backend.expected[q], Left(q)) = firmware.done[q]
      /\ Dist(firmware.done[q], firmware.head[q]) \in 0 .. Capacity - 1
      /\ Dist(firmware.done[q], firmware.head[q]) # 0
    BY <1>1, <1>2, Distances DEF Left
<1>4. Dist(firmware.done[q], firmware.head[q]) <= Left(q)
    BY <1>1 DEF IInv, RingInv, RegionInv
<1>5. /\ Left(q) \in 1 .. Capacity - 1
      /\ Dist(firmware.done[q], firmware.head[q]) \in 1 .. Left(q)
    BY <1>3, <1>4, CapacityAssumption
<1>6. Fetched(q) = Behind(q, Left(q)) /\ Fetched(q) \in Entry
    BY <1>2, <1>3 DEF Fetched, Behind
<1>7. \/ Fetched(q).fence \in 1 .. firmware.dropped
      \/ Fetched(q).fence = F /\ F # 0 /\ q \in JobQueues(Kind)
    BY <1>1, <1>5, <1>6 DEF IInv, RingInv, RegionInv
<1>8. F \in Nat /\ firmware.dropped \in Nat
    BY Fields DEF IInv
<1>9. ASSUME firmware.dropped = 0 \/ Fetched(q).fence > firmware.dropped
      PROVE  /\ Fetched(q).fence = F /\ F # 0 /\ F > firmware.dropped
             /\ q \in JobQueues(Kind) /\ OnRings /\ ~Ran(q)
  <2>1. Fetched(q).fence = F /\ F # 0 /\ F > firmware.dropped /\ q \in JobQueues(Kind)
    BY <1>7, <1>8, <1>9
  <2>2. ~backend.quiesced
    BY <1>1, <1>2, <2>1 DEF IInv, RingInv, QuiescedInv, Fetched
  <2>3. OnRings
    BY <1>1, <2>1, <2>2 DEF OnRings
  <2>4. ~Ran(q)
    <3>1. firmware.active # q /\ Left(q) # 0
      BY <1>1, <1>5 DEF Queue
    <3> QED BY <2>1, <2>3, <3>1 DEF IInv, RingInv, EntryInv
  <2> QED BY <2>1, <2>2, <2>3, <2>4
<1>10. Fetched(q).fence <= firmware.dropped => Fetched(q).fence # 0
    BY <1>7
<1> QED BY <1>1, <1>2, <1>5, <1>6, <1>9, <1>10

\* A completed job is retired on every queue.
LEMMA CompletedRetired ==
    ASSUME IInv, Completed, backend.phase = "Submitted"
    PROVE  \A q \in JobQueues(Kind) : Retired(q)
<1>1. Kind \in {"render", "joined", "compute"}
    BY KindQueues DEF IInv, LayerInv, SubmittedInv, JobInv
<1>2. CASE Kind = "compute"
  <2>1. "compute" \in Noted(batch) \cap Queue
    BY <1>2, NotedOnes DEF Completed, Queue
  <2> QED BY <1>2, <2>1, KindQueues DEF IInv, RingInv, RanInv
<1>3. CASE Kind # "compute"
  <2>1. backend.job.complete \cup Noted(batch) = Counted
    BY <1>3 DEF Completed, Observed
  <2>2. Retired("d3") /\ Retired("ta")
    BY <2>1 DEF Counted, IInv, RingInv, RanInv, Queue
  <2>3. Kind = "joined" => Retired("compute")
    <3>1. Ran("ta") /\ "ta" \in Queue
      BY <2>2 DEF Retired, Queue
    <3>2. Kind = "joined" => "compute" \in Needs("ta")
      BY DEF Needs
    <3> QED BY <3>1, <3>2 DEF IInv, RingInv, RanInv
  <2> QED BY <1>1, <1>3, <2>2, <2>3, KindQueues
<1> QED BY <1>2, <1>3

\* While something of the job is left on a queue the layers hold the job.
LEMMA HeldWhileLeft ==
    ASSUME IInv, Busy, firmware.running, F > firmware.dropped,
           NEW q \in JobQueues(Kind), Left(q) > 0
    PROVE  /\ ~(Free /\ todo = <<>>)
           /\ q \notin backend.job.complete
           /\ backend.phase = "Submitted" => q \notin runtime.complete
           /\ firmware.dropped = 0 => q \notin runtime.complete
<1>1. F # 0 /\ backend.job # NoJob
    BY Fields DEF IInv, JobInv, F, NoJob
<1>2. ~Retired(q)
    BY DEF Retired
<1>3. ~(Free /\ todo = <<>>)
  <2> SUFFICES ASSUME Free, todo = <<>> PROVE FALSE
    OBVIOUS
  <2>1. backend.phase = "Submitted"
    BY <1>1 DEF IInv, LayerInv, ReadyInv, Busy
  <2>2. Completed
    BY <2>1, Fields DEF IInv, LayerInv, SubmittedInv, InFlight, Dropped, Faulting, FaultSeen, Free
  <2> QED BY <1>2, <2>1, <2>2, CompletedRetired
<1>4. q \notin backend.job.complete
    BY <1>2 DEF IInv, RingInv, RanInv
<1>5. backend.phase = "Submitted" => q \notin runtime.complete
    BY <1>2 DEF IInv, RingInv, RanInv
<1>6. firmware.dropped = 0 => q \notin runtime.complete
  <2>1. backend.phase = "Ready" /\ todo # <<>> => runtime.complete = {}
    BY DEF IInv, LayerInv, SubmittingInv
  <2>2. backend.phase = "Ready" => todo # <<>>
    BY <1>1 DEF IInv, LayerInv, ReadyInv
  <2> QED BY <1>5, <2>1, <2>2 DEF Busy
<1> QED BY <1>3, <1>4, <1>5, <1>6

\* An event is added to the ring.
LEMMA EventsAppend ==
    ASSUME events \in Seq(Event), NEW e \in Event, events' = Append(events, e)
    PROVE  /\ events' \in Seq(Event) /\ Len(events') = Len(events) + 1
           /\ Len(events) + 1 \in Places' /\ events'[Len(events) + 1] = e
           /\ \A i \in Places : /\ i \in Places' /\ events'[i] = events[i] /\ i < Len(events) + 1
                                /\ (Fault(i)' <=> Fault(i)) /\ \A q : Flag(i, q)' <=> Flag(i, q)
           /\ \A i \in Places' : i \in Places \/ i = Len(events) + 1
<1>1. /\ events' \in Seq(Event) /\ Len(events') = Len(events) + 1 /\ Len(events) \in Nat
      /\ events'[Len(events) + 1] = e
      /\ \A i \in 1 .. Len(events) : events'[i] = events[i]
    OBVIOUS
<1>2. Len(events) + 1 \in Places'
    BY <1>1 DEF Places
<1>3. \A i \in Places : i \in Places' /\ events'[i] = events[i] /\ i < Len(events) + 1
    BY <1>1 DEF Places
<1>4. \A i \in Places' : i \in Places \/ i = Len(events) + 1
    BY <1>1 DEF Places
<1> QED BY <1>1, <1>2, <1>3, <1>4 DEF Fault, Flag

\* No fault is in the ring while the firmware goes on.
LEMMA NoFault ==
    ASSUME IInv, firmware.running, Busy, ~firmware.halted
    PROVE  \A i \in Places : ~Fault(i)
    BY DEF IInv, EventInv, HaltInv

\* The firmware reports something and leaves the rings alone.
LEMMA Posted ==
    ASSUME IInv, NEW e \in Event, events' = Append(events, e),
           UNCHANGED <<backend, provider, runtime, written, ring, todo, batch, window>>,
           firmware' \in FirmwareType, jobs' \in JobsType,
           firmware'.running = firmware.running, firmware'.active = firmware.active,
           firmware'.done = firmware.done, firmware'.head = firmware.head,
           firmware'.dropped = firmware.dropped, firmware'.init = firmware.init,
           firmware'.blind = firmware.blind,
           firmware'.halted => firmware.halted \/ firmware.active = "none",
           jobs'.last = jobs.last, jobs'.ran = jobs.ran, jobs'.kind = jobs.kind,
           jobs'.verdict = jobs.verdict, jobs'.rejected = jobs.rejected
    PROVE  /\ Typed' /\ JobInv' /\ LayerInv' /\ RingInv' /\ ManagerInv' /\ EventsAccepted'
           /\ F' = F /\ Kind' = Kind /\ Busy' = Busy /\ Free' = Free
           /\ \A q : Left(q)' = Left(q) /\ Ran(q)' = Ran(q)
<1>1. F' = F /\ Kind' = Kind /\ Busy' = Busy /\ Free' = Free /\ Terminated' = Terminated
    BY DEF F, Kind, Busy, Free, Terminated
<1>2. Typed'
  <2>1. events' \in Seq(Event) /\ Len(events') = Len(events) + 1 /\ Len(events) \in Nat
    BY EventsAppend DEF IInv, Typed
  <2> QED BY <2>1 DEF IInv, Typed
<1>3. JobInv'
    BY <1>1, JobKept DEF IInv
<1>4. LayerInv'
    BY LayersKept DEF IInv
<1>5. /\ \A q : Left(q)' = Left(q) /\ Ran(q)' = Ran(q) /\ Needs(q)' = Needs(q)
      /\ \A q, k : Behind(q, k)' = Behind(q, k)
    BY <1>1 DEF Left, Dist, Ran, Needs, Behind, Back
<1>6. \A q : Retired(q)' = Retired(q)
    BY <1>1, <1>5 DEF Retired
<1>7. RingInv'
  <2>1. PointerInv'
    BY <1>1, PointersKept DEF IInv, RingInv
  <2>2. RegionInv'
    <3>1. \A q : Dist(firmware.done[q], firmware.head[q])' = Dist(firmware.done[q], firmware.head[q])
      BY DEF Dist
    <3> QED BY <1>1, <1>5, <3>1 DEF IInv, RingInv, RegionInv
  <2>3. ActiveInv'
    BY <1>1, <1>5 DEF IInv, RingInv, ActiveInv
  <2>4. EntryInv'
    BY <1>1, <1>5, <1>6 DEF IInv, RingInv, EntryInv, OnRings
  <2>5. RanInv'
    BY <1>1, <1>5, <1>6 DEF IInv, RingInv, RanInv, Noted
  <2>6. QuiescedInv'
    BY <1>1 DEF IInv, RingInv, QuiescedInv
  <2> QED BY <2>1, <2>2, <2>3, <2>4, <2>5, <2>6 DEF RingInv
<1>8. ManagerInv'
    BY <1>1, <1>5 DEF IInv, ManagerInv, Initialising
<1>9. EventsAccepted'
    BY DEF IInv, EventInv, EventsAccepted
<1> QED BY <1>1, <1>2, <1>3, <1>4, <1>5, <1>7, <1>8, <1>9

\* A Flag event with the queues that finished.
LEMMA FwPostKeeps ==
    ASSUME Known, FwPost
    PROVE  IInv'
<1>a. PICK e : e = [kind |-> "flag", queues |-> firmware.raised]
    OBVIOUS
<1>b. PICK n : n = Len(events) + 1
    OBVIOUS
<1>1. /\ UNCHANGED <<backend, provider, runtime, written, ring, todo, batch, window, jobs>>
      /\ firmware.running /\ ~firmware.halted /\ firmware.raised # {}
      /\ events' = Append(events, e) /\ firmware' = [firmware EXCEPT !.raised = {}]
    BY <1>a DEF FwPost
<1>2. e \in Event /\ e.kind = "flag" /\ e.queues = firmware.raised
    BY <1>a DEF Event, Known, IInv, Typed, FirmwareType
<1>3. /\ firmware' \in FirmwareType /\ firmware'.raised = {}
      /\ firmware'.running = firmware.running /\ firmware'.active = firmware.active
      /\ firmware'.done = firmware.done /\ firmware'.head = firmware.head
      /\ firmware'.dropped = firmware.dropped /\ firmware'.init = firmware.init
      /\ firmware'.blind = firmware.blind /\ firmware'.halted = firmware.halted
      /\ firmware'.stamp = firmware.stamp
    BY <1>1 DEF Known, IInv, Typed, FirmwareType
<1>4. /\ Typed' /\ JobInv' /\ LayerInv' /\ RingInv' /\ ManagerInv' /\ EventsAccepted'
      /\ F' = F /\ Kind' = Kind /\ Busy' = Busy /\ Free' = Free
      /\ \A q : Left(q)' = Left(q) /\ Ran(q)' = Ran(q)
  <2>1. jobs' = jobs /\ jobs \in JobsType
    BY <1>1 DEF Known, IInv, Typed
  <2> QED BY <1>1, <1>2, <1>3, <2>1, Posted DEF Known
<1>5. /\ n \in Places' /\ events'[n] = e
      /\ \A i \in Places : /\ i \in Places' /\ events'[i] = events[i] /\ i < n
                           /\ (Fault(i)' <=> Fault(i)) /\ \A q : Flag(i, q)' <=> Flag(i, q)
      /\ \A i \in Places' : i \in Places \/ i = n
      /\ n \in Nat /\ Places \subseteq Nat
  <2>1. events \in Seq(Event) /\ Len(events) \in Nat
    BY Fields DEF Known, IInv
  <2> QED BY <1>b, <1>1, <1>2, <2>1, EventsAppend DEF Places
<1>6. ~Fault(n)' /\ (\A q : Flag(n, q)' <=> q \in firmware.raised) /\ events'[n].kind # "grow"
    BY <1>2, <1>5 DEF Fault, Flag
<1>7. HaltInv'
  <2>1. \A i \in Places' : events'[i].kind = "flag" => events'[i].queues # {}
    BY <1>1, <1>2, <1>5 DEF Known, IInv, EventInv, HaltInv
  <2>2. \A i \in Places' : Fault(i)' => i \in Places /\ Fault(i)
    BY <1>5, <1>6
  <2> QED BY <1>3, <1>4, <2>1, <2>2 DEF Known, IInv, EventInv, HaltInv
<1>8. ASSUME Undropped' PROVE FlagInv'
  <2>1. Undropped /\ FlagInv
    BY <1>3, <1>4, <1>8 DEF Undropped, Known, IInv, EventInv
  <2>2. ~(Free /\ todo = <<>>)' /\ ~(Free /\ todo = <<>>)
    BY <1>1, <1>4, <2>1 DEF FlagInv
  <2>3. runtime' = runtime /\ JobQueues(Kind)' = JobQueues(Kind)
    BY <1>1, <1>4
  <2>4. \A q \in Queue : (q \in firmware'.raised \/ \E i \in Places' : Flag(i, q)') =>
          q \in JobQueues(Kind) /\ Ran(q) /\ firmware.active # q /\ q \notin runtime.complete
    BY <1>3, <1>5, <1>6, <2>1 DEF FlagInv
  <2>5. \A q \in Queue : \A i, j \in Places' :
          Flag(i, q)' => q \notin firmware'.raised /\ (Flag(j, q)' => i = j)
    BY <1>3, <1>5, <1>6, <2>1 DEF FlagInv
  <2>6. \A q \in JobQueues(Kind) : Ran(q) =>
             \/ firmware.active = q \/ q \in runtime.complete
             \/ \E i \in Places' : Flag(i, q)'
    BY <1>5, <1>6, <2>1, <2>2 DEF FlagInv
  <2>7. \A i, j \in Places' : Flag(i, "ta")' =>
             "compute" \notin firmware'.raised /\ (Flag(j, "compute")' => j <= i)
    <3> SUFFICES ASSUME NEW i \in Places', NEW j \in Places', Flag(i, "ta")', Flag(j, "compute")'
                 PROVE  j <= i
      BY <1>3
    <3>1. CASE i = n
      BY <1>5, <3>1
    <3>2. CASE i \in Places /\ j = n
      <4>1. Flag(i, "ta")
        BY <1>5, <3>2
      <4>2. "compute" \in firmware.raised
        BY <1>6, <3>2
      <4> QED BY <2>1, <3>2, <4>1, <4>2 DEF FlagInv
    <3>3. CASE i \in Places /\ j \in Places
      <4>1. Flag(i, "ta") /\ Flag(j, "compute")
        BY <1>5, <3>3
      <4> QED BY <2>1, <3>3, <4>1 DEF FlagInv
    <3> QED BY <1>5, <3>1, <3>2, <3>3
  <2>8. \A i, j \in Places' : events'[i].kind = "grow" =>
             /\ "ta" \in JobQueues(Kind) /\ "ta" \notin runtime.complete
             /\ Flag(j, "ta")' => i < j
    BY <1>5, <1>6, <2>1 DEF FlagInv
  <2>9. /\ \A q \in JobQueues(Kind) : Ran(q) => firmware'.stamp[q] = F % StampModulus
        /\ Kind = "joined" /\ "ta" \in runtime.complete => "compute" \in runtime.complete
    BY <1>3, <2>1 DEF FlagInv
  <2> QED BY <1>1, <1>3, <1>4, <2>2, <2>3, <2>4, <2>5, <2>6, <2>7, <2>8, <2>9 DEF FlagInv
<1>9. FlagInv'
    BY <1>8 DEF FlagInv
<1> QED BY <1>4, <1>7, <1>9 DEF IInv, EventInv

\* The firmware asks for more room while it has TA work to perform.
LEMMA FwGrowKeeps ==
    ASSUME Known, FwGrow
    PROVE  IInv'
<1>a. PICK e : e = [kind |-> "grow", queues |-> {}]
    OBVIOUS
<1>1. /\ UNCHANGED <<backend, provider, runtime, written, ring, todo, batch, window,
                     firmware, jobs>>
      /\ Fetching("ta") /\ events = <<>> /\ Fetched("ta").work = "work" /\ events' = <<e>>
    BY <1>a DEF FwGrow
<1>2. e \in Event /\ e.kind = "grow"
    BY <1>a DEF Event
<1>3. events' = Append(events, e) /\ Places' = {1} /\ events'[1] = e /\ Places = {}
    BY <1>1 DEF Places
<1>4. /\ Typed' /\ JobInv' /\ LayerInv' /\ RingInv' /\ ManagerInv' /\ EventsAccepted'
      /\ F' = F /\ Kind' = Kind /\ Busy' = Busy /\ Free' = Free
      /\ \A q : Left(q)' = Left(q) /\ Ran(q)' = Ran(q)
  <2>1. firmware \in FirmwareType /\ jobs \in JobsType
    BY DEF Known, IInv, Typed
  <2> QED BY <1>1, <1>2, <1>3, <2>1, Posted DEF Known
<1>5. \A i \in Places' : ~Fault(i)' /\ \A q : ~Flag(i, q)'
    BY <1>2, <1>3 DEF Fault, Flag
<1>6. HaltInv'
    BY <1>2, <1>3, <1>5 DEF HaltInv
<1>7. ASSUME Undropped' PROVE FlagInv'
  <2>1. Undropped /\ FlagInv
    BY <1>1, <1>4, <1>7 DEF Undropped, Known, IInv, EventInv
  <2>2. /\ Fetched("ta").fence = F /\ F # 0 /\ F > firmware.dropped
        /\ "ta" \in JobQueues(Kind) /\ Left("ta") > 0
    BY <1>1, <2>1, Fetchable DEF Queue, Known, Undropped
  <2>3. ~(Free /\ todo = <<>>) /\ "ta" \notin runtime.complete
    BY <2>1, <2>2, HeldWhileLeft DEF Known, Undropped
  <2>4. ~(Free /\ todo = <<>>)' /\ runtime' = runtime /\ JobQueues(Kind)' = JobQueues(Kind)
    BY <1>1, <1>4, <2>3
  <2>5. \A q \in JobQueues(Kind) : Ran(q) =>
             firmware.active = q \/ q \in firmware.raised \/ q \in runtime.complete
    BY <1>3, <2>1, <2>3 DEF FlagInv
  <2>6. /\ \A q \in Queue : q \in firmware.raised =>
             q \in JobQueues(Kind) /\ Ran(q) /\ firmware.active # q /\ q \notin runtime.complete
        /\ \A q \in JobQueues(Kind) : Ran(q) => firmware.stamp[q] = F % StampModulus
        /\ Kind = "joined" /\ "ta" \in runtime.complete => "compute" \in runtime.complete
    BY <2>1 DEF FlagInv
  <2> QED BY <1>1, <1>4, <1>5, <2>2, <2>3, <2>4, <2>5, <2>6 DEF FlagInv
<1>8. FlagInv'
    BY <1>7 DEF FlagInv
<1> QED BY <1>4, <1>6, <1>8 DEF IInv, EventInv

\* The work faults: the firmware halts and says so.
LEMMA FwFaultKeeps ==
    ASSUME Known, FwFault
    PROVE  IInv'
<1>a. PICK e : e = [kind |-> "fault", queues |-> {}]
    OBVIOUS
<1>b. PICK n : n = Len(events) + 1
    OBVIOUS
<1>1. /\ UNCHANGED <<backend, provider, runtime, written, ring, todo, batch, window>>
      /\ jobs.faults < MaxFaults /\ jobs' = [jobs EXCEPT !.faults = @ + 1]
      /\ events' = Append(events, e) /\ firmware' = [firmware EXCEPT !.halted = TRUE]
    BY <1>a DEF FwFault
<1>c. PICK p \in Queue : Fetching(p) /\ Fetched(p).fence > firmware.dropped
    BY DEF FwFault
<1>d. /\ firmware.running /\ ~firmware.halted /\ firmware.active = "none"
      /\ Fetched(p).fence = F /\ F # 0 /\ F > firmware.dropped
      /\ p \in JobQueues(Kind) /\ Left(p) > 0
    BY <1>c, Fetchable DEF Known
<1>2. e \in Event /\ e.kind = "fault"
    BY <1>a DEF Event
<1>3. /\ firmware' \in FirmwareType /\ firmware'.raised = firmware.raised
      /\ firmware'.running = firmware.running /\ firmware'.active = firmware.active
      /\ firmware'.done = firmware.done /\ firmware'.head = firmware.head
      /\ firmware'.dropped = firmware.dropped /\ firmware'.init = firmware.init
      /\ firmware'.blind = firmware.blind /\ firmware'.halted
      /\ firmware'.stamp = firmware.stamp
    BY <1>1 DEF Known, IInv, Typed, FirmwareType
<1>4. /\ jobs' \in JobsType /\ jobs'.last = jobs.last /\ jobs'.ran = jobs.ran
      /\ jobs'.kind = jobs.kind /\ jobs'.verdict = jobs.verdict
      /\ jobs'.rejected = jobs.rejected
  <2>1. jobs \in JobsType
    BY DEF Known, IInv, Typed
  <2>2. PICK m \in 0 .. MaxFaults : m = jobs.faults + 1
    BY <1>1, <2>1, BoundAssumption DEF JobsType
  <2>3. jobs' = [jobs EXCEPT !.faults = m]
    BY <1>1, <2>2
  <2> QED BY <2>1, <2>3 DEF JobsType
<1>5. /\ Typed' /\ JobInv' /\ LayerInv' /\ RingInv' /\ ManagerInv' /\ EventsAccepted'
      /\ F' = F /\ Kind' = Kind /\ Busy' = Busy /\ Free' = Free
      /\ \A q : Left(q)' = Left(q) /\ Ran(q)' = Ran(q)
    BY <1>1, <1>2, <1>3, <1>4, <1>d, Posted DEF Known
<1>6. /\ n \in Places' /\ events'[n] = e
      /\ \A i \in Places : /\ i \in Places' /\ events'[i] = events[i] /\ i < n
                           /\ (Fault(i)' <=> Fault(i)) /\ \A q : Flag(i, q)' <=> Flag(i, q)
      /\ \A i \in Places' : i \in Places \/ i = n
      /\ n \in Nat /\ Places \subseteq Nat
  <2>1. events \in Seq(Event) /\ Len(events) \in Nat
    BY Fields DEF Known, IInv
  <2> QED BY <1>b, <1>1, <1>2, <2>1, EventsAppend DEF Places
<1>7. (\A q : ~Flag(n, q)') /\ events'[n].kind \notin {"grow", "flag"}
    BY <1>2, <1>6 DEF Flag
<1>8. HaltInv'
  <2>1. \A i \in Places' : events'[i].kind = "flag" => events'[i].queues # {}
    BY <1>6, <1>7 DEF Known, IInv, EventInv, HaltInv
  <2>2. Busy => \A i \in Places' : Fault(i)' => i = n
    BY <1>6, <1>d, NoFault DEF Known
  <2> QED BY <1>3, <1>5, <1>d, <2>1, <2>2 DEF HaltInv
<1>9. ASSUME Undropped' PROVE FlagInv'
  <2>1. Undropped /\ FlagInv
    BY <1>3, <1>5, <1>9 DEF Undropped, Known, IInv, EventInv
  <2>2. ~(Free /\ todo = <<>>)
    BY <1>d, <2>1, HeldWhileLeft DEF Known, Undropped
  <2>3. ~(Free /\ todo = <<>>)' /\ runtime' = runtime /\ JobQueues(Kind)' = JobQueues(Kind)
    BY <1>1, <1>5, <2>2
  <2>4. \A i \in Places' : \A q : Flag(i, q)' => i \in Places /\ Flag(i, q)
    BY <1>6, <1>7
  <2>5. \A q \in Queue : (q \in firmware'.raised \/ \E i \in Places' : Flag(i, q)') =>
          q \in JobQueues(Kind) /\ Ran(q) /\ firmware.active # q /\ q \notin runtime.complete
    BY <1>3, <2>1, <2>4 DEF FlagInv
  <2>6. \A q \in Queue : \A i, j \in Places' :
          Flag(i, q)' => q \notin firmware'.raised /\ (Flag(j, q)' => i = j)
    BY <1>3, <2>1, <2>4 DEF FlagInv
  <2>7. \A q \in JobQueues(Kind) : Ran(q) =>
             \/ firmware.active = q \/ q \in firmware'.raised \/ q \in runtime.complete
             \/ \E i \in Places' : Flag(i, q)'
    BY <1>3, <1>6, <2>1, <2>2 DEF FlagInv
  <2>8. \A i, j \in Places' : Flag(i, "ta")' =>
             "compute" \notin firmware'.raised /\ (Flag(j, "compute")' => j <= i)
    BY <1>3, <2>1, <2>4 DEF FlagInv
  <2>9. \A i, j \in Places' : events'[i].kind = "grow" =>
             /\ "ta" \in JobQueues(Kind) /\ "ta" \notin runtime.complete
             /\ Flag(j, "ta")' => i < j
    BY <1>6, <1>7, <2>1, <2>4 DEF FlagInv
  <2>10. /\ \A q \in JobQueues(Kind) : Ran(q) => firmware'.stamp[q] = F % StampModulus
         /\ Kind = "joined" /\ "ta" \in runtime.complete => "compute" \in runtime.complete
    BY <1>3, <2>1 DEF FlagInv
  <2> QED BY <1>3, <1>5, <2>3, <2>5, <2>6, <2>7, <2>8, <2>9, <2>10 DEF FlagInv
<1>10. FlagInv'
    BY <1>9 DEF FlagInv
<1> QED BY <1>5, <1>8, <1>10 DEF IInv, EventInv

\* The done pointer of a queue moves on towards the head.
LEMMA Moved ==
    ASSUME IInv, NEW q \in Queue, NEW n \in Nat,
           firmware.running, n <= Dist(firmware.done[q], firmware.head[q]),
           backend' = backend, ring' = ring, firmware'.head = firmware.head,
           firmware'.done = [firmware.done EXCEPT ![q] = Advance(@, n)],
           firmware'.running = firmware.running, firmware'.dropped = firmware.dropped,
           jobs.ran \subseteq jobs'.ran
    PROVE  /\ firmware'.done \in [Queue -> Slot]
           /\ Left(q) \in n .. Capacity - 1 /\ Left(q)' = Left(q) - n
           /\ Dist(firmware.done[q], firmware.head[q])'
                = Dist(firmware.done[q], firmware.head[q]) - n
           /\ \A x \in Queue \ {q} : firmware'.done[x] = firmware.done[x] /\ Left(x)' = Left(x)
           /\ \A x, k : Behind(x, k)' = Behind(x, k)
           /\ F' = F /\ Kind' = Kind /\ Terminated' = Terminated /\ Busy' = Busy
           /\ \A x : Needs(x)' = Needs(x) /\ (Ran(x) => Ran(x)')
           /\ \A x \in Queue : Retired(x) => Retired(x)'
           /\ RegionInv'
<1>1. F' = F /\ Kind' = Kind /\ Terminated' = Terminated /\ Busy' = Busy
    BY DEF F, Kind, Terminated, Busy
<1>2. /\ firmware.done \in [Queue -> Slot] /\ firmware.head \in [Queue -> Slot]
      /\ backend.expected \in [Queue -> Slot]
    BY DEF IInv, Typed, FirmwareType, BackendType
<1>3. /\ Left(q) \in 0 .. Capacity - 1
      /\ Dist(firmware.done[q], firmware.head[q]) \in 0 .. Capacity - 1
    BY <1>2, Distances DEF Left
<1>4. Dist(firmware.done[q], firmware.head[q]) <= Left(q)
    BY DEF IInv, RingInv, RegionInv
<1>5. n < Capacity /\ n <= Left(q) /\ Capacity \in Nat
    BY <1>3, <1>4, CapacityAssumption
<1>6. Advance(firmware.done[q], n) \in Slot
    BY <1>2, <1>5, Advances
<1>7. /\ firmware'.done \in [Queue -> Slot]
      /\ firmware'.done[q] = Advance(firmware.done[q], n)
      /\ \A x \in Queue \ {q} : firmware'.done[x] = firmware.done[x]
    BY <1>2, <1>6
<1>8. Left(q)' = Left(q) - n
  <2>1. Dist(Advance(firmware.done[q], n), backend.expected[q])
          = Dist(firmware.done[q], backend.expected[q]) - n
    BY <1>2, <1>5, Nearer DEF Left
  <2>2. Left(q)' = Dist(Advance(firmware.done[q], n), backend.expected[q])
    BY <1>7 DEF Left, Dist
  <2> QED BY <2>1, <2>2 DEF Left
<1>9. Dist(firmware.done[q], firmware.head[q])' = Dist(firmware.done[q], firmware.head[q]) - n
  <2>1. Dist(Advance(firmware.done[q], n), firmware.head[q])
          = Dist(firmware.done[q], firmware.head[q]) - n
    BY <1>2, Nearer
  <2>2. Dist(firmware.done[q], firmware.head[q])'
          = Dist(Advance(firmware.done[q], n), firmware.head[q])
    BY <1>7 DEF Dist
  <2> QED BY <2>1, <2>2
<1>10. \A x \in Queue \ {q} : /\ Left(x)' = Left(x)
                              /\ Dist(firmware.done[x], firmware.head[x])'
                                   = Dist(firmware.done[x], firmware.head[x])
    BY <1>7 DEF Left, Dist
<1>11. \A x, k : Behind(x, k)' = Behind(x, k)
    BY DEF Behind, Back
<1>12. \A x : Needs(x)' = Needs(x) /\ (Ran(x) => Ran(x)')
    BY <1>1 DEF Needs, Ran
<1>13. \A x \in Queue : Retired(x) => Retired(x)'
  <2> SUFFICES ASSUME NEW x \in Queue, Retired(x) PROVE Retired(x)'
    OBVIOUS
  <2>1. CASE x # q
    BY <1>1, <1>10, <1>12, <2>1 DEF Retired
  <2>2. CASE x = q
    <3>1. Left(q) = 0 => Left(q)' = 0
      BY <1>3, <1>5, <1>8
    <3> QED BY <1>1, <1>12, <2>2, <3>1 DEF Retired
  <2> QED BY <2>1, <2>2
<1>14. RegionInv'
  <2>1. JobQueues(Kind)' = JobQueues(Kind)
    BY <1>1
  <2>2. \A x \in Queue : 1 .. Left(x)' \subseteq 1 .. Left(x)
    BY <1>3, <1>5, <1>8, <1>10
  <2>3. \A x \in Queue : Dist(firmware.done[x], firmware.head[x])' <= Left(x)'
    <3>1. Dist(firmware.done[q], firmware.head[q])' <= Left(q)'
      BY <1>3, <1>4, <1>5, <1>8, <1>9
    <3> QED BY <1>10, <3>1 DEF IInv, RingInv, RegionInv
  <2> QED BY <1>1, <1>11, <2>1, <2>2, <2>3 DEF IInv, RingInv, RegionInv
<1>15. Left(q) \in n .. Capacity - 1
    BY <1>3, <1>5
<1> QED BY <1>1, <1>7, <1>8, <1>9, <1>10, <1>11, <1>12, <1>13, <1>14, <1>15

\* What a step of the firmware on the rings keeps of what the layers know.
LEMMA KnownKept ==
    ASSUME RanInv, QuiescedInv, PointerInv,
           backend' = backend, ring' = ring, runtime' = runtime, batch' = batch, todo' = todo,
           written' = written, firmware'.head = firmware.head,
           firmware'.running = firmware.running, firmware'.dropped = firmware.dropped,
           \A x \in Queue : Retired(x) => Retired(x)',
           \A x \in Queue : Ran(x)' => Ran(x) \/ \A n \in Needs(x) : Retired(n),
           runtime.complete \subseteq Queue, backend.job.complete \subseteq Queue,
           Kind \in Kinds \cup {"none"}
    PROVE  RanInv' /\ QuiescedInv' /\ PointerInv'
<1>1. F' = F /\ Kind' = Kind /\ Terminated' = Terminated /\ \A x : Needs(x)' = Needs(x)
    BY DEF F, Kind, Terminated, Needs
<1>2. /\ \A x : Needs(x) \subseteq Queue
      /\ JobQueues(Kind) \subseteq Queue
  <2>1. Kind \in {"render", "joined", "compute", "none"}
    BY KindQueues
  <2> QED BY <2>1, KindQueues DEF Needs, Queue
<1>3. \A q \in Queue : Ran(q)' => \A n \in Needs(q)' : Retired(n)'
    BY <1>1, <1>2 DEF RanInv
<1>4. \A q \in backend'.job.complete : Retired(q)'
    BY DEF RanInv
<1>5. Terminated' = "success" => \A q \in JobQueues(Kind)' : Retired(q)'
    BY <1>1, <1>2 DEF RanInv
<1>6. Terminated' = "dropped" => F' <= firmware'.dropped
    BY <1>1 DEF RanInv
<1>7. backend'.phase = "Submitted" =>
        \A q \in (Noted(batch)' \cap Queue) \cup runtime'.complete : Retired(q)'
    BY DEF RanInv, Noted
<1>8. QuiescedInv'
    BY <1>1 DEF QuiescedInv
<1>9. PointerInv'
  <2>1. Busy' = Busy
    BY DEF Busy
  <2> QED BY <2>1, PointersKept
<1> QED BY <1>3, <1>4, <1>5, <1>6, <1>7, <1>8, <1>9 DEF RanInv

\* The work that was performed is retired.
LEMMA FwRetireKeeps ==
    ASSUME Known, FwRetire
    PROVE  IInv'
<1>a. PICK q : q = firmware.active
    OBVIOUS
<1>1. /\ UNCHANGED <<backend, provider, runtime, written, ring, todo, batch, window,
                     events, jobs>>
      /\ firmware.running /\ q # "none"
      /\ firmware' = [firmware EXCEPT !.active = "none", !.done[q] = Advance(@, 1),
                                      !.raised = @ \cup {q}]
    BY <1>a DEF FwRetire
<1>2. /\ ~firmware.halted /\ F > firmware.dropped /\ ~backend.quiesced
      /\ q \in JobQueues(Kind) /\ Ran(q) /\ Left(q) = 1
      /\ firmware.done[q] # firmware.head[q]
    BY <1>a, <1>1 DEF Known, IInv, RingInv, ActiveInv
<1>3. /\ q \in Queue /\ firmware.done \in [Queue -> Slot] /\ firmware.head \in [Queue -> Slot]
    BY <1>a, <1>1 DEF Known, IInv, Typed, FirmwareType
<1>4. Dist(firmware.done[q], firmware.head[q]) = 1
  <2>1. Dist(firmware.done[q], firmware.head[q]) \in Nat
    BY <1>3, Distances, CapacityAssumption
  <2>2. Dist(firmware.done[q], firmware.head[q]) # 0
    BY <1>2, <1>3, Distances
  <2>3. Dist(firmware.done[q], firmware.head[q]) <= 1
    BY <1>1, <1>2, <1>3 DEF Known, IInv, RingInv, RegionInv
  <2> QED BY <2>1, <2>2, <2>3
<1>5. /\ firmware'.head = firmware.head /\ firmware'.running = firmware.running
      /\ firmware'.done = [firmware.done EXCEPT ![q] = Advance(@, 1)]
      /\ firmware'.dropped = firmware.dropped /\ firmware'.active = "none"
      /\ firmware'.halted = firmware.halted /\ firmware'.init = firmware.init
      /\ firmware'.blind = firmware.blind /\ firmware'.stamp = firmware.stamp
      /\ firmware'.raised = firmware.raised \cup {q}
    BY <1>1 DEF Known, IInv, Typed, FirmwareType
<1>6. /\ firmware'.done \in [Queue -> Slot] /\ Left(q)' = 0
      /\ \A x \in Queue \ {q} : Left(x)' = Left(x)
      /\ \A x, k : Behind(x, k)' = Behind(x, k)
      /\ F' = F /\ Kind' = Kind /\ Terminated' = Terminated /\ Busy' = Busy
      /\ \A x : Needs(x)' = Needs(x)
      /\ \A x \in Queue : Retired(x) => Retired(x)'
      /\ RegionInv'
  <2>1. 1 \in Nat /\ 1 <= Dist(firmware.done[q], firmware.head[q]) /\ 1 - 1 = 0
    BY <1>4
  <2>2. backend' = backend /\ ring' = ring /\ jobs.ran \subseteq jobs'.ran
    BY <1>1
  <2> HIDE DEF Known
  <2>3. IInv
    BY DEF Known
  <2>4. PICK m \in Nat : m = 1
    OBVIOUS
  <2>5. firmware'.done = [firmware.done EXCEPT ![q] = Advance(@, m)]
    BY <1>5, <2>4
  <2>6. /\ firmware'.done \in [Queue -> Slot] /\ Left(q)' = Left(q) - m
        /\ \A x \in Queue \ {q} : Left(x)' = Left(x)
        /\ \A x, k : Behind(x, k)' = Behind(x, k)
        /\ F' = F /\ Kind' = Kind /\ Terminated' = Terminated /\ Busy' = Busy
        /\ \A x : Needs(x)' = Needs(x)
        /\ \A x \in Queue : Retired(x) => Retired(x)'
        /\ RegionInv'
    BY <1>1, <1>3, <1>5, <2>1, <2>2, <2>3, <2>4, <2>5, Moved
  <2>7. Left(q)' = 0
    BY <1>2, <2>4, <2>6
  <2> QED BY <2>6, <2>7
<1>7. \A x : Ran(x)' = Ran(x)
    BY <1>1, <1>6 DEF Ran
<1>8. firmware' \in FirmwareType
    BY <1>1, <1>3, <1>6 DEF Known, IInv, Typed, FirmwareType
<1>9. Typed'
    BY <1>1, <1>8 DEF Known, IInv, Typed
<1>10. JobInv'
    BY <1>1, <1>5, <1>6, JobKept DEF Known, IInv
<1>11. LayerInv'
    BY <1>1, <1>5, LayersKept DEF Known, IInv
<1>12. Kind \in {"render", "joined", "compute", "none"} /\ JobQueues(Kind) \subseteq Queue
  <2>1. Kind \in {"render", "joined", "compute", "none"}
    BY Fields, KindQueues DEF Known, IInv
  <2> QED BY <2>1, KindQueues DEF Queue
<1>13. RingInv'
  <2>1. RanInv' /\ QuiescedInv' /\ PointerInv'
    BY <1>1, <1>5, <1>6, <1>7, Fields, KnownKept DEF Known, IInv, RingInv
  <2>2. ActiveInv'
    BY <1>5 DEF ActiveInv
  <2>3. EntryInv'
    <3> SUFFICES ASSUME OnRings, NEW x \in JobQueues(Kind)
                 PROVE  /\ Left(x)' = 0 => Ran(x)
                        /\ Ran(x) => Left(x)' = 0
                        /\ Left(x)' > 0 => Behind(x, 1) = [fence |-> F, work |-> "work"]
                        /\ \A k \in 2 .. Left(x)' : Behind(x, k).fence = F => Behind(x, k).work # "work"
                        /\ \A n \in Needs(x) :
                             \/ Retired(n)'
                             \/ \E k \in 2 .. Left(x)' : Behind(x, k) = [fence |-> F, work |-> "barrier"]
      BY <1>1, <1>5, <1>6, <1>7 DEF EntryInv, OnRings
    <3>1. x \in Queue /\ Needs(x) \subseteq Queue
      BY <1>12 DEF Needs, Queue
    <3>2. CASE x = q
      <4>1. 2 .. Left(q) = {} /\ 2 .. 0 = {}
        BY <1>2
      <4> QED BY <1>2, <1>6, <3>1, <3>2, <4>1 DEF Known, IInv, RingInv, EntryInv
    <3>3. CASE x # q
      BY <1>a, <1>6, <3>1, <3>3 DEF Known, IInv, RingInv, EntryInv
    <3> QED BY <3>2, <3>3
  <2> QED BY <1>6, <2>1, <2>2, <2>3 DEF RingInv
<1>14. ManagerInv'
  <2>1. Initialising => Initialising'
    <3>1. CASE q = "ta"
      <4>1. 2 .. Left("ta") = {}
        BY <1>2, <3>1
      <4> QED BY <1>5, <4>1 DEF Initialising
    <3>2. CASE q # "ta"
      <4>1. Left("ta")' = Left("ta")
        BY <1>6, <3>2 DEF Queue
      <4> QED BY <1>5, <1>6, <4>1 DEF Initialising
    <3> QED BY <3>1, <3>2
  <2> QED BY <1>1, <1>5, <1>6, <2>1 DEF Known, IInv, ManagerInv
<1>15. /\ \A i : Fault(i)' <=> Fault(i)
       /\ \A i, x : Flag(i, x)' <=> Flag(i, x)
       /\ Places' = Places
    BY <1>1 DEF Fault, Flag, Places
<1>16. HaltInv'
  <2>1. Busy => \A i \in Places : ~Fault(i)
    BY <1>1, <1>2, NoFault DEF Known
  <2> QED BY <1>1, <1>5, <1>6, <1>15, <2>1 DEF Known, IInv, EventInv, HaltInv
<1>17. ASSUME Undropped' PROVE FlagInv'
  <2>1. Undropped /\ FlagInv
    BY <1>5, <1>6, <1>17 DEF Undropped, Known, IInv, EventInv
  <2>2. ~(Free /\ todo = <<>>) /\ q \notin runtime.complete
    BY <1>2, <2>1, HeldWhileLeft DEF Known, Undropped
  <2>3. ~(Free /\ todo = <<>>)' /\ runtime' = runtime /\ JobQueues(Kind)' = JobQueues(Kind)
    BY <1>1, <1>6, <2>2 DEF Free
  <2>4. \A x \in Queue : (x \in firmware'.raised \/ \E i \in Places : Flag(i, x)) =>
          x \in JobQueues(Kind) /\ Ran(x) /\ firmware'.active # x /\ x \notin runtime.complete
    BY <1>2, <1>5, <2>1, <2>2 DEF FlagInv, Queue
  <2>5. \A i \in Places : ~Flag(i, q)
    BY <1>a, <1>3, <2>1 DEF FlagInv
  <2>6. \A x \in Queue : \A i, j \in Places :
          Flag(i, x) => x \notin firmware'.raised /\ (Flag(j, x) => i = j)
    BY <1>5, <2>1, <2>5 DEF FlagInv
  <2>7. \A x \in JobQueues(Kind) : Ran(x) =>
             \/ x \in firmware'.raised \/ x \in runtime.complete
             \/ \E i \in Places : Flag(i, x)
    BY <1>a, <1>5, <2>1, <2>2 DEF FlagInv
  <2>8. \A i, j \in Places : Flag(i, "ta") =>
             "compute" \notin firmware'.raised /\ (Flag(j, "compute") => j <= i)
    <3>1. ASSUME NEW i \in Places, Flag(i, "ta"), q = "compute" PROVE FALSE
      <4>1. "ta" \in JobQueues(Kind) /\ Ran("ta")
        BY <2>1, <3>1 DEF FlagInv, Queue
      <4>2. "compute" \in JobQueues(Kind)
        BY <1>2, <3>1
      <4>3. Kind = "joined"
        BY <1>12, <4>1, <4>2, KindQueues
      <4>4. "compute" \in Needs("ta")
        BY <4>3 DEF Needs
      <4>5. Retired("compute")
        BY <4>1, <4>4 DEF Known, IInv, RingInv, RanInv, Queue
      <4> QED BY <1>1, <1>2, <3>1, <4>5 DEF Retired
    <3> QED BY <1>5, <2>1, <3>1 DEF FlagInv
  <2>9. /\ \A i, j \in Places : events[i].kind = "grow" =>
             /\ "ta" \in JobQueues(Kind) /\ "ta" \notin runtime.complete
             /\ Flag(j, "ta") => i < j
        /\ \A x \in JobQueues(Kind) : Ran(x) => firmware'.stamp[x] = F % StampModulus
        /\ Kind = "joined" /\ "ta" \in runtime.complete => "compute" \in runtime.complete
    BY <1>5, <2>1 DEF FlagInv
  <2> QED BY <1>1, <1>6, <1>7, <1>15, <2>3, <2>4, <2>6, <2>7, <2>8, <2>9 DEF FlagInv
<1>18. FlagInv'
    BY <1>17 DEF FlagInv
<1>19. EventsAccepted'
    BY <1>1, <1>5 DEF Known, IInv, EventInv, EventsAccepted
<1> QED BY <1>9, <1>10, <1>11, <1>13, <1>14, <1>16, <1>18, <1>19 DEF IInv, EventInv

\* The next entry of a queue is its work: the firmware performs it.
LEMMA WorkKeeps ==
    ASSUME Known, NEW q \in Queue, FwEntry(q), Fetched(q).work = "work"
    PROVE  IInv'
<1>1. /\ UNCHANGED <<backend, provider, runtime, written, ring, todo, batch, window, events>>
      /\ Fetching(q) /\ Fetched(q).fence > firmware.dropped
      /\ firmware' = [firmware EXCEPT
                        !.active = q, !.stamp[q] = Fetched(q).fence % StampModulus,
                        !.blind = @ \/ (q = "ta" /\ ~firmware.init)]
      /\ jobs' = [jobs EXCEPT !.ran = @ \cup {<<Fetched(q).fence, q>>}]
    BY DEF FwEntry
<1>2. /\ firmware.running /\ ~firmware.halted /\ firmware.active = "none"
      /\ Left(q) \in 1 .. Capacity - 1 /\ Fetched(q) = Behind(q, Left(q))
      /\ Fetched(q).fence = F /\ F # 0 /\ F > firmware.dropped
      /\ q \in JobQueues(Kind) /\ OnRings /\ ~Ran(q)
      /\ firmware.done[q] # firmware.head[q] /\ ~backend.quiesced
    BY <1>1, Fetchable DEF Known, Fetching, OnRings
<1>3. Left(q) = 1 /\ 2 .. Left(q) = {}
  <2>1. Left(q) \notin 2 .. Left(q)
    BY <1>2 DEF Known, IInv, RingInv, EntryInv
  <2> QED BY <1>2, <2>1
<1>4. \A n \in Needs(q) : Retired(n)
    BY <1>2, <1>3 DEF Known, IInv, RingInv, EntryInv
<1>5. F \in Fence /\ F % StampModulus \in 0 .. StampModulus - 1
    BY <1>2, Fields, StampAssumption DEF Known, IInv, Fence
<1>6. /\ firmware' \in FirmwareType /\ jobs' \in JobsType
  <2>1. jobs' = [jobs EXCEPT !.ran = @ \cup {<<F, q>>}]
    BY <1>1, <1>2
  <2>2. <<F, q>> \in Fence \X Queue
    BY <1>5
  <2>3. jobs' \in JobsType
    BY <2>1, <2>2 DEF Known, IInv, Typed, JobsType
  <2>4. PICK n \in 0 .. StampModulus - 1 : n = F % StampModulus
    BY <1>5
  <2>5. PICK b \in BOOLEAN : b = (firmware.blind \/ (q = "ta" /\ ~firmware.init))
    OBVIOUS
  <2>6. firmware' = [firmware EXCEPT !.active = q, !.stamp[q] = n, !.blind = b]
    BY <1>1, <1>2, <2>4, <2>5
  <2>7. firmware' \in FirmwareType
    BY <2>6 DEF Known, IInv, Typed, FirmwareType
  <2> QED BY <2>3, <2>7
<1>7. /\ firmware'.head = firmware.head /\ firmware'.running = firmware.running
      /\ firmware'.done = firmware.done
      /\ firmware'.dropped = firmware.dropped /\ firmware'.active = q
      /\ firmware'.halted = firmware.halted /\ firmware'.init = firmware.init
      /\ firmware'.blind = (firmware.blind \/ (q = "ta" /\ ~firmware.init))
      /\ firmware'.stamp = [firmware.stamp EXCEPT ![q] = F % StampModulus]
      /\ firmware'.raised = firmware.raised
      /\ jobs'.last = jobs.last /\ jobs'.ran = jobs.ran \cup {<<F, q>>}
      /\ jobs'.kind = jobs.kind /\ jobs'.verdict = jobs.verdict
      /\ jobs'.rejected = jobs.rejected
    BY <1>1, <1>2 DEF Known, IInv, Typed, FirmwareType, JobsType
<1>8. Typed'
    BY <1>1, <1>6 DEF Known, IInv, Typed
<1>9. F' = F /\ Kind' = Kind /\ Terminated' = Terminated /\ Busy' = Busy /\ Free' = Free
    BY <1>1 DEF F, Kind, Terminated, Busy, Free
<1>10. JobInv'
  <2>1. F <= jobs.last /\ jobs.last \in Nat
    BY <1>2, Fields DEF Known, IInv, JobInv
  <2>2. \A f \in Fence : f > jobs.last => \A x \in Queue : <<f, x>> \notin jobs'.ran
    BY <1>7, <2>1 DEF Known, IInv, JobInv, Fence
  <2> QED BY <1>1, <1>7, <1>9, <2>2 DEF Known, IInv, JobInv
<1>11. LayerInv'
    BY <1>1, <1>7, LayersKept DEF Known, IInv
<1>12. /\ \A x : Left(x)' = Left(x) /\ Needs(x)' = Needs(x)
       /\ \A x : Dist(firmware.done[x], firmware.head[x])' = Dist(firmware.done[x], firmware.head[x])
       /\ \A x, k : Behind(x, k)' = Behind(x, k)
    BY <1>1, <1>7, <1>9 DEF Left, Dist, Behind, Back, Needs
<1>13. Ran(q)' /\ \A x : x # q => (Ran(x)' <=> Ran(x))
    BY <1>7, <1>9 DEF Ran
<1>14. \A x : Retired(x) => Retired(x)'
    BY <1>2, <1>7, <1>9, <1>12, <1>13 DEF Retired
<1>15. Kind \in {"render", "joined", "compute", "none"} /\ JobQueues(Kind) \subseteq Queue
  <2>1. Kind \in {"render", "joined", "compute", "none"}
    BY Fields, KindQueues DEF Known, IInv
  <2> QED BY <2>1, KindQueues DEF Queue
<1>16. RingInv'
  <2>1. RanInv' /\ QuiescedInv' /\ PointerInv'
    BY <1>1, <1>4, <1>7, <1>13, <1>14, Fields, KnownKept DEF Known, IInv, RingInv
  <2>2. RegionInv'
    BY <1>1, <1>7, <1>9, <1>12 DEF Known, IInv, RingInv, RegionInv
  <2>3. ActiveInv'
    BY <1>1, <1>2, <1>3, <1>7, <1>9, <1>12, <1>13 DEF ActiveInv
  <2>4. EntryInv'
    <3> SUFFICES ASSUME OnRings, NEW x \in JobQueues(Kind)
                 PROVE  /\ Left(x) = 0 => Ran(x)'
                        /\ Ran(x)' => Left(x) = 0 \/ q = x
                        /\ Left(x) > 0 => Behind(x, 1) = [fence |-> F, work |-> "work"]
                        /\ \A k \in 2 .. Left(x) : Behind(x, k).fence = F => Behind(x, k).work # "work"
                        /\ \A n \in Needs(x) :
                             \/ Retired(n)'
                             \/ \E k \in 2 .. Left(x) : Behind(x, k) = [fence |-> F, work |-> "barrier"]
      BY <1>1, <1>7, <1>9, <1>12 DEF EntryInv, OnRings
    <3>1. Ran(x) => firmware.active # x
      BY <1>2, <1>15 DEF Queue
    <3> QED BY <1>13, <1>14, <3>1 DEF Known, IInv, RingInv, EntryInv
  <2> QED BY <2>1, <2>2, <2>3, <2>4 DEF RingInv
<1>17. ManagerInv'
  <2>1. Initialising' = Initialising
    BY <1>7, <1>12 DEF Initialising
  <2>2. q = "ta" /\ ~firmware.init => firmware.dropped # 0
    <3> SUFFICES ASSUME q = "ta", firmware.dropped = 0 PROVE firmware.init
      OBVIOUS
    <3>1. Kind # "compute"
      BY <1>2, KindQueues
    <3>2. Initialising
      BY <1>2, <3>1 DEF Known, IInv, ManagerInv
    <3> QED BY <1>3, <3>2 DEF Initialising
  <2> QED BY <1>1, <1>7, <1>9, <2>1, <2>2 DEF Known, IInv, ManagerInv
<1>18. /\ \A i : Fault(i)' <=> Fault(i)
       /\ \A i, x : Flag(i, x)' <=> Flag(i, x)
       /\ Places' = Places
    BY <1>1 DEF Fault, Flag, Places
<1>19. HaltInv'
  <2>1. Busy => \A i \in Places : ~Fault(i)
    BY <1>2, NoFault DEF Known
  <2> QED BY <1>1, <1>7, <1>9, <1>18, <2>1 DEF Known, IInv, EventInv, HaltInv
<1>20. ASSUME Undropped' PROVE FlagInv'
  <2>1. Undropped /\ FlagInv
    BY <1>7, <1>9, <1>20 DEF Undropped, Known, IInv, EventInv
  <2>2. ~(Free /\ todo = <<>>)
    BY <1>2, <1>3, <2>1, HeldWhileLeft DEF Known, Undropped
  <2>3. ~(Free /\ todo = <<>>)' /\ runtime' = runtime /\ JobQueues(Kind)' = JobQueues(Kind)
    BY <1>1, <1>9, <2>2
  <2>4. \A x \in Queue : (x \in firmware'.raised \/ \E i \in Places : Flag(i, x)) =>
          x \in JobQueues(Kind) /\ Ran(x)' /\ firmware'.active # x /\ x \notin runtime.complete
    BY <1>2, <1>7, <1>13, <2>1 DEF FlagInv
  <2>5. \A x \in JobQueues(Kind) : Ran(x)' =>
             \/ firmware'.active = x \/ x \in firmware'.raised \/ x \in runtime.complete
             \/ \E i \in Places : Flag(i, x)
    <3>1. \A x \in JobQueues(Kind) : firmware.active # x
      BY <1>2, <1>15 DEF Queue
    <3> QED BY <1>7, <1>13, <2>1, <2>2, <3>1 DEF FlagInv
  <2>6. \A x \in JobQueues(Kind) : Ran(x)' => firmware'.stamp[x] = F % StampModulus
    <3>1. firmware'.stamp[q] = F % StampModulus
          /\ \A x \in Queue : x # q => firmware'.stamp[x] = firmware.stamp[x]
      BY <1>7 DEF Known, IInv, Typed, FirmwareType
    <3> QED BY <1>13, <1>15, <2>1, <3>1 DEF FlagInv
  <2> QED BY <1>1, <1>7, <1>9, <1>18, <2>1, <2>3, <2>4, <2>5, <2>6 DEF FlagInv
<1>21. FlagInv'
    BY <1>20 DEF FlagInv
<1>22. EventsAccepted'
    BY <1>1, <1>7 DEF Known, IInv, EventInv, EventsAccepted
<1> QED BY <1>8, <1>10, <1>11, <1>16, <1>17, <1>19, <1>21, <1>22 DEF IInv, EventInv

\* The next entry of a queue is a barrier that is open, or an InitBM.
LEMMA SkipKeeps ==
    ASSUME Known, NEW q \in Queue, FwEntry(q), Fetched(q).work # "work"
    PROVE  IInv'
<1>1. /\ UNCHANGED <<backend, provider, runtime, written, ring, todo, batch, window, events, jobs>>
      /\ Fetching(q) /\ Fetched(q).fence > firmware.dropped
      /\ Fetched(q).work = "barrier" => BarrierOpen(q, Fetched(q).fence)
      /\ firmware' = [firmware EXCEPT
                        !.done[q] = Advance(@, 1),
                        !.init = @ \/ Fetched(q).work = "init"]
    BY DEF FwEntry
<1>2. /\ firmware.running /\ ~firmware.halted /\ firmware.active = "none"
      /\ Left(q) \in 1 .. Capacity - 1 /\ Fetched(q) = Behind(q, Left(q))
      /\ Fetched(q).fence = F /\ F # 0 /\ F > firmware.dropped
      /\ q \in JobQueues(Kind) /\ OnRings /\ ~Ran(q)
      /\ Dist(firmware.done[q], firmware.head[q]) \in 1 .. Left(q)
    BY <1>1, Fetchable DEF Known, Fetching, OnRings
<1>3. Left(q) \in 2 .. Capacity - 1
  <2>1. Left(q) = 1 => Fetched(q) = [fence |-> F, work |-> "work"]
    BY <1>2 DEF Known, IInv, RingInv, EntryInv
  <2>2. Left(q) # 1
    BY <1>1, <2>1
  <2> QED BY <1>2, <2>2, CapacityAssumption
<1>4. PICK b \in BOOLEAN : b = (firmware.init \/ Fetched(q).work = "init")
    OBVIOUS
<1>5. /\ firmware'.head = firmware.head /\ firmware'.running = firmware.running
      /\ firmware'.done = [firmware.done EXCEPT ![q] = Advance(@, 1)]
      /\ firmware'.dropped = firmware.dropped /\ firmware'.active = "none"
      /\ firmware'.halted = firmware.halted /\ firmware'.init = b
      /\ firmware'.blind = firmware.blind /\ firmware'.stamp = firmware.stamp
      /\ firmware'.raised = firmware.raised
    BY <1>1, <1>2, <1>4 DEF Known, IInv, Typed, FirmwareType
<1>6. /\ firmware'.done \in [Queue -> Slot] /\ Left(q)' = Left(q) - 1
      /\ \A x \in Queue \ {q} : Left(x)' = Left(x)
      /\ \A x, k : Behind(x, k)' = Behind(x, k)
      /\ F' = F /\ Kind' = Kind /\ Terminated' = Terminated /\ Busy' = Busy
      /\ \A x : Needs(x)' = Needs(x)
      /\ \A x \in Queue : Retired(x) => Retired(x)'
      /\ RegionInv'
  <2>1. backend' = backend /\ ring' = ring /\ jobs.ran \subseteq jobs'.ran
    BY <1>1
  <2>2. PICK m \in Nat : m = 1
    OBVIOUS
  <2>3. /\ firmware'.done = [firmware.done EXCEPT ![q] = Advance(@, m)]
        /\ m <= Dist(firmware.done[q], firmware.head[q])
    BY <1>2, <1>5, <2>2
  <2> HIDE DEF Known
  <2>4. IInv
    BY DEF Known
  <2>5. /\ firmware'.done \in [Queue -> Slot] /\ Left(q)' = Left(q) - m
        /\ \A x \in Queue \ {q} : Left(x)' = Left(x)
        /\ \A x, k : Behind(x, k)' = Behind(x, k)
        /\ F' = F /\ Kind' = Kind /\ Terminated' = Terminated /\ Busy' = Busy
        /\ \A x : Needs(x)' = Needs(x)
        /\ \A x \in Queue : Retired(x) => Retired(x)'
        /\ RegionInv'
    BY <1>2, <1>5, <2>1, <2>3, <2>4, Moved
  <2> QED BY <2>2, <2>5
<1>7. \A x : Ran(x)' = Ran(x)
    BY <1>1, <1>6 DEF Ran
<1>8. firmware' \in FirmwareType
    BY <1>1, <1>4, <1>6 DEF Known, IInv, Typed, FirmwareType
<1>9. Typed'
    BY <1>1, <1>8 DEF Known, IInv, Typed
<1>10. JobInv'
    BY <1>1, <1>5, <1>6, JobKept DEF Known, IInv
<1>11. LayerInv'
    BY <1>1, <1>5, LayersKept DEF Known, IInv
<1>12. Kind \in {"render", "joined", "compute", "none"} /\ JobQueues(Kind) \subseteq Queue
  <2>1. Kind \in {"render", "joined", "compute", "none"}
    BY Fields, KindQueues DEF Known, IInv
  <2> QED BY <2>1, KindQueues DEF Queue
<1>13. Fetched(q).work = "barrier" => \A n \in Needs(q) : Retired(n)
  <2> SUFFICES ASSUME Fetched(q).work = "barrier", NEW n \in Needs(q)
               PROVE  Retired(n)
    OBVIOUS
  <2>1. n \in JobQueues(Kind) /\ n = IF q = "d3" THEN "ta" ELSE "compute"
    BY <1>2, <1>12, KindQueues DEF Needs
  <2>2. Ran(n)
    BY <1>1, <1>2, <2>1 DEF BarrierOpen, Ran
  <2>3. firmware.active # n
    BY <1>2, <1>12, <2>1 DEF Queue
  <2>4. Left(n) = 0
    BY <1>2, <2>1, <2>2, <2>3 DEF Known, IInv, RingInv, EntryInv
  <2> QED BY <2>2, <2>4 DEF Retired
<1>14. RingInv'
  <2>1. RanInv' /\ QuiescedInv' /\ PointerInv'
    BY <1>1, <1>5, <1>6, <1>7, Fields, KnownKept DEF Known, IInv, RingInv
  <2>2. ActiveInv'
    BY <1>5 DEF ActiveInv
  <2>3. EntryInv'
    <3> SUFFICES ASSUME OnRings, NEW x \in JobQueues(Kind)
                 PROVE  /\ Left(x)' = 0 => Ran(x)
                        /\ Ran(x) => Left(x)' = 0
                        /\ Left(x)' > 0 => Behind(x, 1) = [fence |-> F, work |-> "work"]
                        /\ \A k \in 2 .. Left(x)' : Behind(x, k).fence = F => Behind(x, k).work # "work"
                        /\ \A n \in Needs(x) :
                             \/ Retired(n)'
                             \/ \E k \in 2 .. Left(x)' : Behind(x, k) = [fence |-> F, work |-> "barrier"]
      BY <1>1, <1>5, <1>6, <1>7 DEF EntryInv, OnRings
    <3>1. x \in Queue /\ Needs(x) \subseteq Queue /\ firmware.active # x
      BY <1>2, <1>12 DEF Needs, Queue
    <3>2. CASE x = q
      <4>1. Left(q)' \in 1 .. Capacity - 1 /\ Left(q) > 0 /\ 2 .. Left(q)' \subseteq 2 .. Left(q)
        BY <1>3, <1>6, CapacityAssumption
      <4>2. ASSUME NEW n \in Needs(q), ~Retired(n)
            PROVE  \E k \in 2 .. Left(q)' : Behind(q, k) = [fence |-> F, work |-> "barrier"]
        <5>1. PICK k \in 2 .. Left(q) : Behind(q, k) = [fence |-> F, work |-> "barrier"]
          BY <1>2, <4>2 DEF Known, IInv, RingInv, EntryInv
        <5>2. k # Left(q)
          BY <1>2, <1>13, <4>2, <5>1
        <5> QED BY <1>3, <1>6, <5>1, <5>2
      <4>3. Left(q)' # 0 /\ ~Ran(q) /\ \A n \in Needs(q) : Retired(n) => Retired(n)'
        BY <1>2, <1>6, <3>1, <3>2, <4>1
      <4> QED BY <1>2, <3>2, <4>1, <4>2, <4>3 DEF Known, IInv, RingInv, EntryInv
    <3>3. CASE x # q
      BY <1>6, <3>1, <3>3 DEF Known, IInv, RingInv, EntryInv
    <3> QED BY <3>2, <3>3
  <2> QED BY <1>6, <2>1, <2>2, <2>3 DEF RingInv
<1>15. ManagerInv'
  <2>1. Initialising => Initialising'
    <3>1. CASE firmware.init
      BY <1>4, <1>5, <3>1 DEF Initialising
    <3>2. CASE q # "ta" /\ ~firmware.init
      <4>1. Left("ta")' = Left("ta")
        BY <1>6, <3>2 DEF Queue
      <4> QED BY <1>6, <3>2, <4>1 DEF Initialising
    <3>3. CASE q = "ta" /\ ~firmware.init
      <4> SUFFICES ASSUME NEW k \in 2 .. Left("ta"), Behind("ta", k).work = "init"
                   PROVE  Initialising'
        BY <3>3 DEF Initialising
      <4>1. CASE k = Left("ta")
        <5>1. firmware'.init
          BY <1>2, <1>4, <1>5, <3>3, <4>1
        <5> QED BY <5>1 DEF Initialising
      <4>2. CASE k # Left("ta")
        <5>1. k \in 2 .. Left("ta")'
          BY <1>3, <1>6, <3>3, <4>2
        <5> QED BY <1>6, <5>1 DEF Initialising
      <4> QED BY <4>1, <4>2
    <3> QED BY <3>1, <3>2, <3>3
  <2> QED BY <1>1, <1>5, <1>6, <2>1 DEF Known, IInv, ManagerInv
<1>16. /\ \A i : Fault(i)' <=> Fault(i)
       /\ \A i, x : Flag(i, x)' <=> Flag(i, x)
       /\ Places' = Places
    BY <1>1 DEF Fault, Flag, Places
<1>17. HaltInv'
  <2>1. Busy => \A i \in Places : ~Fault(i)
    BY <1>2, NoFault DEF Known
  <2> QED BY <1>1, <1>5, <1>6, <1>16, <2>1 DEF Known, IInv, EventInv, HaltInv
<1>18. ASSUME Undropped' PROVE FlagInv'
  <2>1. Undropped /\ FlagInv /\ Free' = Free /\ todo' = todo /\ runtime' = runtime
    BY <1>1, <1>5, <1>6, <1>18 DEF Undropped, Known, IInv, EventInv, Free
  <2>2. JobQueues(Kind)' = JobQueues(Kind)
    BY <1>6
  <2> QED BY <1>1, <1>2, <1>5, <1>6, <1>7, <1>16, <2>1, <2>2 DEF FlagInv
<1>19. FlagInv'
    BY <1>18 DEF FlagInv
<1>20. EventsAccepted'
    BY <1>1, <1>5 DEF Known, IInv, EventInv, EventsAccepted
<1> QED BY <1>9, <1>10, <1>11, <1>14, <1>15, <1>17, <1>19, <1>20 DEF IInv, EventInv

\* The firmware takes the next entry of a queue.
LEMMA FwEntryKeeps ==
    ASSUME Known, NEW q \in Queue, FwEntry(q)
    PROVE  IInv'
    BY WorkKeeps, SkipKeeps

\* A set that is closed downwards counts up to its cardinality.
LEMMA Prefix ==
    ASSUME NEW d \in Nat, NEW S \in SUBSET (0 .. d - 1),
           \A i \in S : 0 .. i \subseteq S
    PROVE  Cardinality(S) \in 0 .. d /\ S = 0 .. Cardinality(S) - 1
<1>a. ASSUME NEW m \in Nat
      PROVE  IsFiniteSet(0 .. m - 1) /\ Cardinality(0 .. m - 1) = m
    BY FS_Interval
<1>1. IsFiniteSet(0 .. d - 1) /\ Cardinality(0 .. d - 1) = d
    BY <1>a
<1>2. IsFiniteSet(S) /\ Cardinality(S) \in Nat /\ Cardinality(S) <= d
    BY <1>1, FS_Subset, FS_CardinalityType
<1>3. PICK n \in Nat : n = Cardinality(S)
    BY <1>2
<1>4. ASSUME NEW i \in S PROVE i < n
  <2>1. i \in Nat
    OBVIOUS
  <2>2. Cardinality(0 .. i) = i + 1
    BY <2>1, FS_Interval
  <2>3. (0 .. i) \in SUBSET S
    BY <1>4
  <2>4. Cardinality(0 .. i) <= Cardinality(S)
    BY <1>2, <2>3, FS_Subset
  <2> QED BY <1>3, <2>1, <2>2, <2>4
<1>5. S \in SUBSET (0 .. n - 1)
    BY <1>4
<1>6. IsFiniteSet(0 .. n - 1) /\ Cardinality(0 .. n - 1) = n
    BY <1>3, <1>a
<1>7. S = 0 .. n - 1
    BY <1>3, <1>5, <1>6, FS_Subset
<1> QED BY <1>2, <1>3, <1>7

\* What a drop retires: the oldest entries of the queue, each of a dropped job.
LEMMA DropPrefix ==
    ASSUME Known, NEW q \in Queue, FwDrop(q)
    PROVE  \E n \in Nat :
             /\ n <= Dist(firmware.done[q], firmware.head[q])
             /\ firmware' = [firmware EXCEPT !.done[q] = Advance(@, n),
                                             !.stamp[q] = firmware.dropped % StampModulus,
                                             !.raised = @ \cup {q}]
             /\ \A k \in 1 .. Left(q) : k > Left(q) - n => Behind(q, k).fence <= firmware.dropped
<1>a. PICK p : p = firmware.done[q]
    OBVIOUS
<1>b. PICK l : l = Left(q)
    OBVIOUS
<1>c. PICK d : d = Dist(firmware.done[q], firmware.head[q])
    OBVIOUS
<1>1. /\ p \in Slot /\ firmware.head[q] \in Slot /\ backend.expected[q] \in Slot
      /\ l \in 1 .. Capacity - 1 /\ d \in 1 .. l /\ firmware.running
    BY <1>a, <1>b, <1>c, Fetchable DEF Known, FwDrop
<1>2. (firmware.head[q] + Capacity - p) % Capacity = d
  <2>1. PICK x \in Nat : x = firmware.head[q] + Capacity - p
    BY <1>1, CapacityAssumption DEF Slot
  <2>2. x < 2 * Capacity
    BY <1>1, <2>1, CapacityAssumption DEF Slot
  <2>3. x % Capacity = IF x < Capacity THEN x ELSE x - Capacity
    BY <2>2, Wraps
  <2> QED BY <1>a, <1>c, <1>1, <2>1, <2>3, CapacityAssumption DEF Slot, Dist
<1>3. ASSUME NEW i \in 0 .. d - 1
      PROVE  /\ ring[q][Advance(p, i)] = Behind(q, l - i) /\ l - i \in 1 .. l
             /\ i \in Slot
  <2>1. l - i \in 1 .. l /\ l - i \in Nat /\ l \in Nat /\ l - i <= l /\ l < Capacity
        /\ l - i < Capacity /\ l - (l - i) = i /\ i \in Slot
    BY <1>1, CapacityAssumption DEF Slot
  <2>2. Back(Advance(p, l), l - i) = Advance(p, l - (l - i))
    BY <1>1, <2>1, Backs
  <2>3. Advance(p, l) = backend.expected[q]
    BY <1>a, <1>b, <1>1, Distances DEF Left
  <2>4. Back(backend.expected[q], l - i) = Advance(p, i)
    BY <2>1, <2>2, <2>3
  <2> QED BY <2>1, <2>4 DEF Behind
<1> DEFINE S == {i \in 0 .. d - 1 : ring[q][Advance(p, i)].fence <= firmware.dropped}
<1>4. {i \in {i \in Slot : i < (firmware.head[q] + Capacity - p) % Capacity} :
         ring[q][Advance(p, i)].fence <= firmware.dropped} = S
  <2>1. {i \in Slot : i < d} = 0 .. d - 1
    BY <1>1, CapacityAssumption DEF Slot
  <2> QED BY <1>2, <2>1
<1>5. \A i \in S : 0 .. i \subseteq S
  <2> SUFFICES ASSUME NEW i \in S, NEW j \in 0 .. i PROVE j \in S
    OBVIOUS
  <2>1. i \in 0 .. d - 1 /\ j \in 0 .. d - 1
    BY <1>1
  <2>2. CASE j = i
    BY <2>2
  <2>3. CASE j # i
    <3>1. l - i < l - j /\ l - i \in 1 .. l /\ l - j \in 1 .. l
      BY <1>1, <1>3, <2>1, <2>3
    <3>2. Behind(q, l - j).fence <= Behind(q, l - i).fence
      BY <1>b, <1>1, <3>1 DEF Known, IInv, RingInv, RegionInv
    <3>3. Behind(q, l - i).fence <= firmware.dropped
      BY <1>3, <2>1
    <3>4. Behind(q, l - i).fence \in Nat /\ Behind(q, l - j).fence \in Nat /\ firmware.dropped \in Nat
      <4>1. \A k \in 1 .. l : Behind(q, k).fence \in Nat
        <5> SUFFICES ASSUME NEW k \in 1 .. l PROVE Behind(q, k).fence \in Nat
          OBVIOUS
        <5>1. Back(backend.expected[q], k) \in Slot
          BY <1>1, Backs, CapacityAssumption
        <5>2. Behind(q, k) \in Entry
          BY <5>1 DEF Behind, Known, IInv, Typed
        <5> QED BY <5>2, BoundAssumption DEF Entry
      <4> QED BY <3>1, <4>1, Fields DEF Known, IInv
    <3>5. Behind(q, l - j).fence <= firmware.dropped
      BY <3>2, <3>3, <3>4
    <3> QED BY <1>3, <2>1, <3>5
  <2> QED BY <2>2, <2>3
<1>6. PICK n : n = Cardinality(S)
    OBVIOUS
<1>7. n \in 0 .. d /\ S = 0 .. n - 1
  <2>1. d \in Nat /\ S \in SUBSET (0 .. d - 1)
    BY <1>1
  <2> HIDE DEF S
  <2> QED BY <1>5, <1>6, <2>1, Prefix
<1>8. firmware' = [firmware EXCEPT !.done[q] = Advance(@, n),
                                   !.stamp[q] = firmware.dropped % StampModulus,
                                   !.raised = @ \cup {q}]
  <2>1. Cardinality({i \in {i \in Slot : i < (firmware.head[q] + Capacity - p) % Capacity} :
         ring[q][Advance(p, i)].fence <= firmware.dropped}) = n
    BY <1>4, <1>6
  <2> HIDE DEF S
  <2> QED BY <1>a, <2>1 DEF FwDrop
<1>9. ASSUME NEW k \in 1 .. l, k > l - n PROVE Behind(q, k).fence <= firmware.dropped
  <2>1. l - k \in 0 .. n - 1 /\ l - (l - k) = k /\ l - k \in 0 .. d - 1
    BY <1>1, <1>7, <1>9
  <2>2. ring[q][Advance(p, l - k)] = Behind(q, l - (l - k))
    BY <1>3, <2>1
  <2>3. ring[q][Advance(p, l - k)].fence <= firmware.dropped
    BY <1>7, <2>1
  <2> QED BY <2>1, <2>2, <2>3
<1>10. n \in Nat /\ n <= d
    BY <1>1, <1>7
<1> QED BY <1>b, <1>c, <1>8, <1>9, <1>10

\* The entries of a dropped job are retired without being performed.
LEMMA FwDropKeeps ==
    ASSUME Known, NEW q \in Queue, FwDrop(q)
    PROVE  IInv'
<1>1. /\ UNCHANGED <<backend, provider, runtime, written, ring, todo, batch, window, events, jobs>>
      /\ Fetching(q) /\ Fetched(q).fence <= firmware.dropped
    BY DEF FwDrop
<1>2. /\ firmware.running /\ ~firmware.halted /\ firmware.active = "none"
      /\ Left(q) \in 1 .. Capacity - 1 /\ Fetched(q).fence # 0 /\ Fetched(q) \in Entry
    BY <1>1, Fetchable DEF Known
<1>3. firmware.dropped # 0 /\ firmware.dropped \in Nat /\ F \in Nat
    BY <1>1, <1>2, Fields DEF Known, IInv, Entry
<1>4. PICK n \in Nat :
        /\ n <= Dist(firmware.done[q], firmware.head[q])
        /\ firmware' = [firmware EXCEPT !.done[q] = Advance(@, n),
                                        !.stamp[q] = firmware.dropped % StampModulus,
                                        !.raised = @ \cup {q}]
        /\ \A k \in 1 .. Left(q) : k > Left(q) - n => Behind(q, k).fence <= firmware.dropped
    BY DropPrefix
<1>5. /\ firmware'.head = firmware.head /\ firmware'.running = firmware.running
      /\ firmware'.done = [firmware.done EXCEPT ![q] = Advance(@, n)]
      /\ firmware'.dropped = firmware.dropped /\ firmware'.active = "none"
      /\ firmware'.halted = firmware.halted /\ firmware'.init = firmware.init
      /\ firmware'.blind = firmware.blind
    BY <1>2, <1>4 DEF Known, IInv, Typed, FirmwareType
<1>6. /\ firmware'.done \in [Queue -> Slot]
      /\ Left(q) \in n .. Capacity - 1 /\ Left(q)' = Left(q) - n
      /\ \A x \in Queue \ {q} : Left(x)' = Left(x)
      /\ \A x, k : Behind(x, k)' = Behind(x, k)
      /\ F' = F /\ Kind' = Kind /\ Terminated' = Terminated /\ Busy' = Busy
      /\ \A x : Needs(x)' = Needs(x)
      /\ \A x \in Queue : Retired(x) => Retired(x)'
      /\ RegionInv'
  <2>1. backend' = backend /\ ring' = ring /\ jobs.ran \subseteq jobs'.ran
    BY <1>1
  <2> HIDE DEF Known
  <2>2. IInv
    BY DEF Known
  <2> QED BY <1>2, <1>4, <1>5, <2>1, <2>2, Moved
<1>7. \A x : Ran(x)' = Ran(x)
    BY <1>1, <1>6 DEF Ran
<1>8. firmware' \in FirmwareType
  <2>1. PICK s \in 0 .. StampModulus - 1 : s = firmware.dropped % StampModulus
    BY <1>3, StampAssumption
  <2>2. PICK done \in [Queue -> Slot] : done = [firmware.done EXCEPT ![q] = Advance(@, n)]
    BY <1>5, <1>6
  <2>3. firmware' = [firmware EXCEPT !.done = done, !.stamp[q] = s, !.raised = @ \cup {q}]
    BY <1>4, <2>1, <2>2 DEF Known, IInv, Typed, FirmwareType
  <2> QED BY <2>3 DEF Known, IInv, Typed, FirmwareType
<1>9. Typed'
    BY <1>1, <1>8 DEF Known, IInv, Typed
<1>10. JobInv'
    BY <1>1, <1>5, <1>6, JobKept DEF Known, IInv
<1>11. LayerInv'
    BY <1>1, <1>5, LayersKept DEF Known, IInv
<1>12. Kind \in {"render", "joined", "compute", "none"} /\ JobQueues(Kind) \subseteq Queue
  <2>1. Kind \in {"render", "joined", "compute", "none"}
    BY Fields, KindQueues DEF Known, IInv
  <2> QED BY <2>1, KindQueues DEF Queue
<1>13. RingInv'
  <2>1. RanInv' /\ QuiescedInv' /\ PointerInv'
    BY <1>1, <1>5, <1>6, <1>7, Fields, KnownKept DEF Known, IInv, RingInv
  <2>2. ActiveInv'
    BY <1>5 DEF ActiveInv
  <2>3. EntryInv'
    <3> SUFFICES ASSUME OnRings, NEW x \in JobQueues(Kind)
                 PROVE  /\ Left(x)' = 0 => Ran(x)
                        /\ Ran(x) => Left(x)' = 0
                        /\ Left(x)' > 0 => Behind(x, 1) = [fence |-> F, work |-> "work"]
                        /\ \A k \in 2 .. Left(x)' : Behind(x, k).fence = F => Behind(x, k).work # "work"
                        /\ \A m \in Needs(x) :
                             \/ Retired(m)'
                             \/ \E k \in 2 .. Left(x)' : Behind(x, k) = [fence |-> F, work |-> "barrier"]
      BY <1>1, <1>5, <1>6, <1>7 DEF EntryInv, OnRings
    <3>1. x \in Queue /\ Needs(x) \subseteq Queue /\ firmware.active # x
      BY <1>2, <1>12 DEF Needs, Queue
    <3>2. CASE x = q
      <4>1. \A k \in 1 .. Left(q) : Behind(q, k).fence = F => k <= Left(q)'
        <5> SUFFICES ASSUME NEW k \in 1 .. Left(q), Behind(q, k).fence = F
                     PROVE  k <= Left(q) - n
          BY <1>6
        <5>1. ~(k > Left(q) - n)
          BY <1>3, <1>4 DEF OnRings
        <5> QED BY <1>6, <5>1
      <4>2. /\ Behind(q, 1) = [fence |-> F, work |-> "work"] /\ ~Ran(q)
            /\ \A k \in 2 .. Left(q) : Behind(q, k).fence = F => Behind(q, k).work # "work"
            /\ \A m \in Needs(q) :
                 \/ Retired(m)
                 \/ \E k \in 2 .. Left(q) : Behind(q, k) = [fence |-> F, work |-> "barrier"]
        BY <1>2, <3>1, <3>2 DEF Known, IInv, RingInv, EntryInv
      <4>3. Left(q)' >= 1 /\ 2 .. Left(q)' \subseteq 2 .. Left(q)
        <5>1. 1 \in 1 .. Left(q)
          BY <1>2
        <5>2. 1 <= Left(q)'
          BY <4>1, <4>2, <5>1
        <5> QED BY <1>2, <1>6, <5>2
      <4>4. ASSUME NEW k \in 2 .. Left(q), Behind(q, k) = [fence |-> F, work |-> "barrier"]
            PROVE  k \in 2 .. Left(q)'
        <5>1. Behind(q, k).fence = F /\ k \in 1 .. Left(q)
          BY <1>2, <4>4
        <5>2. k <= Left(q)'
          BY <4>1, <5>1
        <5> QED BY <1>2, <1>6, <5>2
      <4>5. \A m \in Needs(q) : Retired(m) => Retired(m)'
        BY <1>6, <3>1, <3>2
      <4> QED BY <1>2, <1>6, <3>2, <4>2, <4>3, <4>4, <4>5
    <3>3. CASE x # q
      BY <1>6, <3>1, <3>3 DEF Known, IInv, RingInv, EntryInv
    <3> QED BY <3>2, <3>3
  <2> QED BY <1>6, <2>1, <2>2, <2>3 DEF RingInv
<1>14. ManagerInv'
    BY <1>3, <1>5 DEF ManagerInv
<1>15. /\ \A i : Fault(i)' <=> Fault(i)
       /\ Places' = Places
    BY <1>1 DEF Fault, Places
<1>16. HaltInv'
  <2>1. Busy => \A i \in Places : ~Fault(i)
    BY <1>2, NoFault DEF Known
  <2> QED BY <1>1, <1>5, <1>6, <1>15, <2>1 DEF Known, IInv, EventInv, HaltInv
<1>17. FlagInv'
    BY <1>3, <1>5 DEF FlagInv, Undropped
<1>18. EventsAccepted'
    BY <1>3, <1>5 DEF EventsAccepted
<1> QED BY <1>9, <1>10, <1>11, <1>13, <1>14, <1>16, <1>17, <1>18 DEF IInv, EventInv

-----------------------------------------------------------------------------
(* A new job.                                                              *)

\* The state in which a job is planned: nothing is left but dropped entries.
LEMMA Between ==
    ASSUME Known, NEW kind, Planned(kind)
    PROVE  /\ kind \in {"render", "joined", "compute"} /\ kind \in Kinds
           /\ backend.phase = "Ready" /\ Busy /\ todo = <<>> /\ window = 0 /\ batch = <<>>
           /\ backend.job = NoJob /\ F = 0 /\ Kind = "none" /\ ~backend.quiesced
           /\ firmware.running /\ Free /\ firmware.active = "none"
           /\ jobs.last + 1 \in Fence /\ firmware.dropped <= jobs.last
           /\ jobs.verdict[jobs.last + 1] = "none"
           /\ \A q \in Queue : <<jobs.last + 1, q>> \notin jobs.ran
           /\ \A q \in Queue : written[q] = backend.expected[q]
           /\ \A q \in Queue : firmware.head[q] = backend.expected[q]
           /\ \A q \in Queue : \A k \in 1 .. Left(q) : Behind(q, k).fence \in 1 .. firmware.dropped
           /\ firmware.dropped = 0 => \A q \in Queue : Left(q) = 0
           /\ firmware.dropped = 0 => events = <<>> /\ firmware.raised = {}
           /\ \A i \in Places : ~Fault(i)
<1>1. /\ backend.phase = "Ready" /\ todo = <<>> /\ window = 0
      /\ jobs.last < MaxFence /\ kind \in Kinds /\ provider.phase = "Created"
    BY DEF Planned
<1>2. /\ backend.job = NoJob /\ ~backend.quiesced /\ batch = <<>> /\ firmware.running
      /\ Free \/ Early
    BY <1>1 DEF Known, IInv, LayerInv, ReadyInv
<1>3. Free
    BY <1>1, <1>2 DEF Early
<1>4. F = 0 /\ Kind = "none" /\ Busy
    BY <1>1, <1>2 DEF F, Kind, NoJob, Busy
<1>5. firmware.dropped \in Nat /\ jobs.last \in Nat /\ MaxFence \in Nat
    BY Fields DEF Known, IInv
<1>6. jobs.last + 1 \in Fence
    BY <1>1, <1>5 DEF Fence
<1>7. jobs.last + 1 > jobs.last
    BY <1>5
<1>8. /\ jobs.verdict[jobs.last + 1] = "none" /\ firmware.dropped <= jobs.last
      /\ \A q \in Queue : <<jobs.last + 1, q>> \notin jobs.ran
    BY <1>6, <1>7 DEF Known, IInv, JobInv
<1>9. firmware.active = "none"
    BY <1>2, <1>4, <1>5 DEF Known, IInv, RingInv, ActiveInv
<1>10. \A q \in Queue : written[q] = backend.expected[q] /\ firmware.head[q] = backend.expected[q]
  <2>1. \A q : ~PublishLeft(q) /\ ~SendLeft(q)
    BY <1>1 DEF PublishLeft, SendLeft
  <2> QED BY <1>2, <1>4, <2>1 DEF Known, IInv, RingInv, PointerInv
<1>11. \A q \in Queue : \A k \in 1 .. Left(q) : Behind(q, k).fence \in 1 .. firmware.dropped
    BY <1>2, <1>4 DEF Known, IInv, RingInv, RegionInv
<1>12. ASSUME firmware.dropped = 0, NEW q \in Queue PROVE Left(q) = 0
  <2>1. Left(q) \in 0 .. Capacity - 1
    <3>1. firmware.done[q] \in Slot /\ backend.expected[q] \in Slot
      BY DEF Known, IInv, Typed, FirmwareType, BackendType
    <3> QED BY <3>1, Distances DEF Left
  <2>2. 1 \notin 1 .. Left(q)
    BY <1>11, <1>12
  <2> QED BY <2>1, <2>2, CapacityAssumption
<1>13. firmware.dropped = 0 => events = <<>> /\ firmware.raised = {}
    BY <1>1, <1>2, <1>3, <1>4 DEF Known, IInv, EventInv, FlagInv, Undropped
<1>14. \A i \in Places : ~Fault(i)
    BY <1>2, <1>4, <1>5 DEF Known, IInv, EventInv, HaltInv
<1>15. kind \in {"render", "joined", "compute"}
    BY <1>1, KindQueues
<1> QED BY <1>1, <1>2, <1>3, <1>4, <1>6, <1>8, <1>9, <1>10, <1>11, <1>12, <1>13, <1>14, <1>15

\* Two sequences, one after the other.
LEMMA Joined ==
    ASSUME NEW T, NEW a \in Seq(T), NEW b \in Seq(T), NEW s, s = a \o b
    PROVE  /\ s \in Seq(T) /\ Len(s) = Len(a) + Len(b)
           /\ \A i \in 1 .. Len(a) : s[i] = a[i]
           /\ \A i \in Nat : i > Len(a) /\ i <= Len(s) => s[i] = b[i - Len(a)]
    BY ConcatProperties

\* What the entries of a job on one queue look like: the work comes last, after
\* the barrier and the InitBM.
Shape(s, kind, q, bm) ==
    /\ s \in Seq({"barrier", "init", "work"}) /\ Len(s) \in 0 .. 3
    /\ q \notin JobQueues(kind) => Len(s) = 0
    /\ q \in JobQueues(kind) =>
         /\ Len(s) > 0 /\ s[Len(s)] = "work"
         /\ \A i \in 1 .. Len(s) - 1 : s[i] # "work"
    /\ q = "d3" /\ kind # "compute" => Len(s) = 2 /\ s[1] = "barrier"
    /\ q = "ta" /\ kind = "joined" => Len(s) > 1 /\ s[1] = "barrier"
    /\ q = "ta" /\ kind # "compute" /\ ~bm => \E i \in 1 .. Len(s) - 1 : s[i] = "init"

\* The entries of a job on one queue.
LEMMA KindEntries ==
    ASSUME NEW kind \in {"render", "joined", "compute"}, NEW q \in Queue, NEW bm \in BOOLEAN,
           NEW s, s = JobEntries(kind, q, bm)
    PROVE  Shape(s, kind, q, bm)
<1>1. CASE q = "d3" /\ kind # "compute"
  <2>1. s = <<"barrier", "work">> /\ q \in JobQueues(kind)
    BY <1>1 DEF JobEntries, JobQueues
  <2>2. s \in Seq({"barrier", "init", "work"}) /\ Len(s) = 2 /\ s[1] = "barrier" /\ s[2] = "work"
    BY <2>1
  <2> QED BY <1>1, <2>1, <2>2 DEF Shape
<1>2. CASE q = "ta" /\ kind # "compute"
  <2>1. PICK a : a = IF kind = "joined" THEN <<"barrier">> ELSE <<>>
    OBVIOUS
  <2>2. PICK b : b = IF bm THEN <<>> ELSE <<"init">>
    OBVIOUS
  <2>3. s = a \o b \o <<"work">> /\ q \in JobQueues(kind)
    BY <1>2, <2>1, <2>2 DEF JobEntries, JobQueues
  <2>4. /\ a \in Seq({"barrier", "init", "work"})
        /\ kind = "joined" => Len(a) = 1 /\ a[1] = "barrier"
        /\ kind # "joined" => Len(a) = 0
    <3>1. CASE kind = "joined"
      <4>1. a = <<"barrier">>
        BY <2>1, <3>1
      <4> QED BY <3>1, <4>1
    <3>2. CASE kind # "joined"
      <4>1. a = <<>>
        BY <2>1, <3>2
      <4> QED BY <3>2, <4>1
    <3> QED BY <3>1, <3>2
  <2>5. /\ b \in Seq({"barrier", "init", "work"})
        /\ ~bm => Len(b) = 1 /\ b[1] = "init"
        /\ bm => Len(b) = 0
    <3>1. CASE ~bm
      <4>1. b = <<"init">>
        BY <2>2, <3>1
      <4> QED BY <3>1, <4>1
    <3>2. CASE bm
      <4>1. b = <<>>
        BY <2>2, <3>2
      <4> QED BY <3>2, <4>1
    <3> QED BY <3>1, <3>2
  <2>6. PICK c : c = a \o b
    OBVIOUS
  <2>7. /\ c \in Seq({"barrier", "init", "work"}) /\ Len(c) = Len(a) + Len(b)
        /\ \A i \in 1 .. Len(a) : c[i] = a[i]
        /\ \A i \in Nat : i > Len(a) /\ i <= Len(c) => c[i] = b[i - Len(a)]
    BY <2>4, <2>5, <2>6, Joined
  <2>8. /\ s \in Seq({"barrier", "init", "work"}) /\ Len(s) = Len(c) + 1
        /\ \A i \in 1 .. Len(c) : s[i] = c[i]
        /\ s[Len(c) + 1] = "work"
    <3>1. PICK w : w = <<"work">>
      OBVIOUS
    <3>2. w \in Seq({"barrier", "init", "work"}) /\ Len(w) = 1 /\ w[1] = "work"
      BY <3>1
    <3>3. s = c \o w /\ Len(c) \in Nat
      BY <2>3, <2>6, <2>7, <3>1
    <3>4. /\ s \in Seq({"barrier", "init", "work"}) /\ Len(s) = Len(c) + Len(w)
          /\ \A i \in 1 .. Len(c) : s[i] = c[i]
          /\ \A i \in Nat : i > Len(c) /\ i <= Len(s) => s[i] = w[i - Len(c)]
      <4>1. c \in Seq({"barrier", "init", "work"})
        BY <2>7
      <4>2. w \in Seq({"barrier", "init", "work"})
        BY <3>2
      <4>3. s = c \o w
        BY <3>3
      <4> QED BY <4>1, <4>2, <4>3, Joined
    <3>5. Len(c) + 1 \in Nat /\ (Len(c) + 1) - Len(c) = 1
      BY <3>3
    <3>6. Len(c) + 1 > Len(c) /\ Len(c) + 1 <= Len(s)
      BY <3>2, <3>3, <3>4
    <3> QED BY <3>2, <3>4, <3>5, <3>6
  <2>9. Len(a) \in 0 .. 1 /\ Len(b) \in 0 .. 1 /\ Len(c) \in 0 .. 2 /\ Len(s) \in 1 .. 3
    BY <2>4, <2>5, <2>7, <2>8
  <2>10. \A i \in 1 .. Len(c) : c[i] # "work" /\ s[i] = c[i]
    BY <2>4, <2>5, <2>7, <2>8, <2>9
  <2>11. s[Len(s)] = "work" /\ \A i \in 1 .. Len(s) - 1 : s[i] # "work"
    BY <2>8, <2>9, <2>10
  <2>12. kind = "joined" => Len(s) > 1 /\ s[1] = "barrier"
    BY <2>4, <2>7, <2>8, <2>9, <2>10
  <2>13. ~bm => \E i \in 1 .. Len(s) - 1 : s[i] = "init"
    <3> SUFFICES ASSUME ~bm PROVE \E i \in 1 .. Len(s) - 1 : s[i] = "init"
      OBVIOUS
    <3>1. Len(c) \in 1 .. Len(c) /\ c[Len(c)] = "init" /\ Len(c) = Len(s) - 1
      <4>1. /\ Len(b) = 1 /\ b[1] = "init" /\ Len(c) = Len(a) + 1 /\ Len(a) \in Nat
            /\ Len(c) = Len(s) - 1
        <5>1. Len(b) = 1 /\ b[1] = "init"
          BY <2>5
        <5>2. Len(c) = Len(a) + Len(b) /\ Len(s) = Len(c) + 1
          BY <2>7, <2>8
        <5> QED BY <2>9, <5>1, <5>2
      <4>2. Len(c) \in Nat /\ Len(c) > Len(a) /\ Len(c) <= Len(c) /\ Len(c) - Len(a) = 1
        BY <4>1
      <4>3. c[Len(c)] = b[1]
        BY <2>7, <4>2
      <4> QED BY <4>1, <4>2, <4>3
    <3> QED BY <2>10, <3>1
  <2> QED BY <1>2, <2>3, <2>8, <2>9, <2>11, <2>12, <2>13 DEF Shape
<1>3. CASE q = "compute" /\ kind # "render"
  <2>1. s = <<"work">> /\ q \in JobQueues(kind)
    BY <1>3 DEF JobEntries, JobQueues
  <2>2. s \in Seq({"barrier", "init", "work"}) /\ Len(s) = 1 /\ s[1] = "work"
    BY <2>1
  <2> QED BY <1>3, <2>1, <2>2 DEF Shape
<1>4. CASE ~(q = "d3" /\ kind # "compute") /\ ~(q = "ta" /\ kind # "compute")
           /\ ~(q = "compute" /\ kind # "render")
  <2>1. s = <<>> /\ q \notin JobQueues(kind)
    BY <1>4, KindQueues DEF JobEntries, Queue
  <2>2. s \in Seq({"barrier", "init", "work"}) /\ Len(s) = 0
    BY <2>1
  <2> QED BY <1>4, <2>1, <2>2 DEF Shape
<1> QED BY <1>1, <1>2, <1>3, <1>4

\* The stores and messages of a submission: every queue of the job is published
\* and gets its message, and the last is a message.
LEMMA StepsShape ==
    ASSUME NEW kind \in {"render", "joined", "compute"}, todo' = Steps(kind)
    PROVE  /\ todo' \in Seq({"publish", "send"} \X Queue)
           /\ todo' # <<>> /\ todo'[Len(todo')][1] = "send"
           /\ \A q \in JobQueues(kind) : PublishLeft(q)' /\ SendLeft(q)'
<1>1. PICK o : o = PublishOrder(kind)
    OBVIOUS
<1>2. /\ o \in Seq(Queue) /\ Len(o) \in 1 .. 3
      /\ \A q \in JobQueues(kind) : \E i \in 1 .. Len(o) : o[i] = q
  <2>1. CASE kind = "render"
    <3>1. o = <<"d3", "ta">>
      BY <1>1, <2>1 DEF PublishOrder
    <3>2. o \in Seq(Queue) /\ Len(o) = 2 /\ o[1] = "d3" /\ o[2] = "ta"
      BY <3>1 DEF Queue
    <3> QED BY <2>1, <3>2, KindQueues
  <2>2. CASE kind = "joined"
    <3>1. o = <<"compute", "d3", "ta">>
      BY <1>1, <2>2 DEF PublishOrder
    <3>2. o \in Seq(Queue) /\ Len(o) = 3 /\ o[1] = "compute" /\ o[2] = "d3" /\ o[3] = "ta"
      BY <3>1 DEF Queue
    <3> QED BY <2>2, <3>2, KindQueues
  <2>3. CASE kind = "compute"
    <3>1. o = <<"compute">>
      BY <1>1, <2>3 DEF PublishOrder
    <3>2. o \in Seq(Queue) /\ Len(o) = 1 /\ o[1] = "compute"
      BY <3>1 DEF Queue
    <3> QED BY <2>3, <3>2, KindQueues
  <2> QED BY <2>1, <2>2, <2>3
<1>3. PICK a : a = [i \in 1 .. Len(o) |-> <<"publish", o[i]>>]
    OBVIOUS
<1>4. PICK b : b = [i \in 1 .. Len(o) |-> <<"send", o[i]>>]
    OBVIOUS
<1>5. todo' = a \o b
    BY <1>1, <1>3, <1>4 DEF Steps
<1>6. /\ a \in Seq({"publish", "send"} \X Queue) /\ Len(a) = Len(o)
      /\ \A i \in 1 .. Len(o) : a[i] = <<"publish", o[i]>>
    BY <1>2, <1>3
<1>7. /\ b \in Seq({"publish", "send"} \X Queue) /\ Len(b) = Len(o)
      /\ \A i \in 1 .. Len(o) : b[i] = <<"send", o[i]>>
    BY <1>2, <1>4
<1>8. /\ todo' \in Seq({"publish", "send"} \X Queue) /\ Len(todo') = Len(o) + Len(o)
      /\ \A i \in 1 .. Len(o) : todo'[i] = a[i]
      /\ \A i \in Nat : i > Len(o) /\ i <= Len(todo') => todo'[i] = b[i - Len(o)]
  <2>1. a \in Seq({"publish", "send"} \X Queue) /\ b \in Seq({"publish", "send"} \X Queue)
    BY <1>6, <1>7
  <2>2. /\ todo' \in Seq({"publish", "send"} \X Queue) /\ Len(todo') = Len(a) + Len(b)
        /\ \A i \in 1 .. Len(a) : todo'[i] = a[i]
        /\ \A i \in Nat : i > Len(a) /\ i <= Len(todo') => todo'[i] = b[i - Len(a)]
    BY <1>5, <2>1, Joined
  <2> QED BY <1>6, <1>7, <2>2
<1>9. \A i \in 1 .. Len(o) : /\ i \in 1 .. Len(todo') /\ todo'[i] = <<"publish", o[i]>>
                             /\ i + Len(o) \in 1 .. Len(todo')
                             /\ todo'[i + Len(o)] = <<"send", o[i]>>
  <2> SUFFICES ASSUME NEW i \in 1 .. Len(o)
               PROVE  /\ i \in 1 .. Len(todo') /\ todo'[i] = <<"publish", o[i]>>
                      /\ i + Len(o) \in 1 .. Len(todo')
                      /\ todo'[i + Len(o)] = <<"send", o[i]>>
    OBVIOUS
  <2>1. i \in 1 .. Len(todo') /\ i + Len(o) \in 1 .. Len(todo')
        /\ i <= Len(o) /\ ~(i + Len(o) <= Len(o)) /\ (i + Len(o)) - Len(o) = i
    BY <1>2, <1>8
  <2>2. todo'[i] = <<"publish", o[i]>>
    BY <1>6, <1>8, <2>1
  <2>3. i + Len(o) \in Nat /\ i + Len(o) > Len(o) /\ i + Len(o) <= Len(todo')
    BY <1>2, <1>8, <2>1
  <2>4. todo'[i + Len(o)] = b[i]
    BY <1>8, <2>1, <2>3
  <2> QED BY <1>7, <2>1, <2>2, <2>4
<1>10. todo' # <<>> /\ todo'[Len(todo')][1] = "send"
  <2>1. Len(o) \in 1 .. Len(o) /\ Len(o) + Len(o) = Len(todo') /\ Len(todo') # 0
    BY <1>2, <1>8
  <2>2. todo'[Len(todo')] = <<"send", o[Len(o)]>>
    BY <1>9, <2>1
  <2> QED BY <2>1, <2>2
<1>11. \A q \in JobQueues(kind) : PublishLeft(q)' /\ SendLeft(q)'
    BY <1>2, <1>9 DEF PublishLeft, SendLeft
<1> QED BY <1>8, <1>10, <1>11

\* What a submission does, part by part.
Submits(kind, rebind, b, f) ==
    /\ Planned(kind) /\ f \in Fence
    /\ UNCHANGED <<written, batch, window, events>>
    /\ runtime' \in RuntimeType /\ runtime'.bm = b /\ runtime'.fence = f
    /\ runtime'.phase = "Ready" /\ ~runtime'.inRender
    /\ runtime'.seen = {} /\ runtime'.complete = {}
    /\ backend'.phase = "Ready" /\ ~backend'.quiesced
    /\ backend' = [phase |-> "Ready", quiesced |-> FALSE,
                   job |-> [kind |-> kind, fence |-> f, complete |-> {}, terminal |-> "none"],
                   expected |-> backend'.expected]
    /\ backend'.expected = [q \in Queue |-> backend'.expected[q]]
    /\ \A q \in Queue : backend'.expected[q] = NextDone(q, kind, b)
    /\ \A q \in JobQueues(kind) : ~RingFull(q, Len(JobEntries(kind, q, b)))
    /\ ring' = RingWithJob(f, kind, b)
    /\ provider' = IF kind = "compute" THEN Idle
                   ELSE [phase |-> "3dStaged", fence |-> f, quiesced |-> FALSE]
    /\ todo' = Steps(kind)
    /\ firmware' \in FirmwareType /\ firmware'.init = (firmware.init /\ ~rebind)
    /\ firmware'.running = firmware.running /\ firmware'.halted = firmware.halted
    /\ firmware'.active = firmware.active /\ firmware'.done = firmware.done
    /\ firmware'.head = firmware.head /\ firmware'.dropped = firmware.dropped
    /\ firmware'.raised = firmware.raised /\ firmware'.blind = firmware.blind
    /\ jobs' \in JobsType /\ jobs'.last = f /\ jobs'.ran = jobs.ran
    /\ jobs'.kind = [jobs.kind EXCEPT ![f] = kind]
    /\ jobs'.verdict = jobs.verdict /\ jobs'.rejected = jobs.rejected

\* A submission does that.
LEMMA SubmitStep ==
    ASSUME Known, NEW kind \in Kinds, NEW rebind \in BOOLEAN, Submit(kind, rebind),
           NEW b \in BOOLEAN, b = (runtime.bm /\ ~rebind), NEW f, f = jobs.last + 1
    PROVE  Submits(kind, rebind, b, f)
<1>1. Planned(kind)
    BY DEF Submit
<1>2. /\ kind \in {"render", "joined", "compute"}
      /\ backend.phase = "Ready" /\ backend.job = NoJob /\ ~backend.quiesced
      /\ Free /\ f \in Fence
    BY <1>1, Between
<1>3. PICK r \in RuntimeType : r = RequireInitBm(rebind) /\ r = [runtime EXCEPT !.bm = b]
  <2>1. RequireInitBm(rebind) = [runtime EXCEPT !.bm = b]
    BY DEF RequireInitBm
  <2>2. [runtime EXCEPT !.bm = b] \in RuntimeType
    BY DEF Known, IInv, Typed, RuntimeType
  <2> QED BY <2>1, <2>2
<1>4. /\ r.bm = b /\ r.phase = "Ready" /\ ~r.inRender /\ r.seen = {} /\ r.complete = {}
    BY <1>2, <1>3 DEF Known, IInv, Typed, RuntimeType, Free
<1>5. /\ UNCHANGED <<written, batch, window, events>>
      /\ \A q \in JobQueues(kind) : ~RingFull(q, Len(JobEntries(kind, q, b)))
      /\ backend' = [backend EXCEPT
                       !.job = [NoJob EXCEPT !.kind = kind, !.fence = f],
                       !.expected = [q \in Queue |-> NextDone(q, kind, b)]]
      /\ provider' = IF kind = "compute" THEN provider
                     ELSE [provider EXCEPT !.phase = "3dStaged", !.fence = f]
      /\ runtime' = [r EXCEPT !.fence = f]
      /\ ring' = RingWithJob(f, kind, b)
      /\ todo' = Steps(kind)
      /\ firmware' = Rebound(rebind)
      /\ jobs' = [jobs EXCEPT !.last = f, !.kind[f] = kind]
  <2>1. RequireInitBm(rebind) = r
    BY <1>3
  <2> QED BY <1>4, <2>1 DEF Submit
<1>6. /\ runtime' \in RuntimeType /\ runtime'.bm = b /\ runtime'.fence = f
      /\ runtime'.phase = "Ready" /\ ~runtime'.inRender
      /\ runtime'.seen = {} /\ runtime'.complete = {}
  <2>1. f \in 0 .. MaxFence
    BY <1>2, BoundAssumption DEF Fence
  <2> QED BY <1>3, <1>4, <1>5, <2>1 DEF RuntimeType
<1>7. /\ backend'.phase = "Ready" /\ ~backend'.quiesced
      /\ backend' = [phase |-> "Ready", quiesced |-> FALSE,
                     job |-> [kind |-> kind, fence |-> f, complete |-> {}, terminal |-> "none"],
                     expected |-> backend'.expected]
      /\ backend'.expected = [q \in Queue |-> backend'.expected[q]]
      /\ \A q \in Queue : backend'.expected[q] = NextDone(q, kind, b)
  <2>1. PICK j : j = [kind |-> kind, fence |-> f, complete |-> {}, terminal |-> "none"]
    OBVIOUS
  <2>2. [NoJob EXCEPT !.kind = kind, !.fence = f] = j
    <3>1. PICK i : i = [NoJob EXCEPT !.kind = kind, !.fence = f]
      OBVIOUS
    <3>2. i = [kind |-> kind, fence |-> f, complete |-> {}, terminal |-> "none"]
      BY <3>1 DEF NoJob
    <3> QED BY <2>1, <3>1, <3>2
  <2>3. PICK e : e = [q \in Queue |-> NextDone(q, kind, b)]
    OBVIOUS
  <2>4. e = [q \in Queue |-> e[q]] /\ \A q \in Queue : e[q] = NextDone(q, kind, b)
    BY <2>3
  <2>5. backend' = [backend EXCEPT !.job = j, !.expected = e]
    BY <1>5, <2>2, <2>3
  <2>6. backend' = [phase |-> backend.phase, quiesced |-> backend.quiesced, job |-> j,
                    expected |-> e]
    BY <2>5 DEF Known, IInv, Typed, BackendType
  <2>7. backend.phase = "Ready" /\ backend.quiesced = FALSE
    BY <1>2 DEF Known, IInv, Typed, BackendType
  <2>8. backend'.expected = e /\ backend'.phase = "Ready" /\ ~backend'.quiesced
    BY <2>6, <2>7
  <2> QED BY <2>1, <2>4, <2>6, <2>7, <2>8
<1>8. provider' = IF kind = "compute" THEN Idle
                  ELSE [phase |-> "3dStaged", fence |-> f, quiesced |-> FALSE]
  <2>1. provider = Idle
    BY <1>2 DEF Free
  <2>2. PICK p : p = [Idle EXCEPT !.phase = "3dStaged", !.fence = f]
    OBVIOUS
  <2>3. p = [phase |-> "3dStaged", fence |-> f, quiesced |-> FALSE]
    BY <2>2 DEF Idle
  <2> QED BY <1>5, <2>1, <2>2, <2>3
<1>9. /\ firmware' \in FirmwareType /\ firmware'.init = (firmware.init /\ ~rebind)
      /\ firmware'.running = firmware.running /\ firmware'.halted = firmware.halted
      /\ firmware'.active = firmware.active /\ firmware'.done = firmware.done
      /\ firmware'.head = firmware.head /\ firmware'.dropped = firmware.dropped
      /\ firmware'.raised = firmware.raised /\ firmware'.blind = firmware.blind
  <2>1. PICK c \in BOOLEAN : c = (firmware.init /\ ~rebind)
    OBVIOUS
  <2>2. firmware' = [firmware EXCEPT !.init = c]
    BY <1>5, <2>1 DEF Rebound
  <2> QED BY <2>1, <2>2 DEF Known, IInv, Typed, FirmwareType
<1>10. /\ jobs' \in JobsType /\ jobs'.last = f /\ jobs'.ran = jobs.ran
       /\ jobs'.kind = [jobs.kind EXCEPT ![f] = kind]
       /\ jobs'.verdict = jobs.verdict /\ jobs'.rejected = jobs.rejected
  <2>1. f \in 0 .. MaxFence
    BY <1>2, BoundAssumption DEF Fence
  <2> QED BY <1>2, <1>5, <2>1 DEF Known, IInv, Typed, JobsType
<1> QED BY <1>1, <1>2, <1>5, <1>6, <1>7, <1>8, <1>9, <1>10 DEF Submits

\* There is room on the ring for the entries of the job.
LEMMA Room ==
    ASSUME NEW q \in Queue, NEW n \in Nat, ~RingFull(q, n),
           written[q] = backend.expected[q], n > 0,
           firmware.done[q] \in Slot, backend.expected[q] \in Slot
    PROVE  Left(q) + n < Capacity
<1> SUFFICES ASSUME Left(q) + n >= Capacity PROVE FALSE
  <2>1. Left(q) \in Int
    BY Distances DEF Left
  <2> QED BY <2>1, CapacityAssumption
<1>1. PICK e \in Slot : e = backend.expected[q]
    OBVIOUS
<1>2. PICK d \in Slot : d = firmware.done[q]
    OBVIOUS
<1>3. PICK l : l = Dist(d, e)
    OBVIOUS
<1>4. l \in 0 .. Capacity - 1 /\ l = Left(q)
    BY <1>1, <1>2, <1>3, Distances DEF Left
<1>5. Capacity - l \in 1 .. n /\ Capacity - l \in Nat
    BY <1>4, CapacityAssumption
<1>6. CASE l = 0
  <2>1. e = d
    BY <1>3, <1>6, Distances
  <2>2. PICK x \in Nat : x = e + (Capacity - l)
    BY <1>5, CapacityAssumption DEF Slot
  <2>3. x % Capacity = IF x < Capacity THEN x ELSE x - Capacity
    BY <1>6, <2>2, Wraps, CapacityAssumption DEF Slot
  <2>4. x % Capacity = d
    BY <1>6, <2>1, <2>2, <2>3, CapacityAssumption DEF Slot
  <2>5. Advance(e, Capacity - l) = d
    BY <2>2, <2>4 DEF Advance
  <2> QED BY <1>1, <1>2, <1>5, <2>5 DEF RingFull
<1>7. CASE l # 0
  <2>1. Capacity - l < Capacity
    BY <1>4, <1>7, CapacityAssumption
  <2>2. Advance(e, Capacity - l) = IF e + (Capacity - l) < Capacity THEN e + (Capacity - l)
                                   ELSE e + (Capacity - l) - Capacity
    BY <1>5, <2>1, Advances
  <2>3. Advance(e, Capacity - l) = d
    BY <1>3, <1>7, <2>2, CapacityAssumption DEF Slot, Dist
  <2> QED BY <1>1, <1>2, <1>5, <2>3 DEF RingFull
<1> QED BY <1>6, <1>7

\* The entries of a job and what stays of the ring: counted from the new end,
\* and the old one.
Laid(q, s, f, e, l) ==
    /\ ring'[q] \in [Slot -> Entry]
    /\ \A x \in Slot : ring'[q][x] = ring[q][x] \/ ring'[q][x].fence = f
    /\ \A k \in 1 .. Len(s) :
         /\ ring'[q][Back(Advance(e, Len(s)), k)] = [fence |-> f, work |-> s[Len(s) - k + 1]]
         /\ Len(s) - k + 1 \in 1 .. Len(s)
    /\ \A k \in 1 .. l : ring'[q][Back(Advance(e, Len(s)), k + Len(s))] = ring[q][Back(e, k)]

\* Where the entries of a job come to lie on a ring, and what stays.
LEMMA NewRing ==
    ASSUME NEW kind \in {"render", "joined", "compute"}, NEW q \in Queue, NEW b \in BOOLEAN,
           NEW f \in Fence, NEW s, s = JobEntries(kind, q, b),
           ring \in [Queue -> [Slot -> Entry]], ring' = RingWithJob(f, kind, b),
           NEW e \in Slot, written[q] = e, NEW l \in Nat, l + Len(s) < Capacity
    PROVE  Laid(q, s, f, e, l)
<1>1. /\ s \in Seq({"barrier", "init", "work"}) /\ Len(s) \in 0 .. 3
    BY KindEntries DEF Shape
<1>a. PICK n \in 0 .. 3 : n = Len(s)
    BY <1>1
<1> DEFINE At(x) == Advance(x + Capacity - e, 0)
<1>2. ring'[q] = [x \in Slot |-> IF At(x) + 1 \in 1 .. n
                                THEN [fence |-> f, work |-> s[At(x) + 1]] ELSE ring[q][x]]
    BY <1>a DEF RingWithJob
<1>3. ASSUME NEW x \in Slot PROVE At(x) = (IF x >= e THEN x - e ELSE x + Capacity - e)
  <2>1. PICK y \in Nat : y = x + Capacity - e
    BY CapacityAssumption DEF Slot
  <2>2. y < 2 * Capacity
    BY <2>1, CapacityAssumption DEF Slot
  <2>3. y % Capacity = IF y < Capacity THEN y ELSE y - Capacity
    BY <2>2, Wraps
  <2>4. Advance(x + Capacity - e, 0) = y % Capacity
    BY <2>1, CapacityAssumption DEF Advance
  <2> QED BY <2>1, <2>3, <2>4, CapacityAssumption DEF Slot
<1> HIDE DEF At
<1>4. ASSUME NEW x \in Slot
      PROVE  /\ At(x) + 1 \in 1 .. n => ring'[q][x] = [fence |-> f, work |-> s[At(x) + 1]]
             /\ At(x) + 1 \notin 1 .. n => ring'[q][x] = ring[q][x]
    BY <1>2
<1>5. \A i \in 1 .. n : [fence |-> f, work |-> s[i]] \in Entry
  <2>1. f \in 0 .. MaxFence
    BY DEF Fence
  <2> QED BY <1>1, <1>a, <2>1 DEF Entry
<1>6. ring'[q] \in [Slot -> Entry]
  <2>1. \A x \in Slot : ring'[q][x] \in Entry
    BY <1>4, <1>5
  <2> QED BY <1>2, <2>1
<1>7. ASSUME NEW x \in Slot PROVE ring'[q][x] = ring[q][x] \/ ring'[q][x].fence = f
  <2>1. CASE At(x) + 1 \in 1 .. n
    <3>1. PICK w : w = s[At(x) + 1]
      OBVIOUS
    <3>2. ring'[q][x] = [fence |-> f, work |-> w]
      BY <1>4, <2>1, <3>1
    <3> QED BY <3>2
  <2>2. CASE At(x) + 1 \notin 1 .. n
    BY <1>4, <2>2
  <2> QED BY <2>1, <2>2
<1>8. Capacity \in Nat /\ n < Capacity /\ l + n < Capacity
    BY <1>a, CapacityAssumption
<1>9. ASSUME NEW k \in 1 .. n
      PROVE  /\ ring'[q][Back(Advance(e, n), k)] = [fence |-> f, work |-> s[n - k + 1]]
             /\ n - k + 1 \in 1 .. n
  <2>1. k \in Nat /\ k < Capacity /\ k <= n /\ n \in Nat /\ n - k \in Nat /\ n - k < Capacity
    BY <1>8
  <2>2. Back(Advance(e, n), k) = Advance(e, n - k)
    BY <1>8, <2>1, Backs
  <2>3. PICK x \in Slot : x = Advance(e, n - k)
    BY <2>1, Advances
  <2>4. x = IF e + (n - k) < Capacity THEN e + (n - k) ELSE e + (n - k) - Capacity
    BY <2>1, <2>3, Advances
  <2>5. At(x) = n - k
    BY <1>3, <1>8, <2>1, <2>4 DEF Slot
  <2>6. n - k + 1 \in 1 .. n
    BY <2>1
  <2> QED BY <1>4, <2>2, <2>3, <2>5, <2>6
<1>10. ASSUME NEW k \in 1 .. l
       PROVE  ring'[q][Back(Advance(e, n), k + n)] = ring[q][Back(e, k)]
  <2>1. k + n \in Nat /\ k + n < Capacity /\ n <= k + n /\ (k + n) - n = k /\ n \in Nat
        /\ k \in Nat /\ k < Capacity
    BY <1>8
  <2>2. Back(Advance(e, n), k + n) = Back(e, k)
    BY <2>1, Backs
  <2>3. PICK x \in Slot : x = Back(e, k)
    BY <2>1, Backs
  <2>4. At(x) = Capacity - k
    BY <1>3, <1>8, <2>1, <2>3 DEF Slot, Back
  <2>5. At(x) + 1 \notin 1 .. n
    BY <1>8, <2>1, <2>4
  <2> QED BY <1>4, <2>2, <2>3, <2>5
<1> QED BY <1>a, <1>6, <1>7, <1>9, <1>10 DEF Laid

\* A queue after a submission: the new entries before what was dropped.
LEMMA Placed ==
    ASSUME Known, NEW kind \in Kinds, Planned(kind), NEW b \in BOOLEAN,
           NEW f \in Fence, f = jobs.last + 1, NEW q \in Queue,
           backend'.expected[q] = NextDone(q, kind, b),
           q \in JobQueues(kind) => ~RingFull(q, Len(JobEntries(kind, q, b))),
           ring' = RingWithJob(f, kind, b), firmware'.done = firmware.done
    PROVE  /\ backend'.expected[q] \in Slot /\ ring'[q] \in [Slot -> Entry]
           /\ q \notin JobQueues(kind) => backend'.expected[q] = backend.expected[q]
           /\ \A x \in Slot : ring'[q][x].fence <= f
           /\ Left(q) <= Left(q)' /\ Left(q) \in Nat /\ Left(q)' \in Nat
           /\ \A k \in 1 .. Left(q)' : \/ Behind(q, k)'.fence \in 1 .. firmware.dropped
                                       \/ Behind(q, k)'.fence = f /\ q \in JobQueues(kind)
           /\ \A j, k \in 1 .. Left(q)' : j < k => Behind(q, k)'.fence <= Behind(q, j)'.fence
           /\ q \in JobQueues(kind) =>
                /\ Left(q)' > 0 /\ Behind(q, 1)' = [fence |-> f, work |-> "work"]
                /\ \A k \in 2 .. Left(q)' : Behind(q, k)'.fence = f => Behind(q, k)'.work # "work"
           /\ (q = "d3" /\ kind # "compute") \/ (q = "ta" /\ kind = "joined") =>
                \E k \in 2 .. Left(q)' : Behind(q, k)' = [fence |-> f, work |-> "barrier"]
           /\ q = "ta" /\ kind # "compute" /\ ~b => \E k \in 2 .. Left(q)' : Behind(q, k)'.work = "init"
<1>2. /\ kind \in {"render", "joined", "compute"}
      /\ written[q] = backend.expected[q] /\ firmware.dropped <= jobs.last
      /\ \A k \in 1 .. Left(q) : Behind(q, k).fence \in 1 .. firmware.dropped
    BY Between
<1>3. PICK s : s = JobEntries(kind, q, b)
    OBVIOUS
<1>4. /\ s \in Seq({"barrier", "init", "work"}) /\ Len(s) \in 0 .. 3
      /\ q \notin JobQueues(kind) => Len(s) = 0
      /\ q \in JobQueues(kind) =>
           /\ Len(s) > 0 /\ s[Len(s)] = "work"
           /\ \A i \in 1 .. Len(s) - 1 : s[i] # "work"
      /\ q = "d3" /\ kind # "compute" => Len(s) = 2 /\ s[1] = "barrier"
      /\ q = "ta" /\ kind = "joined" => Len(s) > 1 /\ s[1] = "barrier"
      /\ q = "ta" /\ kind # "compute" /\ ~b => \E i \in 1 .. Len(s) - 1 : s[i] = "init"
  <2>1. kind \in {"render", "joined", "compute"}
    BY <1>2
  <2> HIDE DEF Known
  <2>2. Shape(s, kind, q, b)
    BY <2>1, <1>3, KindEntries
  <2> QED BY <2>2, <1>3 DEF Shape
<1>a. PICK n \in 0 .. 3 : n = Len(s)
    BY <1>4
<1>5. PICK e \in Slot : e = backend.expected[q]
    BY DEF Known, IInv, Typed, BackendType
<1>6. PICK d \in Slot : d = firmware.done[q]
    BY DEF Known, IInv, Typed, FirmwareType
<1>7. PICK l \in 0 .. Capacity - 1 : l = Left(q)
    BY <1>5, <1>6, Distances DEF Left
<1>8. l + n < Capacity /\ l \in Nat /\ n \in Nat /\ n < Capacity /\ Capacity \in Nat
  <2>1. n = 0 => l + n < Capacity
    BY CapacityAssumption
  <2>2. n > 0 => q \in JobQueues(kind)
    BY <1>4, <1>a
  <2>3. n > 0 => ~RingFull(q, n)
    BY <1>3, <1>a, <2>2
  <2>4. n > 0 => l + n < Capacity
    BY <1>2, <1>5, <1>6, <1>7, <2>3, Room
  <2> QED BY <2>1, <2>4, CapacityAssumption
<1>9. backend'.expected[q] = Advance(e, n) /\ Advance(e, n) \in Slot
  <2>1. backend'.expected[q] = Advance(written[q], Len(JobEntries(kind, q, b)))
    BY DEF NextDone
  <2> QED BY <1>2, <1>3, <1>a, <1>5, <1>8, <2>1, Advances
<1>10. Left(q)' = l + n
  <2>1. Dist(d, e) = l
    BY <1>5, <1>6, <1>7 DEF Left
  <2>2. Dist(d, Advance(e, n)) = l + n
    BY <1>8, <2>1, Further
  <2>3. Left(q)' = Dist(d, Advance(e, n))
    BY <1>6, <1>9 DEF Left, Dist
  <2> QED BY <2>2, <2>3
<1>11. /\ ring'[q] \in [Slot -> Entry]
       /\ \A x \in Slot : ring'[q][x] = ring[q][x] \/ ring'[q][x].fence = f
       /\ \A k \in 1 .. n : /\ ring'[q][Back(Advance(e, n), k)] = [fence |-> f, work |-> s[n - k + 1]]
                            /\ n - k + 1 \in 1 .. n
       /\ \A k \in 1 .. l : ring'[q][Back(Advance(e, n), k + n)] = ring[q][Back(e, k)]
  <2>1. ring \in [Queue -> [Slot -> Entry]] /\ written[q] = e
    BY <1>2, <1>5 DEF Known, IInv, Typed
  <2>2. kind \in {"render", "joined", "compute"} /\ ring' = RingWithJob(f, kind, b) /\ f \in Fence
    BY <1>2
  <2>3. l \in Nat /\ l + Len(s) < Capacity
    BY <1>a, <1>8
  <2>4. /\ ring'[q] \in [Slot -> Entry]
        /\ \A x \in Slot : ring'[q][x] = ring[q][x] \/ ring'[q][x].fence = f
        /\ \A k \in 1 .. Len(s) :
             /\ ring'[q][Back(Advance(e, Len(s)), k)] = [fence |-> f, work |-> s[Len(s) - k + 1]]
             /\ Len(s) - k + 1 \in 1 .. Len(s)
        /\ \A k \in 1 .. l : ring'[q][Back(Advance(e, Len(s)), k + Len(s))] = ring[q][Back(e, k)]
    <3>1. Laid(q, s, f, e, l)
      BY <1>3, <2>1, <2>2, <2>3, NewRing
    <3> QED BY <3>1 DEF Laid
  <2> QED BY <1>a, <2>4
<1>12. \A k : Behind(q, k)' = ring'[q][Back(Advance(e, n), k)] /\ Behind(q, k) = ring[q][Back(e, k)]
  <2>1. \A k : Back(backend'.expected[q], k) = Back(Advance(e, n), k)
    BY <1>9
  <2> QED BY <1>5, <2>1 DEF Behind, Back
<1>13. ASSUME NEW k \in 1 .. n
       PROVE  Behind(q, k)' = [fence |-> f, work |-> s[n - k + 1]] /\ Behind(q, k)'.fence = f
  <2>1. PICK w : w = s[n - k + 1]
    OBVIOUS
  <2>2. Behind(q, k)' = [fence |-> f, work |-> w]
    BY <1>11, <1>12, <2>1
  <2> QED BY <2>1, <2>2
<1>14. \A k \in 1 .. l + n : k > n =>
         /\ Behind(q, k)' = Behind(q, k - n) /\ k - n \in 1 .. l
         /\ Behind(q, k)'.fence \in 1 .. firmware.dropped
  <2> SUFFICES ASSUME NEW k \in 1 .. l + n, k > n
               PROVE  /\ Behind(q, k)' = Behind(q, k - n) /\ k - n \in 1 .. l
                      /\ Behind(q, k)'.fence \in 1 .. firmware.dropped
    OBVIOUS
  <2>1. k - n \in 1 .. l /\ (k - n) + n = k
    BY <1>8
  <2>2. Behind(q, k)' = Behind(q, k - n)
    BY <1>11, <1>12, <2>1
  <2> QED BY <1>2, <1>7, <2>1, <2>2
<1>15. f \in Nat /\ firmware.dropped \in Nat /\ firmware.dropped < f
  <2>1. jobs.last \in Nat /\ firmware.dropped \in Nat
    BY Fields DEF Known, IInv
  <2> QED BY <1>2, <2>1
<1>16. \A k \in 1 .. l + n : \/ k \in 1 .. n
                             \/ k > n /\ Behind(q, k)'.fence \in 1 .. firmware.dropped
    BY <1>8, <1>14
<1>17. \A x \in Slot : ring'[q][x].fence <= f
  <2>1. \A x \in Slot : ring[q][x].fence <= jobs.last /\ ring[q][x].fence \in Nat
    BY BoundAssumption DEF Known, IInv, JobInv, Typed, Entry
  <2>2. jobs.last \in Nat
    BY Fields DEF Known, IInv
  <2> QED BY <1>11, <1>15, <2>1, <2>2
<1>18. q \notin JobQueues(kind) => backend'.expected[q] = backend.expected[q]
  <2>1. n = 0 => Advance(e, n) = e
    BY <1>8, Advances DEF Slot
  <2> QED BY <1>4, <1>a, <1>5, <1>9, <2>1
<1>19. \A k \in 1 .. l + n : \/ Behind(q, k)'.fence \in 1 .. firmware.dropped
                             \/ Behind(q, k)'.fence = f /\ q \in JobQueues(kind)
  <2>1. n > 0 => q \in JobQueues(kind)
    BY <1>4, <1>a
  <2> QED BY <1>8, <1>13, <1>16, <2>1
<1>20. \A j, k \in 1 .. l + n : j < k => Behind(q, k)'.fence <= Behind(q, j)'.fence
  <2> SUFFICES ASSUME NEW j \in 1 .. l + n, NEW k \in 1 .. l + n, j < k
               PROVE  Behind(q, k)'.fence <= Behind(q, j)'.fence
    OBVIOUS
  <2>1. CASE k \in 1 .. n
    <3>1. j \in 1 .. n
      BY <1>8, <2>1
    <3> QED BY <1>13, <1>15, <2>1, <3>1
  <2>2. CASE k > n /\ j \in 1 .. n
    BY <1>13, <1>14, <1>15, <2>2
  <2>3. CASE k > n /\ j > n
    <3>1. j - n < k - n
      BY <1>8
    <3>2. /\ Behind(q, k)' = Behind(q, k - n) /\ k - n \in 1 .. l
          /\ Behind(q, j)' = Behind(q, j - n) /\ j - n \in 1 .. l
      BY <1>14, <2>3
    <3>3. firmware.running
      BY Between
    <3>4. Behind(q, k - n).fence <= Behind(q, j - n).fence
      BY <1>7, <3>1, <3>2, <3>3 DEF Known, IInv, RingInv, RegionInv
    <3> QED BY <3>2, <3>4
  <2> QED BY <1>8, <2>1, <2>2, <2>3
<1>21. q \in JobQueues(kind) =>
         /\ l + n > 0 /\ Behind(q, 1)' = [fence |-> f, work |-> "work"]
         /\ \A k \in 2 .. l + n : Behind(q, k)'.fence = f => Behind(q, k)'.work # "work"
  <2> SUFFICES ASSUME q \in JobQueues(kind)
               PROVE  /\ l + n > 0 /\ Behind(q, 1)' = [fence |-> f, work |-> "work"]
                      /\ \A k \in 2 .. l + n : Behind(q, k)'.fence = f => Behind(q, k)'.work # "work"
    OBVIOUS
  <2>1. n > 0 /\ s[n] = "work" /\ \A i \in 1 .. n - 1 : s[i] # "work"
    BY <1>4, <1>a
  <2>2. 1 \in 1 .. n /\ n - 1 + 1 = n
    BY <1>8, <2>1
  <2>3. Behind(q, 1)' = [fence |-> f, work |-> s[n]]
    BY <1>13, <2>2
  <2>4. ASSUME NEW k \in 2 .. l + n, Behind(q, k)'.fence = f PROVE Behind(q, k)'.work # "work"
    <3>1. k \in 1 .. l + n
      BY <1>8
    <3>2. k \in 1 .. n
      BY <1>15, <1>16, <2>4, <3>1
    <3>3. n - k + 1 \in 1 .. n - 1
      BY <1>8, <3>2
    <3>4. Behind(q, k)' = [fence |-> f, work |-> s[n - k + 1]]
      BY <1>13, <3>2
    <3> QED BY <2>1, <3>3, <3>4
  <2> QED BY <1>8, <2>1, <2>3, <2>4
<1>22. (q = "d3" /\ kind # "compute") \/ (q = "ta" /\ kind = "joined") =>
         \E k \in 2 .. l + n : Behind(q, k)' = [fence |-> f, work |-> "barrier"]
  <2> SUFFICES ASSUME (q = "d3" /\ kind # "compute") \/ (q = "ta" /\ kind = "joined")
               PROVE  \E k \in 2 .. l + n : Behind(q, k)' = [fence |-> f, work |-> "barrier"]
    OBVIOUS
  <2>1. n > 1 /\ s[1] = "barrier"
    BY <1>4, <1>a
  <2>2. n \in 1 .. n /\ n - n + 1 = 1 /\ n \in 2 .. l + n
    BY <1>8, <2>1
  <2>3. Behind(q, n)' = [fence |-> f, work |-> s[1]]
    BY <1>13, <2>2
  <2> QED BY <2>1, <2>2, <2>3
<1>23. q = "ta" /\ kind # "compute" /\ ~b => \E k \in 2 .. l + n : Behind(q, k)'.work = "init"
  <2> SUFFICES ASSUME q = "ta", kind # "compute", ~b
               PROVE  \E k \in 2 .. l + n : Behind(q, k)'.work = "init"
    OBVIOUS
  <2>1. PICK i \in 1 .. n - 1 : s[i] = "init"
    BY <1>4, <1>a
  <2>2. n - i + 1 \in 1 .. n /\ n - (n - i + 1) + 1 = i /\ n - i + 1 \in 2 .. l + n
    BY <1>8
  <2>3. Behind(q, n - i + 1)' = [fence |-> f, work |-> s[i]]
    BY <1>13, <2>2
  <2> QED BY <2>1, <2>2, <2>3
<1>24. Left(q) <= Left(q)' /\ Left(q) \in Nat /\ Left(q)' \in Nat
    BY <1>7, <1>8, <1>10
<1> QED BY <1>9, <1>10, <1>11, <1>17, <1>18, <1>19, <1>20, <1>21, <1>22, <1>23, <1>24

\* A job is written to the rings.
LEMMA SubmitKeeps ==
    ASSUME Known, NEW kind \in Kinds, NEW rebind \in BOOLEAN, Submit(kind, rebind)
    PROVE  IInv'
<1> HIDE DEF Known
<1>a. IInv
    BY DEF Known
<1>1. PICK b \in BOOLEAN : b = (runtime.bm /\ ~rebind)
    OBVIOUS
<1>2. PICK f : f = jobs.last + 1
    OBVIOUS
<1>3. /\ Planned(kind) /\ f \in Fence
      /\ UNCHANGED <<written, batch, window, events>>
      /\ runtime' \in RuntimeType /\ runtime'.bm = b /\ runtime'.fence = f
      /\ runtime'.phase = "Ready" /\ ~runtime'.inRender
      /\ runtime'.seen = {} /\ runtime'.complete = {}
      /\ backend'.phase = "Ready" /\ ~backend'.quiesced
      /\ backend' = [phase |-> "Ready", quiesced |-> FALSE,
                     job |-> [kind |-> kind, fence |-> f, complete |-> {}, terminal |-> "none"],
                     expected |-> backend'.expected]
      /\ backend'.expected = [q \in Queue |-> backend'.expected[q]]
      /\ \A q \in Queue : backend'.expected[q] = NextDone(q, kind, b)
      /\ \A q \in JobQueues(kind) : ~RingFull(q, Len(JobEntries(kind, q, b)))
      /\ ring' = RingWithJob(f, kind, b)
      /\ provider' = IF kind = "compute" THEN Idle
                     ELSE [phase |-> "3dStaged", fence |-> f, quiesced |-> FALSE]
      /\ todo' = Steps(kind)
      /\ firmware' \in FirmwareType /\ firmware'.init = (firmware.init /\ ~rebind)
      /\ firmware'.running = firmware.running /\ firmware'.halted = firmware.halted
      /\ firmware'.active = firmware.active /\ firmware'.done = firmware.done
      /\ firmware'.head = firmware.head /\ firmware'.dropped = firmware.dropped
      /\ firmware'.raised = firmware.raised /\ firmware'.blind = firmware.blind
      /\ jobs' \in JobsType /\ jobs'.last = f /\ jobs'.ran = jobs.ran
      /\ jobs'.kind = [jobs.kind EXCEPT ![f] = kind]
      /\ jobs'.verdict = jobs.verdict /\ jobs'.rejected = jobs.rejected
  <2>1. Submits(kind, rebind, b, f)
    BY <1>1, <1>2, SubmitStep
  <2> QED BY <2>1 DEF Submits
<1>4. /\ kind \in {"render", "joined", "compute"}
      /\ todo = <<>> /\ window = 0 /\ batch = <<>>
      /\ firmware.running /\ firmware.active = "none"
      /\ firmware.dropped <= jobs.last
      /\ jobs.verdict[f] = "none"
      /\ \A q \in Queue : <<f, q>> \notin jobs.ran
      /\ \A q \in Queue : written[q] = backend.expected[q]
      /\ \A q \in Queue : firmware.head[q] = backend.expected[q]
      /\ firmware.dropped = 0 => \A q \in Queue : Left(q) = 0
      /\ firmware.dropped = 0 => events = <<>> /\ firmware.raised = {}
      /\ \A i \in Places : ~Fault(i)
    BY <1>2, <1>3, Between
<1>5. ASSUME NEW q \in Queue
      PROVE  /\ backend'.expected[q] \in Slot /\ ring'[q] \in [Slot -> Entry]
             /\ q \notin JobQueues(kind) => backend'.expected[q] = backend.expected[q]
             /\ \A x \in Slot : ring'[q][x].fence <= f
             /\ Left(q) <= Left(q)' /\ Left(q) \in Nat /\ Left(q)' \in Nat
             /\ \A k \in 1 .. Left(q)' : \/ Behind(q, k)'.fence \in 1 .. firmware.dropped
                                         \/ Behind(q, k)'.fence = f /\ q \in JobQueues(kind)
             /\ \A j, k \in 1 .. Left(q)' : j < k => Behind(q, k)'.fence <= Behind(q, j)'.fence
             /\ q \in JobQueues(kind) =>
                  /\ Left(q)' > 0 /\ Behind(q, 1)' = [fence |-> f, work |-> "work"]
                  /\ \A k \in 2 .. Left(q)' : Behind(q, k)'.fence = f => Behind(q, k)'.work # "work"
             /\ (q = "d3" /\ kind # "compute") \/ (q = "ta" /\ kind = "joined") =>
                  \E k \in 2 .. Left(q)' : Behind(q, k)' = [fence |-> f, work |-> "barrier"]
             /\ q = "ta" /\ kind # "compute" /\ ~b =>
                  \E k \in 2 .. Left(q)' : Behind(q, k)'.work = "init"
    BY <1>2, <1>3, Placed
<1>6. /\ todo' \in Seq({"publish", "send"} \X Queue)
      /\ todo' # <<>> /\ todo'[Len(todo')][1] = "send"
      /\ \A q \in JobQueues(kind) : PublishLeft(q)' /\ SendLeft(q)'
    BY <1>3, <1>4, StepsShape
<1>7. /\ F' = f /\ Kind' = kind /\ Terminated' = "none" /\ Busy' /\ backend'.job.complete = {}
      /\ backend'.job = [kind |-> kind, fence |-> f, complete |-> {}, terminal |-> "none"]
  <2>1. PICK j : j = [kind |-> kind, fence |-> f, complete |-> {}, terminal |-> "none"]
    OBVIOUS
  <2>2. backend'.job = j
    BY <1>3, <2>1
  <2> QED BY <1>3, <2>1, <2>2 DEF F, Kind, Terminated, Busy
<1>8. /\ f \in Nat /\ f # 0 /\ firmware.dropped \in Nat /\ firmware.dropped < f
      /\ jobs.last \in Nat /\ f \in 0 .. MaxFence
  <2>1. jobs.last \in Nat /\ firmware.dropped \in Nat /\ MaxFence \in Nat
    BY <1>a, Fields DEF IInv
  <2> QED BY <1>2, <1>3, <1>4, <2>1 DEF Fence
<1>9. Typed'
  <2>1. backend' \in BackendType
    <3>1. backend'.expected \in [Queue -> Slot]
      BY <1>3, <1>5
    <3>2. PICK e \in [Queue -> Slot] : e = backend'.expected
      BY <3>1
    <3>3. PICK j : j = [kind |-> kind, fence |-> f, complete |-> {}, terminal |-> "none"]
      OBVIOUS
    <3>4. j \in [kind : Kinds \cup {"none"}, fence : 0 .. MaxFence,
                 complete : SUBSET Queue, terminal : Terminal]
      BY <1>8, <3>3 DEF Terminal
    <3>5. backend' = [phase |-> "Ready", quiesced |-> FALSE, job |-> j, expected |-> e]
      BY <1>3, <3>2, <3>3
    <3> QED BY <3>2, <3>4, <3>5 DEF BackendType
  <2>2. provider' \in ProviderType
    BY <1>3, <1>8, BoundAssumption DEF ProviderType, ProviderPhase, Idle
  <2>3. ring' \in [Queue -> [Slot -> Entry]]
    <3>1. DOMAIN ring' = Queue /\ ring' = [q \in Queue |-> ring'[q]]
      BY <1>3 DEF RingWithJob
    <3> QED BY <1>5, <3>1
  <2> QED BY <1>a, <1>3, <1>6, <2>1, <2>2, <2>3 DEF IInv, Typed
<1>10. JobInv'
  <2>1. jobs'.kind[f] = kind /\ jobs'.verdict[f] = "none"
    BY <1>a, <1>3, <1>4 DEF IInv, Typed, JobsType
  <2>2. ASSUME NEW g \in Fence, g > f
        PROVE  /\ jobs'.kind[g] = "none" /\ jobs'.verdict[g] = "none"
               /\ \A q \in Queue : <<g, q>> \notin jobs'.ran
    <3>1. g # f /\ g > jobs.last
      BY <1>2, <1>8, <2>2 DEF Fence
    <3>2. jobs'.kind[g] = jobs.kind[g]
      BY <1>a, <1>3, <3>1 DEF IInv, Typed, JobsType
    <3> QED BY <1>a, <1>3, <3>1, <3>2 DEF IInv, JobInv
  <2>3. firmware'.dropped <= jobs'.last
    BY <1>3, <1>8
  <2>4. \A q \in Queue, s \in Slot : ring'[q][s].fence <= jobs'.last
    BY <1>3, <1>5
  <2> QED BY <1>3, <1>7, <1>8, <2>1, <2>2, <2>3, <2>4 DEF JobInv
<1>11. LayerInv'
  <2>1. SubmittingInv'
    BY <1>3, <1>4, <1>6, <1>7, <1>8 DEF SubmittingInv
  <2>2. ReadyInv' /\ SubmittedInv' /\ DownInv'
    BY <1>3, <1>6, <1>7 DEF ReadyInv, SubmittedInv, DownInv
  <2> QED BY <2>1, <2>2 DEF LayerInv
<1>12. \A q \in Queue : ~Ran(q)' /\ ~Retired(q)'
    BY <1>3, <1>4, <1>7 DEF Ran, Retired
<1>13. RingInv'
  <2>1. PointerInv'
    <3> SUFFICES ASSUME NEW q \in Queue
                 PROVE  /\ ~PublishLeft(q)' => written'[q] = backend'.expected[q]
                        /\ ~SendLeft(q)' => firmware'.head[q] = backend'.expected[q]
      BY DEF PointerInv
    <3>1. CASE q \in JobQueues(kind)
      BY <1>6, <3>1
    <3>2. CASE q \notin JobQueues(kind)
      BY <1>3, <1>4, <1>5, <3>2
    <3> QED BY <3>1, <3>2
  <2>2. RegionInv'
    <3> SUFFICES ASSUME NEW q \in Queue
                 PROVE  /\ Dist(firmware'.done[q], firmware'.head[q]) <= Left(q)'
                        /\ \A k \in 1 .. Left(q)' :
                             \/ Behind(q, k)'.fence \in 1 .. firmware.dropped
                             \/ Behind(q, k)'.fence = f /\ q \in JobQueues(kind)
                        /\ \A j, k \in 1 .. Left(q)' :
                             j < k => Behind(q, k)'.fence <= Behind(q, j)'.fence
      BY <1>3, <1>7, <1>8 DEF RegionInv, Dist
    <3>1. Dist(firmware'.done[q], firmware'.head[q]) = Left(q)
      BY <1>3, <1>4 DEF Dist, Left
    <3> QED BY <1>5, <3>1
  <2>3. ActiveInv'
    BY <1>3, <1>4 DEF ActiveInv
  <2>4. EntryInv'
    <3> SUFFICES ASSUME NEW q \in JobQueues(kind)
                 PROVE  /\ Left(q)' > 0
                        /\ Behind(q, 1)' = [fence |-> f, work |-> "work"]
                        /\ \A k \in 2 .. Left(q)' :
                             Behind(q, k)'.fence = f => Behind(q, k)'.work # "work"
                        /\ \A n \in Needs(q)' :
                             \E k \in 2 .. Left(q)' :
                               Behind(q, k)' = [fence |-> f, work |-> "barrier"]
      <4>1. JobQueues(kind) \subseteq Queue
        BY <1>4, KindQueues DEF Queue
      <4> QED BY <1>7, <1>12, <4>1 DEF EntryInv
    <3>1. q \in Queue
      BY <1>4, KindQueues DEF Queue
    <3>2. ASSUME NEW n \in Needs(q)'
          PROVE  (q = "d3" /\ kind # "compute") \/ (q = "ta" /\ kind = "joined")
      <4>1. q = "d3" => kind # "compute"
        BY <1>4, KindQueues
      <4>2. q = "d3" \/ (q = "ta" /\ kind = "joined")
        BY <1>7, <3>1, <3>2 DEF Needs, Queue
      <4> QED BY <4>1, <4>2
    <3>3. /\ Left(q)' > 0 /\ Behind(q, 1)' = [fence |-> f, work |-> "work"]
          /\ \A k \in 2 .. Left(q)' : Behind(q, k)'.fence = f => Behind(q, k)'.work # "work"
      BY <1>5, <3>1
    <3>4. ASSUME NEW n \in Needs(q)'
          PROVE  \E k \in 2 .. Left(q)' : Behind(q, k)' = [fence |-> f, work |-> "barrier"]
      BY <1>5, <3>1, <3>2
    <3> QED BY <3>3, <3>4
  <2>5. RanInv'
    BY <1>3, <1>7, <1>12 DEF RanInv
  <2>6. QuiescedInv'
    BY <1>3 DEF QuiescedInv
  <2> QED BY <2>1, <2>2, <2>3, <2>4, <2>5, <2>6 DEF RingInv
<1>14. ManagerInv'
  <2>1. firmware'.blind => firmware'.dropped # 0
    BY <1>a, <1>3 DEF IInv, ManagerInv
  <2>2. ASSUME firmware.dropped = 0, b PROVE Initialising'
    <3>1. runtime.bm /\ ~rebind
      BY <1>1, <2>2
    <3>2. Initialising
      BY <1>a, <1>4, <2>2, <3>1 DEF IInv, ManagerInv
    <3>3. Left("ta") = 0
      BY <1>4, <2>2 DEF Queue
    <3>4. firmware.init
      BY <3>2, <3>3 DEF Initialising
    <3>5. firmware'.init
      BY <1>3, <3>1, <3>4
    <3> QED BY <3>5 DEF Initialising
  <2>3. ASSUME ~b, kind # "compute" PROVE Initialising'
    BY <1>5, <2>3 DEF Initialising, Queue
  <2> QED BY <1>3, <1>7, <2>1, <2>2, <2>3 DEF ManagerInv
<1>15. EventInv'
  <2>1. /\ \A i : Fault(i)' <=> Fault(i)
        /\ Places' = Places
    BY <1>3 DEF Fault, Places
  <2>2. HaltInv'
    <3>1. \A i \in Places : events[i].kind = "flag" => events[i].queues # {}
      BY <1>a DEF IInv, EventInv, HaltInv
    <3> QED BY <1>3, <1>4, <2>1, <3>1 DEF HaltInv
  <2>3. ASSUME Undropped' PROVE FlagInv'
    <3>1. events' = <<>> /\ firmware'.raised = {} /\ Places' = {}
      BY <1>3, <1>4, <2>3 DEF Undropped, Places
    <3>2. \A q \in JobQueues(Kind)' : ~Ran(q)'
      <4>1. JobQueues(kind) \subseteq Queue
        BY <1>4, KindQueues DEF Queue
      <4> QED BY <1>7, <1>12, <4>1
    <3> QED BY <1>3, <1>6, <1>7, <1>12, <3>1, <3>2 DEF FlagInv
  <2>4. FlagInv'
    BY <2>3 DEF FlagInv
  <2>5. EventsAccepted'
    BY <1>a, <1>3 DEF IInv, EventInv, EventsAccepted
  <2> QED BY <2>2, <2>4, <2>5 DEF EventInv
<1> QED BY <1>9, <1>10, <1>11, <1>13, <1>14, <1>15 DEF IInv

\* A compute job that cannot be built leaves no trace but its verdict.
LEMMA ComputeRejectedKeeps ==
    ASSUME Known, NEW rebind \in BOOLEAN, SubmitRejected("compute", rebind), "compute" \in Kinds
    PROVE  IInv'
<1> HIDE DEF Known
<1>a. IInv
    BY DEF Known
<1>1. PICK f : f = jobs.last + 1
    OBVIOUS
<1>2. PICK r : r = "refused"
    OBVIOUS
<1>3. /\ Planned("compute") /\ ~rebind
      /\ UNCHANGED <<backend, provider, written, ring, todo, batch, window, events>>
      /\ runtime' = RequireInitBm(rebind) /\ firmware' = Rebound(rebind)
      /\ jobs' = [jobs EXCEPT !.last = f, !.kind[f] = "compute", !.verdict[f] = r]
    BY <1>1, <1>2 DEF SubmitRejected
<1>4. /\ backend.phase = "Ready" /\ Busy /\ todo = <<>> /\ window = 0 /\ batch = <<>>
      /\ backend.job = NoJob /\ F = 0 /\ ~backend.quiesced
      /\ firmware.running /\ Free /\ f \in Fence /\ firmware.dropped <= jobs.last
    BY <1>1, <1>3, Between
<1>5. runtime' = runtime /\ firmware' = firmware
  <2>1. runtime' = [runtime EXCEPT !.bm = runtime.bm]
    BY <1>a, <1>3 DEF RequireInitBm, IInv, Typed, RuntimeType
  <2>2. firmware' = [firmware EXCEPT !.init = firmware.init]
    BY <1>a, <1>3 DEF Rebound, IInv, Typed, FirmwareType
  <2> QED BY <1>a, <2>1, <2>2 DEF IInv, Typed, RuntimeType, FirmwareType
<1>6. /\ jobs' \in JobsType /\ jobs'.last = f /\ jobs'.ran = jobs.ran
      /\ jobs'.rejected = jobs.rejected
      /\ \A g \in Fence : g # f =>
           jobs'.kind[g] = jobs.kind[g] /\ jobs'.verdict[g] = jobs.verdict[g]
  <2>1. f \in 0 .. MaxFence
    BY <1>4, BoundAssumption DEF Fence
  <2> QED BY <1>a, <1>2, <1>3, <1>4, <2>1 DEF IInv, Typed, JobsType, Reply
<1>7. /\ RingSame /\ F' = F /\ Kind' = Kind /\ Terminated' = Terminated /\ Busy' = Busy
      /\ Free' = Free
  <2>1. F' = F /\ Kind' = Kind /\ Terminated' = Terminated /\ Busy' = Busy /\ Free' = Free
    BY <1>3, <1>5 DEF F, Kind, Terminated, Busy, Free
  <2> QED BY <1>3, <1>5, <1>6, <2>1 DEF RingSame
<1>8. jobs.last \in Nat /\ f > jobs.last /\ f \in Nat
    BY <1>a, <1>1, Fields DEF IInv
<1>9. Typed'
    BY <1>a, <1>3, <1>5, <1>6 DEF IInv, Typed
<1>10. JobInv'
  <2>1. ASSUME NEW g \in Fence, g > f
        PROVE  /\ jobs'.kind[g] = "none" /\ jobs'.verdict[g] = "none"
               /\ \A q \in Queue : <<g, q>> \notin jobs'.ran
    <3>1. g # f /\ g > jobs.last
      BY <1>8, <2>1 DEF Fence
    <3> QED BY <1>a, <1>6, <2>1, <3>1 DEF IInv, JobInv
  <2>2. firmware'.dropped <= jobs'.last
    <3>1. firmware.dropped \in Nat
      BY <1>a, Fields DEF IInv
    <3> QED BY <1>4, <1>5, <1>6, <1>8, <3>1
  <2>3. \A q \in Queue, s \in Slot : ring'[q][s].fence <= jobs'.last
    <3>1. \A q \in Queue, s \in Slot : ring[q][s].fence <= jobs.last /\ ring[q][s].fence \in Nat
      BY <1>a, BoundAssumption DEF IInv, JobInv, Typed, Entry
    <3> QED BY <1>3, <1>6, <1>8, <3>1
  <2>4. F' = 0 /\ backend'.job = NoJob
    BY <1>3, <1>4, <1>7
  <2> QED BY <1>6, <2>1, <2>2, <2>3, <2>4 DEF JobInv
<1>11. LayerInv'
    BY <1>3, <1>4, <1>5, <1>7
    DEF LayerInv, SubmittingInv, ReadyInv, SubmittedInv, DownInv
<1>12. RingInv'
    BY <1>a, <1>3, <1>5, <1>7, RingsKept, PointersKept, RanKept DEF IInv, RingInv, Noted
<1>13. ManagerInv'
    BY <1>a, <1>5, <1>7, ManagerKept DEF IInv
<1>14. EventInv'
    BY <1>a, <1>3, <1>5, <1>6, <1>7, EventsKept DEF IInv, EventInv, EventsAccepted, Free
<1> QED BY <1>9, <1>10, <1>11, <1>12, <1>13, <1>14 DEF IInv

\* A render job that cannot be built fails the backend: the job stays with it.
LEMMA RenderRejectedKeeps ==
    ASSUME Known, NEW kind \in Kinds, NEW rebind \in BOOLEAN, SubmitRejected(kind, rebind),
           kind # "compute"
    PROVE  IInv'
<1> HIDE DEF Known
<1>a. IInv
    BY DEF Known
<1>1. PICK f : f = jobs.last + 1
    OBVIOUS
<1>2. PICK b \in BOOLEAN : b = (runtime.bm /\ ~rebind)
    OBVIOUS
<1>3. PICK c \in BOOLEAN : c = (firmware.init /\ ~rebind)
    OBVIOUS
<1>4. /\ Planned(kind)
      /\ UNCHANGED <<provider, written, ring, todo, batch, window, events>>
      /\ runtime' = [runtime EXCEPT !.bm = b] /\ firmware' = [firmware EXCEPT !.init = c]
      /\ jobs' = [jobs EXCEPT !.last = f, !.kind[f] = kind]
      /\ backend' = [backend EXCEPT !.job = [NoJob EXCEPT !.kind = kind, !.fence = f],
                                    !.phase = "Failed", !.quiesced = TRUE]
    BY <1>1, <1>2, <1>3 DEF SubmitRejected, RequireInitBm, Rebound
<1>5. /\ backend.phase = "Ready" /\ todo = <<>> /\ window = 0 /\ batch = <<>>
      /\ firmware.running /\ Free /\ firmware.active = "none"
      /\ f \in Fence /\ firmware.dropped <= jobs.last
      /\ jobs.verdict[f] = "none"
      /\ \A q \in Queue : <<f, q>> \notin jobs.ran
      /\ \A q \in Queue : \A k \in 1 .. Left(q) : Behind(q, k).fence \in 1 .. firmware.dropped
      /\ firmware.dropped = 0 => \A q \in Queue : Left(q) = 0
    BY <1>1, <1>4, Between
<1>6. /\ jobs.last \in Nat /\ f > jobs.last /\ f \in Nat /\ f # 0 /\ f \in 0 .. MaxFence
      /\ firmware.dropped \in Nat
    BY <1>a, <1>1, <1>5, Fields DEF IInv, Fence
<1>7. /\ backend'.phase = "Failed" /\ backend'.quiesced = TRUE
      /\ backend'.expected = backend.expected /\ backend' \in BackendType
      /\ F' = f /\ Kind' = kind /\ Terminated' = "none" /\ backend'.job.complete = {}
  <2>1. PICK j : j = [kind |-> kind, fence |-> f, complete |-> {}, terminal |-> "none"]
    OBVIOUS
  <2>2. [NoJob EXCEPT !.kind = kind, !.fence = f] = j
    <3>1. PICK i : i = [NoJob EXCEPT !.kind = kind, !.fence = f]
      OBVIOUS
    <3>2. i = [kind |-> kind, fence |-> f, complete |-> {}, terminal |-> "none"]
      BY <3>1 DEF NoJob
    <3> QED BY <2>1, <3>1, <3>2
  <2>3. backend' = [backend EXCEPT !.job = j, !.phase = "Failed", !.quiesced = TRUE]
    BY <1>4, <2>2
  <2>4. backend' = [phase |-> "Failed", quiesced |-> TRUE, job |-> j,
                    expected |-> backend.expected]
    BY <1>a, <2>3 DEF IInv, Typed, BackendType
  <2>5. j \in [kind : Kinds \cup {"none"}, fence : 0 .. MaxFence,
               complete : SUBSET Queue, terminal : Terminal]
    BY <1>6, <2>1 DEF Terminal
  <2>6. backend.expected \in [Queue -> Slot]
    BY <1>a DEF IInv, Typed, BackendType
  <2>7. backend' \in BackendType
    BY <2>4, <2>5, <2>6 DEF BackendType
  <2>8. backend'.job = j
    BY <2>4
  <2> QED BY <2>1, <2>4, <2>7, <2>8 DEF F, Kind, Terminated
<1>8. /\ runtime' \in RuntimeType /\ runtime'.bm = b /\ runtime'.inRender = runtime.inRender
    BY <1>a, <1>4 DEF IInv, Typed, RuntimeType
<1>9. /\ firmware' \in FirmwareType /\ firmware'.init = c
      /\ firmware'.running = firmware.running /\ firmware'.active = firmware.active
      /\ firmware'.done = firmware.done /\ firmware'.head = firmware.head
      /\ firmware'.dropped = firmware.dropped /\ firmware'.blind = firmware.blind
    BY <1>a, <1>4 DEF IInv, Typed, FirmwareType
<1>10. /\ jobs' \in JobsType /\ jobs'.last = f /\ jobs'.ran = jobs.ran
       /\ jobs'.rejected = jobs.rejected /\ jobs'.verdict = jobs.verdict
       /\ jobs'.kind[f] = kind
       /\ \A g \in Fence : g # f => jobs'.kind[g] = jobs.kind[g]
    BY <1>a, <1>4, <1>5, <1>6 DEF IInv, Typed, JobsType
<1>11. Typed'
    BY <1>a, <1>4, <1>7, <1>8, <1>9, <1>10 DEF IInv, Typed
<1>12. \A q \in Queue, s \in Slot : ring[q][s].fence <= jobs.last /\ ring[q][s].fence \in Nat
    BY <1>a, BoundAssumption DEF IInv, JobInv, Typed, Entry
<1>13. JobInv'
  <2>1. ASSUME NEW g \in Fence, g > f
        PROVE  /\ jobs'.kind[g] = "none" /\ jobs'.verdict[g] = "none"
               /\ \A q \in Queue : <<g, q>> \notin jobs'.ran
    <3>1. g # f /\ g > jobs.last
      BY <1>6, <2>1 DEF Fence
    <3> QED BY <1>a, <1>10, <2>1, <3>1 DEF IInv, JobInv
  <2>2. firmware'.dropped <= jobs'.last
    BY <1>5, <1>6, <1>9, <1>10
  <2>3. \A q \in Queue, s \in Slot : ring'[q][s].fence <= jobs'.last
    BY <1>4, <1>6, <1>10, <1>12
  <2> QED BY <1>5, <1>6, <1>7, <1>10, <2>1, <2>2, <2>3 DEF JobInv
<1>14. LayerInv'
  <2>1. provider' = Idle /\ todo' = <<>> /\ window' = 0
    BY <1>4, <1>5 DEF Free
  <2>2. DownInv'
    BY <1>7, <2>1 DEF DownInv, Idle, EndsFence
  <2> QED BY <1>7, <2>1, <2>2 DEF LayerInv, SubmittingInv, ReadyInv, SubmittedInv
<1>15. /\ \A q : Left(q)' = Left(q)
       /\ \A q, k : Behind(q, k)' = Behind(q, k)
       /\ ~Busy'
    BY <1>4, <1>7, <1>9 DEF Left, Dist, Behind, Back, Busy
<1>16. RingInv'
  <2>1. PointerInv'
    BY <1>15 DEF PointerInv
  <2>2. RegionInv'
    <3>1. RegionInv
      BY <1>a DEF IInv, RingInv
    <3> QED BY <1>5, <1>9, <1>15, <3>1 DEF RegionInv, Dist
  <2>3. ActiveInv'
    BY <1>5, <1>9 DEF ActiveInv
  <2>4. EntryInv'
    BY <1>7 DEF EntryInv, OnRings
  <2>5. RanInv'
    <3>1. \A q \in Queue : ~Ran(q)'
      BY <1>5, <1>7, <1>10 DEF Ran
    <3> QED BY <1>7, <3>1 DEF RanInv
  <2>6. QuiescedInv'
    <3>1. \A q \in Queue, s \in Slot : ring'[q][s].fence # F'
      BY <1>4, <1>6, <1>7, <1>12
    <3> QED BY <3>1 DEF QuiescedInv
  <2> QED BY <2>1, <2>2, <2>3, <2>4, <2>5, <2>6 DEF RingInv
<1>17. ManagerInv'
  <2>1. firmware'.blind => firmware'.dropped # 0
    BY <1>a, <1>9 DEF IInv, ManagerInv
  <2>2. ASSUME firmware.dropped = 0, b PROVE Initialising'
    <3>1. runtime.bm /\ ~rebind
      BY <1>2, <2>2
    <3>2. Initialising
      BY <1>a, <1>5, <2>2, <3>1 DEF IInv, ManagerInv
    <3>3. Left("ta") = 0
      BY <1>5, <2>2 DEF Queue
    <3>4. firmware.init
      BY <3>2, <3>3 DEF Initialising
    <3>5. firmware'.init
      BY <1>3, <1>9, <3>1, <3>4
    <3> QED BY <3>5 DEF Initialising
  <2> QED BY <1>7, <1>8, <1>9, <2>1, <2>2 DEF ManagerInv
<1>18. EventInv'
  <2>1. HaltInv'
    <3>1. \A i \in Places : events[i].kind = "flag" => events[i].queues # {}
      BY <1>a DEF IInv, EventInv, HaltInv
    <3>2. Places' = Places /\ events' = events
      BY <1>4 DEF Places
    <3> QED BY <1>15, <3>1, <3>2 DEF HaltInv
  <2>2. FlagInv'
    BY <1>15 DEF FlagInv, Undropped
  <2>3. EventsAccepted'
    BY <1>a, <1>9, <1>10 DEF IInv, EventInv, EventsAccepted
  <2> QED BY <2>1, <2>2, <2>3 DEF EventInv
<1> QED BY <1>11, <1>13, <1>14, <1>16, <1>17, <1>18 DEF IInv

-----------------------------------------------------------------------------
(* The invariant.                                                          *)

\* Nothing is submitted at first.
LEMMA InitHolds ==
    ASSUME Init
    PROVE  IInv
<1>1. /\ Capacity \in Nat /\ 0 \in Slot /\ MaxFence \in Nat /\ 0 \in 0 .. MaxFence
      /\ StampModulus \in Nat /\ 0 \in 0 .. StampModulus - 1
      /\ MaxFaults \in Nat /\ 0 \in 0 .. MaxFaults
    BY CapacityAssumption, BoundAssumption, StampAssumption DEF Slot
<1>2. /\ backend.phase = "Ready" /\ ~backend.quiesced /\ backend.job = NoJob
      /\ F = 0 /\ Kind = "none" /\ Terminated = "none" /\ backend.job.complete = {}
      /\ \A q \in Queue : backend.expected[q] = 0
    BY DEF Init, NoJob, F, Kind, Terminated
<1>3. Typed
  <2>1. backend \in BackendType
    <3>1. NoJob \in [kind : Kinds \cup {"none"}, fence : 0 .. MaxFence,
                     complete : SUBSET Queue, terminal : Terminal]
      BY <1>1 DEF NoJob, Terminal
    <3>2. [q \in Queue |-> 0] \in [Queue -> Slot]
      BY <1>1
    <3>3. PICK e \in [Queue -> Slot] : e = [q \in Queue |-> 0]
      BY <3>2
    <3>4. backend = [phase |-> "Ready", quiesced |-> FALSE, job |-> NoJob, expected |-> e]
      BY <3>3 DEF Init
    <3> QED BY <3>1, <3>4 DEF BackendType
  <2>2. provider \in ProviderType
    BY <1>1 DEF Init, ProviderType, ProviderPhase, Idle
  <2>3. runtime \in RuntimeType
    BY <1>1 DEF Init, RuntimeType
  <2>4. written \in [Queue -> Slot]
    BY <1>1 DEF Init
  <2>5. ring \in [Queue -> [Slot -> Entry]]
    <3>1. [fence |-> 0, work |-> "none"] \in Entry
      BY <1>1 DEF Entry
    <3> QED BY <3>1 DEF Init
  <2>6. firmware \in FirmwareType
    <3>1. PICK e \in [Queue -> Slot] : e = [q \in Queue |-> 0]
      BY <1>1
    <3>2. PICK s \in [Queue -> 0 .. StampModulus - 1] : s = [q \in Queue |-> 0]
      BY <1>1
    <3>3. firmware = [running |-> TRUE, halted |-> FALSE, active |-> "none",
                      done |-> e, head |-> e, stamp |-> s, raised |-> {}, dropped |-> 0,
                      init |-> FALSE, blind |-> FALSE]
      BY <3>1, <3>2 DEF Init
    <3> QED BY <1>1, <3>3 DEF FirmwareType
  <2>7. jobs \in JobsType
    <3>1. PICK k \in [Fence -> Kinds \cup {"none"}] : k = [f \in Fence |-> "none"]
      OBVIOUS
    <3>2. PICK v \in [Fence -> Reply] : v = [f \in Fence |-> "none"]
      BY DEF Reply
    <3>3. jobs = [last |-> 0, faults |-> 0, ran |-> {}, rejected |-> {}, kind |-> k,
                  verdict |-> v]
      BY <3>1, <3>2 DEF Init
    <3> QED BY <1>1, <3>3 DEF JobsType
  <2>8. /\ todo \in Seq({"publish", "send"} \X Queue) /\ batch \in Seq(Observation)
        /\ events \in Seq(Event) /\ window \in Nat /\ window <= Len(events)
    BY DEF Init
  <2> QED BY <2>1, <2>2, <2>3, <2>4, <2>5, <2>6, <2>7, <2>8 DEF Typed
<1>4. \A q \in Queue : Left(q) = 0 /\ ~Ran(q)
    BY <1>1 DEF Init, Left, Dist, Ran
<1>5. JobInv
    BY <1>1, <1>2 DEF Init, JobInv
<1>6. Free /\ todo = <<>> /\ batch = <<>> /\ events = <<>> /\ firmware.raised = {}
    BY DEF Init, Free
<1>7. LayerInv
    BY <1>2, <1>6 DEF Init, LayerInv, SubmittingInv, ReadyInv, SubmittedInv, DownInv, Busy
<1>8. RingInv
  <2>1. PointerInv
    BY <1>2 DEF Init, PointerInv
  <2>2. RegionInv
    BY <1>1, <1>4 DEF Init, RegionInv, Dist
  <2>3. ActiveInv
    BY DEF Init, ActiveInv
  <2>4. EntryInv
    BY <1>2, KindQueues DEF EntryInv
  <2>5. RanInv
    BY <1>2, <1>4 DEF RanInv
  <2>6. QuiescedInv
    BY <1>2 DEF QuiescedInv
  <2> QED BY <2>1, <2>2, <2>3, <2>4, <2>5, <2>6 DEF RingInv
<1>9. ManagerInv
    BY <1>2 DEF Init, ManagerInv
<1>10. EventInv
  <2>1. Places = {}
    BY <1>6 DEF Places
  <2>2. HaltInv
    BY <2>1 DEF HaltInv
  <2>3. FlagInv
    BY <1>2, <1>4, <1>6, <2>1, KindQueues DEF FlagInv
  <2>4. EventsAccepted
    BY DEF Init, EventsAccepted
  <2> QED BY <2>2, <2>3, <2>4 DEF EventInv
<1> QED BY <1>3, <1>5, <1>7, <1>8, <1>9, <1>10 DEF IInv

\* A step that changes nothing.
LEMMA StutterKeeps ==
    ASSUME IInv, UNCHANGED vars
    PROVE  IInv'
<1>1. UNCHANGED <<backend, provider, runtime, written, ring, todo, batch, window, events,
                  firmware, jobs>>
    BY DEF vars
<1>2. RingSame /\ F' = F /\ Kind' = Kind /\ Terminated' = Terminated /\ Busy' = Busy
    BY <1>1 DEF RingSame, F, Kind, Terminated, Busy
<1>3. Typed'
    BY <1>1 DEF IInv, Typed
<1>4. JobInv'
    BY <1>1, <1>2, JobKept DEF IInv
<1>5. LayerInv'
    BY <1>1, LayersKept DEF IInv
<1>6. RingInv'
    BY <1>1, <1>2, RingsKept, PointersKept, RanKept DEF IInv, RingInv, Noted
<1>7. ManagerInv'
    BY <1>1, <1>2, ManagerKept DEF IInv
<1>8. EventInv'
    BY <1>1, <1>2, EventsKept DEF IInv, EventInv, EventsAccepted, Free
<1> QED BY <1>3, <1>4, <1>5, <1>6, <1>7, <1>8 DEF IInv

\* Every step keeps the invariant, if the run messages of compute jobs are sent.
LEMMA StepKeeps ==
    ASSUME Known, [Next]_vars
    PROVE  Known'
<1> HIDE DEF Known
<1>0. IInv /\ ComputeSends /\ ComputeSends'
    BY DEF Known, ComputeSends
<1>1. IInv' => Known'
    BY <1>0 DEF Known
<1>2. CASE UNCHANGED vars
    BY <1>0, <1>1, <1>2, StutterKeeps
<1>3. ASSUME NEW kind \in Kinds, NEW rebind \in BOOLEAN, Submit(kind, rebind) PROVE IInv'
    BY <1>3, SubmitKeeps
<1>4. ASSUME NEW kind \in Kinds, NEW rebind \in BOOLEAN, SubmitRejected(kind, rebind)
      PROVE  IInv'
    BY <1>4, ComputeRejectedKeeps, RenderRejectedKeeps
<1>5. CASE Publish \/ Send \/ SendFails
    BY <1>5, <1>1, PublishKeeps, SendKeeps, SendFailsKeeps
<1>6. CASE Poll \/ RejectEvent
    BY <1>6, <1>1, PollKeeps, RejectEventKeeps
<1>7. CASE IngestFlag \/ IngestOther \/ IngestRecovered \/ IngestTerminal
    BY <1>7, <1>1, IngestFlagKeeps, IngestOtherKeeps, IngestRecoveredKeeps, IngestTerminalKeeps
<1>8. CASE ObserveQueue \/ Acknowledge \/ AcknowledgeRefused \/ ObserveFault
    BY <1>8, <1>1, ObserveQueueKeeps, AcknowledgeKeeps, AcknowledgeRefusedKeeps, ObserveFaultKeeps
<1>9. CASE StopBegin \/ StopRefused \/ StopFinish \/ RetireRefused
    BY <1>9, <1>1, StopBeginKeeps, StopRefusedKeeps, StopFinishKeeps, RetireRefusedKeeps
<1>10. ASSUME NEW q \in Queue, FwEntry(q) \/ FwDrop(q) PROVE IInv'
    BY <1>10, FwEntryKeeps, FwDropKeeps
<1>11. CASE FwRetire \/ FwPost \/ FwGrow \/ FwFault
    BY <1>11, <1>1, FwRetireKeeps, FwPostKeeps, FwGrowKeeps, FwFaultKeeps
<1> QED BY <1>1, <1>2, <1>3, <1>4, <1>5, <1>6, <1>7, <1>8, <1>9, <1>10, <1>11
        DEF Next, Worker, Firmware

\* The invariant holds in every run, and after it.
LEMMA Inductive == ComputeSends /\ Spec => []Known
<1>1. ComputeSends /\ Init => Known
    BY InitHolds DEF Known
<1>2. Known /\ [Next]_vars => Known'
    BY StepKeeps
<1> QED BY <1>1, <1>2, PTL DEF Spec

-----------------------------------------------------------------------------
(* The properties.                                                         *)

\* The state of the backend, the provider, the runtime, the rings and the firmware
\* keeps its types, whatever events, faults, failed sends and stops come.
THEOREM TypeCorrect == ComputeSends /\ Spec => []TypeOK
<1>1. Known => TypeOK
    BY DEF Known, IInv, Typed, TypeOK, BackendType, ProviderType, ProviderPhase, RuntimeType,
           FirmwareType, JobsType, Terminal
<1> QED BY <1>1, Inductive, PTL

\* Without a recovery no event outlives its job in the event ring: IngestEvent
\* turns one away only after a stop that failed (RejectEvent), however the
\* firmware groups the queues in its Flag events.
THEOREM EventsNeverOutlive == ComputeSends /\ Spec => []EventsAccepted
<1>1. Known => EventsAccepted
    BY DEF Known, IInv, EventInv
<1> QED BY <1>1, Inductive, PTL

\* TA work never runs before the InitBM of its buffer manager, unless a drop took
\* that entry: AppleAgxG13QueueRuntimeRunTa counts the manager as initialised when
\* the job is submitted, not when the firmware performs it.
THEOREM ManagerFirst == ComputeSends /\ Spec => []ManagerInitialised
<1>1. Known => ManagerInitialised
    BY DEF Known, IInv, ManagerInv, ManagerInitialised
<1> QED BY <1>1, Inductive, PTL

\* Backend, provider and runtime agree on the job between two calls: who has it,
\* whether the next can be submitted, and that quiesced queues hold nothing of it
\* that the firmware may still fetch.
THEOREM LayersStayTogether == ComputeSends /\ Spec => []LayersAgree
<1>1. Known => LayersAgree
  <2> SUFFICES ASSUME Known, todo = <<>>
               PROVE  /\ provider.fence \in {0, backend.job.fence} \/ EndedEarly
                      /\ backend.phase = "Ready" =>
                           \/ provider = Idle /\ runtime.phase = "Ready"
                           \/ EndedEarly
                      /\ backend.phase = "Submitted" /\ backend.job.terminal = "none"
                         /\ batch = <<>> => provider.fence = backend.job.fence
                      /\ backend.quiesced =>
                           \/ ~firmware.running
                           \/ \A q \in Queue, s \in Slot :
                                ring[q][s].fence = 0 \/ ring[q][s].fence # backend.job.fence
    BY DEF LayersAgree
  <2>1. Idle.fence = 0
    BY DEF Idle
  <2>2. Early => EndedEarly
    BY DEF Early, EndedEarly
  <2>3. CASE backend.phase = "Ready"
    <3>1. Free \/ Early
      BY <2>3 DEF Known, IInv, LayerInv, ReadyInv
    <3>2. ~backend.quiesced
      BY <2>3 DEF Known, IInv, LayerInv, ReadyInv
    <3> QED BY <2>1, <2>2, <2>3, <3>1, <3>2 DEF Free
  <2>4. backend.quiesced =>
          \/ ~firmware.running
          \/ \A q \in Queue, s \in Slot : ring[q][s].fence = 0 \/ ring[q][s].fence # backend.job.fence
    BY DEF Known, IInv, RingInv, QuiescedInv, F
  <2>5. CASE backend.phase = "Submitted"
    <3>1. InFlight \/ Completed \/ Dropped \/ Faulting \/ FaultSeen
      BY <2>5 DEF Known, IInv, LayerInv, SubmittedInv
    <3>2. provider.fence \in {0, F}
      BY <2>1, <3>1 DEF InFlight, Completed, Dropped, Faulting, FaultSeen, Free
    <3>3. batch = <<>> => ~Dropped /\ ~FaultSeen /\ ~Completed
      BY NotedOnes DEF Dropped, FaultSeen, Completed, Observed
    <3>4. InFlight \/ Faulting => provider.fence = F
      BY DEF InFlight, Faulting
    <3> QED BY <2>4, <2>5, <3>1, <3>2, <3>3, <3>4 DEF F
  <2>6. CASE ~Busy
    <3>1. provider.fence \in {0, F} \/ EndedEarly
      BY <2>6 DEF Known, IInv, LayerInv, DownInv
    <3> QED BY <2>4, <2>6, <3>1 DEF F, Busy
  <2> QED BY <2>3, <2>5, <2>6 DEF Busy
<1> QED BY <1>1, Inductive, PTL

-----------------------------------------------------------------------------
(* The job engine.                                                         *)

\* A step the job engine does not see.
Unseen ==
    /\ backend'.job.fence = backend.job.fence
    /\ jobs'.kind = jobs.kind /\ jobs'.ran = jobs.ran /\ jobs'.verdict = jobs.verdict

\* Most of the worker's steps are such.
LEMMA WorkerUnseen ==
    ASSUME IInv, ComputeSends,
           \/ Publish \/ Send \/ SendFails \/ Poll \/ RejectEvent
           \/ IngestFlag \/ IngestOther \/ IngestRecovered \/ IngestTerminal
           \/ ObserveQueue \/ AcknowledgeRefused \/ ObserveFault
           \/ StopRefused \/ RetireRefused
    PROVE  Unseen
<1>1. backend \in BackendType /\ jobs \in JobsType
    BY DEF IInv, Typed
<1>2. ASSUME backend' = backend, jobs' = jobs PROVE Unseen
    BY <1>2 DEF Unseen
<1>3. CASE Publish \/ Poll \/ IngestFlag \/ IngestOther \/ IngestRecovered \/ IngestTerminal
    BY <1>2, <1>3 DEF Publish, Poll, IngestFlag, IngestOther, IngestRecovered, IngestTerminal
<1>4. CASE Send
  <2>1. jobs' = jobs /\ backend' \in {backend, [backend EXCEPT !.phase = "Submitted"]}
    BY <1>4 DEF Send
  <2> QED BY <1>1, <2>1 DEF Unseen, BackendType
<1>5. CASE SendFails
  <2>1. backend.job.kind # "compute"
    BY <1>5 DEF SendFails, ComputeSends
  <2>2. PICK d, fw : GiveUpJob(fw, d, backend.job.fence)
    BY <1>5 DEF SendFails
  <2>3. PICK e : /\ backend' = [backend EXCEPT !.phase = "Failed", !.quiesced = e]
                 /\ jobs' = jobs
    BY <2>1, <2>2 DEF GiveUpJob
  <2> QED BY <1>1, <2>3 DEF Unseen, BackendType
<1>6. CASE RejectEvent
  <2>1. backend' = backend /\ jobs' = [jobs EXCEPT !.rejected = @ \cup {provider.phase}]
    BY <1>6 DEF RejectEvent
  <2> QED BY <1>1, <2>1 DEF Unseen, JobsType
<1>7. CASE ObserveQueue
  <2>1. jobs' = jobs /\ backend' = [backend EXCEPT !.job.complete = @ \cup {Head(batch)}]
    BY <1>7 DEF ObserveQueue
  <2> QED BY <1>1, <2>1 DEF Unseen, BackendType
<1>8. CASE AcknowledgeRefused
  <2>1. jobs' = jobs /\ backend' = [backend EXCEPT !.job.terminal = Conclusion]
    BY <1>8 DEF AcknowledgeRefused
  <2> QED BY <1>1, <2>1 DEF Unseen, BackendType
<1>9. CASE ObserveFault
  <2>1. /\ jobs' = jobs
        /\ backend' \in {[backend EXCEPT !.quiesced = TRUE, !.job.terminal = "faulted"],
                         [backend EXCEPT !.phase = "Failed"]}
    BY <1>9 DEF ObserveFault
  <2>2. CASE backend' = [backend EXCEPT !.phase = "Failed"]
    BY <1>1, <2>1, <2>2 DEF Unseen, BackendType
  <2>3. CASE backend' = [backend EXCEPT !.quiesced = TRUE, !.job.terminal = "faulted"]
    <3>1. backend'.job = [backend.job EXCEPT !.terminal = "faulted"]
      BY <1>1, <2>3 DEF BackendType
    <3>2. [backend.job EXCEPT !.terminal = "faulted"].fence = backend.job.fence
      BY <1>1 DEF BackendType
    <3> QED BY <2>1, <3>1, <3>2 DEF Unseen
  <2> QED BY <2>1, <2>2, <2>3
<1>10. CASE StopRefused
  <2>1. jobs' = jobs /\ backend' = [backend EXCEPT !.phase = "Failed"]
    BY <1>10 DEF StopRefused
  <2> QED BY <1>1, <2>1 DEF Unseen, BackendType
<1>11. CASE RetireRefused
  <2>1. jobs' = jobs /\ backend' = [backend EXCEPT !.phase = "Failed", !.job.terminal = "cancelled"]
    BY <1>11 DEF RetireRefused
  <2> QED BY <1>1, <2>1 DEF Unseen, BackendType
<1> QED BY <1>3, <1>4, <1>5, <1>6, <1>7, <1>8, <1>9, <1>10, <1>11

\* So are those of the firmware that perform nothing.
LEMMA FirmwareUnseen ==
    ASSUME IInv, FwRetire \/ FwPost \/ FwGrow \/ FwFault \/ \E q \in Queue : FwDrop(q)
    PROVE  Unseen
<1>1. jobs \in JobsType
    BY DEF IInv, Typed
<1>2. CASE FwFault
  <2>1. backend' = backend /\ jobs' = [jobs EXCEPT !.faults = @ + 1]
    BY <1>2 DEF FwFault
  <2> QED BY <1>1, <2>1 DEF Unseen, JobsType
<1>3. CASE FwRetire \/ FwPost \/ FwGrow \/ \E q \in Queue : FwDrop(q)
  <2>1. backend' = backend /\ jobs' = jobs
    BY <1>3 DEF FwRetire, FwPost, FwGrow, FwDrop
  <2> QED BY <2>1 DEF Unseen
<1> QED BY <1>2, <1>3

\* What the firmware performs is work of the job the backend holds, for the first
\* time.
LEMMA Performs ==
    ASSUME IInv, NEW q \in Queue, FwEntry(q), ~Unseen
    PROVE  /\ backend' = backend /\ jobs'.ran = jobs.ran \cup {<<F, q>>}
           /\ jobs'.kind = jobs.kind /\ jobs'.verdict = jobs.verdict
           /\ F # 0 /\ F \in Fence /\ q \in JobQueues(Kind) /\ ~Ran(q)
<1>1. Fetching(q) /\ backend' = backend /\ Fetched(q).fence > firmware.dropped
    BY DEF FwEntry
<1>2. /\ Fetched(q).fence = F /\ F # 0 /\ q \in JobQueues(Kind) /\ ~Ran(q)
    BY <1>1, Fetchable
<1>3. Fetched(q).work = "work"
  <2>1. Fetched(q).work # "work" => jobs' = jobs
    BY DEF FwEntry
  <2> QED BY <1>1, <2>1 DEF Unseen
<1>4. jobs' = [jobs EXCEPT !.ran = @ \cup {<<F, q>>}]
    BY <1>2, <1>3 DEF FwEntry
<1>5. F \in Fence
    BY <1>2, Fields DEF IInv, Fence
<1> QED BY <1>1, <1>2, <1>4, <1>5 DEF IInv, Typed, JobsType

\* What a step of the stack may do to the jobs: nothing, take or refuse the next
\* one, perform work of the one it holds, or end it.
JobStep ==
    \/ Unseen
    \/ \E kind \in Kinds, rebind \in BOOLEAN : Submit(kind, rebind) \/ SubmitRejected(kind, rebind)
    \/ Acknowledge \/ StopBegin \/ StopFinish
    \/ \E q \in Queue : FwEntry(q) /\ ~Unseen

\* Every step is one of these.
LEMMA StepsOfJobs ==
    ASSUME IInv, ComputeSends, [Next]_vars
    PROVE  JobStep
<1>1. CASE UNCHANGED vars
    BY <1>1 DEF vars, Unseen, JobStep
<1>2. CASE Worker
  <2>1. ASSUME \/ Publish \/ Send \/ SendFails \/ Poll \/ RejectEvent
               \/ IngestFlag \/ IngestOther \/ IngestRecovered \/ IngestTerminal
               \/ ObserveQueue \/ AcknowledgeRefused \/ ObserveFault
               \/ StopRefused \/ RetireRefused
        PROVE  JobStep
    BY <2>1, WorkerUnseen DEF JobStep
  <2> QED BY <1>2, <2>1 DEF Worker, JobStep
<1>3. CASE Firmware
  <2>1. ASSUME FwRetire \/ FwPost \/ FwGrow \/ FwFault \/ \E q \in Queue : FwDrop(q)
        PROVE  JobStep
    BY <2>1, FirmwareUnseen DEF JobStep
  <2> QED BY <1>3, <2>1 DEF Firmware, JobStep
<1> QED BY <1>1, <1>2, <1>3 DEF Next

\* The record of the jobs across the steps that take, refuse or end one.
LEMMA RecordedSteps ==
    ASSUME IInv
    PROVE  /\ Acknowledge \/ StopBegin \/ StopFinish => jobs'.kind = jobs.kind /\ jobs'.ran = jobs.ran
           /\ \A kind \in Kinds, rebind \in BOOLEAN :
                Submit(kind, rebind) \/ SubmitRejected(kind, rebind) => jobs'.ran = jobs.ran
<1>1. jobs \in JobsType
    BY DEF IInv, Typed
<1>2. ASSUME Acknowledge \/ StopBegin \/ StopFinish
      PROVE  jobs'.kind = jobs.kind /\ jobs'.ran = jobs.ran
  <2>1. \/ jobs' = jobs
        \/ \E v : jobs' = [jobs EXCEPT !.verdict[backend.job.fence] = v]
    BY <1>2 DEF Acknowledge, StopBegin, StopFinish
  <2>2. ASSUME NEW v, jobs' = [jobs EXCEPT !.verdict[backend.job.fence] = v]
        PROVE  jobs'.kind = jobs.kind /\ jobs'.ran = jobs.ran
    BY <1>1, <2>2 DEF JobsType
  <2> QED BY <2>1, <2>2
<1>3. ASSUME NEW kind \in Kinds, NEW rebind \in BOOLEAN,
             Submit(kind, rebind) \/ SubmitRejected(kind, rebind)
      PROVE  jobs'.ran = jobs.ran
  <2>1. PICK f : f = jobs.last + 1
    OBVIOUS
  <2>2. \/ jobs' = [jobs EXCEPT !.last = f, !.kind[f] = kind]
        \/ jobs' = [jobs EXCEPT !.last = f, !.kind[f] = kind, !.verdict[f] = "refused"]
    BY <1>3, <2>1 DEF Submit, SubmitRejected
  <2> QED BY <1>1, <2>2 DEF JobsType
<1> QED BY <1>2, <1>3

\* The firmware performs only what belongs to the job the backend holds: no slot,
\* pointer or late message makes it run an entry of a job that has ended, whose
\* memory the next job may already use.
THEOREM RunsOnlyPending == ComputeSends /\ Spec => OnlyPendingRuns
<1>1. Known /\ [Next]_vars =>
        [\A f \in Fence, q \in Queue :
           <<f, q>> \in jobs'.ran \ jobs.ran => f = backend.job.fence]_vars
  <2> SUFFICES ASSUME Known, [Next]_vars, NEW f \in Fence, NEW q \in Queue,
                      <<f, q>> \in jobs'.ran, <<f, q>> \notin jobs.ran
               PROVE  f = backend.job.fence
    OBVIOUS
  <2> HIDE DEF Known
  <2>1. IInv /\ ComputeSends
    BY DEF Known
  <2>2. JobStep
    BY <2>1, StepsOfJobs
  <2>3. jobs'.ran # jobs.ran
    OBVIOUS
  <2>4. PICK p \in Queue : FwEntry(p) /\ ~Unseen
    BY <2>1, <2>2, <2>3, RecordedSteps DEF JobStep, Unseen
  <2>5. jobs'.ran = jobs.ran \cup {<<F, p>>}
    BY <2>1, <2>4, Performs
  <2> QED BY <2>5 DEF F
<1> QED BY <1>1, Inductive, PTL DEF Spec, OnlyPendingRuns

\* The jobs that are performed change with the record alone.
LEMMA PerformedKept ==
    ASSUME jobs'.kind = jobs.kind, jobs'.ran = jobs.ran
    PROVE  performed' = performed
    BY DEF performed

\* A job that is recorded has run nowhere.
LEMMA PerformedRecorded ==
    ASSUME NEW f \in Fence, NEW kind \in Kinds, jobs.kind \in [Fence -> Kinds \cup {"none"}],
           jobs'.kind = [jobs.kind EXCEPT ![f] = kind], jobs'.ran = jobs.ran,
           jobs.kind[f] = "none", \A q \in Queue : <<f, q>> \notin jobs.ran
    PROVE  performed' = performed /\ f \notin performed
<1>1. f \notin performed
    BY DEF performed
<1>2. f \notin performed'
  <2>1. kind \in {"render", "joined", "compute"}
    BY KindQueues
  <2>2. PICK q : q \in JobQueues(kind)
    BY <2>1, KindQueues
  <2>3. q \in Queue
    BY <2>1, <2>2, KindQueues DEF Queue
  <2>4. jobs'.kind[f] = kind /\ <<f, q>> \notin jobs'.ran
    BY <2>3
  <2> QED BY <2>2, <2>4 DEF performed
<1>3. ASSUME NEW g \in Fence, g # f PROVE g \in performed' <=> g \in performed
  <2>1. jobs'.kind[g] = jobs.kind[g]
    BY <1>3
  <2> QED BY <2>1 DEF performed
<1>4. performed' \subseteq Fence /\ performed \subseteq Fence
    BY DEF performed
<1> QED BY <1>1, <1>2, <1>3, <1>4

\* Work of the job the backend holds completes at most that job.
LEMMA PerformedGrows ==
    ASSUME NEW f \in Fence, NEW q, q \in JobQueues(jobs.kind[f]), <<f, q>> \notin jobs.ran,
           jobs'.kind = jobs.kind, jobs'.ran = jobs.ran \cup {<<f, q>>}
    PROVE  f \notin performed /\ performed' \in {performed, performed \cup {f}}
<1>1. f \notin performed
    BY DEF performed
<1>2. ASSUME NEW g \in Fence, g # f PROVE g \in performed' <=> g \in performed
  <2>1. \A p : <<g, p>> \in jobs'.ran <=> <<g, p>> \in jobs.ran
    BY <1>2
  <2> QED BY <2>1 DEF performed
<1>3. performed' \subseteq Fence /\ performed \subseteq Fence
    BY DEF performed
<1> QED BY <1>1, <1>2, <1>3

\* A step of the stack is a step of the job engine, or one it does not see.
LEMMA StepRefines ==
    ASSUME Known, [Next]_vars
    PROVE  [Engine!Next]_(Engine!vars)
<1> HIDE DEF Known
<1>a. IInv /\ ComputeSends /\ JobStep
    BY StepsOfJobs DEF Known
<1>b. backend \in BackendType /\ jobs \in JobsType /\ F = backend.job.fence
    BY <1>a DEF IInv, Typed, F
<1>c. NoJob.fence = 0
    BY DEF NoJob
<1>1. CASE Unseen
  <2>1. performed' = performed
    BY <1>1, PerformedKept DEF Unseen
  <2> QED BY <1>1, <2>1 DEF Unseen, Engine!vars
<1>2. ASSUME NEW kind \in Kinds, NEW rebind \in BOOLEAN,
             Submit(kind, rebind) \/ SubmitRejected(kind, rebind)
      PROVE  Engine!Next
  <2>1. PICK f : f = jobs.last + 1
    OBVIOUS
  <2>2. Planned(kind)
    BY <1>2 DEF Submit, SubmitRejected
  <2>3. /\ f \in Fence /\ jobs.verdict[f] = "none" /\ backend.job = NoJob
        /\ \A q \in Queue : <<f, q>> \notin jobs.ran
    <3>1. Known
      BY <1>a DEF Known
    <3> QED BY <2>1, <2>2, <3>1, Between
  <2>4. jobs.kind[f] = "none"
    <3>1. f > jobs.last
      BY <1>a, <2>1, Fields DEF IInv
    <3> QED BY <1>a, <2>3, <3>1 DEF IInv, JobInv
  <2>5. backend.job.fence = 0
    BY <1>c, <2>3
  <2>6. CASE SubmitRejected(kind, rebind) /\ kind = "compute"
    <3>1. PICK r \in Reply : r = "refused"
      BY DEF Reply
    <3>2. /\ jobs' = [jobs EXCEPT !.last = f, !.kind[f] = kind, !.verdict[f] = r]
          /\ backend' = backend
      BY <2>1, <2>6, <3>1 DEF SubmitRejected
    <3>3. /\ jobs'.ran = jobs.ran /\ jobs'.kind = [jobs.kind EXCEPT ![f] = kind]
          /\ jobs'.verdict = [jobs.verdict EXCEPT ![f] = r]
      BY <1>b, <3>2 DEF JobsType
    <3>4. performed' = performed /\ f \notin performed
      BY <1>b, <2>3, <2>4, <3>3, PerformedRecorded DEF JobsType
    <3>5. Engine!Refuse(f)
      BY <2>3, <2>5, <3>1, <3>2, <3>3, <3>4 DEF Engine!Refuse
    <3> QED BY <2>3, <3>5 DEF Engine!Next
  <2>7. CASE Submit(kind, rebind) \/ (SubmitRejected(kind, rebind) /\ kind # "compute")
    <3>1. jobs' = [jobs EXCEPT !.last = f, !.kind[f] = kind]
      BY <2>1, <2>7 DEF Submit, SubmitRejected
    <3>2. backend'.job = [NoJob EXCEPT !.kind = kind, !.fence = f]
      <4>1. PICK j : j = [NoJob EXCEPT !.kind = kind, !.fence = f]
        OBVIOUS
      <4>2. CASE SubmitRejected(kind, rebind) /\ kind # "compute"
        <5>1. backend' = [backend EXCEPT !.job = j, !.phase = "Failed", !.quiesced = TRUE]
          BY <2>1, <4>1, <4>2 DEF SubmitRejected
        <5> QED BY <1>b, <4>1, <5>1 DEF BackendType
      <4>3. CASE Submit(kind, rebind)
        <5>1. PICK e : e = [q \in Queue |-> NextDone(q, kind, RequireInitBm(rebind).bm)]
          OBVIOUS
        <5>2. backend' = [backend EXCEPT !.job = j, !.expected = e]
          BY <2>1, <4>1, <4>3, <5>1 DEF Submit
        <5> QED BY <1>b, <4>1, <5>2 DEF BackendType
      <4> QED BY <2>7, <4>2, <4>3
    <3>3. backend'.job.fence = f
      <4>1. PICK j : j = [NoJob EXCEPT !.kind = kind, !.fence = f]
        OBVIOUS
      <4>2. j = [kind |-> kind, fence |-> f, complete |-> {}, terminal |-> "none"]
        BY <4>1 DEF NoJob
      <4> QED BY <3>2, <4>1, <4>2
    <3>4. /\ jobs'.ran = jobs.ran /\ jobs'.kind = [jobs.kind EXCEPT ![f] = kind]
          /\ jobs'.verdict = jobs.verdict
      BY <1>b, <3>1 DEF JobsType
    <3>5. performed' = performed
      BY <1>b, <2>3, <2>4, <3>4, PerformedRecorded DEF JobsType
    <3>6. Engine!Take(f)
      BY <2>3, <2>5, <3>3, <3>4, <3>5 DEF Engine!Take
    <3> QED BY <2>3, <3>6 DEF Engine!Next
  <2> QED BY <1>2, <2>6, <2>7
<1>3. ASSUME NEW v \in {"success", "dropped", "cancelled"}, F # 0,
             v = "success" => \A q \in JobQueues(Kind) : Retired(q),
             backend'.job = NoJob, jobs'.kind = jobs.kind, jobs'.ran = jobs.ran,
             jobs'.verdict = [jobs.verdict EXCEPT ![F] = v]
      PROVE  Engine!Next
  <2>1. performed' = performed
    BY <1>3, PerformedKept
  <2>2. v = "success" => F \in performed
    <3>1. F \in Fence /\ jobs.kind[F] = Kind /\ Kind # "none"
      <4>1. F \in Fence
        BY <1>a, <1>3, Fields DEF IInv, Fence
      <4>2. jobs.kind[F] = Kind /\ Kind \in Kinds
        BY <1>a, <1>3 DEF IInv, JobInv
      <4> QED BY <4>1, <4>2, KindQueues
    <3> QED BY <1>3, <3>1 DEF performed, Retired, Ran
  <2>3. Engine!End(v)
    BY <1>b, <1>c, <1>3, <2>1, <2>2 DEF Engine!End
  <2> QED BY <2>3 DEF Engine!Next
<1>4. CASE Acknowledge
  <2>1. PICK v : v = Conclusion
    OBVIOUS
  <2>2. /\ Observing /\ EndsFence(Conclusion)
        /\ backend' = [backend EXCEPT !.phase = "Ready", !.job = NoJob]
        /\ jobs' = [jobs EXCEPT !.verdict[F] = v]
    BY <1>4, <2>1 DEF Acknowledge, F
  <2>3. /\ backend'.job = NoJob /\ jobs'.kind = jobs.kind /\ jobs'.ran = jobs.ran
        /\ jobs'.verdict = [jobs.verdict EXCEPT ![F] = v]
    BY <1>b, <2>2 DEF BackendType, JobsType
  <2>4. F # 0
    BY <1>a, <2>2 DEF Observing, IInv, LayerInv, SubmittedInv
  <2>5. v \in {"success", "dropped", "cancelled"}
    BY <2>1, <2>2 DEF EndsFence
  <2>6. v = "success" => \A q \in JobQueues(Kind) : Retired(q)
    BY <1>a, <2>1, <2>2, Concludes
  <2> QED BY <1>3, <2>3, <2>4, <2>5, <2>6
<1>5. CASE StopBegin
  <2>1. CASE ~EndsFence(Terminated)
    <3>1. PICK p, r : /\ backend' = [backend EXCEPT !.job = backend.job, !.phase = p, !.quiesced = r]
                      /\ jobs' = jobs
      BY <1>5, <2>1 DEF StopBegin, Terminated
    <3>2. Unseen
      BY <1>b, <3>1 DEF Unseen, BackendType
    <3> QED BY <1>1, <3>2
  <2>2. CASE EndsFence(Terminated)
    <3>1. PICK v : v = Terminated
      OBVIOUS
    <3>2. PICK p, r : /\ backend' = [backend EXCEPT !.job = NoJob, !.phase = p, !.quiesced = r]
                      /\ jobs' = [jobs EXCEPT !.verdict[F] = v]
      BY <1>5, <2>2, <3>1 DEF StopBegin, Terminated, F
    <3>3. /\ backend'.job = NoJob /\ jobs'.kind = jobs.kind /\ jobs'.ran = jobs.ran
          /\ jobs'.verdict = [jobs.verdict EXCEPT ![F] = v]
      BY <1>b, <3>2 DEF BackendType, JobsType
    <3>4. F # 0
      BY <1>a, <2>2 DEF IInv, JobInv, NoJob, EndsFence, Terminated
    <3>5. v \in {"success", "dropped", "cancelled"}
      BY <2>2, <3>1 DEF EndsFence
    <3>6. v = "success" => \A q \in JobQueues(Kind) : Retired(q)
      BY <1>a, <3>1 DEF IInv, RingInv, RanInv
    <3> QED BY <1>3, <3>3, <3>4, <3>5, <3>6
  <2> QED BY <2>1, <2>2
<1>6. CASE StopFinish
  <2>1. backend'.job = NoJob
    <3>1. \/ backend' = [backend EXCEPT !.phase = "Stopped", !.job = NoJob, !.quiesced = FALSE]
          \/ backend' = [backend EXCEPT !.phase = "Failed", !.job = NoJob]
      BY <1>6 DEF StopFinish
    <3> QED BY <1>b, <3>1 DEF BackendType
  <2>2. CASE F = 0
    <3>1. jobs' = jobs
      BY <1>6, <2>2 DEF StopFinish, F
    <3>2. Unseen
      BY <1>b, <1>c, <2>1, <2>2, <3>1 DEF Unseen
    <3> QED BY <1>1, <3>2
  <2>3. CASE F # 0
    <3>1. PICK v : v = "cancelled"
      OBVIOUS
    <3>2. jobs' = [jobs EXCEPT !.verdict[F] = v]
      BY <1>6, <2>3, <3>1 DEF StopFinish, F
    <3>3. /\ jobs'.kind = jobs.kind /\ jobs'.ran = jobs.ran
          /\ jobs'.verdict = [jobs.verdict EXCEPT ![F] = v]
      BY <1>b, <3>2 DEF JobsType
    <3> QED BY <1>3, <2>1, <2>3, <3>1, <3>3
  <2> QED BY <2>2, <2>3
<1>7. ASSUME NEW q \in Queue, FwEntry(q), ~Unseen PROVE [Engine!Next]_(Engine!vars)
  <2>1. /\ backend' = backend /\ jobs'.ran = jobs.ran \cup {<<F, q>>}
        /\ jobs'.kind = jobs.kind /\ jobs'.verdict = jobs.verdict
        /\ F # 0 /\ F \in Fence /\ q \in JobQueues(Kind) /\ ~Ran(q)
    BY <1>a, <1>7, Performs
  <2>2. jobs.kind[F] = Kind
    BY <1>a, <2>1 DEF IInv, JobInv
  <2>3. F \notin performed /\ performed' \in {performed, performed \cup {F}}
    BY <2>1, <2>2, PerformedGrows DEF Ran
  <2>4. CASE performed' = performed
    BY <2>1, <2>4 DEF Engine!vars
  <2>5. CASE performed' = performed \cup {F}
    <3>1. Engine!Perform
      BY <1>b, <2>1, <2>3, <2>5 DEF Engine!Perform
    <3> QED BY <3>1 DEF Engine!Next
  <2> QED BY <2>3, <2>4, <2>5
<1> QED BY <1>a, <1>1, <1>2, <1>4, <1>5, <1>6, <1>7 DEF JobStep

\* The queue stack keeps the promise of the job engine: one job at a time, at most
\* one verdict per fence, success only for a job whose every queue ran, and no run
\* of a job that was refused or has its verdict, with lost, late and merged events,
\* faults, recoveries, failed sends and stops.
THEOREM StackIsJobEngine == ComputeSends /\ Spec => ImplementsJobEngine
<1>1. Init => Engine!Init
  <2> SUFFICES ASSUME Init PROVE Engine!Init
    OBVIOUS
  <2>1. backend.job.fence = 0
    BY DEF Init, NoJob
  <2>2. jobs.kind = [f \in Fence |-> "none"] /\ jobs.verdict = [f \in Fence |-> "none"]
    BY DEF Init
  <2>3. performed = {}
    BY <2>2 DEF performed
  <2> QED BY <2>1, <2>2, <2>3 DEF Engine!Init
<1>2. Known /\ [Next]_vars => [Engine!Next]_(Engine!vars)
    BY StepRefines
<1> QED BY <1>1, <1>2, Inductive, PTL DEF Spec, ImplementsJobEngine, Engine!Spec
=============================================================================
