------------------------------- MODULE G13Queue -------------------------------
(***************************************************************************)
(* One GPU job on its way through the queue stack of the kernel driver:    *)
(* the backend runtime (apple_agx_backend_runtime.c), the queue provider   *)
(* (apple_agx_g13_queue_provider.c), the queue runtime with its three      *)
(* firmware rings (apple_agx_g13_queue_runtime.c), and the event ring the  *)
(* platform provider drains (apple_agx_platform_provider.c).  The driver   *)
(* side is one thread (the render worker, then the stopping thread); the   *)
(* firmware is the other actor, it moves between any two stores of the     *)
(* driver.                                                                 *)
(*                                                                         *)
(* A ring slot holds an entry of one job.  The driver advances the CPU     *)
(* write pointers and sends one run message per queue; the firmware        *)
(* performs the entries from the done pointer up to the head the message   *)
(* gave it, writes the stamp of the queue, advances the done pointer and   *)
(* posts a Flag event that names the queues that finished.                 *)
(*                                                                         *)
(* Reads and pointer stores fail only for addresses outside the mapped     *)
(* objects (AdmissionPlatformContains), which no running driver has: the   *)
(* failures that remain are building and flushing a submission, sending a  *)
(* run message, resuming a halted firmware and stopping it.                *)
(***************************************************************************)
EXTENDS Naturals, Integers, Sequences, FiniteSets

CONSTANTS Kinds,         \* the job kinds submitted: "render", "joined", "compute"
          FailingSends,  \* the kinds whose run messages may fail to be sent
          Capacity,      \* RingCapacity of every queue
          StampModulus,  \* 2^32 in the code: stamps are u32
          MaxFence,      \* bound: jobs submitted
          MaxFaults      \* bound: faults the firmware reports

ASSUME KindsAssumption == /\ Kinds \subseteq {"render", "joined", "compute"}
                          /\ FailingSends \subseteq Kinds
ASSUME CapacityAssumption == Capacity \in Nat /\ Capacity > 3
ASSUME StampAssumption == StampModulus \in Nat /\ StampModulus > 1
ASSUME BoundAssumption == MaxFence \in Nat /\ MaxFaults \in Nat

Queue == {"ta", "d3", "compute"}
Slot == 0 .. Capacity - 1
Fence == 1 .. MaxFence

VARIABLES
  backend,   \* APPLE_AGX_BACKEND_RUNTIME: phase, pending submission, terminal
  provider,  \* APPLE_AGX_G13_QUEUE_PROVIDER: phase, PendingFence, FailureQuiesced
  runtime,   \* APPLE_AGX_G13_QUEUE_RUNTIME: phase, pending queues
  written,   \* CpuWritePointer of each queue
  ring,      \* the entries in the slots of each queue
  todo,      \* the stores and messages left of the submission in progress
  batch,     \* PendingEventBatch: the observations not yet applied
  window,    \* how many events the drain in progress may still take
  events,    \* the event ring, oldest first
  firmware,  \* the G13 firmware and its memory: done pointers, stamps
  jobs       \* history: the last fence, what ran, the verdict of each fence

vars == <<backend, provider, runtime, written, ring, todo, batch, window,
          events, firmware, jobs>>

Reply == {"none", "refused", "success", "dropped", "cancelled"}
Entry == [fence : 0 .. MaxFence, work : {"none", "barrier", "init", "work"}]
Observation == Queue \cup {"recovered", "fault"}
Event == [kind : {"flag"}, queues : SUBSET Queue]
           \cup [kind : {"fault", "grow"}, queues : {{}}]

Idle == [phase |-> "Created", fence |-> 0, quiesced |-> FALSE]

NoJob == [kind |-> "none", fence |-> 0, complete |-> {}, terminal |-> "none"]

Init ==
  /\ backend = [phase |-> "Ready", quiesced |-> FALSE, job |-> NoJob,
                expected |-> [q \in Queue |-> 0]]
  /\ provider = Idle
  /\ runtime = [phase |-> "Ready", fence |-> 0, bm |-> FALSE, seen |-> {},
                complete |-> {}, inRender |-> FALSE]
  /\ written = [q \in Queue |-> 0]
  /\ ring = [q \in Queue |-> [s \in Slot |-> [fence |-> 0, work |-> "none"]]]
  /\ todo = <<>>
  /\ batch = <<>>
  /\ window = 0
  /\ events = <<>>
  /\ firmware = [running |-> TRUE, halted |-> FALSE, active |-> "none",
                 done |-> [q \in Queue |-> 0], head |-> [q \in Queue |-> 0],
                 stamp |-> [q \in Queue |-> 0], raised |-> {}, dropped |-> 0,
                 init |-> FALSE, blind |-> FALSE]
  /\ jobs = [last |-> 0, faults |-> 0, ran |-> {}, rejected |-> {},
             kind |-> [f \in Fence |-> "none"],
             verdict |-> [f \in Fence |-> "none"]]

-----------------------------------------------------------------------------
(* What a job puts on the queues.                                            *)

(* The entries of a job on one queue: two on 3D (the barrier on TA and the   *)
(* work), on TA the leading barrier of a job with a compute prelude, InitBM  *)
(* while the buffer manager is not initialised, and the work.                *)
JobEntries(kind, q, bm) ==
  CASE q = "d3" /\ kind # "compute" -> <<"barrier", "work">>
    [] q = "ta" /\ kind # "compute" ->
         (IF kind = "joined" THEN <<"barrier">> ELSE <<>>)
           \o (IF bm THEN <<>> ELSE <<"init">>) \o <<"work">>
    [] q = "compute" /\ kind # "render" -> <<"work">>
    [] OTHER -> <<>>

JobQueues(kind) == CASE kind = "render"  -> {"d3", "ta"}
                     [] kind = "joined"  -> {"compute", "d3", "ta"}
                     [] kind = "compute" -> {"compute"}
                     [] OTHER            -> {}

(* The order in which the pointers are published and the messages sent.      *)
PublishOrder(kind) == CASE kind = "render"  -> <<"d3", "ta">>
                        [] kind = "joined"  -> <<"compute", "d3", "ta">>
                        [] kind = "compute" -> <<"compute">>
                        [] OTHER            -> <<>>

Advance(p, n) == (p + n) % Capacity

NextDone(q, kind, bm) == Advance(written[q], Len(JobEntries(kind, q, bm)))

(* PrepareQueue finds no room: some entry would make the next pointer meet   *)
(* the done pointer.                                                         *)
RingFull(q, n) == \E i \in 1 .. n : Advance(written[q], i) = firmware.done[q]

RingWithJob(f, kind, bm) ==
  [q \in Queue |->
     LET entries == JobEntries(kind, q, bm)
     IN  [s \in Slot |->
            LET i == Advance(s + Capacity - written[q], 0) + 1
            IN  IF i \in 1 .. Len(entries)
                THEN [fence |-> f, work |-> entries[i]] ELSE ring[q][s]]]

-----------------------------------------------------------------------------
(* Stopping.  The operators of this section map the driver's queue state     *)
(* (provider, runtime, write pointers, whether the firmware runs, and the    *)
(* result of the call) to the states the call may leave.                     *)

Device == [prov |-> provider, rt |-> runtime, written |-> written,
           running |-> firmware.running, ok |-> TRUE]

Adopt(d) == /\ provider' = d.prov
            /\ runtime' = d.rt
            /\ written' = d.written

ClearPending(rt) == [rt EXCEPT !.fence = 0, !.seen = {}, !.complete = {},
                               !.inRender = FALSE]

(* Mutant: a stop of the firmware that failed is reported as done.           *)
QuiesceUnproven(d, f) ==
  IF f = 0 \/ d.prov.fence # f
  THEN {[d EXCEPT !.ok = FALSE]}
  ELSE {[d EXCEPT !.ok = TRUE, !.running = FALSE]} \cup {[d EXCEPT !.ok = TRUE]}

(* AdmissionTransportQuiesce: only for the provider's pending fence; the     *)
(* RTKit stop may fail while the firmware runs and is a no-op once it does   *)
(* not.                                                                      *)
Quiesce(d, f) ==
  IF f = 0 \/ d.prov.fence # f
  THEN {[d EXCEPT !.ok = FALSE]}
  ELSE {[d EXCEPT !.ok = TRUE, !.running = FALSE]}
         \cup {[d EXCEPT !.ok = ~d.running]}

(* QueueRuntimeReset: the write pointers go back to what was retired and the *)
(* next job initialises the buffer manager again.                            *)
RuntimeReset(d) ==
  [d EXCEPT !.ok = TRUE, !.written = firmware.done,
            !.rt = [ClearPending(d.rt) EXCEPT !.bm = FALSE, !.phase = "Ready"]]

RestoreAfterQuiesce(d) == [RuntimeReset(d) EXCEPT !.prov = Idle]

(* TerminalFailure with Cancel and the completion taken at once.             *)
Cancel(d, f) ==
  {IF e.ok THEN [e EXCEPT !.rt = [ClearPending(@) EXCEPT !.phase = "Faulted"]]
           ELSE [e EXCEPT !.rt.phase = "Faulted",
                          !.prov.phase = "Faulted", !.prov.quiesced = FALSE] :
     e \in Quiesce(d, f)}

EnsureFailureQuiesced(d) ==
  IF d.prov.quiesced THEN {[d EXCEPT !.ok = TRUE]}
  ELSE {IF e.ok THEN [e EXCEPT !.prov.quiesced = TRUE] ELSE e :
          e \in Quiesce(d, d.prov.fence)}

ProviderStop(d, f) ==
  LET Restored(after) == {IF e.ok THEN RestoreAfterQuiesce(e) ELSE e : e \in after}
      refused == {[d EXCEPT !.ok = FALSE]}
  IN  CASE f = 0 -> {[d EXCEPT !.ok = (d.prov.phase = "Created" /\ d.prov.fence = 0)]}
        [] f # 0 /\ f # d.prov.fence -> refused
        [] f # 0 /\ f = d.prov.fence /\ d.prov.phase = "3dStaged" ->
             {[d EXCEPT !.ok = TRUE, !.prov = Idle]}
        [] f # 0 /\ f = d.prov.fence /\ d.prov.phase = "Faulted" ->
             Restored(EnsureFailureQuiesced(d))
        [] f # 0 /\ f = d.prov.fence /\ d.prov.phase \in {"Submitted", "ComputeOnly"} ->
             Restored(Cancel(d, f))
        [] OTHER -> refused

(* Mutant: the pending job is cleared without stopping the firmware.         *)
SubmitFailureUnquiesced(d, f) ==
  {[d EXCEPT !.rt = [ClearPending(@) EXCEPT !.phase = "Faulted"]]}

(* SubmitFailure after a write pointer was published: the work is visible.   *)
SubmitFailure(d, f) ==
  {IF e.ok THEN [e EXCEPT !.rt = [ClearPending(@) EXCEPT !.phase = "Faulted"]]
           ELSE [e EXCEPT !.rt.phase = "Faulted"] : e \in Quiesce(d, f)}

-----------------------------------------------------------------------------
(* Submitting (AppleAgxBackendRuntimeSubmit, Run3d, RunTa, RunCompute).      *)

(* The worker is between jobs, and the provider lets one be planned.         *)
Planned(kind) == /\ backend.phase = "Ready" /\ todo = <<>> /\ window = 0
                 /\ jobs.last < MaxFence /\ kind \in Kinds
                 /\ provider.phase = "Created" /\ provider.fence = 0

(* Mutant: the binding to another manager goes unnoticed.                    *)
RequireInitBmIgnored(rebind) == runtime

(* RequireInitBm: the job is bound to another buffer manager, which no       *)
(* InitBM has initialised yet.                                               *)
RequireInitBm(rebind) == [runtime EXCEPT !.bm = @ /\ ~rebind]

Rebound(rebind) == [firmware EXCEPT !.init = @ /\ ~rebind]

Steps(kind) == LET order == PublishOrder(kind)
               IN  [i \in 1 .. Len(order) |-> <<"publish", order[i]>>]
                     \o [i \in 1 .. Len(order) |-> <<"send", order[i]>>]

(* The job is staged, built and written to the rings; nothing is published.  *)
Submit(kind, rebind) ==
  LET f  == jobs.last + 1
      rt == RequireInitBm(rebind)
  IN  /\ Planned(kind) /\ (rebind => kind # "compute")
      /\ \A q \in JobQueues(kind) : ~RingFull(q, Len(JobEntries(kind, q, rt.bm)))
      /\ backend' = [backend EXCEPT
                       !.job = [NoJob EXCEPT !.kind = kind, !.fence = f],
                       !.expected = [q \in Queue |-> NextDone(q, kind, rt.bm)]]
      /\ provider' = IF kind = "compute" THEN provider
                     ELSE [provider EXCEPT !.phase = "3dStaged", !.fence = f]
      /\ runtime' = [rt EXCEPT !.fence = f]
      /\ ring' = RingWithJob(f, kind, rt.bm)
      /\ todo' = Steps(kind)
      /\ firmware' = Rebound(rebind)
      /\ jobs' = [jobs EXCEPT !.last = f, !.kind[f] = kind]
      /\ UNCHANGED <<written, batch, window, events>>

(* A submission that cannot be built, flushed or fitted into a ring.  A      *)
(* compute job leaves no trace; a render job was staged, so the backend      *)
(* unstages it and fails.                                                    *)
SubmitRejected(kind, rebind) ==
  LET f  == jobs.last + 1
      rt == RequireInitBm(rebind)
  IN  /\ Planned(kind) /\ (rebind => kind # "compute")
      /\ runtime' = rt
      /\ firmware' = Rebound(rebind)
      /\ IF kind = "compute"
         THEN /\ jobs' = [jobs EXCEPT !.last = f, !.kind[f] = kind,
                                      !.verdict[f] = "refused"]
              /\ UNCHANGED backend
         ELSE /\ jobs' = [jobs EXCEPT !.last = f, !.kind[f] = kind]
              /\ backend' = [backend EXCEPT
                               !.job = [NoJob EXCEPT !.kind = kind, !.fence = f],
                               !.phase = "Failed", !.quiesced = TRUE]
      /\ UNCHANGED <<provider, written, ring, todo, batch, window, events>>

Publish ==
  /\ todo # <<>> /\ Head(todo)[1] = "publish"
  /\ LET q == Head(todo)[2]
     IN  written' = [written EXCEPT ![q] = backend.expected[q]]
  /\ todo' = Tail(todo)
  /\ UNCHANGED <<backend, provider, runtime, ring, batch, window, events,
                 firmware, jobs>>

(* A run message with its doorbell; the last one completes the submission.   *)
Send ==
  /\ todo # <<>> /\ Head(todo)[1] = "send"
  /\ LET q    == Head(todo)[2]
         kind == backend.job.kind
         last == Len(todo) = 1
     IN  /\ firmware' = [firmware EXCEPT !.head[q] = backend.expected[q]]
         /\ backend' = IF last THEN [backend EXCEPT !.phase = "Submitted"] ELSE backend
         /\ provider' = CASE last /\ kind = "compute" ->
                               [provider EXCEPT !.phase = "ComputeOnly",
                                                !.fence = backend.job.fence]
                          [] last /\ kind # "compute" ->
                               [provider EXCEPT !.phase = "Submitted"]
                          [] OTHER -> provider
         /\ runtime' = IF ~last THEN runtime
                       ELSE [runtime EXCEPT
                               !.phase = IF kind = "compute" THEN "ComputeSubmitted"
                                         ELSE "Submitted",
                               !.bm = @ \/ kind # "compute",
                               !.inRender = (kind = "joined")]
  /\ todo' = Tail(todo)
  /\ UNCHANGED <<written, ring, batch, window, events, jobs>>

(* What a job that RunTa or RunCompute gives up after publishing leaves: the *)
(* backend stops the fence of a render job and fails; it takes a compute job *)
(* for one that never reached the queue.                                     *)
GiveUpJob(fw, d, f) ==
  IF backend.job.kind = "compute"
  THEN /\ Adopt([d EXCEPT !.prov = [phase |-> "Faulted", fence |-> f,
                                    quiesced |-> d.ok]])
       /\ firmware' = [fw EXCEPT !.running = d.running]
       /\ backend' = [backend EXCEPT !.job = NoJob]
       /\ jobs' = [jobs EXCEPT !.verdict[f] = "refused"]
  ELSE \E e \in ProviderStop([d EXCEPT !.prov.phase = "Faulted",
                                       !.prov.quiesced = d.ok], f) :
         /\ Adopt(e)
         /\ firmware' = [fw EXCEPT !.running = e.running]
         /\ backend' = [backend EXCEPT !.phase = "Failed", !.quiesced = e.ok]
         /\ UNCHANGED jobs

(* The message cannot be sent.  It may already be in the channel when the    *)
(* doorbell fails, so the firmware may act on it.                            *)
SendFails ==
  /\ todo # <<>> /\ Head(todo)[1] = "send"
  /\ backend.job.kind \in FailingSends
  /\ LET q == Head(todo)[2]
         f == backend.job.fence
     IN  \E d \in SubmitFailure(Device, f) :
         \E fw \in {firmware, [firmware EXCEPT !.head[q] = backend.expected[q]]} :
            GiveUpJob(fw, d, f)
  /\ todo' = <<>>
  /\ UNCHANGED <<ring, batch, window, events>>

-----------------------------------------------------------------------------
(* Events (DrainEvents, IngestEvent, HandleEvent).                           *)

(* A poll snapshots the write pointer of the event ring; MaxMessages (64)    *)
(* exceeds what the ring of the model holds.                                 *)
Poll == /\ backend.phase = "Submitted" /\ todo = <<>>
        /\ window = 0 /\ batch = <<>> /\ events # <<>>
        /\ window' = Len(events)
        /\ UNCHANGED <<backend, provider, runtime, written, ring, todo, batch,
                       events, firmware, jobs>>

Draining == window > 0 /\ batch = <<>>

Ingesting == Draining /\ provider.phase \in {"Submitted", "ComputeOnly"}

Consume == /\ events' = Tail(events)
           /\ window' = window - 1

(* IngestEvent refuses every event when no job is submitted: the event stays *)
(* in the ring and the poll fails.                                           *)
RejectEvent ==
  /\ Draining /\ provider.phase \notin {"Submitted", "ComputeOnly"}
  /\ window' = 0
  /\ jobs' = [jobs EXCEPT !.rejected = @ \cup {provider.phase}]
  /\ UNCHANGED <<backend, provider, runtime, written, ring, todo, batch,
                 events, firmware>>

(* CompletionSatisfiedWindow.                                                *)
StampReached(stamp, expected) == (stamp - expected) % StampModulus < StampModulus \div 2

(* Mutant: the done pointer must stay short of what was published.           *)
CompletionShort(q, event) ==
  LET Past(p) == (p + Capacity - backend.expected[q]) % Capacity
  IN  /\ q \in event.queues
      /\ Past(firmware.done[q]) < Past(written[q])
      /\ StampReached(firmware.stamp[q], runtime.fence % StampModulus)

CompletionSatisfied(q, event) ==
  LET expected == backend.expected[q]
      Past(p)  == (p + Capacity - expected) % Capacity
  IN  /\ q \in event.queues
      /\ Past(firmware.done[q]) <= Past(written[q])
      /\ StampReached(firmware.stamp[q], runtime.fence % StampModulus)

(* Mutant: a render job is over when its TA queue is.                        *)
AwaitedTa == IF runtime.phase = "ComputeSubmitted" THEN {"compute"} ELSE {"ta"}

(* The queues HandleEvent looks at, and those the provider reports.          *)
Awaited == IF runtime.phase = "ComputeSubmitted" THEN {"compute"}
           ELSE {"d3", "ta"} \cup (IF runtime.inRender THEN {"compute"} ELSE {})

Reported(newly) ==
  LET Of(q) == IF q \in newly THEN <<q>> ELSE <<>>
  IN  IF provider.phase = "ComputeOnly" THEN Of("compute") ELSE Of("d3") \o Of("ta")

(* A Flag event: every awaited queue it names and whose work is retired is   *)
(* complete; the last one completes the fence and frees the provider.        *)
IngestFlag ==
  /\ Ingesting /\ Head(events).kind = "flag"
  /\ LET e     == Head(events)
         seen  == runtime.seen \cup (Awaited \cap e.queues)
         newly == {q \in (Awaited \cap seen) \ runtime.complete : CompletionSatisfied(q, e)}
         done  == runtime.complete \cup newly
     IN  /\ batch' = Reported(newly)
         /\ IF Awaited \subseteq done
            THEN /\ runtime' = [ClearPending(runtime) EXCEPT !.phase = "Ready"]
                 /\ provider' = Idle
            ELSE /\ runtime' = [runtime EXCEPT !.seen = seen, !.complete = done]
                 /\ UNCHANGED provider
  /\ Consume
  /\ UNCHANGED <<backend, written, ring, todo, firmware, jobs>>

(* GrowTvb and the other kinds that are not terminal are consumed.           *)
IngestOther ==
  /\ Ingesting /\ Head(events).kind = "grow"
  /\ Consume
  /\ UNCHANGED <<backend, provider, runtime, written, ring, todo, batch,
                 firmware, jobs>>

(* AdmissionTransportRecover: the halted firmware is resumed and drops the   *)
(* job; the queues stay usable.                                              *)
IngestRecovered ==
  /\ Ingesting /\ Head(events).kind = "fault"
  /\ firmware.halted
  /\ firmware' = [firmware EXCEPT !.halted = FALSE, !.dropped = runtime.fence]
  /\ runtime' = [ClearPending(runtime) EXCEPT !.phase = "Ready"]
  /\ provider' = Idle
  /\ batch' = <<"recovered">>
  /\ Consume
  /\ UNCHANGED <<backend, written, ring, todo, jobs>>

(* A terminal event that is not recovered: the firmware is stopped and the   *)
(* fence faults, or the stop is refused and the event stays in the ring.     *)
IngestTerminal ==
  /\ Ingesting /\ Head(events).kind = "fault"
  /\ \E d \in Quiesce(Device, runtime.fence) :
       /\ firmware' = [firmware EXCEPT !.running = d.running]
       /\ provider' = [provider EXCEPT !.phase = "Faulted",
                                       !.quiesced = @ \/ d.ok]
       /\ IF d.ok
          THEN /\ runtime' = [ClearPending(runtime) EXCEPT !.phase = "Faulted"]
               /\ batch' = <<"fault">>
               /\ Consume
          ELSE /\ runtime' = [runtime EXCEPT !.phase = "Faulted"]
               /\ window' = 0
               /\ UNCHANGED <<batch, events>>
  /\ UNCHANGED <<backend, written, ring, todo, jobs>>

-----------------------------------------------------------------------------
(* Observations (AppleAgxBackendRuntimeObserve, AcknowledgeCompletion).      *)

Observing == batch # <<>> /\ backend.phase = "Submitted"

EndsFence(terminal) == terminal \in {"success", "dropped"}

(* Mutant: the first queue that completes ends the fence.                    *)
ConclusionFirstQueue ==
  IF EndsFence(backend.job.terminal) THEN backend.job.terminal
  ELSE CASE Head(batch) = "recovered" -> "dropped"
         [] Head(batch) \in Queue -> "success"
         [] OTHER -> "none"

(* What the backend concludes from the next observation: the terminal status *)
(* of the fence, or "none" while another queue is awaited.                   *)
Conclusion ==
  LET o        == Head(batch)
      complete == backend.job.complete \cup {o}
  IN  IF EndsFence(backend.job.terminal) THEN backend.job.terminal
      ELSE CASE o = "recovered" -> "dropped"
             [] o \in Queue /\ JobQueues(backend.job.kind) \ {"compute"} \subseteq complete
                  -> "success"
             [] OTHER -> "none"

(* The observation of a queue must carry its exact done pointer and a stamp  *)
(* the job has reached.                                                      *)
ObservationValid(q) ==
  /\ firmware.done[q] = backend.expected[q]
  /\ StampReached(firmware.stamp[q], backend.job.fence % StampModulus)

ObserveQueue ==
  /\ Observing /\ backend.job.terminal = "none"
  /\ Head(batch) \in Queue /\ Conclusion = "none"
  /\ ObservationValid(Head(batch))
  /\ backend' = [backend EXCEPT !.job.complete = @ \cup {Head(batch)}]
  /\ batch' = Tail(batch)
  /\ UNCHANGED <<provider, runtime, written, ring, todo, window, events,
                 firmware, jobs>>

(* Io.Complete takes the verdict: the backend is ready for the next job.     *)
Acknowledge ==
  /\ Observing /\ EndsFence(Conclusion)
  /\ Head(batch) \in Queue => ObservationValid(Head(batch))
  /\ backend' = [backend EXCEPT !.phase = "Ready", !.job = NoJob]
  /\ jobs' = [jobs EXCEPT !.verdict[backend.job.fence] = Conclusion]
  /\ batch' = Tail(batch)
  /\ UNCHANGED <<provider, runtime, written, ring, todo, window, events, firmware>>

(* Io.Complete refuses it for now: the terminal state and the batch are kept *)
(* and the poll fails.                                                       *)
AcknowledgeRefused ==
  /\ Observing /\ EndsFence(Conclusion)
  /\ Head(batch) \in Queue => ObservationValid(Head(batch))
  /\ backend' = [backend EXCEPT !.job.terminal = Conclusion]
  /\ window' = 0
  /\ UNCHANGED <<provider, runtime, written, ring, todo, batch, events, firmware,
                 jobs>>

(* A fault stops the queues; the fence waits for the teardown.               *)
ObserveFault ==
  /\ Observing /\ backend.job.terminal = "none" /\ Head(batch) = "fault"
  /\ \E d \in ProviderStop(Device, backend.job.fence) :
       /\ Adopt(d)
       /\ firmware' = [firmware EXCEPT !.running = d.running]
       /\ backend' = IF d.ok THEN [backend EXCEPT !.quiesced = TRUE,
                                                  !.job.terminal = "faulted"]
                     ELSE [backend EXCEPT !.phase = "Failed"]
  /\ window' = 0
  /\ UNCHANGED <<ring, todo, batch, events, jobs>>

-----------------------------------------------------------------------------
(* Teardown (AppleAgxBackendRuntimeStop), once no poll is in progress.       *)

StopBegin ==
  /\ backend.phase \in {"Ready", "Submitted", "Failed"}
  /\ todo = <<>> /\ window = 0
  /\ LET told == EndsFence(backend.job.terminal)
         job  == IF told THEN NoJob ELSE backend.job
     IN  /\ jobs' = IF told
                    THEN [jobs EXCEPT !.verdict[backend.job.fence] = backend.job.terminal]
                    ELSE jobs
         /\ \E d \in IF backend.quiesced THEN {Device} ELSE ProviderStop(Device, job.fence) :
              /\ Adopt(d)
              /\ firmware' = [firmware EXCEPT !.running = d.running]
              /\ backend' = [backend EXCEPT !.job = job,
                               !.phase = IF d.ok THEN "Stopping" ELSE "Failed",
                               !.quiesced = d.ok]
  /\ UNCHANGED <<ring, todo, batch, window, events>>

(* The receipt of a completed fence is refused once more.                    *)
StopRefused ==
  /\ backend.phase \in {"Ready", "Submitted", "Failed"}
  /\ todo = <<>> /\ window = 0
  /\ EndsFence(backend.job.terminal)
  /\ backend' = [backend EXCEPT !.phase = "Failed"]
  /\ UNCHANGED <<provider, runtime, written, ring, todo, batch, window, events,
                 firmware, jobs>>

(* The pending fence is retired as cancelled and the queues are destroyed.   *)
StopFinish ==
  /\ backend.phase = "Stopping"
  /\ jobs' = IF backend.job.fence = 0 THEN jobs
             ELSE [jobs EXCEPT !.verdict[backend.job.fence] = "cancelled"]
  /\ IF provider.phase = "Created"
     THEN /\ Adopt([RuntimeReset(Device) EXCEPT !.prov.phase = "Initialized"])
          /\ backend' = [backend EXCEPT !.phase = "Stopped", !.job = NoJob,
                                        !.quiesced = FALSE]
     ELSE /\ backend' = [backend EXCEPT !.phase = "Failed", !.job = NoJob]
          /\ UNCHANGED <<provider, runtime, written>>
  /\ UNCHANGED <<ring, todo, batch, window, events, firmware>>

(* Io.Retire is refused: the fence stays with the failed backend.            *)
RetireRefused ==
  /\ backend.phase = "Stopping" /\ backend.job.fence # 0
  /\ backend' = [backend EXCEPT !.phase = "Failed", !.job.terminal = "cancelled"]
  /\ UNCHANGED <<provider, runtime, written, ring, todo, batch, window, events,
                 firmware, jobs>>

-----------------------------------------------------------------------------
(* The firmware (external).  It is one thread: the stamp, the done pointer   *)
(* and the event of a queue follow each other before it turns to another     *)
(* queue, and the driver may look in between.                                *)

Fetching(q) == /\ firmware.running /\ ~firmware.halted
               /\ firmware.active = "none"
               /\ firmware.done[q] # firmware.head[q]

Fetched(q) == ring[q][firmware.done[q]]

(* A barrier of 3D waits for the TA work of its job, one of TA for compute.  *)
BarrierOpen(q, f) == <<f, IF q = "d3" THEN "ta" ELSE "compute">> \in jobs.ran

FwEntry(q) ==
  /\ Fetching(q)
  /\ LET e == Fetched(q)
     IN  /\ e.fence > firmware.dropped
         /\ e.work = "barrier" => BarrierOpen(q, e.fence)
         /\ IF e.work = "work"
            THEN /\ firmware' = [firmware EXCEPT
                                   !.active = q,
                                   !.stamp[q] = e.fence % StampModulus,
                                   !.blind = @ \/ (q = "ta" /\ ~firmware.init)]
                 /\ jobs' = [jobs EXCEPT !.ran = @ \cup {<<e.fence, q>>}]
            ELSE /\ firmware' = [firmware EXCEPT
                                   !.done[q] = Advance(@, 1),
                                   !.init = @ \/ e.work = "init"]
                 /\ UNCHANGED jobs
  /\ UNCHANGED <<backend, provider, runtime, written, ring, todo, batch, window,
                 events>>

FwRetire ==
  /\ firmware.running /\ firmware.active # "none"
  /\ LET q == firmware.active
     IN  firmware' = [firmware EXCEPT !.active = "none", !.done[q] = Advance(@, 1),
                                      !.raised = @ \cup {q}]
  /\ UNCHANGED <<backend, provider, runtime, written, ring, todo, batch, window,
                 events, jobs>>

(* The entries of a dropped job are retired without being performed, and     *)
(* its stamp is written, which raises the event of the queue.                *)
FwDrop(q) ==
  /\ Fetching(q) /\ Fetched(q).fence <= firmware.dropped
  /\ LET p       == firmware.done[q]
         offered == {i \in Slot : i < (firmware.head[q] + Capacity - p) % Capacity}
         dropped == {i \in offered : ring[q][Advance(p, i)].fence <= firmware.dropped}
     IN  firmware' = [firmware EXCEPT
                        !.done[q] = Advance(@, Cardinality(dropped)),
                        !.stamp[q] = firmware.dropped % StampModulus,
                        !.raised = @ \cup {q}]
  /\ UNCHANGED <<backend, provider, runtime, written, ring, todo, batch, window,
                 events, jobs>>

FwPost ==
  /\ firmware.running /\ ~firmware.halted /\ firmware.raised # {}
  /\ events' = Append(events, [kind |-> "flag", queues |-> firmware.raised])
  /\ firmware' = [firmware EXCEPT !.raised = {}]
  /\ UNCHANGED <<backend, provider, runtime, written, ring, todo, batch, window, jobs>>

(* The work it is performing times out, faults or breaks its channel: it     *)
(* halts and reports it.  A channel error is not resumed; the driver then    *)
(* does what it does when a resume fails.                                    *)
FwFault ==
  /\ jobs.faults < MaxFaults
  /\ jobs' = [jobs EXCEPT !.faults = @ + 1]
  /\ \E q \in Queue : Fetching(q) /\ Fetched(q).fence > firmware.dropped
  /\ events' = Append(events, [kind |-> "fault", queues |-> {}])
  /\ firmware' = [firmware EXCEPT !.halted = TRUE]
  /\ UNCHANGED <<backend, provider, runtime, written, ring, todo, batch, window>>

FwGrow ==
  /\ Fetching("ta") /\ events = <<>> /\ Fetched("ta").work = "work"
  /\ events' = <<[kind |-> "grow", queues |-> {}]>>
  /\ UNCHANGED <<backend, provider, runtime, written, ring, todo, batch, window,
                 firmware, jobs>>

-----------------------------------------------------------------------------
Worker == \/ \E kind \in Kinds, rebind \in BOOLEAN :
               Submit(kind, rebind) \/ SubmitRejected(kind, rebind)
          \/ Publish \/ Send \/ SendFails
          \/ Poll \/ RejectEvent
          \/ IngestFlag \/ IngestOther \/ IngestRecovered \/ IngestTerminal
          \/ ObserveQueue \/ Acknowledge \/ AcknowledgeRefused \/ ObserveFault
          \/ StopBegin \/ StopRefused \/ StopFinish \/ RetireRefused

Firmware == \/ \E q \in Queue : FwEntry(q) \/ FwDrop(q)
            \/ FwRetire \/ FwPost \/ FwGrow \/ FwFault

Next == Worker \/ Firmware

Spec == Init /\ [][Next]_vars

(* The worker polls while a job is submitted, and a firmware that reports no *)
(* fault goes on with what it was given.                                     *)
Fairness == /\ WF_vars(Publish) /\ WF_vars(Send)
            /\ WF_vars(Poll) /\ WF_vars(IngestFlag) /\ WF_vars(IngestOther)
            /\ WF_vars(IngestRecovered \/ IngestTerminal)
            /\ WF_vars(ObserveQueue) /\ WF_vars(Acknowledge) /\ WF_vars(ObserveFault)
            /\ \A q \in Queue : WF_vars(FwEntry(q)) /\ WF_vars(FwDrop(q))
            /\ WF_vars(FwRetire) /\ WF_vars(FwPost)

FairSpec == Spec /\ Fairness

-----------------------------------------------------------------------------
(* Properties.                                                               *)

TypeOK ==
  /\ backend \in [phase : {"Ready", "Submitted", "Failed", "Stopping", "Stopped"},
                  quiesced : BOOLEAN,
                  job : [kind : Kinds \cup {"none"}, fence : 0 .. MaxFence,
                         complete : SUBSET Queue,
                         terminal : {"none", "success", "dropped", "faulted", "cancelled"}],
                  expected : [Queue -> Slot]]
  /\ provider \in [phase : {"Initialized", "Created", "3dStaged", "Submitted",
                            "ComputeOnly", "Faulted"},
                   fence : 0 .. MaxFence, quiesced : BOOLEAN]
  /\ runtime \in [phase : {"Ready", "Submitted", "ComputeSubmitted", "Faulted"},
                  fence : 0 .. MaxFence, bm : BOOLEAN, seen : SUBSET Queue,
                  complete : SUBSET Queue, inRender : BOOLEAN]
  /\ written \in [Queue -> Slot]
  /\ ring \in [Queue -> [Slot -> Entry]]
  /\ todo \in Seq({"publish", "send"} \X Queue)
  /\ batch \in Seq(Observation)
  /\ window \in Nat /\ window <= Len(events)
  /\ events \in Seq(Event)
  /\ firmware.done \in [Queue -> Slot] /\ firmware.head \in [Queue -> Slot]
  /\ firmware.stamp \in [Queue -> 0 .. StampModulus - 1]
  /\ jobs.verdict \in [Fence -> Reply]

(* The queue stack keeps the promise of the job engine: one job at a time,   *)
(* one verdict per fence, success only for a job whose every queue ran, and  *)
(* no run for a job that was refused or has its verdict.                     *)
performed == {f \in Fence : /\ jobs.kind[f] # "none"
                            /\ \A q \in JobQueues(jobs.kind[f]) : <<f, q>> \in jobs.ran}

Engine == INSTANCE JobEngine WITH Fences <- Fence, taken <- backend.job.fence,
                                  performed <- performed, verdict <- jobs.verdict

ImplementsJobEngine == Engine!Spec

(* Whatever the firmware performs belongs to the job the backend holds: no   *)
(* ring slot, pointer or late message makes it run an entry of a job that    *)
(* has ended, whose memory the next job may already use.                     *)
OnlyPendingRuns ==
  [][\A f \in Fence, q \in Queue :
       <<f, q>> \in jobs'.ran \ jobs.ran => f = backend.job.fence]_vars

(* An event is turned away only after a stop that failed, or once a job was  *)
(* dropped: the late Flag event of a dropped job may complete the next job   *)
(* before the event of that job is read, which a drain that is still in      *)
(* progress then meets with no job submitted, and the poll fails.  Without a *)
(* recovery the events of a job never outlive it in the ring.                *)
EventsAccepted == jobs.rejected \subseteq {"Faulted"} \/ firmware.dropped # 0

(* The late Flag event of a dropped job names TA and 3D of the next job too: *)
(* when that job has a compute prelude, the backend, which only counts TA    *)
(* and 3D, ends it before the runtime has read the event of its compute      *)
(* queue, and the provider stays submitted with nobody to poll for it.       *)
EndedEarly == /\ firmware.dropped # 0 /\ runtime.inRender
              /\ provider.phase = "Submitted" /\ "compute" \notin runtime.complete

(* The three layers agree on the job between two calls: the provider holds   *)
(* exactly the fence the backend holds, until it has completed it; a backend *)
(* that is ready can submit, but for a job ended early; and what the layers  *)
(* call quiesced is a stopped firmware or one with nothing left to fetch.    *)
LayersAgree ==
  todo = <<>> =>
    /\ provider.fence \in {0, backend.job.fence} \/ EndedEarly
    /\ backend.phase = "Ready" => \/ provider = Idle /\ runtime.phase = "Ready"
                                  \/ EndedEarly
    /\ backend.phase = "Submitted" /\ backend.job.terminal = "none" /\ batch = <<>> =>
         provider.fence = backend.job.fence
    /\ backend.quiesced =>
         \/ ~firmware.running
         \/ \A q \in Queue, s \in Slot :
              ring[q][s].fence = 0 \/ ring[q][s].fence # backend.job.fence

(* TA work runs with an initialised buffer manager, unless the InitBM of a   *)
(* dropped job was dropped with it: the runtime counts the manager as        *)
(* initialised from the submission on.                                       *)
ManagerInitialised == firmware.blind => firmware.dropped # 0

(* A refused compute job never reached the queue.                            *)
RefusedNeverReached ==
  \A f \in Fence : jobs.verdict[f] = "refused" => provider.fence # f

(* A submitted job ends: with a verdict, a fault, or a failed stop.          *)
JobEnds == backend.phase = "Submitted" /\ backend.job.terminal = "none"
             ~> \/ backend.phase # "Submitted"
                \/ backend.job.terminal # "none"
                \/ provider.phase = "Faulted"
=============================================================================
