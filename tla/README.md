# Verification of the Apple AGX kernel driver and the Apple input driver

TLA+ specifications of the parts of the repository whose correctness depends on
order, concurrency and failure: the WDDM kernel-mode driver for the Apple AGX
GPU (`drivers/apple-agx`) from a submission of the Windows GPU scheduler
(VidSch) down to the rings shared with the GPU firmware, the start and stop of
that firmware, and the driver of the built-in keyboard and trackpad
(`drivers/apple-input`). Paths are relative to `src/drivers/apple-agx/` unless
they start with `src/`.

## 1. Inventory

| Component | State it keeps | Operations | Why it is hard |
|---|---|---|---|
| Fence scheduler, `shared/src/apple_agx_scheduler.c` | completed, active and last submitted fence, queue ring with cached head, preempted fences, preemption handshake | queue, queue resubmitted paging, activate, complete, begin/claim/commit boundary preemption, begin/abort preemption, reset | 32-bit identifiers wrap; a preempted paging packet comes back under its old identifier; four-phase handshake |
| Scheduler glue, `render-admission/src/scheduler_windows.c`, `interrupt.c`, `submission_windows.c` | `SchedulerLock`, `DispatchedFence`, `RenderDpcFence`, `SchedulerFaulted` | PreemptCommand, TryNotifyPreemption, RecordCompletion, SchedulerDpc, ResetEngine | three threads compete to answer one preemption; everything is decided under a lock and acted on outside |
| Work queue, `work_queue_windows.c` | reservation of the engine | DispatchQueuedWork | may be called by every thread, retries once |
| CPU paging executor, `paging_windows.c` | CPU ring, packet in progress, idle event, DPC and worker counters | queue, worker, completion, DPC | copy, completion and report are three different threads |
| Render worker, `backend_platform_windows.c`, `render_submission.c` | work item flags, idle event, the one render packet | worker start, bind, activate, submit, poll, complete, leave, quiesce | work item queued again while its previous run leaves; reset against a running job |
| Pending ring (G4), `gpuva_g3_windows.c` | entries with state, two outstanding fences per context | reserve, publish, bind, drop, await | entries are filled and bound outside the lock |
| Backend runtime and G13 queues, `shared/src/apple_agx_{backend_runtime,g13_queue_provider,g13_queue_runtime,g13_codec,platform_provider}.c` | phase of each layer, pending fence, ring pointers, stamps, event ring | submit, publish, send, poll, ingest, acknowledge, cancel, stop | four layers hold the same fence; the rings are shared with a firmware that faults, halts and posts late |
| Firmware start and memory ownership, `shared/src/apple_agx_firmware{,_provider}.c`, `render-admission/src/lifecycle.c` | CompletedMask, CleanupMask, provider state bits, owners of memory | nine start operations, six cleanup operations, StartDevice, StopDevice, RemoveDevice | any operation of any attempt fails or is late, and memory the coprocessor reaches must not be freed |
| Handoff lock, `shared/src/apple_agx_gfx_handoff.c` | two flags and a turn in shared memory | initialize, acquire, release | Dekker's algorithm with deadlines and failing accesses |
| RTKit and mailbox, `shared/src/apple_agx_{rtkit*,asc_transport}.c` | endpoint maps, boot phases | message handlers, bounded polls | messages arrive in any order |
| Address spaces, `shared/src/apple_agx_{uat*,residency,mapping,gpuva_*}.c` | page tables, publication generation, residency lists | map, unmap, publish, roll back | frames must not be reused before invalidation |
| Output queue and slab pool, `render-admission/src/render_{output_queue,completed_output,pool_*}.c` | bounded rings, free lists, retirement | push, claim, release, grow | limits, lifetime across reset |
| Scanout, `scanout_windows.c`, `shared/src/apple_agx_scanout.c` | visible and pending source, vsync timeline | flip, vsync, release | flip against vsync |
| Input transport, `src/drivers/apple-input/windows/src/transport.c`, `protocol/src` | interrupt mask, work queue flags, discovery phase, reassembly buffer, trackpad initialisation, timer | interrupt, worker, timer, start, stop | an interrupt line that stays masked is a dead keyboard; packets are lost and corrupted |
| Trackpad reports, `src/drivers/apple-input/protocol/src/apple_{trackpad_frame,precision_touchpad}.c`, `vhf_trackpad.c` | contact slots, feature reports, failure count | track, encode, submit, set feature | Windows must never be left with a finger that is gone |
| User-mode drivers, Mesa port, encoders, receipts, host tools | | | not concurrent, or byte layouts |

Components of the GPU driver interact by calls under two spin locks
(`SchedulerLock`, `PagingLock`), by work items and DPCs (callbacks that start
later, on another thread), by `DxgkCbSynchronizeExecution` (interrupt level)
and, towards the GPU, by shared memory and mailbox messages. VidSch is the
client: it submits, preempts and resets, and is answered by DMA_COMPLETED,
DMA_PREEMPTED and DMA_FAULTED. The input driver is separate: an interrupt
routine, its work item and a timer under one lock, and the virtual HID
framework (VHF) above.

What makes them correct: one job at a time on the engine; completions reported
in order; each preemption answered exactly once; every reservation given back;
after a preemption or a reset, the packets that never ran accepted again; the
firmware performs only the job the driver holds, and the driver calls a job done
only when it was; the coprocessor never outlives the record that it has to be
stopped; the input interrupt is never masked with nobody to unmask it; what
Windows believes about keys and fingers becomes true again. `PROJECT.json` lists
the hazards at their lines.

## 2. Modules

* `AgxScheduler` models `apple_agx_scheduler.c`, together with the little VidSch
  must remember to be a lawful client: which queued fences are paging packets
  (`PagingFences`) and which discarded ones it still has to resubmit in order
  (`Owed`). Operators named `Sched...` are the C functions; the actions wrap
  them with VidSch's part. Identifiers run over `0 .. 2*HalfRange - 1`, which
  stands for the 32-bit range, and zero is reserved as in the code.
* `AdmissionDispatch` models the driver around it. It INSTANCEs `AgxScheduler`
  and reuses its operators, and `SchedulerRefined` says that it implements its
  specification. One step is one hold of a lock, one interlocked operation or
  one callback at interrupt level; `pc` holds a stack of labels per thread,
  since the dispatcher, the notifier and the completion are called from several
  places.
* `G13Queue` models what `AdmissionDispatch` sees as one job: backend runtime,
  queue provider, queue runtime with its three rings (TA, 3D, compute) and the
  event ring. The driver's thread publishes pointers and sends messages one
  store at a time; the firmware moves between any two of them. `JobEngine` is
  the abstract specification it implements: one job at a time, performed at most
  once and only while it is held, one verdict, success only for a performed job.
* `GfxHandoff` models the lock in shared memory access by access against a
  firmware that runs the mirror image. `Mutex` is the abstract specification.
* `FirmwareProvider` gives the firmware operations as operators from what the
  provider owns to the set of ways the call can end; `DeviceLifecycle` composes
  them with the firmware state machine, the backend runtime and the PnP calls.
* `TouchpadReports` models frame, tracker, features and report;
  `MinimumAssignment` is the Hungarian algorithm it matches fingers with, and the
  reference definition (least total cost over all injections).
* `AppleInput` models the input transport: device, interrupt routine, worker,
  timer, start and stop.
* `AgxSchedulerProofs`, `AdmissionInvariant` with `AdmissionProofs` and
  `EngineProofs`, `G13QueueProofs`, `GfxHandoffProofs`, `DeviceLifecycleProofs`
  and `AppleInputProofs` hold the theorems (section 4); the `MC...` modules are
  what TLC runs.

| Module | Actions | Code |
|---|---|---|
| `AdmissionDispatch` | `Submit...`, `PendingReserve`, `PendingPublish`, `AwaitReady/Slot/GiveUp`, `PreparePacket`, `QueuePacket`, `RollbackPacket` | SubmitCommandVirtual and the paging DDIs, with their rollback |
| | `DispatchCheck/Cpu/Render/Release/Retry`, `RuntimeSubmit` | AdmissionDispatchQueuedWork |
| | `PagingWorker...`, `PagingRecordCompletion`, `PagingFail`, `PagingNotify` | paging work item |
| | `RenderWorkerStart`, `Bind...`, `Activate...`, `BackendSubmit...`, `JobEnds`, `PollAbandon`, `Complete...`, `Worker...` | platform work item |
| | `PagingDpc...`, `SchedulerDpc...`, `NotifyDpc`, `TryNotify...`, `CommitNotification` | the DPC, TryNotifyPreemption |
| | `Preempt...`, `Quiesce...`, `Reset...` | DxgkDdiPreemptCommand, DxgkDdiResetEngine |
| `G13Queue` | `Submit`, `SubmitRejected`, `Publish`, `Send`, `SendFails` | AppleAgxBackendRuntimeSubmit, Run3d, RunTa, RunCompute |
| | `Poll`, `IngestFlag/Other/Recovered/Terminal`, `RejectEvent`, `ObserveQueue`, `ObserveFault`, `Acknowledge...` | poll, DrainEvents, IngestEvent, the backend's view of them |
| | `StopBegin`, `StopFinish`, `StopRefused`, `RetireRefused` | stop with the pending fence, and its retry |
| | `Fw...` | external: the firmware |
| `GfxHandoff` | one per access of Initialize, Acquire, Release; `Deadline`; `Fw...` external | `apple_agx_gfx_handoff.c` |
| `DeviceLifecycle` | `StartOperation`, `CleanupOperation`, `RollbackReturns`, `MapArena`, `CreateQueues`, `StopQueues`, `FreeRuntime`, `Release`, ... | AppleAgxFirmwareStart/Rollback, backend start and stop, `lifecycle.c` |
| `AppleInput` | `IsrChecks/Queues`, `WorkerBegins/Locks/Samples/Reads.../Completes`, `TimerCallback`, `StartResets/Fails`, `StopFlags`, `StopTimer` | `transport.c`; packets go through discovery, reassembly and trackpad initialisation inside `WorkerReads` |
| `TouchpadReports` | `ProcessTrackpadReport`, `TakeFeatures`, `AiVhfFrontendSubmitTrackpad`, `SubmitFails`, `SetInputMode`, `SetSelective` | `apple_trackpad_frame.c`, `apple_precision_touchpad.c`, `vhf_trackpad.c` |

Mutated operators stand next to the ones they vary: each is a plausible slip (a
dropped guard, a value not cleared, a swapped order) that makes the property it
is named with in `PROJECT.json` fail, so that each property is known to look at
the code it is about.

### What is abstracted

* *Submission.* A command is its kind ("paging", "touch" = residency touch,
  "present" = CPU present, "render"). Building and binding the firmware job is
  one step that may fail; its end is `JobEnds`, which `G13Queue` opens up.
  Receipts, profiling, private scenes and the output queue are left out;
  `DxgkCbSynchronizeExecution` is taken to succeed. A packet dropped because its
  binding failed counts as reported: the code tells Windows DMA_PAGE_FAULTED.
  VidSch makes its calls one at a time; the code does not enforce it, the
  measurements in `src/investigation/GPU_CURRENT_STATE.md:1127-1129` (no
  preemption of 8961 arrived during a submission) support it. The race of a
  preemption with an entry that is still being filled (`gpuva_g3_windows.c:3457`)
  is thereby outside the model. DxgkDdiResetFromTimeout is an action of
  `AgxScheduler` but not composed; context creation, `ContextCount`,
  `Responsive` and `AppleAgxSchedulerSubmitFence` (no callers) are not modelled.
* *G13 queues.* A job is its kind (render, joined = render with compute ahead,
  compute) and fence. Reads and pointer stores fail only for addresses outside
  the mapped objects, which no running driver has, so those failures are left
  out. CheckTimeout only counts expiries and changes nothing else. The firmware
  is external: it performs entries up to the head it was told, obeys barriers,
  stamps, posts Flag events late and in any order with its other steps, faults,
  halts until resumed, and drops a job a fault killed. It may ask for a larger
  tiled vertex buffer (`FwGrow`), which the driver sees and, since
  `RequiresHandler` (`shared/src/apple_agx_g13_codec.c:126`) is never read, does
  not answer; a tiler that really is out of memory waits for ever, and `JobEnds`
  assumes it is not.
* *Handoff.* Each access is a step that may fail; after the deadline the loop
  gives up at its next test.
* *Lifecycle.* One passive thread. Register and mailbox sequences are one
  operation that succeeds, fails or comes back late. Of the provider's memory
  only the ownership is kept.
* *Input.* A message is its kind and number; the CRC says whether the parts that
  were joined are all the parts of one message. Both virtual devices are
  configured. KMDF waits for a running interrupt routine and work item before it
  starts the hardware again. The timer does not fire before its deadline: an
  early tick would find the poll content and never be armed again
  (`src/drivers/apple-input/windows/src/transport.c:534`).
* *Touchpad.* One axis, no button. A report that VHF refuses is lost, and
  `lost` exempts it from `NoStuckContact`, since `NeutralRequired` is cleared
  before the submission (`src/drivers/apple-input/windows/src/transport.c:94`).

## 3. Runs

| Run | Bounds | Shows |
|---|---|---|
| `scheduler` | `HalfRange` 5 (ten identifiers, so every history wraps), capacity 3 | types and bounds, fence order, no completion or owed packet refused, the reset's merge fits its array |
| `dispatch` | four kinds, two contexts, three fences, one preemption, two threads per work item | the pending ring and the fences of a context at their limit: contexts, queue and packets agree, idle events accurate, only the wakeup of a render can be lost, reports in order until the first preemption |
| `preemption` | fair, presents and renders of one context, two fences, two preemptions, the second possibly before the first is committed | one answer by one thread, every accepted preemption answered, the adapter faults only in three named races |
| `recovery` | every failure, two fences, one preemption, one reset | one job and the reservation across failure and reset; the driver implements `AgxScheduler` |
| `handoff` | five calls of the driver | mutual exclusion, refinement of `Mutex`; Acquire returns and a waiting firmware is served, under fairness |
| `lifecycle` | none: the state is finite | the coprocessor is on record as long as it may run, memory is freed only when it is quiet, an obligation is kept until it is met, a fault-free retry frees everything |
| `g13` | ring of 4, stamps modulo 2, two jobs of three kinds, one fault, any number of refused acknowledgements | only the held job runs, no event refused while a job is out, the layers agree on the fence, the buffer manager is initialised before use, refinement of `JobEngine`, every job ends |
| `touchpad` | three fingers, two reported, three places, failure limit 2 | the matching is of least cost, the output fits its array, no contact is stuck |
| `input` | packet limit 2, one retry, two reports, two faults, two starts | the interrupt is never left masked, a request to the trackpad is always timed, a stopped transport is inert whatever threads are late, what is delivered is intact, the line is drained, the trackpad initialisation ends |
| `report_order` | paging and render, four fences, one preemption | violation, below |
| `compute_admission` | two jobs, no fault | violation, below |
| `lifecycle_memory` | as `lifecycle` | violation, below |

*Why the bounds are enough.* Two fences suffice for the races of a packet with
its successor (running and queued, completed and running, dropped and new);
three fill the pending ring behind a running packet. Two preemptions of four
fences (2.3 million states) and a reset of three (one million) were searched
without a violation of the safety properties, though not to the end. Two threads per work item
cover a run that leaves and its successor. `HalfRange` of the scheduler run
exceeds the capacity, as in the code, so the window and the ring limit both
bite. A capacity of four (698,388 states), the smallest at which a leftover can
double a fence (section 4), holds too. In `g13` a job takes up to three entries of a ring of four, so the second
job meets the end of the ring, a full ring, the wrap of the stamps and the late
events of the first. In `touchpad` more fingers than contact identifiers are
down at once. In `input` messages of two parts can lose one or be joined
from two messages; the second start meets what the first left
behind. A larger instance of the input's safety properties (reports one
discovery phase earlier, five million states) passed too. The state spaces of
`g13` and `touchpad` (0.3 million each) and `input` (0.9) are exhausted in one
to three minutes.

No run of `AdmissionDispatch` checks deadlock: VidSch may stop calling and the
driver then rests; what must not be left behind at rest is stated by
`EngineReleased` and `OnlyRenderLost`. `handoff`, `g13` and `input` do not
either: their histories end when calls, jobs or starts are used up or the
firmware has stopped, and what must still happen is stated by their liveness
properties. `scheduler`, `lifecycle` and `touchpad` check it.
Worker threads and contexts are interchangeable and symmetric in the safety runs
of `AdmissionDispatch`; the preemption run, which checks liveness, uses no
symmetry.

**Fairness.**

* `AdmissionDispatch`: a queued work item or DPC starts, and a DDI call, work
  item or DPC that has started runs to its end, as Windows guarantees; a job
  given to the firmware ends, since the worker polls with a bound. VidSch is
  never forced to call. The preemption run assumes an active scanout
  (`ScanoutVsync`), whose timeline queues the DPC again and again
  (`scanout_windows.c:1260-1264`).
* `GfxHandoff`: the driver's code runs on, time passes, a firmware that has not
  crashed goes on, and a holder releases. Nobody is forced to call Acquire.
* `G13Queue`: the worker goes on polling while a job is submitted, and a
  firmware that has not faulted goes on.
* `AppleInput`: the device boots and answers what it received, the interrupt,
  the worker and the timer run, a start that began ends. Nobody has to start or
  stop, and faults are bounded, so the properties say what happens after them.

### Disagreements between code and comments

Three runs state what a comment or a plan says and TLC finds the code doing
otherwise.

* `report_order`: the plans for the render queue have DMA_COMPLETED reported "per
  node in submission-fence order"
  (`src/docs/superpowers/plans/2026-10-10-kmd-cross-context-render-queue.md:25-26`).
  A dispatcher that reserved a render before a preemption withdrew it still
  queues the work item. That work item runs when a CPU packet records its
  completion and gives the engine up; it binds and activates the next render
  without a look at the CPU executor (`backend_platform_windows.c:3902-3905`,
  `gpuva_g3_windows.c:3530-3540`) and can report it before the CPU packet in
  front of it. `InOrderUndisturbed` states, and the `dispatch` run shows, that
  the order is kept until the first preemption or reset.
* `compute_admission`: RunCompute publishes the write pointer, then cannot send
  the run message, and returns FALSE; the backend drops the job as one that
  "never reached the queue" (`shared/src/apple_agx_backend_runtime.c:263`). The
  firmware may still perform it.
* `lifecycle_memory`: StartDevice discards the result of the stop when a later
  stage fails (`render-admission/src/lifecycle.c:393`) and releases the memory a
  coprocessor that could not be stopped still reaches.

Others were met on the way and are described here without a run. Where a
property would fail because of one, its definition names the exception.

* *Owed packets.* Of a preemption, as of a reset, the scheduler says that "every
  fence that never ran stays resubmittable once"
  (`shared/src/apple_agx_scheduler.c:385-386`). A reset merges the queue with the
  fences still listed; a preemption overwrites the list with the queue (line
  267). If it finds VidSch half way through submitting discarded packets again
  (say 1 and 2 were discarded, and only 1 is back in the queue), those still owed
  (2) are forgotten, and refused when they come. It takes a VidSch that preempts
  before it has resubmitted everything. `PreemptWhileOwed = TRUE` in
  `MCAgxScheduler.cfg` gives the trace; the run has FALSE, so `OwedResubmittable`
  and `OwedAccepted` speak of partial resubmissions met by resets, not of this
  case, and no property covers it.
* *Lost notification.* A preemption between the DPC's read of the phase and its
  release of `DispatchedFence` is deferred by everyone
  (`scheduler_windows.c:288`); only a later DPC delivers it. With a running
  scanout this is a delay of a frame.
* *Preempted early.* PreemptCommand answers at once although a paging completion
  is unreported when a paging DPC is pending or active
  (`scheduler_windows.c:427-431`). If that is still the DPC of the previous
  packet, DMA_PREEMPTED overtakes the DMA_COMPLETED of the last one.
* *Stale worker.* A dispatcher that reserved a fence before the preemption starts
  its worker after DMA_PREEMPTED was published (`scheduler_windows.c:91`). The
  worker finds nothing to do; or meets a packet that is just being prepared and
  faults the adapter; or takes a render out of turn, as in `report_order`. A
  render that so overtakes a CPU packet of its own context (`Overtaking`) is not
  the context's oldest fence when it is completed or preempted, and that faults
  the adapter too. These are the races `OnlyRacesFault` names.
* *Awaited render.* A render that waited for the slot is refused with
  STATUS_INVALID_PARAMETER when a CPU present of its context is still queued
  (`gpuva_g3_windows.c:4218`).
* *Lost dispatch.* A second rejected enqueue is not retried
  (`work_queue_windows.c:144`); a render packet waits for the next submission or
  DPC. `OnlyRenderLost` says that nothing else can be lost.
* *Late events of a dropped job.* An event that the firmware posts late for a job
  it dropped can complete the next job early (`EndedEarly`), or arrives when no
  job is out, is refused, and fails the poll; a dropped InitBM is not issued
  again. `LayersAgree`, `EventsAccepted` and `ManagerInitialised` except a
  dropped job.
* *Marks of a partial rollback.* After a rollback that failed in part, later
  stops and removals can be refused for good although nothing fails any more.
  `RetryFrees` names the five marks that bring this about (the two records
  differ, a root or a lease in doubt, an arena whose image StartDevice took, the
  handoff lock left held) and states that a retry frees everything without them.
* *Giving up the handoff.* An Acquire that times out lowers its flag and does not
  pass the turn (`shared/src/apple_agx_gfx_handoff.c:144`); a firmware that waits
  for the turn goes on waiting until the driver's next Release. `FirmwareServed`
  is therefore stated for a driver that holds the lock.
* *Discovery that stops.* A descriptor answer that is lost or does not parse
  leaves the discovery where it is: `ai_discovery_poll`
  (`src/drivers/apple-input/protocol/src/apple_spihid_discovery.c:79`), which
  would repeat the request, has no caller, and the interrupt line is quiet. The
  design (`src/documentation/design/2026-08-09-native-apple-input.md:179-181`)
  has "a limited reset count and exponential backoff". The trackpad
  initialisation, which does have a timer, ends (`TrackpadInitEnds`).
* *Keys held at removal.* The same document (182-183) has a release report
  before removal; AiKeyboardVhfStop submits none.

## 4. Proofs

TLC checks small instances; the theorems hold for every value of the constants
that satisfies the named assumptions. Every inductive invariant was checked by
TLC first, and every proof has the same shape: lemmas about the operators, one
lemma per action with a step per part of the invariant the action can disturb,
and a last theorem that combines them.

### The fence scheduler

`AgxSchedulerProofs` proves for every `HalfRange`, `QueueCapacity` and set of
preemption fences that satisfy the assumptions of `AgxScheduler` what the
scheduler run checks on ten identifiers.

The inductive invariant is
`IInv == TypeOK /\ FencesOrdered /\ HeadCached /\ PhaseCoherent /\ NotificationAccurate`.
The order is the heart of it: measured as distance from the completed fence,
active, queued, owed and last submitted fences are increasing and span less
than half the range. None of its parts is inductive alone: that an activated
fence may complete needs the order of the queue; that the order survives a
resubmission needs the owed fences to lie behind the queue; that the
notification stays accurate needs the phase to exclude an active fence; and the
queue that a phase requires to be empty is read through the cached head. The
arithmetic is confined to four lemmas about wrapping distance (type, shift,
chain, injectivity).

Its second part is about the list of preempted fences. The merge of
AppleAgxSchedulerResetEngine is a loop, modelled by a recursive function, and
what it keeps is shown by induction over the list, stated for a set of indices
instead of a predicate (`IntervalInduction`). The list may hold leftovers older
than half the range, which compare as if they were new; so "everything owed is
on the list" is inductive only together with where it is: in one increasing run
of entries, behind entries a reset drops, in front of the leftovers, with room
for all of them behind the queue.

| Theorem | States |
|---|---|
| `Invariant` | `IInv` always holds |
| `TypeCorrect`, `AlwaysOrdered`, `AlwaysHeadCached`, `AlwaysPhaseCoherent`, `AlwaysNotificationAccurate` | its parts |
| `CompletionNeverRefused` | the active fence can always complete |
| `PreemptionNeverRefused` | with no preemption open, a preemption is accepted |
| `CompletedOnlyAdvances` | `CompletedAdvances`: the completed fence never moves backwards, resets included (no run: for completions it is close to their guard) |
| `PreemptedNeverOverflows` | the merge never writes past `PreemptedFenceQueue[]` nor stores the reserved identifier |
| `OwedStaysListed` | what VidSch owes stays on the list, if VidSch does not preempt while it owes (`~PreemptWhileOwed`; otherwise it is false, section 3, *Owed packets*) |
| `OwedNeverRefused` | under the same condition the next owed packet is accepted once admission is open and the queue has room |

### The adapter

`AdmissionInvariant` states the inductive invariant of `AdmissionDispatch` and
`AdmissionProofs` proves it and its consequences, for any sets of paging and
render work items and contexts, any capacity, any subset of failures, and any
number of preemptions and resets. `WindowAssumption` bounds the submissions of a
history by half the range, 2^31 in the code; what happens when identifiers wrap
is the matter of the scheduler's own proofs.

The driver's 70 steps interleave freely, so the invariant says where every thread
may be and what each place guarantees:

* `Control`: the call stacks. A render worker completes a job and, when it
  leaves, dispatches and notifies; the DPC dispatches or notifies and returns to
  release its reservation; a reset completes the job it polls.
* `CpuInv`: the CPU packet is in one place, the queued work item, the worker that
  executes it, the pending DPC, or the DPC that reports it; `PagingIdle` is set
  exactly when none of them, nor a leaving one, is left.
* `WorkInv`: one render worker works at a time, and only while `WorkScheduled`
  says so; a reset that polls has seen the worker leave.
* `OwnInv`: the active fence belongs to the CPU executor, to the active render
  packet or to a failed CPU packet. A thread that acts on the active packet
  after a lock release still finds it active, since worker and reset never act
  at the same time (`WorkInv`), and a packet being bound is bound by one thread.
* `DeliveryInv`: without a reset, who is between the claim and the commit of a
  notification is alone, and Windows is waiting.

| Theorem | States |
|---|---|
| `Inductive` | `IInv` always holds |
| `ImplementsScheduler` | `Spec => Sched!Spec`: each step makes at most one call into the scheduler, and one `AgxScheduler` allows. The scheduler's theorems therefore hold of the scheduler inside the adapter, whichever threads call it |
| `EngineHasOneOwner` | `OneJob` |
| `IdleEventsTellTheTruth` | `IdleAccurate` |
| `PreemptionAnsweredOnce` | `PreemptedOnce`, for `MaxResets = 0`: a reset may run between claim and commit, forgets the claim, and lets a second thread deliver the next preemption while the first is still reporting |

`EngineProofs` adds a second invariant, `EInv == EngineInv /\ QueueInv /\ WakeInv`,
on top of the first. The three properties it is for look only at the rest of the
adapter or count its queues, and are far from inductive: what is left behind at
rest is decided by what each of the threads still owes before.

* `EngineInv`: somebody answers for `DispatchedFence`. It belongs to the CPU
  packet in progress; or its render waits at the head of the queue, can be
  activated, and a dispatcher, a queued work item or a worker is on its way to
  do so (`Waiting`); or it runs and a worker polls it; or its completion is on
  its way to the DPC that will release it (`ReportOnItsWay`). Each step hands it
  from one answer to the next. The stale worker of section 3 makes this harder
  than it looks: two renders can be behind the same reservation, and `OneReport`
  says that the DPC, which has room for one completion, never owes two.
* `QueueInv`: both queues and the pending ring are in submission order and every
  fence queued with the scheduler is in exactly one of the CPU queue, the ring
  and the render slot, except while a bind that failed waits for its reset. That
  the numbers agree (`QueueCoherent` compares cardinalities) then follows by
  the library's theorems on finite sets.
* `WakeInv`: the CPU packet in progress is with a work item, a worker or the DPC;
  and while a CPU packet could be dispatched, somebody stands before the lock of
  AdmissionDispatchQueuedWork or is on the way there.

At rest all of these "somebody"s are gone, so only a failed CPU packet can still
hold the engine, and only a render can be left waiting.

| Theorem | States |
|---|---|
| `ReservationAnswered` | `EInv` always holds |
| `ReservationsGivenBack` | `EngineReleased` |
| `CpuWakeupsKept` | `OnlyRenderLost` |
| `QueuesStayTogether` | `QueueCoherent` |

### The device lifecycle

`DeviceLifecycleProofs` proves the four properties of start, stop and removal,
whatever operation of whatever attempt fails or is late. The invariant joins what
the provider's bits say of the hardware (`Coherent`), what the firmware record
says of the provider (`Recorded`: whatever holds the coprocessor, published roots
or the handoff lock has an entry the next rollback finds), where the thread may
be (`Control`), and how far a retry in which nothing failed has got
(`RetryCleans`). The first part proves each callback of the provider once.

| Theorem | States |
|---|---|
| `TypeCorrect` | the types |
| `RunningAscIsCovered`, `RuntimeFreedOnlyQuiet`, `ObligationIsKept`, `CleanRetryFrees` | `AscCovered`, `FreedOnlyQuiet`, `ObligationKept`, `RetryFrees` |

### The firmware queues

`G13QueueProofs` proves for every capacity of the rings, every modulus of the
stamps and any number of jobs and faults, with the firmware free to move between
any two stores of the driver, what the run `g13` checks on four slots and two
jobs. One assumption is on the code's failures: `ComputeSends` says that the run
message of a compute job is sent. Without it the statements are false, as the run
`compute_admission` shows (section 3); the run messages of renders and joined
jobs may fail anywhere.

The inductive invariant speaks of a ring from its end. `Left(q)` is what the
firmware has still to retire of a queue, and `Behind(q, k)` the entry `k` slots
back from the backend's expected pointer, so nothing in it depends on where the
ring wraps; the modular arithmetic is confined to six lemmas.

* `LayerInv` gives the joint states of the layers: a submission in progress,
  nothing out, in flight, completed, dropped, faulting, fault seen, down, and the
  one joint state that a drop alone brings about (`Early`).
* `RegionInv` says that what is left on a ring belongs to dropped jobs and then,
  nearer the end, to the job the backend holds; `QuiescedInv` that quiesced
  queues of a running firmware hold nothing of that job. Together they are why the
  firmware cannot fetch an entry of a job that ended.
* `EntryInv` says that the work is the last entry of a job on its queue and lies
  behind a barrier for every queue it waits for; `RanInv` that whatever a layer
  counts as complete is retired. A render reports success when 3D and TA are
  complete, a joined one too: that its compute queue ran follows from the barrier.
* `FlagInv` follows the report of every queue, from the pending flag through one
  event of the ring to the runtime, in the order in which the queues wait for each
  other. It holds until a job is dropped and is what keeps an event from outliving
  its job.

`ManagerInv` and `HaltInv` add the InitBM on its way and the one pending fault.

| Theorem | States |
|---|---|
| `TypeCorrect` | the types |
| `EventsNeverOutlive`, `ManagerFirst`, `LayersStayTogether` | `EventsAccepted`, `ManagerInitialised`, `LayersAgree` |
| `RunsOnlyPending` | `OnlyPendingRuns`: the firmware performs only work of the job the backend holds |
| `StackIsJobEngine` | `ImplementsJobEngine`: every step is one of `JobEngine` or a stutter |

### The input transport

`AppleInputProofs` proves for every packet limit, number of retries, faults and
starts: the interrupt is never left masked, a request to the trackpad is timed, a
stopped transport is inert, and what is delivered is whole and in order. The
invariant says who will unmask the pin (`Masking`: while the transport runs it is
masked exactly while a work item is queued or its worker at work, never both),
who holds the lock and how far a stop has got (`Locking`), that report packets on
the wire are numbered above the last report delivered and in order (`WireOrder`),
without which a message joined from two reports could not be told from a whole
one, that a message being joined has the part that gave it its kind (`Begun`),
and that nothing is published or being initialised once a stop has ended
(`Quieted`).

`StoppedQuiet` is about steps, since after a stop threads do still run: an
interrupt routine past its checks queues a work item, its worker runs, and the
timer a last packet armed calls back. Each such step is shown to do nothing, from
what `Locking` and `Quieted` say of the stage. That requests are timed is
inductive on top of the invariant (`TimedInv`): a callback of an earlier request
may still wait for the lock when the worker arms the timer for the next one, or
stops it.

| Theorem | States |
|---|---|
| `Inductive` | the invariant |
| `MaskedPinHasWorker`, `StoppedStaysQuiet`, `ReportsDeliveredIntact` | `NotLeftMasked`, `StoppedQuiet`, `DeliveredIntact` |
| `RequestsAreTimed` | `InitialisationTimed`: an unanswered request has its timer armed, or a callback on the way that finds it overdue |

### The handoff lock

`GfxHandoffProofs` proves for every number of calls, and with every access free
to fail, that driver and firmware never hold the lock together and that the
protocol implements `Mutex`.

The inductive invariant ties each party's flag in memory to where its code is.
`FlagUp` and `FwFlag` say that whoever has passed its test of the other's flag
has its own up; `LockedFlag` and `LockedSteps` say the same of the driver between
calls, where only `State.Locked` remembers it, and of Release half way, whose
stores may fail and be tried again; `Continuation` says which call the steps
shared by Initialize and Acquire return to. `MutualExclusion` is not inductive
without them: a party enters on reading the other's flag down, and it is the
flag, not the program counter, that it reads.

| Theorem | States |
|---|---|
| `TypeCorrect` | the words of the lock and the driver's record keep their types |
| `Exclusion` | `MutualExclusion` always holds |
| `Refinement` | `Spec => Abstract!Spec`: every access is a step of `Mutex` or a stutter |

### What proving corrected

Four statements that had passed their runs were false, and the attempt to prove
them, followed by a run with larger bounds, showed it:

* `PreemptedFitsArray` claimed that no fence is on the list twice. A leftover
  older than half the range compares as new and can be the double of a fence
  preempted later, so the comment that a fence is resubmittable "once"
  (`shared/src/apple_agx_scheduler.c:385-388`) holds only while no leftover
  outlives half the range.
* `OneJob` claimed that no render is active while a CPU packet is in progress,
  and `ReportsInOrder` that completions are reported in order: the stale worker
  of section 3 breaks both. The first now speaks of who owns the active fence,
  the second is a finding.
* `ContextsCoherent` and `OnlyRacesFault` did not allow for a render that
  overtakes (`Overtaking`).

### Model-checked only

* `ContextsCoherent`, `OnlyRacesFault` and `InOrderUndisturbed` of
  `AdmissionDispatch`. They relate the fences of every context to the order in
  which the packets of all contexts complete, a third layer above `IInv` and
  `EInv`.
* The properties of `TouchpadReports`, whose matching of fingers is
  `MinimumAssignment`.
* That no refused job reached the rings (`RefusedNeverReached`) is false and has
  a run; the theorems of `G13QueueProofs` assume its cause away.
* Every liveness property: the prover does not handle fairness.
* `MinimumAssignment` computes by RECURSIVE operators, which the prover does not
  accept; its result is compared with the reference on every pair of frames of
  the instance.

## 5. Not modelled

* RTKit boot, session and mailbox: `DeviceLifecycle` sees them as operations
  that succeed, fail or are late. Message order inside the boot is open.
* Address spaces, residency, slab pool, output queue and scanout: planned, see
  below.
* The older firmware queue stack (`work_queue`, `submission`,
  `submission_coordinator`, `event_allocator`, `render_provider`), which
  render-admission does not call, and the earlier kernel drivers.
* Encoders of firmware structures, receipts, GPIO and SPI register sequences,
  descriptor parsing: byte layouts and register writes without a protocol of
  their own.
* User-mode drivers, the Mesa port, shader translation and host tools, most of
  the repository's lines: sequential translators and scripts, whose inputs are
  not a small set and whose results no short reference defines.
* The hypervisor and UEFI firmware are git submodules without contents here.

## 6. Plan

1. *Done*: the submission path, the firmware queues, the handoff lock, the device
   lifecycle and the input driver; proofs for all of them but the trackpad
   reports.
2. Proofs: `ContextsCoherent` of `AdmissionDispatch`; `OutputFits` and
   `NoStuckContact` of the trackpad, once the assignment is written without
   RECURSIVE.
3. Memory: UAT table with publication and rollback, residency, the slab pool and
   the output queue, against "a frame is free, mapped or awaiting invalidation".
4. Scanout (flip against vsync and release); RTKit boot with messages in any
   order.
