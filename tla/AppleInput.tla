----------------------------- MODULE AppleInput -----------------------------
(***************************************************************************)
(* The transport of the Apple SPI keyboard and trackpad driver             *)
(* (apple-input: transport.c, the discovery, reassembly, transport-queue   *)
(* and trackpad-init state machines of protocol/src, the VHF front end).   *)
(*                                                                         *)
(* The device holds an interrupt line low while it has packets.  The       *)
(* interrupt routine masks the pin and queues a worker; the worker, under  *)
(* TransportLock, reads packets, joins fragments to messages, steps the    *)
(* discovery and then the trackpad initialisation, publishes the two       *)
(* virtual HID devices and passes reports on.  A timer repeats unanswered  *)
(* initialisation requests.  Windows starts and stops the transport with   *)
(* the device's power.                                                     *)
(*                                                                         *)
(* A message is its kind and number; its content does not matter, only     *)
(* whether the parts the driver joins are parts of one message (which is   *)
(* what the message CRC tells).  Both virtual devices are configured.      *)
(* Faults (a failed or corrupted transfer, a lost request, an answer that  *)
(* does not parse, a refused VhfCreate) are bounded by MaxFaults.          *)
(***************************************************************************)
EXTENDS Integers, Sequences, FiniteSets

CONSTANTS
    PacketLimit,   \* AI_TRANSPORT_MAX_PACKETS_PER_WORKER
    RetryLimit,    \* AI_TRANSPORT_TRACKPAD_INIT_RETRY_LIMIT
    MaxReports,    \* bound: reports the device sends
    QuietUntil,    \* bound: discovery phase before which it sends none
    MaxFaults,     \* bound: faults
    MaxStarts      \* bound: starts of the transport

ASSUME LimitsAssumption == PacketLimit \in Nat \ {0} /\ RetryLimit \in Nat
ASSUME BoundsAssumption == {MaxReports, QuietUntil, MaxFaults, MaxStarts} \subseteq Nat

VARIABLES
    \* The device.
    wire,          \* packets the device has ready, oldest first
    asked,         \* requests it has not answered
    booted,        \* it has sent its boot marker
    sent,          \* reports sent so far
    \* The interrupt, its work item and the worker.
    pin,           \* the pin's interrupt is enabled
    queue,         \* TransportQueue: pending, worker_active
    isr,           \* the interrupt routine: "idle", or past its first checks
    work,          \* the interrupt's work item is queued
    pc, count,     \* the worker and its packet_count
    lock,          \* owner of TransportLock
    \* Start and stop.
    Stopping, HardwareStarted, stage, starts,
    \* The protocol.
    Discovery,     \* Discovery.phase
    Reassembler,
    TrackpadInit,  \* phase, message_id, retry_count, deadline passed (the
                   \* last three only while it waits for an answer)
    timer,         \* TrackpadInitTimer: armed, callback waiting for the lock
    KeyboardVhfState, TrackpadVhfState,
    delivered,     \* the last report passed to Windows: numbers of its parts
    faults

device == <<wire, asked, booted, sent>>
interrupt == <<pin, queue, isr, work>>
protocol == <<Discovery, Reassembler, TrackpadInit, timer, KeyboardVhfState,
              TrackpadVhfState, delivered>>
power == <<Stopping, HardwareStarted, stage, starts>>
vars == <<device, interrupt, pc, count, lock, power, protocol, faults>>

\* enum ai_discovery_phase.
WaitBoot == 1
Identity == 2
KeyboardDescriptor == 6
TrackpadDescriptor == 7
Ready == 8

EmptyQueue == [pending |-> FALSE, worker_active |-> FALSE]
NoMessage == [active |-> FALSE, kind |-> "none", parts |-> <<>>, total |-> 0]
NoInit == [phase |-> "IDLE", id |-> 0, retries |-> 0, overdue |-> FALSE]
Asserted == wire # <<>>
Run == HardwareStarted /\ ~Stopping

Init ==
    /\ wire = <<>> /\ asked = {} /\ booted = TRUE /\ sent = 0
    /\ pin = FALSE /\ queue = EmptyQueue /\ isr = "idle" /\ work = FALSE
    /\ pc = "idle" /\ count = 0 /\ lock = "free"
    /\ Stopping = FALSE /\ HardwareStarted = FALSE /\ stage = "stopped" /\ starts = 0
    /\ Discovery = 0 /\ Reassembler = NoMessage /\ TrackpadInit = NoInit
    /\ timer = [armed |-> FALSE, callback |-> FALSE]
    /\ KeyboardVhfState = "Absent" /\ TrackpadVhfState = "Absent"
    /\ delivered = <<0>> /\ faults = 0

-----------------------------------------------------------------------------
\* The device.  Descriptors and reports of many fingers take two packets.
Parts(kind, to) ==
    IF kind = "touch" \/ (kind = "answer" /\ to \in {KeyboardDescriptor, TrackpadDescriptor})
    THEN 2 ELSE 1
Packets(kind, to, id) ==
    [n \in 1 .. Parts(kind, to) |->
        [kind |-> kind, to |-> to, id |-> id, part |-> n, total |-> Parts(kind, to)]]
Transmit(kind, to, id) == wire' = wire \o Packets(kind, to, id)

DeviceBoots ==
    /\ ~booted /\ booted' = TRUE /\ Transmit("boot", 0, 0)
    /\ UNCHANGED <<asked, sent, interrupt, pc, count, lock, power, protocol, faults>>

\* It answers a request, when it likes.
DeviceAnswers ==
    /\ \E r \in asked : asked' = asked \ {r} /\ Transmit(r.kind, r.to, r.id)
    /\ UNCHANGED <<booted, sent, interrupt, pc, count, lock, power, protocol, faults>>

Progress == Discovery + IF TrackpadInit.phase = "READY" THEN 1 ELSE 0

\* A key is pressed or the trackpad is touched.
DeviceReports ==
    /\ booted /\ Progress >= QuietUntil /\ sent < MaxReports /\ sent' = sent + 1
    /\ \E kind \in {"key", "touch"} : Transmit(kind, 0, sent + 1)
    /\ UNCHANGED <<asked, booted, interrupt, pc, count, lock, power, protocol, faults>>

-----------------------------------------------------------------------------
\* The transport queue.
ai_transport_irq(q) == [q EXCEPT !.pending = TRUE]
QueuesWorker(q) == ~q.pending /\ ~q.worker_active
CanBegin(q) == q.pending /\ ~q.worker_active
ai_transport_worker_begin(q) ==
    IF CanBegin(q) THEN [pending |-> FALSE, worker_active |-> TRUE] ELSE q
ai_transport_worker_complete(q, asserted) ==
    IF q.worker_active
    THEN [pending |-> q.pending \/ asserted, worker_active |-> FALSE] ELSE q

\* AiInputInterruptIsr checks, without a lock, that the transport runs.  The
\* level is delivered as long as the pin is enabled.
IsrChecks ==
    /\ isr = "idle" /\ pin /\ Run /\ Asserted /\ isr' = "checked"
    /\ UNCHANGED <<device, pin, queue, work, pc, count, lock, power, protocol, faults>>

\* Then, under the interrupt lock, it masks the pin and queues the work item,
\* or takes both back when the item is still queued.
IsrQueues ==
    /\ isr = "checked" /\ isr' = "idle"
    /\ LET q == ai_transport_irq(queue)
       IN  IF ~QueuesWorker(queue) THEN queue' = q /\ UNCHANGED <<pin, work>>
           ELSE IF ~work THEN queue' = q /\ work' = TRUE /\ pin' = FALSE
           ELSE /\ queue' = ai_transport_worker_complete(ai_transport_worker_begin(q), FALSE)
                /\ pin' = TRUE /\ UNCHANGED work
    /\ UNCHANGED <<device, pc, count, lock, power, protocol, faults>>

-----------------------------------------------------------------------------
\* AiTransportWorker.
WorkerBegins ==
    /\ pc = "idle" /\ work /\ work' = FALSE
    /\ queue' = ai_transport_worker_begin(queue)
    /\ pc' = IF CanBegin(queue) THEN "lock" ELSE "idle"
    /\ UNCHANGED <<device, pin, isr, count, lock, power, protocol, faults>>

\* A slip: the worker reads on while the transport is stopped.
DrainStopped(n) == IF n < PacketLimit THEN "transfer" ELSE "sample"

\* The test at the head of the inner loop, after n packets.
Drain(n) == IF n < PacketLimit /\ Run THEN "transfer" ELSE "sample"

WorkerLocks ==
    /\ pc = "lock" /\ lock = "free" /\ lock' = "worker" /\ count' = 0 /\ pc' = Drain(0)
    /\ UNCHANGED <<device, interrupt, power, protocol, faults>>

WorkerSamples ==
    /\ pc = "sample" /\ pc' = IF Asserted THEN "asserted" ELSE "clear"
    /\ UNCHANGED <<device, interrupt, count, lock, power, protocol, faults>>

\* A slip: work left at the limit stays pending.
AtLimitPending(q) == q

\* At the limit the level is left to call for the next worker.
AtLimit(q) == [q EXCEPT !.pending = FALSE]

\* Under the interrupt lock: drain on while there is more.  At the limit the
\* worker goes round once more and finds nothing of its own.  It leaves with
\* the pin enabled, unless the transport was stopped, and releases the lock.
WorkerCompletes ==
    /\ pc \in {"asserted", "clear"}
    /\ LET q == ai_transport_worker_complete(queue, pc = "asserted")
           again == queue.worker_active /\ q.pending
       IN  /\ queue' = IF ~again THEN q
                       ELSE IF count < PacketLimit THEN ai_transport_worker_begin(q)
                       ELSE AtLimit(q)
           /\ IF again /\ Run
              THEN pc' = Drain(count) /\ UNCHANGED <<pin, lock, count>>
              ELSE /\ pc' = "idle" /\ lock' = "free" /\ count' = 0
                   /\ pin' = (pin \/ Run)
    /\ UNCHANGED <<device, isr, work, power, protocol, faults>>

-----------------------------------------------------------------------------
\* ai_reassembler_push: part 1 starts a message, any other must continue it.
Continues(r, p) ==
    r.active /\ r.kind = p.kind /\ p.part = Len(r.parts) + 1 /\ p.total = r.total
ai_reassembler_push(r, p) ==
    IF p.part = 1
    THEN [active |-> p.total > 1, kind |-> p.kind, parts |-> <<p>>, total |-> p.total]
    ELSE IF Continues(r, p)
    THEN [r EXCEPT !.active = p.part < p.total, !.parts = Append(@, p)]
    ELSE NoMessage

\* A slip: the check sum of the message is not looked at.
Unchecked(parts) == TRUE

\* ai_message_decode: the check sum of a message spans its parts.
MessageCrcOk(parts) ==
    \A i \in DOMAIN parts : parts[i].id = parts[1].id /\ parts[i].to = parts[1].to

\* What may fail while a packet is handled, and is charged to the bound.
Failures == {"write", "content", "keyboard", "trackpad"}
Charge(failed) == faults' = faults + Cardinality(failed) /\ faults' <= MaxFaults

\* The inner loop goes on after a packet handled without error.
Continue(ok) == pc' = IF ok /\ Asserted' THEN Drain(count + 1) ELSE "sample"

\* AiTransportSendCurrentRequest and AiTransportSendTrackpadInitRequest.  A
\* write that fails may have reached the device.
Request(r, failed) ==
    IF "write" \in failed THEN asked' \in {asked, asked \cup {r}}
                          ELSE asked' = asked \cup {r}
DiscoveryRequest(phase) == [kind |-> "answer", to |-> phase, id |-> 0]
InitRequest(init) == [kind |-> init.phase, to |-> 0, id |-> init.id]

\* AiVhfFrontendStart: the keyboard unless it runs, the trackpad when it is
\* initialised.
AiVhfFrontendStart(init, failed) ==
    /\ KeyboardVhfState = "Running" => "keyboard" \notin failed
    /\ KeyboardVhfState' =
         IF KeyboardVhfState = "Running" \/ "keyboard" \notin failed THEN "Running"
         ELSE "DescriptorsReady"
    /\ TrackpadVhfState' =
         IF TrackpadVhfState = "Running" \/ (init = "READY" /\ "trackpad" \notin failed)
         THEN "Running" ELSE "DescriptorsReady"

\* The device has booted: the first request.
AcceptBoot(p, failed) ==
    /\ IF p.kind = "boot"
       THEN /\ failed \subseteq {"write"} /\ Discovery' = Identity
            /\ Request(DiscoveryRequest(Identity), failed) /\ Continue(failed = {})
       ELSE failed = {} /\ Continue(FALSE) /\ UNCHANGED <<asked, Discovery>>
    /\ UNCHANGED <<Reassembler, TrackpadInit, timer, KeyboardVhfState,
                   TrackpadVhfState, delivered>>

\* An answer to the discovery request that is due; it may not parse.  The last
\* one publishes the keyboard and starts the trackpad.
AcceptAnswer(m, failed) ==
    IF ~(m.kind = "answer" /\ m.to = Discovery) \/ failed = {"content"}
    THEN /\ failed = {} \/ (m.kind = "answer" /\ m.to = Discovery)
         /\ Continue(FALSE)
         /\ UNCHANGED <<asked, Discovery, TrackpadInit, timer, KeyboardVhfState,
                        TrackpadVhfState, delivered>>
    ELSE /\ Discovery' = Discovery + 1
         /\ UNCHANGED delivered
         /\ IF Discovery' < Ready
            THEN /\ failed \subseteq {"write"}
                 /\ Request(DiscoveryRequest(Discovery'), failed) /\ Continue(failed = {})
                 /\ UNCHANGED <<TrackpadInit, timer, KeyboardVhfState, TrackpadVhfState>>
            ELSE /\ failed \subseteq {"write", "keyboard"}
                 /\ AiVhfFrontendStart(TrackpadInit.phase, failed)
                 /\ TrackpadInit' = [NoInit EXCEPT !.phase = "DIMENSIONS"]
                 /\ Request(InitRequest(TrackpadInit'), failed)
                 /\ timer' = [timer EXCEPT !.armed = TRUE] /\ Continue(TRUE)

\* The answer the trackpad initialisation waits for: next phase and request,
\* or publication; dimensions that do not parse end it.
AcceptInit(failed) ==
    /\ UNCHANGED <<Discovery, delivered>>
    /\ IF TrackpadInit.phase = "MULTITOUCH"
       THEN /\ failed \subseteq {"keyboard", "trackpad"}
            /\ TrackpadInit' = [NoInit EXCEPT !.phase = "READY"]
            /\ AiVhfFrontendStart("READY", failed)
            /\ timer' = [timer EXCEPT !.armed = FALSE]
            /\ Continue(TRUE) /\ UNCHANGED asked
       ELSE IF "content" \in failed
       THEN /\ failed = {"content"}
            /\ TrackpadInit' = [NoInit EXCEPT !.phase = "OFFLINE"]
            /\ timer' = [timer EXCEPT !.armed = FALSE]
            /\ \E ok \in BOOLEAN : Continue(ok)
            /\ UNCHANGED <<asked, KeyboardVhfState, TrackpadVhfState>>
       ELSE /\ failed \subseteq {"write"}
            /\ TrackpadInit' = [phase |-> "MULTITOUCH", id |-> TrackpadInit.id + 1,
                                retries |-> 0, overdue |-> FALSE]
            /\ Request(InitRequest(TrackpadInit'), failed)
            /\ timer' = [timer EXCEPT !.armed = TRUE]
            /\ Continue(TRUE) /\ UNCHANGED <<KeyboardVhfState, TrackpadVhfState>>

\* Everything after discovery: an awaited answer, a report for a published
\* device, or nothing of interest (a late answer).
AcceptMessage(m, parts, failed) ==
    IF m.kind = TrackpadInit.phase /\ m.id = TrackpadInit.id THEN AcceptInit(failed)
    ELSE /\ failed = {} /\ Continue(TRUE)
         /\ delivered' =
              IF \/ m.kind = "key" /\ KeyboardVhfState = "Running"
                 \/ m.kind = "touch" /\ TrackpadInit.phase = "READY"
                                     /\ TrackpadVhfState = "Running"
              THEN [n \in DOMAIN parts |-> parts[n].id]
              ELSE delivered
         /\ UNCHANGED <<asked, Discovery, TrackpadInit, timer, KeyboardVhfState,
                        TrackpadVhfState>>

\* AiTransportProcessPacket.
ProcessPacket(p, failed) ==
    IF Discovery = WaitBoot THEN AcceptBoot(p, failed)
    ELSE LET r == ai_reassembler_push(Reassembler, p)
             complete == r # NoMessage /\ ~r.active
         IN  /\ Reassembler' = IF r.active THEN r ELSE NoMessage
             /\ IF ~complete \/ ~MessageCrcOk(r.parts)
                THEN /\ failed = {} /\ Continue(r.active)
                     /\ UNCHANGED <<asked, Discovery, TrackpadInit, timer,
                                    KeyboardVhfState, TrackpadVhfState, delivered>>
                ELSE IF Discovery = Ready THEN AcceptMessage(r.parts[1], r.parts, failed)
                ELSE AcceptAnswer(r.parts[1], failed)

\* A packet is read and handled.
WorkerReads ==
    /\ pc = "transfer" /\ Asserted
    /\ wire' = Tail(wire) /\ count' = count + 1
    /\ \E failed \in SUBSET Failures :
         Charge(failed) /\ ProcessPacket(Head(wire), failed)
    /\ UNCHANGED <<booted, sent, interrupt, lock, power>>

\* The transfer times out or the packet's check sum is wrong.
WorkerReadFails ==
    /\ pc = "transfer" /\ Asserted /\ Charge({"read"})
    /\ wire' \in {wire, Tail(wire)} /\ count' = count + 1 /\ pc' = "sample"
    /\ UNCHANGED <<asked, booted, sent, interrupt, lock, power, protocol>>

\* The device has nothing to say: what is read is no packet, or an empty one,
\* which ends a message that was begun.
WorkerReadsNothing ==
    /\ pc = "transfer" /\ ~Asserted
    /\ count' = count + 1 /\ pc' = "sample"
    /\ Reassembler' \in {Reassembler, NoMessage}
    /\ UNCHANGED <<device, interrupt, lock, power, Discovery, TrackpadInit, timer,
                   KeyboardVhfState, TrackpadVhfState, delivered, faults>>

-----------------------------------------------------------------------------
Initialising(init) == init.phase \in {"DIMENSIONS", "MULTITOUCH"}

\* TrackpadInitTimer: a second after it was armed the deadline has passed.
TimerFires ==
    /\ timer.armed /\ ~timer.callback
    /\ timer' = [armed |-> FALSE, callback |-> TRUE]
    /\ TrackpadInit' = [TrackpadInit EXCEPT !.overdue = @ \/ Initialising(TrackpadInit)]
    /\ UNCHANGED <<device, interrupt, pc, count, lock, power, Discovery, Reassembler,
                   KeyboardVhfState, TrackpadVhfState, delivered, faults>>

\* ai_trackpad_init_poll, for a deadline that has passed.
Waiting(init) == Initialising(init) /\ init.overdue
ai_trackpad_init_poll(init) ==
    IF init.retries >= RetryLimit THEN [NoInit EXCEPT !.phase = "OFFLINE"]
    ELSE [init EXCEPT !.retries = @ + 1, !.id = @ + 1, !.overdue = FALSE]

\* A slip: the request is repeated but the timer is not armed.
TimerCallbackOnce ==
    /\ timer.callback /\ lock = "free"
    /\ TrackpadInit' = IF Run /\ Waiting(TrackpadInit)
                       THEN ai_trackpad_init_poll(TrackpadInit) ELSE TrackpadInit
    /\ LET again == TrackpadInit'.retries > TrackpadInit.retries
       IN  /\ timer' = [armed |-> timer.armed, callback |-> FALSE]
           /\ \E failed \in SUBSET {"write"} :
                IF again THEN Charge(failed) /\ Request(InitRequest(TrackpadInit'), failed)
                ELSE failed = {} /\ UNCHANGED <<asked, faults>>
    /\ UNCHANGED <<wire, booted, sent, interrupt, pc, count, lock, power, Discovery,
                   Reassembler, KeyboardVhfState, TrackpadVhfState, delivered>>

\* The callback, under TransportLock: ask again and arm again, or give up.
TimerCallback ==
    /\ timer.callback /\ lock = "free"
    /\ TrackpadInit' = IF Run /\ Waiting(TrackpadInit)
                       THEN ai_trackpad_init_poll(TrackpadInit) ELSE TrackpadInit
    /\ LET again == TrackpadInit'.retries > TrackpadInit.retries
       IN  /\ timer' = [armed |-> timer.armed \/ again, callback |-> FALSE]
           /\ \E failed \in SUBSET {"write"} :
                IF again THEN Charge(failed) /\ Request(InitRequest(TrackpadInit'), failed)
                ELSE failed = {} /\ UNCHANGED <<asked, faults>>
    /\ UNCHANGED <<wire, booted, sent, interrupt, pc, count, lock, power, Discovery,
                   Reassembler, KeyboardVhfState, TrackpadVhfState, delivered>>

-----------------------------------------------------------------------------
\* AiTransportStart, once the timer is stopped and up to the reset of the
\* device: everything is cleared, the pin is enabled, interrupts are taken.
Begin(enabled) ==
    /\ stage = "stopped" /\ starts < MaxStarts /\ ~timer.callback /\ lock = "free"
    /\ starts' = starts + 1 /\ stage' = "starting" /\ lock' = "start"
    /\ Stopping' = FALSE /\ HardwareStarted' = TRUE
    /\ queue' = EmptyQueue /\ pin' = enabled
    /\ Reassembler' = NoMessage /\ TrackpadInit' = NoInit /\ Discovery' = WaitBoot
    /\ timer' = [timer EXCEPT !.armed = FALSE]
    /\ UNCHANGED <<device, isr, work, pc, count, KeyboardVhfState, TrackpadVhfState,
                   delivered, faults>>

\* A slip: the pin is left as the last stop left it.
StartKeepsPin == Begin(pin \/ starts = 0)

AiTransportStart == Begin(TRUE)

\* The reset makes the device forget what it was doing and boot.
StartResets ==
    /\ stage = "starting" /\ stage' = "started" /\ lock' = "free"
    /\ wire' = <<>> /\ asked' = {} /\ booted' = FALSE
    /\ UNCHANGED <<sent, interrupt, pc, count, Stopping, HardwareStarted, starts,
                   protocol, faults>>

\* The reset fails: the device is not started and will be released.
StartFails ==
    /\ stage = "starting" /\ stage' = "started" /\ lock' = "free"
    /\ Charge({"reset"}) /\ HardwareStarted' = FALSE /\ Stopping' = TRUE
    /\ UNCHANGED <<device, interrupt, pc, count, starts, protocol>>

\* AiTransportStop, in three steps: the flags; the timer, waiting for its
\* callback; the rest, waiting for the worker.
StopFlags ==
    /\ stage = "started" /\ stage' = "stopping"
    /\ Stopping' = TRUE /\ HardwareStarted' = FALSE
    /\ UNCHANGED <<device, interrupt, pc, count, lock, starts, protocol, faults>>

StopTimer ==
    /\ stage = "stopping" /\ stage' = "timer_stopped" /\ ~timer.callback
    /\ timer' = [timer EXCEPT !.armed = FALSE]
    /\ UNCHANGED <<device, interrupt, pc, count, lock, Stopping, HardwareStarted, starts,
                   Discovery, Reassembler, TrackpadInit, KeyboardVhfState,
                   TrackpadVhfState, delivered, faults>>

AiTransportStop ==
    /\ stage = "timer_stopped" /\ stage' = "quiet" /\ lock = "free"
    /\ queue' = EmptyQueue /\ Reassembler' = NoMessage
    /\ TrackpadInit' = NoInit
    /\ KeyboardVhfState' = "Absent" /\ TrackpadVhfState' = "Absent"
    /\ UNCHANGED <<device, pin, isr, work, pc, count, lock, Stopping, HardwareStarted,
                   starts, Discovery, timer, delivered, faults>>

\* The framework disables the interrupt and waits for what it had queued.
InterruptDisabled ==
    /\ stage = "quiet" /\ stage' = "stopped"
    /\ isr = "idle" /\ ~work /\ pc = "idle"
    /\ UNCHANGED <<device, interrupt, pc, count, lock, Stopping, HardwareStarted, starts,
                   protocol, faults>>

-----------------------------------------------------------------------------
Device == DeviceBoots \/ DeviceAnswers
Isr == IsrChecks \/ IsrQueues
Worker == \/ WorkerBegins \/ WorkerLocks
          \/ WorkerReads \/ WorkerReadFails \/ WorkerReadsNothing
          \/ WorkerSamples \/ WorkerCompletes

Next ==
    \/ DeviceBoots \/ DeviceAnswers \/ DeviceReports
    \/ IsrChecks \/ IsrQueues
    \/ WorkerBegins \/ WorkerLocks
    \/ WorkerReads \/ WorkerReadFails \/ WorkerReadsNothing
    \/ WorkerSamples \/ WorkerCompletes
    \/ TimerFires \/ TimerCallback
    \/ AiTransportStart \/ StartResets \/ StartFails
    \/ StopFlags \/ StopTimer \/ AiTransportStop \/ InterruptDisabled

Spec == Init /\ [][Next]_vars

\* The device boots and answers, the processor takes interrupts, work items
\* and timers, and a start that has begun ends.  Nobody has to stop.
FairSpec ==
    /\ Spec
    /\ WF_vars(Device) /\ WF_vars(Isr) /\ WF_vars(Worker) /\ WF_vars(TimerFires)
    /\ WF_vars(TimerCallback) /\ WF_vars(StartResets \/ StartFails)

-----------------------------------------------------------------------------
\* While the transport runs, a masked pin has a worker that will unmask it:
\* no order of interrupts, errors, stops and starts leaves the level masked.
NotLeftMasked == Run /\ ~pin => work \/ pc # "idle"

\* The reports Windows gets are whole, and in the device's order: parts of
\* different reports are never joined, whatever packets are lost.
DeliveredIntact ==
    [][delivered' # delivered =>
         /\ \A n \in DOMAIN delivered' : delivered'[n] = delivered'[1]
         /\ delivered'[1] > delivered[1]]_vars

\* From the end of AiTransportStop to the next start the transport is inert.
\* An interrupt routine past its checks may still queue a worker, that worker
\* and one that waited for the lock still run, and a timer armed after
\* WdfTimerStop still calls back; but none of them transfers a packet, sends a
\* request, goes on with the protocol, passes a report, publishes a device or
\* unmasks the pin.
StoppedQuiet ==
    [][stage' \in {"quiet", "stopped"} =>
         /\ KeyboardVhfState' = "Absent" /\ TrackpadVhfState' = "Absent"
         /\ TrackpadInit'.phase = "IDLE"
         /\ pc' # "transfer" /\ asked' \subseteq asked
         /\ delivered' = delivered /\ Discovery' = Discovery
         /\ pin' => pin]_vars

\* An initialisation request that waits for its answer has its timer armed, or
\* a callback on the way that will find the deadline passed: no order of
\* answers accepted by the worker and callbacks waiting for the lock leaves a
\* request that nobody would repeat.
InitialisationTimed ==
    Run /\ Initialising(TrackpadInit) =>
        timer.armed \/ (timer.callback /\ TrackpadInit.overdue)

\* What the device has to say is read.
Drained == Run /\ Asserted ~> ~Run \/ ~Asserted

\* The initialisation of the trackpad ends, ready or offline, whatever is
\* lost or late.
TrackpadInitEnds ==
    Run /\ Discovery = Ready ~> ~Run \/ TrackpadInit.phase \in {"READY", "OFFLINE"}
=============================================================================
