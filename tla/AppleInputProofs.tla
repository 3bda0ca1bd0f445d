-------------------------- MODULE AppleInputProofs --------------------------
(***************************************************************************)
(* Proofs about AppleInput, for any bounds: the level is never left        *)
(* masked, a stopped transport is inert, a request that waits for its      *)
(* answer has its timer, and the reports Windows gets are whole and in the *)
(* device's order.                                                         *)
(*                                                                         *)
(* The inductive invariant IInv joins the types (Words and Flags) with who *)
(* may unmask the pin (Masking), who holds TransportLock and how far a     *)
(* stop has got (Locking), the order of the report packets on the wire     *)
(* against the last one delivered (WireOrder), and the message being       *)
(* joined (Begun).                                                         *)
(*                                                                         *)
(* The first part proves what the operators of the protocol do; the second *)
(* has one lemma per action, with one step per part of IInv.               *)
(***************************************************************************)
EXTENDS AppleInput, TLAPS

Reports  == {"key", "touch"}
Requests == {"answer", "DIMENSIONS", "MULTITOUCH"}
Asking   == [kind : Requests, to : Nat, id : Nat]
Packet   == [kind : Reports \cup Requests \cup {"boot"}, to : Nat, id : Nat,
             part : Nat, total : Nat]

\* The types, split by prover: the part without Boolean variables ...
Words ==
    /\ wire \in Seq(Packet) /\ sent \in Nat
    /\ asked \subseteq Asking
    /\ isr \in {"idle", "checked"}
    /\ pc \in {"idle", "lock", "transfer", "sample", "asserted", "clear"}
    /\ lock \in {"free", "worker", "start"}
    /\ stage \in {"stopped", "starting", "started", "stopping", "timer_stopped", "quiet"}
    /\ Discovery \in Nat
    /\ delivered \in Seq(Nat) /\ delivered # <<>>

QueueState == [pending : BOOLEAN, worker_active : BOOLEAN]
InitState == [phase : {"IDLE", "DIMENSIONS", "MULTITOUCH", "READY", "OFFLINE"},
              id : Nat, retries : Nat, overdue : BOOLEAN]
Message   == [active : BOOLEAN, kind : Reports \cup Requests \cup {"boot", "none"},
              parts : Seq(Packet), total : Nat]

\* ... and the part with them.
Flags ==
    /\ pin \in BOOLEAN /\ work \in BOOLEAN
    /\ Stopping \in BOOLEAN /\ HardwareStarted \in BOOLEAN
    /\ queue \in QueueState
    /\ TrackpadInit \in InitState
    /\ Reassembler \in Message

\* Who will unmask the pin.  While the transport runs the pin is masked
\* exactly while a work item is queued or its worker is at work, and never
\* both; a queued item finds its queue entry pending, so it will not return at
\* once.  An interrupt routine past its first checks has the pin still
\* enabled: that is why it never meets a queued item.
Masking ==
    /\ isr = "checked" => pin
    /\ Run => /\ pin <=> ~work /\ pc = "idle"
              /\ ~(work /\ pc # "idle")
              /\ pc = "idle" => ~queue.worker_active
              /\ work => queue.pending

\* TransportLock is the worker's while it reads, and the start's while it
\* starts; a stop that has passed its last wait leaves no worker reading.
Locking ==
    /\ lock = "worker" <=> pc \in {"transfer", "sample", "asserted", "clear"}
    /\ lock = "start" <=> stage = "starting"
    /\ Run => stage \in {"starting", "started"}
    /\ stage = "stopped" => isr = "idle" /\ ~work /\ pc = "idle"
    /\ stage \in {"quiet", "stopped"} => pc # "transfer"

Report(p) == p.kind \in Reports
\* In the wire's order a report is of a later number, or a later part of the
\* same one.
Later(p, q) == \/ p.id < q.id
               \/ p.id = q.id /\ p.part < q.part /\ p.total = q.total

\* The report packets the device has ready are numbered above the last report
\* delivered, and in order.
WireOrder ==
    /\ \A i \in DOMAIN wire : Report(wire[i]) =>
          /\ delivered[1] < wire[i].id /\ wire[i].id <= sent
          /\ wire[i].part <= wire[i].total
    /\ \A i, j \in DOMAIN wire : i < j /\ Report(wire[i]) /\ Report(wire[j]) =>
          Later(wire[i], wire[j])
    /\ delivered[1] <= sent

\* A message being joined has a first part, which gave it its kind.
Begun ==
    /\ Reassembler.active => /\ Len(Reassembler.parts) >= 1
                             /\ Reassembler.parts[1].kind = Reassembler.kind

\* A stopped transport has no device published and nothing to initialise.
Quieted ==
    stage \in {"quiet", "stopped"} =>
        /\ KeyboardVhfState = "Absent" /\ TrackpadVhfState = "Absent"
        /\ TrackpadInit.phase = "IDLE"

\* The inductive invariant.
IInv == Words /\ Flags /\ Masking /\ Locking /\ WireOrder /\ Begun /\ Quieted

-----------------------------------------------------------------------------
\* Updating a field of the trackpad's initialisation leaves the others alone.
LEMMA SetInit ==
    ASSUME NEW i \in InitState
    PROVE  /\ NoInit \in InitState
           /\ NoInit.phase = "IDLE" /\ NoInit.id = 0 /\ NoInit.retries = 0
           /\ \A ph \in {"IDLE", "DIMENSIONS", "MULTITOUCH", "READY", "OFFLINE"} :
                LET e == [NoInit EXCEPT !.phase = ph]
                IN  e \in InitState /\ e.phase = ph /\ e.id = 0 /\ e.retries = 0
           /\ \A b \in BOOLEAN :
                LET e == [i EXCEPT !.overdue = b]
                IN  e \in InitState /\ e.phase = i.phase /\ e.id = i.id
<1>1. NoInit \in InitState
  BY Zenon DEF NoInit, InitState
<1>2. ASSUME NEW ph \in {"IDLE", "DIMENSIONS", "MULTITOUCH", "READY", "OFFLINE"}
      PROVE  [NoInit EXCEPT !.phase = ph] \in InitState
  BY Zenon, <1>1 DEF InitState
<1>3. ASSUME NEW b \in BOOLEAN
      PROVE  [i EXCEPT !.overdue = b] \in InitState
  BY Zenon DEF InitState
<1> QED
  BY <1>1, <1>2, <1>3 DEF NoInit, InitState

\* ai_trackpad_init_poll keeps the phase whenever it asks again.
LEMMA Poll ==
    ASSUME NEW i \in InitState, Waiting(i)
    PROVE  LET e == ai_trackpad_init_poll(i)
           IN  /\ e \in InitState
               /\ e.phase \in {i.phase, "OFFLINE"}
               /\ e.retries > i.retries => e.phase = i.phase
<1>1. CASE i.retries >= RetryLimit
  <2>1. ai_trackpad_init_poll(i) = [NoInit EXCEPT !.phase = "OFFLINE"]
    BY <1>1 DEF ai_trackpad_init_poll
  <2>2. i.retries \in Nat
    BY DEF InitState
  <2> QED
    BY <2>1, <2>2, SetInit
<1>2. CASE ~(i.retries >= RetryLimit)
  <2> DEFINE e == [i EXCEPT !.retries = @ + 1, !.id = @ + 1, !.overdue = FALSE]
  <2>1. i.retries + 1 \in Nat /\ i.id + 1 \in Nat
    BY DEF InitState
  <2>2. e \in InitState
    BY Zenon, <2>1 DEF InitState
  <2>3. e.phase = i.phase
    BY DEF InitState
  <2>4. ai_trackpad_init_poll(i) = e
    BY Zenon, <1>2 DEF ai_trackpad_init_poll
  <2> HIDE DEF e
  <2> QED
    BY <2>2, <2>3, <2>4
<1> QED
  BY <1>1, <1>2

\* ai_reassembler_push: a message that is complete ends with the packet just
\* read, and that packet is its last part.
LEMMA Push ==
    ASSUME NEW m \in Message, NEW p \in Packet,
           m.active => Len(m.parts) >= 1 /\ m.parts[1].kind = m.kind
    PROVE  LET r == ai_reassembler_push(m, p)
           IN  /\ r \in Message
               /\ r.active => Len(r.parts) >= 1 /\ r.parts[1].kind = r.kind
               /\ r # NoMessage /\ ~r.active =>
                    /\ Len(r.parts) >= 1 /\ r.parts[1].kind = p.kind
                    /\ r.parts[Len(r.parts)] = p /\ p.part >= p.total
<1> DEFINE r == ai_reassembler_push(m, p)
<1>0. /\ p.kind \in Reports \cup Requests \cup {"boot"}
      /\ p.part \in Nat /\ p.total \in Nat /\ m.parts \in Seq(Packet)
  BY DEF Packet, Message
<1>1. CASE p.part = 1
  <2>1. r = [active |-> p.total > 1, kind |-> p.kind, parts |-> <<p>>, total |-> p.total]
    BY <1>1 DEF ai_reassembler_push
  <2>2. (p.total > 1) \in BOOLEAN /\ <<p>> \in Seq(Packet)
    BY <1>0
  <2>3. r \in Message
    <3>1. p.kind \in Reports \cup Requests \cup {"boot", "none"}
      BY <1>0
    <3> HIDE DEF r
    <3> QED
      BY Zenon, <1>0, <2>1, <2>2, <3>1 DEF Message
  <2>4. r.parts = <<p>> /\ r.kind = p.kind /\ (r.active <=> p.total > 1)
    <3> HIDE DEF r
    <3> QED
      BY <2>1
  <2> HIDE DEF r
  <2> QED
    BY <1>0, <1>1, <2>3, <2>4 DEF r
<1>2. CASE p.part # 1 /\ Continues(m, p)
  <2>1. r = [m EXCEPT !.active = p.part < p.total, !.parts = Append(@, p)]
    BY <1>2 DEF ai_reassembler_push
  <2>2. (p.part < p.total) \in BOOLEAN /\ Append(m.parts, p) \in Seq(Packet)
    BY <1>0
  <2>3. r \in Message
    BY Zenon, <2>1, <2>2 DEF Message
  <2>4. /\ r.parts = Append(m.parts, p) /\ r.kind = m.kind
        /\ r.active <=> p.part < p.total
    BY <2>1 DEF Message
  <2>5. /\ Len(r.parts) = Len(m.parts) + 1 /\ r.parts[Len(r.parts)] = p
        /\ Len(m.parts) >= 1 => r.parts[1] = m.parts[1]
    BY <1>0, <2>4
  <2>6. m.kind = p.kind /\ m.active
    BY <1>2 DEF Continues
  <2> HIDE DEF r
  <2> QED
    BY <1>0, <2>3, <2>4, <2>5, <2>6 DEF r
<1>3. CASE p.part # 1 /\ ~Continues(m, p)
  <2>1. r = NoMessage
    BY <1>3 DEF ai_reassembler_push
  <2>2. NoMessage \in Message
    <3>1. <<>> \in Seq(Packet)
      OBVIOUS
    <3> QED
      BY Zenon, <3>1 DEF NoMessage, Message
  <2>3. ~NoMessage.active
    BY DEF NoMessage
  <2> HIDE DEF r
  <2> QED
    BY <2>1, <2>2, <2>3 DEF r
<1> QED
  BY <1>1, <1>2, <1>3

\* An empty reassembler holds no message.
LEMMA NoMessageIs == NoMessage \in Message /\ ~NoMessage.active
<1>1. <<>> \in Seq(Packet)
  OBVIOUS
<1>2. NoMessage \in Message
  BY Zenon, <1>1 DEF NoMessage, Message
<1> QED
  BY <1>2 DEF NoMessage

\* The numbers of a packet are numbers.
LEMMA PacketFields ==
    ASSUME NEW p \in Packet
    PROVE  p.id \in Nat /\ p.part \in Nat /\ p.total \in Nat /\ p.to \in Nat
  BY DEF Packet

\* What the types say of the wire, element by element.
LEMMA WireFacts ==
    ASSUME Words
    PROVE  /\ wire \in Seq(Packet) /\ Len(wire) \in Nat /\ DOMAIN wire = 1 .. Len(wire)
           /\ \A n \in 1 .. Len(wire) :
                 /\ wire[n] \in Packet
                 /\ wire[n].id \in Nat /\ wire[n].part \in Nat /\ wire[n].total \in Nat
           /\ delivered[1] \in Nat /\ sent \in Nat
<1>1. wire \in Seq(Packet) /\ sent \in Nat
  BY DEF Words
<1>2. \A n \in 1 .. Len(wire) : wire[n] \in Packet
  BY <1>1
<1>3. delivered \in Seq(Nat) /\ delivered # <<>>
  BY DEF Words
<1> QED
  BY <1>1, <1>2, <1>3, PacketFields

\* Packets of a report newer than all before it, or of no report, go to the
\* end of the wire in order.
LEMMA TransmitOrder ==
    ASSUME Words, WireOrder, sent' \in Nat, sent <= sent', delivered' = delivered,
           NEW kind \in Reports \cup Requests \cup {"boot"}, NEW to \in Nat, NEW id \in Nat,
           kind \in Reports => sent < id /\ id <= sent',
           Transmit(kind, to, id)
    PROVE  wire' \in Seq(Packet) /\ WireOrder'
<1>9. PICK ps : ps = Packets(kind, to, id)
  OBVIOUS
<1>0. /\ wire \in Seq(Packet) /\ Len(wire) \in Nat /\ DOMAIN wire = 1 .. Len(wire)
      /\ delivered[1] \in Nat /\ sent \in Nat
      /\ \A n \in 1 .. Len(wire) : /\ wire[n].id \in Nat /\ wire[n].part \in Nat
                                   /\ wire[n].total \in Nat
  BY WireFacts
<1>1. /\ ps \in Seq(Packet)
      /\ \A n \in DOMAIN ps : /\ ps[n].kind = kind /\ ps[n].id = id
                              /\ ps[n].part = n /\ ps[n].total = Len(ps)
  <2>1. Parts(kind, to) \in {1, 2}
    BY DEF Parts
  <2>2. \A n \in 1 .. Parts(kind, to) :
          [kind |-> kind, to |-> to, id |-> id, part |-> n,
           total |-> Parts(kind, to)] \in Packet
    BY <2>1 DEF Packet
  <2>3. ps \in Seq(Packet) /\ Len(ps) = Parts(kind, to)
    BY <1>9, <2>1, <2>2 DEF Packets
  <2> QED
    BY <1>9, <2>1, <2>3 DEF Packets
<1>2. wire' = wire \o ps
  BY <1>9 DEF Transmit
<1>3. /\ wire' \in Seq(Packet) /\ Len(wire') = Len(wire) + Len(ps)
      /\ \A n \in 1 .. Len(wire') :
            wire'[n] = IF n <= Len(wire) THEN wire[n] ELSE ps[n - Len(wire)]
  BY <1>0, <1>1, <1>2
<1>4. \A n \in 1 .. Len(wire') : n > Len(wire) =>
        /\ wire'[n].kind = kind /\ wire'[n].id = id
        /\ wire'[n].part = n - Len(wire) /\ wire'[n].total = Len(ps)
        /\ n - Len(wire) <= Len(ps)
  <2>1. SUFFICES ASSUME NEW n \in 1 .. Len(wire'), n > Len(wire)
                 PROVE  /\ wire'[n] = ps[n - Len(wire)]
                        /\ n - Len(wire) \in DOMAIN ps /\ n - Len(wire) <= Len(ps)
    BY <1>1
  <2> QED
    BY <1>0, <1>1, <1>3, <2>1
<1>6. ASSUME NEW i \in 1 .. Len(wire'), Report(wire'[i])
      PROVE  /\ delivered[1] < wire'[i].id /\ wire'[i].id <= sent'
             /\ wire'[i].part <= wire'[i].total
  <2>1. CASE i <= Len(wire)
    BY <1>0, <1>3, <1>6, <2>1 DEF WireOrder
  <2>2. CASE i > Len(wire)
    BY <1>0, <1>1, <1>4, <1>6, <2>2 DEF WireOrder, Report
  <2> QED
    BY <1>0, <1>3, <2>1, <2>2
<1>7. ASSUME NEW i \in 1 .. Len(wire'), NEW j \in 1 .. Len(wire'), i < j,
             Report(wire'[i]), Report(wire'[j])
      PROVE  Later(wire'[i], wire'[j])
  <2>1. CASE j <= Len(wire)
    <3>1. i \in DOMAIN wire /\ j \in DOMAIN wire /\ wire'[i] = wire[i] /\ wire'[j] = wire[j]
      BY <1>0, <1>3, <1>7, <2>1
    <3> QED
      BY <1>7, <3>1 DEF WireOrder
  <2>2. CASE i <= Len(wire) /\ j > Len(wire)
    <3>1. wire'[i].id <= sent /\ wire'[i].id \in Nat
      BY <1>0, <1>3, <1>7, <2>2 DEF WireOrder
    <3>2. sent < wire'[j].id
      BY <1>4, <1>7, <2>2 DEF Report
    <3> QED
      BY <1>0, <3>1, <3>2, <1>4, <2>2 DEF Later
  <2>3. CASE i > Len(wire)
    BY <1>0, <1>3, <1>4, <1>7, <2>3 DEF Later
  <2> QED
    BY <1>0, <1>3, <1>7, <2>1, <2>2, <2>3
<1>8. delivered'[1] <= sent'
  BY <1>0 DEF WireOrder
<1> QED
  BY <1>3, <1>6, <1>7, <1>8 DEF WireOrder

\* Reading the oldest packet keeps the wire in order, also when its report,
\* complete with that packet, is the one now delivered.
LEMMA TailOrder ==
    ASSUME Words, WireOrder, wire # <<>>, wire' = Tail(wire), sent' = sent,
           \/ delivered'[1] = delivered[1]
           \/ /\ Report(Head(wire)) /\ Head(wire).part >= Head(wire).total
              /\ delivered'[1] = Head(wire).id
    PROVE  wire' \in Seq(Packet) /\ WireOrder'
<1>0. /\ wire \in Seq(Packet) /\ Len(wire) \in Nat /\ DOMAIN wire = 1 .. Len(wire)
      /\ delivered[1] \in Nat /\ sent \in Nat
      /\ \A n \in 1 .. Len(wire) : /\ wire[n].id \in Nat /\ wire[n].part \in Nat
                                   /\ wire[n].total \in Nat
  BY WireFacts
<1>1. /\ wire' \in Seq(Packet) /\ Len(wire) >= 1 /\ Len(wire') = Len(wire) - 1
      /\ Head(wire) = wire[1]
      /\ \A n \in 1 .. Len(wire') : wire'[n] = wire[n + 1] /\ n + 1 \in 1 .. Len(wire)
  BY <1>0
<1>3. ASSUME NEW i \in 1 .. Len(wire'), NEW j \in 1 .. Len(wire'), i < j,
             Report(wire'[i]), Report(wire'[j])
      PROVE  Later(wire'[i], wire'[j])
  <2>1. i + 1 \in 1 .. Len(wire) /\ j + 1 \in 1 .. Len(wire) /\ i + 1 < j + 1
    BY <1>1, <1>3
  <2> QED
    BY <1>0, <1>1, <1>3, <2>1 DEF WireOrder
<1>4. ASSUME NEW i \in 1 .. Len(wire'), Report(wire'[i])
      PROVE  /\ delivered'[1] < wire'[i].id /\ wire'[i].id <= sent'
             /\ wire'[i].part <= wire'[i].total
  <2>1. i + 1 \in 1 .. Len(wire) /\ wire'[i] = wire[i + 1]
    BY <1>1
  <2>2. /\ delivered[1] < wire[i + 1].id /\ wire[i + 1].id <= sent
        /\ wire[i + 1].part <= wire[i + 1].total
    BY <1>0, <1>4, <2>1 DEF WireOrder
  <2>3. CASE delivered'[1] = delivered[1]
    BY <2>1, <2>2, <2>3
  <2>4. CASE /\ Report(wire[1]) /\ wire[1].part >= wire[1].total
             /\ delivered'[1] = wire[1].id
    <3>1. Later(wire[1], wire[i + 1])
      <4>1. 1 \in DOMAIN wire /\ i + 1 \in DOMAIN wire /\ 1 < i + 1
        BY <1>0, <1>1, <2>1
      <4> QED
        BY <1>4, <2>1, <2>4, <4>1 DEF WireOrder
    <3>2. wire[1].id < wire[i + 1].id
      BY <1>0, <1>1, <2>1, <2>2, <2>4, <3>1 DEF Later
    <3> QED
      BY <2>1, <2>2, <2>4, <3>2
  <2> QED
    BY <1>1, <2>3, <2>4
<1>5. delivered'[1] <= sent'
  BY <1>0, <1>1 DEF WireOrder
<1> QED
  BY <1>1, <1>3, <1>4, <1>5 DEF WireOrder

-----------------------------------------------------------------------------
\* What the handling of any packet leaves behind.
Stepped ==
    /\ asked' \subseteq Asking /\ Discovery' \in Nat /\ TrackpadInit' \in InitState
    /\ pc' \in {"transfer", "sample"}

\* AiTransportSendCurrentRequest and AiTransportSendTrackpadInitRequest keep
\* the requests well formed, whether the write reports a failure or not.
LEMMA Asks ==
    ASSUME asked \subseteq Asking, NEW failed
    PROVE  /\ \A ph \in Nat : Request(DiscoveryRequest(ph), failed) => asked' \subseteq Asking
           /\ \A i \in InitState : /\ i.phase \in {"DIMENSIONS", "MULTITOUCH"}
                                   /\ Request(InitRequest(i), failed)
                                   => asked' \subseteq Asking
<1>1. ASSUME NEW r \in Asking, Request(r, failed) PROVE asked' \subseteq Asking
  BY <1>1 DEF Request
<1>2. \A ph \in Nat : DiscoveryRequest(ph) \in Asking
  BY DEF DiscoveryRequest, Asking, Requests
<1>3. ASSUME NEW i \in InitState, i.phase \in {"DIMENSIONS", "MULTITOUCH"}
      PROVE  InitRequest(i) \in Asking
  <2>1. i.id \in Nat
    BY DEF InitState
  <2> QED
    BY <1>3, <2>1 DEF InitRequest, Asking, Requests
<1> QED
  BY <1>1, <1>2, <1>3

\* After a packet the worker reads on or samples the line.
LEMMA Continues_pc ==
    ASSUME NEW ok, Continue(ok)
    PROVE  pc' \in {"transfer", "sample"}
  BY DEF Continue, Drain

\* A packet handled before the device has booted delivers nothing
\* (AiTransportProcessPacket).
LEMMA BootStep ==
    ASSUME Words, Flags, NEW p, NEW failed, AcceptBoot(p, failed)
    PROVE  Stepped /\ delivered' = delivered /\ Reassembler' = Reassembler
<1>0. asked \subseteq Asking /\ Discovery \in Nat /\ TrackpadInit \in InitState
  BY DEF Words, Flags
<1>1. TrackpadInit' = TrackpadInit /\ delivered' = delivered /\ Reassembler' = Reassembler
  BY DEF AcceptBoot
<1>2. pc' \in {"transfer", "sample"}
  BY Continues_pc DEF AcceptBoot
<1>3. asked' \subseteq Asking
  BY <1>0, Asks DEF AcceptBoot, Identity
<1>4. Discovery' \in Nat
  <2>1. Discovery' = Identity \/ Discovery' = Discovery
    BY Zenon DEF AcceptBoot
  <2> QED
    BY <1>0, <2>1 DEF Identity
<1> QED
  BY <1>0, <1>1, <1>2, <1>3, <1>4 DEF Stepped

\* An answer to a discovery request delivers nothing, whatever fails while it
\* is handled.
LEMMA AnswerStep ==
    ASSUME Words, Flags, NEW m, NEW failed, AcceptAnswer(m, failed)
    PROVE  Stepped /\ delivered' = delivered
<1>0. asked \subseteq Asking /\ Discovery \in Nat /\ TrackpadInit \in InitState
  BY DEF Words, Flags
<1>1. CASE ~(m.kind = "answer" /\ m.to = Discovery) \/ failed = {"content"}
  BY <1>0, <1>1, Continues_pc DEF AcceptAnswer, Stepped
<1>2. CASE ~(~(m.kind = "answer" /\ m.to = Discovery) \/ failed = {"content"})
  <2>1. Discovery' = Discovery + 1 /\ delivered' = delivered
    BY <1>2 DEF AcceptAnswer
  <2>2. CASE Discovery' < Ready
    BY <1>0, <1>2, <2>1, <2>2, Asks, Continues_pc DEF AcceptAnswer, Stepped
  <2>3. CASE ~(Discovery' < Ready)
    <3>1. /\ TrackpadInit' = [NoInit EXCEPT !.phase = "DIMENSIONS"]
          /\ Request(InitRequest(TrackpadInit'), failed)
          /\ Continue(TRUE)
      BY <1>2, <2>3 DEF AcceptAnswer
    <3>2. TrackpadInit' \in InitState /\ TrackpadInit'.phase = "DIMENSIONS"
      BY <1>0, <3>1, SetInit
    <3>3. asked' \subseteq Asking
      BY <1>0, <3>1, <3>2, Asks
    <3>4. pc' \in {"transfer", "sample"}
      BY <3>1, Continues_pc
    <3> QED
      BY <1>0, <2>1, <3>2, <3>3, <3>4 DEF Stepped
  <2> QED
    BY <2>1, <2>2, <2>3
<1> QED
  BY <1>1, <1>2

\* An answer to an initialisation request delivers nothing, whatever fails
\* while it is handled.
LEMMA InitStep ==
    ASSUME Words, Flags, NEW failed, AcceptInit(failed)
    PROVE  Stepped /\ delivered' = delivered
<1>0. asked \subseteq Asking /\ Discovery \in Nat /\ TrackpadInit \in InitState
  BY DEF Words, Flags
<1>1. Discovery' = Discovery /\ delivered' = delivered
  BY DEF AcceptInit
<1>2. CASE TrackpadInit.phase = "MULTITOUCH"
  <2>1. /\ TrackpadInit' = [NoInit EXCEPT !.phase = "READY"]
        /\ Continue(TRUE) /\ asked' = asked
    BY <1>2 DEF AcceptInit
  <2> QED
    BY <1>0, <1>1, <2>1, SetInit, Continues_pc DEF Stepped
<1>3. CASE TrackpadInit.phase # "MULTITOUCH" /\ "content" \in failed
  <2>1. /\ TrackpadInit' = [NoInit EXCEPT !.phase = "OFFLINE"]
        /\ \E ok \in BOOLEAN : Continue(ok)
        /\ asked' = asked
    BY <1>3 DEF AcceptInit
  <2> QED
    BY <1>0, <1>1, <2>1, SetInit, Continues_pc DEF Stepped
<1>4. CASE TrackpadInit.phase # "MULTITOUCH" /\ "content" \notin failed
  <2>1. /\ TrackpadInit' = [phase |-> "MULTITOUCH", id |-> TrackpadInit.id + 1,
                            retries |-> 0, overdue |-> FALSE]
        /\ Request(InitRequest(TrackpadInit'), failed) /\ Continue(TRUE)
    BY <1>4 DEF AcceptInit
  <2>2. TrackpadInit.id + 1 \in Nat
    BY <1>0 DEF InitState
  <2>3. TrackpadInit' \in InitState
    BY Zenon, <2>1, <2>2 DEF InitState
  <2>4. TrackpadInit'.phase = "MULTITOUCH"
    BY <2>1
  <2> QED
    BY <1>0, <1>1, <2>1, <2>3, <2>4, Asks, Continues_pc DEF Stepped
<1> QED
  BY <1>2, <1>3, <1>4

\* What is delivered, if anything: one report, whole, and the one whose last
\* packet was just read.
Deliver(p) ==
    \/ delivered' = delivered
    \/ /\ delivered' \in Seq(Nat) /\ delivered' # <<>>
       /\ \A n \in DOMAIN delivered' : delivered'[n] = delivered'[1]
       /\ Report(p) /\ p.part >= p.total /\ delivered'[1] = p.id

\* A complete message whose check sum fits is delivered whole or not at all.
LEMMA MessageStep ==
    ASSUME Words, Flags, NEW p \in Packet, NEW failed,
           NEW parts \in Seq(Packet), Len(parts) >= 1, parts[1].kind = p.kind,
           parts[Len(parts)] = p, p.part >= p.total, MessageCrcOk(parts),
           AcceptMessage(parts[1], parts, failed)
    PROVE  Stepped /\ Deliver(p)
<1>0. asked \subseteq Asking /\ Discovery \in Nat /\ TrackpadInit \in InitState
  BY DEF Words, Flags
<1> DEFINE m == parts[1]
<1>1. CASE m.kind = TrackpadInit.phase /\ m.id = TrackpadInit.id
  BY <1>1, InitStep DEF AcceptMessage, Deliver
<1>2. CASE ~(m.kind = TrackpadInit.phase /\ m.id = TrackpadInit.id)
  <2>1. Stepped
    BY <1>0, <1>2, Continues_pc DEF AcceptMessage, Stepped
  <2>2. \/ delivered' = delivered
        \/ m.kind \in Reports /\ delivered' = [n \in DOMAIN parts |-> parts[n].id]
    BY <1>2 DEF AcceptMessage, Reports
  <2>3. ASSUME m.kind \in Reports, delivered' = [n \in DOMAIN parts |-> parts[n].id]
        PROVE  Deliver(p)
    <3>1. DOMAIN parts = 1 .. Len(parts) /\ Len(parts) \in Nat
      OBVIOUS
    <3>2. \A n \in 1 .. Len(parts) : parts[n].id \in Nat /\ parts[n].id = p.id
      <4>1. \A n \in 1 .. Len(parts) : parts[n].id = parts[1].id
        BY <3>1 DEF MessageCrcOk
      <4>2. parts[1].id = p.id
        BY <3>1, <4>1
      <4> QED
        BY <4>1, <4>2, PacketFields
    <3>3. delivered' = [n \in 1 .. Len(parts) |-> parts[n].id]
      BY <2>3, <3>1
    <3>4. delivered' \in Seq(Nat) /\ Len(delivered') = Len(parts)
      BY <3>1, <3>2, <3>3
    <3>5. /\ DOMAIN delivered' = 1 .. Len(parts) /\ 1 \in 1 .. Len(parts)
          /\ \A n \in 1 .. Len(parts) : delivered'[n] = p.id
      BY <3>1, <3>2, <3>3
    <3>6. delivered' # <<>>
      BY <3>4, <3>1
    <3> QED
      BY <2>3, <3>4, <3>5, <3>6 DEF Deliver, Report
  <2> QED
    BY <2>1, <2>2, <2>3 DEF Deliver
<1> QED
  BY <1>1, <1>2

\* AiTransportProcessPacket, on each of its paths.
LEMMA ProcessStep ==
    ASSUME Words, Flags, Begun, NEW p \in Packet, NEW failed, ProcessPacket(p, failed)
    PROVE  Stepped /\ Deliver(p) /\ Reassembler' \in Message /\ Begun'
<1>0. asked \subseteq Asking /\ Discovery \in Nat /\ TrackpadInit \in InitState
      /\ Reassembler \in Message
  BY DEF Words, Flags
<1>1. CASE Discovery = WaitBoot
  <2>1. AcceptBoot(p, failed)
    BY <1>1 DEF ProcessPacket
  <2>2. Stepped /\ delivered' = delivered /\ Reassembler' = Reassembler
    BY <2>1, BootStep
  <2> QED
    BY <1>0, <2>2 DEF Deliver, Begun
<1>2. CASE Discovery # WaitBoot
  <2>1. PICK r : r = ai_reassembler_push(Reassembler, p)
    OBVIOUS
  <2>2. /\ r \in Message
        /\ r.active => Len(r.parts) >= 1 /\ r.parts[1].kind = r.kind
        /\ r # NoMessage /\ ~r.active =>
             /\ Len(r.parts) >= 1 /\ r.parts[1].kind = p.kind
             /\ r.parts[Len(r.parts)] = p /\ p.part >= p.total
    BY <1>0, <2>1, Push DEF Begun
  <2>3. /\ Reassembler' = IF r.active THEN r ELSE NoMessage
        /\ IF ~(r # NoMessage /\ ~r.active) \/ ~MessageCrcOk(r.parts)
           THEN /\ failed = {} /\ Continue(r.active)
                /\ UNCHANGED <<asked, Discovery, TrackpadInit, timer,
                               KeyboardVhfState, TrackpadVhfState, delivered>>
           ELSE IF Discovery = Ready THEN AcceptMessage(r.parts[1], r.parts, failed)
           ELSE AcceptAnswer(r.parts[1], failed)
    BY <1>2, <2>1 DEF ProcessPacket
  <2>4. Reassembler' \in Message /\ Begun'
    BY <2>2, <2>3, NoMessageIs DEF Begun
  <2>5. r.parts \in Seq(Packet)
    BY <2>2 DEF Message
  <2>6. CASE ~(r # NoMessage /\ ~r.active) \/ ~MessageCrcOk(r.parts)
    <3>1. Continue(r.active) /\ UNCHANGED <<asked, Discovery, TrackpadInit, delivered>>
      BY <2>3, <2>6
    <3> QED
      BY <1>0, <2>4, <3>1, Continues_pc DEF Stepped, Deliver
  <2>7. CASE r # NoMessage /\ ~r.active /\ MessageCrcOk(r.parts) /\ Discovery = Ready
    <3>1. AcceptMessage(r.parts[1], r.parts, failed)
      BY <2>3, <2>7
    <3> QED
      BY <2>2, <2>4, <2>5, <2>7, <3>1, MessageStep
  <2>8. CASE r # NoMessage /\ ~r.active /\ MessageCrcOk(r.parts) /\ Discovery # Ready
    <3>1. AcceptAnswer(r.parts[1], failed)
      BY <2>3, <2>8
    <3> QED
      BY <2>4, <3>1, AnswerStep DEF Deliver
  <2> QED
    BY <2>6, <2>7, <2>8
<1> QED
  BY <1>1, <1>2

-----------------------------------------------------------------------------
\* The operations of the transport queue: an interrupt leaves it pending, a
\* completed worker leaves it inactive.
LEMMA QueueOps ==
    ASSUME NEW q \in QueueState, NEW b \in BOOLEAN
    PROVE  /\ EmptyQueue \in QueueState
           /\ EmptyQueue.pending = FALSE /\ EmptyQueue.worker_active = FALSE
           /\ ai_transport_irq(q) \in QueueState
           /\ ai_transport_irq(q).pending = TRUE
           /\ ai_transport_irq(q).worker_active = q.worker_active
           /\ ai_transport_worker_begin(q) \in QueueState
           /\ ai_transport_worker_complete(q, b) \in QueueState
           /\ ~ai_transport_worker_complete(q, b).worker_active
           /\ AtLimit(q) \in QueueState
<1>1. /\ EmptyQueue \in QueueState
      /\ EmptyQueue.pending = FALSE /\ EmptyQueue.worker_active = FALSE
  <2>1. EmptyQueue \in QueueState
    BY Zenon DEF EmptyQueue, QueueState
  <2> QED
    BY <2>1 DEF EmptyQueue
<1>2. /\ ai_transport_irq(q) \in QueueState
      /\ ai_transport_irq(q).pending = TRUE
      /\ ai_transport_irq(q).worker_active = q.worker_active
  <2>1. ai_transport_irq(q) \in QueueState
    BY Zenon DEF ai_transport_irq, QueueState
  <2> QED
    BY <2>1 DEF ai_transport_irq, QueueState
<1>3. ai_transport_worker_begin(q) \in QueueState
  <2>1. [pending |-> FALSE, worker_active |-> TRUE] \in QueueState
    BY Zenon DEF QueueState
  <2> QED
    BY <2>1 DEF ai_transport_worker_begin
<1>4. /\ ai_transport_worker_complete(q, b) \in QueueState
      /\ ~ai_transport_worker_complete(q, b).worker_active
  <2>1. CASE q.worker_active
    <3> DEFINE e == [pending |-> q.pending \/ b, worker_active |-> FALSE]
    <3>1. ai_transport_worker_complete(q, b) = e
      BY Zenon, <2>1 DEF ai_transport_worker_complete
    <3>2. (q.pending \/ b) \in BOOLEAN
      OBVIOUS
    <3>3. e \in QueueState
      BY Zenon, <3>2 DEF QueueState
    <3>4. e.worker_active = FALSE
      OBVIOUS
    <3> HIDE DEF e
    <3> QED
      BY <3>1, <3>3, <3>4
  <2>2. CASE ~q.worker_active
    <3>1. ai_transport_worker_complete(q, b) = q
      BY Zenon, <2>2 DEF ai_transport_worker_complete
    <3> QED
      BY <2>2, <3>1
  <2> QED
    BY <2>1, <2>2
<1>5. AtLimit(q) \in QueueState
  BY Zenon DEF AtLimit, QueueState
<1> QED
  BY <1>1, <1>2, <1>3, <1>4, <1>5

\* The driver starts in the invariant.
LEMMA InitInv == Init => IInv
<1> SUFFICES ASSUME Init PROVE IInv
  OBVIOUS
<1>1. Words
  BY DEF Init, Words
<1>2. Flags
  <2>1. <<>> \in Seq(Packet) /\ 0 \in Nat
    OBVIOUS
  <2> QED
    BY Zenon, <2>1 DEF Init, Flags, QueueState, EmptyQueue, InitState, NoInit,
                       Message, NoMessage
<1>3. Masking /\ Locking
  BY DEF Init, Masking, Locking, Run
<1>4. WireOrder
  BY DEF Init, WireOrder
<1>5. Begun /\ Quieted
  BY DEF Init, Begun, NoMessage, Quieted, NoInit
<1> QED
  BY <1>1, <1>2, <1>3, <1>4, <1>5 DEF IInv

\* AiInputInterruptIsr takes the level only while the pin is enabled.
LEMMA IsrChecksStep == IInv /\ IsrChecks => IInv'
<1> SUFFICES ASSUME IInv, IsrChecks PROVE IInv'
  OBVIOUS
<1>0. Words /\ Flags /\ Masking /\ Locking /\ WireOrder /\ Begun /\ Quieted
  BY DEF IInv
<1>1. Words'
  BY <1>0 DEF Words, IsrChecks, device, power, protocol
<1>2. Flags'
  BY Zenon, <1>0 DEF Flags, IsrChecks, power, protocol
<1>3. Masking'
  BY <1>0 DEF Masking, Run, IsrChecks, power
<1>4. Locking'
  BY <1>0 DEF Locking, Run, IsrChecks, power
<1>5. WireOrder'
  BY <1>0 DEF WireOrder, IsrChecks, device, protocol
<1>6. Begun' /\ Quieted'
  BY <1>0 DEF Begun, Quieted, IsrChecks, power, protocol
<1> QED
  BY <1>1, <1>2, <1>3, <1>4, <1>5, <1>6 DEF IInv

\* The pin is masked only together with a work item that will find the queue
\* pending; the path that takes both back is not reached while the transport
\* runs.
LEMMA IsrQueuesStep == IInv /\ IsrQueues => IInv'
<1> SUFFICES ASSUME IInv, IsrQueues PROVE IInv'
  OBVIOUS
<1>0. Words /\ Flags /\ Masking /\ Locking /\ WireOrder /\ Begun /\ Quieted
  BY DEF IInv
<1>1. Words'
  BY <1>0 DEF Words, IsrQueues, device, power, protocol
<1>2. Flags'
  <2>1. queue \in QueueState /\ pin \in BOOLEAN /\ work \in BOOLEAN
    BY <1>0 DEF Flags
  <2>2. PICK q : q = ai_transport_irq(queue)
    OBVIOUS
  <2>3. q \in QueueState
    BY <2>1, <2>2, QueueOps
  <2>4. PICK b : b = ai_transport_worker_begin(q)
    OBVIOUS
  <2>5. b \in QueueState
    BY <2>3, <2>4, QueueOps
  <2>6. ai_transport_worker_complete(b, FALSE) \in QueueState
    BY <2>5, QueueOps
  <2>7. queue' \in {q, ai_transport_worker_complete(b, FALSE)}
    BY <2>2, <2>4 DEF IsrQueues
  <2>8. queue' \in QueueState
    BY <2>3, <2>6, <2>7
  <2>9. pin' \in BOOLEAN /\ work' \in BOOLEAN
    BY <2>1 DEF IsrQueues
  <2> QED
    BY Zenon, <1>0, <2>8, <2>9 DEF Flags, IsrQueues, power, protocol
<1>3. Masking'
  <2>1. queue \in QueueState /\ pin /\ isr' = "idle" /\ (Run' <=> Run) /\ pc' = pc
    BY <1>0 DEF Flags, Masking, IsrQueues, Run, power
  <2>2. CASE ~QueuesWorker(queue)
    <3>1. queue' = ai_transport_irq(queue) /\ pin' = pin /\ work' = work
      BY <2>2 DEF IsrQueues
    <3>2. queue'.pending /\ queue'.worker_active = queue.worker_active
      BY <2>1, <3>1, QueueOps
    <3> QED
      BY <1>0, <2>1, <3>1, <3>2 DEF Masking
  <2>3. CASE QueuesWorker(queue) /\ ~work
    <3>1. queue' = ai_transport_irq(queue) /\ work' /\ ~pin'
      BY <2>3 DEF IsrQueues
    <3>2. queue'.pending /\ queue'.worker_active = queue.worker_active
      BY <2>1, <3>1, QueueOps
    <3> QED
      BY <1>0, <2>1, <2>3, <3>1, <3>2 DEF Masking
  <2>4. CASE QueuesWorker(queue) /\ work
    BY <1>0, <2>1, <2>4 DEF Masking, QueuesWorker
  <2> QED
    BY <2>2, <2>3, <2>4
<1>4. Locking'
  BY <1>0 DEF Locking, Run, IsrQueues, power
<1>5. WireOrder'
  BY <1>0 DEF WireOrder, IsrQueues, device, protocol
<1>6. Begun' /\ Quieted'
  BY <1>0 DEF Begun, Quieted, IsrQueues, power, protocol
<1> QED
  BY <1>1, <1>2, <1>3, <1>4, <1>5, <1>6 DEF IInv

\* While the transport runs a queued item always finds its work pending and
\* begins.
LEMMA WorkerBeginsStep == IInv /\ WorkerBegins => IInv'
<1> SUFFICES ASSUME IInv, WorkerBegins PROVE IInv'
  OBVIOUS
<1>0. Words /\ Flags /\ Masking /\ Locking /\ WireOrder /\ Begun /\ Quieted
  BY DEF IInv
<1>1. Words'
  BY <1>0 DEF Words, WorkerBegins, device, power, protocol
<1>2. Flags'
  <2>1. queue' \in QueueState
    BY <1>0, QueueOps DEF Flags, WorkerBegins
  <2>2. work' \in BOOLEAN
    BY DEF WorkerBegins
  <2> QED
    BY Zenon, <1>0, <2>1, <2>2 DEF Flags, WorkerBegins, power, protocol
<1>3. Masking'
  <2>1. /\ (Run' <=> Run) /\ ~work' /\ pin' = pin /\ isr' = isr
        /\ pc' = IF CanBegin(queue) THEN "lock" ELSE "idle"
    BY DEF WorkerBegins, Run, power
  <2>2. Run => CanBegin(queue) /\ ~pin
    BY <1>0 DEF Masking, WorkerBegins, CanBegin
  <2> QED
    BY <1>0, <2>1, <2>2 DEF Masking
<1>4. Locking'
  BY <1>0 DEF Locking, Run, WorkerBegins, power
<1>5. WireOrder'
  BY <1>0 DEF WireOrder, WorkerBegins, device, protocol
<1>6. Begun' /\ Quieted'
  BY <1>0 DEF Begun, Quieted, WorkerBegins, power, protocol
<1> QED
  BY <1>1, <1>2, <1>3, <1>4, <1>5, <1>6 DEF IInv

\* The worker takes TransportLock, which a start in progress would hold.
LEMMA WorkerLocksStep == IInv /\ WorkerLocks => IInv'
<1> SUFFICES ASSUME IInv, WorkerLocks PROVE IInv'
  OBVIOUS
<1>0. Words /\ Flags /\ Masking /\ Locking /\ WireOrder /\ Begun /\ Quieted
  BY DEF IInv
<1>1. Words'
  BY <1>0 DEF Words, WorkerLocks, device, interrupt, power, protocol, Drain
<1>2. Flags'
  BY Zenon, <1>0 DEF Flags, WorkerLocks, interrupt, power, protocol
<1>3. Masking'
  BY <1>0 DEF Masking, Run, WorkerLocks, interrupt, power, Drain
<1>4. Locking'
  BY <1>0 DEF Locking, Run, WorkerLocks, interrupt, power, Drain
<1>5. WireOrder'
  BY <1>0 DEF WireOrder, WorkerLocks, device, protocol
<1>6. Begun' /\ Quieted'
  BY <1>0 DEF Begun, Quieted, WorkerLocks, power, protocol
<1> QED
  BY <1>1, <1>2, <1>3, <1>4, <1>5, <1>6 DEF IInv

\* Sampling the line changes nothing but the worker's place.
LEMMA WorkerSamplesStep == IInv /\ WorkerSamples => IInv'
<1> SUFFICES ASSUME IInv, WorkerSamples PROVE IInv'
  OBVIOUS
<1>0. Words /\ Flags /\ Masking /\ Locking /\ WireOrder /\ Begun /\ Quieted
  BY DEF IInv
<1>1. Words'
  BY <1>0 DEF Words, WorkerSamples, device, interrupt, power, protocol
<1>2. Flags'
  BY Zenon, <1>0 DEF Flags, WorkerSamples, interrupt, power, protocol
<1>3. Masking'
  BY <1>0 DEF Masking, Run, WorkerSamples, interrupt, power
<1>4. Locking'
  BY <1>0 DEF Locking, Run, WorkerSamples, interrupt, power
<1>5. WireOrder'
  BY <1>0 DEF WireOrder, WorkerSamples, device, protocol
<1>6. Begun' /\ Quieted'
  BY <1>0 DEF Begun, Quieted, WorkerSamples, power, protocol
<1> QED
  BY <1>1, <1>2, <1>3, <1>4, <1>5, <1>6 DEF IInv

\* Reading from a device with nothing to say can only drop a message that was
\* begun.
LEMMA WorkerReadsNothingStep == IInv /\ WorkerReadsNothing => IInv'
<1> SUFFICES ASSUME IInv, WorkerReadsNothing PROVE IInv'
  OBVIOUS
<1>0. Words /\ Flags /\ Masking /\ Locking /\ WireOrder /\ Begun /\ Quieted
  BY DEF IInv
<1>1. Words'
  BY <1>0 DEF Words, WorkerReadsNothing, device, interrupt, power
<1>2. Flags'
  <2>1. Reassembler' \in Message
    BY <1>0, NoMessageIs DEF Flags, WorkerReadsNothing
  <2> QED
    BY Zenon, <1>0, <2>1 DEF Flags, WorkerReadsNothing, interrupt, power
<1>3. Masking'
  BY <1>0 DEF Masking, Run, WorkerReadsNothing, interrupt, power
<1>4. Locking'
  BY <1>0 DEF Locking, Run, WorkerReadsNothing, interrupt, power
<1>5. WireOrder'
  BY <1>0 DEF WireOrder, WorkerReadsNothing, device
<1>6. Begun' /\ Quieted'
  <2>1. Begun'
    BY <1>0, NoMessageIs DEF Begun, WorkerReadsNothing
  <2>2. Quieted'
    BY <1>0 DEF Quieted, WorkerReadsNothing, power
  <2> QED
    BY <2>1, <2>2
<1> QED
  BY <1>1, <1>2, <1>3, <1>4, <1>5, <1>6 DEF IInv

\* A failed transfer may lose the oldest packet, and delivers nothing.
LEMMA WorkerReadFailsStep == IInv /\ WorkerReadFails => IInv'
<1> SUFFICES ASSUME IInv, WorkerReadFails PROVE IInv'
  OBVIOUS
<1>0. Words /\ Flags /\ Masking /\ Locking /\ WireOrder /\ Begun /\ Quieted
  BY DEF IInv
<1>7. wire' \in Seq(Packet) /\ WireOrder'
  <2>1. sent' = sent /\ delivered' = delivered /\ wire # <<>>
    BY DEF WorkerReadFails, Asserted, protocol
  <2>2. CASE wire' = wire
    <3>1. wire \in Seq(Packet)
      BY <1>0, WireFacts
    <3> QED
      BY <1>0, <2>1, <2>2, <3>1 DEF WireOrder
  <2>3. CASE wire' = Tail(wire)
    BY <1>0, <2>1, <2>3, TailOrder
  <2> QED
    BY <2>2, <2>3 DEF WorkerReadFails
<1>1. Words'
  BY <1>0, <1>7 DEF Words, WorkerReadFails, interrupt, power, protocol
<1>2. Flags'
  BY Zenon, <1>0 DEF Flags, WorkerReadFails, interrupt, power, protocol
<1>3. Masking'
  BY <1>0 DEF Masking, Run, WorkerReadFails, interrupt, power
<1>4. Locking'
  BY <1>0 DEF Locking, Run, WorkerReadFails, interrupt, power
<1>5. WireOrder'
  BY <1>7
<1>6. Begun' /\ Quieted'
  BY <1>0 DEF Begun, Quieted, WorkerReadFails, power, protocol
<1> QED
  BY <1>1, <1>2, <1>3, <1>4, <1>5, <1>6 DEF IInv

\* AiTransportWorker leaves with the pin enabled, or goes round again with it
\* masked; if the transport was stopped meanwhile nothing is asked of the pin.
LEMMA WorkerCompletesStep == IInv /\ WorkerCompletes => IInv'
<1> SUFFICES ASSUME IInv, WorkerCompletes PROVE IInv'
  OBVIOUS
<1>0. Words /\ Flags /\ Masking /\ Locking /\ WireOrder /\ Begun /\ Quieted
  BY DEF IInv
<1>1. Words'
  BY <1>0 DEF Words, WorkerCompletes, device, power, protocol, Drain
<1>2. Flags'
  <2>0. queue \in QueueState /\ pin \in BOOLEAN
    BY <1>0 DEF Flags
  <2>1. PICK q : q = ai_transport_worker_complete(queue, pc = "asserted")
    OBVIOUS
  <2>2. q \in QueueState
    <3>1. (pc = "asserted") \in BOOLEAN
      OBVIOUS
    <3> QED
      BY <2>0, <2>1, <3>1, QueueOps
  <2>3. ai_transport_worker_begin(q) \in QueueState /\ AtLimit(q) \in QueueState
    BY <2>2, QueueOps
  <2>4. queue' \in {q, ai_transport_worker_begin(q), AtLimit(q)}
    BY <2>1 DEF WorkerCompletes
  <2>5. queue' \in QueueState
    BY <2>2, <2>3, <2>4
  <2>6. pin' \in BOOLEAN
    BY <2>0 DEF WorkerCompletes
  <2> QED
    BY Zenon, <1>0, <2>5, <2>6 DEF Flags, WorkerCompletes, power, protocol
<1>3. Masking'
  <2>0. queue \in QueueState /\ pin \in BOOLEAN
    BY <1>0 DEF Flags
  <2>1. PICK q : q = ai_transport_worker_complete(queue, pc = "asserted")
    OBVIOUS
  <2>2. ~q.worker_active
    <3>1. (pc = "asserted") \in BOOLEAN
      OBVIOUS
    <3> QED
      BY <2>0, <2>1, <3>1, QueueOps
  <2>3. /\ (Run' <=> Run) /\ work' = work /\ isr' = isr /\ pc # "idle"
        /\ Run => ~pin /\ ~work
    BY <1>0 DEF Masking, WorkerCompletes, Run, power
  <2>4. CASE (queue.worker_active /\ q.pending) /\ Run
    <3>1. pc' \in {"transfer", "sample"} /\ pin' = pin
      BY <2>1, <2>4 DEF WorkerCompletes, Drain
    <3> QED
      BY <1>0, <2>3, <3>1 DEF Masking
  <2>5. CASE ~((queue.worker_active /\ q.pending) /\ Run)
    <3>1. pc' = "idle" /\ pin' = (pin \/ Run)
      BY <2>1, <2>5 DEF WorkerCompletes
    <3>2. Run => queue' = q
      BY <2>1, <2>5 DEF WorkerCompletes
    <3> QED
      BY <1>0, <2>2, <2>3, <3>1, <3>2 DEF Masking
  <2> QED
    BY <2>4, <2>5
<1>4. Locking'
  BY <1>0 DEF Locking, Run, WorkerCompletes, power, Drain
<1>5. WireOrder'
  BY <1>0 DEF WireOrder, WorkerCompletes, device, protocol
<1>6. Begun' /\ Quieted'
  BY <1>0 DEF Begun, Quieted, WorkerCompletes, power, protocol
<1> QED
  BY <1>1, <1>2, <1>3, <1>4, <1>5, <1>6 DEF IInv

\* The timer marks the deadline as passed.
LEMMA TimerFiresStep == IInv /\ TimerFires => IInv'
<1> SUFFICES ASSUME IInv, TimerFires PROVE IInv'
  OBVIOUS
<1>0. Words /\ Flags /\ Masking /\ Locking /\ WireOrder /\ Begun /\ Quieted
  BY DEF IInv
<1>1. Words'
  BY <1>0 DEF Words, TimerFires, device, interrupt, power
<1>2. Flags'
  <2>1. TrackpadInit \in InitState
    BY <1>0 DEF Flags
  <2>2. (TrackpadInit.overdue \/ Initialising(TrackpadInit)) \in BOOLEAN
    OBVIOUS
  <2>3. TrackpadInit' \in InitState
    BY <2>1, <2>2, SetInit DEF TimerFires
  <2> QED
    BY Zenon, <1>0, <2>3 DEF Flags, TimerFires, interrupt, power
<1>3. Masking'
  BY <1>0 DEF Masking, Run, TimerFires, interrupt, power
<1>4. Locking'
  BY <1>0 DEF Locking, Run, TimerFires, interrupt, power
<1>5. WireOrder'
  BY <1>0 DEF WireOrder, TimerFires, device
<1>6. Begun' /\ Quieted'
  BY <1>0 DEF Begun, Quieted, TimerFires, power
<1> QED
  BY <1>1, <1>2, <1>3, <1>4, <1>5, <1>6 DEF IInv

\* The callback asks again for what the initialisation waits for, or gives up;
\* it leaves an idle initialisation alone, so it cannot wake a stopped
\* transport.
LEMMA TimerCallbackStep == IInv /\ TimerCallback => IInv'
<1> SUFFICES ASSUME IInv, TimerCallback PROVE IInv'
  OBVIOUS
<1>0. Words /\ Flags /\ Masking /\ Locking /\ WireOrder /\ Begun /\ Quieted
  BY DEF IInv
<1>7. /\ TrackpadInit \in InitState /\ TrackpadInit' \in InitState
      /\ TrackpadInit'.phase \in {TrackpadInit.phase, "OFFLINE"}
      /\ TrackpadInit'.retries > TrackpadInit.retries =>
           TrackpadInit'.phase \in {"DIMENSIONS", "MULTITOUCH"}
      /\ TrackpadInit.phase = "IDLE" => TrackpadInit' = TrackpadInit
  <2>1. TrackpadInit \in InitState
    BY <1>0 DEF Flags
  <2>2. CASE Run /\ Waiting(TrackpadInit)
    <3>1. TrackpadInit' = ai_trackpad_init_poll(TrackpadInit)
      BY <2>2 DEF TimerCallback
    <3>2. TrackpadInit.phase \in {"DIMENSIONS", "MULTITOUCH"}
      BY <2>2 DEF Waiting, Initialising
    <3> QED
      BY <2>1, <2>2, <3>1, <3>2, Poll
  <2>3. CASE ~(Run /\ Waiting(TrackpadInit))
    <3>1. TrackpadInit' = TrackpadInit
      BY <2>3 DEF TimerCallback
    <3>2. TrackpadInit.retries \in Nat
      BY <2>1 DEF InitState
    <3> QED
      BY <2>1, <3>1, <3>2
  <2> QED
    BY <2>2, <2>3
<1>1. Words'
  <2>0. asked \subseteq Asking
    BY <1>0 DEF Words
  <2>1. CASE TrackpadInit'.retries > TrackpadInit.retries
    <3>1. PICK failed : Request(InitRequest(TrackpadInit'), failed)
      BY <2>1 DEF TimerCallback
    <3> QED
      BY <1>0, <1>7, <2>0, <2>1, <3>1, Asks
         DEF Words, TimerCallback, interrupt, power
  <2>2. CASE ~(TrackpadInit'.retries > TrackpadInit.retries)
    BY <1>0, <2>2 DEF Words, TimerCallback, interrupt, power
  <2> QED
    BY <2>1, <2>2
<1>2. Flags'
  BY Zenon, <1>0, <1>7 DEF Flags, TimerCallback, interrupt, power
<1>3. Masking'
  BY <1>0 DEF Masking, Run, TimerCallback, interrupt, power
<1>4. Locking'
  BY <1>0 DEF Locking, Run, TimerCallback, interrupt, power
<1>5. WireOrder'
  BY <1>0 DEF WireOrder, TimerCallback
<1>6. Begun' /\ Quieted'
  BY <1>0, <1>7 DEF Begun, Quieted, TimerCallback, power
<1> QED
  BY <1>1, <1>2, <1>3, <1>4, <1>5, <1>6 DEF IInv

\* AiTransportStart begins where the framework has seen the interrupt routine,
\* the work item and the worker out, so enabling the pin is all that Masking
\* asks for.
LEMMA AiTransportStartStep == IInv /\ AiTransportStart => IInv'
<1> SUFFICES ASSUME IInv, AiTransportStart PROVE IInv'
  OBVIOUS
<1>0. Words /\ Flags /\ Masking /\ Locking /\ WireOrder /\ Begun /\ Quieted
  BY DEF IInv
<1>7. /\ queue' = EmptyQueue /\ Reassembler' = NoMessage /\ TrackpadInit' = NoInit
      /\ Discovery' = WaitBoot /\ pin' = TRUE
      /\ Stopping' = FALSE /\ HardwareStarted' = TRUE
      /\ stage = "stopped" /\ stage' = "starting" /\ lock = "free" /\ lock' = "start"
      /\ UNCHANGED <<device, isr, work, pc, delivered>>
  BY DEF AiTransportStart, Begin
<1>8. /\ queue' \in QueueState /\ ~queue'.worker_active
      /\ TrackpadInit' \in InitState
      /\ Reassembler' \in Message /\ ~Reassembler'.active
  BY <1>0, <1>7, QueueOps, SetInit, NoMessageIs DEF Flags
<1>1. Words'
  BY <1>0, <1>7 DEF Words, WaitBoot, device
<1>2. Flags'
  BY Zenon, <1>0, <1>7, <1>8 DEF Flags
<1>3. Masking'
  BY <1>0, <1>7, <1>8 DEF Masking, Locking
<1>4. Locking'
  BY <1>0, <1>7 DEF Locking
<1>5. WireOrder'
  BY <1>0, <1>7 DEF WireOrder, device
<1>6. Begun' /\ Quieted'
  BY <1>7, <1>8 DEF Begun, Quieted
<1> QED
  BY <1>1, <1>2, <1>3, <1>4, <1>5, <1>6 DEF IInv

\* The reset empties the wire.
LEMMA StartResetsStep == IInv /\ StartResets => IInv'
<1> SUFFICES ASSUME IInv, StartResets PROVE IInv'
  OBVIOUS
<1>0. Words /\ Flags /\ Masking /\ Locking /\ WireOrder /\ Begun /\ Quieted
  BY DEF IInv
<1>1. Words'
  BY <1>0 DEF Words, StartResets, interrupt, protocol
<1>2. Flags'
  BY Zenon, <1>0 DEF Flags, StartResets, interrupt, protocol
<1>3. Masking'
  BY <1>0 DEF Masking, Run, StartResets, interrupt
<1>4. Locking'
  BY <1>0 DEF Locking, Run, StartResets, interrupt
<1>5. WireOrder'
  BY <1>0 DEF WireOrder, StartResets, protocol
<1>6. Begun' /\ Quieted'
  BY <1>0 DEF Begun, Quieted, StartResets, protocol
<1> QED
  BY <1>1, <1>2, <1>3, <1>4, <1>5, <1>6 DEF IInv

\* A failed reset leaves the transport stopped.
LEMMA StartFailsStep == IInv /\ StartFails => IInv'
<1> SUFFICES ASSUME IInv, StartFails PROVE IInv'
  OBVIOUS
<1>0. Words /\ Flags /\ Masking /\ Locking /\ WireOrder /\ Begun /\ Quieted
  BY DEF IInv
<1>1. Words'
  BY <1>0 DEF Words, StartFails, device, interrupt, protocol
<1>2. Flags'
  BY Zenon, <1>0 DEF Flags, StartFails, interrupt, protocol
<1>3. Masking'
  BY <1>0 DEF Masking, Run, StartFails, interrupt
<1>4. Locking'
  BY <1>0 DEF Locking, Run, StartFails, interrupt
<1>5. WireOrder'
  BY <1>0 DEF WireOrder, StartFails, device, protocol
<1>6. Begun' /\ Quieted'
  BY <1>0 DEF Begun, Quieted, StartFails, protocol
<1> QED
  BY <1>1, <1>2, <1>3, <1>4, <1>5, <1>6 DEF IInv

\* AiTransportStop sets its flags first: the transport no longer runs, so
\* nothing is asked of the pin.
LEMMA StopFlagsStep == IInv /\ StopFlags => IInv'
<1> SUFFICES ASSUME IInv, StopFlags PROVE IInv'
  OBVIOUS
<1>0. Words /\ Flags /\ Masking /\ Locking /\ WireOrder /\ Begun /\ Quieted
  BY DEF IInv
<1>1. Words'
  BY <1>0 DEF Words, StopFlags, device, interrupt, protocol
<1>2. Flags'
  BY Zenon, <1>0 DEF Flags, StopFlags, interrupt, protocol
<1>3. Masking'
  BY <1>0 DEF Masking, Run, StopFlags, interrupt
<1>4. Locking'
  BY <1>0 DEF Locking, Run, StopFlags, interrupt
<1>5. WireOrder'
  BY <1>0 DEF WireOrder, StopFlags, device, protocol
<1>6. Begun' /\ Quieted'
  BY <1>0 DEF Begun, Quieted, StopFlags, protocol
<1> QED
  BY <1>1, <1>2, <1>3, <1>4, <1>5, <1>6 DEF IInv

\* The timer is stopped once its callback is over.
LEMMA StopTimerStep == IInv /\ StopTimer => IInv'
<1> SUFFICES ASSUME IInv, StopTimer PROVE IInv'
  OBVIOUS
<1>0. Words /\ Flags /\ Masking /\ Locking /\ WireOrder /\ Begun /\ Quieted
  BY DEF IInv
<1>1. Words'
  BY <1>0 DEF Words, StopTimer, device, interrupt
<1>2. Flags'
  BY Zenon, <1>0 DEF Flags, StopTimer, interrupt
<1>3. Masking'
  BY <1>0 DEF Masking, Run, StopTimer, interrupt
<1>4. Locking'
  BY <1>0 DEF Locking, Run, StopTimer, interrupt
<1>5. WireOrder'
  BY <1>0 DEF WireOrder, StopTimer, device
<1>6. Begun' /\ Quieted'
  BY <1>0 DEF Begun, Quieted, StopTimer
<1> QED
  BY <1>1, <1>2, <1>3, <1>4, <1>5, <1>6 DEF IInv

\* Under TransportLock, so with no worker reading, everything is cleared.
LEMMA AiTransportStopStep == IInv /\ AiTransportStop => IInv'
<1> SUFFICES ASSUME IInv, AiTransportStop PROVE IInv'
  OBVIOUS
<1>0. Words /\ Flags /\ Masking /\ Locking /\ WireOrder /\ Begun /\ Quieted
  BY DEF IInv
<1>1. Words'
  BY <1>0 DEF Words, AiTransportStop, device
<1>7. /\ queue' \in QueueState /\ ~queue'.worker_active /\ ~queue'.pending
      /\ TrackpadInit' \in InitState /\ TrackpadInit'.phase = "IDLE"
      /\ Reassembler' \in Message /\ ~Reassembler'.active
  BY <1>0, QueueOps, SetInit, NoMessageIs DEF Flags, AiTransportStop
<1>2. Flags'
  BY Zenon, <1>0, <1>7 DEF Flags, AiTransportStop
<1>3. Masking'
  BY <1>0, <1>7 DEF Masking, Locking, Run, AiTransportStop
<1>4. Locking'
  BY <1>0 DEF Locking, Run, AiTransportStop
<1>5. WireOrder'
  BY <1>0 DEF WireOrder, AiTransportStop, device
<1>6. Begun' /\ Quieted'
  BY <1>7 DEF Begun, Quieted, AiTransportStop
<1> QED
  BY <1>1, <1>2, <1>3, <1>4, <1>5, <1>6 DEF IInv

\* The framework has waited for what was queued.
LEMMA InterruptDisabledStep == IInv /\ InterruptDisabled => IInv'
<1> SUFFICES ASSUME IInv, InterruptDisabled PROVE IInv'
  OBVIOUS
<1>0. Words /\ Flags /\ Masking /\ Locking /\ WireOrder /\ Begun /\ Quieted
  BY DEF IInv
<1>1. Words'
  BY <1>0 DEF Words, InterruptDisabled, device, interrupt, protocol
<1>2. Flags'
  BY Zenon, <1>0 DEF Flags, InterruptDisabled, interrupt, protocol
<1>3. Masking'
  BY <1>0 DEF Masking, Run, InterruptDisabled, interrupt
<1>4. Locking'
  BY <1>0 DEF Locking, Run, InterruptDisabled, interrupt
<1>5. WireOrder'
  BY <1>0 DEF WireOrder, InterruptDisabled, device, protocol
<1>6. Begun' /\ Quieted'
  BY <1>0 DEF Begun, Quieted, InterruptDisabled, protocol
<1> QED
  BY <1>1, <1>2, <1>3, <1>4, <1>5, <1>6 DEF IInv

\* The boot marker is no report, so it may go anywhere in the order.
LEMMA DeviceBootsStep == IInv /\ DeviceBoots => IInv'
<1> SUFFICES ASSUME IInv, DeviceBoots PROVE IInv'
  OBVIOUS
<1>0. Words /\ Flags /\ Masking /\ Locking /\ WireOrder /\ Begun /\ Quieted
  BY DEF IInv
<1>7. wire' \in Seq(Packet) /\ WireOrder' /\ sent' \in Nat /\ asked' \subseteq Asking
  <2>0. sent \in Nat /\ asked \subseteq Asking /\ delivered' = delivered
    BY <1>0 DEF Words, DeviceBoots, protocol
  <2>1. Transmit("boot", 0, 0) /\ sent' = sent /\ asked' = asked
    BY DEF DeviceBoots
  <2>2. "boot" \notin Reports
    BY DEF Reports
  <2> QED
    BY <1>0, <2>0, <2>1, <2>2, TransmitOrder
<1>1. Words'
  BY <1>0, <1>7 DEF Words, DeviceBoots, interrupt, power, protocol
<1>2. Flags'
  BY Zenon, <1>0 DEF Flags, DeviceBoots, interrupt, power, protocol
<1>3. Masking'
  BY <1>0 DEF Masking, Run, DeviceBoots, interrupt, power
<1>4. Locking'
  BY <1>0 DEF Locking, Run, DeviceBoots, interrupt, power
<1>6. Begun' /\ Quieted'
  BY <1>0 DEF Begun, Quieted, DeviceBoots, power, protocol
<1> QED
  BY <1>1, <1>2, <1>3, <1>4, <1>6, <1>7 DEF IInv

\* Nor is an answer.
LEMMA DeviceAnswersStep == IInv /\ DeviceAnswers => IInv'
<1> SUFFICES ASSUME IInv, DeviceAnswers PROVE IInv'
  OBVIOUS
<1>0. Words /\ Flags /\ Masking /\ Locking /\ WireOrder /\ Begun /\ Quieted
  BY DEF IInv
<1>7. wire' \in Seq(Packet) /\ WireOrder' /\ sent' \in Nat /\ asked' \subseteq Asking
  <2>0. sent \in Nat /\ asked \subseteq Asking /\ delivered' = delivered
    BY <1>0 DEF Words, DeviceAnswers, protocol
  <2>1. PICK r \in asked : asked' = asked \ {r} /\ Transmit(r.kind, r.to, r.id)
    BY DEF DeviceAnswers
  <2>2. r.kind \in Requests /\ r.kind \notin Reports /\ r.to \in Nat /\ r.id \in Nat
    BY <2>0 DEF Asking, Requests, Reports
  <2>3. sent' = sent
    BY DEF DeviceAnswers
  <2> QED
    BY <1>0, <2>0, <2>1, <2>2, <2>3, TransmitOrder
<1>1. Words'
  BY <1>0, <1>7 DEF Words, DeviceAnswers, interrupt, power, protocol
<1>2. Flags'
  BY Zenon, <1>0 DEF Flags, DeviceAnswers, interrupt, power, protocol
<1>3. Masking'
  BY <1>0 DEF Masking, Run, DeviceAnswers, interrupt, power
<1>4. Locking'
  BY <1>0 DEF Locking, Run, DeviceAnswers, interrupt, power
<1>6. Begun' /\ Quieted'
  BY <1>0 DEF Begun, Quieted, DeviceAnswers, power, protocol
<1> QED
  BY <1>1, <1>2, <1>3, <1>4, <1>6, <1>7 DEF IInv

\* A report is numbered above all that were sent before it.
LEMMA DeviceReportsStep == IInv /\ DeviceReports => IInv'
<1> SUFFICES ASSUME IInv, DeviceReports PROVE IInv'
  OBVIOUS
<1>0. Words /\ Flags /\ Masking /\ Locking /\ WireOrder /\ Begun /\ Quieted
  BY DEF IInv
<1>7. wire' \in Seq(Packet) /\ WireOrder' /\ sent' \in Nat /\ asked' \subseteq Asking
  <2>0. sent \in Nat /\ asked \subseteq Asking /\ delivered' = delivered
    BY <1>0 DEF Words, DeviceReports, protocol
  <2>1. PICK kind \in Reports : Transmit(kind, 0, sent + 1)
    BY DEF DeviceReports, Reports
  <2>2. sent' = sent + 1 /\ asked' = asked
    BY DEF DeviceReports
  <2> QED
    BY <1>0, <2>0, <2>1, <2>2, TransmitOrder
<1>1. Words'
  BY <1>0, <1>7 DEF Words, DeviceReports, interrupt, power, protocol
<1>2. Flags'
  BY Zenon, <1>0 DEF Flags, DeviceReports, interrupt, power, protocol
<1>3. Masking'
  BY <1>0 DEF Masking, Run, DeviceReports, interrupt, power
<1>4. Locking'
  BY <1>0 DEF Locking, Run, DeviceReports, interrupt, power
<1>6. Begun' /\ Quieted'
  BY <1>0 DEF Begun, Quieted, DeviceReports, power, protocol
<1> QED
  BY <1>1, <1>2, <1>3, <1>4, <1>6, <1>7 DEF IInv

\* Reading a packet keeps the invariant, and delivers at most the report this
\* packet completes.  The transport cannot be quiet while a worker reads.
LEMMA WorkerReadsStep ==
    ASSUME IInv, WorkerReads
    PROVE  IInv' /\ Deliver(Head(wire)) /\ Head(wire) \in Packet /\ wire # <<>>
<1>0. Words /\ Flags /\ Masking /\ Locking /\ WireOrder /\ Begun /\ Quieted
  BY DEF IInv
<1>1. PICK failed : ProcessPacket(Head(wire), failed)
  BY DEF WorkerReads
<1>2. wire # <<>> /\ wire \in Seq(Packet) /\ Head(wire) \in Packet
  <2>1. wire # <<>> /\ wire \in Seq(Packet)
    BY <1>0, WireFacts DEF WorkerReads, Asserted
  <2> QED
    BY <2>1
<1>3. Stepped /\ Deliver(Head(wire)) /\ Reassembler' \in Message /\ Begun'
  BY <1>0, <1>1, <1>2, ProcessStep
<1>4. delivered' \in Seq(Nat) /\ delivered' # <<>>
  BY <1>0, <1>3 DEF Deliver, Words
<1>5. wire' \in Seq(Packet) /\ WireOrder'
  <2>1. wire' = Tail(wire) /\ sent' = sent
    BY DEF WorkerReads
  <2>2. \/ delivered'[1] = delivered[1]
        \/ /\ Report(Head(wire)) /\ Head(wire).part >= Head(wire).total
           /\ delivered'[1] = Head(wire).id
    BY <1>3 DEF Deliver
  <2> QED
    BY <1>0, <1>2, <2>1, <2>2, TailOrder
<1>6. Words'
  BY <1>0, <1>3, <1>4, <1>5 DEF Words, Stepped, WorkerReads, interrupt, power
<1>7. Flags'
  BY Zenon, <1>0, <1>3 DEF Flags, Stepped, WorkerReads, interrupt, power
<1>8. Masking'
  BY <1>0, <1>3 DEF Masking, Run, Stepped, WorkerReads, interrupt, power
<1>9. Locking'
  <2>1. stage \notin {"quiet", "stopped"}
    BY <1>0 DEF Locking, WorkerReads
  <2> QED
    BY <1>0, <1>3, <2>1
       DEF Locking, Run, Stepped, WorkerReads, interrupt, power
<1>10. Quieted'
  BY <1>0 DEF Quieted, Locking, WorkerReads, power
<1> QED
  BY <1>2, <1>3, <1>5, <1>6, <1>7, <1>8, <1>9, <1>10 DEF IInv

\* Nothing changes, and the invariant stays.
LEMMA StutterStep == IInv /\ UNCHANGED vars => IInv'
<1> SUFFICES ASSUME IInv, UNCHANGED vars PROVE IInv'
  OBVIOUS
<1>0. Words /\ Flags /\ Masking /\ Locking /\ WireOrder /\ Begun /\ Quieted
  BY DEF IInv
<1>1. Words'
  BY <1>0 DEF Words, vars, device, interrupt, power, protocol
<1>2. Flags'
  BY Zenon, <1>0 DEF Flags, vars, interrupt, power, protocol
<1>3. Masking' /\ Locking'
  BY <1>0 DEF Masking, Locking, Run, vars, interrupt, power
<1>4. WireOrder'
  BY <1>0 DEF WireOrder, vars, device, protocol
<1>5. Begun' /\ Quieted'
  BY <1>0 DEF Begun, Quieted, vars, power, protocol
<1> QED
  BY <1>1, <1>2, <1>3, <1>4, <1>5 DEF IInv

\* Every action keeps the invariant.
LEMMA NextStep == IInv /\ [Next]_vars => IInv'
  BY DeviceBootsStep, DeviceAnswersStep, DeviceReportsStep, IsrChecksStep, IsrQueuesStep,
     WorkerBeginsStep, WorkerLocksStep, WorkerReadsStep, WorkerReadFailsStep,
     WorkerReadsNothingStep, WorkerSamplesStep, WorkerCompletesStep, TimerFiresStep,
     TimerCallbackStep, AiTransportStartStep, StartResetsStep, StartFailsStep,
     StopFlagsStep, StopTimerStep, AiTransportStopStep, InterruptDisabledStep,
     StutterStep
  DEF Next

\* The inductive invariant holds in every state that any order of interrupts,
\* reads, faults, timeouts, stops and starts reaches.
THEOREM Inductive == Spec => []IInv
  BY InitInv, NextStep, PTL DEF Spec

\* While the transport runs, a masked pin has a work item queued or a worker
\* at work, which will unmask it (transport.c, AiInputInterruptIsr and
\* AiTransportWorker).
THEOREM MaskedPinHasWorker == Spec => []NotLeftMasked
<1>1. IInv => NotLeftMasked
  BY DEF IInv, Masking, NotLeftMasked
<1> QED
  BY <1>1, Inductive, PTL

\* From the end of AiTransportStop to the next start nothing is transferred,
\* requested, delivered, published or unmasked, though an interrupt routine, a
\* worker and the timer's callback may still run (transport.c,
\* AiTransportStop, AiTransportWorker and AiTrackpadInitTimer).
THEOREM StoppedStaysQuiet == Spec => StoppedQuiet
<1> DEFINE Inert == stage' \in {"quiet", "stopped"} =>
                      /\ KeyboardVhfState' = "Absent" /\ TrackpadVhfState' = "Absent"
                      /\ TrackpadInit'.phase = "IDLE"
                      /\ pc' # "transfer" /\ asked' \subseteq asked
                      /\ delivered' = delivered /\ Discovery' = Discovery
                      /\ pin' => pin
<1>1. IInv /\ [Next]_vars => [Inert]_vars
  <2> SUFFICES ASSUME IInv, Next, stage' \in {"quiet", "stopped"} PROVE Inert
    OBVIOUS
  <2>1. IInv'
    BY NextStep
  <2>2. /\ KeyboardVhfState' = "Absent" /\ TrackpadVhfState' = "Absent"
        /\ TrackpadInit'.phase = "IDLE" /\ pc' # "transfer"
    BY <2>1 DEF IInv, Quieted, Locking
  <2>3. CASE stage \in {"quiet", "stopped"}
    <3>1. /\ ~Run /\ pc # "transfer" /\ Initialising(TrackpadInit) = FALSE
          /\ isr = "checked" => pin
      BY <2>3 DEF IInv, Quieted, Locking, Masking, Initialising
    <3>2. CASE TimerCallback
      <4>1. TrackpadInit' = TrackpadInit
        BY <3>1, <3>2 DEF TimerCallback
      <4>2. TrackpadInit.retries \in Nat
        BY DEF IInv, Flags, InitState
      <4>3. asked' = asked /\ pin' = pin /\ delivered' = delivered /\ Discovery' = Discovery
        BY <3>2, <4>1, <4>2 DEF TimerCallback, interrupt
      <4> QED
        BY <2>2, <4>3
    <3>3. CASE ~TimerCallback
      <4>1. CASE IsrChecks \/ IsrQueues
        BY <2>2, <3>1, <4>1 DEF IsrChecks, IsrQueues, device, protocol
      <4>2. CASE WorkerBegins \/ WorkerLocks \/ WorkerSamples
        BY <2>2, <4>2 DEF WorkerBegins, WorkerLocks, WorkerSamples, device, interrupt, protocol
      <4>3. CASE WorkerCompletes
        BY <2>2, <3>1, <4>3 DEF WorkerCompletes, device, protocol
      <4>4. CASE DeviceBoots \/ DeviceAnswers \/ DeviceReports
        BY <2>2, <4>4 DEF DeviceBoots, DeviceAnswers, DeviceReports, interrupt, protocol
      <4>5. CASE TimerFires \/ InterruptDisabled
        BY <2>2, <4>5 DEF TimerFires, InterruptDisabled, device, interrupt, protocol
      <4>6. IsrChecks \/ IsrQueues \/ WorkerBegins \/ WorkerLocks \/ WorkerSamples
            \/ WorkerCompletes \/ DeviceBoots \/ DeviceAnswers \/ DeviceReports
            \/ TimerFires \/ InterruptDisabled
        BY <2>3, <3>1, <3>3
        DEF Next, WorkerReads, WorkerReadFails, WorkerReadsNothing, AiTransportStart,
            Begin, StartResets, StartFails, StopFlags, StopTimer, AiTransportStop
      <4> QED
        BY <4>1, <4>2, <4>3, <4>4, <4>5, <4>6
    <3> QED
      BY <3>2, <3>3
  <2>4. CASE ~(stage \in {"quiet", "stopped"})
    <3>1. AiTransportStop
      BY <2>4
      DEF Next, DeviceBoots, DeviceAnswers, DeviceReports, IsrChecks, IsrQueues,
          WorkerBegins, WorkerLocks, WorkerReads, WorkerReadFails, WorkerReadsNothing,
          WorkerSamples, WorkerCompletes, TimerFires, TimerCallback, AiTransportStart,
          Begin, StartResets, StartFails, StopFlags, StopTimer, InterruptDisabled, power
    <3> QED
      BY <2>2, <3>1 DEF AiTransportStop, device
  <2> QED
    BY <2>3, <2>4
<1> QED
  BY <1>1, Inductive, PTL DEF Spec, StoppedQuiet

Timers == timer \in [armed : BOOLEAN, callback : BOOLEAN]

\* A request that waits has a timer: inductive on top of IInv.
TimedInv == Timers /\ InitialisationTimed

\* Arming and stopping the timer leaves a waiting callback alone.
LEMMA SetTimer ==
    ASSUME Timers
    PROVE  \A b \in BOOLEAN :
             LET e == [timer EXCEPT !.armed = b]
             IN  e \in [armed : BOOLEAN, callback : BOOLEAN] /\ e.armed = b
  BY DEF Timers

\* The worker arms the timer with every request it sends for the trackpad's
\* initialisation, and stops it when the initialisation ends.
LEMMA WorkerTimed ==
    ASSUME IInv, TimedInv, WorkerReads
    PROVE  TimedInv'
<1>1. PICK failed \in SUBSET Failures : ProcessPacket(Head(wire), failed)
  BY DEF WorkerReads
<1>2. Run' = Run
  BY DEF WorkerReads, power, Run
<1>3. CASE UNCHANGED <<TrackpadInit, timer>>
  BY <1>2, <1>3 DEF TimedInv, Timers, InitialisationTimed, Initialising
<1>4. CASE ~UNCHANGED <<TrackpadInit, timer>>
  <2>1. AcceptInit(failed) \/ \E x : AcceptAnswer(x, failed)
    BY <1>1, <1>4 DEF ProcessPacket, AcceptBoot, AcceptMessage
  <2>2. CASE AcceptInit(failed)
    <3>1. \/ TrackpadInit' = [NoInit EXCEPT !.phase = "READY"] /\ timer' = [timer EXCEPT !.armed = FALSE]
          \/ TrackpadInit' = [NoInit EXCEPT !.phase = "OFFLINE"] /\ timer' = [timer EXCEPT !.armed = FALSE]
          \/ timer' = [timer EXCEPT !.armed = TRUE]
      BY <2>2 DEF AcceptInit
    <3>2. NoInit \in InitState
      BY SetInit DEF IInv, Flags
    <3>3. TrackpadInit'.phase \in {"READY", "OFFLINE"} \/ timer'.armed
      BY <3>1, <3>2, SetTimer, SetInit DEF TimedInv, NoInit
    <3> QED
      BY <3>1, <3>3, SetTimer DEF TimedInv, Timers, InitialisationTimed, Initialising
  <2>3. CASE \E x : AcceptAnswer(x, failed)
    <3>1. timer' = [timer EXCEPT !.armed = TRUE]
      BY <1>4, <2>3 DEF AcceptAnswer
    <3> QED
      BY <3>1, SetTimer DEF TimedInv, Timers, InitialisationTimed
  <2> QED
    BY <2>1, <2>2, <2>3
<1> QED
  BY <1>3, <1>4

\* Every other action keeps somebody who would repeat a request: the callback
\* arms the timer again unless the worker did so while it waited for the lock.
LEMMA OthersTimed ==
    ASSUME IInv, Timers, InitialisationTimed, [Next]_vars, ~WorkerReads
    PROVE  InitialisationTimed'
<1>1. CASE TimerFires
  BY <1>1 DEF TimerFires, InitialisationTimed, Initialising, power, Run, IInv, Flags, InitState
<1>2. CASE TimerCallback
  <2>1. Run' = Run
    BY <1>2 DEF TimerCallback, power, Run
  <2>2. CASE Run /\ Waiting(TrackpadInit)
    <3>1. TrackpadInit' = ai_trackpad_init_poll(TrackpadInit)
      BY <1>2, <2>2 DEF TimerCallback
    <3>2. CASE TrackpadInit.retries >= RetryLimit
      <4>1. TrackpadInit' = [NoInit EXCEPT !.phase = "OFFLINE"]
        BY <3>1, <3>2 DEF ai_trackpad_init_poll
      <4> QED
        BY <4>1 DEF InitialisationTimed, Initialising, NoInit
    <3>3. CASE ~(TrackpadInit.retries >= RetryLimit)
      <4>1. TrackpadInit' = [TrackpadInit EXCEPT !.retries = @ + 1, !.id = @ + 1,
                                                 !.overdue = FALSE]
        BY <3>1, <3>3 DEF ai_trackpad_init_poll
      <4>2. TrackpadInit'.retries > TrackpadInit.retries
        BY <4>1 DEF IInv, Flags, InitState
      <4>3. timer'.armed
        BY <1>2, <4>2 DEF TimerCallback
      <4> QED
        BY <4>3 DEF InitialisationTimed
    <3> QED
      BY <3>2, <3>3
  <2>3. CASE ~(Run /\ Waiting(TrackpadInit))
    <3>1. TrackpadInit' = TrackpadInit
      BY <1>2, <2>3 DEF TimerCallback
    <3>2. timer'.armed <=> timer.armed
      <4>1. ~(TrackpadInit'.retries > TrackpadInit.retries)
        BY <3>1 DEF IInv, Flags, InitState
      <4> QED
        BY <1>2, <4>1 DEF TimerCallback, Timers
    <3> QED
      BY <2>1, <2>3, <3>1, <3>2 DEF InitialisationTimed, Waiting, Initialising
  <2> QED
    BY <2>2, <2>3
<1>3. CASE AiTransportStart
  BY <1>3 DEF AiTransportStart, Begin, InitialisationTimed, Initialising, NoInit
<1>4. CASE StartFails \/ StopFlags
  <2>1. ~Run'
    BY <1>4 DEF StartFails, StopFlags, Run
  <2> QED
    BY <2>1 DEF InitialisationTimed
<1>5. CASE StopTimer \/ AiTransportStop
  <2>1. ~Run
    BY <1>5 DEF IInv, Locking, StopTimer, AiTransportStop
  <2>2. Run' = Run
    BY <1>5 DEF StopTimer, AiTransportStop, Run
  <2> QED
    BY <2>1, <2>2 DEF InitialisationTimed
<1>6. CASE StartResets
  BY <1>6 DEF StartResets, InitialisationTimed, Initialising, protocol, Run
<1>7. CASE UNCHANGED <<TrackpadInit, timer, power>>
  BY <1>7 DEF InitialisationTimed, Initialising, power, Run
<1>8. TimerFires \/ TimerCallback \/ AiTransportStart \/ StartFails
      \/ StopFlags \/ StopTimer \/ AiTransportStop \/ StartResets
      \/ UNCHANGED <<TrackpadInit, timer, power>> \/ InterruptDisabled
  BY DEF Next, vars, protocol, DeviceBoots, DeviceAnswers, DeviceReports, IsrChecks,
         IsrQueues, WorkerBegins, WorkerLocks, WorkerReadFails, WorkerReadsNothing,
         WorkerSamples, WorkerCompletes
<1>9. CASE InterruptDisabled
  BY <1>9 DEF InterruptDisabled, protocol, InitialisationTimed, Initialising, Run
<1> QED
  BY <1>1, <1>2, <1>3, <1>4, <1>5, <1>6, <1>7, <1>8, <1>9

\* Every action keeps the timer of a request.
LEMMA TimedStep == IInv /\ TimedInv /\ [Next]_vars => TimedInv'
<1> SUFFICES ASSUME IInv, TimedInv, [Next]_vars PROVE TimedInv'
  OBVIOUS
<1>0. Timers /\ InitialisationTimed
  BY DEF TimedInv
<1>1. CASE WorkerReads
  BY <1>1, WorkerTimed
<1>2. CASE ~WorkerReads
  <2>1. Timers'
    <3>1. CASE TimerFires \/ AiTransportStart \/ StopTimer
      <4>1. timer' = [armed |-> FALSE, callback |-> TRUE]
            \/ timer' = [timer EXCEPT !.armed = FALSE]
        BY <3>1 DEF TimerFires, AiTransportStart, Begin, StopTimer
      <4>2. [timer EXCEPT !.armed = FALSE] \in [armed : BOOLEAN, callback : BOOLEAN]
        BY <1>0, SetTimer
      <4>3. [armed |-> FALSE, callback |-> TRUE] \in [armed : BOOLEAN, callback : BOOLEAN]
        OBVIOUS
      <4>4. timer' \in [armed : BOOLEAN, callback : BOOLEAN]
        BY <4>1, <4>2, <4>3
      <4> QED
        BY <4>4 DEF Timers
    <3>2. CASE TimerCallback
      BY <1>0, <3>2 DEF TimerCallback, Timers
    <3>3. CASE UNCHANGED timer
      BY <1>0, <3>3 DEF Timers
    <3> QED
      BY <1>2, <3>1, <3>2, <3>3
      DEF Next, vars, protocol, DeviceBoots, DeviceAnswers, DeviceReports, IsrChecks,
          IsrQueues, WorkerBegins, WorkerLocks, WorkerReadFails, WorkerReadsNothing,
          WorkerSamples, WorkerCompletes, StartResets, StartFails, StopFlags,
          AiTransportStop, InterruptDisabled
  <2>2. InitialisationTimed'
    BY <1>0, <1>2, OthersTimed
  <2> QED
    BY <2>1, <2>2 DEF TimedInv
<1> QED
  BY <1>1, <1>2

\* While the transport runs, a request of the trackpad's initialisation has its
\* timer armed or the callback on its way with the deadline passed, for every
\* limit of retries and every order of answers, callbacks and stops
\* (transport.c, AiTransportProcessPacket and AiTrackpadInitTimer).
THEOREM RequestsAreTimed == Spec => []InitialisationTimed
<1>1. Init => TimedInv
  BY DEF Init, TimedInv, Timers, InitialisationTimed, Run
<1> QED
  BY <1>1, TimedStep, Inductive, PTL DEF Spec, TimedInv

\* Every report passed to Windows is whole, and newer than the one before it,
\* whatever packets are lost between (apple_spihid_reassembly.c and
\* transport.c, AiTransportProcessPacket).
THEOREM ReportsDeliveredIntact == Spec => DeliveredIntact
<1> DEFINE Intact == delivered' # delivered =>
                       /\ \A n \in DOMAIN delivered' : delivered'[n] = delivered'[1]
                       /\ delivered'[1] > delivered[1]
<1>1. IInv /\ [Next]_vars => [Intact]_vars
  <2> SUFFICES ASSUME IInv, Next PROVE Intact
    OBVIOUS
  <2>1. CASE WorkerReads
    <3>1. Deliver(Head(wire)) /\ Head(wire) \in Packet /\ wire # <<>>
      BY <2>1, WorkerReadsStep
    <3>2. CASE delivered' = delivered
      BY <3>2
    <3>3. CASE delivered' # delivered
      <4>1. /\ \A n \in DOMAIN delivered' : delivered'[n] = delivered'[1]
            /\ Report(Head(wire)) /\ delivered'[1] = Head(wire).id
        BY <3>1, <3>3 DEF Deliver
      <4>2. delivered[1] < Head(wire).id
        <5>1. Words /\ WireOrder
          BY DEF IInv
        <5>2. wire \in Seq(Packet) /\ DOMAIN wire = 1 .. Len(wire)
          BY <5>1, WireFacts
        <5>3. 1 \in DOMAIN wire /\ Head(wire) = wire[1]
          BY <3>1, <5>2
        <5> QED
          BY <4>1, <5>1, <5>3 DEF WireOrder
      <4>3. delivered[1] \in Nat /\ Head(wire).id \in Nat
        BY <3>1, WireFacts, PacketFields DEF IInv
      <4> QED
        BY <4>1, <4>2, <4>3
    <3> QED
      BY <3>2, <3>3
  <2>2. CASE ~WorkerReads
    <3>1. delivered' = delivered
      BY <2>2 DEF Next, DeviceBoots, DeviceAnswers, DeviceReports, IsrChecks, IsrQueues,
            WorkerBegins, WorkerLocks, WorkerReadFails, WorkerReadsNothing, WorkerSamples,
            WorkerCompletes, TimerFires, TimerCallback, AiTransportStart, Begin,
            StartResets, StartFails, StopFlags, StopTimer, AiTransportStop,
            InterruptDisabled, protocol
    <3> QED
      BY <3>1
  <2> QED
    BY <2>1, <2>2
<1> QED
  BY <1>1, Inductive, PTL DEF Spec, DeliveredIntact
====
