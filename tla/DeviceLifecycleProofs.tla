----------------------- MODULE DeviceLifecycleProofs ------------------------
(***************************************************************************)
(* Proofs about DeviceLifecycle: its types, and the four safety properties *)
(* of the device's start, stop and removal, as invariants of Spec.         *)
(*                                                                         *)
(* None of the four is inductive. The inductive invariant IInv joins what  *)
(* the provider's record says of the hardware (Coherent), what the         *)
(* firmware record says of the provider (Recorded), where the calling      *)
(* thread may be (Control), and how far a retry in which nothing failed    *)
(* has got with its rollback (RetryCleans).                                *)
(*                                                                         *)
(* The first part proves what each callback of the provider leaves behind; *)
(* the second has one lemma per action.                                    *)
(***************************************************************************)
EXTENDS DeviceLifecycle, TLAPS

\* The provider's State bits and the hardware: power is on exactly while its
\* bit is set; a root is prepared under an owned table; the coprocessor, its
\* endpoints, its published roots and its mapped pages stand on the bits below
\* them.
Coherent(d) ==
    /\ "power" \in d.prov <=> d.powered
    /\ "uat" \in d.prov => "power" \in d.prov /\ d.prepared
    /\ d.prov \cap {"asc", "published"} # {} \/ d.roots # "none" => "uat" \in d.prov
    /\ d.running \/ d.prov \cap {"fwep", "dbep"} # {} => "asc" \in d.prov

\* The firmware record covers the provider's: whatever holds the ASC, the
\* published roots or the handoff lock has an entry that the next rollback
\* will find, and a backend that calls itself stopped has no completed
\* operation.
Recorded ==
    /\ dev.prov \cap {"asc", "published"} # {} \/ dev.Locked
         => "asc" \in CompletedMask \cup CleanupMask
    /\ "asc" \in dev.prov => "power" \in CompletedMask
    /\ Phase = "Stopped" => CompletedMask = {}

\* Where the calling thread may be, and what it has already done there.
Control ==
    /\ pc = "absent" => ~PlatformRuntime
    /\ pc \notin {"absent", "release", "busy"} => PlatformRuntime
    /\ pc = "release" /\ PlatformRuntime => caller = "start"
    /\ pc = "map" => Quiet(dev) /\ Phase = "Starting"
    /\ pc = "boot" => Phase = "Starting" /\ CompletedMask = {StartOps[i] : i \in 1 .. at - 1}
    /\ pc = "cleanup" => at \in DOMAIN CleanupOps
    /\ pc \in {"rollback", "cleanup", "rolled"} => ret # "none"
    /\ pc = "unmap" => ret \in {"unwind", "stop"}
    /\ pc = "unmap" /\ ret = "stop" => CompletedMask = {} /\ CleanupMask = {}
    /\ pc = "free" => CompletedMask = {} /\ (CleanupMask = {} \/ Phase = "Stopped")

\* Without a platform runtime nothing is left of what it owned.
FreedQuiet == ~PlatformRuntime => Quiet(dev)

\* A stop or removal on its way down in which nothing has failed and no mark
\* of an earlier failure is left.
CleanRetry == caller # "start" /\ ret = "stop" /\ ~faulted
              /\ ~RecordDiffers /\ dev.roots # "uncertain"

\* Such a retry undoes every operation it passes, and ends with both masks
\* empty.
RetryCleans ==
    /\ pc = "cleanup" /\ CleanRetry =>
         /\ ~cleanup_failed
         /\ CompletedMask \cap Observation = {}
         /\ \A i \in 1 .. at - 1 : CleanupOps[i] \notin CompletedMask \cup CleanupMask
    /\ pc = "rolled" /\ CleanRetry => RolledBack

\* TypeOK is split by prover: the part without Boolean variables ...
Words ==
    /\ pc \in {"absent", "map", "boot", "create", "later", "up", "rollback",
               "cleanup", "rolled", "unwind", "unmap", "destroy", "stopqueues",
               "queues", "free", "release", "busy"}
    /\ at \in 1 .. 9
    /\ caller \in {"none", "start", "stop", "remove"}
    /\ ret \in {"none", "abort", "unwind", "stop"}
    /\ CompletedMask \subseteq Op /\ CleanupMask \subseteq {"asc"}
    /\ Phase \in {"Stopped", "Starting", "Ready", "Failed", "Stopping"}
    /\ MemoryRuntime \in {"none", "live", "emptied"}

\* ... and the Boolean one.
Flags ==
    /\ dev \in Device /\ cleanup_failed \in BOOLEAN
    /\ ArenaMapped \in BOOLEAN /\ ContextPublished \in BOOLEAN
    /\ QueuesCreated \in BOOLEAN /\ QueuesQuiesced \in BOOLEAN
    /\ PlatformRuntime \in BOOLEAN /\ BackendImage \in BOOLEAN
    /\ faulted \in BOOLEAN

\* The invariant without its types.
Order == Coherent(dev) /\ Recorded /\ Control /\ FreedQuiet /\ RetryCleans /\ RetryFrees

\* The inductive invariant.
IInv == Words /\ Flags /\ Order

-----------------------------------------------------------------------------
(* The provider's callbacks.                                               *)

\* What every callback leaves behind: an answer, and a device in order.
Outcome(r) == r.ok \in BOOLEAN /\ r.fault \in BOOLEAN
              /\ r.dev \in Device /\ Coherent(r.dev)

\* The fields of the three answers.
LEMMA Answers ==
    ASSUME NEW d
    PROVE  /\ Ok(d).ok = TRUE /\ Ok(d).fault = FALSE /\ Ok(d).dev = d
           /\ Fail(d).ok = FALSE /\ Fail(d).fault = TRUE /\ Fail(d).dev = d
           /\ Refuse(d).ok = FALSE /\ Refuse(d).fault = FALSE /\ Refuse(d).dev = d
  BY DEF Ok, Fail, Refuse

\* An answer about a device in order is an outcome.
LEMMA AnswerOutcome ==
    ASSUME NEW d \in Device, Coherent(d)
    PROVE  Outcome(Ok(d)) /\ Outcome(Fail(d)) /\ Outcome(Refuse(d))
  BY Zenon, Answers DEF Outcome

\* Updating the lock field of a device leaves the others alone.
LEMMA SetLocked ==
    ASSUME NEW d \in Device, NEW l \in BOOLEAN
    PROVE  LET e == [d EXCEPT !.Locked = l]
           IN  /\ e \in Device
               /\ e.Locked = l /\ e.prov = d.prov /\ e.powered = d.powered
               /\ e.prepared = d.prepared /\ e.roots = d.roots /\ e.running = d.running
<1>1. [d EXCEPT !.Locked = l] \in Device
  BY Zenon DEF Device
<1> QED
  BY <1>1 DEF Device

\* Updating the State bits leaves the other fields alone.
LEMMA SetProv ==
    ASSUME NEW d \in Device, NEW p \in SUBSET Bit
    PROVE  LET e == [d EXCEPT !.prov = p]
           IN  /\ e \in Device
               /\ e.prov = p /\ e.Locked = d.Locked /\ e.powered = d.powered
               /\ e.prepared = d.prepared /\ e.roots = d.roots /\ e.running = d.running
<1>1. [d EXCEPT !.prov = p] \in Device
  BY Zenon DEF Device
<1> QED
  BY <1>1 DEF Device

\* Updating the lease leaves the other fields alone.
LEMMA SetRoots ==
    ASSUME NEW d \in Device, NEW x \in {"none", "mapped", "uncertain"}
    PROVE  LET e == [d EXCEPT !.roots = x]
           IN  /\ e \in Device
               /\ e.roots = x /\ e.prov = d.prov /\ e.Locked = d.Locked
               /\ e.powered = d.powered /\ e.prepared = d.prepared /\ e.running = d.running
<1>1. [d EXCEPT !.roots = x] \in Device
  BY Zenon DEF Device
<1> QED
  BY <1>1 DEF Device

\* Updating the run bit leaves the other fields alone.
LEMMA SetRunning ==
    ASSUME NEW d \in Device, NEW b \in BOOLEAN
    PROVE  LET e == [d EXCEPT !.running = b]
           IN  /\ e \in Device
               /\ e.running = b /\ e.prov = d.prov /\ e.Locked = d.Locked
               /\ e.powered = d.powered /\ e.prepared = d.prepared /\ e.roots = d.roots
<1>1. [d EXCEPT !.running = b] \in Device
  BY Zenon DEF Device
<1> QED
  BY <1>1 DEF Device

\* Updating the power state leaves the other fields alone.
LEMMA SetPowered ==
    ASSUME NEW d \in Device, NEW b \in BOOLEAN
    PROVE  LET e == [d EXCEPT !.powered = b]
           IN  /\ e \in Device
               /\ e.powered = b /\ e.prov = d.prov /\ e.Locked = d.Locked
               /\ e.prepared = d.prepared /\ e.roots = d.roots /\ e.running = d.running
<1>1. [d EXCEPT !.powered = b] \in Device
  BY Zenon DEF Device
<1> QED
  BY <1>1 DEF Device

\* Updating the prepared root leaves the other fields alone.
LEMMA SetPrepared ==
    ASSUME NEW d \in Device, NEW b \in BOOLEAN
    PROVE  LET e == [d EXCEPT !.prepared = b]
           IN  /\ e \in Device
               /\ e.prepared = b /\ e.prov = d.prov /\ e.Locked = d.Locked
               /\ e.powered = d.powered /\ e.roots = d.roots /\ e.running = d.running
<1>1. [d EXCEPT !.prepared = b] \in Device
  BY Zenon DEF Device
<1> QED
  BY <1>1 DEF Device

\* provider_power_on touches the power bit alone.
LEMMA PowerOn ==
    ASSUME NEW d \in Device, Coherent(d), NEW r \in provider_power_on(d)
    PROVE  /\ Outcome(r)
           /\ r.dev.prov \ {"power"} = d.prov \ {"power"}
           /\ r.dev.Locked = d.Locked
<1> DEFINE p == [d EXCEPT !.prov = {"power"}]
           e == [p EXCEPT !.powered = TRUE]
<1>1. p \in Device /\ e \in Device
  BY SetProv, SetPowered DEF Bit
<1>2. /\ e.prov = {"power"} /\ e.powered /\ e.prepared = d.prepared
      /\ e.Locked = d.Locked /\ e.roots = d.roots /\ e.running = d.running
  BY <1>1, SetProv, SetPowered DEF Bit
<1>3. CASE r = Ok(e) /\ d.prov = {}
  <2>1. Coherent(e)
    BY <1>2, <1>3 DEF Coherent
  <2> QED
    BY <1>1, <1>2, <1>3, <2>1, Answers, AnswerOutcome
<1>4. CASE r \in {Refuse(d), Fail(d)}
  BY <1>4, Answers, AnswerOutcome
<1> QED
  BY <1>3, <1>4 DEF provider_power_on

\* provider_create_uat touches the uat bit alone, and prepares the root before
\* it sets it.
LEMMA CreateUat ==
    ASSUME NEW d \in Device, Coherent(d), NEW r \in provider_create_uat(d)
    PROVE  /\ Outcome(r)
           /\ r.dev.prov \ {"uat"} = d.prov \ {"uat"}
           /\ r.dev.Locked = d.Locked
<1> DEFINE p == [d EXCEPT !.prepared = TRUE]
           e == [d EXCEPT !.prov = @ \cup {"uat"}]
           f == [e EXCEPT !.prepared = TRUE]
<1>0. d.prov \cup {"uat"} \in SUBSET Bit
  BY DEF Device, Bit
<1>1. p \in Device /\ e \in Device /\ f \in Device
  BY <1>0, SetProv, SetPrepared
<1>2. /\ p.prov = d.prov /\ p.prepared /\ p.powered = d.powered
      /\ p.Locked = d.Locked /\ p.roots = d.roots /\ p.running = d.running
  BY SetPrepared
<1>3. /\ f.prov = d.prov \cup {"uat"} /\ f.prepared /\ f.powered = d.powered
      /\ f.Locked = d.Locked /\ f.roots = d.roots /\ f.running = d.running
  BY <1>0, <1>1, SetProv, SetPrepared
<1>4. r \in {Refuse(d), Fail(d), Fail(p)} \/ (r = Ok(f) /\ d.prov = {"power"})
  BY DEF provider_create_uat
<1> HIDE DEF p, e, f
<1>5. CASE r = Ok(f) /\ d.prov = {"power"}
  <2>1. Coherent(f)
    BY <1>3, <1>5 DEF Coherent
  <2> QED
    BY <1>1, <1>3, <1>5, <2>1, Answers, AnswerOutcome
<1>6. CASE r = Fail(p)
  <2>1. Coherent(p)
    BY <1>2 DEF Coherent
  <2> QED
    BY <1>1, <1>2, <1>6, <2>1, Answers, AnswerOutcome
<1>7. CASE r \in {Refuse(d), Fail(d)}
  BY <1>7, Answers, AnswerOutcome
<1> QED
  BY <1>4, <1>5, <1>6, <1>7

\* Every way in which provider_boot_asc can end leaves the device in order,
\* since the ASC bit is set before the coprocessor runs.
LEMMA BootAsc ==
    ASSUME NEW d \in Device, Coherent(d), NEW r \in provider_boot_asc(d)
    PROVE  Outcome(r)
<1> DEFINE Like(e) == /\ e \in Device
                      /\ e.prov \in {d.prov \cup {"asc"}, d.prov \cup {"asc", "published"}}
                      /\ e.powered = d.powered /\ e.prepared = d.prepared
<1>1. CASE d.prov # {"power", "uat"}
  BY <1>1, AnswerOutcome DEF provider_boot_asc
<1>2. CASE d.prov = {"power", "uat"}
  <2> DEFINE owned == [d EXCEPT !.prov = @ \cup {"asc"}]
             up    == [owned EXCEPT !.running = TRUE]
             pub   == [up EXCEPT !.prov = @ \cup {"published"}]
             done  == [up EXCEPT !.prov = @ \cup {"published"}, !.roots = "mapped"]
  <2>5. r \in boot_asc_ends(owned, up, done)
    BY <1>2 DEF provider_boot_asc
  <2>0. /\ owned = [d EXCEPT !.prov = @ \cup {"asc"}]
        /\ up = [owned EXCEPT !.running = TRUE]
        /\ pub = [up EXCEPT !.prov = @ \cup {"published"}]
        /\ done = [pub EXCEPT !.roots = "mapped"]
    OBVIOUS
  <2> HIDE DEF owned, up, pub, done
  <2>1. Like(owned) /\ owned.prov = d.prov \cup {"asc"}
    BY <1>2, <2>0, SetProv DEF Bit
  <2>2. Like(up) /\ up.prov = d.prov \cup {"asc"}
    BY <2>0, <2>1, SetRunning
  <2>3. Like(pub)
    <3>1. up.prov \cup {"published"} \in SUBSET Bit
      BY <1>2, <2>2 DEF Bit
    <3>2. up.prov \cup {"published"} = d.prov \cup {"asc", "published"}
      BY <2>2
    <3>3. /\ pub \in Device /\ pub.prov = up.prov \cup {"published"}
          /\ pub.powered = up.powered /\ pub.prepared = up.prepared
      BY <2>0, <2>2, <3>1, SetProv
    <3> QED
      BY <2>2, <3>2, <3>3
  <2>4. Like(done)
    BY <2>0, <2>3, SetRoots
  <2>6. PICK e : Like(e) /\ r \in {Ok(e), Fail(e)}
    <3>0. \/ r \in {Ok(done), Fail(owned), Fail([owned EXCEPT !.Locked = TRUE]),
                    Fail([done EXCEPT !.running = FALSE])}
          \/ \E l \in BOOLEAN, x \in {"none", "mapped", "uncertain"} :
                r = Fail([up EXCEPT !.Locked = l, !.roots = x])
          \/ \E l \in BOOLEAN : r = Fail([done EXCEPT !.Locked = l])
      BY <2>5 DEF boot_asc_ends
    <3>1. CASE r \in {Ok(done), Fail(owned)}
      BY <2>1, <2>4, <3>1
    <3>2. CASE r = Fail([owned EXCEPT !.Locked = TRUE])
      <4>1. Like([owned EXCEPT !.Locked = TRUE])
        BY <2>1, SetLocked
      <4> QED
        BY <4>1, <3>2
    <3>3. CASE r = Fail([done EXCEPT !.running = FALSE])
      <4>1. Like([done EXCEPT !.running = FALSE])
        BY <2>4, SetRunning
      <4> QED
        BY <4>1, <3>3
    <3>4. ASSUME NEW l \in BOOLEAN, NEW x \in {"none", "mapped", "uncertain"},
                 r = Fail([up EXCEPT !.Locked = l, !.roots = x])
          PROVE  \E e : Like(e) /\ r \in {Ok(e), Fail(e)}
      <4> DEFINE g == [up EXCEPT !.Locked = l]
      <4>1. Like(g)
        BY <2>2, SetLocked
      <4>2. Like([g EXCEPT !.roots = x])
        <5> HIDE DEF g
        <5> QED BY <4>1, SetRoots
      <4> QED
        BY <4>2, <3>4
    <3>5. ASSUME NEW l \in BOOLEAN, r = Fail([done EXCEPT !.Locked = l])
          PROVE  \E e : Like(e) /\ r \in {Ok(e), Fail(e)}
      <4>1. Like([done EXCEPT !.Locked = l])
        BY <2>4, SetLocked
      <4> QED
        BY <4>1, <3>5
    <3> QED
      BY <3>0, <3>1, <3>2, <3>3, <3>4, <3>5
  <2>7. Coherent(e)
    BY <1>2, <2>6 DEF Coherent
  <2> QED
    BY <2>6, <2>7, AnswerOutcome
<1> QED
  BY <1>1, <1>2

\* provider_start_endpoint touches its own bit alone.
LEMMA StartEndpoint ==
    ASSUME NEW d \in Device, Coherent(d), NEW bit \in {"fwep", "dbep"},
           NEW r \in provider_start_endpoint(d, bit)
    PROVE  /\ Outcome(r)
           /\ r.dev.prov \ {"fwep", "dbep"} = d.prov \ {"fwep", "dbep"}
           /\ r.dev.Locked = d.Locked
<1> DEFINE e == [d EXCEPT !.prov = @ \cup {bit}]
<1>0. d.prov \cup {bit} \in SUBSET Bit
  BY DEF Device, Bit
<1>1. /\ e \in Device
      /\ e.prov = d.prov \cup {bit} /\ e.prepared = d.prepared /\ e.powered = d.powered
      /\ e.Locked = d.Locked /\ e.roots = d.roots /\ e.running = d.running
  BY <1>0, SetProv
<1>2. r \in {Refuse(d), Fail(d)} \/ (r = Ok(e) /\ {"power", "uat", "asc"} \subseteq d.prov)
  BY DEF provider_start_endpoint
<1> HIDE DEF e
<1>3. CASE r = Ok(e) /\ {"power", "uat", "asc"} \subseteq d.prov
  <2>1. Coherent(e)
    BY <1>1, <1>3 DEF Coherent
  <2>2. Outcome(r) /\ r.dev = e
    BY Zenon, <1>1, <1>3, <2>1, Answers, AnswerOutcome
  <2> QED
    BY <1>1, <2>2
<1>4. CASE r \in {Refuse(d), Fail(d)}
  BY <1>4, Answers, AnswerOutcome
<1> QED
  BY <1>2, <1>3, <1>4

\* Every start operation leaves the device in order, and only the boot of the
\* ASC acquires the ASC, the published roots or the lock: that is why the ASC
\* alone is entered in CleanupMask beforehand.
LEMMA StartCallOutcome ==
    ASSUME NEW d \in Device, Coherent(d), NEW op \in Op, NEW r \in StartCall(op, d)
    PROVE  /\ Outcome(r)
           /\ op # "asc" => /\ r.dev.prov \cap {"asc", "published"}
                                 = d.prov \cap {"asc", "published"}
                            /\ r.dev.Locked = d.Locked
<1>1. CASE op = "power"
  BY <1>1, PowerOn DEF StartCall
<1>2. CASE op = "uat"
  BY <1>2, CreateUat DEF StartCall
<1>3. CASE op = "asc"
  BY <1>3, BootAsc DEF StartCall
<1>4. CASE op \in {"fwep", "dbep"}
  <2>1. r \in provider_start_endpoint(d, op)
    BY <1>4 DEF StartCall
  <2> QED
    BY <1>4, <2>1, StartEndpoint
<1>5. CASE op \notin {"power", "uat", "asc", "fwep", "dbep"}
  <2>1. r \in {Ok(d), Fail(d), Refuse(d)}
    BY <1>5 DEF StartCall, provider_publish_initdata, provider_send
  <2>2. Outcome(r) /\ r.dev = d
    BY Zenon, <2>1, Answers, AnswerOutcome
  <2> QED
    BY <2>2
<1> QED
  BY <1>1, <1>2, <1>3, <1>4, <1>5

-----------------------------------------------------------------------------
(* Teardown.                                                               *)

\* release_handoff: the lock is gone after a success and a failure is a
\* primitive's.
LEMMA ReleaseHandoff ==
    ASSUME NEW d \in Device, Coherent(d), NEW r \in release_handoff(d)
    PROVE  /\ Outcome(r)
           /\ r.dev.prov = d.prov /\ r.dev.roots = d.roots
           /\ r.ok => ~r.dev.Locked
           /\ r.dev.Locked => d.Locked
           /\ ~r.ok => r.fault
           /\ \/ r = Ok([d EXCEPT !.Locked = FALSE])
              \/ r = Fail(d)
<1> DEFINE e == [d EXCEPT !.Locked = FALSE]
<1>1. /\ e \in Device
      /\ e.Locked = FALSE /\ e.prov = d.prov /\ e.powered = d.powered
      /\ e.prepared = d.prepared /\ e.roots = d.roots /\ e.running = d.running
  BY SetLocked
<1>2. r = Ok(e) \/ r = Fail(d)
  BY DEF release_handoff
<1> HIDE DEF e
<1>3. Coherent(e)
  BY <1>1 DEF Coherent
<1>4. CASE r = Ok(e)
  <2>1. Outcome(r) /\ r.ok = TRUE /\ r.dev = e
    BY Zenon, <1>1, <1>3, <1>4, Answers, AnswerOutcome
  <2> QED
    BY <1>1, <1>4, <2>1 DEF e
<1>5. CASE r = Fail(d)
  <2>1. Outcome(r) /\ r.ok = FALSE /\ r.fault = TRUE /\ r.dev = d
    BY Zenon, <1>5, Answers, AnswerOutcome
  <2> QED
    BY <1>5, <2>1
<1> QED
  BY <1>2, <1>4, <1>5

\* UnpublishUatRoots with the coprocessor off: only an uncertain lease makes
\* it refuse.
LEMMA WithdrawRoots ==
    ASSUME NEW d \in Device, Coherent(d), ~d.running, NEW u \in UnpublishUatRoots(d)
    PROVE  /\ Outcome(u)
           /\ u.dev.prov = d.prov /\ u.dev.Locked = d.Locked
           /\ u.ok => u.dev.roots = "none" /\ d.roots # "uncertain"
           /\ ~u.ok => u.dev = d
           /\ ~u.ok /\ ~u.fault => d.roots = "uncertain"
<1> DEFINE e == [d EXCEPT !.roots = "none"]
<1>1. /\ e \in Device
      /\ e.roots = "none" /\ e.prov = d.prov /\ e.Locked = d.Locked
      /\ e.powered = d.powered /\ e.prepared = d.prepared /\ e.running = d.running
  BY SetRoots
<1>2. \/ u = Ok(e) /\ d.roots # "uncertain"
      \/ u = Fail(d)
      \/ u = Refuse(d) /\ d.roots = "uncertain"
  BY DEF UnpublishUatRoots
<1> HIDE DEF e
<1>3. Coherent(e)
  BY <1>1 DEF Coherent
<1>4. CASE u = Ok(e) /\ d.roots # "uncertain"
  <2>1. Outcome(u) /\ u.ok = TRUE /\ u.dev = e
    BY Zenon, <1>1, <1>3, <1>4, Answers, AnswerOutcome
  <2> QED
    BY <1>1, <1>4, <2>1
<1>5. CASE u = Fail(d)
  <2>1. Outcome(u) /\ u.ok = FALSE /\ u.fault = TRUE /\ u.dev = d
    BY Zenon, <1>5, Answers, AnswerOutcome
  <2> QED
    BY <2>1
<1>6. CASE u = Refuse(d) /\ d.roots = "uncertain"
  <2>1. Outcome(u) /\ u.ok = FALSE /\ u.dev = d
    BY Zenon, <1>6, Answers, AnswerOutcome
  <2> QED
    BY <1>6, <2>1
<1> QED
  BY <1>2, <1>4, <1>5, <1>6

\* How unpublishing the initdata can end: the lock is not kept by a success,
\* published roots outlive it only while the ASC is owned, and it is refused
\* only over an uncertain lease (firmware_provider.c,
\* provider_unpublish_initdata).
Unpublished(d, r) ==
    /\ Outcome(r)
    /\ r.dev.prov \subseteq d.prov
    /\ r.dev.prov \ {"published"} = d.prov \ {"published"}
    /\ r.dev.Locked => d.Locked \/ "published" \in d.prov
    /\ r.ok => ~r.dev.Locked /\ ("asc" \in r.dev.prov \/ "published" \notin r.dev.prov)
    /\ ~r.ok /\ ~r.fault => r.dev.roots = "uncertain"
    /\ d.roots = "uncertain" => r.dev.roots = "uncertain"

\* provider_unpublish_initdata keeps the device in order on every path, the
\* release of the lock after a failure included.
LEMMA UnpublishInitdata ==
    ASSUME NEW d \in Device, Coherent(d), NEW r \in provider_unpublish_initdata(d)
    PROVE  Unpublished(d, r)
<1>1. CASE "asc" \in d.prov \/ "published" \notin d.prov
  <2>1. CASE d.Locked
    <3>1. r \in release_handoff(d)
      BY <1>1, <2>1 DEF provider_unpublish_initdata
    <3> QED
      BY <1>1, <3>1, ReleaseHandoff DEF Unpublished
  <2>2. CASE ~d.Locked
    <3>1. r = Ok(d)
      BY <1>1, <2>2 DEF provider_unpublish_initdata
    <3>2. Outcome(r) /\ r.ok = TRUE /\ r.dev = d
      BY Zenon, <3>1, Answers, AnswerOutcome
    <3> QED
      BY <1>1, <2>2, <3>2 DEF Unpublished
  <2> QED
    BY <2>1, <2>2
<1>2. CASE "asc" \notin d.prov /\ "published" \in d.prov
  <2> DEFINE held == [d EXCEPT !.Locked = TRUE]
             clear(e) == [e EXCEPT !.prov = @ \ {"published"}]
             failed(u, q) == [q EXCEPT !.ok = FALSE, !.fault = @ \/ u.fault]
  <2>1. /\ held \in Device
        /\ held.Locked = TRUE /\ held.prov = d.prov /\ held.powered = d.powered
        /\ held.prepared = d.prepared /\ held.roots = d.roots
        /\ held.running = d.running
    BY SetLocked
  <2>2. \/ r = Fail(d)
        \/ \E u \in UnpublishUatRoots(held) :
              /\ u.ok
              /\ r \in release_handoff(clear(u.dev))
        \/ \E u \in UnpublishUatRoots(held) :
              /\ ~u.ok
              /\ \E q \in release_handoff(u.dev) : r = failed(u, q)
    BY <1>2 DEF provider_unpublish_initdata
  <2> HIDE DEF held, clear, failed
  <2>3. Coherent(held) /\ ~held.running
    BY <1>2, <2>1 DEF Coherent
  <2>4. CASE r = Fail(d)
    <3>1. Outcome(r) /\ r.ok = FALSE /\ r.fault = TRUE /\ r.dev = d
      BY Zenon, <2>4, Answers, AnswerOutcome
    <3> QED
      BY <3>1 DEF Unpublished
  <2>5. ASSUME NEW u \in UnpublishUatRoots(held), u.ok,
               r \in release_handoff(clear(u.dev))
        PROVE  Unpublished(d, r)
    <3>1. /\ Outcome(u) /\ u.dev.prov = d.prov /\ u.dev.roots = "none"
          /\ d.roots # "uncertain"
      BY <2>1, <2>3, <2>5, WithdrawRoots
    <3>2. u.dev \in Device /\ Coherent(u.dev)
      BY <3>1 DEF Outcome
    <3>3. u.dev.prov \ {"published"} \in SUBSET Bit
      BY <3>1 DEF Device
    <3>4. LET e == clear(u.dev)
          IN  /\ e \in Device
              /\ e.prov = u.dev.prov \ {"published"} /\ e.Locked = u.dev.Locked
              /\ e.powered = u.dev.powered /\ e.prepared = u.dev.prepared
              /\ e.roots = u.dev.roots /\ e.running = u.dev.running
      BY <3>2, <3>3, SetProv DEF clear
    <3>5. Coherent(clear(u.dev))
      BY <1>2, <3>1, <3>2, <3>4 DEF Coherent
    <3>6. /\ Outcome(r) /\ r.dev.prov = clear(u.dev).prov
          /\ (r.ok => ~r.dev.Locked) /\ (~r.ok => r.fault)
      BY <2>5, <3>4, <3>5, ReleaseHandoff
    <3> QED
      BY <1>2, <3>1, <3>4, <3>6 DEF Unpublished
  <2>6. ASSUME NEW u \in UnpublishUatRoots(held), ~u.ok,
               NEW q \in release_handoff(u.dev), r = failed(u, q)
        PROVE  Unpublished(d, r)
    <3>1. /\ Outcome(u) /\ u.dev = held
          /\ ~u.fault => d.roots = "uncertain"
      BY <2>1, <2>3, <2>6, WithdrawRoots
    <3>2. /\ Outcome(q) /\ q.dev.prov = d.prov /\ q.dev.roots = d.roots
          /\ \/ q = Ok([held EXCEPT !.Locked = FALSE]) \/ q = Fail(held)
      BY <2>1, <2>3, <2>6, <3>1, ReleaseHandoff
    <3>3. r.ok = FALSE /\ r.fault = (q.fault \/ u.fault) /\ r.dev = q.dev
      BY <2>6, <3>2 DEF failed, Ok, Fail
    <3>4. Outcome(r)
      BY Zenon, <3>1, <3>2, <3>3 DEF Outcome
    <3> QED
      BY <1>2, <3>1, <3>2, <3>3, <3>4 DEF Unpublished
  <2> QED
    BY <2>2, <2>4, <2>5, <2>6
<1> QED
  BY <1>1, <1>2

\* provider_stop_endpoint removes its own bit, or nothing.
LEMMA StopEndpoint ==
    ASSUME NEW d \in Device, Coherent(d), NEW bit \in {"fwep", "dbep"},
           NEW r \in provider_stop_endpoint(d, bit)
    PROVE  /\ Outcome(r)
           /\ r.dev.Locked = d.Locked /\ r.dev.roots = d.roots
           /\ r.ok => bit \in d.prov /\ r.dev.prov = d.prov \ {bit}
           /\ ~r.ok => r.dev = d
           /\ ~r.ok /\ ~r.fault => bit \notin d.prov
<1> DEFINE e == [d EXCEPT !.prov = @ \ {bit}]
<1>0. d.prov \ {bit} \in SUBSET Bit
  BY DEF Device
<1>1. /\ e \in Device
      /\ e.prov = d.prov \ {bit} /\ e.Locked = d.Locked /\ e.powered = d.powered
      /\ e.prepared = d.prepared /\ e.roots = d.roots /\ e.running = d.running
  BY <1>0, SetProv
<1>2. \/ r = Refuse(d) /\ bit \notin d.prov
      \/ r = Ok(e) /\ bit \in d.prov
      \/ r = Fail(d)
  BY DEF provider_stop_endpoint
<1> HIDE DEF e
<1>3. CASE r = Refuse(d) /\ bit \notin d.prov
  <2>1. Outcome(r) /\ r.ok = FALSE /\ r.dev = d
    BY Zenon, <1>3, Answers, AnswerOutcome
  <2> QED
    BY <1>3, <2>1
<1>4. CASE r = Ok(e) /\ bit \in d.prov
  <2>1. Coherent(e)
    BY <1>1 DEF Coherent
  <2>2. Outcome(r) /\ r.ok = TRUE /\ r.dev = e
    BY Zenon, <1>1, <1>4, <2>1, Answers, AnswerOutcome
  <2> QED
    BY <1>1, <1>4, <2>2
<1>5. CASE r = Fail(d)
  <2>1. Outcome(r) /\ r.ok = FALSE /\ r.fault = TRUE /\ r.dev = d
    BY Zenon, <1>5, Answers, AnswerOutcome
  <2> QED
    BY <2>1
<1> QED
  BY <1>2, <1>3, <1>4, <1>5

\* StopAsc: a success leaves the coprocessor off.
LEMMA StopCoprocessor ==
    ASSUME NEW d \in Device, Coherent(d), NEW s \in StopAsc(d)
    PROVE  /\ Outcome(s)
           /\ s.dev.prov = d.prov /\ s.dev.Locked = d.Locked /\ s.dev.roots = d.roots
           /\ s.ok => ~s.dev.running
           /\ ~s.ok => s.fault
<1> DEFINE e == [d EXCEPT !.running = FALSE]
<1>1. /\ e \in Device
      /\ e.running = FALSE /\ e.prov = d.prov /\ e.Locked = d.Locked
      /\ e.powered = d.powered /\ e.prepared = d.prepared /\ e.roots = d.roots
  BY SetRunning
<1>2. s = Ok(e) \/ s = Fail(d)
  BY DEF StopAsc
<1> HIDE DEF e
<1>3. CASE s = Ok(e)
  <2>1. Coherent(e)
    BY <1>1 DEF Coherent
  <2>2. Outcome(s) /\ s.ok = TRUE /\ s.dev = e
    BY Zenon, <1>1, <1>3, <2>1, Answers, AnswerOutcome
  <2> QED
    BY <1>1, <2>2
<1>4. CASE s = Fail(d)
  <2>1. Outcome(s) /\ s.ok = FALSE /\ s.fault = TRUE /\ s.dev = d
    BY Zenon, <1>4, Answers, AnswerOutcome
  <2> QED
    BY <2>1
<1> QED
  BY <1>2, <1>3, <1>4

\* How stopping the ASC can end (provider_stop_asc).
AscStopped(d, r) ==
    /\ Outcome(r)
    /\ r.dev.prov \subseteq d.prov
    /\ r.dev.prov \cap {"power", "uat"} = d.prov \cap {"power", "uat"}
    /\ r.dev.Locked => d.Locked \/ d.prov \cap {"asc", "published"} # {}
    /\ r.ok => ~r.dev.Locked /\ r.dev.prov \cap {"asc", "published"} = {}
    /\ ~r.ok /\ ~r.fault => r.dev.roots = "uncertain"
    /\ d.roots = "uncertain" => r.dev.roots = "uncertain"

\* provider_stop_asc keeps the device in order whichever of its three parts
\* fails, and after a success neither the ASC, nor the published roots, nor
\* the lock is left.
LEMMA StopAscOutcome ==
    ASSUME NEW d \in Device, Coherent(d), NEW r \in provider_stop_asc(d)
    PROVE  AscStopped(d, r)
<1> DEFINE gone(e) == [e EXCEPT !.prov = @ \ {"asc", "fwep", "dbep"}]
           stops(e) == IF "asc" \in e.prov THEN StopAsc(e) ELSE {Ok(e)}
           last(s)  == IF ~s.ok THEN {s} ELSE provider_unpublish_initdata(gone(s.dev))
           rest(u)  == IF ~u.ok THEN {u} ELSE UNION {last(s) : s \in stops(u.dev)}
<1>1. PICK u \in provider_unpublish_initdata(d) :
         \/ ~u.ok /\ r = u
         \/ /\ u.ok
            /\ \E s \in stops(u.dev) :
                 \/ ~s.ok /\ r = s
                 \/ s.ok /\ r \in provider_unpublish_initdata(gone(s.dev))
  <2>1. provider_stop_asc(d) = UNION {rest(u) : u \in provider_unpublish_initdata(d)}
    BY Zenon DEF provider_stop_asc
  <2>2. PICK u \in provider_unpublish_initdata(d) : r \in rest(u)
    <3> HIDE DEF rest
    <3> QED
      BY <2>1
  <2>3. u.ok => \E s \in stops(u.dev) : r \in last(s)
    <3> HIDE DEF stops, last
    <3> QED
      BY <2>2
  <2> HIDE DEF gone, stops
  <2> QED
    BY <2>2, <2>3
<1> HIDE DEF gone, stops, last, rest
<1>2. Unpublished(d, u)
  BY UnpublishInitdata
<1>3. u.dev \in Device /\ Coherent(u.dev)
  BY <1>2 DEF Unpublished, Outcome
<1>4. CASE ~u.ok /\ r = u
  BY <1>2, <1>4 DEF Unpublished, AscStopped
<1>5. ASSUME u.ok, NEW s \in stops(u.dev)
      PROVE  /\ Outcome(s) /\ s.dev.prov = u.dev.prov
             /\ s.dev.Locked = u.dev.Locked /\ s.dev.roots = u.dev.roots
             /\ s.ok => ~s.dev.running
             /\ ~s.ok => s.fault
  <2>1. CASE "asc" \in u.dev.prov
    BY <1>3, <2>1, StopCoprocessor DEF stops
  <2>2. CASE "asc" \notin u.dev.prov
    <3>1. s = Ok(u.dev)
      BY <2>2 DEF stops
    <3>2. Outcome(s) /\ s.ok = TRUE /\ s.dev = u.dev
      BY Zenon, <1>3, <3>1, Answers, AnswerOutcome
    <3>3. ~u.dev.running
      BY <1>3, <2>2 DEF Coherent
    <3> QED
      BY <3>2, <3>3
  <2> QED
    BY <2>1, <2>2
<1>6. ASSUME u.ok, NEW s \in stops(u.dev), ~s.ok, r = s
      PROVE  AscStopped(d, r)
  BY <1>2, <1>5, <1>6 DEF Unpublished, AscStopped
<1>7. ASSUME u.ok, NEW s \in stops(u.dev), s.ok,
             r \in provider_unpublish_initdata(gone(s.dev))
      PROVE  AscStopped(d, r)
  <2>1. s.dev \in Device /\ Coherent(s.dev)
    BY <1>5, <1>7 DEF Outcome
  <2>2. s.dev.prov \ {"asc", "fwep", "dbep"} \in SUBSET Bit
    BY <2>1 DEF Device
  <2>3. PICK e : e = gone(s.dev)
    OBVIOUS
  <2>4. /\ e \in Device
        /\ e.prov = s.dev.prov \ {"asc", "fwep", "dbep"}
        /\ e.Locked = s.dev.Locked /\ e.powered = s.dev.powered
        /\ e.prepared = s.dev.prepared /\ e.roots = s.dev.roots
        /\ e.running = s.dev.running
    BY <2>1, <2>2, <2>3, SetProv DEF gone
  <2>5. Coherent(e)
    BY <1>5, <1>7, <2>1, <2>4 DEF Coherent
  <2>6. Unpublished(e, r)
    BY <1>7, <2>3, <2>4, <2>5, UnpublishInitdata
  <2>7. /\ u.dev.prov \subseteq d.prov
        /\ u.dev.prov \ {"published"} = d.prov \ {"published"}
        /\ ~u.dev.Locked
        /\ d.roots = "uncertain" => u.dev.roots = "uncertain"
    BY <1>2, <1>7 DEF Unpublished
  <2>8. /\ s.dev.prov = u.dev.prov /\ s.dev.Locked = u.dev.Locked
        /\ s.dev.roots = u.dev.roots
    BY <1>5, <1>7
  <2>9. /\ r.dev.prov \subseteq e.prov
        /\ r.dev.prov \cap {"power", "uat"} = e.prov \cap {"power", "uat"}
        /\ "asc" \notin r.dev.prov
    BY <2>4, <2>6 DEF Unpublished
  <2>10. r.dev.prov \cap {"power", "uat"} = d.prov \cap {"power", "uat"}
    BY <2>4, <2>7, <2>8, <2>9
  <2> QED
    BY <2>4, <2>6, <2>7, <2>8, <2>9, <2>10 DEF Unpublished, AscStopped
<1> QED
  BY <1>1, <1>4, <1>6, <1>7

\* provider_destroy_uat takes the tables away only when neither the ASC nor
\* published roots stand on them.
LEMMA DestroyUat ==
    ASSUME NEW d \in Device, Coherent(d), NEW r \in provider_destroy_uat(d)
    PROVE  /\ Outcome(r)
           /\ r.dev.Locked = d.Locked
           /\ r.ok => /\ "uat" \in d.prov /\ d.prov \cap {"asc", "published"} = {}
                      /\ d.roots # "uncertain"
                      /\ r.dev.prov = d.prov \ {"uat"}
           /\ ~r.ok => r.dev.prov = d.prov
           /\ d.roots = "uncertain" => r.dev.roots = "uncertain"
           /\ ~r.ok /\ ~r.fault => \/ "uat" \notin d.prov
                                   \/ d.prov \cap {"asc", "published"} # {}
                                   \/ r.dev.roots = "uncertain"
<1> DEFINE n == [d EXCEPT !.roots = "none"]
           e == [d EXCEPT !.prov = @ \ {"uat"}]
           f == [e EXCEPT !.prepared = FALSE]
           g == [f EXCEPT !.roots = "none"]
           blocked == \/ "uat" \notin d.prov \/ d.prov \cap {"asc", "published"} # {}
                      \/ d.roots = "uncertain"
<1>0. d.prov \ {"uat"} \in SUBSET Bit
  BY DEF Device
<1>1. \/ r = Refuse(d) /\ blocked
      \/ r \in {Ok(g), Fail(d), Fail(n)} /\ ~blocked
  <2>1. g = [d EXCEPT !.prov = @ \ {"uat"}, !.prepared = FALSE, !.roots = "none"]
    OBVIOUS
  <2> HIDE DEF g
  <2> QED
    BY <2>1 DEF provider_destroy_uat
<1>2. /\ n = [d EXCEPT !.roots = "none"]
      /\ e = [d EXCEPT !.prov = @ \ {"uat"}]
      /\ f = [e EXCEPT !.prepared = FALSE]
      /\ g = [f EXCEPT !.roots = "none"]
  OBVIOUS
<1> HIDE DEF n, e, f, g
<1>3. /\ n \in Device
      /\ n.roots = "none" /\ n.prov = d.prov /\ n.Locked = d.Locked
      /\ n.powered = d.powered /\ n.prepared = d.prepared /\ n.running = d.running
  BY <1>2, SetRoots
<1>4. /\ e \in Device
      /\ e.prov = d.prov \ {"uat"} /\ e.Locked = d.Locked
      /\ e.powered = d.powered /\ e.running = d.running
  BY <1>0, <1>2, SetProv
<1>5. /\ f \in Device
      /\ f.prov = d.prov \ {"uat"} /\ f.Locked = d.Locked
      /\ f.powered = d.powered /\ f.running = d.running
  BY <1>2, <1>4, SetPrepared
<1>6. /\ g \in Device
      /\ g.prov = d.prov \ {"uat"} /\ g.Locked = d.Locked
      /\ g.powered = d.powered /\ g.running = d.running /\ g.roots = "none"
  BY <1>2, <1>5, SetRoots
<1>7. CASE r = Refuse(d) /\ blocked
  <2>1. Outcome(r) /\ r.ok = FALSE /\ r.dev = d
    BY Zenon, <1>7, Answers, AnswerOutcome
  <2> QED
    BY <1>7, <2>1
<1>8. CASE r = Ok(g) /\ ~blocked
  <2>1. Coherent(g)
    BY <1>6, <1>8 DEF Coherent
  <2>2. Outcome(r) /\ r.ok = TRUE /\ r.dev = g
    BY Zenon, <1>6, <1>8, <2>1, Answers, AnswerOutcome
  <2> QED
    BY <1>6, <1>8, <2>2
<1>9. CASE r = Fail(d)
  <2>1. Outcome(r) /\ r.ok = FALSE /\ r.fault = TRUE /\ r.dev = d
    BY Zenon, <1>9, Answers, AnswerOutcome
  <2> QED
    BY <2>1
<1>10. CASE r = Fail(n) /\ ~blocked
  <2>1. Coherent(n)
    BY <1>3, <1>10 DEF Coherent
  <2>2. Outcome(r) /\ r.ok = FALSE /\ r.fault = TRUE /\ r.dev = n
    BY Zenon, <1>3, <1>10, <2>1, Answers, AnswerOutcome
  <2> QED
    BY <1>3, <1>10, <2>2
<1> QED
  BY <1>1, <1>7, <1>8, <1>9, <1>10

\* provider_power_off cuts the power only when nothing else is owned.
LEMMA PowerOff ==
    ASSUME NEW d \in Device, Coherent(d), NEW r \in provider_power_off(d)
    PROVE  /\ Outcome(r)
           /\ r.dev.Locked = d.Locked /\ r.dev.roots = d.roots
           /\ r.ok => d.prov = {"power"} /\ r.dev.prov = {}
           /\ ~r.ok => r.dev = d
           /\ ~r.ok /\ ~r.fault => d.prov # {"power"}
<1> DEFINE p == [d EXCEPT !.prov = {}]
           e == [p EXCEPT !.powered = FALSE]
<1>1. \/ r = Refuse(d) /\ d.prov # {"power"}
      \/ r = Ok(e) /\ d.prov = {"power"}
      \/ r = Fail(d)
  BY DEF provider_power_off, Coherent
<1>2. p = [d EXCEPT !.prov = {}] /\ e = [p EXCEPT !.powered = FALSE]
  OBVIOUS
<1> HIDE DEF p, e
<1>3. /\ p \in Device /\ p.prov = {} /\ p.Locked = d.Locked
      /\ p.prepared = d.prepared /\ p.roots = d.roots /\ p.running = d.running
  BY <1>2, SetProv
<1>4. /\ e \in Device /\ e.prov = {} /\ e.Locked = d.Locked /\ e.powered = FALSE
      /\ e.prepared = d.prepared /\ e.roots = d.roots /\ e.running = d.running
  BY <1>2, <1>3, SetPowered
<1>5. CASE r = Refuse(d) /\ d.prov # {"power"}
  <2>1. Outcome(r) /\ r.ok = FALSE /\ r.dev = d
    BY Zenon, <1>5, Answers, AnswerOutcome
  <2> QED
    BY <1>5, <2>1
<1>6. CASE r = Ok(e) /\ d.prov = {"power"}
  <2>1. Coherent(e)
    BY <1>4, <1>6 DEF Coherent
  <2>2. Outcome(r) /\ r.ok = TRUE /\ r.dev = e
    BY Zenon, <1>4, <1>6, <2>1, Answers, AnswerOutcome
  <2> QED
    BY <1>4, <1>6, <2>2
<1>7. CASE r = Fail(d)
  <2>1. Outcome(r) /\ r.ok = FALSE /\ r.fault = TRUE /\ r.dev = d
    BY Zenon, <1>7, Answers, AnswerOutcome
  <2> QED
    BY <2>1
<1> QED
  BY <1>1, <1>5, <1>6, <1>7

\* The two orders of operations, element by element.
LEMMA OpsFacts ==
    /\ Len(StartOps) = 9 /\ DOMAIN StartOps = 1 .. 9
    /\ StartOps[1] = "power" /\ StartOps[2] = "uat" /\ StartOps[3] = "asc"
    /\ StartOps[4] = "fwep" /\ StartOps[5] = "dbep" /\ StartOps[6] = "initdata"
    /\ StartOps[7] = "sent" /\ StartOps[8] = "devctl" /\ StartOps[9] = "idle"
    /\ Op = {"power", "uat", "asc", "fwep", "dbep", "initdata", "sent", "devctl", "idle"}
    /\ Len(CleanupOps) = 6 /\ DOMAIN CleanupOps = 1 .. 6
    /\ CleanupOps[1] = "initdata" /\ CleanupOps[2] = "dbep" /\ CleanupOps[3] = "fwep"
    /\ CleanupOps[4] = "asc" /\ CleanupOps[5] = "uat" /\ CleanupOps[6] = "power"
<1>1. /\ Len(StartOps) = 9 /\ DOMAIN StartOps = 1 .. 9
      /\ StartOps[1] = "power" /\ StartOps[2] = "uat" /\ StartOps[3] = "asc"
      /\ StartOps[4] = "fwep" /\ StartOps[5] = "dbep" /\ StartOps[6] = "initdata"
      /\ StartOps[7] = "sent" /\ StartOps[8] = "devctl" /\ StartOps[9] = "idle"
  BY DEF StartOps
<1>2. /\ Len(CleanupOps) = 6 /\ DOMAIN CleanupOps = 1 .. 6
      /\ CleanupOps[1] = "initdata" /\ CleanupOps[2] = "dbep" /\ CleanupOps[3] = "fwep"
      /\ CleanupOps[4] = "asc" /\ CleanupOps[5] = "uat" /\ CleanupOps[6] = "power"
  BY DEF CleanupOps
<1>3. 1 .. 9 = {1, 2, 3, 4, 5, 6, 7, 8, 9}
  OBVIOUS
<1>4. Op = {"power", "uat", "asc", "fwep", "dbep", "initdata", "sent", "devctl", "idle"}
  BY <1>1, <1>3 DEF Op
<1> QED
  BY <1>1, <1>2, <1>4

\* The bits of the two endpoints, and those below the ASC.
Endpoints == {"fwep", "dbep"}
Base      == {"power", "uat"}

\* How the cleanup of one operation can end: nothing is acquired, a success
\* removes exactly what it undid, and a refusal has one of four reasons.
Undone(op, d, r) ==
    /\ Outcome(r)
    /\ r.dev.prov \subseteq d.prov
    /\ r.dev.prov \cap {"asc", "published"} # {} \/ r.dev.Locked
         => d.prov \cap {"asc", "published"} # {} \/ d.Locked
    /\ r.ok => /\ op \in Endpoints \cup Base => op \in d.prov
               /\ op = "asc" => r.dev.prov \cap {"asc", "published"} = {} /\ ~r.dev.Locked
               /\ op = "power" => r.dev.prov = {}
    /\ d.roots = "uncertain" => r.dev.roots = "uncertain"
    /\ r.dev.prov \cap Base = IF r.ok THEN (d.prov \cap Base) \ {op} ELSE d.prov \cap Base
    /\ ~r.ok /\ ~r.fault =>
         \/ r.dev.roots = "uncertain"
         \/ op \in Endpoints \cup Base /\ op \notin d.prov
         \/ op = "uat" /\ d.prov \cap {"asc", "published"} # {}
         \/ op = "power" /\ d.prov # {"power"}

\* The cleanup of each operation ends as Undone says.
LEMMA CleanupCallOutcome ==
    ASSUME NEW d \in Device, Coherent(d),
           NEW op \in {"initdata", "dbep", "fwep", "asc", "uat", "power"},
           NEW r \in CleanupCall(op, d)
    PROVE  Undone(op, d, r)
<1>1. CASE op = "initdata"
  <2>1. Unpublished(d, r)
    BY <1>1, UnpublishInitdata DEF CleanupCall
  <2>2. r.dev.prov \cap Base = d.prov \cap Base
    BY <2>1 DEF Unpublished, Base
  <2>3. (d.prov \cap Base) \ {op} = d.prov \cap Base
    BY <1>1 DEF Base
  <2>4. r.dev.prov \cap {"asc", "published"} # {} \/ r.dev.Locked
         => d.prov \cap {"asc", "published"} # {} \/ d.Locked
    BY <2>1 DEF Unpublished
  <2> QED
    BY <1>1, <2>1, <2>2, <2>3, <2>4 DEF Unpublished, Undone, Base, Endpoints
<1>2. CASE op \in Endpoints
  <2>1. r \in provider_stop_endpoint(d, op)
    BY <1>2 DEF CleanupCall, Endpoints
  <2>2. /\ Outcome(r)
        /\ r.dev.Locked = d.Locked /\ r.dev.roots = d.roots
        /\ r.ok => op \in d.prov /\ r.dev.prov = d.prov \ {op}
        /\ ~r.ok => r.dev = d
        /\ ~r.ok /\ ~r.fault => op \notin d.prov
    BY <1>2, <2>1, StopEndpoint DEF Endpoints
  <2>3. r.dev.prov \subseteq d.prov
    BY <2>2
  <2>4. r.dev.prov \cap Base = d.prov \cap Base
    BY <1>2, <2>2 DEF Base, Endpoints
  <2>5. (d.prov \cap Base) \ {op} = d.prov \cap Base
    BY <1>2 DEF Base, Endpoints
  <2> QED
    BY <1>2, <2>2, <2>3, <2>4, <2>5 DEF Undone, Endpoints
<1>3. CASE op = "asc"
  <2>1. AscStopped(d, r)
    BY <1>3, StopAscOutcome DEF CleanupCall
  <2>2. (d.prov \cap Base) \ {op} = d.prov \cap Base
    BY <1>3 DEF Base
  <2>3. r.dev.prov \cap {"asc", "published"} # {} \/ r.dev.Locked
         => d.prov \cap {"asc", "published"} # {} \/ d.Locked
    BY <2>1 DEF AscStopped
  <2> QED
    BY <1>3, <2>1, <2>2, <2>3 DEF AscStopped, Undone, Base, Endpoints
<1>4. CASE op = "uat"
  <2>1. r \in provider_destroy_uat(d)
    BY <1>4 DEF CleanupCall
  <2>2. /\ Outcome(r)
        /\ r.dev.Locked = d.Locked
        /\ r.ok => /\ "uat" \in d.prov /\ d.prov \cap {"asc", "published"} = {}
                   /\ d.roots # "uncertain"
                   /\ r.dev.prov = d.prov \ {"uat"}
        /\ ~r.ok => r.dev.prov = d.prov
        /\ d.roots = "uncertain" => r.dev.roots = "uncertain"
        /\ ~r.ok /\ ~r.fault => \/ "uat" \notin d.prov
                                \/ d.prov \cap {"asc", "published"} # {}
                                \/ r.dev.roots = "uncertain"
    BY <2>1, DestroyUat
  <2>3. r.dev.prov \subseteq d.prov
    BY <2>2
  <2>4. r.dev.prov \cap Base = IF r.ok THEN (d.prov \cap Base) \ {op} ELSE d.prov \cap Base
    BY <1>4, <2>2
  <2> QED
    BY <1>4, <2>2, <2>3, <2>4 DEF Undone, Endpoints, Base
<1>5. CASE op = "power"
  <2>1. r \in provider_power_off(d)
    BY <1>5 DEF CleanupCall
  <2>2. /\ Outcome(r)
        /\ r.dev.Locked = d.Locked /\ r.dev.roots = d.roots
        /\ r.ok => d.prov = {"power"} /\ r.dev.prov = {}
        /\ ~r.ok => r.dev = d
        /\ ~r.ok /\ ~r.fault => d.prov # {"power"}
    BY <2>1, PowerOff
  <2>3. r.dev.prov \subseteq d.prov
    BY <2>2
  <2>4. r.dev.prov \cap Base = IF r.ok THEN (d.prov \cap Base) \ {op} ELSE d.prov \cap Base
    BY <1>5, <2>2
  <2> QED
    BY <1>5, <2>2, <2>3, <2>4 DEF Undone, Endpoints, Base
<1> QED
  BY <1>1, <1>2, <1>3, <1>4, <1>5 DEF Endpoints

-----------------------------------------------------------------------------
(* The steps.                                                              *)

\* The two parts make up the type invariant.
LEMMA Types == Words /\ Flags => TypeOK
<1>1. Words /\ Flags /\ at \in 1 .. Len(StartOps) => TypeOK
  BY Zenon DEF TypeOK, Words, Flags
<1> QED
  BY <1>1, OpsFacts DEF Words

\* The driver starts in the invariant.
LEMMA InitInv == Init => IInv
<1> SUFFICES ASSUME Init PROVE IInv
  OBVIOUS
<1>1. Words
  BY DEF Init, Words
<1>2. dev \in Device
  BY Zenon DEF Init, Device
<1>3. Flags
  BY Zenon, <1>2 DEF Init, Flags
<1>4. Order
  BY DEF Init, Order, Coherent, Recorded, Control, FreedQuiet, RetryCleans,
         RetryFrees, Quiet
<1> QED
  BY <1>1, <1>3, <1>4 DEF IInv

\* StartDevice enters with a quiet device.
LEMMA StartDeviceStep == IInv /\ StartDevice => IInv'
<1> SUFFICES ASSUME IInv, StartDevice PROVE IInv'
  OBVIOUS
<1>0. Words /\ Flags /\ Order
  BY DEF IInv
<1>1. Words'
  BY <1>0, OpsFacts DEF Words, StartDevice, masks, backend, owners
<1>2. Flags'
  BY Zenon, <1>0 DEF Flags, StartDevice, masks, backend, owners
<1>3. Coherent(dev)' /\ Recorded' /\ FreedQuiet'
  BY <1>0
     DEF Words, Order, Coherent, Recorded, Control, FreedQuiet, Quiet,
         StartDevice, masks, backend, owners
<1>4. Control'
  BY <1>0, OpsFacts
     DEF Words, Order, Recorded, Control, Quiet, FreedQuiet, StartDevice,
         masks, backend, owners
<1>5. RetryCleans'
  BY <1>0
     DEF Words, Order, Control, RetryCleans, CleanRetry, RecordDiffers,
         RolledBack, StartDevice, masks, backend, owners
<1>6. RetryFrees'
  BY <1>0
     DEF Words, Order, Control, RetryFrees, RetryCleans, CleanRetry,
         RecordDiffers, StartDevice, masks, backend, owners
<1> QED
  BY <1>1, <1>2, <1>3, <1>4, <1>5, <1>6 DEF IInv, Order

\* Mapping the arena clears both masks, of a quiet device.
LEMMA MapArenaStep == IInv /\ MapArena => IInv'
<1> SUFFICES ASSUME IInv, MapArena PROVE IInv'
  OBVIOUS
<1>0. Words /\ Flags /\ Order
  BY DEF IInv
<1>1. Words'
  BY <1>0, OpsFacts DEF Words, MapArena, masks, backend, owners
<1>2. Flags'
  BY Zenon, <1>0 DEF Flags, MapArena, masks, backend, owners
<1>3. Coherent(dev)' /\ Recorded' /\ FreedQuiet'
  BY <1>0
     DEF Words, Order, Coherent, Recorded, Control, FreedQuiet, Quiet,
         MapArena, masks, backend, owners
<1>4. Control'
  <2>1. at' = 1 /\ CompletedMask' = {StartOps[i] : i \in 1 .. at' - 1}
    BY DEF MapArena
  <2> QED
    BY <1>0, <2>1
       DEF Words, Order, Control, FreedQuiet, MapArena, masks, backend, owners
<1>5. RetryCleans'
  BY <1>0
     DEF Words, Order, Control, RetryCleans, CleanRetry, RecordDiffers,
         RolledBack, MapArena, masks, backend, owners
<1>6. RetryFrees'
  BY <1>0
     DEF Words, Order, Control, RetryFrees, RetryCleans, CleanRetry,
         RecordDiffers, MapArena, masks, backend, owners
<1> QED
  BY <1>1, <1>2, <1>3, <1>4, <1>5, <1>6 DEF IInv, Order

\* Creating the queues touches neither device nor record.
LEMMA CreateQueuesStep == IInv /\ CreateQueues => IInv'
<1> SUFFICES ASSUME IInv, CreateQueues PROVE IInv'
  OBVIOUS
<1>0. Words /\ Flags /\ Order
  BY DEF IInv
<1>1. Words'
  BY <1>0, OpsFacts DEF Words, CreateQueues, masks, backend, owners
<1>2. Flags'
  BY Zenon, <1>0 DEF Flags, CreateQueues, masks, backend, owners
<1>3. Coherent(dev)' /\ Recorded' /\ FreedQuiet'
  BY <1>0
     DEF Words, Order, Coherent, Recorded, Control, FreedQuiet, Quiet,
         CreateQueues, masks, backend, owners
<1>4. Control'
  BY <1>0, OpsFacts
     DEF Words, Order, Recorded, Control, Quiet, FreedQuiet, CreateQueues,
         masks, backend, owners
<1>5. RetryCleans'
  BY <1>0
     DEF Words, Order, Control, RetryCleans, CleanRetry, RecordDiffers,
         RolledBack, CreateQueues, masks, backend, owners
<1>6. RetryFrees'
  BY <1>0
     DEF Words, Order, Control, RetryFrees, RetryCleans, CleanRetry,
         RecordDiffers, CreateQueues, masks, backend, owners
<1> QED
  BY <1>1, <1>2, <1>3, <1>4, <1>5, <1>6 DEF IInv, Order

\* The later stages touch neither device nor record.
LEMMA LaterStagesStep == IInv /\ LaterStages => IInv'
<1> SUFFICES ASSUME IInv, LaterStages PROVE IInv'
  OBVIOUS
<1>0. Words /\ Flags /\ Order
  BY DEF IInv
<1>1. Words'
  BY <1>0, OpsFacts DEF Words, LaterStages, masks, backend, owners
<1>2. Flags'
  BY Zenon, <1>0 DEF Flags, LaterStages, masks, backend, owners
<1>3. Coherent(dev)' /\ Recorded' /\ FreedQuiet'
  BY <1>0
     DEF Words, Order, Coherent, Recorded, Control, FreedQuiet, Quiet,
         LaterStages, masks, backend, owners
<1>4. Control'
  BY <1>0, OpsFacts
     DEF Words, Order, Recorded, Control, Quiet, FreedQuiet, LaterStages,
         masks, backend, owners
<1>5. RetryCleans'
  BY <1>0
     DEF Words, Order, Control, RetryCleans, CleanRetry, RecordDiffers,
         RolledBack, LaterStages, masks, backend, owners
<1>6. RetryFrees'
  BY <1>0
     DEF Words, Order, Control, RetryFrees, RetryCleans, CleanRetry,
         RecordDiffers, LaterStages, masks, backend, owners
<1> QED
  BY <1>1, <1>2, <1>3, <1>4, <1>5, <1>6 DEF IInv, Order

\* The rollback drops the three operations that own nothing.
LEMMA RollbackBeginStep == IInv /\ RollbackBegin => IInv'
<1> SUFFICES ASSUME IInv, RollbackBegin PROVE IInv'
  OBVIOUS
<1>0. Words /\ Flags /\ Order
  BY DEF IInv
<1>1. Words'
  BY <1>0, OpsFacts
     DEF Words, RollbackBegin, masks, backend, owners, Observation
<1>2. Flags'
  BY Zenon, <1>0 DEF Flags, RollbackBegin, masks, backend, owners, Observation
<1>3. Coherent(dev)' /\ Recorded' /\ FreedQuiet'
  BY <1>0
     DEF Words, Order, Coherent, Recorded, Control, FreedQuiet, Quiet,
         RollbackBegin, masks, backend, owners, Observation
<1>4. Control'
  BY <1>0, OpsFacts
     DEF Words, Order, Recorded, Control, Quiet, FreedQuiet, RollbackBegin,
         masks, backend, owners, Observation
<1>5. RetryCleans'
  BY <1>0
     DEF Words, Order, Control, RetryCleans, CleanRetry, RecordDiffers,
         RolledBack, RollbackBegin, masks, backend, owners, Observation
<1>6. RetryFrees'
  BY <1>0
     DEF Words, Order, Control, RetryFrees, RetryCleans, CleanRetry,
         RecordDiffers, RollbackBegin, masks, backend, owners, Observation
<1> QED
  BY <1>1, <1>2, <1>3, <1>4, <1>5, <1>6 DEF IInv, Order

\* The three callers of the rollback take its answer.
LEMMA RollbackReturnsStep == IInv /\ RollbackReturns => IInv'
<1> SUFFICES ASSUME IInv, RollbackReturns PROVE IInv'
  OBVIOUS
<1>0. Words /\ Flags /\ Order
  BY DEF IInv
<1>1. Words'
  BY <1>0, OpsFacts
     DEF Words, Order, Control, RollbackReturns, masks, backend, owners,
         RolledBack, GiveUp
<1>2. Flags'
  BY Zenon, <1>0
     DEF Flags, RollbackReturns, masks, backend, owners, RolledBack, GiveUp
<1>3. Coherent(dev)' /\ Recorded' /\ FreedQuiet'
  BY <1>0
     DEF Words, Order, Coherent, Recorded, Control, FreedQuiet, Quiet,
         RollbackReturns, masks, backend, owners, RolledBack, GiveUp
<1>4. Control'
  BY <1>0, OpsFacts
     DEF Words, Order, Recorded, Control, Quiet, FreedQuiet, RollbackReturns,
         masks, backend, owners, RolledBack, GiveUp
<1>5. RetryCleans'
  BY <1>0
     DEF Words, Order, Control, RetryCleans, CleanRetry, RecordDiffers,
         RolledBack, RollbackReturns, masks, backend, owners, GiveUp
<1>6. RetryFrees'
  BY <1>0
     DEF Words, Order, Control, RetryFrees, RetryCleans, CleanRetry,
         RecordDiffers, RollbackReturns, masks, backend, owners, RolledBack,
         GiveUp
<1> QED
  BY <1>1, <1>2, <1>3, <1>4, <1>5, <1>6 DEF IInv, Order

\* StartRollback passes over the firmware only without a completed operation.
LEMMA StartRollbackStep == IInv /\ StartRollback => IInv'
<1> SUFFICES ASSUME IInv, StartRollback PROVE IInv'
  OBVIOUS
<1>0. Words /\ Flags /\ Order
  BY DEF IInv
<1>1. Words'
  BY <1>0, OpsFacts DEF Words, StartRollback, masks, backend, owners
<1>2. Flags'
  BY Zenon, <1>0 DEF Flags, StartRollback, masks, backend, owners
<1>3. Coherent(dev)' /\ Recorded' /\ FreedQuiet'
  BY <1>0
     DEF Words, Order, Coherent, Recorded, Control, FreedQuiet, Quiet,
         StartRollback, masks, backend, owners
<1>4. Control'
  BY <1>0, OpsFacts
     DEF Words, Order, Recorded, Control, Quiet, FreedQuiet, StartRollback,
         masks, backend, owners
<1>5. RetryCleans'
  BY <1>0
     DEF Words, Order, Control, RetryCleans, CleanRetry, RecordDiffers,
         RolledBack, StartRollback, masks, backend, owners
<1>6. RetryFrees'
  BY <1>0
     DEF Words, Order, Control, RetryFrees, RetryCleans, CleanRetry,
         RecordDiffers, StartRollback, masks, backend, owners
<1> QED
  BY <1>1, <1>2, <1>3, <1>4, <1>5, <1>6 DEF IInv, Order

\* Unmapping the arena, and giving up when the image is gone.
LEMMA UnmapArenaStep == IInv /\ UnmapArena => IInv'
<1> SUFFICES ASSUME IInv, UnmapArena PROVE IInv'
  OBVIOUS
<1>0. Words /\ Flags /\ Order
  BY DEF IInv
<1>1. Words'
  BY <1>0, OpsFacts DEF Words, UnmapArena, masks, backend, owners, GiveUp
<1>2. Flags'
  BY Zenon, <1>0 DEF Flags, UnmapArena, masks, backend, owners, GiveUp
<1>3. Coherent(dev)' /\ Recorded' /\ FreedQuiet'
  BY <1>0
     DEF Words, Order, Coherent, Recorded, Control, FreedQuiet, Quiet,
         UnmapArena, masks, backend, owners, GiveUp
<1>4. Control'
  BY <1>0, OpsFacts
     DEF Words, Order, Recorded, Control, Quiet, FreedQuiet, UnmapArena, masks,
         backend, owners, GiveUp
<1>5. RetryCleans'
  BY <1>0
     DEF Words, Order, Control, RetryCleans, CleanRetry, RecordDiffers,
         RolledBack, UnmapArena, masks, backend, owners, GiveUp
<1>6. RetryFrees'
  BY <1>0
     DEF Words, Order, Control, RetryFrees, RetryCleans, CleanRetry,
         RecordDiffers, UnmapArena, masks, backend, owners, GiveUp
<1> QED
  BY <1>1, <1>2, <1>3, <1>4, <1>5, <1>6 DEF IInv, Order

\* AdmissionPlatformDestroy looks at the phase only.
LEMMA PlatformDestroyStep == IInv /\ PlatformDestroy => IInv'
<1> SUFFICES ASSUME IInv, PlatformDestroy PROVE IInv'
  OBVIOUS
<1>0. Words /\ Flags /\ Order
  BY DEF IInv
<1>1. Words'
  BY <1>0, OpsFacts DEF Words, PlatformDestroy, masks, backend, owners
<1>2. Flags'
  BY Zenon, <1>0 DEF Flags, PlatformDestroy, masks, backend, owners
<1>3. Coherent(dev)' /\ Recorded' /\ FreedQuiet'
  BY <1>0
     DEF Words, Order, Coherent, Recorded, Control, FreedQuiet, Quiet,
         PlatformDestroy, masks, backend, owners
<1>4. Control'
  BY <1>0, OpsFacts
     DEF Words, Order, Recorded, Control, Quiet, FreedQuiet, PlatformDestroy,
         masks, backend, owners
<1>5. RetryCleans'
  BY <1>0
     DEF Words, Order, Control, RetryCleans, CleanRetry, RecordDiffers,
         RolledBack, PlatformDestroy, masks, backend, owners
<1>6. RetryFrees'
  BY <1>0
     DEF Words, Order, Control, RetryFrees, RetryCleans, CleanRetry,
         RecordDiffers, PlatformDestroy, masks, backend, owners
<1> QED
  BY <1>1, <1>2, <1>3, <1>4, <1>5, <1>6 DEF IInv, Order

\* Destroying the queues touches neither device nor record.
LEMMA DestroyQueuesStep == IInv /\ DestroyQueues => IInv'
<1> SUFFICES ASSUME IInv, DestroyQueues PROVE IInv'
  OBVIOUS
<1>0. Words /\ Flags /\ Order
  BY DEF IInv
<1>1. Words'
  BY <1>0, OpsFacts DEF Words, DestroyQueues, masks, backend, owners, GiveUp
<1>2. Flags'
  BY Zenon, <1>0 DEF Flags, DestroyQueues, masks, backend, owners, GiveUp
<1>3. Coherent(dev)' /\ Recorded' /\ FreedQuiet'
  BY <1>0
     DEF Words, Order, Coherent, Recorded, Control, FreedQuiet, Quiet,
         DestroyQueues, masks, backend, owners, GiveUp
<1>4. Control'
  BY <1>0, OpsFacts
     DEF Words, Order, Recorded, Control, Quiet, FreedQuiet, DestroyQueues,
         masks, backend, owners, GiveUp
<1>5. RetryCleans'
  BY <1>0
     DEF Words, Order, Control, RetryCleans, CleanRetry, RecordDiffers,
         RolledBack, DestroyQueues, masks, backend, owners, GiveUp
<1>6. RetryFrees'
  BY <1>0
     DEF Words, Order, Control, RetryFrees, RetryCleans, CleanRetry,
         RecordDiffers, DestroyQueues, masks, backend, owners, GiveUp
<1> QED
  BY <1>1, <1>2, <1>3, <1>4, <1>5, <1>6 DEF IInv, Order

\* The runtime is freed when the device is quiet; otherwise the retry kept it
\* for one of the reasons that RetryFrees lists.
LEMMA FreeRuntimeStep == IInv /\ FreeRuntime => IInv'
<1> SUFFICES ASSUME IInv, FreeRuntime PROVE IInv'
  OBVIOUS
<1>0. Words /\ Flags /\ Order
  BY DEF IInv
<1>1. Words'
  BY <1>0, OpsFacts DEF Words, FreeRuntime, masks, backend, owners, GiveUp
<1>2. Flags'
  BY Zenon, <1>0 DEF Flags, FreeRuntime, masks, backend, owners, GiveUp
<1>3. Coherent(dev)' /\ Recorded' /\ FreedQuiet'
  BY <1>0
     DEF Words, Order, Coherent, Recorded, Control, FreedQuiet, Quiet,
         FreeRuntime, masks, backend, owners, GiveUp
<1>4. Control'
  BY <1>0, OpsFacts
     DEF Words, Order, Recorded, Control, Quiet, FreedQuiet, FreeRuntime,
         masks, backend, owners, GiveUp
<1>5. RetryCleans'
  BY <1>0
     DEF Words, Order, Control, RetryCleans, CleanRetry, RecordDiffers,
         RolledBack, FreeRuntime, masks, backend, owners, GiveUp
<1>6. RetryFrees'
  <2>1. SUFFICES ASSUME ~Quiet(dev), ~RecordDiffers, dev.roots # "uncertain",
                        dev.prepared => "uat" \in dev.prov
                 PROVE  dev.Locked /\ CleanupMask # {} /\ Phase = "Stopped"
    BY DEF RetryFrees, RecordDiffers, FreeRuntime, masks, backend, owners
  <2>2. CompletedMask = {} /\ (CleanupMask = {} \/ Phase = "Stopped")
    BY <1>0 DEF Order, Control, FreeRuntime
  <2>3. dev.prov \cap {"power", "uat"} = {}
    BY <2>1, <2>2 DEF RecordDiffers
  <2>4. dev.prov = {} /\ ~dev.prepared /\ dev.roots = "none"
    BY <1>0, <2>1, <2>3 DEF Flags, Order, Coherent, Device, Bit
  <2>5. dev.Locked
    BY <2>1, <2>4 DEF Quiet
  <2> QED
    BY <1>0, <2>2, <2>5 DEF Order, Recorded
<1> QED
  BY <1>1, <1>2, <1>3, <1>4, <1>5, <1>6 DEF IInv, Order

\* The image and the memory runtime go after the platform runtime.
LEMMA ReleaseStep == IInv /\ Release => IInv'
<1> SUFFICES ASSUME IInv, Release PROVE IInv'
  OBVIOUS
<1>0. Words /\ Flags /\ Order
  BY DEF IInv
<1>1. Words'
  BY <1>0, OpsFacts DEF Words, Release, masks, backend, owners
<1>2. Flags'
  BY Zenon, <1>0 DEF Flags, Release, masks, backend, owners
<1>3. Coherent(dev)' /\ Recorded' /\ FreedQuiet'
  BY <1>0
     DEF Words, Order, Coherent, Recorded, Control, FreedQuiet, Quiet, Release,
         masks, backend, owners
<1>4. Control'
  BY <1>0, OpsFacts
     DEF Words, Order, Recorded, Control, Quiet, FreedQuiet, Release, masks,
         backend, owners
<1>5. RetryCleans'
  BY <1>0
     DEF Words, Order, Control, RetryCleans, CleanRetry, RecordDiffers,
         RolledBack, Release, masks, backend, owners
<1>6. RetryFrees'
  BY <1>0
     DEF Words, Order, Control, RetryFrees, RetryCleans, CleanRetry,
         RecordDiffers, Release, masks, backend, owners
<1> QED
  BY <1>1, <1>2, <1>3, <1>4, <1>5, <1>6 DEF IInv, Order

\* StopDevice begins a retry.
LEMMA StopDeviceStep == IInv /\ StopDevice => IInv'
<1> SUFFICES ASSUME IInv, StopDevice PROVE IInv'
  OBVIOUS
<1>0. Words /\ Flags /\ Order
  BY DEF IInv
<1>1. Words'
  BY <1>0, OpsFacts DEF Words, StopDevice, masks, backend, owners, Retry
<1>2. Flags'
  BY Zenon, <1>0 DEF Flags, StopDevice, masks, backend, owners, Retry
<1>3. Coherent(dev)' /\ Recorded' /\ FreedQuiet'
  BY <1>0
     DEF Words, Order, Coherent, Recorded, Control, FreedQuiet, Quiet,
         StopDevice, masks, backend, owners, Retry
<1>4. Control'
  BY <1>0, OpsFacts
     DEF Words, Order, Recorded, Control, Quiet, FreedQuiet, StopDevice, masks,
         backend, owners, Retry
<1>5. RetryCleans'
  BY <1>0
     DEF Words, Order, Control, RetryCleans, CleanRetry, RecordDiffers,
         RolledBack, StopDevice, masks, backend, owners, Retry
<1>6. RetryFrees'
  BY <1>0
     DEF Words, Order, Control, RetryFrees, RetryCleans, CleanRetry,
         RecordDiffers, StopDevice, masks, backend, owners, Retry
<1> QED
  BY <1>1, <1>2, <1>3, <1>4, <1>5, <1>6 DEF IInv, Order

\* RemoveDevice begins a retry.
LEMMA RemoveDeviceStep == IInv /\ RemoveDevice => IInv'
<1> SUFFICES ASSUME IInv, RemoveDevice PROVE IInv'
  OBVIOUS
<1>0. Words /\ Flags /\ Order
  BY DEF IInv
<1>1. Words'
  BY <1>0, OpsFacts DEF Words, RemoveDevice, masks, backend, owners, Retry
<1>2. Flags'
  BY Zenon, <1>0 DEF Flags, RemoveDevice, masks, backend, owners, Retry
<1>3. Coherent(dev)' /\ Recorded' /\ FreedQuiet'
  BY <1>0
     DEF Words, Order, Coherent, Recorded, Control, FreedQuiet, Quiet,
         RemoveDevice, masks, backend, owners, Retry
<1>4. Control'
  BY <1>0, OpsFacts
     DEF Words, Order, Recorded, Control, Quiet, FreedQuiet, RemoveDevice,
         masks, backend, owners, Retry
<1>5. RetryCleans'
  BY <1>0
     DEF Words, Order, Control, RetryCleans, CleanRetry, RecordDiffers,
         RolledBack, RemoveDevice, masks, backend, owners, Retry
<1>6. RetryFrees'
  BY <1>0
     DEF Words, Order, Control, RetryFrees, RetryCleans, CleanRetry,
         RecordDiffers, RemoveDevice, masks, backend, owners, Retry
<1> QED
  BY <1>1, <1>2, <1>3, <1>4, <1>5, <1>6 DEF IInv, Order

\* Quiescing switches the run bit off and nothing else.
LEMMA QuiesceActiveStep == IInv /\ QuiesceActive => IInv'
<1> SUFFICES ASSUME IInv, QuiesceActive PROVE IInv'
  OBVIOUS
<1>0. Words /\ Flags /\ Order
  BY DEF IInv
<1>1. Words'
  BY <1>0 DEF Words, QuiesceActive, masks, backend, owners
<1>2. /\ dev' \in Device
      /\ dev'.running = FALSE /\ dev'.prov = dev.prov /\ dev'.Locked = dev.Locked
      /\ dev'.powered = dev.powered /\ dev'.prepared = dev.prepared
      /\ dev'.roots = dev.roots
  BY <1>0, SetRunning DEF Flags, QuiesceActive
<1>3. Flags'
  BY Zenon, <1>0, <1>2 DEF Flags, QuiesceActive, backend, owners
<1>4. Order'
  BY <1>0, <1>2 DEF Order, Coherent, Recorded, Control, FreedQuiet, Quiet,
     RetryCleans, RetryFrees, QuiesceActive, masks, backend, owners
<1> QED
  BY <1>1, <1>3, <1>4 DEF IInv

\* Stopping the queues may switch the run bit off and nothing else.
LEMMA StopQueuesStep == IInv /\ StopQueues => IInv'
<1> SUFFICES ASSUME IInv, StopQueues PROVE IInv'
  OBVIOUS
<1>0. Words /\ Flags /\ Order
  BY DEF IInv
<1>1. Words'
  BY <1>0 DEF Words, StopQueues, GiveUp, masks, owners
<1> DEFINE Quieter(e) ==
             /\ e \in Device
             /\ e.running => dev.running
             /\ e.prov = dev.prov /\ e.Locked = dev.Locked
             /\ e.powered = dev.powered /\ e.prepared = dev.prepared
             /\ e.roots = dev.roots
<1>2. Quieter(dev')
  <2>1. CASE dev' = dev
    BY <1>0, <2>1 DEF Flags
  <2>2. ASSUME NEW off \in BOOLEAN, dev' = [dev EXCEPT !.running = @ /\ ~off]
        PROVE  Quieter(dev')
    <3>1. (dev.running /\ ~off) \in BOOLEAN
      OBVIOUS
    <3>2. dev'.running = (dev.running /\ ~off)
      BY <1>0, <2>2, <3>1, SetRunning DEF Flags
    <3> QED
      BY <1>0, <2>2, <3>1, <3>2, SetRunning DEF Flags
  <2> QED
    BY <2>1, <2>2 DEF StopQueues
<1>3. Flags'
  BY Zenon, <1>0, <1>2 DEF Flags, StopQueues, owners
<1>4. Coherent(dev)' /\ Recorded' /\ FreedQuiet'
  BY <1>0, <1>2 DEF Order, Coherent, Recorded, FreedQuiet, Quiet, Control,
     StopQueues, masks, owners
<1>5. Control'
  BY <1>0 DEF Order, Control, StopQueues, GiveUp, masks, owners
<1>6. RetryCleans' /\ RetryFrees'
  BY <1>0 DEF Order, RetryCleans, RetryFrees, StopQueues, GiveUp
<1> QED
  BY <1>1, <1>3, <1>4, <1>5, <1>6 DEF IInv, Order

\* One operation of AppleAgxFirmwareStart: the ASC is entered in CleanupMask
\* before the boot can acquire anything, so Recorded survives a boot that
\* fails half way.
LEMMA StartOperationStep == IInv /\ StartOperation => IInv'
<1> SUFFICES ASSUME IInv, StartOperation PROVE IInv'
  OBVIOUS
<1>0. Words /\ Flags /\ Order
  BY DEF IInv
<1>1. PICK r \in StartCall(StartOps[at], dev), late \in BOOLEAN :
         /\ dev' = r.dev
         /\ faulted' = (faulted \/ late \/ r.fault)
         /\ IF InTime(r, late)
              THEN /\ CompletedMask' = CompletedMask \cup {StartOps[at]}
                   /\ at' = IF at = Len(StartOps) THEN 1 ELSE at + 1
                   /\ pc' = IF at = Len(StartOps) THEN "create" ELSE "boot"
                   /\ ret' = ret
              ELSE /\ pc' = "rollback" /\ ret' = "abort" /\ at' = 1
                   /\ CompletedMask' = CompletedMask
  BY DEF StartOperation
<1>2. /\ pc = "boot" /\ at \in 1 .. 9 /\ StartOps[at] \in Op
      /\ Phase = "Starting" /\ PlatformRuntime
      /\ CompletedMask = {StartOps[i] : i \in 1 .. at - 1}
  BY <1>0, OpsFacts DEF Words, Order, Control, StartOperation, Op
<1>3. /\ Outcome(r)
      /\ StartOps[at] # "asc" => /\ r.dev.prov \cap {"asc", "published"}
                                      = dev.prov \cap {"asc", "published"}
                                 /\ r.dev.Locked = dev.Locked
  BY <1>0, <1>2, StartCallOutcome DEF Flags, Order
<1>4. CleanupMask' = IF StartOps[at] = "asc" THEN CleanupMask \cup {"asc"} ELSE CleanupMask
  BY DEF StartOperation, OwedBefore
<1>5. /\ UNCHANGED <<caller, cleanup_failed, Phase, ArenaMapped, ContextPublished,
                     QueuesCreated, QueuesQuiesced, PlatformRuntime, BackendImage,
                     MemoryRuntime>>
      /\ pc' \in {"boot", "create", "rollback"}
  BY <1>1 DEF StartOperation, backend, owners
<1>6. Words'
  BY <1>0, <1>1, <1>2, <1>4, <1>5, OpsFacts DEF Words
<1>7. Flags'
  <2>1. faulted' \in BOOLEAN /\ dev' \in Device
    BY Zenon, <1>0, <1>1, <1>3 DEF Outcome, Flags
  <2> QED
    BY Zenon, <1>0, <1>5, <2>1 DEF Flags
<1>8. Coherent(dev)'
  BY <1>1, <1>3 DEF Outcome
<1>9. Recorded'
  <2>1. CompletedMask \subseteq CompletedMask' /\ CleanupMask \subseteq CleanupMask'
    BY <1>1, <1>4
  <2>2. CASE StartOps[at] # "asc"
    BY <1>0, <1>1, <1>2, <1>3, <1>5, <2>1, <2>2 DEF Order, Recorded
  <2>3. CASE StartOps[at] = "asc"
    <3>1. at = 3
      BY <1>2, <2>3, OpsFacts
    <3>2. "power" \in CompletedMask
      <4>1. 1 \in 1 .. at - 1
        BY <3>1
      <4> QED
        BY <1>2, <4>1, OpsFacts
    <3>3. "asc" \in CleanupMask'
      BY <1>4, <2>3
    <3> QED
      BY <1>2, <1>5, <2>1, <3>2, <3>3 DEF Recorded
  <2> QED
    BY <2>2, <2>3
<1>10. Control'
  <2>1. pc' = "boot" => CompletedMask' = {StartOps[i] : i \in 1 .. at' - 1}
    <3>1. SUFFICES ASSUME pc' = "boot"
                   PROVE  CompletedMask' = {StartOps[i] : i \in 1 .. at' - 1}
      OBVIOUS
    <3>2. at' = at + 1 /\ CompletedMask' = CompletedMask \cup {StartOps[at]}
      BY <1>1, <3>1
    <3>3. 1 .. at' - 1 = (1 .. at - 1) \cup {at}
      BY <1>2, <3>2
    <3> QED
      BY <1>2, <3>2, <3>3
  <2>2. pc' = "rollback" => ret' # "none"
    BY <1>1
  <2> QED
    BY <1>2, <1>5, <2>1, <2>2 DEF Control
<1>11. FreedQuiet' /\ RetryCleans' /\ RetryFrees'
  BY <1>2, <1>5 DEF FreedQuiet, RetryCleans, RetryFrees
<1> QED
  BY <1>6, <1>7, <1>8, <1>9, <1>10, <1>11 DEF IInv, Order

\* One operation of AppleAgxFirmwareRollback.  A bit leaves the masks only
\* when its owner is gone, so Recorded survives every failure; and a retry in
\* which nothing fails is refused by none of the callbacks, because the
\* operations above it in the order are already undone.
LEMMA CleanupOperationStep == IInv /\ CleanupOperation => IInv'
<1> SUFFICES ASSUME IInv, CleanupOperation PROVE IInv'
  OBVIOUS
<1> DEFINE op == CleanupOps[at]
           held == CompletedMask \cup CleanupMask
<1>0. Words /\ Flags /\ Order
  BY DEF IInv
<1>1. /\ pc = "cleanup" /\ at \in 1 .. 6 /\ ret # "none" /\ PlatformRuntime
      /\ op \in {"initdata", "dbep", "fwep", "asc", "uat", "power"}
  BY <1>0, OpsFacts DEF Words, Order, Control, CleanupOperation
<1>2. /\ at' = (IF at = 6 THEN 1 ELSE at + 1)
      /\ pc' = (IF at = 6 THEN "rolled" ELSE "cleanup")
      /\ UNCHANGED <<caller, ret, Phase, ArenaMapped, ContextPublished,
                     QueuesCreated, QueuesQuiesced, PlatformRuntime, BackendImage,
                     MemoryRuntime>>
  BY OpsFacts DEF CleanupOperation, backend, owners
<1>3. Coherent(dev)
  BY <1>0 DEF Order
<1>4. CASE op \notin held
  <2>1. UNCHANGED <<dev, CompletedMask, CleanupMask, cleanup_failed, faulted>>
    BY <1>4 DEF CleanupOperation, masks
  <2>2. Words'
    BY <1>0, <1>1, <1>2, <2>1 DEF Words
  <2>3. Flags'
    BY Zenon, <1>0, <1>2, <2>1 DEF Flags
  <2>4. Coherent(dev)' /\ Recorded' /\ FreedQuiet' /\ Control' /\ RetryFrees'
    BY <1>0, <1>1, <1>2, <2>1, OpsFacts
       DEF Order, Coherent, Recorded, FreedQuiet, Control, RetryFrees, Quiet
  <2>5. CleanRetry' => CleanRetry
    BY <1>2, <2>1 DEF CleanRetry, RecordDiffers
  <2>6. RetryCleans'
    <3>1. ASSUME CleanRetry'
          PROVE  /\ ~cleanup_failed /\ CompletedMask \cap Observation = {}
                 /\ \A i \in 1 .. at : CleanupOps[i] \notin held
      <4>1. /\ ~cleanup_failed /\ CompletedMask \cap Observation = {}
            /\ \A i \in 1 .. at - 1 : CleanupOps[i] \notin held
        BY <1>0, <1>1, <2>5, <3>1 DEF Order, RetryCleans
      <4> QED
        BY <1>1, <1>4, <4>1
    <3>2. ASSUME CleanRetry', pc' = "rolled" PROVE RolledBack'
      <4>1. \A i \in 1 .. 6 : CleanupOps[i] \notin held
        BY <1>1, <1>2, <3>1, <3>2
      <4>2. held \cap {"initdata", "dbep", "fwep", "asc", "uat", "power"} = {}
        BY <4>1, OpsFacts
      <4> QED
        BY <1>0, <2>1, <3>1, <3>2, <4>2, OpsFacts
           DEF Words, RolledBack, Observation
    <3>3. ASSUME pc' = "cleanup" PROVE at' - 1 = at
      BY <1>1, <1>2, <3>3
    <3> QED
      BY <2>1, <3>1, <3>2, <3>3 DEF RetryCleans
  <2> QED
    BY <2>2, <2>3, <2>4, <2>6 DEF IInv, Order
<1>5. CASE op \in held
  <2>1. PICK r \in CleanupCall(op, dev), late \in BOOLEAN :
           /\ dev' = r.dev
           /\ faulted' = (faulted \/ late \/ r.fault)
           /\ IF InTime(r, late)
                THEN /\ CompletedMask' = CompletedMask \ {op}
                     /\ CleanupMask' = CleanupMask \ {op}
                     /\ cleanup_failed' = cleanup_failed
                ELSE /\ cleanup_failed' = TRUE
                     /\ CompletedMask' = CompletedMask /\ CleanupMask' = CleanupMask
    BY <1>5 DEF CleanupOperation, masks
  <2>2. Undone(op, dev, r)
    BY <1>0, <1>1, <1>3, CleanupCallOutcome DEF Flags
  <2>3. CompletedMask' \subseteq CompletedMask /\ CleanupMask' \subseteq CleanupMask
    BY <2>1
  <2>4. Words'
    BY <1>0, <1>1, <1>2, <2>3 DEF Words
  <2>5. Flags'
    <3>1. faulted' \in BOOLEAN /\ dev' \in Device /\ cleanup_failed' \in BOOLEAN
      BY Zenon, <1>0, <2>1, <2>2 DEF Undone, Outcome, Flags
    <3> QED
      BY Zenon, <1>0, <1>2, <3>1 DEF Flags
  <2>6. Coherent(dev)'
    BY <2>1, <2>2 DEF Undone, Outcome
  <2>7. Recorded'
    <3>1. dev'.prov \cap {"asc", "published"} # {} \/ dev'.Locked
            => "asc" \in CompletedMask' \cup CleanupMask'
      BY <1>0, <2>1, <2>2 DEF Order, Recorded, Undone, InTime
    <3>2. "asc" \in dev'.prov => "power" \in CompletedMask'
      BY <1>0, <2>1, <2>2 DEF Order, Recorded, Undone, InTime
    <3> QED
      BY <1>0, <1>2, <2>3, <3>1, <3>2 DEF Order, Recorded
  <2>8. Control' /\ FreedQuiet' /\ RetryFrees'
    BY <1>1, <1>2, OpsFacts DEF Control, FreedQuiet, RetryFrees
  <2>9. ASSUME CleanRetry'
        PROVE  /\ CompletedMask' = CompletedMask \ {op}
               /\ CleanupMask' = CleanupMask \ {op}
               /\ ~cleanup_failed' /\ CompletedMask \cap Observation = {}
               /\ \A i \in 1 .. at - 1 : CleanupOps[i] \notin held
    <3>1. ~faulted /\ ~late /\ ~r.fault
      BY <2>1, <2>9 DEF CleanRetry
    <3>2. r.dev.roots # "uncertain" /\ dev.roots # "uncertain"
      BY <2>1, <2>2, <2>9 DEF CleanRetry, Undone
    <3>3. op # "asc" => op \in CompletedMask
      BY <1>0, <1>5 DEF Words
    <3>4. /\ CompletedMask \cap Endpoints \subseteq dev.prov
          /\ CompletedMask \cap Base = dev.prov \cap Base
      <4>1. /\ CompletedMask' \cap Endpoints \subseteq dev'.prov
            /\ CompletedMask' \cap Base = dev'.prov \cap Base
        BY <2>9 DEF CleanRetry, RecordDiffers, Endpoints, Base
      <4>2. CASE r.ok
        <5>1. CompletedMask' = CompletedMask \ {op}
          BY <2>1, <3>1, <4>2 DEF InTime
        <5>2. /\ dev'.prov \subseteq dev.prov
              /\ dev'.prov \cap Base = (dev.prov \cap Base) \ {op}
              /\ op \in Endpoints \cup Base => op \in dev.prov
          BY <2>1, <2>2, <4>2 DEF Undone
        <5>3. op \in Endpoints \cup Base => op \in CompletedMask
          BY <3>3 DEF Endpoints, Base
        <5>4. CompletedMask \cap Endpoints \subseteq dev.prov
          BY <4>1, <5>1, <5>2
        <5>5. CompletedMask \cap Base = dev.prov \cap Base
          BY <4>1, <5>1, <5>2, <5>3
        <5> QED
          BY <5>4, <5>5
      <4>3. CASE ~r.ok
        <5>1. /\ CompletedMask' = CompletedMask
              /\ dev'.prov \subseteq dev.prov /\ dev'.prov \cap Base = dev.prov \cap Base
          BY <2>1, <2>2, <4>3 DEF Undone, InTime
        <5> QED
          BY <4>1, <5>1
      <4> QED
        BY <4>2, <4>3
    <3>5. CleanRetry
      BY <1>2, <2>9, <3>1, <3>2, <3>4
         DEF CleanRetry, RecordDiffers, Endpoints, Base
    <3>6. /\ ~cleanup_failed /\ CompletedMask \cap Observation = {}
          /\ \A i \in 1 .. at - 1 : CleanupOps[i] \notin held
      BY <1>0, <1>1, <3>5 DEF Order, RetryCleans
    <3>7. op \in {"uat", "power"} => dev.prov \cap {"asc", "published"} = {}
      <4>1. op \in {"uat", "power"} => at \in {5, 6}
        BY <1>1, OpsFacts
      <4>2. op \in {"uat", "power"} => "asc" \notin held
        <5>1. op \in {"uat", "power"} => 4 \in 1 .. at - 1
          BY <1>1, <4>1
        <5> QED
          BY <3>6, <5>1, OpsFacts
      <4> QED
        BY <1>0, <4>2 DEF Order, Recorded
    <3>8. op = "power" => dev.prov = {"power"}
      <4>1. SUFFICES ASSUME op = "power" PROVE dev.prov = {"power"}
        OBVIOUS
      <4>2. at = 6
        BY <1>1, <4>1, OpsFacts
      <4>3. "uat" \notin held
        <5>1. 5 \in 1 .. at - 1
          BY <4>2
        <5> QED
          BY <3>6, <5>1, OpsFacts
      <4>4. "uat" \notin dev.prov /\ "power" \in dev.prov
        BY <3>3, <3>4, <4>1, <4>3 DEF Base
      <4>5. "asc" \notin dev.prov /\ "published" \notin dev.prov
        BY <3>7, <4>1
      <4>6. "fwep" \notin dev.prov /\ "dbep" \notin dev.prov
        BY <1>3, <4>5 DEF Coherent
      <4>7. dev.prov \subseteq Bit
        BY <1>0 DEF Flags, Device
      <4> QED
        BY <4>4, <4>5, <4>6, <4>7 DEF Bit
    <3>9. r.ok
      <4>1. SUFFICES ASSUME ~r.ok PROVE FALSE
        BY <2>2 DEF Undone, Outcome
      <4>2. \/ op \in Endpoints \cup Base /\ op \notin dev.prov
            \/ op = "uat" /\ dev.prov \cap {"asc", "published"} # {}
            \/ op = "power" /\ dev.prov # {"power"}
        BY <2>2, <3>1, <3>2, <4>1 DEF Undone
      <4>3. op \in Endpoints \cup Base => op \in dev.prov
        BY <3>3, <3>4 DEF Endpoints, Base
      <4> QED
        BY <3>7, <3>8, <4>2, <4>3
    <3>10. /\ CompletedMask' = CompletedMask \ {op} /\ CleanupMask' = CleanupMask \ {op}
           /\ cleanup_failed' = cleanup_failed
      BY <2>1, <3>1, <3>9 DEF InTime
    <3> QED
      BY <3>6, <3>10
  <2>10. RetryCleans'
    <3>1. ASSUME CleanRetry'
          PROVE  \A i \in 1 .. at : CleanupOps[i] \notin CompletedMask' \cup CleanupMask'
      BY <1>1, <2>9, <3>1
    <3>2. ASSUME CleanRetry', pc' = "rolled" PROVE RolledBack'
      <4>1. \A i \in 1 .. 6 : CleanupOps[i] \notin CompletedMask' \cup CleanupMask'
        BY <1>1, <1>2, <3>1, <3>2
      <4>2. (CompletedMask' \cup CleanupMask')
               \cap {"initdata", "dbep", "fwep", "asc", "uat", "power"} = {}
        BY <4>1, OpsFacts
      <4> QED
        BY <2>4, <2>9, <3>2, <4>2, OpsFacts DEF Words, RolledBack, Observation
    <3>3. ASSUME pc' = "cleanup" PROVE at' - 1 = at
      BY <1>1, <1>2, <3>3
    <3>4. CleanRetry' => ~cleanup_failed' /\ CompletedMask' \cap Observation = {}
      BY <2>9
    <3> QED
      BY <3>1, <3>2, <3>3, <3>4 DEF RetryCleans
  <2> QED
    BY <2>4, <2>5, <2>6, <2>7, <2>8, <2>10 DEF IInv, Order
<1> QED
  BY <1>4, <1>5

-----------------------------------------------------------------------------
(* The theorems.                                                           *)

\* Nothing changes, and the invariant stays.
LEMMA StutterStep == IInv /\ UNCHANGED vars => IInv'
<1> SUFFICES ASSUME IInv, UNCHANGED vars PROVE IInv'
  OBVIOUS
<1> USE DEF vars, masks, backend, owners
<1>1. Words'
  BY DEF IInv, Words
<1>2. Flags'
  BY Zenon DEF IInv, Flags
<1>3. Order'
  BY DEF IInv, Order, Coherent, Recorded, Control, FreedQuiet, Quiet,
         RetryCleans, 
         CleanRetry, RecordDiffers, RolledBack, RetryFrees
<1> QED
  BY <1>1, <1>2, <1>3 DEF IInv

\* The inductive invariant holds in every state that any sequence of starts,
\* stops, removals and failures of any operation reaches.
THEOREM Inductive == Spec => []IInv
<1>1. Init => IInv
  BY InitInv
<1>2. IInv /\ [Next]_vars => IInv'
  BY StutterStep, StartDeviceStep, MapArenaStep, StartOperationStep,
     CreateQueuesStep,
     LaterStagesStep, QuiesceActiveStep, RollbackBeginStep, CleanupOperationStep,
     RollbackReturnsStep, StartRollbackStep, UnmapArenaStep, PlatformDestroyStep,
     StopQueuesStep, DestroyQueuesStep, FreeRuntimeStep, ReleaseStep, StopDeviceStep,
     RemoveDeviceStep DEF Next
<1> QED
  BY <1>1, <1>2, PTL DEF Spec

\* Every variable keeps the values of its C type.
THEOREM TypeCorrect == Spec => []TypeOK
<1>1. IInv => TypeOK
  BY Types DEF IInv
<1> QED
  BY <1>1, Inductive, PTL

\* A running coprocessor has power, a translation root and an owner, whatever
\* failed on the way (apple_agx_firmware_provider.c: each cleanup refuses
\* while a bit above it is set).
THEOREM RunningAscIsCovered == Spec => []AscCovered
<1>1. IInv => AscCovered
  BY DEF IInv, Order, Coherent, AscCovered
<1> QED
  BY <1>1, Inductive, PTL

\* The platform runtime is freed only when the coprocessor, its pages, its
\* root, its power and the handoff lock are gone (AdmissionPlatformDestroy).
THEOREM RuntimeFreedOnlyQuiet == Spec => []FreedOnlyQuiet
<1>1. IInv => FreedOnlyQuiet
  BY DEF IInv, Order, Coherent, FreedQuiet, Quiet, FreedOnlyQuiet
<1> QED
  BY <1>1, Inductive, PTL

\* A coprocessor that still runs when a request returns is named by the
\* firmware record, so the next request will try to stop it
\* (apple_agx_firmware.c, AppleAgxFirmwareRollback).
THEOREM ObligationIsKept == Spec => []ObligationKept
<1>1. IInv => ObligationKept
  BY DEF IInv, Order, Coherent, Recorded, FreedQuiet, Quiet, ObligationKept
<1> QED
  BY <1>1, Inductive, PTL

\* A stop or removal in which nothing failed frees the platform runtime,
\* unless an earlier attempt left one of the five marks that RetryFrees names.
THEOREM CleanRetryFrees == Spec => []RetryFrees
<1>1. IInv => RetryFrees
  BY DEF IInv, Order
<1> QED
  BY <1>1, Inductive, PTL
====
