-------------------------- MODULE DeviceLifecycle ---------------------------
(***************************************************************************)
(* Start, stop and removal of the device (render-admission/src/lifecycle.c)*)
(* over the platform runtime, the backend runtime and the firmware state   *)
(* machine, down to the primitives of FirmwareProvider.                    *)
(*                                                                         *)
(* StartDevice brings up memory, image and platform runtime; the backend   *)
(* runtime maps the command arena, boots the firmware in nine operations,  *)
(* publishes the render context and creates the queues.  Each firmware     *)
(* operation that came back in time is recorded in CompletedMask; the      *)
(* rollback undoes what the mask records, in the opposite order, and keeps *)
(* the bit of every operation that failed or came back late, so that the   *)
(* next attempt retries it.  A failed start rolls back up to three times   *)
(* (AbortStart, StartRollback, AdmissionPlatformDestroy), and PnP may ask  *)
(* again with StopDevice and RemoveDevice.                                 *)
(*                                                                         *)
(* Everything runs on one passive thread; what makes it hard is that any   *)
(* operation of any attempt may fail or overrun its deadline.              *)
(***************************************************************************)
EXTENDS FirmwareProvider, Sequences, Naturals

VARIABLES
    pc,             \* where the calling thread is
    at,             \* operation being started or cleaned up
    caller,         \* the DDI on the stack
    ret,            \* who called AppleAgxFirmwareRollback
    dev,            \* what the firmware provider owns
    CompletedMask,  \* APPLE_AGX_FIRMWARE: operations to undo
    CleanupMask,    \* APPLE_AGX_FIRMWARE: the ASC may be owned
    cleanup_failed, \* local of the rollback
    Phase,          \* APPLE_AGX_BACKEND_RUNTIME
    ArenaMapped, ContextPublished, QueuesCreated, QueuesQuiesced,
    PlatformRuntime, \* Context->PlatformRuntime is not NULL
    BackendImage,   \* BackendImage.Ready
    MemoryRuntime,  \* "none", "live", or "emptied": only its pages are left
    faulted         \* a primitive failed or overran since the DDI was called

backend == <<Phase, ArenaMapped, ContextPublished, QueuesCreated,
             QueuesQuiesced>>
masks   == <<CompletedMask, CleanupMask>>
owners  == <<PlatformRuntime, BackendImage, MemoryRuntime>>
vars    == <<pc, at, caller, ret, dev, masks, cleanup_failed, backend, owners,
             faulted>>

StartOps   == <<"power", "uat", "asc", "fwep", "dbep", "initdata", "sent",
                "devctl", "idle">>
CleanupOps == <<"initdata", "dbep", "fwep", "asc", "uat", "power">>
Observation == {"sent", "devctl", "idle"}
Op == {StartOps[i] : i \in DOMAIN StartOps}

\* The provider's callback for a start operation and for its cleanup.
StartCall(op, d) ==
    CASE op = "power"    -> provider_power_on(d)
      [] op = "uat"      -> provider_create_uat(d)
      [] op = "asc"      -> provider_boot_asc(d)
      [] op = "fwep"     -> provider_start_endpoint(d, "fwep")
      [] op = "dbep"     -> provider_start_endpoint(d, "dbep")
      [] op = "initdata" -> provider_publish_initdata(d)
      [] OTHER           -> provider_send(d)

CleanupCall(op, d) ==
    CASE op = "initdata" -> provider_unpublish_initdata(d)
      [] op = "dbep"     -> provider_stop_endpoint(d, "dbep")
      [] op = "fwep"     -> provider_stop_endpoint(d, "fwep")
      [] op = "asc"      -> provider_stop_asc(d)
      [] op = "uat"      -> provider_destroy_uat(d)
      [] op = "power"    -> provider_power_off(d)

Init ==
    /\ pc = "absent" /\ at = 1 /\ caller = "none" /\ ret = "none"
    /\ dev = [prov |-> {}, Locked |-> FALSE, powered |-> FALSE,
              prepared |-> FALSE, roots |-> "none", running |-> FALSE]
    /\ CompletedMask = {} /\ CleanupMask = {} /\ cleanup_failed = FALSE
    /\ Phase = "Stopped" /\ ArenaMapped = FALSE /\ ContextPublished = FALSE
    /\ QueuesCreated = FALSE /\ QueuesQuiesced = FALSE
    /\ PlatformRuntime = FALSE /\ BackendImage = FALSE
    /\ MemoryRuntime = "none" /\ faulted = FALSE

-----------------------------------------------------------------------------
(* Bring-up.                                                               *)

StartDevice ==
    /\ pc = "absent" /\ MemoryRuntime = "none"
    /\ pc' = "map" /\ caller' = "start" /\ faulted' = FALSE
    /\ PlatformRuntime' = TRUE /\ BackendImage' = TRUE
    /\ MemoryRuntime' = "live" /\ Phase' = "Starting"
    /\ UNCHANGED <<at, ret, dev, masks, cleanup_failed, ArenaMapped,
                   ContextPublished, QueuesCreated, QueuesQuiesced>>

\* AppleAgxBackendRuntimeStart up to the firmware.  The arena may not map, or
\* map and turn out not to hold the prepared image.
MapArena ==
    /\ pc = "map"
    /\ \/ pc' = "boot" /\ ArenaMapped' = TRUE /\ faulted' = faulted
       \/ pc' = "unwind" /\ ArenaMapped' \in BOOLEAN /\ faulted' = TRUE
    /\ at' = 1 /\ CompletedMask' = {} /\ CleanupMask' = {}
    /\ UNCHANGED <<caller, ret, dev, cleanup_failed, Phase, ContextPublished,
                   QueuesCreated, QueuesQuiesced, owners>>

\* FinishOperation: an operation that succeeded after its deadline counts as
\* failed.
InTime(r, late) == r.ok /\ ~late

\* Mutant: the obligation is left to the success of the boot.
NothingOwed(op) == {}

\* The boot may take the CPU and the roots before a later part of it fails, so
\* the ASC is entered in CleanupMask before it is tried.
OwedBefore(op) == {op} \cap {"asc"}

\* AppleAgxFirmwareStart, one operation; AbortStart on a failure.
StartOperation ==
    /\ pc = "boot"
    /\ CleanupMask' = CleanupMask \cup OwedBefore(StartOps[at])
    /\ \E r \in StartCall(StartOps[at], dev), late \in BOOLEAN :
         /\ dev' = r.dev
         /\ faulted' = (faulted \/ late \/ r.fault)
         /\ IF InTime(r, late)
              THEN /\ CompletedMask' = CompletedMask \cup {StartOps[at]}
                   /\ at' = IF at = Len(StartOps) THEN 1 ELSE at + 1
                   /\ pc' = IF at = Len(StartOps) THEN "create" ELSE "boot"
                   /\ ret' = ret
              ELSE /\ pc' = "rollback" /\ ret' = "abort" /\ at' = 1
                   /\ CompletedMask' = CompletedMask
    /\ UNCHANGED <<caller, cleanup_failed, backend, owners>>

\* RenderContext.Publish and Queues.Create.
CreateQueues ==
    /\ pc = "create"
    /\ ContextPublished' = TRUE
    /\ \/ /\ QueuesCreated' = TRUE /\ QueuesQuiesced' = FALSE
          /\ Phase' = "Ready" /\ pc' = "later" /\ faulted' = faulted
       \/ /\ pc' = "unwind" /\ faulted' = TRUE
          /\ UNCHANGED <<Phase, QueuesCreated, QueuesQuiesced>>
    /\ UNCHANGED <<at, caller, ret, dev, masks, cleanup_failed, ArenaMapped,
                   owners>>

\* The stages of StartDevice after the platform runtime: all succeed, or one
\* fails and the runtime is stopped, or the scanout owner is left uncertain
\* and everything below it is kept.
LaterStages ==
    /\ pc = "later"
    /\ \/ pc' = "up" /\ faulted' = faulted
       \/ pc' = "destroy" /\ faulted' = TRUE
       \/ pc' = "busy" /\ faulted' = TRUE
    /\ UNCHANGED <<at, caller, ret, dev, masks, cleanup_failed, backend, owners>>

\* A job that cannot be recovered quiesces the firmware while the device is up
\* (AdmissionTransportQuiesce: AppleAgxRtkitSessionStop).
QuiesceActive ==
    /\ pc = "up" /\ dev.running
    /\ dev' = [dev EXCEPT !.running = FALSE]
    /\ UNCHANGED <<pc, at, caller, ret, masks, cleanup_failed, backend, owners,
                   faulted>>

-----------------------------------------------------------------------------
(* AppleAgxFirmwareRollback.                                               *)

RollbackBegin ==
    /\ pc = "rollback"
    /\ CompletedMask' = CompletedMask \ Observation
    /\ cleanup_failed' = FALSE /\ at' = 1
    /\ pc' = IF CompletedMask \cup CleanupMask = {} THEN "rolled" ELSE "cleanup"
    /\ UNCHANGED <<caller, ret, dev, CleanupMask, backend, owners, faulted>>

\* Every recorded operation is undone even when an earlier one failed.
CleanupOperation ==
    /\ pc = "cleanup"
    /\ LET op == CleanupOps[at] IN
         IF op \notin CompletedMask \cup CleanupMask
           THEN UNCHANGED <<dev, masks, cleanup_failed, faulted>>
           ELSE \E r \in CleanupCall(op, dev), late \in BOOLEAN :
                  /\ dev' = r.dev
                  /\ faulted' = (faulted \/ late \/ r.fault)
                  /\ IF InTime(r, late)
                       THEN /\ CompletedMask' = CompletedMask \ {op}
                            /\ CleanupMask' = CleanupMask \ {op}
                            /\ UNCHANGED cleanup_failed
                       ELSE cleanup_failed' = TRUE /\ UNCHANGED masks
    /\ at' = IF at = Len(CleanupOps) THEN 1 ELSE at + 1
    /\ pc' = IF at = Len(CleanupOps) THEN "rolled" ELSE "cleanup"
    /\ UNCHANGED <<caller, ret, backend, owners>>

RolledBack == ~cleanup_failed /\ CompletedMask = {} /\ CleanupMask = {}

\* StopDevice and RemoveDevice return the failure; StartDevice ignores it and
\* goes on to release what lies below the platform runtime.
GiveUp == pc' = IF caller = "start" THEN "release" ELSE "busy"

\* Back to AbortStart, to StartRollback, or to AppleAgxBackendRuntimeStop.
RollbackReturns ==
    /\ pc = "rolled"
    /\ CASE ret = "abort"  -> pc' = "unwind" /\ Phase' = Phase
         [] ret = "unwind" -> /\ pc' = "unmap"
                              /\ Phase' = IF RolledBack THEN "Stopped" ELSE "Failed"
         [] ret = "stop"   -> IF RolledBack
                                THEN pc' = "unmap" /\ Phase' = Phase
                                ELSE GiveUp /\ Phase' = "Failed"
    /\ UNCHANGED <<at, caller, ret, dev, masks, cleanup_failed, ArenaMapped,
                   ContextPublished, QueuesCreated, QueuesQuiesced, owners,
                   faulted>>

-----------------------------------------------------------------------------
(* AppleAgxBackendStartRollback and AppleAgxBackendRuntimeStop.            *)

\* Without a completed operation the firmware is not rolled back again.
StartRollback ==
    /\ pc = "unwind"
    /\ ContextPublished' = FALSE /\ ret' = "unwind"
    /\ IF CompletedMask # {}
         THEN pc' = "rollback" /\ Phase' = Phase
         ELSE pc' = "unmap" /\ Phase' = "Stopped"
    /\ UNCHANGED <<at, caller, dev, masks, cleanup_failed, ArenaMapped,
                   QueuesCreated, QueuesQuiesced, owners, faulted>>

\* AdmissionBackendUnmap succeeds only while the image still names the arena.
UnmapArena ==
    /\ pc = "unmap"
    /\ LET unmapped == ~ArenaMapped \/ BackendImage IN
         /\ ArenaMapped' = (ArenaMapped /\ ~unmapped)
         /\ IF ret = "unwind"
              THEN /\ pc' = "destroy"
                   /\ Phase' = IF unmapped THEN Phase ELSE "Failed"
              ELSE IF unmapped
                     THEN pc' = "free" /\ Phase' = "Stopped"
                     ELSE GiveUp /\ Phase' = "Failed"
    /\ UNCHANGED <<at, caller, ret, dev, masks, cleanup_failed,
                   ContextPublished, QueuesCreated, QueuesQuiesced, owners,
                   faulted>>

\* AdmissionPlatformDestroy: the backend runtime is stopped first.
PlatformDestroy ==
    /\ pc = "destroy"
    /\ IF Phase = "Stopped"
         THEN pc' = "free" /\ Phase' = Phase
         ELSE /\ Phase' = "Stopping"
              /\ pc' = IF QueuesCreated /\ ~QueuesQuiesced
                         THEN "stopqueues" ELSE "queues"
    /\ UNCHANGED <<at, caller, ret, dev, masks, cleanup_failed, ArenaMapped,
                   ContextPublished, QueuesCreated, QueuesQuiesced, owners,
                   faulted>>

\* Queues.Stop.  Before the first submission there is no fence and nothing to
\* stop; later the pending job is cancelled by quiescing the firmware.
StopQueues ==
    /\ pc = "stopqueues"
    /\ \/ /\ QueuesQuiesced' = TRUE /\ pc' = "queues"
          /\ UNCHANGED <<Phase, dev, faulted>>
       \/ /\ caller # "start"
          /\ \E off \in BOOLEAN :
               dev' = [dev EXCEPT !.running = @ /\ ~off]
          /\ \/ /\ QueuesQuiesced' = TRUE /\ pc' = "queues"
                /\ UNCHANGED <<Phase, faulted>>
             \/ /\ Phase' = "Failed" /\ faulted' = TRUE /\ GiveUp
                /\ UNCHANGED QueuesQuiesced
    /\ UNCHANGED <<at, caller, ret, masks, cleanup_failed, ArenaMapped,
                   ContextPublished, QueuesCreated, owners>>

\* The pending fence is retired, then queues and context are destroyed.
DestroyQueues ==
    /\ pc = "queues"
    /\ \/ /\ QueuesCreated' = FALSE /\ QueuesQuiesced' = FALSE
          /\ ContextPublished' = FALSE
          /\ pc' = "rollback" /\ ret' = "stop"
          /\ UNCHANGED <<Phase, faulted>>
       \/ /\ QueuesCreated /\ caller # "start"
          /\ Phase' = "Failed" /\ faulted' = TRUE /\ GiveUp
          /\ UNCHANGED <<ret, QueuesCreated, QueuesQuiesced, ContextPublished>>
    /\ UNCHANGED <<at, caller, dev, masks, cleanup_failed, ArenaMapped, owners>>

\* Mutant: the broker's prepared root and lease are not looked at.
QuietProvider(d) == d.prov = {} /\ ~d.Locked

\* AppleAgxFirmwareProviderDestroy, and the checks that follow it.
Quiet(d) == d.prov = {} /\ ~d.Locked /\ ~d.prepared /\ d.roots = "none"

\* The rest of AdmissionPlatformDestroy and its caller: the provider, the
\* prepared root and the lease must be gone before the runtime is freed.
FreeRuntime ==
    /\ pc = "free"
    /\ IF Quiet(dev)
         THEN PlatformRuntime' = FALSE /\ pc' = "release"
         ELSE GiveUp /\ UNCHANGED PlatformRuntime
    /\ UNCHANGED <<at, caller, ret, dev, masks, cleanup_failed, backend,
                   BackendImage, MemoryRuntime, faulted>>

-----------------------------------------------------------------------------
(* What lies below the platform runtime, and the PnP requests.             *)

\* BackendImageStop and MemoryRuntimeStop.  The pages of the initdata graph
\* belong to the platform runtime: while it lives the memory runtime gives up
\* its mappings and its local memory and then reports busy.
Release ==
    /\ pc = "release"
    /\ BackendImage' = FALSE
    /\ \/ /\ MemoryRuntime' = IF PlatformRuntime THEN "emptied" ELSE "none"
          /\ faulted' = faulted
       \/ MemoryRuntime' = MemoryRuntime /\ faulted' = TRUE
    /\ pc' = IF PlatformRuntime \/ MemoryRuntime' # "none"
               THEN "busy" ELSE "absent"
    /\ UNCHANGED <<at, caller, ret, dev, masks, cleanup_failed, backend,
                   PlatformRuntime>>

\* StopDevice and RemoveDevice: PlatformRuntimeStop when there is a runtime.
Retry(ddi) ==
    /\ caller' = ddi /\ faulted' = FALSE
    /\ pc' = IF PlatformRuntime THEN "destroy" ELSE "release"
    /\ UNCHANGED <<at, ret, dev, masks, cleanup_failed, backend, owners>>

StopDevice   == pc \in {"up", "busy"} /\ Retry("stop")
RemoveDevice == pc = "busy" /\ Retry("remove")

Next ==
    \/ StartDevice \/ MapArena \/ StartOperation \/ CreateQueues
    \/ LaterStages \/ QuiesceActive \/ RollbackBegin \/ CleanupOperation
    \/ RollbackReturns \/ StartRollback \/ UnmapArena \/ PlatformDestroy
    \/ StopQueues \/ DestroyQueues \/ FreeRuntime \/ Release
    \/ StopDevice \/ RemoveDevice

Spec == Init /\ [][Next]_vars

-----------------------------------------------------------------------------
(* Properties.                                                             *)

\* Every variable holds a value of its C type.
TypeOK ==
    /\ pc \in {"absent", "map", "boot", "create", "later", "up", "rollback",
               "cleanup", "rolled", "unwind", "unmap", "destroy", "stopqueues",
               "queues", "free", "release", "busy"}
    /\ at \in 1..Len(StartOps)
    /\ caller \in {"none", "start", "stop", "remove"}
    /\ ret \in {"none", "abort", "unwind", "stop"}
    /\ dev \in Device
    /\ CompletedMask \subseteq Op /\ CleanupMask \subseteq {"asc"}
    /\ cleanup_failed \in BOOLEAN
    /\ Phase \in {"Stopped", "Starting", "Ready", "Failed", "Stopping"}
    /\ <<ArenaMapped, ContextPublished, QueuesCreated, QueuesQuiesced>>
         \in BOOLEAN \X BOOLEAN \X BOOLEAN \X BOOLEAN
    /\ PlatformRuntime \in BOOLEAN /\ BackendImage \in BOOLEAN
    /\ MemoryRuntime \in {"none", "live", "emptied"}
    /\ faulted \in BOOLEAN

\* Whatever failed and however often the teardown was retried, a running
\* coprocessor has power, a translation root and an owner: its tables are
\* never closed, and its power never cut, under it (firmware_provider.c
\* 335-362; the ASC bit is set before the boot, 106).
AscCovered ==
    dev.running =>
        /\ dev.powered /\ dev.prepared
        /\ {"power", "uat", "asc"} \subseteq dev.prov

\* The platform runtime is freed, and its MMIO unmapped, only when nothing it
\* owned is left behind: not the coprocessor, its pages, its root, its power
\* or the handoff lock (AdmissionPlatformDestroy).
FreedOnlyQuiet ==
    ~PlatformRuntime =>
        /\ ~dev.running /\ dev.roots = "none" /\ ~dev.prepared
        /\ ~dev.powered /\ ~dev.Locked

\* When a request has returned and the coprocessor still runs, the next one
\* will try to stop it: the backend runtime does not pass for stopped, and the
\* firmware record still names the ASC (apple_agx_firmware.c:159).
ObligationKept ==
    (pc \in {"up", "busy"} /\ dev.running) =>
        /\ PlatformRuntime /\ Phase # "Stopped"
        /\ "asc" \in CompletedMask \cup CleanupMask

\* The firmware record names an operation the provider no longer owns (its
\* cleanup is refused from now on), or misses one that it does own.
RecordDiffers ==
    \/ ~(CompletedMask \cap {"fwep", "dbep"} \subseteq dev.prov)
    \/ CompletedMask \cap {"power", "uat"} # dev.prov \cap {"power", "uat"}

\* A stop or removal in which no primitive failed or overran frees the
\* platform runtime, unless an earlier attempt left one of five marks: the two
\* records differ; a lease or a root is in doubt; StartDevice took the image
\* from under a mapped arena; or StartRollback, which looks at CompletedMask
\* alone, passed over a CleanupMask with the handoff lock still held.
RetryFrees ==
    (pc = "busy" /\ caller # "start" /\ ~faulted /\ PlatformRuntime) =>
        \/ RecordDiffers
        \/ dev.roots = "uncertain"
        \/ dev.prepared /\ "uat" \notin dev.prov
        \/ ArenaMapped /\ ~BackendImage
        \/ dev.Locked /\ CleanupMask # {} /\ Phase = "Stopped"

\* What the backend runtime says of itself (apple_agx_backend_runtime.c:503):
\* after a teardown that failed every owner the device can reach is kept.
ArenaOutlivesAsc ==
    (dev.running /\ ArenaMapped) => MemoryRuntime = "live" /\ BackendImage
=============================================================================
