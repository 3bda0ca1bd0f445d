-------------------------- MODULE FirmwareProvider --------------------------
(***************************************************************************)
(* The firmware provider (shared/src/apple_agx_firmware_provider.c) over   *)
(* the Windows primitives (render-admission/src/backend_platform_windows.c)*)
(* as operators on what it owns:                                           *)
(*                                                                         *)
(*   prov      the provider's State bits (INITIALIZED is implied)          *)
(*   Locked    Handoff.Locked                                              *)
(*   powered   the power domain is on (runtime->Powered)                   *)
(*   prepared  the broker holds a prepared translation root                *)
(*             (runtime->RetainedPrepared)                                 *)
(*   roots     firmware pages mapped under that root (Context0Lease):      *)
(*             "none", "mapped", or "uncertain" after a reply that cannot  *)
(*             be trusted                                                  *)
(*   running   the coprocessor's run bit (Rtkit.Running)                   *)
(*                                                                         *)
(* Every callback runs at passive level on one thread.  An operator gives  *)
(* the set of ways a call can end: what it returned, what it left behind,  *)
(* and whether a primitive failed under it (fault), as opposed to the      *)
(* provider itself refusing the call.  The Windows build provides          *)
(* CompleteManagementBootstrap, so the roots are published inside BootAsc, *)
(* and sets RetireMappingsAfterAscStop.                                    *)
(***************************************************************************)

Bit == {"power", "uat", "asc", "fwep", "dbep", "published"}

Device ==
    [prov : SUBSET Bit, Locked : BOOLEAN, powered : BOOLEAN,
     prepared : BOOLEAN, roots : {"none", "mapped", "uncertain"},
     running : BOOLEAN]

Ok(d)     == [ok |-> TRUE,  dev |-> d, fault |-> FALSE]
Fail(d)   == [ok |-> FALSE, dev |-> d, fault |-> TRUE]
Refuse(d) == [ok |-> FALSE, dev |-> d, fault |-> FALSE]

-----------------------------------------------------------------------------
(* Bring-up.                                                               *)

provider_power_on(d) ==
    IF d.prov # {} \/ d.powered THEN {Refuse(d)}
    ELSE {Ok([d EXCEPT !.prov = {"power"}, !.powered = TRUE]), Fail(d)}

\* AGX_RR_PREPARE can leave a prepared root behind a reply that is rejected.
provider_create_uat(d) ==
    IF d.prov # {"power"} THEN {Refuse(d)}
    ELSE {Ok([d EXCEPT !.prov = @ \cup {"uat"}, !.prepared = TRUE]),
          Fail(d), Fail([d EXCEPT !.prepared = TRUE])}

\* release_handoff: a failed write keeps the lock.
release_handoff(d) == {Ok([d EXCEPT !.Locked = FALSE]), Fail(d)}

\* Mutant: the bit is set when the boot has succeeded.
provider_boot_asc_bit_last(d) ==
    LET up == [d EXCEPT !.running = TRUE]
        done == [up EXCEPT !.prov = @ \cup {"asc", "published"},
                           !.roots = "mapped"]
    IN IF d.prov # {"power", "uat"} THEN {Refuse(d)}
       ELSE {Ok(done), Fail(d), Fail(up)}

\* The ASC bit is set before anything starts.  The CPU may fail to start, and
\* be switched off again or not; the handoff may not be acquired; the roots
\* may be mapped in part; the release may fail; the management handshake may
\* fail and switch the CPU off or not.
boot_asc_ends(owned, up, done) ==
    {Ok(done)}
    \cup {Fail(owned), Fail([owned EXCEPT !.Locked = TRUE])}
    \cup (UNION {{Fail([up EXCEPT !.Locked = l, !.roots = x]) : l \in BOOLEAN} :
                   x \in {"none", "mapped", "uncertain"}})
    \cup {Fail([done EXCEPT !.Locked = l]) : l \in BOOLEAN}
    \cup {Fail([done EXCEPT !.running = FALSE])}

provider_boot_asc(d) ==
    LET owned == [d EXCEPT !.prov = @ \cup {"asc"}]
        up == [owned EXCEPT !.running = TRUE]
        done == [up EXCEPT !.prov = @ \cup {"published"}, !.roots = "mapped"]
    IN IF d.prov # {"power", "uat"} THEN {Refuse(d)}
       ELSE boot_asc_ends(owned, up, done)

provider_start_endpoint(d, bit) ==
    LET required == {"power", "uat", "asc"}
                    \cup (IF bit = "dbep" THEN {"fwep"} ELSE {})
    IN IF d.prov \ {"published"} # required THEN {Refuse(d)}
       ELSE {Ok([d EXCEPT !.prov = @ \cup {bit}]), Fail(d)}

\* The roots are already published: there is nothing left that can fail.
provider_publish_initdata(d) == IF d.prov = Bit THEN {Ok(d)} ELSE {Refuse(d)}

\* SendInitdata, SendDeviceControlInit and UpdateIdleTimestamp send a message
\* and own nothing.
provider_send(d) ==
    IF "published" \notin d.prov THEN {Refuse(d)} ELSE {Ok(d), Fail(d)}

-----------------------------------------------------------------------------
(* Teardown.                                                               *)

\* UnpublishUatRoots refuses while the coprocessor runs; retiring the pages
\* stops at the first reply that does not match, and an uncertain lease is
\* never retired.
UnpublishUatRoots(d) ==
    IF d.running \/ d.roots = "uncertain" THEN {Refuse(d)}
    ELSE {Ok([d EXCEPT !.roots = "none"]), Fail(d)}

\* While the ASC bit is set only a lock left behind is released.  Otherwise
\* the roots are withdrawn under the handoff.
provider_unpublish_initdata(d) ==
    IF "asc" \in d.prov \/ "published" \notin d.prov
      THEN IF d.Locked THEN release_handoff(d) ELSE {Ok(d)}
      ELSE LET held == [d EXCEPT !.Locked = TRUE]
           IN (IF d.Locked THEN {} ELSE {Fail(d)})
              \cup UNION {
                  IF u.ok
                    THEN release_handoff([u.dev EXCEPT !.prov = @ \ {"published"}])
                    ELSE {[r EXCEPT !.ok = FALSE, !.fault = @ \/ u.fault] :
                            r \in release_handoff(u.dev)}
                  : u \in UnpublishUatRoots(held)}

\* A stopped coprocessor has no endpoints: then the primitive is a success.
provider_stop_endpoint(d, bit) ==
    IF bit \notin d.prov THEN {Refuse(d)}
    ELSE {Ok([d EXCEPT !.prov = @ \ {bit}])}
         \cup (IF d.running THEN {Fail(d)} ELSE {})

\* AppleAgxRtkitSessionStop: fails with the coprocessor still running.
StopAsc(d) ==
    {Ok([d EXCEPT !.running = FALSE])} \cup (IF d.running THEN {Fail(d)} ELSE {})

\* Mutant: the pages mapped for the ASC are not withdrawn after its stop.
provider_stop_asc_no_retire(d) ==
    UNION {
      IF ~u.ok THEN {u}
      ELSE {IF ~s.ok THEN s
            ELSE Ok([s.dev EXCEPT !.prov = @ \ {"asc", "fwep", "dbep"}])
             : s \in IF "asc" \in u.dev.prov THEN StopAsc(u.dev) ELSE {Ok(u.dev)}}
      : u \in provider_unpublish_initdata(d)}

\* The roots are withdrawn once the ASC, and with it every endpoint, is gone.
provider_stop_asc(d) ==
    UNION {
      IF ~u.ok THEN {u}
      ELSE UNION {
             IF ~s.ok THEN {s}
             ELSE provider_unpublish_initdata(
                    [s.dev EXCEPT !.prov = @ \ {"asc", "fwep", "dbep"}])
             : s \in IF "asc" \in u.dev.prov THEN StopAsc(u.dev) ELSE {Ok(u.dev)}}
      : u \in provider_unpublish_initdata(d)}

provider_destroy_uat(d) ==
    IF \/ "uat" \notin d.prov \/ d.prov \cap {"asc", "published"} # {}
       \/ d.roots = "uncertain"
      THEN {Refuse(d)}
      ELSE {Ok([d EXCEPT !.prov = @ \ {"uat"}, !.prepared = FALSE,
                         !.roots = "none"]),
            Fail(d), Fail([d EXCEPT !.roots = "none"])}

provider_power_off(d) ==
    IF d.prov # {"power"} \/ ~d.powered THEN {Refuse(d)}
    ELSE {Ok([d EXCEPT !.prov = {}, !.powered = FALSE]), Fail(d)}
=============================================================================
