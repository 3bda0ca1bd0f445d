----------------------------- MODULE GfxHandoff -----------------------------
(***************************************************************************)
(* The handoff lock between the driver (AP) and the GPU firmware (FW),     *)
(* drivers/apple-agx/shared/src/apple_agx_gfx_handoff.c: two flags and a   *)
(* turn word in shared memory, polled by both sides with no atomic         *)
(* read-modify-write, under which the driver changes the translation roots *)
(* the running firmware uses.                                              *)
(*                                                                         *)
(* Every access to shared memory is a step of its own, and every access    *)
(* may fail (Io.Read*, Io.Write* returning 0), in which case it has no     *)
(* effect.  The deadline of the call in progress is the flag expired.      *)
(* pc names the access the driver makes next.  "idle" is outside every     *)
(* call; "held" is the caller between a successful Acquire and its         *)
(* Release.  ret says how the call in progress goes on once the lock has   *)
(* changed hands: "held" and "magic" after Acquire, "flush" and "idle"     *)
(* after Release.                                                          *)
(*                                                                         *)
(* The firmware is external.  It is modelled as the mirror image of        *)
(* Acquire and Release, polling without a deadline, and it may stop for    *)
(* good between any two of its steps.                                      *)
(***************************************************************************)
EXTENDS Naturals

CONSTANT MaxCalls   \* calls the driver makes in one start and stop

ASSUME MaxCallsAssumption == MaxCalls \in Nat

VARIABLES
    lock_ap, lock_fw,   \* the two flags
    turn,               \* 0: the driver goes first, 1: the firmware
    magic_fw,           \* has the firmware published MAGIC_FW?
    Locked,             \* State.Locked
    Initialized,        \* State.Initialized
    pc, ret, expired,   \* the driver's call in progress
    calls,              \* calls made so far
    fw, alive           \* the firmware's step, and whether it still runs

mem == <<lock_ap, lock_fw, turn, magic_fw>>
apVars == <<Locked, Initialized, pc, ret, expired, calls>>
fwVars == <<fw, alive>>
vars == <<lock_ap, lock_fw, turn, magic_fw, Locked, Initialized, pc, ret,
          expired, calls, fw, alive>>

Pc == {"idle", "raise", "readFw", "readTurn", "relinquish", "lower",
       "waitTurn", "reraise", "held", "magic", "turnOut", "lowerOut", "flush"}

TypeOK ==
    /\ lock_ap \in 0 .. 1 /\ lock_fw \in 0 .. 1 /\ turn \in 0 .. 1
    /\ magic_fw \in BOOLEAN /\ Locked \in BOOLEAN /\ Initialized \in BOOLEAN
    /\ pc \in Pc
    /\ ret \in {"idle", "held", "magic", "flush"}
    /\ expired \in BOOLEAN
    /\ calls \in 0 .. MaxCalls
    /\ fw \in {"idle", "check", "turn", "lower", "wait", "raise", "cs", "out"}
    /\ alive \in BOOLEAN

Init ==
    /\ lock_ap = 0 /\ lock_fw = 0 /\ turn = 0 /\ magic_fw = FALSE
    /\ Locked = FALSE /\ Initialized = FALSE
    /\ pc = "idle" /\ ret = "idle" /\ expired = FALSE /\ calls = 0
    /\ fw = "idle" /\ alive = TRUE

-----------------------------------------------------------------------------
(* The driver.                                                             *)

Goto(next) == pc' = next

StartCall(first, continuation) ==
    /\ pc = "idle"
    /\ calls < MaxCalls
    /\ calls' = calls + 1
    /\ expired' = FALSE
    /\ Goto(first)
    /\ ret' = continuation
    /\ UNCHANGED <<lock_ap, lock_fw, turn, magic_fw, Locked, Initialized>>
    /\ UNCHANGED fwVars

\* AppleAgxGfxHandoffInitialize up to its Acquire.  A call while locked is
\* refused, one on an initialized handoff returns Ok at once, and a failed
\* write of MAGIC_AP returns: none of them changes anything.
CallInitialize ==
    /\ ~Locked /\ ~Initialized
    /\ StartCall("raise", "magic")

CallAcquire ==
    /\ ~Locked
    /\ StartCall("raise", "held")

\* Time passes: the deadline of the call in progress is reached.
Deadline ==
    /\ pc # "idle" /\ ~expired
    /\ expired' = TRUE
    /\ UNCHANGED mem
    /\ UNCHANGED <<Locked, Initialized, pc, ret, calls>>
    /\ UNCHANGED fwVars

\* The flag is raised, or the write fails and Acquire returns.
RaiseStep(here) ==
    /\ pc = here
    /\ \/ lock_ap' = 1 /\ Goto("readFw")
       \/ lock_ap' = lock_ap /\ Goto("idle")
    /\ UNCHANGED <<lock_fw, turn, magic_fw, Locked, Initialized, ret, expired,
                   calls>>
    /\ UNCHANGED fwVars

Raise == RaiseStep("raise") \/ RaiseStep("reraise")

\* The firmware's flag decides: the lock is taken, the turn is consulted, or
\* the read fails and the driver's flag is lowered again.
ReadFw ==
    /\ pc = "readFw"
    /\ \/ lock_fw = 0 /\ Locked' = TRUE /\ Goto(ret)
       \/ lock_fw # 0 /\ Goto("readTurn") /\ UNCHANGED Locked
       \/ Goto("relinquish") /\ UNCHANGED Locked
    /\ UNCHANGED <<Initialized, ret, expired, calls>>
    /\ UNCHANGED mem /\ UNCHANGED fwVars

\* Mutant: the deadline is tested only while it is the firmware's turn.
ReadTurnNoDeadline ==
    /\ pc = "readTurn"
    /\ \/ turn # 0 /\ Goto("lower")
       \/ turn = 0 /\ Goto("readFw")
       \/ Goto("relinquish")
    /\ UNCHANGED <<Locked, Initialized, ret, expired, calls>>
    /\ UNCHANGED mem /\ UNCHANGED fwVars

ReadTurn ==
    /\ pc = "readTurn"
    /\ \/ turn # 0 /\ Goto("lower")
       \/ turn = 0 /\ Goto(IF expired THEN "relinquish" ELSE "readFw")
       \/ Goto("relinquish")
    /\ UNCHANGED <<Locked, Initialized, ret, expired, calls>>
    /\ UNCHANGED mem /\ UNCHANGED fwVars

\* relinquish(): a failed write leaves the flag up.
Relinquish ==
    /\ pc = "relinquish"
    /\ lock_ap' \in {0, lock_ap}
    /\ Goto("idle")
    /\ UNCHANGED <<lock_fw, turn, magic_fw, Locked, Initialized, ret, expired,
                   calls>>
    /\ UNCHANGED fwVars

\* It is the firmware's turn: the flag goes down before the wait.
Lower ==
    /\ pc = "lower"
    /\ \/ lock_ap' = 0 /\ Goto("waitTurn")
       \/ lock_ap' = lock_ap /\ Goto("idle")
    /\ UNCHANGED <<lock_fw, turn, magic_fw, Locked, Initialized, ret, expired,
                   calls>>
    /\ UNCHANGED fwVars

\* Mutant: the lock is taken when the turn arrives, without raising the flag
\* and looking at the firmware's flag again.
WaitTurnThenHold ==
    /\ pc = "waitTurn"
    /\ \/ turn = 0 /\ Locked' = TRUE /\ Goto(ret)
       \/ turn # 0 /\ Goto(IF expired THEN "idle" ELSE "waitTurn")
                   /\ UNCHANGED Locked
       \/ Goto("idle") /\ UNCHANGED Locked
    /\ UNCHANGED <<Initialized, ret, expired, calls>>
    /\ UNCHANGED mem /\ UNCHANGED fwVars

WaitTurn ==
    /\ pc = "waitTurn"
    /\ \/ turn = 0 /\ Goto("reraise")
       \/ turn # 0 /\ Goto(IF expired THEN "idle" ELSE "waitTurn")
       \/ Goto("idle")
    /\ UNCHANGED <<Locked, Initialized, ret, expired, calls>>
    /\ UNCHANGED mem /\ UNCHANGED fwVars

\* Initialize waits for MAGIC_FW while it holds the lock; a failed read or
\* the deadline makes it release and return.
AwaitMagic ==
    /\ pc = "magic"
    /\ \/ magic_fw /\ Goto("turnOut") /\ ret' = "flush"
       \/ ~magic_fw /\ ~expired /\ Goto("magic") /\ UNCHANGED ret
       \/ ~magic_fw /\ expired /\ Goto("turnOut") /\ ret' = "idle"
       \/ Goto("turnOut") /\ ret' = "idle"
    /\ UNCHANGED <<Locked, Initialized, expired, calls>>
    /\ UNCHANGED mem /\ UNCHANGED fwVars

\* A caller that holds the lock releases it, and so may one whose last
\* Release failed.
CallRelease ==
    /\ pc = "held" \/ (pc = "idle" /\ Locked)
    /\ Goto("turnOut") /\ ret' = "idle"
    /\ UNCHANGED <<Locked, Initialized, expired, calls>>
    /\ UNCHANGED mem /\ UNCHANGED fwVars

\* Mutant: the flag is lowered first.
TurnOutLowersFlag ==
    /\ pc = "turnOut"
    /\ \/ turn' = 1 /\ lock_ap' = 0 /\ Goto("lowerOut")
       \/ turn' = turn /\ lock_ap' = lock_ap /\ Goto("idle")
    /\ UNCHANGED <<lock_fw, magic_fw, Locked, Initialized, ret, expired, calls>>
    /\ UNCHANGED fwVars

\* Mutant: Release forgets to pass the turn.
TurnOutKeepsTurn ==
    /\ pc = "turnOut"
    /\ \/ turn' = turn /\ Goto("lowerOut")
       \/ turn' = turn /\ Goto("idle")
    /\ UNCHANGED <<lock_ap, lock_fw, magic_fw, Locked, Initialized, ret,
                   expired, calls>>
    /\ UNCHANGED fwVars

\* Release passes the turn, then lowers the flag; when either write fails it
\* returns with Locked set.
TurnOut ==
    /\ pc = "turnOut"
    /\ \/ turn' = 1 /\ Goto("lowerOut")
       \/ turn' = turn /\ Goto("idle")
    /\ UNCHANGED <<lock_ap, lock_fw, magic_fw, Locked, Initialized, ret,
                   expired, calls>>
    /\ UNCHANGED fwVars

LowerOut ==
    /\ pc = "lowerOut"
    /\ \/ lock_ap' = 0 /\ Locked' = FALSE /\ Goto(ret)
       \/ lock_ap' = lock_ap /\ Locked' = Locked /\ Goto("idle")
    /\ UNCHANGED <<lock_fw, turn, magic_fw, Initialized, ret, expired, calls>>
    /\ UNCHANGED fwVars

\* Initialize clears the flush slots and is done, or a write fails.
Flush ==
    /\ pc = "flush"
    /\ Goto("idle")
    /\ Initialized' \in {Initialized, TRUE}
    /\ UNCHANGED <<Locked, ret, expired, calls>>
    /\ UNCHANGED mem /\ UNCHANGED fwVars

Driver ==
    \/ Raise \/ ReadFw \/ ReadTurn \/ Relinquish \/ Lower \/ WaitTurn
    \/ AwaitMagic \/ TurnOut \/ LowerOut \/ Flush

-----------------------------------------------------------------------------
(* The firmware.                                                           *)

FwStep(from, to) ==
    /\ alive
    /\ fw = from
    /\ fw' = to
    /\ UNCHANGED <<alive, magic_fw, lock_ap>>
    /\ UNCHANGED apVars

FwTry    == FwStep("idle", "check") /\ lock_fw' = 1 /\ UNCHANGED turn
FwRaise  == FwStep("raise", "check") /\ lock_fw' = 1 /\ UNCHANGED turn
FwCheck  == FwStep("check", IF lock_ap = 0 THEN "cs" ELSE "turn")
            /\ UNCHANGED <<lock_fw, turn>>
FwTurn   == FwStep("turn", IF turn = 0 THEN "lower" ELSE "check")
            /\ UNCHANGED <<lock_fw, turn>>
FwLower  == FwStep("lower", "wait") /\ lock_fw' = 0 /\ UNCHANGED turn
FwWait   == FwStep("wait", "raise") /\ turn # 0 /\ UNCHANGED <<lock_fw, turn>>
FwPass   == FwStep("cs", "out") /\ turn' = 0 /\ UNCHANGED lock_fw
FwLeave  == FwStep("out", "idle") /\ lock_fw' = 0 /\ UNCHANGED turn

FwMagic ==
    /\ alive /\ ~magic_fw
    /\ magic_fw' = TRUE
    /\ UNCHANGED <<lock_ap, lock_fw, turn>>
    /\ UNCHANGED apVars /\ UNCHANGED fwVars

\* The coprocessor crashes or is stopped: its flag keeps its value.
FwCrash ==
    /\ alive
    /\ alive' = FALSE
    /\ UNCHANGED fw /\ UNCHANGED mem /\ UNCHANGED apVars

Firmware ==
    \/ FwRaise \/ FwCheck \/ FwTurn \/ FwLower \/ FwWait \/ FwPass \/ FwLeave

-----------------------------------------------------------------------------
Next ==
    \/ CallInitialize \/ CallAcquire \/ CallRelease \/ Deadline \/ Driver
    \/ FwTry \/ FwMagic \/ FwCrash \/ Firmware

Spec == Init /\ [][Next]_vars

\* The driver's code runs on, time passes, and a running firmware polls on.
\* A caller that holds the lock releases it; nobody is obliged to call, to
\* retry a Release that failed, or to publish MAGIC_FW.
FairSpec ==
    /\ Spec
    /\ WF_vars(Driver) /\ WF_vars(Deadline)
    /\ WF_vars(pc = "held" /\ CallRelease)
    /\ WF_vars(Firmware)

-----------------------------------------------------------------------------
(* Properties.                                                             *)

FwHolds == fw \in {"cs", "out"}

holders == (IF Locked THEN {"AP"} ELSE {}) \cup (IF FwHolds THEN {"FW"} ELSE {})

Abstract == INSTANCE Mutex WITH Parties <- {"AP", "FW"}

\* The driver and the firmware never both own the translation roots,
\* whichever accesses fail and however their polls interleave: the driver's
\* State.Locked and the firmware's critical section exclude each other.
MutualExclusion == ~(Locked /\ FwHolds)

\* Acquire and Release implement a mutex: the lock is taken only when nobody
\* has it, and given up only by whoever has it, failed writes included.
ImplementsMutex == Abstract!Spec

\* Every Acquire comes back, with the lock or without it, even when the
\* firmware stopped inside its critical section or never passes the turn.
AcquireReturns == pc = "raise" ~> pc \in {"idle", "held", "magic"}

Trying == fw \in {"check", "turn", "lower", "wait", "raise"}

\* A firmware that asks while the driver holds the lock gets it after the
\* Release, however often the driver asks again: the turn is passed first.
\* Excepted are a crash and a flag that a failed write left up.
FirmwareServed ==
    (alive /\ Trying /\ Locked) ~>
        (FwHolds \/ ~alive \/ (pc = "idle" /\ lock_ap = 1))
=============================================================================
