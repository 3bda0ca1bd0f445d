-------------------------- MODULE GfxHandoffProofs --------------------------
(***************************************************************************)
(* Proofs about the handoff lock: its types, mutual exclusion, and that    *)
(* it implements the abstract mutex, for every number of calls.            *)
(***************************************************************************)
EXTENDS GfxHandoff, TLAPS

-----------------------------------------------------------------------------
(* The inductive invariant.  Each side's flag is up while it looks at the  *)
(* other's and for as long as it holds the lock, and the driver holds the  *)
(* lock exactly in the steps that say so (or between calls, when a Release *)
(* failed).                                                                *)

\* The two halves of TypeOK.
Flags == magic_fw \in BOOLEAN /\ Locked \in BOOLEAN /\ Initialized \in BOOLEAN
         /\ expired \in BOOLEAN /\ alive \in BOOLEAN
Words ==
    /\ lock_ap \in 0 .. 1 /\ lock_fw \in 0 .. 1 /\ turn \in 0 .. 1
    /\ pc \in Pc
    /\ ret \in {"idle", "held", "magic", "flush"}
    /\ calls \in 0 .. MaxCalls
    /\ fw \in {"idle", "check", "turn", "lower", "wait", "raise", "cs", "out"}

FlagUp == pc \in {"readFw", "readTurn", "relinquish", "lower"} => lock_ap = 1
LockedFlag == Locked => lock_ap = 1
LockedSteps ==
    /\ pc \in {"held", "magic", "turnOut", "lowerOut"} => Locked
    /\ pc \in {"raise", "reraise", "readFw", "readTurn", "relinquish", "lower",
               "waitTurn", "flush"} => ~Locked
FwFlag == fw \in {"check", "turn", "lower", "cs", "out"} => lock_fw = 1
Continuation ==
    /\ pc \in {"raise", "reraise", "readFw", "readTurn", "lower", "waitTurn"}
           => ret \in {"held", "magic"}
    /\ pc \in {"turnOut", "lowerOut"} => ret \in {"flush", "idle"}

IInv == TypeOK /\ FlagUp /\ LockedFlag /\ LockedSteps /\ FwFlag /\ Continuation
        /\ MutualExclusion

-----------------------------------------------------------------------------
LEMMA InitIInv == Init => IInv
<1> SUFFICES ASSUME Init PROVE IInv
  OBVIOUS
<1>1. calls \in 0 .. MaxCalls
  BY MaxCallsAssumption DEF Init
<1>2. TypeOK
  <2>1. Flags
    BY Zenon DEF Init, Flags
  <2>2. Words
    BY <1>1 DEF Init, Words, Pc
  <2> QED
    BY <2>1, <2>2, Zenon DEF Flags, Words, TypeOK
<1>3. FlagUp /\ LockedFlag /\ LockedSteps
  BY DEF Init, FlagUp, LockedFlag, LockedSteps
<1>4. FwFlag /\ Continuation /\ MutualExclusion
  BY DEF Init, FwFlag, Continuation, MutualExclusion, FwHolds
<1> QED
  BY <1>2, <1>3, <1>4 DEF IInv

USE DEF Goto, mem, apVars, fwVars

\* Every step of the driver keeps the invariant.
LEMMA DriverKeepsIInv ==
    IInv /\ (CallInitialize \/ CallAcquire \/ CallRelease \/ Deadline \/ Driver)
      => IInv'
<1> SUFFICES ASSUME IInv,
                    CallInitialize \/ CallAcquire \/ CallRelease \/ Deadline
                      \/ Driver
             PROVE  IInv'
  OBVIOUS
<1> USE MaxCallsAssumption DEF IInv, TypeOK, Pc, FlagUp, LockedFlag,
        LockedSteps, FwFlag, Continuation, MutualExclusion, FwHolds
<1>1. CASE CallInitialize
  <2>1. TypeOK'
    <3>1. Flags'
      BY <1>1, Zenon DEF CallInitialize, StartCall, Flags
    <3>2. Words'
      BY <1>1 DEF CallInitialize, StartCall, Words
    <3> QED
      BY <3>1, <3>2, Zenon DEF Flags, Words, TypeOK
  <2>2. FlagUp' /\ LockedFlag' /\ LockedSteps'
    BY <1>1 DEF CallInitialize, StartCall
  <2>3. FwFlag' /\ Continuation' /\ MutualExclusion'
    BY <1>1 DEF CallInitialize, StartCall
  <2> QED
    BY <2>1, <2>2, <2>3
<1>2. CASE CallAcquire
  <2>1. TypeOK'
    <3>1. Flags'
      BY <1>2, Zenon DEF CallAcquire, StartCall, Flags
    <3>2. Words'
      BY <1>2 DEF CallAcquire, StartCall, Words
    <3> QED
      BY <3>1, <3>2, Zenon DEF Flags, Words, TypeOK
  <2>2. FlagUp' /\ LockedFlag' /\ LockedSteps'
    BY <1>2 DEF CallAcquire, StartCall
  <2>3. FwFlag' /\ Continuation' /\ MutualExclusion'
    BY <1>2 DEF CallAcquire, StartCall
  <2> QED
    BY <2>1, <2>2, <2>3
<1>3. CASE CallRelease
  BY <1>3 DEF CallRelease
<1>4. CASE Deadline
  BY <1>4 DEF Deadline
<1>5. CASE Raise
  BY <1>5 DEF Raise, RaiseStep
<1>6. CASE ReadFw
  <2>1. TypeOK'
    BY <1>6 DEF ReadFw
  <2>2. FlagUp' /\ LockedFlag' /\ LockedSteps'
    BY <1>6 DEF ReadFw
  <2>3. FwFlag' /\ Continuation' /\ MutualExclusion'
    BY <1>6 DEF ReadFw
  <2> QED
    BY <2>1, <2>2, <2>3
<1>7. CASE ReadTurn
  BY <1>7 DEF ReadTurn
<1>8. CASE Relinquish
  BY <1>8 DEF Relinquish
<1>9. CASE Lower
  BY <1>9 DEF Lower
<1>10. CASE WaitTurn
  BY <1>10 DEF WaitTurn
<1>11. CASE AwaitMagic
  BY <1>11 DEF AwaitMagic
<1>12. CASE TurnOut
  BY <1>12 DEF TurnOut
<1>13. CASE LowerOut
  <2>1. TypeOK'
    <3>1. Flags'
      BY <1>13, Zenon DEF LowerOut, Flags
    <3>2. Words'
      <4>1. lock_ap' \in 0 .. 1
        <5>1. lock_ap' = 0 \/ lock_ap' = lock_ap
          BY <1>13, Zenon DEF LowerOut
        <5>2. lock_ap \in 0 .. 1
          BY Zenon
        <5> HIDE DEF IInv
        <5> QED
          BY <5>1, <5>2
      <4>2. pc' \in Pc
        BY <1>13 DEF LowerOut
      <4> QED
        BY <1>13, <4>1, <4>2 DEF LowerOut, Words
    <3> QED
      BY <3>1, <3>2, Zenon DEF Flags, Words, TypeOK
  <2>2. FlagUp' /\ LockedFlag' /\ LockedSteps'
    BY <1>13 DEF LowerOut
  <2>3. FwFlag' /\ Continuation' /\ MutualExclusion'
    BY <1>13 DEF LowerOut
  <2> QED
    BY <2>1, <2>2, <2>3
<1>14. CASE Flush
  BY <1>14 DEF Flush
<1> QED
  BY <1>1, <1>2, <1>3, <1>4, <1>5, <1>6, <1>7, <1>8, <1>9, <1>10, <1>11,
     <1>12, <1>13, <1>14 DEF Driver

\* Every step of the firmware keeps the invariant.
LEMMA FirmwareKeepsIInv ==
    IInv /\ (FwTry \/ FwMagic \/ FwCrash \/ Firmware) => IInv'
<1> SUFFICES ASSUME IInv, FwTry \/ FwMagic \/ FwCrash \/ Firmware
             PROVE  IInv'
  OBVIOUS
<1> USE DEF IInv, TypeOK, Pc, FlagUp, LockedFlag, LockedSteps, FwFlag,
        Continuation, MutualExclusion, FwHolds, FwStep
<1>1. CASE FwTry \/ FwRaise \/ FwLower \/ FwWait \/ FwPass \/ FwLeave
  BY <1>1 DEF FwTry, FwRaise, FwLower, FwWait, FwPass, FwLeave
<1>2. CASE FwCheck
  BY <1>2 DEF FwCheck
<1>3. CASE FwTurn
  BY <1>3 DEF FwTurn
<1>4. CASE FwMagic \/ FwCrash
  <2>1. TypeOK'
    <3>1. Flags'
      BY <1>4, Zenon DEF FwMagic, FwCrash, Flags
    <3>2. Words'
      BY <1>4 DEF FwMagic, FwCrash, Words
    <3> QED
      BY <3>1, <3>2, Zenon DEF Flags, Words, TypeOK
  <2>2. FlagUp' /\ LockedFlag' /\ LockedSteps'
    BY <1>4 DEF FwMagic, FwCrash
  <2>3. FwFlag' /\ Continuation' /\ MutualExclusion'
    BY <1>4 DEF FwMagic, FwCrash
  <2> QED
    BY <2>1, <2>2, <2>3
<1> QED
  BY <1>1, <1>2, <1>3, <1>4 DEF Firmware

LEMMA NextKeepsIInv == IInv /\ [Next]_vars => IInv'
<1> SUFFICES ASSUME IInv, [Next]_vars PROVE IInv'
  OBVIOUS
<1>1. CASE UNCHANGED vars
  BY <1>1 DEF vars, IInv, TypeOK, Pc, FlagUp, LockedFlag, LockedSteps, FwFlag,
     Continuation, MutualExclusion, FwHolds
<1>2. CASE Next
  BY <1>2, DriverKeepsIInv, FirmwareKeepsIInv DEF Next
<1> QED
  BY <1>1, <1>2

LEMMA SpecIInv == Spec => []IInv
  BY InitIInv, NextKeepsIInv, PTL DEF Spec

-----------------------------------------------------------------------------
\* The variables of the handoff always have their types.
THEOREM TypeCorrect == Spec => []TypeOK
<1>1. IInv => TypeOK
  BY DEF IInv
<1> QED
  BY <1>1, SpecIInv, PTL

\* Acquire and Release of apple_agx_gfx_handoff.c exclude the firmware from
\* the translation roots while State.Locked is set, whichever accesses fail.
THEOREM Exclusion == Spec => []MutualExclusion
<1>1. IInv => MutualExclusion
  BY DEF IInv
<1> QED
  BY <1>1, SpecIInv, PTL

-----------------------------------------------------------------------------
(* The refinement: a step either leaves the holders alone or is one of the *)
(* four steps below.                                                       *)

LEMMA DriverRefines ==
    ASSUME IInv,
           CallInitialize \/ CallAcquire \/ CallRelease \/ Deadline \/ Driver
    PROVE  [Abstract!Next]_holders
<1> USE DEF IInv, TypeOK, FlagUp, LockedFlag, LockedSteps, FwFlag,
        MutualExclusion, FwHolds, holders
<1>1. CASE ReadFw
  <2>1. CASE lock_fw = 0 /\ Locked' = TRUE
    <3>1. holders = {} /\ holders' = {"AP"}
      BY <1>1, <2>1 DEF ReadFw
    <3> QED
      BY <3>1 DEF Abstract!Next, Abstract!Enter, Abstract!Leave
  <2>2. CASE UNCHANGED Locked
    BY <1>1, <2>2 DEF ReadFw
  <2> QED
    BY <1>1, <2>1, <2>2 DEF ReadFw
<1>2. CASE LowerOut
  <2>1. CASE lock_ap' = 0 /\ Locked' = FALSE
    <3>1. holders = {"AP"} /\ holders' = {}
      BY <1>2, <2>1 DEF LowerOut
    <3> QED
      BY <3>1 DEF Abstract!Next, Abstract!Enter, Abstract!Leave
  <2>2. CASE Locked' = Locked
    BY <1>2, <2>2 DEF LowerOut
  <2> QED
    BY <1>2, <2>1, <2>2 DEF LowerOut
<1>3. CASE CallInitialize \/ CallAcquire
  BY <1>3 DEF CallInitialize, CallAcquire, StartCall
<1>4. CASE CallRelease \/ Deadline \/ Raise \/ ReadTurn \/ Relinquish \/ Lower
  BY <1>4 DEF CallRelease, Deadline, Raise, RaiseStep, ReadTurn, Relinquish,
     Lower
<1>5. CASE WaitTurn \/ AwaitMagic \/ TurnOut \/ Flush
  <2>1. UNCHANGED <<Locked, fw>>
    BY <1>5 DEF WaitTurn, AwaitMagic, TurnOut, Flush
  <2> QED
    BY <2>1
<1> QED
  BY <1>1, <1>2, <1>3, <1>4, <1>5 DEF Driver

LEMMA FirmwareRefines ==
    ASSUME IInv, FwTry \/ FwMagic \/ FwCrash \/ Firmware
    PROVE  [Abstract!Next]_holders
<1> USE DEF IInv, TypeOK, LockedFlag, FwFlag, MutualExclusion, FwHolds,
        holders, FwStep
<1>1. CASE FwCheck
  <2>1. CASE lock_ap = 0
    <3>1. holders = {} /\ holders' = {"FW"}
      BY <1>1, <2>1 DEF FwCheck
    <3> QED
      BY <3>1 DEF Abstract!Next, Abstract!Enter, Abstract!Leave
  <2>2. CASE lock_ap # 0
    BY <1>1, <2>2 DEF FwCheck
  <2> QED
    BY <2>1, <2>2
<1>2. CASE FwLeave
  <2>1. holders = {"FW"} /\ holders' = {}
    BY <1>2 DEF FwLeave
  <2> QED
    BY <2>1 DEF Abstract!Next, Abstract!Enter, Abstract!Leave
<1>3. CASE FwTry \/ FwRaise \/ FwTurn \/ FwLower \/ FwWait \/ FwPass
  BY <1>3 DEF FwTry, FwRaise, FwTurn, FwLower, FwWait, FwPass
<1>4. CASE FwMagic \/ FwCrash
  BY <1>4 DEF FwMagic, FwCrash
<1> QED
  BY <1>1, <1>2, <1>3, <1>4 DEF Firmware

\* The handoff implements a mutex between the driver and the firmware: every
\* behaviour of the polling protocol, its access failures and the firmware's
\* crashes included, is one of the abstract specification.
THEOREM Refinement == Spec => ImplementsMutex
<1>1. Init => Abstract!Init
  BY DEF Init, Abstract!Init, holders, FwHolds
<1>2. IInv /\ [Next]_vars => [Abstract!Next]_holders
  <2> SUFFICES ASSUME IInv, [Next]_vars PROVE [Abstract!Next]_holders
    OBVIOUS
  <2>1. CASE UNCHANGED vars
    BY <2>1 DEF vars, holders, FwHolds
  <2>2. CASE Next
    BY <2>2, DriverRefines, FirmwareRefines DEF Next
  <2> QED
    BY <2>1, <2>2
<1> QED
  BY <1>1, <1>2, SpecIInv, PTL DEF Spec, ImplementsMutex, Abstract!Spec
=============================================================================
