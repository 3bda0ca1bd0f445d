------------------------------ MODULE JobEngine ------------------------------
(***************************************************************************)
(* What the queue stack promises the render worker of the kernel driver,   *)
(* without rings, pointers, stamps or events: it takes one job at a time,  *)
(* the hardware may perform that job once while it is the one taken, and   *)
(* every job the stack takes gets at most one verdict.  "success" is only  *)
(* given to a job that was performed, and a refused job never is.          *)
(***************************************************************************)
EXTENDS Naturals

CONSTANT Fences     \* the fences Windows may number jobs with

VARIABLES taken,      \* the fence of the job the stack holds, 0 when none
          performed,  \* the fences whose work the hardware has done
          verdict     \* what the worker was told about each fence

vars == <<taken, performed, verdict>>

Init == /\ taken = 0
        /\ performed = {}
        /\ verdict = [f \in Fences |-> "none"]

Take(f) == /\ taken = 0 /\ verdict[f] = "none"
           /\ taken' = f
           /\ UNCHANGED <<performed, verdict>>

Refuse(f) == /\ verdict[f] = "none" /\ f \notin performed
             /\ taken \in {0, f} /\ taken' = 0
             /\ verdict' = [verdict EXCEPT ![f] = "refused"]
             /\ UNCHANGED performed

Perform == /\ taken # 0 /\ taken \notin performed
           /\ performed' = performed \cup {taken}
           /\ UNCHANGED <<taken, verdict>>

End(v) == /\ taken # 0
          /\ v = "success" => taken \in performed
          /\ verdict' = [verdict EXCEPT ![taken] = v]
          /\ taken' = 0
          /\ UNCHANGED performed

Next == \/ \E f \in Fences : Take(f) \/ Refuse(f)
        \/ Perform
        \/ \E v \in {"success", "dropped", "cancelled"} : End(v)

Spec == Init /\ [][Next]_vars
=============================================================================
