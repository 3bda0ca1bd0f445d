-------------------------------- MODULE Mutex --------------------------------
(***************************************************************************)
(* What a handoff between parties that share one resource promises: at     *)
(* most one party holds it, it is taken only when nobody holds it, and     *)
(* only its holder gives it back.                                          *)
(***************************************************************************)
CONSTANT Parties
VARIABLE holders

Init == holders = {}

Enter(p) ==
    /\ holders = {}
    /\ holders' = {p}

Leave(p) ==
    /\ holders = {p}
    /\ holders' = {}

Next == \E p \in Parties : Enter(p) \/ Leave(p)

Spec == Init /\ [][Next]_holders
=============================================================================
