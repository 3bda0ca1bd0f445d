----------------------------- MODULE MCTouchpad -----------------------------
(* Three fingers, two identifiers, positions with ties. *)
EXTENDS TouchpadReports
=============================================================================
