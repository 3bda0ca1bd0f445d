---------------------------- MODULE MCAppleInput ----------------------------
(* Two reports, two faults, two starts. *)
EXTENDS AppleInput
=============================================================================
