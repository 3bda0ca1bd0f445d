---------------------------- MODULE MCGfxHandoff ----------------------------
(* The handoff lock with as many calls as a start and a stop make.          *)
EXTENDS GfxHandoff
=============================================================================
