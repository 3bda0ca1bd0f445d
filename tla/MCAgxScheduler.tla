--------------------------- MODULE MCAgxScheduler ---------------------------
(* Small instances of the fence scheduler: identifiers wrap after a dozen   *)
(* submissions and the queue holds fewer packets than the window.           *)
EXTENDS AgxScheduler
=============================================================================
