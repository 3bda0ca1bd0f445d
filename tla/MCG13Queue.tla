------------------------------ MODULE MCG13Queue ------------------------------
(* G13Queue with the constants of the configuration files.                   *)
EXTENDS G13Queue
===============================================================================
