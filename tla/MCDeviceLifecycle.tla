------------------------- MODULE MCDeviceLifecycle --------------------------
(* The device life cycle needs no bound: its state space is finite.        *)
EXTENDS DeviceLifecycle
=============================================================================
