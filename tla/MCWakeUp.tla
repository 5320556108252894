------------------------------ MODULE MCWakeUp ------------------------------
(* WakeUp on small instances.                                                 *)
EXTENDS WakeUp
==============================================================================
