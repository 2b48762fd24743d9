------------------------ MODULE MCInternalTemperature ------------------------
(* The temperature program and the register window on small instances. *)
EXTENDS InternalTemperature
=============================================================================
