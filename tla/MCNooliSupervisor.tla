-------------------------- MODULE MCNooliSupervisor --------------------------
(* The supervision on small instances. *)
EXTENDS NooliSupervisor
=============================================================================
