--------------------------- MODULE MCPowerManager ---------------------------
(* The power manager on small instances; the configurations give the       *)
(* constants their values.                                                 *)
EXTENDS PowerManager
=============================================================================
