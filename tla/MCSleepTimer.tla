---------------------------- MODULE MCSleepTimer ----------------------------
(* The wake-up timer on small instances; the configurations give the       *)
(* constants their values.                                                 *)
EXTENDS SleepTimer
=============================================================================
