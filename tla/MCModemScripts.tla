--------------------------- MODULE MCModemScripts ---------------------------
(* The scripts on small instances; which script and which pppd is which    *)
(* does not matter.                                                        *)
EXTENDS ModemScripts, TLC

Interchangeable == Permutations(Scripts) \cup Permutations(Pids)
=============================================================================
