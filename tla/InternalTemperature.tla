------------------------- MODULE InternalTemperature -------------------------
(***************************************************************************)
(* The package internal_temperature: runs of the program, which share the  *)
(* converter of the imx233, and beside them a program that reaches any     *)
(* register through the window of imx233.c.  (The registers of the         *)
(* converter lie in one range: the window of the tools moves once.)        *)
(***************************************************************************)
EXTENDS TemperatureTool, RegisterWindow

vars == <<at, value, registers, alone, windowVars>>

Init == ToolsInit /\ WindowInit

Next ==
    \/ ToolsNext /\ UNCHANGED windowVars
    \/ WindowNext /\ UNCHANGED toolsVars

(* Programs run on and the converter converts. *)
Spec ==
    /\ Init /\ [][Next]_vars
    /\ WF_vars(Converter /\ UNCHANGED windowVars)
    /\ \A t \in Tools : WF_vars(Tool(t) /\ UNCHANGED windowVars)
=============================================================================
