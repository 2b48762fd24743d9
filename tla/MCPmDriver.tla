----------------------------- MODULE MCPmDriver -----------------------------
(* The kernel module on small instances. *)
EXTENDS PmDriver

Read == [op |-> "read", text |-> <<>>]
Modprobe == [op |-> "modprobe", text |-> <<>>]
Echo(text) == [op |-> "write", text |-> text]

(* Commands that differ in what they do, a text that is none and one that  *)
(* only begins like some, a read, and the script pwr_down.                 *)
SomeJobs ==
    {<<Read>>} \cup {<<Echo(Names[i])>> : i \in {s_alarm, set_nooli}}
       \cup {<<Echo(text)>> : text \in {<<"s">>, <<"s", "_", "alarm", "m">>}}
       \cup {PwrDown}

(* Of what s_alarm makes with these: none, and s_down_f, whose first 7     *)
(* bytes are compared if its head is written over that of s_alarm.         *)
MixedWithAlarm == {0, s_down_f}

(* The second process does less, but always after loading the module.      *)
OneOfTwo ==
    [p \in {1, 2} |->
       IF p = 1 THEN SomeJobs ELSE {<<Modprobe, Echo(Names[s_alarm])>>}]
=============================================================================
