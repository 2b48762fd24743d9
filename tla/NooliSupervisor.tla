--------------------------- MODULE NooliSupervisor ---------------------------
(***************************************************************************)
(* How the imx233 keeps the nooli server running: the init scripts         *)
(* S40nooli and S41nooliwd, and the watchdog daemon, which calls           *)
(* testnooliserver again and again and repairnooliserver when that fails.  *)
(* The daemon, start-stop-daemon and the server itself, a Java program,    *)
(* are external.                                                           *)
(***************************************************************************)
EXTENDS Naturals, FiniteSets

CONSTANTS Pids,        \* process identifiers
          CALLS,       \* bound on init scripts called by an operator
          CRASHES, REBOOTS,
          SLOW,        \* bound on looks at a server that is not a java process yet
          OTHERS       \* bound on starts and ends of another Java program

ASSUME NooliSupervisorAssumption == {CALLS, CRASHES, REBOOTS, SLOW, OTHERS} \subseteq Nat

Calls == {"S40nooli_stop", "S40nooli_restart", "S41nooliwd_stop", "S41nooliwd_restart"}

VARIABLES boot,        \* the init script that runs next, "up" after them
          launched,    \* servers started, which are still a shell script
          java,        \* servers that ps lists as java
          daemon,      \* "off", "idle", "repair" (the test has failed) or "start"
          term,        \* the daemon has got SIGTERM
          operator,    \* what an operator's call still has to do
          wanted,      \* the last S41nooliwd call wants the daemon to run
          other,       \* another Java program runs
          calls, crashes, reboots, slow, others

servers == launched \cup java
supervision == <<daemon, term, wanted>>
bounds == <<calls, crashes, reboots, slow, others>>
vars == <<boot, launched, java, supervision, operator, other, bounds>>

Init ==
    /\ boot = "S40nooli" /\ launched = {} /\ java = {}
    /\ daemon = "off" /\ term = FALSE /\ wanted = FALSE
    /\ operator = "none" /\ other = FALSE
    /\ calls = 0 /\ crashes = 0 /\ reboots = 0 /\ slow = 0 /\ others = 0

-----------------------------------------------------------------------------
(* S40nooli.  Nobody writes /var/run/nooli.pid, without which start-stop-  *)
(* daemon finds no process: it always starts one, and stops none.          *)
StartNooli ==
    /\ \E p \in Pids \ servers : launched' = launched \cup {p}
    /\ UNCHANGED java

StopNooli == UNCHANGED <<launched, java>>

(* S41nooliwd, where it looks for processes of /sbin/watchdog: starts none *)
(* beside one that runs, and sends SIGTERM without waiting.                *)
StartWatchdog ==
    /\ daemon' = IF daemon = "off" THEN "idle" ELSE daemon
    /\ wanted' = TRUE /\ UNCHANGED term

(* A slip: nothing is found by a pid file nobody writes. *)
StopWatchdogByFile == wanted' = FALSE /\ UNCHANGED <<daemon, term>>

StopWatchdog == term' = (daemon # "off") /\ wanted' = FALSE /\ UNCHANGED daemon

BootNooli ==
    /\ boot = "S40nooli" /\ boot' = "S41nooliwd"
    /\ StartNooli
    /\ UNCHANGED <<supervision, operator, other, bounds>>

BootWatchdog ==
    /\ boot = "S41nooliwd" /\ boot' = "up"
    /\ StartWatchdog
    /\ UNCHANGED <<launched, java, operator, other, bounds>>

Reboot ==
    /\ reboots < REBOOTS /\ reboots' = reboots + 1
    /\ boot' = "S40nooli" /\ launched' = {} /\ java' = {}
    /\ daemon' = "off" /\ term' = FALSE /\ wanted' = FALSE
    /\ operator' = "none" /\ other' = FALSE
    /\ UNCHANGED <<calls, crashes, slow, others>>

-----------------------------------------------------------------------------
(* start_nooli_server gets to the java command. *)
Launches ==
    /\ \E p \in launched : launched' = launched \ {p} /\ java' = java \cup {p}
    /\ UNCHANGED <<boot, supervision, operator, other, bounds>>

Crashes ==
    /\ crashes < CRASHES /\ crashes' = crashes + 1
    /\ \E p \in java : java' = java \ {p}
    /\ UNCHANGED <<boot, launched, supervision, operator, other, calls, reboots, slow, others>>

-----------------------------------------------------------------------------
(* Some program with java in its line. *)
OtherStartsOrEnds ==
    /\ others < OTHERS /\ others' = others + 1
    /\ other' = ~other
    /\ UNCHANGED <<boot, launched, java, supervision, operator, calls, crashes, reboots, slow>>

(* What ps lists, of whichever program. *)
Listed == java # {} \/ other

(* testnooliserver looks at test_program_csd, which nobody sets: it fails. *)
TestFails ==
    /\ daemon = "idle" /\ ~term /\ daemon' = "repair"
    /\ UNCHANGED <<boot, launched, java, term, wanted, operator, other, bounds>>

(* ps does not list a server whose start_nooli_server has not got to java; *)
(* such looks are counted.                                                 *)
Looks ==
    /\ daemon = "repair"
    /\ launched # {} => slow < SLOW
    /\ slow' = IF launched = {} THEN slow ELSE slow + 1
    /\ UNCHANGED <<boot, launched, java, term, wanted, operator, other, calls, crashes,
                   reboots, others>>

(* A slip: the repair script looks at the unset variable, too. *)
RepairLooksNowhere == Looks /\ daemon' = "start"

(* A slip: without grep -v grep the list is never empty. *)
RepairFindsItself == Looks /\ daemon' = "idle"

RepairLooks == Looks /\ daemon' = IF Listed THEN "idle" ELSE "start"

RepairStarts ==
    /\ daemon = "start" /\ daemon' = "idle"
    /\ StartNooli
    /\ UNCHANGED <<boot, term, wanted, operator, other, bounds>>

(* After repair-timeout the daemon reboots the system. *)
RepairTimesOut == daemon \in {"repair", "start"} /\ Reboot

DaemonLeaves ==
    /\ daemon = "idle" /\ term
    /\ daemon' = "off" /\ term' = FALSE
    /\ UNCHANGED <<boot, launched, java, wanted, operator, other, bounds>>

Daemon == TestFails \/ RepairLooks \/ RepairStarts \/ DaemonLeaves

-----------------------------------------------------------------------------
(* An operator calls one script at a time; restart is stop and start. *)
Call ==
    /\ boot = "up" /\ operator = "none" /\ calls < CALLS /\ calls' = calls + 1
    /\ operator' \in Calls
    /\ UNCHANGED <<boot, launched, java, supervision, other, crashes, reboots, slow, others>>

CallStopsNooli ==
    /\ operator \in {"S40nooli_stop", "S40nooli_restart"}
    /\ operator' = IF operator = "S40nooli_stop" THEN "none" ELSE "S40nooli_start"
    /\ StopNooli
    /\ UNCHANGED <<boot, supervision, other, bounds>>

CallStartsNooli ==
    /\ operator = "S40nooli_start" /\ operator' = "none"
    /\ StartNooli
    /\ UNCHANGED <<boot, supervision, other, bounds>>

CallStopsWatchdog ==
    /\ operator \in {"S41nooliwd_stop", "S41nooliwd_restart"}
    /\ operator' = IF operator = "S41nooliwd_stop" THEN "none" ELSE "S41nooliwd_start"
    /\ StopWatchdog
    /\ UNCHANGED <<boot, launched, java, other, bounds>>

CallStartsWatchdog ==
    /\ operator = "S41nooliwd_start" /\ operator' = "none"
    /\ StartWatchdog
    /\ UNCHANGED <<boot, launched, java, other, bounds>>

Operator ==
    CallStopsNooli \/ CallStartsNooli \/ CallStopsWatchdog \/ CallStartsWatchdog

InitScripts == BootNooli \/ BootWatchdog

Next ==
    \/ InitScripts \/ Launches \/ Crashes \/ Daemon \/ RepairTimesOut
    \/ Call \/ Operator \/ OtherStartsOrEnds

Spec == Init /\ [][Next]_vars

(* Scripts and the daemon, which are processes of their own, get on. *)
FairSpec ==
    /\ Spec
    /\ WF_vars(InitScripts) /\ WF_vars(Launches) /\ WF_vars(Daemon) /\ WF_vars(Operator)

-----------------------------------------------------------------------------
(* Properties *)

(* Although the test fails every time and the server is repaired all the   *)
(* time, there are never two servers on the serial line and the ports but  *)
(* for the operator's doing, one for each call, and for looks at a server  *)
(* that was not a java process yet: crashes and reboots may come between   *)
(* a look and the start it leads to (repairnooliserver:5-9).               *)
ServersAccountedFor == Cardinality(servers) <= 1 + calls + slow

(* A server that has crashed, also during the repair of another crash, is  *)
(* started again (repairnooliserver:7-9) as long as the daemon runs, and   *)
(* as soon as no other Java program runs.                                  *)
ServerRecovers == []<>(java # {} \/ other \/ daemon = "off")

(* S41nooliwd stop ends the daemon, in the middle of a repair as well,     *)
(* unless it is started again.                                             *)
WatchdogStops == boot = "up" /\ ~wanted ~> daemon = "off" \/ wanted
=============================================================================
