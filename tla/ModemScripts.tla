---------------------------- MODULE ModemScripts ----------------------------
(***************************************************************************)
(* The scripts modem_on and modem_off of the imx233 as clients of the      *)
(* power manager.  An i2cset is acknowledged whenever SDA is low: it comes *)
(* back also while the ATmega is busy with a modem command, and is lost    *)
(* then; an i2cget reads zeros, and ones from the moment on at which the   *)
(* command ends (modules TwiSlave, TwiBus).  The kernel lets one transfer  *)
(* at a time on the bus, but the scripts use several.                      *)
(***************************************************************************)
EXTENDS PowerManager, FiniteSets

CONSTANTS Scripts,     \* processes that run scripts
          Pids,        \* process identifiers
          EXITS        \* bound on pppds that end by themselves

ASSUME ModemScriptsAssumption == EXITS \in Nat

NoFile == {"no file"}

VARIABLES at,           \* what a script does next, "idle" when none runs
          return_val,   \* what i2cget returned
          pppds,        \* external: the pppds that run
          pid_file,     \* /root/modem_on.pid
          exits,
          shown,        \* the modem state the register held when it was read
          manners       \* what has happened that the scripts do not guard against:
                        \* "hurried", a call before the modem has settled;
                        \* "overlapped", a call while another script runs;
                        \* "interposed", another client between select and get

scriptVars == <<at, return_val, pppds, pid_file, exits, shown, manners>>
managerVars == <<main, isr, timer1, tick, imx_key, modem_key, v3External,
                 modem_power_state, send_buff, reg_buf_position, sleep_counter,
                 sleep_cycle_counter, sleep_counter_factor, special_state, modem,
                 restarts, faults, impatient>>
allVars == <<managerVars, scriptVars>>

ScriptInit ==
    /\ Init
    /\ at = [s \in Scripts |-> "idle"]
    /\ return_val = [s \in Scripts |-> 0] /\ shown = [s \in Scripts |-> 0]
    /\ pppds = {} /\ pid_file = NoFile /\ exits = 0 /\ manners = {}

-----------------------------------------------------------------------------
Busy == isr # "none"
Settled == ~Busy /\ modem \in {"off", "on"}

Goes(s, from, to) == at[s] = from /\ at' = [at EXCEPT ![s] = to]

(* i2cset: the command is executed, or lost behind another one. *)
Set(command) == (~Busy /\ command) \/ (Busy /\ UNCHANGED managerVars)

(* Somebody calls a script, on an imx233 that has been switched on. *)
Call(s, script) ==
    /\ Goes(s, "idle", script)
    /\ main \in {"loop", "asleep"}
    /\ manners' = manners \cup {m \in {"hurried", "overlapped"} :
                                 \/ m = "hurried" /\ ~Settled
                                 \/ m = "overlapped" /\ \E t \in Scripts : at[t] # "idle"}
    /\ UNCHANGED <<managerVars, return_val, pppds, pid_file, exits, shown>>

GET_MODEM_POWER_STATE ==
    /\ SimpleCommand
    /\ Regs!set_regbuf_position(MODEM_POWER_STATE_POSITION)
    /\ UNCHANGED <<imx_key, v3External, timerVars>>

(* A slip: the register is read without being selected. *)
SelectNothing(s) ==
    /\ Goes(s, "modem_on", "get")
    /\ UNCHANGED <<managerVars, return_val, pppds, pid_file, exits, shown, manners>>

Select(s) ==
    /\ Goes(s, "modem_on", "get")
    /\ Set(GET_MODEM_POWER_STATE)
    /\ UNCHANGED <<return_val, pppds, pid_file, exits, shown, manners>>

(* i2cget, which does not move the position. *)
Get(s) ==
    /\ ~Busy /\ Goes(s, "get", "compare")
    /\ \E value \in Regs!ReadFrom(send_buff, reg_buf_position) :
          return_val' = [return_val EXCEPT ![s] = value]
    /\ shown' = [shown EXCEPT ![s] = send_buff[MODEM_POWER_STATE_POSITION]]
    /\ UNCHANGED <<managerVars, pppds, pid_file, exits, manners>>

GetBegins(s) ==
    /\ Busy /\ Goes(s, "get", "getting")
    /\ UNCHANGED <<managerVars, return_val, pppds, pid_file, exits, shown, manners>>

(* The last bits of a byte whose read outlasts the command are ones. *)
GetEnds(s) ==
    /\ Goes(s, "getting", "compare")
    /\ \E value \in IF Busy THEN {0} ELSE {0, 1, UINT8 - 1} :
          return_val' = [return_val EXCEPT ![s] = value]
    /\ shown' = [shown EXCEPT ![s] = send_buff[MODEM_POWER_STATE_POSITION]]
    /\ UNCHANGED <<managerVars, pppds, pid_file, exits, manners>>

(* The value is not used again. *)
Compare(s) ==
    /\ Goes(s, "compare", IF return_val[s] = 1 THEN "sleep" ELSE "start")
    /\ return_val' = [return_val EXCEPT ![s] = 0] /\ shown' = [shown EXCEPT ![s] = 0]
    /\ UNCHANGED <<managerVars, pppds, pid_file, exits, manners>>

Start(s) ==
    /\ Goes(s, "start", "sleep")
    /\ Set(POWER_UP_MODEM)
    /\ UNCHANGED <<return_val, pppds, pid_file, exits, shown, manners>>

(* A slip: the sleep is too short for the modem. *)
SleepsTooShort(s) ==
    /\ Goes(s, "sleep", "pon")
    /\ UNCHANGED <<managerVars, return_val, pppds, pid_file, exits, shown, manners>>

(* A slip: the command is repeated until the modem answers. *)
SleepsAndRetries(s) ==
    /\ Goes(s, "sleep", IF modem = "on" THEN "pon" ELSE "start")
    /\ UNCHANGED <<managerVars, return_val, pppds, pid_file, exits, shown, manners>>

(* Five seconds are enough for the key and the boot of the modem. *)
Sleeps(s) ==
    /\ Settled /\ Goes(s, "sleep", "pon")
    /\ UNCHANGED <<managerVars, return_val, pppds, pid_file, exits, shown, manners>>

(* pon starts one more pppd. *)
Pon(s) ==
    /\ Goes(s, "pon", "pid")
    /\ \E p \in Pids \ pppds : pppds' = pppds \cup {p}
    /\ UNCHANGED <<managerVars, return_val, pid_file, exits, shown, manners>>

(* A slip: only one pppd is expected. *)
WritePidOfOne(s) ==
    /\ Goes(s, "pid", "idle")
    /\ pid_file' = IF pppds = {} THEN {} ELSE {CHOOSE p \in pppds : TRUE}
    /\ UNCHANGED <<managerVars, return_val, pppds, exits, shown, manners>>

(* After a second ps lists the pppds. *)
WritePid(s) ==
    /\ Goes(s, "pid", "idle")
    /\ pid_file' = pppds
    /\ UNCHANGED <<managerVars, return_val, pppds, exits, shown, manners>>

-----------------------------------------------------------------------------
(* modem_off.  poff ends all pppds of the peer. *)
Poff(s) ==
    /\ Goes(s, "modem_off", "stop")
    /\ pppds' = {}
    /\ UNCHANGED <<managerVars, return_val, pid_file, exits, shown, manners>>

Stop(s) ==
    /\ Goes(s, "stop", "rm")
    /\ Set(POWER_DOWN_MODEM)
    /\ UNCHANGED <<return_val, pppds, pid_file, exits, shown, manners>>

Remove(s) ==
    /\ Goes(s, "rm", "idle")
    /\ pid_file' = NoFile
    /\ UNCHANGED <<managerVars, return_val, pppds, exits, shown, manners>>

-----------------------------------------------------------------------------
(* A pppd gives up without a modem or a network. *)
PppdExits ==
    /\ exits < EXITS /\ exits' = exits + 1
    /\ \E p \in pppds : pppds' = pppds \ {p}
    /\ UNCHANGED <<managerVars, at, return_val, pid_file, shown, manners>>

(* The nooli server and other programs read other registers. *)
OtherClient ==
    /\ ~Busy /\ (MOVE_REG_BUF_POSITION \/ ReadOn)
    /\ manners' = manners \cup {m \in {"interposed"} : \E s \in Scripts : at[s] = "get"}
    /\ UNCHANGED <<at, return_val, pppds, pid_file, exits, shown>>

Script(s) ==
    \/ Call(s, "modem_on") \/ Call(s, "modem_off")
    \/ Select(s) \/ Get(s) \/ GetBegins(s) \/ GetEnds(s) \/ Compare(s) \/ Start(s)
    \/ Sleeps(s) \/ Pon(s) \/ WritePid(s)
    \/ Poff(s) \/ Stop(s) \/ Remove(s)

(* What the manager and the modem do by themselves; the timer interrupt,   *)
(* which touches nothing a script sees, is left to PowerManager.           *)
Manager ==
    /\ Main \/ Handler \/ ModemSettles \/ ModemDies
    /\ UNCHANGED scriptVars

ScriptNext == (\E s \in Scripts : Script(s)) \/ OtherClient \/ PppdExits \/ Manager

ScriptSpec == ScriptInit /\ [][ScriptNext]_allVars

-----------------------------------------------------------------------------
(* Properties *)

(* Scripts are called one at a time and on a settled modem, and nobody     *)
(* else uses the bus between the two transfers of a read.                  *)
Polite == manners = {}

ScriptTypeOK ==
    /\ TypeOK
    /\ at \in [Scripts -> {"idle", "modem_on", "get", "getting", "compare", "start",
                           "sleep", "pon", "pid", "modem_off", "stop", "rm"}]
    /\ return_val \in [Scripts -> 0 .. UINT8 - 1]
    /\ pppds \subseteq Pids /\ (pid_file = NoFile \/ pid_file \subseteq Pids)
    /\ manners \subseteq {"hurried", "overlapped", "interposed"}

(* "Sleep for a while so that the modem is registered" (modem_on:56): when *)
(* the connection is asked for, the modem is on, as long as clients are    *)
(* polite and the modem does not die.  None of the three manners can be    *)
(* left out.                                                               *)
ModemOnBeforePon ==
    Polite /\ faults = 0 => \A s \in Scripts : at[s] = "pon" => modem = "on"

(* What modem_on compares is the state of the modem the register shows     *)
(* (modem_on:28-31): two transfers make one read.                          *)
ReadIsModemState ==
    Polite => \A s \in Scripts : at[s] = "compare" => return_val[s] = shown[s]

(* "Get the pid of the pppd, which is to be tracked by other services"     *)
(* (modem_on:65): when no script runs, every pppd that runs is in the      *)
(* file, also after hurried calls, among other clients and when the modem  *)
(* dies, as long as the scripts did not overlap.                           *)
Idle == \A s \in Scripts : at[s] = "idle"
EveryPppdTracked ==
    "overlapped" \notin manners /\ Idle => pppds \subseteq pid_file

(* The scripts are patient clients of the power manager, the ones its      *)
(* statements about the modem are about, also when the modem dies.         *)
PatientClients == Polite => impatient = 0
=============================================================================
