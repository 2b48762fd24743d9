---------------------------- MODULE PowerManager ----------------------------
(***************************************************************************)
(* The firmware of the ATmega power manager: the main program, the command *)
(* handler, which runs inside the pin change interrupt routine with its    *)
(* delays, and the timer interrupt, together with the GSM modem it         *)
(* switches by PWRKEY and watches by STATUS.  Commands come from the I2C   *)
(* bus (module TwiBus) one at a time: the routine is not entered again     *)
(* while a command is being handled.                                       *)
(***************************************************************************)
EXTENDS Integers

CONSTANTS SLEEP_COUNTER_MAX, SLEEP_COUNTER_MINUTE, SLEEP_CYCLE_MAX, INT_HALF,
          FACTOR_BOUND,                   \* see SleepTimer
          REG_BUF_SIZE, UINT8,            \* see RegisterFile
          MODEM_POWER_STATE_POSITION,     \* 76 in the code
          CURRENT_SLEEP_DURATION_POSITION,\* 75 in the code
          RESTARTS,        \* bound on resets of the ATmega
          MODEM_FAULTS     \* bound on how often the modem dies by itself

(* A byte holds every position of the buffer. *)
ASSUME PowerManagerAssumption ==
    /\ UINT8 \in Nat \ {0, 1} /\ REG_BUF_SIZE \in 0 .. UINT8
    /\ {MODEM_POWER_STATE_POSITION, CURRENT_SLEEP_DURATION_POSITION}
          \subseteq 0 .. REG_BUF_SIZE - 1
    /\ MODEM_POWER_STATE_POSITION # CURRENT_SLEEP_DURATION_POSITION
    /\ RESTARTS \in Nat /\ MODEM_FAULTS \in Nat

VARIABLES main,       \* "start_up_wait", "imx_on", "loop", "asleep"
          isr,        \* the delay the command handler is in, "none" outside it
          timer1,     \* timer 1 runs, its interrupt is enabled
          tick        \* OCF1A, the flag of that interrupt

VARIABLES imx_key,    \* PD4, the PSWITCH line of the imx233
          modem_key,  \* PD7, the PWRKEY line of the modem
          v3External  \* PB0, the 3.3 V supply and the test LED

VARIABLES modem_power_state,
          send_buff, reg_buf_position,
          sleep_counter, sleep_cycle_counter, sleep_counter_factor, special_state

VARIABLES modem,      \* external: "off", "booting", "on", "halting"
          restarts, faults,
          impatient   \* 1 once a modem command has come to a modem not settled

Timer == INSTANCE SleepTimer
Regs  == INSTANCE RegisterFile

ASSUME TimerAssumption == Timer!SleepTimerAssumption

timerVars  == <<sleep_counter, sleep_cycle_counter, sleep_counter_factor, special_state>>
registers  == <<send_buff, reg_buf_position>>
processor  == <<main, isr, timer1, tick>>
pins       == <<imx_key, modem_key, v3External>>
history    == <<restarts, faults, impatient>>
modemVars  == <<modem_key, modem_power_state, modem>>
vars == <<processor, pins, modem_power_state, registers, timerVars, modem, history>>

(* initiate_global_variables, after a reset that leaves every pin low. *)
FirstBuffer ==
    [Regs!InitialBuffer EXCEPT ![CURRENT_SLEEP_DURATION_POSITION] = 1 % UINT8,
                               ![MODEM_POWER_STATE_POSITION] = 0]

Init ==
    /\ main = "start_up_wait" /\ isr = "none" /\ timer1 = FALSE /\ tick = FALSE
    /\ imx_key = FALSE /\ modem_key = FALSE /\ v3External = FALSE
    /\ modem_power_state = 0
    /\ send_buff = FirstBuffer /\ reg_buf_position = 0
    /\ Timer!Init
    /\ modem = "off" /\ restarts = 0 /\ faults = 0 /\ impatient = 0

-----------------------------------------------------------------------------
(* The main program, which runs while no interrupt routine does. *)
StartUpWaitEnds ==
    /\ isr = "none" /\ main = "start_up_wait"
    /\ main' = "imx_on" /\ imx_key' = TRUE
    /\ UNCHANGED <<isr, timer1, tick, modem_key, v3External, modem_power_state, registers,
                   timerVars, modem, history>>

ImxOnEnds ==
    /\ isr = "none" /\ main = "imx_on"
    /\ main' = "loop" /\ imx_key' = FALSE
    /\ UNCHANGED <<isr, timer1, tick, modem_key, v3External, modem_power_state, registers,
                   timerVars, modem, history>>

(* A slip: the timer is not started. *)
PowerOffWithoutTimer ==
    /\ isr = "none" /\ main = "loop"
    /\ main' = "asleep"
    /\ UNCHANGED <<isr, timer1, tick, pins, modem_power_state, registers, timerVars, modem,
                   history>>

(* power_off in the main loop. *)
power_off ==
    /\ isr = "none" /\ main = "loop"
    /\ main' = "asleep" /\ timer1' = TRUE
    /\ UNCHANGED <<isr, tick, pins, modem_power_state, registers, timerVars, modem,
                   history>>

Main == StartUpWaitEnds \/ ImxOnEnds \/ power_off

(* Any interrupt ends the sleep of the main program. *)
Awake == main' = IF main = "asleep" THEN "loop" ELSE main

-----------------------------------------------------------------------------
(* Timer 1 reaches OCR1A; the flag holds one interrupt. *)
TimerMatches ==
    /\ timer1 /\ ~tick /\ tick' = TRUE
    /\ UNCHANGED <<main, isr, timer1, pins, modem_power_state, registers, timerVars, modem,
                   history>>

(* A slip: the command goes back to sleep. *)
TimerInterruptSleepsOn ==
    /\ tick /\ isr \in {"none", "power_off"}
    /\ tick' = FALSE
    /\ Timer!TIMER1_COMPA
    /\ IF isr = "none" THEN Awake ELSE UNCHANGED main
    /\ UNCHANGED <<isr, timer1, pins, modem_power_state, registers, modem, history>>

(* The timer interrupt is served outside the command handler, or inside it *)
(* while a POWER_OFF command sleeps with interrupts enabled.  That sleep   *)
(* then ends, and with it the handler: nothing else can end it, the pin    *)
(* change interrupt being disabled.                                        *)
TimerInterrupt ==
    /\ tick /\ isr \in {"none", "power_off"}
    /\ tick' = FALSE /\ isr' = "none"
    /\ Timer!TIMER1_COMPA
    /\ IF isr = "none" THEN Awake ELSE UNCHANGED main
    /\ UNCHANGED <<timer1, pins, modem_power_state, registers, modem, history>>

-----------------------------------------------------------------------------
(* A command is received.  The imx233 sends none before its key was        *)
(* pressed, unless it was running when the ATmega was reset.               *)
Receive ==
    /\ isr = "none"
    /\ main \in {"loop", "asleep"} \/ restarts > 0
    /\ Awake
    /\ UNCHANGED <<tick, restarts, faults>>

ModemCommand ==
    /\ Receive
    /\ impatient' = IF modem \in {"off", "on"} THEN impatient ELSE 1
    /\ UNCHANGED <<timer1, imx_key, v3External, registers, timerVars, modem>>

STATUS == modem \in {"on", "halting"}

get_modem_status == modem_power_state' = IF STATUS THEN 1 ELSE 0

(* A slip: the state is looked at, and ignored. *)
ModemOnRegardless ==
    /\ ModemCommand /\ get_modem_status
    /\ modem_key' = TRUE /\ isr' = "on"

(* modem_on: the key is pressed unless the modem is on. *)
POWER_UP_MODEM ==
    /\ ModemCommand /\ get_modem_status
    /\ IF STATUS THEN isr' = "none" /\ UNCHANGED modem_key
       ELSE isr' = "on" /\ modem_key' = TRUE

(* modem_off: the key is let go for a moment, then pressed. *)
POWER_DOWN_MODEM ==
    /\ ModemCommand /\ get_modem_status
    /\ IF STATUS THEN isr' = "off_settle" /\ modem_key' = FALSE
       ELSE isr' = "none" /\ UNCHANGED modem_key

(* modem_on, a second's delay, modem_off. *)
RESET_MODEM ==
    /\ ModemCommand /\ get_modem_status
    /\ IF STATUS THEN isr' = "reset_wait" /\ UNCHANGED modem_key
       ELSE isr' = "reset_on" /\ modem_key' = TRUE

(* What a key pressed for a second makes of the modem; one that is still   *)
(* booting or halting may or may not take notice.                          *)
AfterKey ==
    {m \in {"booting", "halting"} :
        /\ modem = "off" => m = "booting"
        /\ modem = "on" => m = "halting"}

HandlerOnly == UNCHANGED <<main, timer1, tick, imx_key, v3External, reg_buf_position,
                           timerVars, history>>

ReportModem(state) ==
    /\ modem_power_state' = state
    /\ send_buff' = Regs!Stored(state, MODEM_POWER_STATE_POSITION)

(* A slip: the key stays pressed. *)
KeyKept == modem_key' = TRUE /\ modem' \in AfterKey

KeyReleased == modem_key' = FALSE /\ modem' \in AfterKey

ModemOnEnds ==
    /\ isr \in {"on", "reset_on"}
    /\ KeyReleased /\ ReportModem(1)
    /\ isr' = IF isr = "on" THEN "none" ELSE "reset_wait"
    /\ HandlerOnly

(* A slip: modem_off no longer asks for the state. *)
ResetWaitRegardless ==
    /\ isr = "reset_wait"
    /\ get_modem_status
    /\ isr' = "off_settle" /\ modem_key' = FALSE
    /\ HandlerOnly /\ UNCHANGED <<send_buff, modem>>

ResetWaitEnds ==
    /\ isr = "reset_wait"
    /\ get_modem_status
    /\ IF STATUS THEN isr' = "off_settle" /\ modem_key' = FALSE
       ELSE isr' = "none" /\ UNCHANGED modem_key
    /\ HandlerOnly /\ UNCHANGED <<send_buff, modem>>

OffSettleEnds ==
    /\ isr = "off_settle"
    /\ isr' = "off" /\ modem_key' = TRUE
    /\ HandlerOnly /\ UNCHANGED <<send_buff, modem_power_state, modem>>

ModemOffEnds ==
    /\ isr = "off"
    /\ KeyReleased /\ ReportModem(0)
    /\ isr' = "none"
    /\ HandlerOnly

Handler == ModemOnEnds \/ ResetWaitEnds \/ OffSettleEnds \/ ModemOffEnds

-----------------------------------------------------------------------------
(* power_off called by the command: the timer is started and the processor *)
(* sleeps inside the interrupt routine.                                    *)
POWER_OFF ==
    /\ Receive
    /\ isr' = "power_off" /\ timer1' = TRUE
    /\ UNCHANGED <<pins, modem_power_state, registers, timerVars, modem, impatient>>

SimpleCommand == Receive /\ UNCHANGED <<isr, timer1, modemVars, impatient>>

(* Both commands also keep PD5, the recovery line, low. *)
SET_PSWITCH(high) ==
    /\ SimpleCommand
    /\ imx_key' = high
    /\ UNCHANGED <<v3External, registers, timerVars>>

(* The test LED and the 3.3 V supply hang on one pin. *)
POWER_3V3_EXTERNAL(up) ==
    /\ SimpleCommand
    /\ v3External' = up
    /\ UNCHANGED <<imx_key, registers, timerVars>>

MOVE_REG_BUF_POSITION ==
    /\ SimpleCommand
    /\ \/ Regs!increment_regbuf_position
       \/ Regs!decrement_regbuf_position
       \/ Regs!reset_regbuf_position
       \/ \E p \in {MODEM_POWER_STATE_POSITION, CURRENT_SLEEP_DURATION_POSITION} :
             Regs!set_regbuf_position(p)
    /\ UNCHANGED <<imx_key, v3External, timerVars>>

(* A read of more than one byte moves the position too. *)
ReadOn ==
    /\ SimpleCommand
    /\ Regs!advance_regbuf_position
    /\ UNCHANGED <<imx_key, v3External, timerVars>>

ReportFactor ==
    Regs!set_twi_regs_buf_withposition(sleep_counter_factor', CURRENT_SLEEP_DURATION_POSITION)

(* A slip: the new factor is not reported. *)
IncrementUnreported ==
    /\ SimpleCommand
    /\ Timer!IncrementFactor
    /\ UNCHANGED <<registers, imx_key, v3External>>

INCREMENT_SLEEP_COUNTER_FACTOR ==
    /\ SimpleCommand
    /\ Timer!IncrementFactor /\ ReportFactor
    /\ UNCHANGED <<imx_key, v3External>>

DECREMENT_SLEEP_COUNTER_FACTOR ==
    /\ SimpleCommand
    /\ Timer!DecrementFactor /\ ReportFactor
    /\ UNCHANGED <<imx_key, v3External>>

(* The commands without an effect, the reserved and unknown ones: like     *)
(* every pin change they wake the main program.                            *)
IgnoredCommand ==
    /\ SimpleCommand
    /\ UNCHANGED <<imx_key, v3External, registers, timerVars>>

Command ==
    \/ IgnoredCommand
    \/ POWER_UP_MODEM \/ POWER_DOWN_MODEM \/ RESET_MODEM
    \/ POWER_OFF
    \/ \E b \in BOOLEAN : SET_PSWITCH(b) \/ POWER_3V3_EXTERNAL(b)
    \/ MOVE_REG_BUF_POSITION \/ ReadOn
    \/ INCREMENT_SLEEP_COUNTER_FACTOR \/ DECREMENT_SLEEP_COUNTER_FACTOR

-----------------------------------------------------------------------------
(* The modem finishes booting or halting. *)
ModemSettles ==
    /\ \/ modem = "booting" /\ modem' = "on"
       \/ modem = "halting" /\ modem' = "off"
    /\ UNCHANGED <<processor, pins, modem_power_state, registers, timerVars, history>>

(* It loses power or crashes. *)
ModemDies ==
    /\ modem # "off" /\ faults < MODEM_FAULTS
    /\ modem' = "off" /\ faults' = faults + 1
    /\ UNCHANGED <<processor, pins, modem_power_state, registers, timerVars, restarts, impatient>>

(* A slip: the line is left as it is. *)
TimerInitiatedButLine ==
    /\ sleep_counter' = 0 /\ sleep_cycle_counter' = 0
    /\ sleep_counter_factor' = 1
    /\ UNCHANGED special_state

TimerInitiated ==
    /\ sleep_counter' = 0 /\ sleep_cycle_counter' = 0
    /\ sleep_counter_factor' = 1
    /\ special_state' = TRUE

(* The ATmega is reset.  The modem stays as it is; a key press cut short   *)
(* may still have been long enough.                                        *)
Restart ==
    /\ restarts < RESTARTS /\ restarts' = restarts + 1
    /\ main' = "start_up_wait" /\ isr' = "none" /\ timer1' = FALSE /\ tick' = FALSE
    /\ imx_key' = FALSE /\ modem_key' = FALSE /\ v3External' = FALSE
    /\ modem_power_state' = 0
    /\ send_buff' = FirstBuffer /\ reg_buf_position' = 0
    /\ TimerInitiated
    /\ modem' \in {modem} \cup IF modem_key THEN AfterKey ELSE {}
    /\ UNCHANGED <<faults, impatient>>

Next ==
    \/ Main \/ TimerMatches \/ TimerInterrupt \/ Command \/ Handler
    \/ ModemSettles \/ ModemDies \/ Restart

Spec == Init /\ [][Next]_vars

(* Delays end and the timer counts.  The pin change interrupt has priority *)
(* over the timer's, but between two transfers the bus is quiet for longer *)
(* than it takes to enter an interrupt routine, so that a pending timer    *)
(* interrupt is served, and the main program gets on, if the command       *)
(* handler ends again and again.                                           *)
FairSpec ==
    /\ Spec
    /\ WF_vars(Handler) /\ WF_vars(TimerMatches) /\ WF_vars(ModemSettles)
    /\ SF_vars(TimerInterrupt) /\ SF_vars(Main)

-----------------------------------------------------------------------------
TypeOK ==
    /\ main \in {"start_up_wait", "imx_on", "loop", "asleep"}
    /\ isr \in {"none", "on", "reset_on", "reset_wait", "off_settle", "off", "power_off"}
    /\ {timer1, tick, imx_key, modem_key, v3External} \subseteq BOOLEAN
    /\ modem_power_state \in {0, 1}
    /\ Regs!TypeOK
    /\ Timer!TypeOK
    /\ modem \in {"off", "booting", "on", "halting"}
    /\ restarts \in 0 .. RESTARTS /\ faults \in 0 .. MODEM_FAULTS /\ impatient \in {0, 1}

(* Whoever sleeps can be woken: the main loop and the POWER_OFF command    *)
(* (power_control.c:76-82) sleep only with the timer running, which is the *)
(* one interrupt that ends the sleep of a command.                         *)
SleepEnds == main = "asleep" \/ isr = "power_off" => timer1

(* The register a client reads with GET_CURRENT_SLEEP_DURATION is the      *)
(* factor in force, cut to a byte, whatever resets and commands came.      *)
DurationReported ==
    send_buff[CURRENT_SLEEP_DURATION_POSITION] = sleep_counter_factor % UINT8

(* PWRKEY is pressed exactly in the two delays meant for it: no command,   *)
(* reset or early return leaves the key of the modem pressed.              *)
KeyOnlyInPulse == modem_key <=> isr \in {"on", "reset_on", "off"}

(* Outside the handler, register MODEM_POWER_STATE_POSITION tells the      *)
(* power state of the modem, although STATUS follows the key late and the  *)
(* reset command looks at it once more after a second: as long as clients  *)
(* have waited for the modem to settle and nothing has failed.             *)
Undisturbed == impatient = 0 /\ restarts = 0 /\ faults = 0
PoweredOn == modem \in {"booting", "on"}
Reported(state) == send_buff[MODEM_POWER_STATE_POSITION] = state
ReportMatchesModem ==
    Undisturbed /\ isr = "none" => (PoweredOn <=> Reported(1)) /\ (~PoweredOn <=> Reported(0))

(* The key is never pressed on a modem that is booting or halting, where   *)
(* nobody knows what it does, while clients are patient and nothing fails. *)
KeyFindsSettledModem ==
    [][Undisturbed' /\ modem_key' /\ ~modem_key => modem \in {"off", "on"}]_vars

(* Over the whole firmware, wherever a command sleeps or delays the timer  *)
(* interrupt, the imx233 gets the duty cycle of module DutyCycle, whole    *)
(* pulses at least SLEEP_COUNTER_MAX timer interrupts apart; a reset of    *)
(* the ATmega starts a pulse anew.                                         *)
WakeUpDuty ==
    /\ Timer!Duty!Init
    /\ [][Timer!Duty!Next \/ Timer!Duty!Init']_(Timer!Duty!dutyVars)

(* Every command ends, also POWER_OFF, which sleeps in the routine: the    *)
(* bus, whose SDA it holds low meanwhile, becomes free again.              *)
CommandEnds == isr # "none" ~> isr = "none"

(* The wake-up line rises and falls for ever, whatever commands come and   *)
(* wherever they sleep.                                                    *)
WakeUpRecurs == []<>special_state /\ []<>~special_state
=============================================================================
