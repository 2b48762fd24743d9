------------------------- MODULE PowerManagerProofs -------------------------
(***************************************************************************)
(* Theorems about the wake-up timer; about the power manager it is part    *)
(* of, for every value of its constants (any buffer size, any register     *)
(* positions, any number of resets and modem faults); and about the        *)
(* scripts modem_on and modem_off that use it, for any number of scripts   *)
(* and pppds.                                                              *)
(***************************************************************************)
EXTENDS ModemScripts, TLAPS

-----------------------------------------------------------------------------
(* The wake-up timer by itself.  The theorems assume FactorFits: the bound *)
(* on the factor keeps the product of power_control.c:103 inside an int.   *)
(* Run sleep_timer_overflow shows what happens one factor further.         *)

(* Within the bound a factor's threshold is its exact product, and so lies *)
(* between SLEEP_COUNTER_MAX and the largest int.                          *)
LEMMA ThresholdBounds ==
    ASSUME Timer!FactorFits, sleep_counter_factor \in 1 .. FACTOR_BOUND
    PROVE  /\ Timer!Threshold \in Int
           /\ SLEEP_COUNTER_MAX <= Timer!Threshold
           /\ Timer!Threshold < INT_HALF
<1> DEFINE product == sleep_counter_factor * SLEEP_COUNTER_MAX
<1>1. /\ sleep_counter_factor \in Nat /\ 1 <= sleep_counter_factor
      /\ sleep_counter_factor <= FACTOR_BOUND
      /\ FACTOR_BOUND \in Nat /\ SLEEP_COUNTER_MAX \in Nat /\ INT_HALF \in Nat
  BY TimerAssumption DEF Timer!SleepTimerAssumption
<1>2. \A a, b, c \in Nat : a <= b => a * c <= b * c
  OBVIOUS
<1>3. product \in Nat /\ SLEEP_COUNTER_MAX <= product
  BY <1>1, <1>2
<1>4. product <= FACTOR_BOUND * SLEEP_COUNTER_MAX
  BY <1>1, <1>2
<1>5. product < INT_HALF
  BY <1>1, <1>3, <1>4 DEF Timer!FactorFits
<1>6. \A p, h \in Nat : p < h => ((p + h) % (2 * h)) - h = p
  OBVIOUS
<1>7. Timer!AsInt(product) = product
  BY <1>1, <1>3, <1>5, <1>6 DEF Timer!AsInt
<1> QED
  BY <1>1, <1>3, <1>5, <1>7 DEF Timer!Threshold

(* The factor is stored without loss within the bound.                     *)
LEMMA FactorStored ==
    ASSUME sleep_counter_factor \in 1 .. FACTOR_BOUND,
           sleep_counter_factor < FACTOR_BOUND
    PROVE  Timer!AsInt(sleep_counter_factor + 1) = sleep_counter_factor + 1
BY TimerAssumption DEF Timer!SleepTimerAssumption, Timer!AsInt

-----------------------------------------------------------------------------
(* The inductive invariant: line 99 counts from one below the threshold of *)
(* some factor, which is an int; the line follows the counter.             *)
TimerInv == Timer!TypeOK /\ Timer!LineFollowsCounter

(* The timer starts within its ranges, the line low.                       *)
LEMMA InitEstablishesTimerInv == Timer!Init => TimerInv
BY TimerAssumption DEF Timer!SleepTimerAssumption, Timer!Init, TimerInv, Timer!TypeOK, Timer!LineFollowsCounter

(* Every tick and every factor command keeps the invariant.                *)
LEMMA StepKeepsTimerInv ==
    ASSUME Timer!FactorFits, TimerInv, [Timer!Next]_(Timer!timerVars)
    PROVE  TimerInv'
<1> USE TimerAssumption DEF Timer!SleepTimerAssumption, TimerInv, Timer!TypeOK
<1>0. /\ Timer!Threshold \in Int /\ SLEEP_COUNTER_MAX <= Timer!Threshold /\ Timer!Threshold < INT_HALF
  BY ThresholdBounds
<1>1. CASE Timer!Count
  <2>1. Timer!TypeOK'
    BY <1>0, <1>1 DEF Timer!Count, Timer!ThresholdReached
  <2>2. special_state' <=> special_state /\ sleep_counter + 1 # SLEEP_COUNTER_MINUTE
    BY <1>1 DEF Timer!Count
  <2>3. /\ sleep_counter' = sleep_counter + 1
        /\ sleep_cycle_counter' = sleep_cycle_counter
    BY <1>1 DEF Timer!Count
  <2>4. Timer!LineFollowsCounter'
    BY <2>2, <2>3 DEF Timer!LineFollowsCounter
  <2> QED
    BY <2>1, <2>4
<1>2. CASE Timer!EndCycle
  <2>1. Timer!TypeOK'
    BY <1>2 DEF Timer!EndCycle
  <2>2. sleep_counter >= SLEEP_COUNTER_MINUTE
    BY <1>0, <1>2 DEF Timer!EndCycle, Timer!ThresholdReached
  <2>3. Timer!LineFollowsCounter'
    BY <1>2, <2>2 DEF Timer!EndCycle, Timer!LineFollowsCounter
  <2> QED
    BY <2>1, <2>3
<1>3. CASE Timer!Raise
  BY <1>3 DEF Timer!Raise, Timer!LineFollowsCounter
<1>4. CASE Timer!IncrementFactor
  <2>1. sleep_counter_factor' = sleep_counter_factor + 1
    BY <1>4, FactorStored DEF Timer!IncrementFactor
  <2> QED
    BY <1>4, <2>1 DEF Timer!IncrementFactor, Timer!counters, Timer!LineFollowsCounter
<1>5. CASE Timer!DecrementFactor
  BY <1>5 DEF Timer!DecrementFactor, Timer!counters, Timer!LineFollowsCounter
<1>6. CASE UNCHANGED Timer!timerVars
  BY <1>6 DEF Timer!timerVars, Timer!LineFollowsCounter
<1> QED
  BY <1>1, <1>2, <1>3, <1>4, <1>5, <1>6 DEF Timer!Next, Timer!TIMER1_COMPA

(* The four variables of the timer keep to their ranges: neither counter    *)
(* of the interrupt routine ever overflows.                                *)
THEOREM TimerTypeCorrect ==
    ASSUME Timer!FactorFits
    PROVE  Timer!Spec => []Timer!TypeOK
<1>1. TimerInv /\ [Timer!Next]_(Timer!timerVars) => TimerInv'
  BY StepKeepsTimerInv
<1>2. TimerInv => Timer!TypeOK
  BY DEF TimerInv
<1> QED
  BY InitEstablishesTimerInv, <1>1, <1>2, PTL DEF Timer!Spec

(* Under every sequence of ticks and factor commands the wake-up line is   *)
(* high in exactly the first SLEEP_COUNTER_MINUTE periods after a rise.    *)
THEOREM LineFollowsCounterAlways ==
    ASSUME Timer!FactorFits
    PROVE  Timer!Spec => []Timer!LineFollowsCounter
<1>1. TimerInv /\ [Timer!Next]_(Timer!timerVars) => TimerInv'
  BY StepKeepsTimerInv
<1>2. TimerInv => Timer!LineFollowsCounter
  BY DEF TimerInv
<1> QED
  BY InitEstablishesTimerInv, <1>1, <1>2, PTL DEF Timer!Spec

-----------------------------------------------------------------------------
(* The refinement of module DutyCycle: every step of the timer ages the    *)
(* pulse, raises the line no sooner than allowed, or changes nothing.      *)
LEMMA StepRefinesDutyCycle ==
    ASSUME Timer!FactorFits, TimerInv, TimerInv', [Timer!Next]_(Timer!timerVars)
    PROVE  [Timer!Duty!Next]_(Timer!Duty!dutyVars)
<1> USE TimerAssumption DEF Timer!SleepTimerAssumption, TimerInv, Timer!TypeOK
<1> DEFINE age == IF sleep_cycle_counter = 0 /\ sleep_counter < SLEEP_COUNTER_MAX
                  THEN sleep_counter ELSE SLEEP_COUNTER_MAX
<1>0. /\ Timer!Threshold \in Int /\ SLEEP_COUNTER_MAX <= Timer!Threshold /\ Timer!Threshold < INT_HALF
  BY ThresholdBounds
<1>1. CASE Timer!Count
  <2>1. age' = IF age < SLEEP_COUNTER_MAX THEN age + 1 ELSE SLEEP_COUNTER_MAX
    BY <1>1 DEF Timer!Count
  <2>2. special_state' = (special_state /\ sleep_counter + 1 # SLEEP_COUNTER_MINUTE)
    BY <1>1 DEF Timer!Count
  <2>3. special_state => age = sleep_counter
    BY DEF Timer!LineFollowsCounter
  <2>4. special_state' = (special_state /\ age + 1 # SLEEP_COUNTER_MINUTE)
    BY <2>2, <2>3
  <2>5. Timer!Duty!Age
    BY <2>1, <2>4 DEF Timer!Duty!Age, Timer!Duty!OneOlder
  <2> QED
    BY <2>5 DEF Timer!Duty!Next
<1>2. CASE Timer!EndCycle
  <2>1. sleep_counter + 1 >= SLEEP_COUNTER_MAX
    BY <1>0, <1>2 DEF Timer!EndCycle, Timer!ThresholdReached
  <2>2. age' = SLEEP_COUNTER_MAX /\ age + 1 >= SLEEP_COUNTER_MAX
    BY <1>2, <2>1 DEF Timer!EndCycle
  <2>3. age' = IF age < SLEEP_COUNTER_MAX THEN age + 1 ELSE SLEEP_COUNTER_MAX
    BY <2>2
  <2>4. ~special_state /\ special_state' = special_state
    BY <1>2, <2>1 DEF Timer!EndCycle, Timer!LineFollowsCounter
  <2>5. Timer!Duty!Age
    BY <2>3, <2>4 DEF Timer!Duty!Age, Timer!Duty!OneOlder
  <2> QED
    BY <2>5 DEF Timer!Duty!Next
<1>3. CASE Timer!Raise
  <2>1. sleep_counter + 1 >= SLEEP_COUNTER_MAX
    BY <1>0, <1>3 DEF Timer!Raise, Timer!ThresholdReached
  <2>2. age + 1 >= SLEEP_COUNTER_MAX
    BY <2>1
  <2>3. special_state' = TRUE /\ age' = 0
    BY <1>3 DEF Timer!Raise
  <2> QED
    BY <2>2, <2>3 DEF Timer!Duty!Next, Timer!Duty!Rise
<1>4. CASE UNCHANGED <<Timer!counters, special_state>>
  BY <1>4 DEF Timer!counters, Timer!Duty!dutyVars
<1>5. CASE Timer!IncrementFactor \/ Timer!DecrementFactor
  BY <1>4, <1>5 DEF Timer!IncrementFactor, Timer!DecrementFactor
<1>6. CASE UNCHANGED Timer!timerVars
  BY <1>4, <1>6 DEF Timer!timerVars, Timer!counters
<1> QED
  BY <1>1, <1>2, <1>3, <1>5, <1>6 DEF Timer!Next, Timer!TIMER1_COMPA

(* The timer gives the imx233 the duty cycle it promises: pulses of        *)
(* exactly SLEEP_COUNTER_MINUTE periods, SLEEP_COUNTER_MAX periods apart   *)
(* at least, whatever the factor commands do meanwhile.                    *)
THEOREM TimerImplementsDutyCycle ==
    ASSUME Timer!FactorFits
    PROVE  Timer!Spec => Timer!DutyCycleSpec
<1>1. Timer!Init => Timer!Duty!Init
  BY TimerAssumption DEF Timer!SleepTimerAssumption, Timer!Init, Timer!Duty!Init
<1>2. TimerInv /\ [Timer!Next]_(Timer!timerVars) => TimerInv'
  BY StepKeepsTimerInv
<1>3. TimerInv /\ TimerInv' /\ [Timer!Next]_(Timer!timerVars) => [Timer!Duty!Next]_(Timer!Duty!dutyVars)
  BY StepRefinesDutyCycle
<1> QED
  BY InitEstablishesTimerInv, <1>1, <1>2, <1>3, PTL
     DEF Timer!Spec, Timer!DutyCycleSpec, Timer!Duty!Spec

-----------------------------------------------------------------------------
(* The power manager, whoever its clients are. *)

(* The shape of the state the proofs need. *)
Shape ==
    /\ send_buff = [i \in 0 .. REG_BUF_SIZE - 1 |-> send_buff[i]]
    /\ modem_key \in BOOLEAN /\ timer1 \in BOOLEAN
    /\ restarts \in Nat /\ faults \in Nat /\ impatient \in {0, 1}

(* What the handler knows of the modem in each of its delays, as long as   *)
(* nothing fails: STATUS, read before the delay, still holds after it.     *)
StageMatchesModem ==
    /\ isr \in {"none", "power_off"} =>
          (PoweredOn /\ Reported(1)) \/ (modem \in {"off", "halting"} /\ Reported(0))
    /\ isr \in {"on", "reset_on"} => modem = "off" /\ Reported(0)
    /\ isr = "reset_wait" => PoweredOn /\ Reported(1)
    /\ isr \in {"off_settle", "off"} => modem = "on" /\ Reported(1)

(* The inductive invariant. *)
PowerInv ==
    /\ Shape
    /\ SleepEnds /\ DurationReported /\ KeyOnlyInPulse
    /\ Undisturbed => StageMatchesModem

(* The registers of the two reports are different places of the buffer,    *)
(* whatever value is stored.                                               *)
LEMMA StoredAtPosition ==
    ASSUME send_buff = [i \in 0 .. REG_BUF_SIZE - 1 |-> send_buff[i]],
           NEW value, NEW position \in 0 .. REG_BUF_SIZE - 1
    PROVE  LET stored == Regs!Stored(value, position)
           IN  /\ stored = [i \in 0 .. REG_BUF_SIZE - 1 |-> stored[i]]
               /\ stored[position] = value % UINT8
               /\ \A i \in 0 .. REG_BUF_SIZE - 1 : i # position => stored[i] = send_buff[i]
<1>1. position < REG_BUF_SIZE /\ ~(position >= REG_BUF_SIZE)
  BY PowerManagerAssumption
<1>2. Regs!Stored(value, position) = [send_buff EXCEPT ![position] = value % UINT8]
  BY <1>1 DEF Regs!Stored
<1>3. Regs!Stored(value, position)
         = [i \in 0 .. REG_BUF_SIZE - 1 |->
              IF i = position THEN value % UINT8 ELSE send_buff[i]]
  BY <1>2
<1> QED
  BY <1>3

(* The state initiate_global_variables makes satisfies the invariant.      *)
LEMMA InitEstablishesPowerInv == Init => PowerInv
<1> SUFFICES ASSUME Init PROVE PowerInv
  OBVIOUS
<1> USE PowerManagerAssumption
<1>1. /\ send_buff = [i \in 0 .. REG_BUF_SIZE - 1 |-> send_buff[i]]
      /\ send_buff[CURRENT_SLEEP_DURATION_POSITION] = 1 % UINT8
      /\ send_buff[MODEM_POWER_STATE_POSITION] = 0
  BY DEF Init, FirstBuffer, Regs!InitialBuffer
<1> QED
  BY <1>1 DEF Init, Timer!Init, PowerInv, Shape, SleepEnds, DurationReported,
     KeyOnlyInPulse, StageMatchesModem, PoweredOn, Reported

(* Every command, wait, tick, failure and reset keeps it.                  *)
LEMMA StepKeepsPowerInv ==
    ASSUME PowerInv, [Next]_vars
    PROVE  PowerInv'
<1> USE PowerManagerAssumption
<1> USE DEF PowerInv, Shape, SleepEnds, DurationReported, KeyOnlyInPulse,
    StageMatchesModem, PoweredOn, Reported, Undisturbed, STATUS
<1> USE DEF processor, pins, registers, timerVars, history, modemVars
<1>1. CASE Main
  <2>1. CASE StartUpWaitEnds \/ ImxOnEnds
    BY <2>1 DEF StartUpWaitEnds, ImxOnEnds
  <2>2. CASE power_off
    BY <2>2 DEF power_off
  <2> QED
    BY <1>1, <2>1, <2>2 DEF Main
<1>2. CASE TimerMatches
  BY <1>2 DEF TimerMatches
<1>3. CASE TimerInterrupt
  BY <1>3 DEF TimerInterrupt, Awake, Timer!TIMER1_COMPA, Timer!Count, Timer!EndCycle,
     Timer!Raise
<1>4. CASE POWER_UP_MODEM \/ POWER_DOWN_MODEM \/ RESET_MODEM
  <2>1. ModemCommand
    BY <1>4 DEF POWER_UP_MODEM, POWER_DOWN_MODEM, RESET_MODEM
  <2>2. Undisturbed' => Undisturbed /\ modem \in {"off", "on"}
    BY <2>1 DEF ModemCommand, Receive
  <2>3. impatient' \in {0, 1} /\ UNCHANGED <<restarts, faults, send_buff, timer1, modem>>
    BY <2>1 DEF ModemCommand, Receive
  <2>4. Shape' /\ DurationReported'
    BY <1>4, <2>1, <2>3 DEF POWER_UP_MODEM, POWER_DOWN_MODEM, RESET_MODEM, ModemCommand
  <2>5. SleepEnds' /\ KeyOnlyInPulse'
    BY <1>4, <2>3 DEF POWER_UP_MODEM, POWER_DOWN_MODEM, RESET_MODEM, ModemCommand, Receive,
       Awake
  <2>6. Undisturbed' => StageMatchesModem'
    BY <1>4, <2>2, <2>3 DEF POWER_UP_MODEM, POWER_DOWN_MODEM, RESET_MODEM, ModemCommand,
       Receive
  <2> QED
    BY <2>4, <2>5, <2>6
<1>5. CASE POWER_OFF
  BY <1>5 DEF POWER_OFF, Receive, Awake
<1>6. CASE \E b \in BOOLEAN : SET_PSWITCH(b) \/ POWER_3V3_EXTERNAL(b)
  BY <1>6 DEF SET_PSWITCH, POWER_3V3_EXTERNAL, SimpleCommand, Receive, Awake
<1>7. CASE IgnoredCommand \/ MOVE_REG_BUF_POSITION \/ ReadOn
  BY <1>7 DEF IgnoredCommand, MOVE_REG_BUF_POSITION, ReadOn, SimpleCommand, Receive, Awake,
     Regs!increment_regbuf_position, Regs!decrement_regbuf_position,
     Regs!reset_regbuf_position, Regs!set_regbuf_position, Regs!advance_regbuf_position
<1>8. CASE INCREMENT_SLEEP_COUNTER_FACTOR \/ DECREMENT_SLEEP_COUNTER_FACTOR
  <2>1. ReportFactor /\ SimpleCommand
    BY <1>8 DEF INCREMENT_SLEEP_COUNTER_FACTOR, DECREMENT_SLEEP_COUNTER_FACTOR
  <2>2. send_buff' = Regs!Stored(sleep_counter_factor', CURRENT_SLEEP_DURATION_POSITION)
    BY <2>1 DEF ReportFactor, Regs!set_twi_regs_buf_withposition
  <2>3. /\ send_buff' = [i \in 0 .. REG_BUF_SIZE - 1 |-> send_buff'[i]]
        /\ DurationReported'
        /\ send_buff'[MODEM_POWER_STATE_POSITION] = send_buff[MODEM_POWER_STATE_POSITION]
    BY <2>2, StoredAtPosition
  <2> QED
    BY <2>1, <2>3 DEF SimpleCommand, Receive, Awake
<1>9. CASE ModemOnEnds \/ ModemOffEnds
  <2>1. PICK state \in {0, 1} : ReportModem(state) /\ (state = 1 <=> ModemOnEnds)
    BY <1>9 DEF ModemOnEnds, ModemOffEnds
  <2>2. /\ send_buff' = [i \in 0 .. REG_BUF_SIZE - 1 |-> send_buff'[i]]
        /\ send_buff'[MODEM_POWER_STATE_POSITION] = state
        /\ send_buff'[CURRENT_SLEEP_DURATION_POSITION]
              = send_buff[CURRENT_SLEEP_DURATION_POSITION]
    <3>1. \A n \in Nat \ {0, 1} : 0 % n = 0 /\ 1 % n = 1
      OBVIOUS
    <3>2. state % UINT8 = state
      BY <2>1, <3>1
    <3> QED
      BY <2>1, <3>2, StoredAtPosition DEF ReportModem
  <2> QED
    <3>1. CASE ModemOnEnds
      BY <1>9, <2>1, <2>2, <3>1 DEF ModemOnEnds, HandlerOnly, KeyReleased, AfterKey
    <3>2. CASE ModemOffEnds
      BY <1>9, <2>1, <2>2, <3>2 DEF ModemOnEnds, ModemOffEnds, HandlerOnly, KeyReleased,
         AfterKey
    <3> QED
      BY <1>9, <3>1, <3>2
<1>10. CASE ResetWaitEnds \/ OffSettleEnds
  BY <1>10 DEF ResetWaitEnds, OffSettleEnds, HandlerOnly
<1>11. CASE ModemSettles
  BY <1>11 DEF ModemSettles
<1>12. CASE ModemDies
  BY <1>12 DEF ModemDies
<1>13. CASE Restart
  <2>1. /\ FirstBuffer = [i \in 0 .. REG_BUF_SIZE - 1 |-> FirstBuffer[i]]
        /\ FirstBuffer[CURRENT_SLEEP_DURATION_POSITION] = 1 % UINT8
    BY DEF FirstBuffer, Regs!InitialBuffer
  <2> QED
    <3>1. ~Undisturbed'
      <4>1. restarts' = restarts + 1 /\ restarts \in Nat
        BY <1>13 DEF Restart
      <4> QED
        BY <4>1
    <3>2. send_buff' = FirstBuffer /\ sleep_counter_factor' = 1
      BY <1>13 DEF Restart, TimerInitiated
    <3>3. /\ send_buff' = [i \in 0 .. REG_BUF_SIZE - 1 |-> send_buff'[i]]
          /\ send_buff'[CURRENT_SLEEP_DURATION_POSITION] = 1 % UINT8
      BY <2>1, <3>2, Zenon
    <3>4. /\ modem_key' = FALSE /\ timer1' = FALSE
          /\ restarts' = restarts + 1 /\ faults' = faults /\ impatient' = impatient
      BY <1>13 DEF Restart
    <3>5. Shape'
      <4>1. restarts' \in Nat /\ faults' \in Nat /\ impatient' \in {0, 1}
        BY <3>4
      <4>2. modem_key' \in BOOLEAN /\ timer1' \in BOOLEAN
        BY <3>4
      <4> QED
        BY <3>3, <4>1, <4>2
    <3>6. DurationReported'
      BY <3>2, <3>3
    <3>7. SleepEnds' /\ KeyOnlyInPulse'
      BY <1>13 DEF Restart
    <3> QED
      BY <3>1, <3>5, <3>6, <3>7
<1>14. CASE UNCHANGED vars
  BY <1>14 DEF vars
<1> QED
  BY <1>1, <1>2, <1>3, <1>4, <1>5, <1>6, <1>7, <1>8, <1>9, <1>10, <1>11, <1>12, <1>13,
     <1>14 DEF Next, Command, Handler

(* Whoever sleeps can be woken by the timer interrupt (power_control.c:    *)
(* 76-82), in the main loop as in a POWER_OFF command.                     *)
THEOREM SleepAlwaysEnds == Spec => []SleepEnds
<1>1. PowerInv => SleepEnds
  BY DEF PowerInv
<1> QED
  BY <1>1, InitEstablishesPowerInv, StepKeepsPowerInv, PTL DEF Spec

(* The register of the sleep duration is the factor in force, cut to a     *)
(* byte: with any number of resets and commands (communication_handler.c:  *)
(* 140-151).                                                               *)
THEOREM DurationAlwaysReported == Spec => []DurationReported
<1>1. PowerInv => DurationReported
  BY DEF PowerInv
<1> QED
  BY <1>1, InitEstablishesPowerInv, StepKeepsPowerInv, PTL DEF Spec

(* PWRKEY is pressed in the two delays meant for it and never otherwise,   *)
(* whatever fails (power_control.c:236-315).                               *)
THEOREM KeyOnlyEverInPulse == Spec => []KeyOnlyInPulse
<1>1. PowerInv => KeyOnlyInPulse
  BY DEF PowerInv
<1> QED
  BY <1>1, InitEstablishesPowerInv, StepKeepsPowerInv, PTL DEF Spec

(* With patient clients and without failures the register of the modem     *)
(* state is right whenever no command is being handled: modem_on, modem_off*)
(* and RESET_MODEM press the key on the state they believe in.             *)
THEOREM ReportAlwaysMatchesModem == Spec => []ReportMatchesModem
<1>1. PowerInv => ReportMatchesModem
  BY DEF PowerInv, ReportMatchesModem, StageMatchesModem, PoweredOn, Reported
<1> QED
  BY <1>1, InitEstablishesPowerInv, StepKeepsPowerInv, PTL DEF Spec

(* With patient clients and without failures the key is only ever pressed  *)
(* on a modem that is neither booting nor halting.                         *)
THEOREM KeyAlwaysFindsSettledModem == Spec => KeyFindsSettledModem
<1> DEFINE OnSettledModem == Undisturbed' /\ modem_key' /\ ~modem_key => modem \in {"off", "on"}
<1>1. PowerInv /\ [Next]_vars => [OnSettledModem]_vars
  <2> SUFFICES ASSUME PowerInv, [Next]_vars, Undisturbed', modem_key', ~modem_key
               PROVE  modem \in {"off", "on"}
    OBVIOUS
  <2> USE DEF processor, pins, registers, timerVars, history, modemVars
  <2>1. CASE POWER_UP_MODEM \/ POWER_DOWN_MODEM \/ RESET_MODEM
    <3>1. impatient' = 0
      BY DEF Undisturbed
    <3>2. impatient' = IF modem \in {"off", "on"} THEN impatient ELSE 1
      BY <2>1 DEF POWER_UP_MODEM, POWER_DOWN_MODEM, RESET_MODEM, ModemCommand
    <3> QED
      BY <3>1, <3>2
  <2>2. CASE OffSettleEnds
    <3>1. Undisturbed
      BY <2>2 DEF OffSettleEnds, HandlerOnly, Undisturbed
    <3> QED
      BY <2>2, <3>1 DEF OffSettleEnds, PowerInv, StageMatchesModem
  <2>3. CASE Handler /\ ~OffSettleEnds
    BY <2>3 DEF Handler, ModemOnEnds, ModemOffEnds, ResetWaitEnds, KeyReleased
  <2>4. CASE Main \/ TimerMatches \/ TimerInterrupt \/ ModemSettles \/ ModemDies
    BY <2>4 DEF Main, StartUpWaitEnds, ImxOnEnds, power_off, TimerMatches, TimerInterrupt,
       ModemSettles, ModemDies
  <2>5. CASE Restart
    BY <2>5 DEF Restart
  <2>6. CASE Command /\ ~(POWER_UP_MODEM \/ POWER_DOWN_MODEM \/ RESET_MODEM)
    BY <2>6 DEF Command, IgnoredCommand, POWER_OFF, SET_PSWITCH, POWER_3V3_EXTERNAL, MOVE_REG_BUF_POSITION,
       ReadOn, INCREMENT_SLEEP_COUNTER_FACTOR, DECREMENT_SLEEP_COUNTER_FACTOR,
       SimpleCommand
  <2>7. CASE UNCHANGED vars
    BY <2>7 DEF vars
  <2> QED
    BY <2>1, <2>2, <2>3, <2>4, <2>5, <2>6, <2>7 DEF Next
<1> QED
  BY <1>1, InitEstablishesPowerInv, StepKeepsPowerInv, PTL DEF Spec, KeyFindsSettledModem

-----------------------------------------------------------------------------
(* The timer inside the firmware. *)

(* A step of the firmware is one of the timer, leaves it alone, or starts   *)
(* it anew.                                                                *)
LEMMA StepOfTimer ==
    ASSUME [Next]_vars
    PROVE  [Timer!Next]_(Timer!timerVars) \/ TimerInitiated
<1> USE DEF processor, pins, registers, timerVars, history, modemVars, Timer!timerVars
<1>1. CASE TimerInterrupt
  BY <1>1 DEF TimerInterrupt, Timer!Next
<1>2. CASE INCREMENT_SLEEP_COUNTER_FACTOR \/ DECREMENT_SLEEP_COUNTER_FACTOR
  BY <1>2 DEF INCREMENT_SLEEP_COUNTER_FACTOR, DECREMENT_SLEEP_COUNTER_FACTOR, Timer!Next
<1>3. CASE Restart
  BY <1>3 DEF Restart
<1>4. CASE Main \/ TimerMatches \/ Handler \/ ModemSettles \/ ModemDies
  BY <1>4 DEF Main, StartUpWaitEnds, ImxOnEnds, power_off, TimerMatches, Handler,
     ModemOnEnds, ResetWaitEnds, OffSettleEnds, ModemOffEnds, HandlerOnly, ModemSettles,
     ModemDies
<1>5. CASE POWER_UP_MODEM \/ POWER_DOWN_MODEM \/ RESET_MODEM \/ POWER_OFF
  BY <1>5 DEF POWER_UP_MODEM, POWER_DOWN_MODEM, RESET_MODEM, ModemCommand, POWER_OFF
<1>6. CASE \E b \in BOOLEAN : SET_PSWITCH(b) \/ POWER_3V3_EXTERNAL(b)
  BY <1>6 DEF SET_PSWITCH, POWER_3V3_EXTERNAL
<1>7. CASE IgnoredCommand \/ MOVE_REG_BUF_POSITION \/ ReadOn
  BY <1>7 DEF IgnoredCommand, MOVE_REG_BUF_POSITION, ReadOn
<1>8. CASE UNCHANGED vars
  BY <1>8 DEF vars
<1> QED
  BY <1>1, <1>2, <1>3, <1>4, <1>5, <1>6, <1>7, <1>8 DEF Next, Command

(* What initiate_global_variables leaves is the timer's initial state.     *)
LEMMA InitiatedIsInit ==
    TimerInitiated => Timer!Init' /\ TimerInv' /\ Timer!Duty!Init'
BY TimerAssumption
   DEF Timer!SleepTimerAssumption, TimerInitiated, Timer!Init, TimerInv, Timer!TypeOK,
       Timer!LineFollowsCounter, Timer!Duty!Init

(* The invariant of the timer holds in the firmware.                       *)
LEMMA FirmwareTimer ==
    ASSUME Timer!FactorFits
    PROVE  Spec => []TimerInv
<1>1. Init => TimerInv
  BY InitEstablishesTimerInv DEF Init
<1>2. TimerInv /\ [Next]_vars => TimerInv'
  BY StepOfTimer, StepKeepsTimerInv, InitiatedIsInit
<1> QED
  BY <1>1, <1>2, PTL DEF Spec

(* The imx233 gets its duty cycle from the whole firmware: commands that   *)
(* sleep or wait with interrupts disabled only delay the timer, no command *)
(* but the two of the factor touches it, and a reset starts a pulse anew   *)
(* (power_control.c:93-134).                                               *)
THEOREM FirmwareKeepsDuty ==
    ASSUME Timer!FactorFits
    PROVE  Spec => WakeUpDuty
<1>1. Init => Timer!Duty!Init
  BY TimerAssumption DEF Timer!SleepTimerAssumption, Init, Timer!Init, Timer!Duty!Init
<1>2. TimerInv /\ TimerInv' /\ [Next]_vars
         => [Timer!Duty!Next \/ Timer!Duty!Init']_(Timer!Duty!dutyVars)
  BY StepOfTimer, StepRefinesDutyCycle, InitiatedIsInit
<1> QED
  BY <1>1, <1>2, FirmwareTimer, PTL DEF Spec, WakeUpDuty

(* What is stored in a register is a byte, and so is every position.       *)
LEMMA RegistersStayBytes ==
    ASSUME Regs!TypeOK, NEW value \in Int, NEW place \in 0 .. REG_BUF_SIZE - 1
    PROVE  /\ Regs!Stored(value, place) \in [0 .. REG_BUF_SIZE - 1 -> Regs!Byte]
           /\ place \in Regs!Byte /\ 0 \in Regs!Byte
           /\ Regs!Incremented(reg_buf_position) \in Regs!Byte
           /\ Regs!Decremented(reg_buf_position) \in Regs!Byte
           /\ Regs!NextPosition(reg_buf_position) \in Regs!Byte
<1> USE PowerManagerAssumption DEF Regs!TypeOK, Regs!Byte
<1>1. \A x \in Int, n \in Nat \ {0} : x % n \in 0 .. n - 1
  OBVIOUS
<1>2. UINT8 \in Nat \ {0} /\ value \in Int /\ reg_buf_position + 1 \in Int
  OBVIOUS
<1>3. value % UINT8 \in Regs!Byte /\ (reg_buf_position + 1) % UINT8 \in Regs!Byte
  BY <1>1, <1>2
<1> QED
  BY <1>3 DEF Regs!Incremented, Regs!Stored, Regs!Decremented, Regs!NextPosition

(* The first contents of the buffer are bytes.                             *)
LEMMA FirstBufferOfBytes == FirstBuffer \in [0 .. REG_BUF_SIZE - 1 -> Regs!Byte]
<1> USE PowerManagerAssumption DEF Regs!Byte
<1>1. \A n \in Nat \ {0}, i \in Nat : i % n \in 0 .. n - 1
  OBVIOUS
<1>2. UINT8 \in Nat \ {0} /\ 0 \in Regs!Byte /\ 1 % UINT8 \in Regs!Byte
  BY <1>1
<1>3. \A i \in 0 .. REG_BUF_SIZE - 1 : i % UINT8 \in Regs!Byte
  BY <1>1, <1>2
<1>4. Regs!InitialBuffer \in [0 .. REG_BUF_SIZE - 1 -> Regs!Byte]
  BY <1>3 DEF Regs!InitialBuffer
<1> QED
  BY <1>2, <1>4 DEF FirstBuffer

(* Every variable of the firmware keeps to its values: the buffer and the  *)
(* position to bytes, the counters to their ranges, the handler to its     *)
(* delays.                                                                 *)
THEOREM FirmwareTypeCorrect ==
    ASSUME Timer!FactorFits
    PROVE  Spec => []TypeOK
<1> USE PowerManagerAssumption
<1>1. Init => TypeOK
  <2> SUFFICES ASSUME Init PROVE TypeOK
    OBVIOUS
  <2>1. Regs!TypeOK
    BY FirstBufferOfBytes DEF Init, Regs!TypeOK, Regs!Byte
  <2>2. Timer!TypeOK
    BY InitEstablishesTimerInv DEF Init, TimerInv
  <2>3. 0 \in 0 .. RESTARTS /\ 0 \in 0 .. MODEM_FAULTS
    OBVIOUS
  <2> QED
    BY <2>1, <2>2, <2>3, Zenon DEF Init, TypeOK
<1>2. TypeOK /\ TimerInv' /\ [Next]_vars => TypeOK'
  <2> SUFFICES ASSUME TypeOK, TimerInv', [Next]_vars PROVE TypeOK'
    OBVIOUS
  <2>1. Timer!TypeOK'
    BY DEF TimerInv
  <2>2. Regs!TypeOK'
    <3> USE DEF TypeOK, registers
    <3>1. CASE UNCHANGED registers
      BY <3>1 DEF Regs!TypeOK
    <3>2. CASE MOVE_REG_BUF_POSITION \/ ReadOn
      BY <3>2, RegistersStayBytes
         DEF MOVE_REG_BUF_POSITION, ReadOn, Regs!increment_regbuf_position,
             Regs!decrement_regbuf_position, Regs!reset_regbuf_position,
             Regs!set_regbuf_position, Regs!advance_regbuf_position, Regs!TypeOK
    <3>3. CASE INCREMENT_SLEEP_COUNTER_FACTOR \/ DECREMENT_SLEEP_COUNTER_FACTOR
      <4>1. sleep_counter_factor' \in Int
        BY <2>1, TimerAssumption DEF Timer!TypeOK, Timer!SleepTimerAssumption
      <4> QED
        BY <3>3, <4>1, RegistersStayBytes
           DEF INCREMENT_SLEEP_COUNTER_FACTOR, DECREMENT_SLEEP_COUNTER_FACTOR, ReportFactor,
               Regs!set_twi_regs_buf_withposition, Regs!TypeOK
    <3>4. CASE Handler
      <4>1. CASE ModemOnEnds \/ ModemOffEnds
        BY <4>1, RegistersStayBytes
           DEF ModemOnEnds, ModemOffEnds, ReportModem, HandlerOnly, Regs!TypeOK
      <4>2. CASE ResetWaitEnds \/ OffSettleEnds
        BY <3>1, <4>2 DEF ResetWaitEnds, OffSettleEnds, HandlerOnly
      <4> QED
        BY <3>4, <4>1, <4>2 DEF Handler
    <3>5. CASE Restart
      <4>1. send_buff' = FirstBuffer /\ reg_buf_position' = 0
        BY <3>5 DEF Restart
      <4>2. 0 \in Regs!Byte
        BY DEF Regs!Byte
      <4> QED
        BY <4>1, <4>2, FirstBufferOfBytes DEF Regs!TypeOK, Regs!Byte
    <3>6. CASE Main \/ TimerMatches \/ TimerInterrupt \/ ModemSettles \/ ModemDies
      BY <3>1, <3>6 DEF Main, StartUpWaitEnds, ImxOnEnds, power_off, TimerMatches,
         TimerInterrupt, ModemSettles, ModemDies
    <3>7. CASE POWER_UP_MODEM \/ POWER_DOWN_MODEM \/ RESET_MODEM \/ POWER_OFF
      BY <3>1, <3>7 DEF POWER_UP_MODEM, POWER_DOWN_MODEM, RESET_MODEM, ModemCommand,
         POWER_OFF
    <3>8. CASE IgnoredCommand \/ \E b \in BOOLEAN : SET_PSWITCH(b) \/ POWER_3V3_EXTERNAL(b)
      BY <3>1, <3>8 DEF IgnoredCommand, SET_PSWITCH, POWER_3V3_EXTERNAL
    <3>9. CASE UNCHANGED vars
      BY <3>1, <3>9 DEF vars
    <3> QED
      BY <3>2, <3>3, <3>4, <3>5, <3>6, <3>7, <3>8, <3>9 DEF Next, Command
  <2>3. /\ main' \in {"start_up_wait", "imx_on", "loop", "asleep"}
        /\ isr' \in {"none", "on", "reset_on", "reset_wait", "off_settle", "off", "power_off"}
        /\ {timer1', tick', imx_key', modem_key', v3External'} \subseteq BOOLEAN
        /\ modem_power_state' \in {0, 1}
        /\ modem' \in {"off", "booting", "on", "halting"}
        /\ restarts' \in 0 .. RESTARTS /\ faults' \in 0 .. MODEM_FAULTS
        /\ impatient' \in {0, 1}
    <3> USE DEF TypeOK, processor, pins, history, modemVars, Awake
    <3>1. CASE Main \/ TimerMatches \/ TimerInterrupt
      BY <3>1 DEF Main, StartUpWaitEnds, ImxOnEnds, power_off, TimerMatches, TimerInterrupt
    <3>2. CASE Command
      <4>1. CASE POWER_UP_MODEM \/ POWER_DOWN_MODEM \/ RESET_MODEM
        BY <4>1 DEF POWER_UP_MODEM, POWER_DOWN_MODEM, RESET_MODEM, ModemCommand, Receive,
           get_modem_status
      <4>2. CASE POWER_OFF
        BY <4>2 DEF POWER_OFF, Receive
      <4>3. ASSUME NEW b \in BOOLEAN, SET_PSWITCH(b) \/ POWER_3V3_EXTERNAL(b)
            PROVE  /\ main' \in {main, "loop"} /\ isr' = "none"
                   /\ UNCHANGED <<timer1, tick, modem_key, modem_power_state, modem,
                                  restarts, faults, impatient>>
                   /\ imx_key' \in BOOLEAN /\ v3External' \in BOOLEAN
        BY <4>3 DEF SET_PSWITCH, POWER_3V3_EXTERNAL, SimpleCommand, Receive
      <4>4. CASE \/ IgnoredCommand \/ MOVE_REG_BUF_POSITION \/ ReadOn
                 \/ INCREMENT_SLEEP_COUNTER_FACTOR \/ DECREMENT_SLEEP_COUNTER_FACTOR
        BY <4>4 DEF IgnoredCommand, MOVE_REG_BUF_POSITION, ReadOn,
           INCREMENT_SLEEP_COUNTER_FACTOR, DECREMENT_SLEEP_COUNTER_FACTOR, SimpleCommand,
           Receive
      <4> QED
        BY <3>2, <4>1, <4>2, <4>3, <4>4 DEF Command
    <3>3. CASE Handler
      BY <3>3 DEF Handler, ModemOnEnds, ModemOffEnds, ResetWaitEnds, OffSettleEnds,
         HandlerOnly, KeyReleased, AfterKey, ReportModem, get_modem_status
    <3>4. CASE ModemSettles \/ ModemDies
      BY <3>4 DEF ModemSettles, ModemDies
    <3>5. CASE Restart
      <4>1. modem' \in {modem} \cup AfterKey
        BY <3>5 DEF Restart
      <4>2. modem' \in {"off", "booting", "on", "halting"}
        BY <4>1 DEF AfterKey
      <4>3. restarts' \in 0 .. RESTARTS
        BY <3>5 DEF Restart
      <4> QED
        BY <3>5, <4>2, <4>3 DEF Restart
    <3>6. CASE UNCHANGED vars
      BY <3>6 DEF vars
    <3> QED
      BY <3>1, <3>2, <3>3, <3>4, <3>5, <3>6 DEF Next
  <2> QED
    BY <2>1, <2>2, <2>3 DEF TypeOK
<1> QED
  BY <1>1, <1>2, FirmwareTimer, PTL DEF Spec

-----------------------------------------------------------------------------
(* The scripts. *)

(* A step of the scripts is one the power manager may take or stutters on: *)
(* what is proved of the manager holds whoever its clients are.            *)
LEMMA ScriptStepIsManagerStep == [ScriptNext]_allVars => [Next]_vars
<1> SUFFICES ASSUME [ScriptNext]_allVars PROVE [Next]_vars
  OBVIOUS
<1> USE DEF processor, pins, registers, timerVars, history, modemVars
<1>1. CASE UNCHANGED managerVars
  BY <1>1 DEF managerVars, vars
<1>2. CASE GET_MODEM_POWER_STATE \/ MOVE_REG_BUF_POSITION \/ ReadOn
  BY <1>2 DEF GET_MODEM_POWER_STATE, MOVE_REG_BUF_POSITION, Next, Command
<1>3. CASE POWER_UP_MODEM \/ POWER_DOWN_MODEM
  BY <1>3 DEF Next, Command
<1>4. CASE Manager
  BY <1>4 DEF Manager, Next
<1>5. CASE OtherClient \/ PppdExits
  BY <1>1, <1>2, <1>5 DEF OtherClient, PppdExits
<1>6. ASSUME NEW s \in Scripts, Script(s)
      PROVE  [Next]_vars
  <2>1. CASE Select(s) \/ Start(s) \/ Stop(s)
    BY <1>1, <1>2, <1>3, <2>1 DEF Select, Start, Stop, Set
  <2>2. CASE Script(s) /\ ~(Select(s) \/ Start(s) \/ Stop(s))
    <3>1. UNCHANGED managerVars
      BY <2>2
         DEF Script, Call, Get, GetBegins, GetEnds, Compare, Sleeps, Pon, WritePid, Poff, Remove
    <3> QED
      BY <1>1, <3>1
  <2> QED
    BY <1>6, <2>1, <2>2
<1>7. CASE UNCHANGED allVars
  BY <1>1, <1>7 DEF allVars
<1> QED
  BY <1>4, <1>5, <1>6, <1>7 DEF ScriptNext

(* As long as the scripts do not overlap, one of them runs at most.        *)
OneRuns == \A s, t \in Scripts : at[s] # "idle" /\ at[t] # "idle" => s = t

(* Which pppds run, while one script does: none after poff, and all in the *)
(* file but between pon and the write of the file.                         *)
Tracked ==
    /\ (\A s \in Scripts : at[s] # "pid") => pppds \subseteq pid_file
    /\ \A s \in Scripts : at[s] \in {"stop", "rm"} => pppds = {}

(* What a script that was called politely relies on.                       *)
Relies(s) ==
    /\ at[s] \in {"modem_on", "get", "compare", "start", "modem_off", "stop"} => Settled
    /\ at[s] # "getting"
    /\ at[s] = "get" => reg_buf_position = MODEM_POWER_STATE_POSITION
    /\ at[s] = "compare" => return_val[s] = shown[s]

(* What it knows of the modem, unless the modem dies.                      *)
Knows(s) ==
    /\ at[s] = "compare" => (return_val[s] = 1 <=> modem = "on")
    /\ at[s] = "start" => modem = "off"
    /\ at[s] = "sleep" => isr = "on" \/ (isr = "none" /\ modem \in {"booting", "on"})
    /\ at[s] = "pon" => isr = "none" /\ modem = "on"

(* The inductive invariant, that of the power manager included.            *)
ScriptInv ==
    /\ PowerInv /\ restarts = 0
    /\ at = [s \in Scripts |-> at[s]] /\ return_val = [s \in Scripts |-> return_val[s]]
    /\ shown = [s \in Scripts |-> shown[s]]
    /\ "overlapped" \notin manners => OneRuns /\ Tracked
    /\ Polite => impatient = 0 /\ \A s \in Scripts : Relies(s)
    /\ Polite /\ faults = 0 => \A s \in Scripts : Knows(s)

(* No script runs at first.                                                *)
LEMMA ScriptInvInit == ScriptInit => ScriptInv
<1> SUFFICES ASSUME ScriptInit PROVE ScriptInv
  OBVIOUS
<1>1. PowerInv /\ restarts = 0 /\ impatient = 0
  BY InitEstablishesPowerInv DEF ScriptInit, Init
<1>2. \A s \in Scripts : at[s] = "idle"
  BY DEF ScriptInit
<1> QED
  BY <1>1, <1>2 DEF ScriptInit, ScriptInv, OneRuns, Tracked, Relies, Knows

(* The manager's own steps: a command that ends, the modem that settles or *)
(* dies.                                                                   *)
LEMMA ManagerKeepsScriptInv ==
    ASSUME ScriptInv, Manager
    PROVE  ScriptInv'
<1> USE DEF processor, pins, registers, timerVars, history, modemVars, scriptVars
<1>1. PowerInv'
  BY ScriptStepIsManagerStep, StepKeepsPowerInv DEF ScriptInv, ScriptNext
<1>2. UNCHANGED scriptVars /\ (Main \/ Handler \/ ModemSettles \/ ModemDies)
  BY DEF Manager
<1>3. /\ UNCHANGED <<restarts, impatient>>
      /\ faults' = faults \/ (faults \in Nat /\ faults' = faults + 1)
      /\ Settled => /\ ~Busy' /\ reg_buf_position' = reg_buf_position
                    /\ modem' = modem \/ (ModemDies /\ modem' = "off")
      /\ reg_buf_position' = reg_buf_position
  BY <1>2 DEF Main, StartUpWaitEnds, ImxOnEnds, power_off, Handler, ModemOnEnds, ResetWaitEnds,
     OffSettleEnds, ModemOffEnds, HandlerOnly, ModemSettles, ModemDies, Settled, Busy,
     ScriptInv, PowerInv, Shape
<1>4. "overlapped" \notin manners' => OneRuns' /\ Tracked'
  BY <1>2 DEF ScriptInv, OneRuns, Tracked
<1>5. ASSUME Polite', NEW s \in Scripts PROVE impatient' = 0 /\ Relies(s)'
  <2>1. impatient = 0 /\ Relies(s)
    BY <1>2, <1>5 DEF ScriptInv, Polite
  <2>2. Settled => Settled'
    BY <1>3 DEF Settled
  <2> QED
    BY <1>2, <1>3, <2>1, <2>2 DEF Relies
<1>6. ASSUME Polite', faults' = 0, NEW s \in Scripts PROVE Knows(s)'
  <2>1. faults = 0 /\ ~ModemDies
    BY <1>3, <1>6 DEF ModemDies
  <2>2. Relies(s) /\ Knows(s) /\ Undisturbed /\ StageMatchesModem
    BY <1>2, <1>6, <2>1 DEF ScriptInv, Polite, Undisturbed, PowerInv
  <2>3. at[s] \in {"compare", "start"} => modem' = modem
    BY <1>3, <2>1, <2>2 DEF Relies
  <2>4. /\ isr = "none" => isr' = "none"
        /\ isr = "none" /\ modem \in {"booting", "on"} => modem' \in {"booting", "on"}
        /\ isr = "none" /\ modem = "on" => modem' = "on"
    BY <1>2, <2>1 DEF Main, StartUpWaitEnds, ImxOnEnds, power_off, Handler, ModemOnEnds,
       ResetWaitEnds, OffSettleEnds, ModemOffEnds, ModemSettles
  <2>5. isr = "on" => isr' = "on" \/ (isr' = "none" /\ modem' \in {"booting", "on"})
    BY <1>2, <2>1, <2>2 DEF Main, StartUpWaitEnds, ImxOnEnds, power_off, Handler, ModemOnEnds,
       ResetWaitEnds, OffSettleEnds, ModemOffEnds, ModemSettles, KeyReleased, AfterKey,
       StageMatchesModem
  <2> QED
    BY <1>2, <2>2, <2>3, <2>4, <2>5 DEF Knows
<1> QED
  BY <1>1, <1>2, <1>3, <1>4, <1>5, <1>6 DEF ScriptInv, Polite

(* Other clients of the bus, and pppds that give up.                       *)
LEMMA OthersKeepScriptInv ==
    ASSUME ScriptInv, OtherClient \/ PppdExits
    PROVE  ScriptInv'
<1> USE DEF processor, pins, registers, timerVars, history, modemVars
<1>1. PowerInv'
  BY ScriptStepIsManagerStep, StepKeepsPowerInv DEF ScriptInv, ScriptNext
<1>2. CASE OtherClient
  <2>1. /\ ~Busy /\ (MOVE_REG_BUF_POSITION \/ ReadOn)
        /\ UNCHANGED <<at, return_val, pppds, pid_file, exits, shown>>
        /\ UNCHANGED <<isr, modem, restarts, faults, impatient>>
    BY <1>2 DEF OtherClient, MOVE_REG_BUF_POSITION, ReadOn, SimpleCommand, Receive
  <2>2. /\ "overlapped" \notin manners' => "overlapped" \notin manners
        /\ Polite' => Polite
        /\ Polite' => \A s \in Scripts : at[s] # "get"
    <3>1. manners' = manners \cup {m \in {"interposed"} : \E s \in Scripts : at[s] = "get"}
      BY <1>2 DEF OtherClient
    <3>2. (\E s \in Scripts : at[s] = "get") => "interposed" \in manners'
      BY <3>1
    <3> QED
      BY <3>1, <3>2 DEF Polite
  <2>3. ASSUME Polite', NEW s \in Scripts PROVE impatient' = 0 /\ Relies(s)'
    <3>1. impatient = 0 /\ Relies(s) /\ at[s] # "get"
      BY <2>2, <2>3 DEF ScriptInv
    <3> QED
      BY <2>1, <3>1 DEF Relies, Settled, Busy
  <2>4. ASSUME Polite', faults' = 0, NEW s \in Scripts PROVE Knows(s)'
    BY <2>1, <2>2, <2>4 DEF ScriptInv, Knows
  <2>5. "overlapped" \notin manners' => OneRuns' /\ Tracked'
    BY <2>1, <2>2 DEF ScriptInv, OneRuns, Tracked
  <2> QED
    BY <1>1, <2>1, <2>2, <2>3, <2>4, <2>5 DEF ScriptInv, Polite
<1>3. CASE PppdExits
  <2>1. /\ pppds' \subseteq pppds
        /\ UNCHANGED <<managerVars, at, return_val, pid_file, shown, manners>>
    BY <1>3 DEF PppdExits
  <2>2. "overlapped" \notin manners' => OneRuns' /\ Tracked'
    BY <2>1 DEF ScriptInv, OneRuns, Tracked
  <2>3. ASSUME Polite', NEW s \in Scripts PROVE impatient' = 0 /\ Relies(s)'
    BY <2>1, <2>3 DEF ScriptInv, Polite, Relies, Settled, Busy, managerVars
  <2>4. ASSUME Polite', faults' = 0, NEW s \in Scripts PROVE Knows(s)'
    BY <2>1, <2>4 DEF ScriptInv, Polite, Knows, managerVars
  <2> QED
    BY <1>1, <2>1, <2>2, <2>3, <2>4 DEF ScriptInv, Polite, managerVars
<1> QED
  BY <1>2, <1>3

(* What a step of one script may not do to the others.                     *)
LEMMA OneScriptMoves ==
    ASSUME NEW s \in Scripts, ScriptInv, NEW from, NEW to, Goes(s, from, to)
    PROVE  /\ at[s] = from /\ at'[s] = to
           /\ \A t \in Scripts : t # s => at'[t] = at[t]
           /\ at' = [t \in Scripts |-> at'[t]]
           /\ OneRuns /\ from # "idle" => OneRuns' /\ \A t \in Scripts : t # s => at[t] = "idle"
BY DEF Goes, ScriptInv, OneRuns

(* A step of a script: its own location, what it relies on and knows there.*)
LEMMA ScriptKeepsScriptInv ==
    ASSUME ScriptInv, NEW s \in Scripts, Script(s)
    PROVE  ScriptInv'
<1> USE PowerManagerAssumption
<1> USE DEF processor, pins, registers, timerVars, history, modemVars
<1>1. /\ PowerInv' /\ PowerInv /\ restarts = 0
      /\ at = [t \in Scripts |-> at[t]] /\ return_val = [t \in Scripts |-> return_val[t]]
      /\ shown = [t \in Scripts |-> shown[t]]
      /\ "overlapped" \notin manners => OneRuns /\ Tracked
      /\ Polite => impatient = 0 /\ \A t \in Scripts : Relies(t)
      /\ Polite /\ faults = 0 => \A t \in Scripts : Knows(t)
  BY ScriptStepIsManagerStep, StepKeepsPowerInv DEF ScriptInv, ScriptNext
<1>2. restarts' = 0
  BY <1>1
     DEF Script, Call, Select, Get, GetBegins, GetEnds, Compare, Start, Sleeps, Pon, WritePid,
     Poff, Stop, Remove, Set, GET_MODEM_POWER_STATE, POWER_UP_MODEM, POWER_DOWN_MODEM,
     SimpleCommand, ModemCommand, Receive, managerVars
<1>3. Polite => "overlapped" \notin manners
  BY DEF Polite
<1>4. ASSUME NEW script \in {"modem_on", "modem_off"}, Call(s, script) PROVE ScriptInv'
  <2>1. /\ Goes(s, "idle", script)
        /\ UNCHANGED <<managerVars, return_val, pppds, pid_file, exits, shown>>
    BY <1>4 DEF Call
  <2>2. /\ manners \subseteq manners'
        /\ ~Settled => "hurried" \in manners'
        /\ (\E t \in Scripts : at[t] # "idle") => "overlapped" \in manners'
    BY <1>4 DEF Call
  <2>3. at[s] = "idle" /\ at'[s] = script /\ (\A t \in Scripts : t # s => at'[t] = at[t])
        /\ at' = [t \in Scripts |-> at'[t]]
    BY <2>1, OneScriptMoves
  <2>4. "overlapped" \notin manners' => OneRuns' /\ Tracked'
    BY <1>1, <2>1, <2>2, <2>3 DEF OneRuns, Tracked
  <2>5. Polite' => Polite /\ Settled /\ \A t \in Scripts : at[t] = "idle"
    BY <2>2 DEF Polite
  <2>6. ASSUME Polite', NEW t \in Scripts PROVE impatient' = 0 /\ Relies(t)'
    BY <1>1, <2>1, <2>3, <2>5, <2>6 DEF Relies, Settled, Busy, managerVars
  <2>7. ASSUME Polite', faults' = 0, NEW t \in Scripts PROVE Knows(t)'
    BY <2>3, <2>5, <2>7 DEF Knows
  <2> QED
    BY <1>1, <1>2, <2>1, <2>3, <2>4, <2>6, <2>7 DEF ScriptInv, Polite
<1>5. CASE Select(s)
  <2>1. /\ Goes(s, "modem_on", "get") /\ UNCHANGED manners
        /\ Polite => Relies(s)
        /\ Polite /\ faults = 0 => Knows(s)
    BY <1>1, <1>5 DEF Select
  <2>2. /\ at[s] = "modem_on" /\ at'[s] = "get"
        /\ \A u \in Scripts : u # s => at'[u] = at[u]
        /\ at' = [u \in Scripts |-> at'[u]]
        /\ OneRuns => OneRuns' /\ \A u \in Scripts : u # s => at[u] = "idle"
    BY <2>1, OneScriptMoves
  <2>3. /\ return_val' = [u \in Scripts |-> return_val'[u]]
        /\ shown' = [u \in Scripts |-> shown'[u]]
    BY <1>1, <1>5 DEF Select
  <2>4. "overlapped" \notin manners' => OneRuns' /\ Tracked'
    BY <1>1, <1>5, <2>1, <2>2 DEF Select, Tracked
  <2>5. Polite => /\ Settled /\ Settled' /\ impatient = 0 /\ impatient' = 0
                  /\ reg_buf_position' = MODEM_POWER_STATE_POSITION
    <3>1. Polite => Settled /\ impatient = 0
      BY <1>1, <2>1, <2>2 DEF Relies
    <3>2. Polite => GET_MODEM_POWER_STATE
      BY <1>5, <3>1 DEF Select, Set, Settled
    <3> QED
      BY <3>1, <3>2 DEF GET_MODEM_POWER_STATE, SimpleCommand, Receive, Settled, Busy,
         Regs!set_regbuf_position
  <2>6. ASSUME Polite'
        PROVE  impatient' = 0 /\ Relies(s)' /\ \A u \in Scripts : u # s => at'[u] = "idle"
    BY <1>3, <1>1, <2>1, <2>2, <2>6, <2>5 DEF Relies, Polite
  <2>7. ASSUME Polite', faults' = 0 PROVE Knows(s)'
    BY <2>2 DEF Knows
  <2> QED
    BY <1>1, <1>2, <2>1, <2>2, <2>3, <2>4, <2>6, <2>7 DEF ScriptInv, Polite, Relies, Knows
<1>6. CASE Get(s)
  <2>1. /\ Goes(s, "get", "compare") /\ UNCHANGED manners
        /\ Polite => Relies(s)
        /\ Polite /\ faults = 0 => Knows(s)
    BY <1>1, <1>6 DEF Get
  <2>2. /\ at[s] = "get" /\ at'[s] = "compare"
        /\ \A u \in Scripts : u # s => at'[u] = at[u]
        /\ at' = [u \in Scripts |-> at'[u]]
        /\ OneRuns => OneRuns' /\ \A u \in Scripts : u # s => at[u] = "idle"
    BY <2>1, OneScriptMoves
  <2>3. /\ return_val' = [u \in Scripts |-> return_val'[u]]
        /\ shown' = [u \in Scripts |-> shown'[u]]
    BY <1>1, <1>6 DEF Get
  <2>4. "overlapped" \notin manners' => OneRuns' /\ Tracked'
    BY <1>1, <1>6, <2>1, <2>2 DEF Get, Tracked
  <2>5. Polite => Settled /\ impatient = 0 /\ reg_buf_position = MODEM_POWER_STATE_POSITION
    BY <1>1, <2>1, <2>2 DEF Relies
  <2>6. Polite => /\ return_val'[s] = send_buff[MODEM_POWER_STATE_POSITION]
                  /\ shown'[s] = send_buff[MODEM_POWER_STATE_POSITION]
    <3>1. PICK value \in Regs!ReadFrom(send_buff, reg_buf_position) :
             return_val' = [return_val EXCEPT ![s] = value]
      BY <1>6 DEF Get
    <3>2. Polite => value = send_buff[MODEM_POWER_STATE_POSITION]
      BY <2>5, <3>1 DEF Regs!ReadFrom
    <3>3. return_val'[s] = value /\ shown'[s] = send_buff[MODEM_POWER_STATE_POSITION]
      BY <1>1, <1>6, <3>1 DEF Get
    <3> QED
      BY <3>2, <3>3
  <2>7. Polite /\ faults = 0 =>
            (send_buff[MODEM_POWER_STATE_POSITION] = 1 <=> modem = "on")
    BY <1>1, <2>5
       DEF PowerInv, StageMatchesModem, Undisturbed, PoweredOn, Reported, Settled, Busy
  <2>8. UNCHANGED managerVars
    BY <1>6 DEF Get
  <2>9. ASSUME Polite'
        PROVE  impatient' = 0 /\ Relies(s)' /\ \A u \in Scripts : u # s => at'[u] = "idle"
    BY <1>3, <1>1, <2>1, <2>2, <2>9, <2>5, <2>6, <2>8
       DEF Relies, Polite, Settled, Busy, managerVars
  <2>10. ASSUME Polite', faults' = 0 PROVE Knows(s)'
    BY <2>1, <2>2, <2>10, <2>6, <2>7, <2>8 DEF Knows, Polite, managerVars
  <2> QED
    BY <1>1, <1>2, <2>1, <2>2, <2>3, <2>4, <2>9, <2>10 DEF ScriptInv, Polite, Relies, Knows
<1>7. CASE GetBegins(s)
  <2>1. /\ Goes(s, "get", "getting") /\ UNCHANGED manners
        /\ Polite => Relies(s)
        /\ Polite /\ faults = 0 => Knows(s)
    BY <1>1, <1>7 DEF GetBegins
  <2>2. /\ at[s] = "get" /\ at'[s] = "getting"
        /\ \A u \in Scripts : u # s => at'[u] = at[u]
        /\ at' = [u \in Scripts |-> at'[u]]
        /\ OneRuns => OneRuns' /\ \A u \in Scripts : u # s => at[u] = "idle"
    BY <2>1, OneScriptMoves
  <2>3. /\ return_val' = [u \in Scripts |-> return_val'[u]]
        /\ shown' = [u \in Scripts |-> shown'[u]]
    BY <1>1, <1>7 DEF GetBegins
  <2>4. "overlapped" \notin manners' => OneRuns' /\ Tracked'
    BY <1>1, <1>7, <2>1, <2>2 DEF GetBegins, Tracked
  <2>5. ASSUME Polite'
        PROVE  impatient' = 0 /\ Relies(s)' /\ \A u \in Scripts : u # s => at'[u] = "idle"
    BY <1>1, <1>3, <1>7, <2>1, <2>2, <2>5
       DEF GetBegins, Polite, Relies, Settled, Busy, managerVars, Set
  <2>6. ASSUME Polite', faults' = 0 PROVE Knows(s)'
    BY <1>1, <1>3, <1>7, <2>1, <2>2, <2>6
       DEF GetBegins, Polite, Relies, Knows, Settled, Busy, managerVars, Set
  <2> QED
    BY <1>1, <1>2, <2>1, <2>2, <2>3, <2>4, <2>5, <2>6 DEF ScriptInv, Polite, Relies, Knows
<1>8. CASE GetEnds(s)
  <2>1. /\ Goes(s, "getting", "compare") /\ UNCHANGED manners
        /\ Polite => Relies(s)
        /\ Polite /\ faults = 0 => Knows(s)
    BY <1>1, <1>8 DEF GetEnds
  <2>2. /\ at[s] = "getting" /\ at'[s] = "compare"
        /\ \A u \in Scripts : u # s => at'[u] = at[u]
        /\ at' = [u \in Scripts |-> at'[u]]
        /\ OneRuns => OneRuns' /\ \A u \in Scripts : u # s => at[u] = "idle"
    BY <2>1, OneScriptMoves
  <2>3. /\ return_val' = [u \in Scripts |-> return_val'[u]]
        /\ shown' = [u \in Scripts |-> shown'[u]]
    BY <1>1, <1>8 DEF GetEnds
  <2>4. "overlapped" \notin manners' => OneRuns' /\ Tracked'
    BY <1>1, <1>8, <2>1, <2>2 DEF GetEnds, Tracked
  <2>5. ASSUME Polite'
        PROVE  impatient' = 0 /\ Relies(s)' /\ \A u \in Scripts : u # s => at'[u] = "idle"
    BY <1>1, <1>3, <1>8, <2>1, <2>2, <2>5
       DEF GetEnds, Polite, Relies, Settled, Busy, managerVars, Set
  <2>6. ASSUME Polite', faults' = 0 PROVE Knows(s)'
    BY <1>1, <1>3, <1>8, <2>1, <2>2, <2>6
       DEF GetEnds, Polite, Relies, Knows, Settled, Busy, managerVars, Set
  <2> QED
    BY <1>1, <1>2, <2>1, <2>2, <2>3, <2>4, <2>5, <2>6 DEF ScriptInv, Polite, Relies, Knows
<1>9. CASE Compare(s)
  <2>1. /\ Goes(s, "compare", IF return_val[s] = 1 THEN "sleep" ELSE "start") /\ UNCHANGED manners
        /\ Polite => Relies(s)
        /\ Polite /\ faults = 0 => Knows(s)
    BY <1>1, <1>9 DEF Compare
  <2>2. /\ at[s] = "compare" /\ at'[s] = IF return_val[s] = 1 THEN "sleep" ELSE "start"
        /\ \A u \in Scripts : u # s => at'[u] = at[u]
        /\ at' = [u \in Scripts |-> at'[u]]
        /\ OneRuns => OneRuns' /\ \A u \in Scripts : u # s => at[u] = "idle"
    BY <2>1, OneScriptMoves
  <2>3. /\ return_val' = [u \in Scripts |-> return_val'[u]]
        /\ shown' = [u \in Scripts |-> shown'[u]]
    BY <1>1, <1>9 DEF Compare
  <2>4. "overlapped" \notin manners' => OneRuns' /\ Tracked'
    BY <1>1, <1>9, <2>1, <2>2 DEF Compare, Tracked
  <2>5. ASSUME Polite'
        PROVE  impatient' = 0 /\ Relies(s)' /\ \A u \in Scripts : u # s => at'[u] = "idle"
    BY <1>1, <1>3, <1>9, <2>1, <2>2, <2>5
       DEF Compare, Polite, Relies, Settled, Busy, managerVars, Set
  <2>6. ASSUME Polite', faults' = 0 PROVE Knows(s)'
    BY <1>1, <1>3, <1>9, <2>1, <2>2, <2>6
       DEF Compare, Polite, Relies, Knows, Settled, Busy, managerVars, Set
  <2> QED
    BY <1>1, <1>2, <2>1, <2>2, <2>3, <2>4, <2>5, <2>6 DEF ScriptInv, Polite, Relies, Knows
<1>10. CASE Start(s)
  <2>1. /\ Goes(s, "start", "sleep") /\ UNCHANGED manners
        /\ Polite => Relies(s)
        /\ Polite /\ faults = 0 => Knows(s)
    BY <1>1, <1>10 DEF Start
  <2>2. /\ at[s] = "start" /\ at'[s] = "sleep"
        /\ \A u \in Scripts : u # s => at'[u] = at[u]
        /\ at' = [u \in Scripts |-> at'[u]]
        /\ OneRuns => OneRuns' /\ \A u \in Scripts : u # s => at[u] = "idle"
    BY <2>1, OneScriptMoves
  <2>3. /\ return_val' = [u \in Scripts |-> return_val'[u]]
        /\ shown' = [u \in Scripts |-> shown'[u]]
    BY <1>1, <1>10 DEF Start
  <2>4. "overlapped" \notin manners' => OneRuns' /\ Tracked'
    BY <1>1, <1>10, <2>1, <2>2 DEF Start, Tracked
  <2>5. Polite => /\ Settled /\ impatient = 0 /\ impatient' = 0
                  /\ POWER_UP_MODEM /\ faults' = faults
    <3>1. Polite => Settled /\ impatient = 0
      BY <1>1, <2>1, <2>2 DEF Relies
    <3>2. Polite => POWER_UP_MODEM
      BY <1>10, <3>1 DEF Start, Set, Settled
    <3> QED
      BY <3>1, <3>2 DEF POWER_UP_MODEM, ModemCommand, Receive, Settled
  <2>6. Polite /\ faults = 0 => isr' = "on"
    BY <2>1, <2>2, <2>5 DEF Knows, POWER_UP_MODEM, STATUS
  <2>7. ASSUME Polite'
        PROVE  impatient' = 0 /\ Relies(s)' /\ \A u \in Scripts : u # s => at'[u] = "idle"
    BY <1>3, <1>1, <2>1, <2>2, <2>7, <2>5 DEF Relies, Polite
  <2>8. ASSUME Polite', faults' = 0 PROVE Knows(s)'
    BY <2>1, <2>2, <2>8, <2>5, <2>6 DEF Knows, Polite
  <2> QED
    BY <1>1, <1>2, <2>1, <2>2, <2>3, <2>4, <2>7, <2>8 DEF ScriptInv, Polite, Relies, Knows
<1>11. CASE Sleeps(s)
  <2>1. /\ Goes(s, "sleep", "pon") /\ UNCHANGED manners
        /\ Polite => Relies(s)
        /\ Polite /\ faults = 0 => Knows(s)
    BY <1>1, <1>11 DEF Sleeps
  <2>2. /\ at[s] = "sleep" /\ at'[s] = "pon"
        /\ \A u \in Scripts : u # s => at'[u] = at[u]
        /\ at' = [u \in Scripts |-> at'[u]]
        /\ OneRuns => OneRuns' /\ \A u \in Scripts : u # s => at[u] = "idle"
    BY <2>1, OneScriptMoves
  <2>3. /\ return_val' = [u \in Scripts |-> return_val'[u]]
        /\ shown' = [u \in Scripts |-> shown'[u]]
    BY <1>1, <1>11 DEF Sleeps
  <2>4. "overlapped" \notin manners' => OneRuns' /\ Tracked'
    BY <1>1, <1>11, <2>1, <2>2 DEF Sleeps, Tracked
  <2>5. ASSUME Polite'
        PROVE  impatient' = 0 /\ Relies(s)' /\ \A u \in Scripts : u # s => at'[u] = "idle"
    BY <1>1, <1>3, <1>11, <2>1, <2>2, <2>5
       DEF Sleeps, Polite, Relies, Settled, Busy, managerVars, Set
  <2>6. ASSUME Polite', faults' = 0 PROVE Knows(s)'
    BY <1>1, <1>3, <1>11, <2>1, <2>2, <2>6
       DEF Sleeps, Polite, Relies, Knows, Settled, Busy, managerVars, Set
  <2> QED
    BY <1>1, <1>2, <2>1, <2>2, <2>3, <2>4, <2>5, <2>6 DEF ScriptInv, Polite, Relies, Knows
<1>12. CASE Pon(s)
  <2>1. /\ Goes(s, "pon", "pid") /\ UNCHANGED manners
        /\ Polite => Relies(s)
        /\ Polite /\ faults = 0 => Knows(s)
    BY <1>1, <1>12 DEF Pon
  <2>2. /\ at[s] = "pon" /\ at'[s] = "pid"
        /\ \A u \in Scripts : u # s => at'[u] = at[u]
        /\ at' = [u \in Scripts |-> at'[u]]
        /\ OneRuns => OneRuns' /\ \A u \in Scripts : u # s => at[u] = "idle"
    BY <2>1, OneScriptMoves
  <2>3. /\ return_val' = [u \in Scripts |-> return_val'[u]]
        /\ shown' = [u \in Scripts |-> shown'[u]]
    BY <1>1, <1>12 DEF Pon
  <2>4. "overlapped" \notin manners' => OneRuns' /\ Tracked'
    BY <1>1, <1>12, <2>1, <2>2 DEF Pon, Tracked
  <2>5. ASSUME Polite'
        PROVE  impatient' = 0 /\ Relies(s)' /\ \A u \in Scripts : u # s => at'[u] = "idle"
    BY <1>1, <1>3, <1>12, <2>1, <2>2, <2>5
       DEF Pon, Polite, Relies, Settled, Busy, managerVars, Set
  <2>6. ASSUME Polite', faults' = 0 PROVE Knows(s)'
    BY <1>1, <1>3, <1>12, <2>1, <2>2, <2>6
       DEF Pon, Polite, Relies, Knows, Settled, Busy, managerVars, Set
  <2> QED
    BY <1>1, <1>2, <2>1, <2>2, <2>3, <2>4, <2>5, <2>6 DEF ScriptInv, Polite, Relies, Knows
<1>13. CASE WritePid(s)
  <2>1. /\ Goes(s, "pid", "idle") /\ UNCHANGED manners
        /\ Polite => Relies(s)
        /\ Polite /\ faults = 0 => Knows(s)
    BY <1>1, <1>13 DEF WritePid
  <2>2. /\ at[s] = "pid" /\ at'[s] = "idle"
        /\ \A u \in Scripts : u # s => at'[u] = at[u]
        /\ at' = [u \in Scripts |-> at'[u]]
        /\ OneRuns => OneRuns' /\ \A u \in Scripts : u # s => at[u] = "idle"
    BY <2>1, OneScriptMoves
  <2>3. /\ return_val' = [u \in Scripts |-> return_val'[u]]
        /\ shown' = [u \in Scripts |-> shown'[u]]
    BY <1>1, <1>13 DEF WritePid
  <2>4. "overlapped" \notin manners' => OneRuns' /\ Tracked'
    BY <1>1, <1>13, <2>1, <2>2 DEF WritePid, Tracked
  <2>5. ASSUME Polite'
        PROVE  impatient' = 0 /\ Relies(s)' /\ \A u \in Scripts : u # s => at'[u] = "idle"
    BY <1>1, <1>3, <1>13, <2>1, <2>2, <2>5
       DEF WritePid, Polite, Relies, Settled, Busy, managerVars, Set
  <2>6. ASSUME Polite', faults' = 0 PROVE Knows(s)'
    BY <1>1, <1>3, <1>13, <2>1, <2>2, <2>6
       DEF WritePid, Polite, Relies, Knows, Settled, Busy, managerVars, Set
  <2> QED
    BY <1>1, <1>2, <2>1, <2>2, <2>3, <2>4, <2>5, <2>6 DEF ScriptInv, Polite, Relies, Knows
<1>14. CASE Poff(s)
  <2>1. /\ Goes(s, "modem_off", "stop") /\ UNCHANGED manners
        /\ Polite => Relies(s)
        /\ Polite /\ faults = 0 => Knows(s)
    BY <1>1, <1>14 DEF Poff
  <2>2. /\ at[s] = "modem_off" /\ at'[s] = "stop"
        /\ \A u \in Scripts : u # s => at'[u] = at[u]
        /\ at' = [u \in Scripts |-> at'[u]]
        /\ OneRuns => OneRuns' /\ \A u \in Scripts : u # s => at[u] = "idle"
    BY <2>1, OneScriptMoves
  <2>3. /\ return_val' = [u \in Scripts |-> return_val'[u]]
        /\ shown' = [u \in Scripts |-> shown'[u]]
    BY <1>1, <1>14 DEF Poff
  <2>4. "overlapped" \notin manners' => OneRuns' /\ Tracked'
    BY <1>1, <1>14, <2>1, <2>2 DEF Poff, Tracked
  <2>5. ASSUME Polite'
        PROVE  impatient' = 0 /\ Relies(s)' /\ \A u \in Scripts : u # s => at'[u] = "idle"
    BY <1>1, <1>3, <1>14, <2>1, <2>2, <2>5
       DEF Poff, Polite, Relies, Settled, Busy, managerVars, Set
  <2>6. ASSUME Polite', faults' = 0 PROVE Knows(s)'
    BY <1>1, <1>3, <1>14, <2>1, <2>2, <2>6
       DEF Poff, Polite, Relies, Knows, Settled, Busy, managerVars, Set
  <2> QED
    BY <1>1, <1>2, <2>1, <2>2, <2>3, <2>4, <2>5, <2>6 DEF ScriptInv, Polite, Relies, Knows
<1>15. CASE Stop(s)
  <2>1. /\ Goes(s, "stop", "rm") /\ UNCHANGED manners
        /\ Polite => Relies(s)
        /\ Polite /\ faults = 0 => Knows(s)
    BY <1>1, <1>15 DEF Stop
  <2>2. /\ at[s] = "stop" /\ at'[s] = "rm"
        /\ \A u \in Scripts : u # s => at'[u] = at[u]
        /\ at' = [u \in Scripts |-> at'[u]]
        /\ OneRuns => OneRuns' /\ \A u \in Scripts : u # s => at[u] = "idle"
    BY <2>1, OneScriptMoves
  <2>3. /\ return_val' = [u \in Scripts |-> return_val'[u]]
        /\ shown' = [u \in Scripts |-> shown'[u]]
    BY <1>1, <1>15 DEF Stop
  <2>4. "overlapped" \notin manners' => OneRuns' /\ Tracked'
    BY <1>1, <1>15, <2>1, <2>2 DEF Stop, Tracked
  <2>5. Polite => impatient = 0 /\ impatient' = 0
    <3>1. Polite => Settled /\ impatient = 0
      BY <1>1, <2>1, <2>2 DEF Relies
    <3>2. Polite => POWER_DOWN_MODEM
      BY <1>15, <3>1 DEF Stop, Set, Settled
    <3> QED
      BY <3>1, <3>2 DEF POWER_DOWN_MODEM, ModemCommand, Settled
  <2>6. ASSUME Polite'
        PROVE  impatient' = 0 /\ Relies(s)' /\ \A u \in Scripts : u # s => at'[u] = "idle"
    BY <1>3, <1>1, <2>1, <2>2, <2>6, <2>5 DEF Relies, Polite
  <2>7. ASSUME Polite', faults' = 0 PROVE Knows(s)'
    BY <2>2 DEF Knows
  <2> QED
    BY <1>1, <1>2, <2>1, <2>2, <2>3, <2>4, <2>6, <2>7 DEF ScriptInv, Polite, Relies, Knows
<1>16. CASE Remove(s)
  <2>1. /\ Goes(s, "rm", "idle") /\ UNCHANGED manners
        /\ Polite => Relies(s)
        /\ Polite /\ faults = 0 => Knows(s)
    BY <1>1, <1>16 DEF Remove
  <2>2. /\ at[s] = "rm" /\ at'[s] = "idle"
        /\ \A u \in Scripts : u # s => at'[u] = at[u]
        /\ at' = [u \in Scripts |-> at'[u]]
        /\ OneRuns => OneRuns' /\ \A u \in Scripts : u # s => at[u] = "idle"
    BY <2>1, OneScriptMoves
  <2>3. /\ return_val' = [u \in Scripts |-> return_val'[u]]
        /\ shown' = [u \in Scripts |-> shown'[u]]
    BY <1>1, <1>16 DEF Remove
  <2>4. "overlapped" \notin manners' => OneRuns' /\ Tracked'
    BY <1>1, <1>16, <2>1, <2>2 DEF Remove, Tracked
  <2>5. ASSUME Polite'
        PROVE  impatient' = 0 /\ Relies(s)' /\ \A u \in Scripts : u # s => at'[u] = "idle"
    BY <1>1, <1>3, <1>16, <2>1, <2>2, <2>5
       DEF Remove, Polite, Relies, Settled, Busy, managerVars, Set
  <2>6. ASSUME Polite', faults' = 0 PROVE Knows(s)'
    BY <1>1, <1>3, <1>16, <2>1, <2>2, <2>6
       DEF Remove, Polite, Relies, Knows, Settled, Busy, managerVars, Set
  <2> QED
    BY <1>1, <1>2, <2>1, <2>2, <2>3, <2>4, <2>5, <2>6 DEF ScriptInv, Polite, Relies, Knows
<1> QED
  BY <1>4, <1>5, <1>6, <1>7, <1>8, <1>9, <1>10, <1>11, <1>12, <1>13, <1>14, <1>15, <1>16
     DEF Script

(* The invariant holds throughout.                                         *)
LEMMA ScriptInvariant == ScriptSpec => []ScriptInv
<1>1. ScriptInv /\ [ScriptNext]_allVars => ScriptInv'
  <2> SUFFICES ASSUME ScriptInv, [ScriptNext]_allVars PROVE ScriptInv'
    OBVIOUS
  <2>1. CASE UNCHANGED allVars
    BY <2>1, ScriptStepIsManagerStep, StepKeepsPowerInv
       DEF allVars, managerVars, scriptVars, ScriptInv, Polite, OneRuns, Tracked,
       Relies, Knows, Settled, Busy
  <2> QED
    BY <2>1, ManagerKeepsScriptInv, OthersKeepScriptInv, ScriptKeepsScriptInv DEF ScriptNext
<1> QED
  BY <1>1, ScriptInvInit, PTL DEF ScriptSpec

(* The scripts with the manager are an implementation of the manager on    *)
(* its own: none of their calls (i2cset and i2cget of modem_on and         *)
(* modem_off) makes it do what its specification does not allow.           *)
THEOREM ScriptsUseTheManager == ScriptSpec => Spec
<1>1. ScriptInit => Init
  BY DEF ScriptInit
<1> QED
  BY <1>1, ScriptStepIsManagerStep, PTL DEF ScriptSpec, Spec

(* When modem_on calls pon the modem is on (modem_on:56), whatever state   *)
(* it was in when the script was called, as long as clients are polite and *)
(* the modem does not die.                                                 *)
THEOREM ConnectsWithModemOn == ScriptSpec => []ModemOnBeforePon
<1>1. ScriptInv => ModemOnBeforePon
  BY DEF ScriptInv, ModemOnBeforePon, Knows
<1> QED
  BY <1>1, ScriptInvariant, PTL

(* The two transfers of a read, select and get, make one: what modem_on    *)
(* compares (modem_on:28-31) is what the register showed.                  *)
THEOREM ReadsModemState == ScriptSpec => []ReadIsModemState
<1>1. ScriptInv => ReadIsModemState
  BY DEF ScriptInv, ReadIsModemState, Relies
<1> QED
  BY <1>1, ScriptInvariant, PTL

(* When no script runs every pppd that runs is in the file of modem_on:65, *)
(* for any number of scripts that do not overlap and however many pppds    *)
(* they started or lost.                                                   *)
THEOREM PppdsTracked == ScriptSpec => []EveryPppdTracked
<1>1. ScriptInv => EveryPppdTracked
  BY DEF ScriptInv, EveryPppdTracked, Idle, Tracked
<1> QED
  BY <1>1, ScriptInvariant, PTL

(* Polite scripts send a modem command to a settled modem only, also when  *)
(* it dies in between: what is proved of the manager for patient clients   *)
(* holds for them.                                                         *)
THEOREM ScriptsArePatient == ScriptSpec => []PatientClients
<1>1. ScriptInv => PatientClients
  BY DEF ScriptInv, PatientClients
<1> QED
  BY <1>1, ScriptInvariant, PTL
=============================================================================
