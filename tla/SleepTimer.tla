----------------------------- MODULE SleepTimer -----------------------------
(***************************************************************************)
(* The wake-up timer of the ATmega power manager: the TIMER1_COMPA         *)
(* interrupt routine of power_control.c, which counts timer periods and    *)
(* drives ATM_FALL_INTO_SPECIAL_STATE1 (PD2), and the two I2C commands of  *)
(* communication_handler.c that change its factor.                         *)
(***************************************************************************)
EXTENDS Integers

CONSTANTS SLEEP_COUNTER_MAX,
          SLEEP_COUNTER_MINUTE,
          SLEEP_CYCLE_MAX,
          INT_HALF,       \* an int of the target holds -INT_HALF .. INT_HALF - 1
          FACTOR_BOUND    \* bound on the factor, which the code does not bound

ASSUME SleepTimerAssumption ==
    /\ SLEEP_COUNTER_MINUTE \in Nat \ {0}
    /\ SLEEP_COUNTER_MAX \in Nat
    /\ SLEEP_COUNTER_MINUTE < SLEEP_COUNTER_MAX
    /\ SLEEP_CYCLE_MAX \in Nat \ {0}
    /\ INT_HALF \in Nat \ {0}
    /\ SLEEP_COUNTER_MAX < INT_HALF
    /\ FACTOR_BOUND \in Nat \ {0}
    /\ FACTOR_BOUND < INT_HALF

VARIABLES sleep_counter,
          sleep_cycle_counter,
          sleep_counter_factor,
          special_state          \* TRUE while PD2 is high

counters == <<sleep_counter, sleep_cycle_counter>>
timerVars == <<sleep_counter, sleep_cycle_counter, sleep_counter_factor, special_state>>

(* What the 16-bit int of avr-gcc keeps of the value of an expression. *)
AsInt(x) == ((x + INT_HALF) % (2 * INT_HALF)) - INT_HALF

(* A slip: the wrong constant. *)
ThresholdOfMinute == AsInt(sleep_counter_factor * SLEEP_COUNTER_MINUTE)

Threshold == AsInt(sleep_counter_factor * SLEEP_COUNTER_MAX)

(* initiate_global_variables: the line is pulsed low and left high. *)
Init ==
    /\ sleep_counter = 0
    /\ sleep_cycle_counter = 0
    /\ sleep_counter_factor = 1
    /\ special_state = TRUE

-----------------------------------------------------------------------------
(* More slips a maintainer could make; the runs must notice each of them.  *)
CountFromOne ==
    /\ sleep_counter + 1 < Threshold
    /\ sleep_counter' = sleep_counter + 1
    /\ special_state' = (special_state /\ sleep_counter # SLEEP_COUNTER_MINUTE)
    /\ UNCHANGED <<sleep_cycle_counter, sleep_counter_factor>>

IncrementResetsCounter ==
    /\ sleep_counter_factor < FACTOR_BOUND
    /\ sleep_counter_factor' = AsInt(sleep_counter_factor + 1)
    /\ sleep_counter' = 0
    /\ UNCHANGED <<sleep_cycle_counter, special_state>>

-----------------------------------------------------------------------------
ThresholdReached == sleep_counter + 1 >= Threshold

(* Below the threshold: the pulse ends when the counter is at its minute.  *)
Count ==
    /\ ~ThresholdReached
    /\ sleep_counter' = sleep_counter + 1
    /\ special_state' = (special_state /\ sleep_counter + 1 # SLEEP_COUNTER_MINUTE)
    /\ UNCHANGED <<sleep_cycle_counter, sleep_counter_factor>>

(* At the threshold, with more cycles to go. *)
EndCycle ==
    /\ ThresholdReached
    /\ sleep_cycle_counter + 1 < SLEEP_CYCLE_MAX
    /\ sleep_counter' = 0
    /\ sleep_cycle_counter' = sleep_cycle_counter + 1
    /\ UNCHANGED <<sleep_counter_factor, special_state>>

(* At the threshold of the last cycle: the line is raised. *)
Raise ==
    /\ ThresholdReached
    /\ sleep_cycle_counter + 1 >= SLEEP_CYCLE_MAX
    /\ sleep_counter' = 0
    /\ sleep_cycle_counter' = 0
    /\ special_state' = TRUE
    /\ UNCHANGED sleep_counter_factor

TIMER1_COMPA == Count \/ EndCycle \/ Raise

(* INCREMENT_SLEEP_COUNTER_FACTOR; the first conjunct is the model's bound. *)
IncrementFactor ==
    /\ sleep_counter_factor < FACTOR_BOUND
    /\ sleep_counter_factor' = AsInt(sleep_counter_factor + 1)
    /\ UNCHANGED <<counters, special_state>>

(* DECREMENT_SLEEP_COUNTER_FACTOR. *)
DecrementFactor ==
    /\ sleep_counter_factor > 1
    /\ sleep_counter_factor' = sleep_counter_factor - 1
    /\ UNCHANGED <<counters, special_state>>

Next == TIMER1_COMPA \/ IncrementFactor \/ DecrementFactor

Spec == Init /\ [][Next]_timerVars

(* The oscillator runs in the sleep mode used, so the timer keeps firing;  *)
(* nobody has to send a command.                                           *)
FairSpec == Spec /\ WF_timerVars(TIMER1_COMPA)

-----------------------------------------------------------------------------
(* The states of the four variables; the counter stays below its largest   *)
(* threshold, so the increment of line 99 never overflows.                 *)
TypeOK ==
    /\ sleep_counter \in 0 .. INT_HALF - 2
    /\ sleep_cycle_counter \in 0 .. SLEEP_CYCLE_MAX - 1
    /\ sleep_counter_factor \in 1 .. FACTOR_BOUND
    /\ special_state \in BOOLEAN

(* The wake-up line is high exactly in the first SLEEP_COUNTER_MINUTE      *)
(* periods after a rise: no sequence of ticks and factor commands leaves   *)
(* it high past its minute, skips the tick that grounds it, or grounds it  *)
(* early.                                                                  *)
LineFollowsCounter ==
    special_state <=> sleep_cycle_counter = 0 /\ sleep_counter < SLEEP_COUNTER_MINUTE

(* Ticks and factor commands, in any order, give the imx233 the duty cycle *)
(* of module DutyCycle: whole pulses at least SLEEP_COUNTER_MAX periods    *)
(* apart, also when the factor drops while the counter is beyond the new   *)
(* threshold.                                                              *)
Duty == INSTANCE DutyCycle WITH
    Pulse  <- SLEEP_COUNTER_MINUTE,
    Period <- SLEEP_COUNTER_MAX,
    line   <- special_state,
    age    <- IF sleep_cycle_counter = 0 /\ sleep_counter < SLEEP_COUNTER_MAX
              THEN sleep_counter ELSE SLEEP_COUNTER_MAX

DutyCycleSpec == Duty!Spec

(* The factor commands cannot keep the imx233 asleep for ever: however     *)
(* they move the threshold, the line is raised again and again, and        *)
(* grounded again and again.                                               *)
PulsesRecur == []<>special_state /\ []<>~special_state

(* "the ATM_FALL_INTO_SPECIAL_STATE1 is set to 1 for a minute ... and the  *)
(* pin will be set to ground again" (power_control.c:117-119): the line    *)
(* has been grounded by the time a cycle ends and it is raised anew.       *)
GroundedBeforeRaise == [][Raise => ~special_state]_timerVars

(* The product of line 103 does not overflow: what the theorems assume of  *)
(* the bound.  With the constants of the code it holds up to factor 546.   *)
FactorFits == FACTOR_BOUND * SLEEP_COUNTER_MAX < INT_HALF
=============================================================================
