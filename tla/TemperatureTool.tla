--------------------------- MODULE TemperatureTool ---------------------------
(***************************************************************************)
(* internal_temperature.c: a program that reads the temperature of the     *)
(* imx233 from two channels of its low resolution ADC, which all programs  *)
(* share.  The converter is external, as the program and the comments in   *)
(* it describe it.  Registers are sets of bits; of the value of a channel  *)
(* only the number of conversions it sums up is kept.                      *)
(***************************************************************************)
EXTENDS Naturals, FiniteSets, FiniteSetsExt

CONSTANTS Tools,         \* processes that run the program
          NUM_SAMPLES    \* 16 in the code

ASSUME TemperatureToolAssumption == NUM_SAMPLES \in 1 .. 16

Channels == {0, 1}       \* CH0 and CH1
NUM_FIELD == 24 .. 28    \* 0x1f000000
ACCUMULATE == 28         \* 0x10000000, the "accumulate bit" of the program
MUX(c) == 4 * c .. 4 * c + 3

(* The bits of value << first. *)
Bits(value, first) ==
    {first + i : i \in {j \in 0 .. 4 : (value \div 2 ^ j) % 2 = 1}}

(* The number in the bits from first on. *)
Number(bits, first) == MapThenSumSet(LAMBDA b : 2 ^ (b - first), bits)

VARIABLES at,            \* what a tool does next
          value,         \* what it has read from the channels
          ctrl4, config, \* multiplexer; the upper bits of the channels
          sum,           \* conversions summed up in a channel
          done,          \* conversions since the number of samples was set
          scheduled, pending,   \* channels to be converted, and converted
          irq,           \* interrupt bits of CTRL1
          alone          \* history: no run of another tool has overlapped its own

registers == <<ctrl4, config, sum, done, scheduled, pending, irq>>
toolsVars == <<at, value, registers, alone>>

ToolsInit ==
    /\ at = [t \in Tools |-> "idle"] /\ value = [t \in Tools |-> [c \in Channels |-> 0]]
    /\ ctrl4 = {} /\ config = [c \in Channels |-> {}]
    /\ sum = [c \in Channels |-> 0] /\ done = [c \in Channels |-> 0]
    /\ scheduled = {} /\ pending = {} /\ irq \in SUBSET Channels
    /\ alone = [t \in Tools |-> TRUE]

Running(t) == at[t] \notin {"idle", "end"}

(* Runs that overlap are no longer alone. *)
Goes(t, from, to) ==
    /\ at[t] = from /\ at' = [at EXCEPT ![t] = to]
    /\ LET others == {u \in Tools \ {t} : Running(u)}
       IN  alone' = [u \in Tools |->
                        IF others # {} /\ u \in others \cup {t} THEN FALSE ELSE alone[u]]

-----------------------------------------------------------------------------
(* The writes before the first conversion, one register access each.  That *)
(* of CTRL2, which powers the sensor, changes nothing the runs look at.    *)
Starts(t) ==
    /\ Goes(t, "idle", "mux_clr") /\ UNCHANGED <<value, registers>>

ClearMux(t) ==
    /\ Goes(t, "mux_clr", "mux_set")
    /\ ctrl4' = ctrl4 \ (MUX(0) \cup MUX(1))
    /\ UNCHANGED <<value, config, sum, done, scheduled, pending, irq>>

SetMux(t) ==
    /\ Goes(t, "mux_set", "irq_clr")
    /\ ctrl4' = ctrl4 \cup Bits(9, 0) \cup Bits(8, 4)    \* 0x89
    /\ UNCHANGED <<value, config, sum, done, scheduled, pending, irq>>

ClearIrq(t) ==
    /\ Goes(t, "irq_clr", "acc_set0")
    /\ irq' = {}
    /\ UNCHANGED <<value, ctrl4, config, sum, done, scheduled, pending>>

(* Set accumulate bit, clear accumulator, clear num samples. *)
SetAccumulate(t, c) ==
    /\ Goes(t, IF c = 0 THEN "acc_set0" ELSE "acc_set1",
               IF c = 0 THEN "acc_clr0" ELSE "acc_clr1")
    /\ config' = [config EXCEPT ![c] = @ \cup {ACCUMULATE}]
    /\ UNCHANGED <<value, ctrl4, sum, done, scheduled, pending, irq>>

ClearAccumulator(t, c) ==
    /\ Goes(t, IF c = 0 THEN "acc_clr0" ELSE "acc_clr1",
               IF c = 0 THEN "num_clr0" ELSE "num_clr1")
    /\ sum' = [sum EXCEPT ![c] = 0]
    /\ UNCHANGED <<value, ctrl4, config, done, scheduled, pending, irq>>

ClearNumber(t, c) ==
    /\ Goes(t, IF c = 0 THEN "num_clr0" ELSE "num_clr1",
               IF c = 0 THEN "acc_set1" ELSE "num_set0")
    /\ config' = [config EXCEPT ![c] = @ \ NUM_FIELD]
    /\ done' = [done EXCEPT ![c] = 0]
    /\ UNCHANGED <<value, ctrl4, sum, scheduled, pending, irq>>

SetNumber(t, c) ==
    /\ Goes(t, IF c = 0 THEN "num_set0" ELSE "num_set1",
               IF c = 0 THEN "num_set1" ELSE "check")
    /\ config' = [config EXCEPT ![c] = @ \cup Bits(NUM_SAMPLES - 1, 24)]
    /\ done' = [done EXCEPT ![c] = 0]
    /\ UNCHANGED <<value, ctrl4, sum, scheduled, pending, irq>>

-----------------------------------------------------------------------------
(* while no interrupt bit of the two is set ... *)
Check(t) ==
    /\ Goes(t, "check", IF irq = {} THEN "schedule" ELSE "read0")
    /\ UNCHANGED <<value, registers>>

(* A slip: conversions are scheduled only before the first. *)
ScheduleOnce(t) ==
    /\ Goes(t, "schedule", "wait")
    /\ scheduled' = IF \A c \in Channels : done[c] = 0 THEN Channels ELSE scheduled
    /\ UNCHANGED <<value, ctrl4, config, sum, done, pending, irq>>

Schedule(t) ==
    /\ Goes(t, "schedule", "wait")
    /\ scheduled' = Channels
    /\ UNCHANGED <<value, ctrl4, config, sum, done, pending, irq>>

Waits(t) ==
    /\ scheduled = {} /\ Goes(t, "wait", "sleep")
    /\ UNCHANGED <<value, registers>>

(* A slip: without the hack of sleeping. *)
SleepsNot(t) ==
    /\ Goes(t, "sleep", "check")
    /\ UNCHANGED <<value, registers>>

(* A second is enough for the data to become ready. *)
Sleeps(t) ==
    /\ pending = {} /\ Goes(t, "sleep", "check")
    /\ UNCHANGED <<value, registers>>

ReadChannel(t, c) ==
    /\ Goes(t, IF c = 0 THEN "read0" ELSE "read1", IF c = 0 THEN "read1" ELSE "print")
    /\ value' = [value EXCEPT ![t][c] = sum[c]]
    /\ UNCHANGED registers

Prints(t) == Goes(t, "print", "end") /\ UNCHANGED <<value, registers>>

-----------------------------------------------------------------------------
(* The converter, channel 0 first. *)
Converts ==
    /\ \E c \in scheduled :
          /\ \A d \in scheduled : c <= d
          /\ scheduled' = scheduled \ {c} /\ pending' = pending \cup {c}
    /\ UNCHANGED <<at, value, ctrl4, config, sum, done, irq, alone>>

(* Sums stop at one more than was asked for, which stands for any more.    *)
MORE == NUM_SAMPLES + 1

Samples(c) == Number(config[c] \cap NUM_FIELD, 24) + 1

Ready ==
    /\ \E c \in pending :
          /\ pending' = pending \ {c}
          /\ sum' = [sum EXCEPT ![c] = IF ACCUMULATE \notin config[c] THEN 1
                                     ELSE IF @ < MORE THEN @ + 1 ELSE @]
          /\ IF done[c] + 1 >= Samples(c)
             THEN irq' = irq \cup {c} /\ done' = [done EXCEPT ![c] = 0]
             ELSE done' = [done EXCEPT ![c] = @ + 1] /\ UNCHANGED irq
    /\ UNCHANGED <<at, value, ctrl4, config, scheduled, alone>>

Tool(t) ==
    \/ Starts(t) \/ ClearMux(t) \/ SetMux(t) \/ ClearIrq(t)
    \/ \E c \in Channels :
          \/ SetAccumulate(t, c) \/ ClearAccumulator(t, c)
          \/ ClearNumber(t, c) \/ SetNumber(t, c) \/ ReadChannel(t, c)
    \/ Check(t) \/ Schedule(t) \/ Waits(t) \/ Sleeps(t) \/ Prints(t)

Converter == Converts \/ Ready

ToolsNext == (\E t \in Tools : Tool(t)) \/ Converter

-----------------------------------------------------------------------------
(* The loop ends when one of two interrupt bits is set.  "All conversions  *)
(* are complete" then (internal_temperature.c:49), of both channels, and   *)
(* none is under way: for a run that no other run overlaps, whatever bits  *)
(* earlier runs have left in the registers.                                *)
ConversionsComplete ==
    \A t \in Tools :
        alone[t] /\ at[t] \in {"read0", "read1"} =>
            irq = Channels /\ scheduled = {} /\ pending = {}

(* Every run of the program ends, also several at the same time, which     *)
(* clear each other's bits and set up the channels anew.                   *)
EveryRunEnds == \A t \in Tools : at[t] = "mux_clr" ~> at[t] = "end"
=============================================================================
