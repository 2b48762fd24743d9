---------------------- MODULE InternalTemperatureProofs ----------------------
(***************************************************************************)
(* Theorems about the window of /dev/mem (imx233.c), for any set of ranges *)
(* and any number of calls that fail, and about the measurement            *)
(* (internal_temperature.c), for any number of runs and samples.           *)
(***************************************************************************)
EXTENDS InternalTemperature, FiniteSetTheorems, TLAPS

-----------------------------------------------------------------------------
(* The window. *)

(* What WindowFollows says of the last call. *)
AskedRange == result.got \in Ranges => result.got = result.asked
CrashOnlyAfterFailure == result.got = "crash" => failures > 0

(* The inductive invariant: there is a window exactly while the file is    *)
(* open, it is the one imx233_mem points to, and prev_mem_range is its     *)
(* range.  Without a failure a remembered range has its window.            *)
WindowInv ==
    /\ fd \in BOOLEAN /\ failures \in Nat
    /\ mapped = IF fd THEN {imx233_mem} ELSE {}
    /\ opened = IF fd THEN 1 ELSE 0
    /\ fd => imx233_mem = prev_mem_range
    /\ mapped \subseteq Ranges
    /\ failures = 0 => fd \/ prev_mem_range = Null
    /\ AskedRange /\ CrashOnlyAfterFailure

(* Nothing is mapped, open or asked for at the beginning.                  *)
LEMMA InitEstablishesWindowInv == WindowInit => WindowInv
<1> SUFFICES ASSUME WindowInit PROVE WindowInv
  OBVIOUS
<1>1. AskedRange /\ CrashOnlyAfterFailure
  BY RegisterWindowAssumption DEF WindowInit, AskedRange, CrashOnlyAfterFailure, Null
<1>2. failures \in Nat /\ mapped \subseteq Ranges
  BY DEF WindowInit
<1> QED
  BY <1>1, <1>2, Zenon DEF WindowInit, WindowInv

(* The window after what is unmapped and closed on the way to a new one.   *)
LEMMA NothingRemains ==
    ASSUME WindowInv
    PROVE  Unmapped = {} /\ Closed = 0
BY DEF WindowInv, Unmapped, Closed

(* Every call, also one that fails on the way, keeps the invariant.        *)
LEMMA CallKeepsWindowInv ==
    ASSUME WindowInv, [WindowNext]_windowVars
    PROVE  WindowInv'
<1>1. CASE UNCHANGED windowVars
  BY <1>1 DEF WindowInv, windowVars, AskedRange, CrashOnlyAfterFailure
<1>2. ASSUME Alive, NEW range \in Ranges, NEW call \in {"imx233_rd", "imx233_wr"},
             Access(range, call)
      PROVE  WindowInv'
  <2>1. Unmapped = {} /\ Closed = 0
    BY NothingRemains
  <2>2. range # Null /\ range # Failed /\ "crash" \notin Ranges /\ Failed \notin Ranges
    BY RegisterWindowAssumption
  <2>3. CASE SameRange(range)
    BY <2>2, <2>3, RegisterWindowAssumption
       DEF SameRange, Touch, WindowInv, AskedRange, CrashOnlyAfterFailure
  <2>4. CASE Moves(range)
    BY <2>1, <2>2, <2>4
       DEF Moves, Touch, WindowInv, AskedRange, CrashOnlyAfterFailure
  <2>5. CASE OpenFails(range, call)
    <3>1. failures' \in Nat /\ failures' > 0 /\ mapped' = {} /\ opened' = 0 /\ fd' = FALSE
      BY <2>1, <2>5 DEF OpenFails, WindowInv
    <3>2. result'.got \in {Failed, "crash"}
      BY <2>5, <3>1 DEF OpenFails, AfterFailure, Touch
    <3>3. AskedRange'
      BY <2>2, <3>2 DEF AskedRange
    <3>4. CrashOnlyAfterFailure'
      BY <3>1 DEF CrashOnlyAfterFailure
    <3>5. /\ mapped' = IF fd' THEN {imx233_mem'} ELSE {}
          /\ opened' = IF fd' THEN 1 ELSE 0
          /\ fd' => imx233_mem' = prev_mem_range'
          /\ fd' \in BOOLEAN
      BY <3>1, Zenon
    <3>6. failures' # 0 /\ mapped' \subseteq Ranges
      BY <3>1
    <3> QED
      BY <3>1, <3>3, <3>4, <3>5, <3>6, Zenon DEF WindowInv
  <2>6. CASE MmapFails(range, call)
    <3>1. failures' \in Nat /\ failures' > 0 /\ mapped' = {} /\ opened' = 0 /\ fd' = FALSE
      BY <2>1, <2>6 DEF MmapFails, WindowInv
    <3>2. result'.got \in {Failed, "crash"}
      BY <2>6, <3>1 DEF MmapFails, AfterFailure, Touch
    <3>3. AskedRange'
      BY <2>2, <3>2 DEF AskedRange
    <3>4. CrashOnlyAfterFailure'
      BY <3>1 DEF CrashOnlyAfterFailure
    <3>5. /\ mapped' = IF fd' THEN {imx233_mem'} ELSE {}
          /\ opened' = IF fd' THEN 1 ELSE 0
          /\ fd' => imx233_mem' = prev_mem_range'
          /\ fd' \in BOOLEAN
      BY <3>1, Zenon
    <3>6. failures' # 0 /\ mapped' \subseteq Ranges
      BY <3>1
    <3> QED
      BY <3>1, <3>3, <3>4, <3>5, <3>6, Zenon DEF WindowInv
  <2> QED
    BY <1>2, <2>3, <2>4, <2>5, <2>6 DEF Access
<1> QED
  BY <1>1, <1>2 DEF WindowNext

(* One range at most is mapped and one file open (imx233.c:20-39), no call *)
(* gets at a register of another range (16-18, 42-51), and only a program  *)
(* in which open or mmap has failed is ended by a register access (25-39). *)
THEOREM WindowAlwaysFollows == Spec => []WindowFollows
<1>1. Init => WindowInv
  BY InitEstablishesWindowInv DEF Init
<1>2. WindowInv /\ [Next]_vars => WindowInv'
  <2> SUFFICES ASSUME WindowInv, [Next]_vars PROVE [WindowNext]_windowVars
    BY CallKeepsWindowInv
  <2> QED
    BY DEF Next, vars
<1>3. WindowInv => WindowFollows
  <2> SUFFICES ASSUME WindowInv PROVE WindowFollows
    OBVIOUS
  <2>1. Cardinality(mapped) <= 1
    BY FS_EmptySet, FS_Singleton DEF WindowInv
  <2>2. opened <= 1 /\ (opened = 1 <=> fd)
    BY DEF WindowInv
  <2> QED
    BY <2>1, <2>2 DEF WindowInv, WindowFollows, AskedRange, CrashOnlyAfterFailure
<1> QED
  BY <1>1, <1>2, <1>3, PTL DEF Spec
-----------------------------------------------------------------------------
(* The measurement. *)

Places ==
    {"idle", "mux_clr", "mux_set", "irq_clr", "acc_set0", "acc_clr0", "num_clr0", "acc_set1",
     "acc_clr1", "num_clr1", "num_set0", "num_set1", "check", "schedule", "wait", "sleep",
     "read0", "read1", "print", "end"}

ToolsTypeOK ==
    /\ at \in [Tools -> Places] /\ alone \in [Tools -> BOOLEAN]
    /\ config \in [Channels -> SUBSET Nat] /\ done \in [Channels -> Nat]
    /\ scheduled \subseteq Channels /\ pending \subseteq Channels /\ irq \subseteq Channels

(* No other run goes on beside one that has not been overlapped.           *)
AloneRuns ==
    \A t, u \in Tools : alone[t] /\ Running(t) /\ Running(u) => t = u

(* A conversion under way has a run that waits for it: the last one that   *)
(* scheduled conversions, whoever else does so meanwhile.                  *)
Awaited ==
    /\ scheduled # {} => \E t \in Tools : at[t] = "wait"
    /\ pending # {} => \E t \in Tools : at[t] \in {"wait", "sleep"}

(* The field of a channel, and whether the next conversion is the last.    *)
NumberSet(c) == config[c] \cap NUM_FIELD = Bits(NUM_SAMPLES - 1, 24) \cap NUM_FIELD
Last(n) == n + 1 >= Number(Bits(NUM_SAMPLES - 1, 24) \cap NUM_FIELD, 24) + 1

(* The two channels keep step: in the loop, as many conversions are left   *)
(* of both, and an interrupt bit is set when none is left.                 *)
InPhase ==
    \E n \in Nat : \A c \in Channels :
        IF c \in scheduled \cup pending THEN done[c] = n /\ c \notin irq
        ELSE IF Last(n) THEN done[c] = 0 /\ c \in irq
        ELSE done[c] = n + 1 /\ c \notin irq

(* What is true of the converter at each place of a run that is alone.     *)
Sees(t) ==
    /\ at[t] \in {"acc_set0", "acc_clr0", "num_clr0", "acc_set1", "acc_clr1", "num_clr1",
                  "num_set0", "num_set1", "schedule"} => irq = {}
    /\ at[t] \in {"num_set1", "check", "schedule", "wait", "sleep"} => NumberSet(0)
    /\ at[t] \in {"check", "schedule", "wait", "sleep"} => NumberSet(1)
    /\ at[t] \in {"acc_set1", "acc_clr1", "num_clr1"} => config[0] \cap NUM_FIELD = {}
    /\ at[t] \in {"num_set0", "num_set1"} => config[1] \cap NUM_FIELD = {}
    /\ at[t] = "num_set0" => config[0] \cap NUM_FIELD = {}
    /\ at[t] = "num_set1" => done[0] = 0
    /\ at[t] = "check" => irq \in {{}, Channels}
    /\ at[t] \in {"check", "schedule"} => done[0] = done[1]
    /\ at[t] \in {"wait", "sleep"} => InPhase /\ scheduled \cap pending = {}
    /\ at[t] \in {"read0", "read1"} => irq = Channels

ToolsInv == ToolsTypeOK /\ AloneRuns /\ Awaited /\ \A t \in Tools : alone[t] => Sees(t)

(* Nothing is converted before the first run. *)
LEMMA ToolsInvInit == ToolsInit => ToolsInv
<1> SUFFICES ASSUME ToolsInit PROVE ToolsInv
  OBVIOUS
<1> USE DEF ToolsInit, Places
<1>1. ToolsTypeOK
  BY DEF ToolsTypeOK
<1>2. AloneRuns /\ Awaited
  BY DEF AloneRuns, Awaited, Running
<1>3. \A t \in Tools : Sees(t)
  BY DEF Sees
<1> QED
  BY <1>1, <1>2, <1>3 DEF ToolsInv

(* A run that has not been overlapped when it goes on is the only one; one *)
(* beside it that has not been overlapped either does not run.             *)
LEMMA RunGoesOn ==
    ASSUME ToolsInv, NEW t \in Tools, NEW from, NEW to \in Places, Goes(t, from, to)
    PROVE  /\ at' \in [Tools -> Places] /\ alone' \in [Tools -> BOOLEAN]
           /\ at[t] = from /\ at'[t] = to
           /\ \A u \in Tools \ {t} : at'[u] = at[u] /\ (alone'[u] => at[u] \in {"idle", "end"})
           /\ alone'[t] => Sees(t) /\ \A u \in Tools \ {t} : at[u] \in {"idle", "end"}
           /\ AloneRuns'
<1> DEFINE others == {u \in Tools \ {t} : Running(u)}
<1>1. at \in [Tools -> Places] /\ alone \in [Tools -> BOOLEAN]
  BY DEF ToolsInv, ToolsTypeOK
<1>2. at[t] = from /\ at' = [at EXCEPT ![t] = to]
  BY DEF Goes
<1>3. alone' = [u \in Tools |-> IF others # {} /\ u \in others \cup {t} THEN FALSE ELSE alone[u]]
  BY DEF Goes
<1>4. at' \in [Tools -> Places] /\ at'[t] = to /\ \A u \in Tools \ {t} : at'[u] = at[u]
  BY <1>1, <1>2
<1>5. alone' \in [Tools -> BOOLEAN] /\ \A u \in Tools : alone'[u] => alone[u]
  BY <1>1, <1>3, Zenon
<1>6. \A u \in others : ~alone'[u]
  BY <1>3
<1>7. alone'[t] => others = {}
  BY <1>3
<1>8. AloneRuns'
  <2> SUFFICES ASSUME NEW a \in Tools, NEW b \in Tools, alone'[a], Running(a)', Running(b)'
               PROVE  a = b
    BY DEF AloneRuns
  <2>1. CASE a # t /\ b # t
    BY <1>4, <1>5, <2>1 DEF Running, ToolsInv, AloneRuns
  <2>2. CASE a = t /\ b # t
    BY <1>4, <1>7, <2>2 DEF Running
  <2>3. CASE a # t /\ b = t
    BY <1>4, <1>6, <2>3 DEF Running
  <2> QED
    BY <2>1, <2>2, <2>3
<1> QED
  BY <1>2, <1>4, <1>5, <1>6, <1>7, <1>8 DEF Running, ToolsInv

(* For a step of a run it is left to show what it does to the converter:   *)
(* that the sets of the registers, the run that waits and what the run     *)
(* itself sees of the converter remain as they should be.                  *)
LEMMA RunKeepsToolsInv ==
    ASSUME ToolsInv, NEW t \in Tools, NEW from, NEW to \in Places, Goes(t, from, to),
           config' \in [Channels -> SUBSET Nat], done' \in [Channels -> Nat],
           scheduled' \subseteq Channels, pending' = pending, irq' \subseteq Channels,
           scheduled' = {} \/ to = "wait" \/ (scheduled' = scheduled /\ from # "wait"),
           pending = {} \/ from # "sleep", from = "wait" => to = "sleep",
           alone'[t] => Sees(t)'
    PROVE  ToolsInv'
<1>1. ToolsTypeOK'
  BY RunGoesOn DEF ToolsInv, ToolsTypeOK
<1>2. AloneRuns'
  BY RunGoesOn
<1>3. Awaited'
  <2>1. \A u \in Tools : at'[u] = IF u = t THEN to ELSE at[u]
    BY RunGoesOn
  <2>2. at[t] = from
    BY RunGoesOn
  <2>3. scheduled' # {} => \E u \in Tools : at'[u] = "wait"
    BY <2>1, <2>2 DEF ToolsInv, Awaited
  <2>4. pending' # {} => \E u \in Tools : at'[u] \in {"wait", "sleep"}
    BY <2>1, <2>2 DEF ToolsInv, Awaited
  <2> QED
    BY <2>3, <2>4 DEF Awaited
<1>4. ASSUME NEW u \in Tools, alone'[u] PROVE Sees(u)'
  <2>1. CASE u = t
    BY <1>4, <2>1
  <2>2. CASE u # t
    <3>1. at'[u] \in {"idle", "end"}
      BY <1>4, <2>2, RunGoesOn
    <3> QED
      BY <3>1 DEF Sees
  <2> QED
    BY <2>1, <2>2
<1> QED
  BY <1>1, <1>2, <1>3, <1>4 DEF ToolsInv

(* While an undisturbed run is at a place at which it waits for nothing,   *)
(* nothing is converted.                                                   *)
LEMMA NothingUnderWay ==
    ASSUME ToolsInv, NEW t \in Tools, \A u \in Tools \ {t} : at[u] \in {"idle", "end"}
    PROVE  /\ at[t] # "wait" => scheduled = {}
           /\ at[t] \notin {"wait", "sleep"} => pending = {}
BY DEF ToolsInv, Awaited

(* The writes before the first conversion.                                 *)
LEMMA SetUpKeepsToolsInv ==
    ASSUME ToolsInv, NEW t \in Tools,
           \/ Starts(t) \/ ClearMux(t) \/ SetMux(t) \/ ClearIrq(t)
           \/ \E c \in Channels :
                 SetAccumulate(t, c) \/ ClearAccumulator(t, c) \/ ClearNumber(t, c)
    PROVE  ToolsInv'
<1> USE DEF Places, registers
<1>0. ToolsTypeOK /\ 0 \in Channels /\ 1 \in Channels
  BY DEF ToolsInv, Channels
<1>1. CASE Starts(t)
  <2>1. Goes(t, "idle", "mux_clr") /\ UNCHANGED registers
    BY <1>1 DEF Starts
  <2>2. alone'[t] => Sees(t)'
    BY <2>1, RunGoesOn DEF Sees
  <2> QED
    BY <1>0, <2>1, <2>2, RunKeepsToolsInv DEF ToolsTypeOK
<1>2. CASE ClearMux(t)
  <2>1. Goes(t, "mux_clr", "mux_set") /\ UNCHANGED <<config, done, scheduled, pending, irq>>
    BY <1>2 DEF ClearMux
  <2>2. alone'[t] => Sees(t)'
    BY <2>1, RunGoesOn DEF Sees
  <2> QED
    BY <1>0, <2>1, <2>2, RunKeepsToolsInv DEF ToolsTypeOK
<1>3. CASE SetMux(t)
  <2>1. Goes(t, "mux_set", "irq_clr") /\ UNCHANGED <<config, done, scheduled, pending, irq>>
    BY <1>3 DEF SetMux
  <2>2. alone'[t] => Sees(t)'
    BY <2>1, RunGoesOn DEF Sees
  <2> QED
    BY <1>0, <2>1, <2>2, RunKeepsToolsInv DEF ToolsTypeOK
<1>4. CASE ClearIrq(t)
  <2>1. /\ Goes(t, "irq_clr", "acc_set0") /\ irq' = {}
        /\ UNCHANGED <<config, done, scheduled, pending>>
    BY <1>4 DEF ClearIrq
  <2>2. alone'[t] => Sees(t)'
    BY <2>1, RunGoesOn DEF Sees
  <2> QED
    BY <1>0, <2>1, <2>2, RunKeepsToolsInv DEF ToolsTypeOK
<1>5. ASSUME NEW c \in Channels, SetAccumulate(t, c)
      PROVE  ToolsInv'
  <2> DEFINE from == IF c = 0 THEN "acc_set0" ELSE "acc_set1"
             to == IF c = 0 THEN "acc_clr0" ELSE "acc_clr1"
  <2>1. /\ Goes(t, from, to) /\ UNCHANGED <<done, scheduled, pending, irq>>
        /\ config' = [config EXCEPT ![c] = @ \cup {ACCUMULATE}]
    BY <1>5 DEF SetAccumulate
  <2>2. config' \in [Channels -> SUBSET Nat]
    BY <1>0, <2>1 DEF ToolsTypeOK, ACCUMULATE
  <2>3. alone'[t] => Sees(t)'
    BY <1>0, <2>1, RunGoesOn DEF Sees, ToolsTypeOK, Channels
  <2>4. from # "wait" /\ from # "sleep" /\ to \in Places
    OBVIOUS
  <2> HIDE DEF from, to
  <2> QED
    BY <1>0, <2>1, <2>2, <2>3, <2>4, RunKeepsToolsInv DEF ToolsTypeOK
<1>6. ASSUME NEW c \in Channels, ClearAccumulator(t, c)
      PROVE  ToolsInv'
  <2> DEFINE from == IF c = 0 THEN "acc_clr0" ELSE "acc_clr1"
             to == IF c = 0 THEN "num_clr0" ELSE "num_clr1"
  <2>1. Goes(t, from, to) /\ UNCHANGED <<config, done, scheduled, pending, irq>>
    BY <1>6 DEF ClearAccumulator
  <2>2. alone'[t] => Sees(t)'
    BY <1>0, <2>1, RunGoesOn DEF Sees, ToolsTypeOK, Channels
  <2>3. from # "wait" /\ from # "sleep" /\ to \in Places
    OBVIOUS
  <2> HIDE DEF from, to
  <2> QED
    BY <1>0, <2>1, <2>2, <2>3, RunKeepsToolsInv DEF ToolsTypeOK
<1>7. ASSUME NEW c \in Channels, ClearNumber(t, c)
      PROVE  ToolsInv'
  <2> DEFINE from == IF c = 0 THEN "num_clr0" ELSE "num_clr1"
             to == IF c = 0 THEN "acc_set1" ELSE "num_set0"
  <2>1. /\ Goes(t, from, to) /\ UNCHANGED <<scheduled, pending, irq>>
        /\ config' = [config EXCEPT ![c] = @ \ NUM_FIELD] /\ done' = [done EXCEPT ![c] = 0]
    BY <1>7 DEF ClearNumber
  <2>2. config' \in [Channels -> SUBSET Nat] /\ done' \in [Channels -> Nat]
    BY <1>0, <2>1 DEF ToolsTypeOK
  <2>3. alone'[t] => Sees(t)'
    BY <1>0, <2>1, RunGoesOn DEF Sees, ToolsTypeOK, Channels
  <2>4. from # "wait" /\ from # "sleep" /\ to \in Places
    OBVIOUS
  <2> HIDE DEF from, to
  <2> QED
    BY <1>0, <2>1, <2>2, <2>3, <2>4, RunKeepsToolsInv DEF ToolsTypeOK
<1> QED
  BY <1>1, <1>2, <1>3, <1>4, <1>5, <1>6, <1>7

(* The numbers of samples are the last thing set before the first          *)
(* conversion: both fields were clear, the interrupt bits still are.       *)
LEMMA SetNumberKeepsToolsInv ==
    ASSUME ToolsInv, NEW t \in Tools, NEW c \in Channels, SetNumber(t, c)
    PROVE  ToolsInv'
<1> DEFINE from == IF c = 0 THEN "num_set0" ELSE "num_set1"
           to == IF c = 0 THEN "num_set1" ELSE "check"
           number == Bits(NUM_SAMPLES - 1, 24)
<1>0. ToolsTypeOK /\ 0 \in Channels /\ 1 \in Channels
  BY DEF ToolsInv, Channels
<1>1. /\ Goes(t, from, to) /\ UNCHANGED <<scheduled, pending, irq>>
      /\ config' = [config EXCEPT ![c] = @ \cup number] /\ done' = [done EXCEPT ![c] = 0]
  BY DEF SetNumber
<1>2. number \subseteq Nat
  BY DEF Bits
<1>3. config' \in [Channels -> SUBSET Nat] /\ done' \in [Channels -> Nat]
  BY <1>0, <1>1, <1>2 DEF ToolsTypeOK
<1>4. config[c] \cap NUM_FIELD = {} => NumberSet(c)'
  BY <1>0, <1>1 DEF ToolsTypeOK, NumberSet
<1>5. from # "wait" /\ from # "sleep" /\ to \in Places
  BY DEF Places
<1>6. alone'[t] => Sees(t)'
  <2> SUFFICES ASSUME alone'[t] PROVE Sees(t)'
    OBVIOUS
  <2> HIDE DEF number
  <2>1. Sees(t) /\ at[t] = from /\ at'[t] = to
    BY <1>1, <1>5, RunGoesOn
  <2>2. CASE c = 0
    <3>1. at[t] = "num_set0" /\ at'[t] = "num_set1"
      BY <2>1, <2>2
    <3>2. config'[1] = config[1] /\ done'[0] = 0 /\ irq' = irq
      BY <1>0, <1>1, <2>2 DEF ToolsTypeOK
    <3> QED
      BY <1>4, <2>1, <2>2, <3>1, <3>2 DEF Sees
  <2>3. CASE c # 0
    <3>1. at[t] = "num_set1" /\ at'[t] = "check" /\ c = 1
      BY <2>1, <2>3 DEF Channels
    <3>2. config'[0] = config[0] /\ done'[0] = done[0] /\ done'[1] = 0 /\ irq' = irq
      BY <1>0, <1>1, <3>1 DEF ToolsTypeOK
    <3>3. NumberSet(0)'
      BY <2>1, <3>1, <3>2 DEF Sees, NumberSet
    <3> QED
      BY <1>4, <2>1, <3>1, <3>2, <3>3 DEF Sees
  <2> QED
    BY <2>2, <2>3
<1> HIDE DEF from, to
<1> QED
  BY <1>0, <1>1, <1>3, <1>5, <1>6, RunKeepsToolsInv DEF ToolsTypeOK

(* The loop, the reading and the end of a run.                             *)
LEMMA LoopKeepsToolsInv ==
    ASSUME ToolsInv, NEW t \in Tools,
           \/ Check(t) \/ Schedule(t) \/ Waits(t) \/ Sleeps(t) \/ Prints(t)
           \/ \E c \in Channels : ReadChannel(t, c)
    PROVE  ToolsInv'
<1> USE DEF Places, registers
<1>0. ToolsTypeOK /\ 0 \in Channels /\ 1 \in Channels
  BY DEF ToolsInv, Channels
<1>1. CASE Check(t)
  <2> DEFINE to == IF irq = {} THEN "schedule" ELSE "read0"
  <2>1. Goes(t, "check", to) /\ UNCHANGED <<config, done, scheduled, pending, irq>>
    BY <1>1 DEF Check
  <2>2. alone'[t] => Sees(t)'
    BY <2>1, RunGoesOn DEF Sees, NumberSet
  <2> QED
    BY <1>0, <2>1, <2>2, RunKeepsToolsInv DEF ToolsTypeOK
<1>2. CASE Schedule(t)
  <2>1. /\ Goes(t, "schedule", "wait") /\ scheduled' = Channels
        /\ UNCHANGED <<config, done, pending, irq>>
    BY <1>2 DEF Schedule
  <2>2. alone'[t] => Sees(t)'
    <3> SUFFICES ASSUME alone'[t] PROVE Sees(t)'
      OBVIOUS
    <3>1. Sees(t) /\ at[t] = "schedule" /\ at'[t] = "wait" /\ pending = {}
      BY <2>1, RunGoesOn, NothingUnderWay
    <3>2. done[0] = done[1] /\ done[0] \in Nat /\ irq = {}
      BY <1>0, <3>1 DEF Sees, ToolsTypeOK
    <3>3. \A c \in Channels :
             c \in scheduled' \cup pending' /\ done'[c] = done[0] /\ c \notin irq'
      BY <2>1, <3>2 DEF Channels
    <3>4. InPhase'
      BY <3>2, <3>3 DEF InPhase
    <3>5. NumberSet(0)' /\ NumberSet(1)'
      BY <2>1, <3>1 DEF Sees, NumberSet
    <3> QED
      BY <2>1, <3>1, <3>4, <3>5 DEF Sees
  <2> QED
    BY <1>0, <2>1, <2>2, RunKeepsToolsInv DEF ToolsTypeOK
<1>3. CASE Waits(t)
  <2>1. /\ Goes(t, "wait", "sleep") /\ scheduled = {} /\ scheduled' = {}
        /\ UNCHANGED <<config, done, scheduled, pending, irq>>
    BY <1>3 DEF Waits
  <2>2. alone'[t] => Sees(t)'
    <3>1. InPhase' <=> InPhase
      BY <2>1 DEF InPhase
    <3> QED
      BY <2>1, <3>1, RunGoesOn DEF Sees, NumberSet
  <2> QED
    BY <1>0, <2>1, <2>2, RunKeepsToolsInv DEF ToolsTypeOK
<1>4. CASE Sleeps(t)
  <2>1. /\ Goes(t, "sleep", "check") /\ pending = {}
        /\ UNCHANGED <<config, done, scheduled, pending, irq>>
    BY <1>4 DEF Sleeps
  <2>2. alone'[t] => Sees(t)'
    <3> SUFFICES ASSUME alone'[t] PROVE Sees(t)'
      OBVIOUS
    <3>1. Sees(t) /\ at[t] = "sleep" /\ at'[t] = "check" /\ scheduled = {}
      BY <2>1, RunGoesOn, NothingUnderWay
    <3>2. InPhase
      BY <3>1 DEF Sees
    <3>3. irq \in {{}, Channels} /\ done[0] = done[1]
      <4>1. PICK n \in Nat : \A c \in Channels :
               IF Last(n) THEN done[c] = 0 /\ c \in irq ELSE done[c] = n + 1 /\ c \notin irq
        BY <2>1, <3>1, <3>2 DEF InPhase
      <4>2. irq \subseteq Channels
        BY <1>0 DEF ToolsTypeOK
      <4>3. CASE Last(n)
        BY <1>0, <4>1, <4>2, <4>3
      <4>4. CASE ~Last(n)
        BY <1>0, <4>1, <4>2, <4>4
      <4> QED
        BY <4>3, <4>4
    <3> QED
      BY <2>1, <3>1, <3>3 DEF Sees, NumberSet
  <2> QED
    BY <1>0, <2>1, <2>2, RunKeepsToolsInv DEF ToolsTypeOK
<1>5. CASE Prints(t)
  <2>1. Goes(t, "print", "end") /\ UNCHANGED <<config, done, scheduled, pending, irq>>
    BY <1>5 DEF Prints
  <2>2. alone'[t] => Sees(t)'
    BY <2>1, RunGoesOn DEF Sees
  <2> QED
    BY <1>0, <2>1, <2>2, RunKeepsToolsInv DEF ToolsTypeOK
<1>6. ASSUME NEW c \in Channels, ReadChannel(t, c)
      PROVE  ToolsInv'
  <2> DEFINE from == IF c = 0 THEN "read0" ELSE "read1"
             to == IF c = 0 THEN "read1" ELSE "print"
  <2>1. Goes(t, from, to) /\ UNCHANGED <<config, done, scheduled, pending, irq>>
    BY <1>6 DEF ReadChannel
  <2>2. alone'[t] => Sees(t)'
    BY <2>1, RunGoesOn DEF Sees
  <2>3. from # "wait" /\ from # "sleep" /\ to \in Places
    OBVIOUS
  <2> HIDE DEF from, to
  <2> QED
    BY <1>0, <2>1, <2>2, <2>3, RunKeepsToolsInv DEF ToolsTypeOK
<1> QED
  BY <1>1, <1>2, <1>3, <1>4, <1>5, <1>6

(* While the converter works an undisturbed run waits for it.              *)
LEMMA ConverterHasWaiter ==
    ASSUME ToolsInv, NEW t \in Tools, alone[t], Running(t)
    PROVE  /\ scheduled # {} => at[t] = "wait"
           /\ pending # {} => at[t] \in {"wait", "sleep"}
BY DEF ToolsInv, AloneRuns, Awaited, Running

(* A channel is converted. *)
LEMMA ConvertsKeepsToolsInv == ToolsInv /\ Converts => ToolsInv'
<1> SUFFICES ASSUME ToolsInv, Converts PROVE ToolsInv'
  OBVIOUS
<1>1. PICK c \in scheduled : scheduled' = scheduled \ {c} /\ pending' = pending \cup {c}
  BY DEF Converts
<1>2. UNCHANGED <<at, config, done, irq, alone>>
  BY DEF Converts
<1>3. ToolsTypeOK' /\ AloneRuns'
  BY <1>1, <1>2 DEF ToolsInv, ToolsTypeOK, AloneRuns, Running
<1>4. Awaited'
  BY <1>1, <1>2 DEF ToolsInv, Awaited
<1>5. ASSUME NEW t \in Tools, alone'[t] PROVE Sees(t)'
  <2>1. Sees(t)
    BY <1>2, <1>5 DEF ToolsInv
  <2>2. CASE ~Running(t)
    BY <1>2, <2>2 DEF Running, Sees
  <2>3. CASE Running(t)
    <3>1. at'[t] = "wait" /\ at[t] = "wait"
      BY <1>1, <1>2, <1>5, <2>3, ConverterHasWaiter
    <3>2. scheduled' \cup pending' = scheduled \cup pending
      BY <1>1
    <3>3. InPhase'
      BY <1>2, <2>1, <3>1, <3>2 DEF Sees, InPhase
    <3>4. scheduled' \cap pending' = {}
      BY <1>1, <2>1, <3>1 DEF Sees
    <3> QED
      BY <1>2, <2>1, <3>1, <3>3, <3>4 DEF Sees, NumberSet
  <2> QED
    BY <2>2, <2>3
<1> QED
  BY <1>3, <1>4, <1>5 DEF ToolsInv

(* The value of a channel becomes ready.                                   *)
LEMMA ReadyKeepsToolsInv == ToolsInv /\ Ready => ToolsInv'
<1> SUFFICES ASSUME ToolsInv, Ready PROVE ToolsInv'
  OBVIOUS
<1>0. ToolsTypeOK
  BY DEF ToolsInv
<1>1. PICK c \in pending :
         /\ pending' = pending \ {c}
         /\ IF done[c] + 1 >= Samples(c)
            THEN irq' = irq \cup {c} /\ done' = [done EXCEPT ![c] = 0]
            ELSE done' = [done EXCEPT ![c] = @ + 1] /\ UNCHANGED irq
  BY Zenon DEF Ready
<1>2. UNCHANGED <<at, config, scheduled, alone>>
  BY DEF Ready
<1>3. ToolsTypeOK' /\ AloneRuns'
  BY <1>0, <1>1, <1>2 DEF ToolsInv, ToolsTypeOK, AloneRuns, Running
<1>4. Awaited'
  BY <1>1, <1>2 DEF ToolsInv, Awaited
<1>5. ASSUME NEW t \in Tools, alone'[t] PROVE Sees(t)'
  <2>1. Sees(t)
    BY <1>2, <1>5 DEF ToolsInv
  <2>2. CASE ~Running(t)
    BY <1>2, <2>2 DEF Running, Sees
  <2>3. CASE Running(t)
    <3>1. at'[t] = at[t] /\ at[t] \in {"wait", "sleep"}
      BY <1>1, <1>2, <1>5, <2>3, ConverterHasWaiter
    <3>2. NumberSet(0) /\ NumberSet(1) /\ InPhase /\ scheduled \cap pending = {}
      BY <2>1, <3>1 DEF Sees
    <3>3. NumberSet(c)
      BY <1>0, <3>2 DEF ToolsTypeOK, Channels
    <3>4. done[c] + 1 >= Samples(c) <=> Last(done[c])
      BY <3>3 DEF NumberSet, Samples, Last
    <3>5. PICK n \in Nat : \A d \in Channels :
             IF d \in scheduled \cup pending THEN done[d] = n /\ d \notin irq
             ELSE IF Last(n) THEN done[d] = 0 /\ d \in irq
             ELSE done[d] = n + 1 /\ d \notin irq
      BY <3>2 DEF InPhase
    <3>6. c \in Channels /\ done[c] = n /\ c \notin scheduled' \cup pending'
      BY <1>0, <1>1, <1>2, <3>2, <3>5 DEF ToolsTypeOK
    <3>7. IF Last(n) THEN irq' = irq \cup {c} /\ done' = [done EXCEPT ![c] = 0]
          ELSE done' = [done EXCEPT ![c] = n + 1] /\ irq' = irq
      BY <1>1, <3>4, <3>6
    <3>8. \A d \in Channels :
             IF d \in scheduled' \cup pending' THEN done'[d] = n /\ d \notin irq'
             ELSE IF Last(n) THEN done'[d] = 0 /\ d \in irq'
             ELSE done'[d] = n + 1 /\ d \notin irq'
      <4> SUFFICES ASSUME NEW d \in Channels
                   PROVE  IF d \in scheduled' \cup pending' THEN done'[d] = n /\ d \notin irq'
                          ELSE IF Last(n) THEN done'[d] = 0 /\ d \in irq'
                          ELSE done'[d] = n + 1 /\ d \notin irq'
        OBVIOUS
      <4>1. CASE d = c
        BY <1>0, <3>5, <3>6, <3>7, <4>1 DEF ToolsTypeOK
      <4>2. CASE d # c
        BY <1>0, <1>1, <1>2, <3>5, <3>7, <4>2 DEF ToolsTypeOK
      <4> QED
        BY <4>1, <4>2
    <3>9. InPhase'
      BY <3>8 DEF InPhase
    <3> QED
      BY <1>1, <1>2, <3>1, <3>2, <3>9 DEF Sees, NumberSet
  <2> QED
    BY <2>2, <2>3
<1> QED
  BY <1>3, <1>4, <1>5 DEF ToolsInv

(* When a run that no other has overlapped leaves its loop, both channels  *)
(* have been converted as often as asked and nothing is under way: the     *)
(* test of two interrupt bits by "or" is enough (internal_temperature.c:   *)
(* 40-52), for any number of runs before it, overlapping or not, and       *)
(* whatever they have left in the registers.                               *)
THEOREM MeasurementsComplete == Spec => []ConversionsComplete
<1>1. Init => ToolsInv
  BY ToolsInvInit DEF Init
<1>2. ToolsInv /\ [Next]_vars => ToolsInv'
  <2> SUFFICES ASSUME ToolsInv, [Next]_vars PROVE ToolsInv'
    OBVIOUS
  <2>1. CASE UNCHANGED toolsVars
    BY <2>1
       DEF toolsVars, registers, ToolsInv, ToolsTypeOK, AloneRuns, Awaited, Running, Sees,
           NumberSet, InPhase
  <2>2. ASSUME NEW t \in Tools, Tool(t) PROVE ToolsInv'
    BY <2>2, SetUpKeepsToolsInv, SetNumberKeepsToolsInv, LoopKeepsToolsInv DEF Tool
  <2>3. CASE Converter
    BY <2>3, ConvertsKeepsToolsInv, ReadyKeepsToolsInv DEF Converter
  <2> QED
    BY <2>1, <2>2, <2>3 DEF Next, ToolsNext, vars, toolsVars
<1>3. ToolsInv => ConversionsComplete
  <2> SUFFICES ASSUME ToolsInv, NEW t \in Tools, alone[t], at[t] \in {"read0", "read1"}
               PROVE  irq = Channels /\ scheduled = {} /\ pending = {}
    BY DEF ConversionsComplete
  <2>1. irq = Channels
    BY DEF ToolsInv, Sees
  <2>2. scheduled = {} /\ pending = {}
    BY ConverterHasWaiter DEF Running
  <2> QED
    BY <2>1, <2>2
<1> QED
  BY <1>1, <1>2, <1>3, PTL DEF Spec
=============================================================================
