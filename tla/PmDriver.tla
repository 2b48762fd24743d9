------------------------------ MODULE PmDriver ------------------------------
(***************************************************************************)
(* The kernel module vensey_pm: processes read and write                   *)
(* /proc/pm_experimental, and the module reads and writes the power        *)
(* registers of the imx233 for them.  The kernel is not preemptible        *)
(* (PREEMPT_VOLUNTARY) on one processor: processes interleave where the    *)
(* code may sleep, that is in user space, while a message is copied from a *)
(* page that is not there, and in the allocations of request_mem_region    *)
(* and ioremap.                                                            *)
(***************************************************************************)
EXTENDS Naturals, SequencesExt

CONSTANTS Processes,
          Jobs,        \* what each process does: sequences of [op, text]
          MAPPINGS,    \* how many mappings the address space of the kernel holds
          PageFaults,  \* TRUE: a process may sleep in the middle of a copy
          UNLOADS,     \* bound on removals of the module
          NoMemory,    \* TRUE: the allocation of the message buffer may fail
          Mixtures     \* the commands that messages mixed up may be, 0 for none

ASSUME PmAssumption ==
    /\ MAPPINGS \in Nat /\ UNLOADS \in Nat
    /\ PageFaults \in BOOLEAN /\ NoMemory \in BOOLEAN

VARIABLES loaded,      \* the module is in the kernel
          entry,       \* the /proc entry exists
          msg,         \* the message in the buffer, while somebody copies
          unloads

VARIABLES hw,          \* external: the registers, as sets of bits
          power,       \* external: the imx233 is powered
          busy,        \* the regions requested, without their owners
          mapped       \* how many mappings exist

VARIABLES at,          \* where a process is
          rest,        \* what it has still to do
          cmd,         \* the command it executes, 0 for none
          todo,        \* the accesses it has still to make
          met          \* 1 once two processes have been in the module since power up

moduleVars == <<loaded, entry, msg, unloads>>
resources  == <<busy, mapped>>
procVars   == <<at, rest, cmd, todo, met>>
vars == <<moduleVars, hw, power, resources, procVars>>

-----------------------------------------------------------------------------
(* The names of the commands in the order of the code, cut where two of    *)
(* them part or where somebody may stop typing.                            *)
Names == << <<"clr_autostrt">>, <<"s", "_", "down_f">>, <<"s", "et_", "alarm">>,
            <<"s", "_", "alarm">>, <<"en_", "batt">>, <<"en_", "4p2">>,
            <<"s", "et_", "4", "V_", "full">>, <<"s", "et_", "4", "V_", "th">>,
            <<"s", "et_", "4", ".4V_th">>, <<"s", "et_", "nooli">>,
            <<"dis_load_res">>, <<"release_nooli">> >>

ASSUME MixturesAssumption == Mixtures \subseteq 0 .. Len(Names)

s_down_f == 2
s_alarm == 4
set_nooli == 10

(* A slip: the last part is not compared. *)
SelectedLate(text) ==
    LET hits == {i \in DOMAIN Names : IsPrefix(Front(text), Names[i])}
    IN  IF hits = {} THEN 0 ELSE Min(hits)

(* strncmp with count - 1, that is without the newline: the first name     *)
(* that begins with the text.                                              *)
Selected(text) ==
    LET hits == {i \in DOMAIN Names : IsPrefix(text, Names[i])}
    IN  IF hits = {} THEN 0 ELSE Min(hits)

(* A register, which way it is accessed, and the bits written.  A region   *)
(* is the word of a register and the next one: of a register and its SET,  *)
(* of its SET and its CLR, of its CLR and its TOG.                         *)
Access(dir, base, mode, bits) ==
    [dir |-> dir, reg |-> <<base, mode>>, bits |-> bits]

Overlap(r, s) ==
    r[1] = s[1] /\ (r = s \/ r[2] = "SET" \/ s[2] = "SET")

(* register_write_int; the first request for HW_RTC_PERSISTENT0_CLR is the *)
(* one the TODO is about.                                                  *)
Write(base, mode, bits) ==
    (IF <<base, mode>> = <<"PERSISTENT0", "CLR">>
     THEN <<Access("trial", base, mode, bits)>> ELSE <<>>)
    \o <<Access("write", base, mode, bits)>>

Down == Write("RESET", "", {0})
Level4P2 == Write("DCDC4P2", "", {22, 23, 28, 29, 30, 31})

(* A slip: the alarm is enabled after the chip was told to go down. *)
AlarmProgramReversed ==
    Write("PERSISTENT0", "CLR", {16, 17}) \o Down \o Write("PERSISTENT0", "SET", {2})

AlarmProgram ==
    Write("PERSISTENT0", "CLR", {16, 17}) \o Write("PERSISTENT0", "SET", {2}) \o Down

ChargerLoad == Access("write", "CHARGE", "", {1, 22})

NooliLevels ==
    Write("5VCTRL", "", {0, 1, 4, 7, 8, 12, 13, 14, 15, 16, 17, 26})
        \o Write("CTRL", "SET", {5})
VbusTest == Access("test", "CTRL", "", {})

Enable4P2 ==
    Level4P2 \o Level4P2 \o Write("CHARGE", "SET", {22}) \o Write("CHARGE", "CLR", {16})
        \o Write("5VCTRL", "SET", {13}) \o Write("5VCTRL", "SET", {20}) \o Level4P2

FullCurrent == Write("5VCTRL", "SET", 12 .. 17) \o Write("5VCTRL", "CLR", {5})

Comparators(threshold) ==
    Write("5VCTRL", "SET", {1}) \o Write("5VCTRL", "SET", threshold)
        \o Write("5VCTRL", "SET", {4})

(* What the commands do to the registers. *)
Programs == <<
    Write("PERSISTENT0", "CLR", 0 .. 31), Down, Write("ALARM", "", {0, 4, 8, 12}),
    AlarmProgram, <<>>, Enable4P2, FullCurrent, Comparators({8}), Comparators({8, 10}),
    NooliLevels \o <<VbusTest>> \o <<ChargerLoad>>,
    Write("CHARGE", "", 0 .. 5), Write("CHARGE", "", {16}) >>

(* The registers in the order they are read out; of the 21 the ones a      *)
(* command writes.                                                         *)
Bases == {"CTRL", "5VCTRL", "RESET", "CHARGE", "DCDC4P2", "PERSISTENT0", "ALARM"}
ReadOut == << Access("read", "CTRL", "", {}), Access("read", "5VCTRL", "", {}),
              Access("read", "RESET", "", {}), Access("read", "CHARGE", "", {}),
              Access("read", "DCDC4P2", "", {}), Access("read", "PERSISTENT0", "", {}),
              Access("read", "ALARM", "", {}) >>

Program(c) == IF c = 0 THEN <<>> ELSE Programs[c]

VBUSVALID == 4
(* -ENOMEM, that is -12, as bits of an int. *)
ENOMEM == (0 .. 31) \ {0, 1, 3}

-----------------------------------------------------------------------------
NoBuffer == <<"null">>
(* Bytes of different messages are in the buffer. *)
Mixed == <<"mixed">>

Operations ==
    [op : {"read", "write", "modprobe"}, text : Seq(STRING) \ {NoBuffer, Mixed}]

(* The script pwr_down, the only one that writes s_down_f.                 *)
PwrDown == << [op |-> "modprobe", text |-> <<>>], [op |-> "write", text |-> Names[1]],
              [op |-> "write", text |-> Names[s_down_f]] >>

ASSUME JobsAssumption ==
    \A p \in Processes : \A job \in Jobs[p] :
        /\ job \in Seq(Operations)
        /\ job = PwrDown \/ \A i \in DOMAIN job : job[i].text # Names[s_down_f]

Registers == [b \in Bases |-> {}]

Init ==
    /\ loaded = TRUE /\ entry = TRUE /\ unloads = 0
    /\ msg = <<>>
    /\ \E bits \in {{}, {2, 16, 17}} : hw = [Registers EXCEPT !["PERSISTENT0"] = bits]
    /\ power = TRUE /\ busy = {} /\ mapped = 0
    /\ at = [p \in Processes |-> "user"]
    /\ rest = [p \in Processes |-> <<>>]
    /\ cmd = [p \in Processes |-> 0]
    /\ todo = [p \in Processes |-> <<>>] /\ met = 0

(* vensey_pm_exit removes an entry of another name: the entry stays, and    *)
(* nothing waits for the processes that sleep in calls of the module.      *)
vensey_pm_exit ==
    /\ power /\ loaded /\ unloads < UNLOADS
    /\ loaded' = FALSE /\ unloads' = unloads + 1
    /\ UNCHANGED <<entry, msg, hw, power, resources, procVars>>

(* A process in user space begins its next job. *)
Begin(p) ==
    /\ power /\ at[p] = "user" /\ rest[p] = <<>>
    /\ \E job \in Jobs[p] : rest' = [rest EXCEPT ![p] = job]
    /\ cmd' = [cmd EXCEPT ![p] = 0]
    /\ UNCHANGED <<moduleVars, hw, power, resources, at, todo, met>>

(* p enters the module, or loads it. *)
Meets(p) == met' = IF \E q \in Processes \ {p} : at[q] # "user" THEN 1 ELSE met
Enters(p, state) == at' = [at EXCEPT ![p] = state] /\ Meets(p)

Calls(p, op) ==
    /\ power /\ at[p] = "user" /\ rest[p] # <<>> /\ Head(rest[p]).op = op

(* modprobe.  A second entry of the same name is refused. *)
vensey_pm_init(p) ==
    /\ Calls(p, "modprobe") /\ ~loaded
    /\ \E m \in {<<>>} \cup (IF NoMemory THEN {NoBuffer} ELSE {}) : msg' = m
    /\ loaded' = ~entry /\ entry' = TRUE
    /\ rest' = [rest EXCEPT ![p] = Tail(@)] /\ Meets(p)
    /\ UNCHANGED <<unloads, hw, power, resources, at, cmd, todo>>

IsLoaded(p) ==
    /\ Calls(p, "modprobe") /\ loaded
    /\ rest' = [rest EXCEPT ![p] = Tail(@)]
    /\ UNCHANGED <<moduleVars, hw, power, resources, at, cmd, todo, met>>

(* The kernel kills the program that called, or the shell that did. *)
Killed(p) == \E left \in {<<>>, Tail(rest[p])} : rest' = [rest EXCEPT ![p] = left]

(* There is no file, or one whose operations were freed with the module. *)
CallFails(p) ==
    /\ \E op \in {"read", "write"} : Calls(p, op)
    /\ \/ ~entry /\ rest' = [rest EXCEPT ![p] = Tail(@)]
       \/ entry /\ ~loaded /\ Killed(p)
    /\ UNCHANGED <<loaded, entry, msg, unloads, hw, power, resources, at, cmd, todo, met>>

vensey_pm_debug_provide_data(p) ==
    /\ Calls(p, "read") /\ entry /\ loaded
    /\ Enters(p, "request")
    /\ todo' = [todo EXCEPT ![p] = ReadOut]
    /\ cmd' = [cmd EXCEPT ![p] = 0]
    /\ UNCHANGED <<moduleVars, hw, power, resources, rest>>

(* p goes on where it slept, if the module is still there. *)
InModule(p, state) == power /\ loaded /\ at[p] = state

Execute(p, c) ==
    /\ Enters(p, "request")
    /\ cmd' = [cmd EXCEPT ![p] = c]
    /\ todo' = [todo EXCEPT ![p] = Program(c)]

(* Somebody but p is in the middle of a copy. *)
OthersCopy(p) == \E q \in Processes \ {p} : at[q] = "copy"

(* What the buffer holds once p has written into it: a message that others *)
(* are copying as well is mixed up, unless it is the same.                 *)
Buffered(p, text) == IF OthersCopy(p) /\ msg # text THEN Mixed ELSE text

(* The whole message is copied and compared without sleeping. *)
vensey_pm_debug_write(p) ==
    LET text == Head(rest[p]).text IN
    /\ Calls(p, "write") /\ entry /\ loaded /\ msg # NoBuffer
    /\ msg' = IF OthersCopy(p) THEN Buffered(p, text) ELSE <<>>
    /\ Execute(p, Selected(text))
    /\ UNCHANGED <<loaded, entry, unloads, hw, power, resources, rest>>

(* The end of the message is on a page that is not there. *)
CopyHead(p) ==
    /\ PageFaults /\ Calls(p, "write") /\ entry /\ loaded /\ msg # NoBuffer
    /\ msg' = Buffered(p, Head(rest[p]).text)
    /\ Enters(p, "copy")
    /\ UNCHANGED <<loaded, entry, unloads, hw, power, resources, rest, cmd, todo>>

(* Then as many bytes as p has written are compared, whoever wrote them:   *)
(* mixed up they may be the own command, somebody else's, or a third one.  *)
CopyTail(p) ==
    LET text == Head(rest[p]).text IN
    /\ InModule(p, "copy")
    /\ msg' = IF OthersCopy(p) THEN Buffered(p, text) ELSE <<>>
    /\ \E c \in IF msg = text THEN {Selected(text)} ELSE Mixtures : Execute(p, c)
    /\ UNCHANGED <<loaded, entry, unloads, hw, power, resources, rest>>

WriteToNothing(p) ==
    /\ Calls(p, "write") /\ entry /\ loaded /\ msg = NoBuffer
    /\ rest' = [rest EXCEPT ![p] = Tail(@)]
    /\ UNCHANGED <<loaded, entry, msg, unloads, hw, power, resources, at, cmd, todo, met>>

-----------------------------------------------------------------------------
Region(p) == Head(todo[p]).reg

(* A slip: the result of the test does not matter. *)
AfterUntested(p, value) == Tail(todo[p])

(* What is left to do after an access that returned value: the load of the *)
(* charger is only set if VBUSVALID is.                                    *)
After(p, value) ==
    IF Head(todo[p]).dir = "test" /\ VBUSVALID \notin value
    THEN <<>> ELSE Tail(todo[p])

(* request_mem_region.  If it fails the caller releases the region all the *)
(* same, and goes on with the next access.                                 *)
Request(p) ==
    /\ InModule(p, "request") /\ todo[p] # <<>>
    /\ IF \E r \in busy : Overlap(r, Region(p))
       THEN /\ busy' = busy \ {Region(p)}
            /\ todo' = [todo EXCEPT ![p] = After(p, ENOMEM)]
            /\ UNCHANGED at
       ELSE /\ busy' = busy \cup {Region(p)}
            /\ at' = [at EXCEPT ![p] = "map"]
            /\ UNCHANGED todo
    /\ UNCHANGED <<loaded, entry, msg, unloads, hw, power, mapped, rest, cmd, met>>

(* A slip: the region is not released when ioremap fails. *)
MapFailsKeeping(p) ==
    /\ InModule(p, "map") /\ mapped = MAPPINGS
    /\ at' = [at EXCEPT ![p] = "request"]
    /\ todo' = [todo EXCEPT ![p] = After(p, ENOMEM)]
    /\ UNCHANGED <<loaded, entry, msg, unloads, hw, power, busy, mapped, rest, cmd, met>>

(* A slip: the access is tried again until it succeeds. *)
MapFailsRetrying(p) ==
    /\ InModule(p, "map") /\ mapped = MAPPINGS
    /\ busy' = busy \ {Region(p)}
    /\ at' = [at EXCEPT ![p] = "request"]
    /\ UNCHANGED <<todo, loaded, entry, msg, unloads, hw, power, mapped, rest, cmd, met>>

(* ioremap fails: allocate_mem_region releases the region, and the caller  *)
(* once more.                                                              *)
MapFails(p) ==
    /\ InModule(p, "map") /\ mapped = MAPPINGS
    /\ busy' = busy \ {Region(p)}
    /\ at' = [at EXCEPT ![p] = "request"]
    /\ todo' = [todo EXCEPT ![p] = After(p, ENOMEM)]
    /\ UNCHANGED <<loaded, entry, msg, unloads, hw, power, mapped, rest, cmd, met>>

Written(a) ==
    [hw EXCEPT ![a.reg[1]] = CASE a.reg[2] = "SET" -> @ \cup a.bits
                               [] a.reg[2] = "CLR" -> @ \ a.bits
                               [] OTHER -> a.bits]

(* The access itself.  The mapping stays. *)
MapAndAccess(p) ==
    LET a == Head(todo[p]) IN
    /\ InModule(p, "map") /\ mapped < MAPPINGS
    /\ a \notin {Head(Down)}
    /\ mapped' = mapped + 1 /\ busy' = busy \ {Region(p)}
    /\ hw' = IF a.dir = "write" THEN Written(a) ELSE hw
    /\ at' = [at EXCEPT ![p] = "request"]
    /\ todo' = [todo EXCEPT ![p] = After(p, hw[a.reg[1]])]
    /\ UNCHANGED <<loaded, entry, msg, unloads, power, rest, cmd, met>>

(* The write that powers the imx233 down; only the RTC keeps its registers. *)
PowersDown(p) ==
    /\ InModule(p, "map") /\ mapped < MAPPINGS
    /\ Head(todo[p]) = Head(Down)
    /\ power' = FALSE
    /\ hw' = [b \in Bases |-> IF b \in {"PERSISTENT0", "ALARM"} THEN hw[b] ELSE {}]
    /\ busy' = {} /\ mapped' = 0
    /\ loaded' = FALSE /\ entry' = FALSE /\ msg' = <<>>
    /\ at' = [q \in Processes |-> "user"]
    /\ rest' = [q \in Processes |-> <<>>]
    /\ todo' = [q \in Processes |-> <<>>]
    /\ cmd' = [q \in Processes |-> 0] /\ met' = 0
    /\ UNCHANGED unloads

(* Between the last access and this p does not sleep: the module is there. *)
Return(p) ==
    /\ power /\ at[p] = "request" /\ todo[p] = <<>>
    /\ at' = [at EXCEPT ![p] = "user"]
    /\ rest' = [rest EXCEPT ![p] = Tail(@)]
    /\ UNCHANGED <<loaded, entry, msg, unloads, hw, power, resources, cmd, todo, met>>

(* The module was removed while p slept.  The kernel still finishes what p *)
(* waits for, then p is killed: there is no text to return to.  The region *)
(* stays requested until the power is off.                                 *)
Oops(p) ==
    /\ power /\ ~loaded
    /\ \/ at[p] = "copy" /\ UNCHANGED resources
       \/ /\ at[p] = "request" /\ todo[p] # <<>>
          /\ busy' = IF \E r \in busy : Overlap(r, Region(p)) THEN busy
                     ELSE busy \cup {Region(p)}
          /\ UNCHANGED mapped
       \/ /\ at[p] = "map"
          /\ mapped' = IF mapped = MAPPINGS THEN mapped ELSE mapped + 1
          /\ UNCHANGED busy
    /\ at' = [at EXCEPT ![p] = "user"] /\ Killed(p)
    /\ todo' = [todo EXCEPT ![p] = <<>>]
    /\ UNCHANGED <<moduleVars, hw, power, cmd, met>>

Process(p) ==
    \/ vensey_pm_init(p) \/ IsLoaded(p) \/ CallFails(p) \/ vensey_pm_debug_provide_data(p)
    \/ vensey_pm_debug_write(p) \/ CopyHead(p) \/ CopyTail(p) \/ WriteToNothing(p)
    \/ Request(p) \/ MapFails(p) \/ MapAndAccess(p) \/ PowersDown(p) \/ Return(p)
    \/ Oops(p)

(* 5V is applied: the power unit latches it. *)
VbusBecomesValid ==
    /\ power /\ VBUSVALID \notin hw["CTRL"]
    /\ hw' = [hw EXCEPT !["CTRL"] = @ \cup {VBUSVALID}]
    /\ UNCHANGED <<moduleVars, power, resources, procVars>>

(* The ATmega or the alarm switches the imx233 on again. *)
PowerUp ==
    /\ ~power /\ power' = TRUE
    /\ UNCHANGED <<moduleVars, hw, resources, procVars>>

Next ==
    \/ \E p \in Processes : Begin(p) \/ Process(p)
    \/ vensey_pm_exit \/ VbusBecomesValid \/ PowerUp

Spec == Init /\ [][Next]_vars

(* The kernel runs every process that is in it; the rest is up to people. *)
FairSpec == Spec /\ \A p \in Processes : WF_vars(Process(p))

-----------------------------------------------------------------------------
(* Properties *)

InCall(p) == at[p] \in {"request", "map"}

(* While the module is there no region stays requested when the access it  *)
(* was requested for is over, whichever of the requests and mappings       *)
(* failed and however the releases of different processes fall             *)
(* (register_read_int, register_write_int).  Removing the module under a   *)
(* process that sleeps leaves a region behind for good, but that is lost   *)
(* with the power at the latest, before the module can be loaded again.    *)
RegionsReturned ==
    loaded => \A r \in busy : \E p \in Processes : at[p] = "map" /\ Region(p) = r

(* The chip goes down as it was asked to: by s_alarm with the alarm        *)
(* enabled and the automatic start and the disabled switch cleared, by the *)
(* two writes of pwr_down with nothing that starts it again.  Two          *)
(* processes that meet lose each other's writes.                           *)
DownAsAsked ==
    [][\A p \in Processes : met = 0 /\ power /\ ~power' /\ InCall(p) =>
          /\ cmd[p] = s_alarm => hw'["PERSISTENT0"] \cap {2, 16, 17} = {2}
          /\ Head(rest[p]).text = Names[s_down_f] => hw'["PERSISTENT0"] = {}]_vars

(* "Check the VBUSVALID bit only", vensey_pm.c:453: a process that is      *)
(* alone sets the load of the charger when 5V is there, if it can be set   *)
(* at all.  Beside another one a failed read is taken for the register.    *)
LoadOnlyWithVbus ==
    met = 0 => \A p \in Processes :
        at[p] = "map" /\ Head(todo[p]) = ChargerLoad
            => VBUSVALID \in hw["CTRL"] \/ mapped = MAPPINGS

(* Whoever writes the whole name of a command has this command executed:   *)
(* no earlier name of the chain of comparisons catches it, and no other    *)
(* writer gets into the buffer, unless two are in the module at a time.    *)
OwnCommand ==
    met = 0 => \A p \in Processes, i \in DOMAIN Names :
        InCall(p) /\ Head(rest[p]) = [op |-> "write", text |-> Names[i]] => cmd[p] = i

(* A call comes back, whoever else is in the module, also when nothing can *)
(* be mapped any more, unless the module is removed under it: then the     *)
(* caller is killed (vensey_pm_exit, Oops).                                *)
CallsReturn == \A p \in Processes : at[p] # "user" ~> at[p] = "user" \/ ~loaded
=============================================================================
