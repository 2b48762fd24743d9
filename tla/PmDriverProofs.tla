--------------------------- MODULE PmDriverProofs ---------------------------
(***************************************************************************)
(* Theorems about the kernel module, for any number of processes, any jobs *)
(* and any number of mappings.                                             *)
(***************************************************************************)
EXTENDS PmDriver, TLAPS

(* Where processes are, as functions; whoever maps has an access to make.  *)
ProcessShape ==
    /\ at = [p \in Processes |-> at[p]]
    /\ todo = [p \in Processes |-> todo[p]]
    /\ \A p \in Processes : at[p] = "map" => todo[p] # <<>>

(* The /proc entry goes only with the power, and everything goes with it.  *)
OffWithoutEntry ==
    ~entry => ~loaded /\ busy = {} /\ \A p \in Processes : at[p] = "user"

(* RegionsReturned is inductive together with the shape of the state: a    *)
(* region is released by the process that leaves "map", or by somebody     *)
(* else earlier, but never later.  What a removal of the module leaves     *)
(* behind is gone when it can be loaded again.                             *)
PmInv == ProcessShape /\ RegionsReturned /\ OffWithoutEntry

(* Nothing is requested when the module is loaded.                         *)
LEMMA InitEstablishesPmInv == Init => PmInv
BY DEF Init, PmInv, ProcessShape, RegionsReturned, OffWithoutEntry

(* Whoever is in the module came through the entry.                        *)
LEMMA EntryStands ==
    ASSUME PmInv, NEW p \in Processes, loaded \/ at[p] # "user"
    PROVE  entry
BY DEF PmInv, OffWithoutEntry

(* What a process does outside "map" keeps the owners where they are.      *)
LEMMA OwnersStay ==
    ASSUME PmInv, NEW p \in Processes, at[p] # "map",
           NEW where, where # "map", NEW what,
           at' = [at EXCEPT ![p] = where], todo' = [todo EXCEPT ![p] = what],
           busy' \subseteq busy, entry, UNCHANGED <<loaded, entry>>
    PROVE  PmInv'
<1>1. ProcessShape'
  BY DEF PmInv, ProcessShape
<1>2. ASSUME loaded', NEW r \in busy'
      PROVE  \E q \in Processes : at'[q] = "map" /\ Region(q)' = r
  <2>1. PICK q \in Processes : at[q] = "map" /\ Region(q) = r
    BY <1>2 DEF PmInv, RegionsReturned
  <2>2. at'[q] = "map" /\ todo'[q] = todo[q]
    BY <2>1 DEF PmInv, ProcessShape
  <2> QED
    BY <2>1, <2>2 DEF Region
<1> QED
  BY <1>1, <1>2 DEF PmInv, RegionsReturned, OffWithoutEntry

(* A process that leaves "map" takes its region with it.                   *)
LEMMA OwnerLeaves ==
    ASSUME PmInv, NEW p \in Processes,
           NEW what,
           at' = [at EXCEPT ![p] = "request"], todo' = [todo EXCEPT ![p] = what],
           busy' = busy \ {Region(p)}, entry, UNCHANGED <<loaded, entry>>
    PROVE  PmInv'
<1>1. ProcessShape'
  BY DEF PmInv, ProcessShape
<1>2. ASSUME loaded', NEW r \in busy'
      PROVE  \E q \in Processes : at'[q] = "map" /\ Region(q)' = r
  <2>1. r \in busy /\ r # Region(p)
    OBVIOUS
  <2>2. PICK q \in Processes : at[q] = "map" /\ Region(q) = r
    BY <1>2, <2>1 DEF PmInv, RegionsReturned
  <2>3. at'[q] = "map" /\ todo'[q] = todo[q]
    BY <2>1, <2>2 DEF PmInv, ProcessShape
  <2> QED
    BY <2>2, <2>3 DEF Region
<1> QED
  BY <1>1, <1>2 DEF PmInv, RegionsReturned, OffWithoutEntry

(* A request that succeeds has its process as the owner.                   *)
LEMMA OwnerArrives ==
    ASSUME PmInv, NEW p \in Processes, todo[p] # <<>>,
           at' = [at EXCEPT ![p] = "map"], todo' = todo,
           busy' = busy \cup {Region(p)}, entry, UNCHANGED <<loaded, entry>>
    PROVE  PmInv'
<1>1. ProcessShape'
  BY DEF PmInv, ProcessShape
<1>2. \A q \in Processes : Region(q)' = Region(q)
  BY DEF Region
<1>3. \A q \in Processes : at[q] = "map" => at'[q] = "map"
  BY DEF PmInv, ProcessShape
<1>4. at'[p] = "map"
  BY DEF PmInv, ProcessShape
<1> QED
  BY <1>1, <1>2, <1>3, <1>4 DEF PmInv, RegionsReturned, OffWithoutEntry

(* Steps that leave the regions and their owners alone.                    *)
LEMMA UnchangedKeepsPmInv ==
    ASSUME PmInv, UNCHANGED <<busy, at, todo, entry>>, loaded' => loaded
    PROVE  PmInv'
BY DEF PmInv, ProcessShape, RegionsReturned, OffWithoutEntry, Region

(* Every step keeps every busy region with an access under way.            *)
LEMMA StepKeepsPmInv ==
    ASSUME PmInv, [Next]_vars
    PROVE  PmInv'
<1> USE DEF moduleVars, resources, procVars
<1>1. at = [p \in Processes |-> at[p]] /\ todo = [p \in Processes |-> todo[p]]
  BY DEF PmInv, ProcessShape
<1>2. ASSUME NEW p \in Processes, Process(p)
      PROVE  PmInv'
  <2>1. CASE IsLoaded(p) \/ CallFails(p) \/ WriteToNothing(p)
    <3>1. UNCHANGED <<busy, at, todo, entry, loaded>>
      BY <2>1 DEF IsLoaded, CallFails, WriteToNothing
    <3> QED
      BY <3>1, UnchangedKeepsPmInv
  <2>2. CASE vensey_pm_debug_provide_data(p)
    <3>1. /\ at[p] # "map" /\ busy' = busy
          /\ at' = [at EXCEPT ![p] = "request"] /\ todo' = [todo EXCEPT ![p] = ReadOut]
          /\ entry /\ UNCHANGED <<loaded, entry>>
      BY <2>2 DEF vensey_pm_debug_provide_data, Calls, Enters
    <3> QED
      BY <3>1, OwnersStay
  <2>3. CASE vensey_pm_debug_write(p)
    <3> DEFINE c == Selected(Head(rest[p]).text)
    <3>1. /\ at[p] # "map" /\ busy' = busy
          /\ at' = [at EXCEPT ![p] = "request"] /\ todo' = [todo EXCEPT ![p] = Program(c)]
          /\ entry /\ UNCHANGED <<loaded, entry>>
      BY <2>3 DEF vensey_pm_debug_write, Calls, Execute, Enters
    <3> QED
      BY <3>1, OwnersStay
  <2>4. CASE CopyHead(p)
    <3>1. /\ at[p] # "map" /\ busy' = busy
          /\ at' = [at EXCEPT ![p] = "copy"] /\ todo' = [todo EXCEPT ![p] = todo[p]]
          /\ entry /\ UNCHANGED <<loaded, entry>>
      BY <1>1, <2>4 DEF CopyHead, Calls, Enters
    <3> QED
      BY <3>1, OwnersStay
  <2>5. CASE CopyTail(p)
    <3>1. PICK c : Execute(p, c)
      BY <2>5 DEF CopyTail
    <3>2. /\ at[p] # "map" /\ busy' = busy /\ loaded /\ UNCHANGED <<loaded, entry>>
          /\ at' = [at EXCEPT ![p] = "request"] /\ todo' = [todo EXCEPT ![p] = Program(c)]
      BY <2>5, <3>1 DEF CopyTail, Execute, Enters, InModule
    <3> QED
      BY <3>2, OwnersStay, EntryStands
  <2>6. CASE Request(p)
    <3> entry /\ UNCHANGED <<loaded, entry>>
      BY <2>6, EntryStands DEF Request, InModule
    <3>1. CASE \E r \in busy : Overlap(r, Region(p))
      <4>1. /\ at[p] # "map" /\ busy' = busy \ {Region(p)}
            /\ at' = [at EXCEPT ![p] = "request"]
            /\ todo' = [todo EXCEPT ![p] = After(p, ENOMEM)]
        BY <1>1, <2>6, <3>1 DEF Request, InModule
      <4> QED
        BY <4>1, OwnersStay
    <3>2. CASE ~\E r \in busy : Overlap(r, Region(p))
      <4>1. /\ busy' = busy \cup {Region(p)} /\ todo' = todo
            /\ at' = [at EXCEPT ![p] = "map"] /\ todo[p] # <<>>
        BY <2>6, <3>2 DEF Request
      <4> QED
        BY <4>1, OwnerArrives
    <3> QED
      BY <3>1, <3>2
  <2>7. CASE MapFails(p)
    <3>1. /\ busy' = busy \ {Region(p)} /\ at' = [at EXCEPT ![p] = "request"]
          /\ todo' = [todo EXCEPT ![p] = After(p, ENOMEM)]
          /\ loaded /\ UNCHANGED <<loaded, entry>>
      BY <2>7 DEF MapFails, InModule
    <3> QED
      BY <3>1, OwnerLeaves, EntryStands
  <2>8. CASE MapAndAccess(p)
    <3> DEFINE value == hw[Head(todo[p]).reg[1]]
    <3>1. /\ busy' = busy \ {Region(p)} /\ at' = [at EXCEPT ![p] = "request"]
          /\ todo' = [todo EXCEPT ![p] = After(p, value)]
          /\ loaded /\ UNCHANGED <<loaded, entry>>
      BY <2>8 DEF MapAndAccess, InModule
    <3> QED
      BY <3>1, OwnerLeaves, EntryStands
  <2>9. CASE PowersDown(p)
    BY <2>9 DEF PowersDown, PmInv, ProcessShape, RegionsReturned, OffWithoutEntry
  <2>10. CASE Return(p)
    <3>1. /\ at[p] # "map" /\ busy' = busy
          /\ at' = [at EXCEPT ![p] = "user"] /\ todo' = [todo EXCEPT ![p] = todo[p]]
          /\ at[p] # "user" /\ UNCHANGED <<loaded, entry>>
      BY <1>1, <2>10 DEF Return
    <3> QED
      BY <3>1, OwnersStay, EntryStands
  <2>11. CASE vensey_pm_init(p)
    <3>1. UNCHANGED <<busy, at, todo>> /\ entry' /\ (loaded' => ~entry)
      BY <2>11 DEF vensey_pm_init
    <3>2. loaded' => busy' = {}
      BY <3>1 DEF PmInv, OffWithoutEntry
    <3> QED
      BY <3>1, <3>2 DEF PmInv, ProcessShape, RegionsReturned, OffWithoutEntry
  <2>12. CASE Oops(p)
    <3>1. /\ at' = [at EXCEPT ![p] = "user"] /\ todo' = [todo EXCEPT ![p] = <<>>]
          /\ ~loaded /\ at[p] # "user" /\ UNCHANGED <<loaded, entry>>
      BY <2>12 DEF Oops
    <3>2. ProcessShape'
      BY <1>1, <3>1 DEF PmInv, ProcessShape
    <3>3. entry'
      BY <3>1, EntryStands
    <3> QED
      BY <3>1, <3>2, <3>3 DEF PmInv, RegionsReturned, OffWithoutEntry
  <2> QED
    BY <1>2, <2>1, <2>2, <2>3, <2>4, <2>5, <2>6, <2>7, <2>8, <2>9, <2>10, <2>11, <2>12
    DEF Process
<1>3. ASSUME NEW p \in Processes, Begin(p)
      PROVE  PmInv'
  <2>1. UNCHANGED <<busy, at, todo, entry, loaded>>
    BY <1>3 DEF Begin
  <2> QED
    BY <2>1, UnchangedKeepsPmInv
<1>4. CASE vensey_pm_exit \/ VbusBecomesValid \/ PowerUp \/ UNCHANGED vars
  <2>1. UNCHANGED <<busy, at, todo, entry>> /\ (loaded' => loaded)
    BY <1>4 DEF vensey_pm_exit, VbusBecomesValid, PowerUp, vars
  <2> QED
    BY <2>1, UnchangedKeepsPmInv
<1> QED
  BY <1>2, <1>3, <1>4 DEF Next

(* Whatever fails, and whichever processes meet, a region that is busy     *)
(* belongs to an access under way (vensey_pm.c:61-172) as long as the      *)
(* module is there; also after a removal, a loss of power and a new load   *)
(* (vensey_pm.c:503-539), whatever the removal left behind.                *)
THEOREM RegionsAlwaysReturned == Spec => []RegionsReturned
<1>1. PmInv => RegionsReturned
  BY DEF PmInv
<1> QED
  BY <1>1, InitEstablishesPmInv, StepKeepsPmInv, PTL DEF Spec

-----------------------------------------------------------------------------
(* The load of the charger, with one process.  In what the process has     *)
(* left to do the load comes right after the test of VBUSVALID.            *)

Dirs == {"read", "write", "test", "trial"}
Modes == {"", "SET", "CLR"}
Bits == 0 .. 31
Accesses == [dir : Dirs, reg : Bases \X Modes, bits : SUBSET Bits]

LoadBits == {1, 22}

LoadTested(s) ==
    \A i \in 1 .. Len(s) :
        /\ s[i].dir = "test" => s[i].reg[1] = "CTRL"
        /\ s[i] = ChargerLoad /\ i > 1 => s[i - 1].dir = "test"

StartsWithLoad(s) == s # <<>> /\ s[1] = ChargerLoad

(* HW_RTC_PERSISTENT0 is left alone or cleared.                            *)
Clears(a) == a.dir = "write" /\ a.reg[1] = "PERSISTENT0" => a.reg[2] = "CLR"
ClearsOnly(s) == \A i \in 1 .. Len(s) : Clears(s[i])

(* Accesses that neither test VBUSVALID nor set the load or a bit of       *)
(* HW_RTC_PERSISTENT0.                                                     *)
Plain(s) ==
    /\ s \in Seq(Accesses)
    /\ \A i \in 1 .. Len(s) : s[i].dir # "test" /\ s[i] # ChargerLoad /\ Clears(s[i])

(* What Access makes is an access.                                         *)
LEMMA AccessType ==
    ASSUME NEW dir \in Dirs, NEW base \in Bases, NEW mode \in Modes,
           NEW bits \in SUBSET Bits
    PROVE  /\ Access(dir, base, mode, bits) \in Accesses
           /\ Access(dir, base, mode, bits).dir = dir
           /\ Access(dir, base, mode, bits).reg[1] = base
           /\ Access(dir, base, mode, bits).reg[2] = mode
           /\ Access(dir, base, mode, bits).bits = bits
<1>1. /\ <<base, mode>> \in Bases \X Modes
      /\ <<base, mode>>[1] = base /\ <<base, mode>>[2] = mode
  OBVIOUS
<1> DEFINE reg == <<base, mode>>
<1>2. reg \in Bases \X Modes /\ reg[1] = base /\ reg[2] = mode
  BY <1>1
<1> HIDE DEF reg
<1>3. [dir |-> dir, reg |-> reg, bits |-> bits] \in Accesses
  BY <1>2 DEF Accesses
<1> QED
  BY <1>2, <1>3 DEF Access, reg

(* The write of the charger's load is an access to HW_POWER_CHARGE.        *)
LEMMA LoadType ==
    /\ ChargerLoad \in Accesses /\ ChargerLoad.dir = "write"
    /\ ChargerLoad.reg[1] = "CHARGE" /\ ChargerLoad.bits = LoadBits
<1>1. LoadBits \in SUBSET Bits
  BY DEF LoadBits, Bits
<1>2. "write" \in Dirs /\ "CHARGE" \in Bases /\ "" \in Modes
  BY DEF Dirs, Bases, Modes
<1> DEFINE load == Access("write", "CHARGE", "", LoadBits)
<1>3. load \in Accesses
  BY <1>1, <1>2, AccessType
<1>4. load.dir = "write" /\ load.bits = LoadBits
  BY DEF Access
<1>5. load.reg[1] = "CHARGE"
  BY DEF Access
<1> QED
  BY <1>3, <1>4, <1>5 DEF ChargerLoad, LoadBits

(* One access that is neither the test nor the load.                       *)
LEMMA PlainSingle ==
    ASSUME NEW a \in Accesses, a.dir # "test", a # ChargerLoad, Clears(a)
    PROVE  Plain(<<a>>)
BY DEF Plain

(* Two plain programs, one after the other.                                *)
LEMMA PlainConcat ==
    ASSUME NEW s, NEW t, Plain(s), Plain(t)
    PROVE  Plain(s \o t)
BY DEF Plain

(* A write of anything but the load is plain, if it sets no bit of         *)
(* HW_RTC_PERSISTENT0.                                                     *)
LEMMA PlainWrite ==
    ASSUME NEW base \in Bases, NEW mode \in Modes, NEW bits \in SUBSET Bits,
           base # "CHARGE" \/ bits # LoadBits, base # "PERSISTENT0" \/ mode = "CLR"
    PROVE  Plain(Write(base, mode, bits))
<1> DEFINE write == Access("write", base, mode, bits)
           trial == Access("trial", base, mode, bits)
<1>1. "write" \in Dirs /\ "trial" \in Dirs
  BY DEF Dirs
<1>2. write \in Accesses
  BY <1>1, AccessType
<1>3. trial \in Accesses
  BY <1>1, AccessType
<1>4. write.dir = "write" /\ write.bits = bits /\ trial.dir = "trial"
  BY DEF Access
<1>5. write.reg[1] = base /\ write.reg[2] = mode
  BY DEF Access
<1>6. /\ write \in Accesses /\ trial \in Accesses
      /\ write.dir = "write" /\ trial.dir = "trial"
      /\ write.reg[1] = base /\ write.reg[2] = mode /\ write.bits = bits
  BY <1>2, <1>3, <1>4, <1>5
<1> HIDE DEF write, trial
<1>7. write # ChargerLoad
  <2>1. CASE base # "CHARGE"
    BY <1>6, <2>1, LoadType
  <2>2. CASE bits # LoadBits
    BY <1>6, <2>2, LoadType
  <2> QED
    BY <2>1, <2>2
<1>8. trial # ChargerLoad
  BY <1>6, LoadType
<1>9. Clears(write) /\ Clears(trial)
  BY <1>6 DEF Clears
<1>10. Plain(<<write>>) /\ Plain(<<trial>>)
  BY <1>6, <1>7, <1>8, <1>9, PlainSingle
<1>11. Plain(<<>>)
  BY DEF Plain
<1>12. Plain(<<>> \o <<write>>) /\ Plain(<<trial>> \o <<write>>)
  BY <1>10, <1>11, PlainConcat
<1> QED
  BY <1>12, Zenon DEF Write, write, trial

(* A plain program needs no test.                                          *)
LEMMA PlainIsTested ==
    ASSUME NEW s, Plain(s)
    PROVE  s \in Seq(Accesses) /\ LoadTested(s) /\ ~StartsWithLoad(s) /\ ClearsOnly(s)
BY DEF Plain, LoadTested, StartsWithLoad, ClearsOnly

(* A plain program that ends in the test and the load (set_nooli).         *)
LEMMA LoadAfterTest ==
    ASSUME NEW s, Plain(s), NEW test \in Accesses,
           test.dir = "test", test.reg[1] = "CTRL"
    PROVE  LET t == s \o <<test>> \o <<ChargerLoad>>
           IN  t \in Seq(Accesses) /\ LoadTested(t) /\ ~StartsWithLoad(t) /\ ClearsOnly(t)
<1> DEFINE t == s \o <<test>> \o <<ChargerLoad>>
<1>1. /\ ChargerLoad \in Accesses /\ ChargerLoad.dir = "write"
      /\ Clears(ChargerLoad) /\ Clears(test)
  BY LoadType DEF Clears
<1>2. s \in Seq(Accesses)
  BY DEF Plain
<1>3. /\ t \in Seq(Accesses) /\ Len(t) = Len(s) + 2
      /\ \A i \in 1 .. Len(s) : t[i] = s[i]
      /\ t[Len(s) + 1] = test /\ t[Len(s) + 2] = ChargerLoad
  BY <1>1, <1>2
<1>4. Len(s) \in Nat
  BY <1>2
<1> HIDE DEF t
<1>5. test # ChargerLoad
  BY <1>1
<1>6. ASSUME NEW i \in 1 .. Len(t)
      PROVE  /\ t[i].dir = "test" => t[i].reg[1] = "CTRL"
             /\ t[i] = ChargerLoad /\ i > 1 => t[i - 1].dir = "test"
             /\ Clears(t[i])
  <2>1. CASE i \in 1 .. Len(s)
    BY <2>1, <1>3 DEF Plain
  <2>2. CASE i = Len(s) + 1
    BY <2>2, <1>1, <1>3, <1>5
  <2>3. CASE i = Len(s) + 2
    BY <2>3, <1>1, <1>3, <1>4
  <2> QED
    BY <1>3, <1>4, <2>1, <2>2, <2>3
<1>7. t[1] # ChargerLoad
  <2>1. CASE Len(s) = 0
    BY <2>1, <1>3, <1>5
  <2>2. CASE Len(s) > 0
    BY <2>2, <1>3, <1>4 DEF Plain
  <2> QED
    BY <1>4, <2>1, <2>2
<1> QED
  BY <1>3, <1>6, <1>7 DEF t, LoadTested, StartsWithLoad, ClearsOnly

(* What a job may have to do: the load only after the test.                *)
Guarded(s) == s \in Seq(Accesses) /\ LoadTested(s) /\ ~StartsWithLoad(s)

(* A write to any register but these two is plain.                         *)
LEMMA WriteElsewhere ==
    ASSUME NEW base \in Bases \ {"CHARGE", "PERSISTENT0"}, NEW mode \in Modes,
    NEW bits \in SUBSET Bits
    PROVE  Plain(Write(base, mode, bits))
BY PlainWrite

(* Sequences are equal if their elements are.                              *)
LEMMA SameSequence ==
    ASSUME NEW S, NEW s \in Seq(S), NEW t \in Seq(S), Len(s) = Len(t),
           \A i \in 1 .. Len(s) : s[i] = t[i]
    PROVE  s = t
OBVIOUS

(* The shape of a program of two writes, the first of them tried before,   *)
(* and a third.                                                            *)
LEMMA Concatenated ==
    ASSUME NEW S, NEW a \in S, NEW b \in S, NEW c \in S, NEW d \in S
    PROVE  /\ <<a>> \o <<b>> = <<a, b>> /\ <<>> \o <<d>> = <<d>>
           /\ (<<a>> \o <<b>>) \o (<<>> \o <<c>>) \o (<<>> \o <<d>>) = <<a, b, c, d>>
<1>1. <<>> \o <<d>> = <<d>> /\ <<>> \o <<c>> = <<c>>
  OBVIOUS
<1>2. <<a>> \o <<b>> = <<a, b>>
  <2> DEFINE s == <<a>> \o <<b>>
  <2>1. s \in Seq(S) /\ Len(s) = 2 /\ s[1] = a /\ s[2] = b
    OBVIOUS
  <2>2. <<a, b>> \in Seq(S)
    OBVIOUS
  <2> HIDE DEF s
  <2>3. s = <<a, b>>
    BY <2>1, <2>2, SameSequence
  <2> QED
    BY <2>3 DEF s
<1>3. <<a, b>> \o <<c>> \o <<d>> = <<a, b, c, d>>
  <2> DEFINE s == <<a, b>> \o <<c>> \o <<d>>
  <2>1. s \in Seq(S) /\ Len(s) = 4 /\ s[1] = a /\ s[2] = b /\ s[3] = c /\ s[4] = d
    OBVIOUS
  <2>2. <<a, b, c, d>> \in Seq(S)
    OBVIOUS
  <2> HIDE DEF s
  <2>3. s = <<a, b, c, d>>
    BY <2>1, <2>2, SameSequence
  <2> QED
    BY <2>3 DEF s
<1> QED
  BY <1>1, <1>2, <1>3

(* s_alarm: the first request of the register, the automatic start and the *)
(* disabled switch cleared, the alarm enabled, down.                       *)
LEMMA AlarmSteps ==
    /\ AlarmProgram \in Seq(Accesses) /\ Len(AlarmProgram) = 4
    /\ LoadTested(AlarmProgram) /\ ~StartsWithLoad(AlarmProgram)
    /\ AlarmProgram = <<Access("trial", "PERSISTENT0", "CLR", {16, 17}),
                        Access("write", "PERSISTENT0", "CLR", {16, 17}),
                        Access("write", "PERSISTENT0", "SET", {2}),
                        Access("write", "RESET", "", {0})>>
    /\ Down = <<Access("write", "RESET", "", {0})>>
<1> DEFINE a == Access("trial", "PERSISTENT0", "CLR", {16, 17})
           b == Access("write", "PERSISTENT0", "CLR", {16, 17})
           c == Access("write", "PERSISTENT0", "SET", {2})
           d == Access("write", "RESET", "", {0})
<1>1. /\ "trial" \in Dirs /\ "write" \in Dirs /\ "PERSISTENT0" \in Bases /\ "RESET" \in Bases
      /\ "CLR" \in Modes /\ "SET" \in Modes /\ "" \in Modes
      /\ {16, 17} \in SUBSET Bits /\ {2} \in SUBSET Bits /\ {0} \in SUBSET Bits
  BY DEF Dirs, Bases, Modes, Bits
<1>2. a \in Accesses /\ b \in Accesses /\ c \in Accesses /\ d \in Accesses
  <2>1. ASSUME NEW dir \in Dirs, NEW mode \in Modes, NEW bits \in SUBSET Bits
        PROVE  Access(dir, "PERSISTENT0", mode, bits) \in Accesses
    BY <1>1, AccessType
  <2>2. a \in Accesses /\ b \in Accesses
    BY <1>1, <2>1
  <2>3. c \in Accesses
    BY <1>1, <2>1
  <2>4. d \in Accesses
    BY <1>1, AccessType, Zenon
  <2> QED
    BY <2>1, <2>2, <2>3, <2>4
<1>3. /\ a.dir = "trial" /\ b.dir = "write" /\ c.dir = "write" /\ d.dir = "write"
      /\ a.reg[1] = "PERSISTENT0" /\ b.reg[1] = "PERSISTENT0"
      /\ c.reg[1] = "PERSISTENT0" /\ d.reg[1] = "RESET"
  BY DEF Access
<1>4. /\ Write("PERSISTENT0", "CLR", {16, 17}) = <<a>> \o <<b>>
      /\ Write("PERSISTENT0", "SET", {2}) = <<>> \o <<c>> /\ Down = <<>> \o <<d>>
  BY DEF Write, Down
<1> HIDE DEF a, b, c, d
<1>5. Down = <<d>> /\ AlarmProgram = <<a, b, c, d>>
  <2>1. AlarmProgram = (<<a>> \o <<b>>) \o (<<>> \o <<c>>) \o (<<>> \o <<d>>)
    BY <1>4, Zenon DEF AlarmProgram
  <2>2. /\ (<<a>> \o <<b>>) \o (<<>> \o <<c>>) \o (<<>> \o <<d>>) = <<a, b, c, d>>
        /\ <<>> \o <<d>> = <<d>>
    BY <1>2, Concatenated
  <2> QED
    BY <1>4, <2>1, <2>2, Zenon
<1>6. /\ ChargerLoad # a /\ ChargerLoad # b /\ ChargerLoad # c /\ ChargerLoad # d
  BY <1>3, LoadType
<1>7. AlarmProgram \in Seq(Accesses) /\ Len(AlarmProgram) = 4
  BY <1>2, <1>5
<1>8. LoadTested(AlarmProgram) /\ ~StartsWithLoad(AlarmProgram)
  BY <1>3, <1>5, <1>6 DEF LoadTested, StartsWithLoad
<1> QED
  BY <1>5, <1>7, <1>8 DEF a, b, c, d

(* Every command writes the load only behind the test.                     *)
LEMMA EveryProgramGuarded ==
    ASSUME NEW c \in 0 .. 12
    PROVE  Guarded(Program(c)) /\ (c # s_alarm => ClearsOnly(Program(c)))
<1> DEFINE others == Bases \ {"CHARGE", "PERSISTENT0"}
<1>1. /\ "RESET" \in others /\ "ALARM" \in others /\ "DCDC4P2" \in others
      /\ "5VCTRL" \in others /\ "CTRL" \in others
      /\ "PERSISTENT0" \in Bases /\ "CHARGE" \in Bases
      /\ "" \in Modes /\ "SET" \in Modes /\ "CLR" \in Modes
  BY DEF Bases, Modes
<1>2. /\ 0 .. 31 \in SUBSET Bits /\ {16, 17} \in SUBSET Bits /\ {2} \in SUBSET Bits
      /\ {0} \in SUBSET Bits /\ {0, 4, 8, 12} \in SUBSET Bits /\ {5} \in SUBSET Bits
      /\ {22, 23, 28, 29, 30, 31} \in SUBSET Bits /\ {22} \in SUBSET Bits
      /\ {16} \in SUBSET Bits /\ 0 .. 5 \in SUBSET Bits /\ {13} \in SUBSET Bits
      /\ {20} \in SUBSET Bits /\ 12 .. 17 \in SUBSET Bits /\ {1} \in SUBSET Bits
      /\ {8} \in SUBSET Bits /\ {4} \in SUBSET Bits /\ {8, 10} \in SUBSET Bits
      /\ {0, 1, 4, 7, 8, 12, 13, 14, 15, 16, 17, 26} \in SUBSET Bits
  BY DEF Bits
<1>3. "PERSISTENT0" # "CHARGE" /\ "CHARGE" # "PERSISTENT0"
  OBVIOUS
<1>4. Plain(Write("PERSISTENT0", "CLR", 0 .. 31))
  BY <1>1, <1>2, <1>3, PlainWrite, Zenon
<1>5. Plain(Down)
  BY <1>1, <1>2, WriteElsewhere, Zenon DEF Down
<1>6. Plain(Write("ALARM", "", {0, 4, 8, 12}))
  BY <1>1, <1>2, WriteElsewhere, Zenon
<1>7. Plain(Level4P2)
  BY <1>1, <1>2, WriteElsewhere, Zenon DEF Level4P2
<1>8. {22} # LoadBits /\ {16} # LoadBits /\ 0 .. 5 # LoadBits
  BY DEF LoadBits
<1>9. Plain(Write("CHARGE", "SET", {22}))
  BY <1>1, <1>2, <1>8, <1>3, PlainWrite, Zenon
<1>10. Plain(Write("CHARGE", "CLR", {16})) /\ Plain(Write("CHARGE", "", {16}))
  BY <1>1, <1>2, <1>8, <1>3, PlainWrite, Zenon
<1>11. Plain(Write("CHARGE", "", 0 .. 5))
  BY <1>1, <1>2, <1>8, <1>3, PlainWrite, Zenon
<1>12. /\ Plain(Write("5VCTRL", "SET", {13})) /\ Plain(Write("5VCTRL", "SET", {20}))
       /\ Plain(Write("5VCTRL", "SET", 12 .. 17)) /\ Plain(Write("5VCTRL", "CLR", {5}))
  BY <1>1, <1>2, WriteElsewhere, Zenon
<1>13. /\ Plain(Write("5VCTRL", "SET", {1})) /\ Plain(Write("5VCTRL", "SET", {8}))
       /\ Plain(Write("5VCTRL", "SET", {8, 10})) /\ Plain(Write("5VCTRL", "SET", {4}))
  BY <1>1, <1>2, WriteElsewhere, Zenon
<1>14. Plain(Write("5VCTRL", "", {0, 1, 4, 7, 8, 12, 13, 14, 15, 16, 17, 26}))
  BY <1>1, <1>2, WriteElsewhere, Zenon
<1>15. Plain(Write("CTRL", "SET", {5}))
  BY <1>1, <1>2, WriteElsewhere, Zenon
<1>16. Plain(<<>>)
  BY DEF Plain
<1>17. CASE c = 0
  <2>1. Plain(Program(c))
    BY <1>16, <1>17 DEF Program
  <2> QED
    BY <2>1, PlainIsTested DEF Guarded
<1>18. Plain(NooliLevels)
  BY <1>14, <1>15, PlainConcat DEF NooliLevels
<1>19. VbusTest \in Accesses
  <2>1. "test" \in Dirs /\ {} \in SUBSET Bits
    BY DEF Dirs
  <2> QED
    BY <1>1, <2>1, AccessType, Zenon DEF VbusTest
<1>20. VbusTest.dir = "test" /\ VbusTest.reg[1] = "CTRL"
  BY DEF Access, VbusTest
<1> DEFINE nooli == NooliLevels \o <<VbusTest>> \o <<ChargerLoad>>
<1>21. Guarded(nooli) /\ ClearsOnly(nooli)
  BY <1>18, <1>19, <1>20, LoadAfterTest DEF Guarded
<1>22. Guarded(AlarmProgram)
  BY AlarmSteps DEF Guarded
<1>23. Plain(Enable4P2)
  BY <1>7, <1>9, <1>10, <1>12, PlainConcat, Zenon DEF Enable4P2
<1>24. Plain(FullCurrent)
  BY <1>12, PlainConcat DEF FullCurrent
<1>25. Plain(Comparators({8})) /\ Plain(Comparators({8, 10}))
  BY <1>13, PlainConcat, Zenon DEF Comparators
<1>26. \A s : Plain(s) => Guarded(s) /\ ClearsOnly(s)
  BY PlainIsTested DEF Guarded
<1>27. CASE c # 0
  <2> DEFINE clear == Write("PERSISTENT0", "CLR", 0 .. 31)
             alarm == Write("ALARM", "", {0, 4, 8, 12})
             four == Comparators({8})
             more == Comparators({8, 10})
             off == Write("CHARGE", "", 0 .. 5)
             release == Write("CHARGE", "", {16})
  <2>1. Programs = <<clear, Down, alarm, AlarmProgram, <<>>, Enable4P2, FullCurrent,
                     four, more, nooli, off, release>>
    BY DEF Programs
  <2>2. /\ Plain(clear) /\ Plain(Down) /\ Plain(alarm) /\ Plain(<<>>) /\ Plain(Enable4P2)
        /\ Plain(FullCurrent) /\ Plain(four) /\ Plain(more) /\ Plain(off) /\ Plain(release)
    BY <1>4, <1>5, <1>6, <1>10, <1>11, <1>16, <1>23, <1>24, <1>25
  <2> HIDE DEF clear, alarm, four, more, nooli, off, release
  <2>3. c \in 1 .. 12 /\ Program(c) = Programs[c]
    BY <1>27 DEF Program
  <2>4. CASE c = 4
    BY <1>22, <2>1, <2>3, <2>4 DEF s_alarm
  <2>5. CASE c = 10
    BY <1>21, <2>1, <2>3, <2>5
  <2>6. CASE c \notin {4, 10}
    <3>1. Plain(Programs[c])
      BY <2>1, <2>2, <2>3, <2>6
    <3> QED
      BY <1>26, <2>3, <3>1
  <2> QED
    BY <2>4, <2>5, <2>6
<1> QED
  BY <1>17, <1>27

(* Reading the registers out writes nothing.                               *)
LEMMA ReadOutGuarded == Guarded(ReadOut) /\ ClearsOnly(ReadOut)
<1> DEFINE read(b) == Access("read", b, "", {})
<1>1. "read" \in Dirs /\ "" \in Modes /\ {} \in SUBSET Bits
  BY DEF Dirs, Modes
<1>2. ASSUME NEW b \in Bases
      PROVE  read(b) \in Accesses
  BY <1>1, AccessType, Zenon
<1>3. \A b \in Bases : read(b).dir = "read"
  BY DEF Access
<1>4. ReadOut = <<read("CTRL"), read("5VCTRL"), read("RESET"), read("CHARGE"),
                  read("DCDC4P2"), read("PERSISTENT0"), read("ALARM")>>
  BY DEF ReadOut
<1> HIDE DEF read
<1>5. \A i \in 1 .. 7 : ReadOut[i] \in Accesses /\ ReadOut[i].dir = "read"
  BY <1>2, <1>3, <1>4 DEF Bases
<1>6. ReadOut \in Seq(Accesses) /\ Len(ReadOut) = 7
  BY <1>2, <1>4 DEF Bases
<1> QED
  BY <1>5, <1>6, LoadType, PlainIsTested DEF Guarded, Plain, Clears

(* As long as no two processes have met, one at most is in the module.     *)
Lonely ==
    \A p, q \in Processes : at[p] # "user" /\ at[q] # "user" => p = q

(* What is left is guarded as long as it is not begun; later the load may  *)
(* be next, and then VBUSVALID was seen or nothing can be mapped any more. *)
LoadInv ==
    /\ PmInv
    /\ mapped \in 0 .. MAPPINGS
    /\ hw \in [Bases -> SUBSET Bits]
    /\ met \in {0, 1}
    /\ \A p \in Processes : at[p] = "user" => todo[p] = <<>>
    /\ \A p \in Processes : todo[p] \in Seq(Accesses)
    /\ met = 0 => Lonely
    /\ met = 0 => \A p \in Processes :
          /\ LoadTested(todo[p])
          /\ StartsWithLoad(todo[p]) => VBUSVALID \in hw["CTRL"] \/ mapped = MAPPINGS

(* Neither does nothing at all.                                            *)
LEMMA NothingIsGuarded == Guarded(<<>>)
BY DEF Guarded, LoadTested, StartsWithLoad

(* What is left of a guarded program after an access.                      *)
LEMMA TailTested ==
    ASSUME NEW s \in Seq(Accesses), s # <<>>, LoadTested(s)
    PROVE  /\ Tail(s) \in Seq(Accesses) /\ LoadTested(Tail(s))
           /\ StartsWithLoad(Tail(s)) => Head(s).dir = "test" /\ Head(s).reg[1] = "CTRL"
<1>1. /\ Len(s) \in Nat /\ Len(s) > 0 /\ Tail(s) \in Seq(Accesses)
      /\ Len(Tail(s)) = Len(s) - 1
      /\ \A i \in 1 .. Len(s) - 1 : Tail(s)[i] = s[i + 1]
  OBVIOUS
<1>2. ASSUME NEW i \in 1 .. Len(Tail(s))
      PROVE  /\ Tail(s)[i].dir = "test" => Tail(s)[i].reg[1] = "CTRL"
             /\ Tail(s)[i] = ChargerLoad /\ i > 1 => Tail(s)[i - 1].dir = "test"
  <2>1. i + 1 \in 1 .. Len(s) /\ Tail(s)[i] = s[i + 1]
    BY <1>1
  <2>2. i > 1 => i - 1 \in 1 .. Len(s) - 1 /\ Tail(s)[i - 1] = s[i]
    BY <1>1
  <2> QED
    BY <2>1, <2>2, <1>1 DEF LoadTested
<1>3. ASSUME StartsWithLoad(Tail(s))
      PROVE  Head(s).dir = "test" /\ Head(s).reg[1] = "CTRL"
  <2>1. 2 \in 1 .. Len(s) /\ s[2] = ChargerLoad
    BY <1>1, <1>3 DEF StartsWithLoad
  <2>2. s[1].dir = "test"
    BY <2>1 DEF LoadTested
  <2> QED
    BY <1>1, <2>2 DEF LoadTested
<1> QED
  BY <1>1, <1>2, <1>3 DEF LoadTested

(* Nobody has anything to do at the beginning.                             *)
LEMMA InitEstablishesLoadInv == Init => LoadInv
<1> SUFFICES ASSUME Init PROVE LoadInv
  OBVIOUS
<1>1. PmInv
  BY InitEstablishesPmInv
<1>2. mapped \in 0 .. MAPPINGS
  BY PmAssumption DEF Init
<1>3. hw \in [Bases -> SUBSET Bits]
  <2>1. PICK bits \in {{}, {2, 16, 17}} : hw = [Registers EXCEPT !["PERSISTENT0"] = bits]
    BY DEF Init
  <2>2. bits \in SUBSET Bits /\ Registers \in [Bases -> SUBSET Bits]
    BY <2>1 DEF Registers, Bits
  <2> QED
    BY <2>1, <2>2
<1>4. met = 0 /\ \A p \in Processes : todo[p] = <<>> /\ at[p] = "user"
  BY DEF Init
<1>5. <<>> \in Seq(Accesses) /\ LoadTested(<<>>) /\ ~StartsWithLoad(<<>>)
  BY NothingIsGuarded DEF Guarded
<1> QED
  BY <1>1, <1>2, <1>4, <1>3, <1>5 DEF LoadInv, Lonely

(* The comparisons end with one of the names or with none.                 *)
LEMMA SelectedRange ==
    ASSUME NEW text
    PROVE  Selected(text) \in 0 .. 12
<1> DEFINE hits == {i \in DOMAIN Names : IsPrefix(text, Names[i])}
<1>1. hits \subseteq 1 .. 12
  <2>1. DOMAIN Names = 1 .. 12
    BY DEF Names
  <2> QED
    BY <2>1
<1> HIDE DEF hits
<1>2. ASSUME hits # {}
      PROVE  \E i \in hits : \A j \in hits : i <= j
  <2> DEFINE lower == IF 1 \in hits THEN 1 ELSE IF 2 \in hits THEN 2 ELSE IF 3 \in hits THEN 3
                       ELSE IF 4 \in hits THEN 4 ELSE IF 5 \in hits THEN 5 ELSE IF 6 \in hits THEN 6
                       ELSE IF 7 \in hits THEN 7 ELSE IF 8 \in hits THEN 8 ELSE IF 9 \in hits THEN 9
                       ELSE IF 10 \in hits THEN 10 ELSE IF 11 \in hits THEN 11 ELSE 12
  <2>1. \/ 1 \in hits \/ 2 \in hits \/ 3 \in hits \/ 4 \in hits \/ 5 \in hits \/ 6 \in hits
        \/ 7 \in hits \/ 8 \in hits \/ 9 \in hits \/ 10 \in hits \/ 11 \in hits \/ 12 \in hits
    <3>1. PICK h \in hits : h \in 1 .. 12
      BY <1>1, <1>2
    <3>2. \/ h = 1 \/ h = 2 \/ h = 3 \/ h = 4 \/ h = 5 \/ h = 6
          \/ h = 7 \/ h = 8 \/ h = 9 \/ h = 10 \/ h = 11 \/ h = 12
      BY <3>1
    <3> QED
      BY <3>1, <3>2
  <2>2. lower \in hits
    BY <2>1
  <2>3. \A j \in hits : lower <= j
    BY <1>1
  <2> QED
    BY <2>2, <2>3
<1>3. hits # {} => Min(hits) \in hits
  BY <1>2 DEF Min
<1> QED
  BY <1>1, <1>3 DEF Selected, hits

(* A process that enters the module alone has something guarded to do.     *)
LEMMA CallBegins ==
    ASSUME LoadInv, PmInv', NEW p \in Processes, NEW s, Guarded(s),
           NEW where, where # "user", Enters(p, where), todo' = [todo EXCEPT ![p] = s],
           UNCHANGED <<hw, mapped>>
    PROVE  LoadInv'
<1>1. at = [q \in Processes |-> at[q]] /\ todo = [q \in Processes |-> todo[q]]
  BY DEF LoadInv, PmInv, ProcessShape
<1>2. \A q \in Processes : /\ todo'[q] = IF q = p THEN s ELSE todo[q]
                           /\ at'[q] = IF q = p THEN where ELSE at[q]
  BY <1>1 DEF Enters
<1>3. met' \in {0, 1}
  BY DEF LoadInv, Enters, Meets
<1>4. ASSUME met' = 0
      PROVE  met = 0 /\ \A q \in Processes \ {p} : at[q] = "user"
  BY <1>4 DEF LoadInv, Enters, Meets
<1>5. met' = 0 => Lonely'
  BY <1>2, <1>4 DEF Lonely
<1> QED
  BY <1>2, <1>3, <1>4, <1>5 DEF LoadInv, Guarded

(* Steps that leave the programs and VBUSVALID alone, and let nobody in.   *)
LEMMA NothingMovesLoadInv ==
    ASSUME LoadInv, PmInv', UNCHANGED <<todo, mapped>>,
           met' \in {0, 1}, met' = 0 => met = 0 /\ Lonely',
           \A p \in Processes : at'[p] = "user" => todo'[p] = <<>>,
           hw' \in [Bases -> SUBSET Bits], VBUSVALID \in hw["CTRL"] => VBUSVALID \in hw'["CTRL"]
    PROVE  LoadInv'
BY DEF LoadInv

(* What a process in the module does lets nobody else in.                  *)
LEMMA NobodyEnters ==
    ASSUME LoadInv, NEW p \in Processes, at[p] # "user" \/ UNCHANGED at,
           NEW where, at' = [at EXCEPT ![p] = where] \/ UNCHANGED at, met' = met
    PROVE  met' \in {0, 1} /\ (met' = 0 => met = 0 /\ Lonely')
<1>1. at = [q \in Processes |-> at[q]]
  BY DEF LoadInv, PmInv, ProcessShape
<1>2. \A q \in Processes : at'[q] # "user" => at[q] # "user"
  BY <1>1
<1>3. met = 0 => Lonely'
  BY <1>2 DEF LoadInv, Lonely
<1> QED
  BY <1>3 DEF LoadInv

(* What an access of a process that is alone leaves to do is tested.       *)
LEMMA AccessKeepsLoadInv ==
    ASSUME LoadInv, PmInv', NEW p \in Processes, at[p] # "user", NEW value,
           todo[p] # <<>>, todo' = [todo EXCEPT ![p] = After(p, value)],
           NEW where, where # "user", at' = [at EXCEPT ![p] = where], met' = met,
           mapped' \in 0 .. MAPPINGS, mapped <= mapped',
           hw' \in [Bases -> SUBSET Bits],
           Head(todo[p]).dir = "test" /\ Head(todo[p]).reg[1] = "CTRL"
              => mapped' = MAPPINGS \/ (hw' = hw /\ value = hw["CTRL"])
    PROVE  LoadInv'
<1>1. met' \in {0, 1} /\ (met' = 0 => met = 0 /\ Lonely')
  BY NobodyEnters
<1> DEFINE s == todo'[p]
           a == Head(todo[p])
<1>2. at = [q \in Processes |-> at[q]] /\ todo = [q \in Processes |-> todo[q]]
  BY DEF LoadInv, PmInv, ProcessShape
<1>3. /\ \A q \in Processes : at'[q] = "user" => todo'[q] = <<>>
      /\ \A q \in Processes \ {p} : todo'[q] = todo[q]
  BY <1>2 DEF LoadInv
<1>4. s = After(p, value)
  BY <1>2
<1> HIDE DEF s, a
<1>5. s \in Seq(Accesses)
  BY <1>4 DEF LoadInv, After
<1>6. ASSUME met = 0
      PROVE  /\ LoadTested(s)
             /\ StartsWithLoad(s) => VBUSVALID \in hw'["CTRL"] \/ mapped' = MAPPINGS
  <2>1. todo[p] \in Seq(Accesses) /\ LoadTested(todo[p])
    BY <1>6 DEF LoadInv
  <2>2. s = <<>> \/ (s = Tail(todo[p]) /\ (a.dir = "test" => VBUSVALID \in value))
    BY <1>4 DEF After, a
  <2>3. LoadTested(s)
    BY <2>1, <2>2, TailTested, NothingIsGuarded DEF Guarded
  <2>4. ASSUME StartsWithLoad(s)
        PROVE  VBUSVALID \in hw'["CTRL"] \/ mapped' = MAPPINGS
    <3>1. s = Tail(todo[p]) /\ (a.dir = "test" => VBUSVALID \in value)
      BY <2>2, <2>4 DEF StartsWithLoad
    <3>2. a.dir = "test" /\ a.reg[1] = "CTRL"
      BY <2>1, <2>4, <3>1, TailTested DEF a
    <3> QED
      BY <3>1, <3>2 DEF a
  <2> QED
    BY <2>3, <2>4
<1>7. ASSUME met = 0, NEW q \in Processes \ {p}
      PROVE  todo'[q] = <<>>
  BY <1>3, <1>7 DEF LoadInv, Lonely
<1>8. ASSUME met = 0, NEW q \in Processes
      PROVE  /\ LoadTested(todo'[q])
             /\ StartsWithLoad(todo'[q]) => VBUSVALID \in hw'["CTRL"] \/ mapped' = MAPPINGS
  BY <1>6, <1>7, <1>8, NothingIsGuarded DEF Guarded, s
<1>9. \A q \in Processes : todo'[q] \in Seq(Accesses)
  BY <1>3, <1>5 DEF s, LoadInv
<1> QED
  BY <1>1, <1>3, <1>8, <1>9 DEF LoadInv

(* Every step keeps the load behind its test.                              *)
LEMMA StepKeepsLoadInv ==
    ASSUME LoadInv, [Next]_vars
    PROVE  LoadInv'
<1> USE DEF moduleVars, resources, procVars
<1>1. PmInv /\ PmInv'
  BY StepKeepsPmInv DEF LoadInv
<1>2. /\ hw \in [Bases -> SUBSET Bits] /\ todo = [q \in Processes |-> todo[q]]
      /\ at = [q \in Processes |-> at[q]]
  BY DEF LoadInv, PmInv, ProcessShape
<1>3. CASE vensey_pm_exit \/ PowerUp \/ VbusBecomesValid \/ UNCHANGED vars
  <2>1. UNCHANGED <<todo, mapped, met, at>>
    BY <1>3 DEF vensey_pm_exit, PowerUp, VbusBecomesValid, vars
  <2>2. "CTRL" \in Bases
    BY DEF Bases
  <2>3. hw' = hw \/ hw' = [hw EXCEPT !["CTRL"] = hw["CTRL"] \cup {VBUSVALID}]
    BY <1>3 DEF vensey_pm_exit, PowerUp, VbusBecomesValid, vars
  <2>4. /\ hw' \in [Bases -> SUBSET Bits]
        /\ VBUSVALID \in hw["CTRL"] => VBUSVALID \in hw'["CTRL"]
    <3>1. hw["CTRL"] \in SUBSET Bits /\ VBUSVALID \in Bits
      BY <1>2, <2>2 DEF VBUSVALID, Bits
    <3>2. hw["CTRL"] \cup {VBUSVALID} \in SUBSET Bits
      BY <3>1
    <3> QED
      BY <1>2, <2>2, <2>3, <3>2
  <2>5. /\ met' \in {0, 1} /\ (met' = 0 => met = 0 /\ Lonely')
        /\ \A p \in Processes : at'[p] = "user" => todo'[p] = <<>>
    BY <2>1 DEF LoadInv, Lonely
  <2> QED
    BY <1>1, <2>1, <2>4, <2>5, NothingMovesLoadInv
<1>4. ASSUME NEW p \in Processes,
             IsLoaded(p) \/ CallFails(p) \/ WriteToNothing(p) \/ Begin(p)
      PROVE  LoadInv'
  <2>1. UNCHANGED <<todo, mapped, hw, met, at>>
    BY <1>4 DEF IsLoaded, CallFails, WriteToNothing, Begin
  <2>2. /\ met' \in {0, 1} /\ (met' = 0 => met = 0 /\ Lonely')
        /\ \A q \in Processes : at'[q] = "user" => todo'[q] = <<>>
    BY <2>1 DEF LoadInv, Lonely
  <2> QED
    BY <1>1, <1>2, <2>1, <2>2, NothingMovesLoadInv
<1>5. ASSUME NEW p \in Processes, vensey_pm_init(p)
      PROVE  LoadInv'
  <2>1. UNCHANGED <<todo, mapped, hw, at>> /\ Meets(p)
    BY <1>5 DEF vensey_pm_init
  <2>2. /\ met' \in {0, 1} /\ (met' = 0 => met = 0 /\ Lonely')
        /\ \A q \in Processes : at'[q] = "user" => todo'[q] = <<>>
    BY <2>1 DEF LoadInv, Lonely, Meets
  <2> QED
    BY <1>1, <1>2, <2>1, <2>2, NothingMovesLoadInv
<1>6. ASSUME NEW p \in Processes, vensey_pm_debug_provide_data(p)
      PROVE  LoadInv'
  <2>1. /\ todo' = [todo EXCEPT ![p] = ReadOut] /\ UNCHANGED <<hw, mapped>>
        /\ Enters(p, "request")
    BY <1>6 DEF vensey_pm_debug_provide_data
  <2> QED
    BY <1>1, <2>1, ReadOutGuarded, CallBegins
<1>7. ASSUME NEW p \in Processes, vensey_pm_debug_write(p) \/ CopyTail(p)
      PROVE  LoadInv'
  <2>1. PICK c \in 0 .. 12 : Execute(p, c)
    <3>1. Mixtures \subseteq 0 .. 12
      BY MixturesAssumption DEF Names
    <3> QED
      BY <1>7, <3>1, SelectedRange DEF vensey_pm_debug_write, CopyTail
  <2>2. todo' = [todo EXCEPT ![p] = Program(c)] /\ Enters(p, "request")
    BY <2>1 DEF Execute
  <2>3. UNCHANGED <<hw, mapped>>
    BY <1>7 DEF vensey_pm_debug_write, CopyTail
  <2> QED
    BY <1>1, <2>2, <2>3, EveryProgramGuarded, CallBegins
<1>8. ASSUME NEW p \in Processes, CopyHead(p)
      PROVE  LoadInv'
  <2>1. /\ at[p] = "user" /\ Enters(p, "copy") /\ UNCHANGED <<hw, mapped, todo>>
    BY <1>8 DEF CopyHead, Calls
  <2>2. todo' = [todo EXCEPT ![p] = <<>>]
    BY <1>2, <2>1 DEF LoadInv
  <2> QED
    BY <1>1, <2>1, <2>2, NothingIsGuarded, CallBegins
<1>9. ASSUME NEW p \in Processes, Request(p)
      PROVE  LoadInv'
  <2>1. at[p] # "user" /\ met' = met /\ UNCHANGED <<mapped, hw>> /\ at[p] # "map"
    BY <1>9 DEF Request, InModule
  <2>2. CASE \E r \in busy : Overlap(r, Region(p))
    <3>1. met = 1
      <4>1. PICK q \in Processes : at[q] = "map"
        BY <1>1, <1>9, <2>2 DEF PmInv, RegionsReturned, Request, InModule
      <4>2. ~Lonely
        BY <2>1, <4>1 DEF Lonely
      <4> QED
        BY <4>2 DEF LoadInv
    <3>2. todo' = [todo EXCEPT ![p] = After(p, ENOMEM)] /\ at' = at
      BY <1>9, <2>2 DEF Request
    <3>3. \A q \in Processes : at'[q] = "user" => todo'[q] = <<>>
      BY <1>2, <2>1, <3>2 DEF LoadInv
    <3>4. \A q \in Processes : todo'[q] \in Seq(Accesses)
      <4>1. After(p, ENOMEM) \in Seq(Accesses)
        BY <1>9 DEF LoadInv, After, Request
      <4> QED
        BY <1>2, <3>2, <4>1 DEF LoadInv
    <3> QED
      BY <1>1, <2>1, <3>1, <3>3, <3>4 DEF LoadInv
  <2>3. CASE ~\E r \in busy : Overlap(r, Region(p))
    <3>1. todo' = todo /\ at' = [at EXCEPT ![p] = "map"]
      BY <1>9, <2>3 DEF Request
    <3>2. met' \in {0, 1} /\ (met' = 0 => met = 0 /\ Lonely')
      BY <2>1, <3>1, NobodyEnters
    <3>3. \A q \in Processes : at'[q] = "user" => todo'[q] = <<>>
      BY <1>2, <3>1 DEF LoadInv
    <3> QED
      BY <1>1, <1>2, <2>1, <3>1, <3>2, <3>3, NothingMovesLoadInv
  <2> QED
    BY <2>2, <2>3
<1>10. ASSUME NEW p \in Processes, MapFails(p) \/ MapAndAccess(p)
      PROVE  LoadInv'
  <2>1. /\ at[p] = "map" /\ at' = [at EXCEPT ![p] = "request"] /\ met' = met
    BY <1>10 DEF MapFails, MapAndAccess, InModule
  <2>2. todo[p] # <<>>
    BY <1>1, <2>1 DEF PmInv, ProcessShape
  <2>3. mapped \in Nat /\ mapped' \in 0 .. MAPPINGS /\ mapped <= mapped'
    BY <1>10, PmAssumption DEF MapFails, MapAndAccess, LoadInv
  <2>4. hw' \in [Bases -> SUBSET Bits]
    <3>1. Head(todo[p]) \in Accesses
      BY <2>2 DEF LoadInv
    <3> DEFINE a == Head(todo[p])
    <3>2. a.reg[1] \in Bases /\ a.bits \in SUBSET Bits
      BY <3>1 DEF Accesses
    <3>3. hw[a.reg[1]] \in SUBSET Bits
      BY <1>2, <3>2
    <3> HIDE DEF a
    <3> DEFINE value == IF a.reg[2] = "SET" THEN hw[a.reg[1]] \cup a.bits
                        ELSE IF a.reg[2] = "CLR" THEN hw[a.reg[1]] \ a.bits ELSE a.bits
    <3>4. value \in SUBSET Bits
      BY <3>2, <3>3
    <3>5. Written(a) = [hw EXCEPT ![a.reg[1]] = value]
      BY DEF Written
    <3>6. Written(a) \in [Bases -> SUBSET Bits]
      BY <1>2, <3>2, <3>4, <3>5
    <3> QED
      BY <1>10, <1>2, <3>6 DEF MapFails, MapAndAccess, a
  <2> DEFINE value == IF MapFails(p) THEN ENOMEM ELSE hw[Head(todo[p]).reg[1]]
  <2>5. todo' = [todo EXCEPT ![p] = After(p, value)]
    BY <1>10 DEF MapFails, MapAndAccess
  <2>6. Head(todo[p]).dir = "test" /\ Head(todo[p]).reg[1] = "CTRL"
           => mapped' = MAPPINGS \/ (hw' = hw /\ value = hw["CTRL"])
    BY <1>10 DEF MapFails, MapAndAccess
  <2> HIDE DEF value
  <2> QED
    BY <1>1, <2>1, <2>2, <2>3, <2>4, <2>5, <2>6, AccessKeepsLoadInv
<1>11. ASSUME NEW p \in Processes, PowersDown(p)
      PROVE  LoadInv'
  <2>1. met' = 0 /\ \A q \in Processes : todo'[q] = <<>> /\ at'[q] = "user"
    BY <1>11 DEF PowersDown
  <2>2. mapped' \in 0 .. MAPPINGS /\ hw' \in [Bases -> SUBSET Bits]
    BY <1>11, <1>2, PmAssumption DEF PowersDown
  <2> QED
    BY <1>1, <2>1, <2>2, NothingIsGuarded DEF LoadInv, Guarded, Lonely
<1>12. ASSUME NEW p \in Processes, Return(p)
       PROVE  LoadInv'
  <2>1. /\ at[p] # "user" /\ at' = [at EXCEPT ![p] = "user"] /\ met' = met
        /\ UNCHANGED <<todo, mapped, hw>> /\ todo[p] = <<>>
    BY <1>12 DEF Return
  <2>2. met' \in {0, 1} /\ (met' = 0 => met = 0 /\ Lonely')
    BY <2>1, NobodyEnters
  <2>3. \A q \in Processes : at'[q] = "user" => todo'[q] = <<>>
    BY <1>2, <2>1 DEF LoadInv
  <2> QED
    BY <1>1, <1>2, <2>1, <2>2, <2>3, NothingMovesLoadInv
<1>13. ASSUME NEW p \in Processes, Oops(p)
       PROVE  LoadInv'
  <2>1. /\ at[p] # "user" /\ at' = [at EXCEPT ![p] = "user"] /\ met' = met
        /\ todo' = [todo EXCEPT ![p] = <<>>] /\ hw' = hw
    BY <1>13 DEF Oops
  <2>2. met' \in {0, 1} /\ (met' = 0 => met = 0 /\ Lonely')
    BY <2>1, NobodyEnters
  <2>3. mapped' \in 0 .. MAPPINGS /\ (mapped = MAPPINGS => mapped' = MAPPINGS)
    BY <1>13, PmAssumption DEF Oops, LoadInv
  <2>4. \A q \in Processes : todo'[q] = <<>> \/ (q # p /\ todo'[q] = todo[q])
    BY <1>2, <2>1
  <2>5. \A q \in Processes : at'[q] = "user" => todo'[q] = <<>>
    BY <1>2, <2>1, <2>4 DEF LoadInv
  <2> QED
    BY <1>1, <1>2, <2>1, <2>2, <2>3, <2>4, <2>5, NothingIsGuarded DEF LoadInv, Guarded
<1> QED
  BY <1>3, <1>4, <1>5, <1>6, <1>7, <1>8, <1>9, <1>10, <1>11, <1>12, <1>13 DEF Next, Process

(* As long as no two processes have met in the module since power up, the  *)
(* load of the charger is set only after VBUSVALID was seen (set_nooli,    *)
(* vensey_pm.c:435-464), for any number of processes and mappings.         *)
THEOREM LoadOnlyEverWithVbus == Spec => []LoadOnlyWithVbus
<1>1. LoadInv => LoadOnlyWithVbus
  <2> SUFFICES ASSUME LoadInv, met = 0, NEW q \in Processes, at[q] = "map",
                      Head(todo[q]) = ChargerLoad
               PROVE  VBUSVALID \in hw["CTRL"] \/ mapped = MAPPINGS
    BY DEF LoadOnlyWithVbus
  <2>1. todo[q] # <<>> /\ todo[q] \in Seq(Accesses)
    BY DEF LoadInv, PmInv, ProcessShape
  <2>2. StartsWithLoad(todo[q])
    BY <2>1 DEF StartsWithLoad
  <2> QED
    BY <2>2 DEF LoadInv
<1> QED
  BY <1>1, InitEstablishesLoadInv, StepKeepsLoadInv, PTL DEF Spec

-----------------------------------------------------------------------------
(* The names of the commands.                                              *)

(* A prefix is not longer, and has the same elements.                      *)
LEMMA PrefixElements ==
    ASSUME NEW S, NEW s \in Seq(S), NEW t \in Seq(S), IsPrefix(s, t)
    PROVE  Len(s) <= Len(t) /\ \A k \in 1 .. Len(s) : s[k] = t[k]
<1>1. Len(s) <= Len(t) /\ SubSeq(s, 1, Len(s)) = SubSeq(t, 1, Len(s))
  BY DEF IsPrefix
<1>2. \A k \in 1 .. Len(s) : SubSeq(s, 1, Len(s))[k] = s[k] /\ SubSeq(t, 1, Len(s))[k] = t[k]
  BY <1>1
<1> QED BY <1>1, <1>2

(* What the names are made of.                                             *)
Parts == {"clr_autostrt", "s", "_", "down_f", "et_", "alarm", "en_", "batt", "4p2", "4", "V_",
          "full", "th", ".4V_th", "nooli", "dis_load_res", "release_nooli"}

(* The twelve names, part by part.                                         *)
LEMMA TheNames ==
    /\ DOMAIN Names = 1 .. 12
    /\ \A i \in 1 .. 12 : Names[i] \in Seq(Parts)
    /\ Len(Names[1]) = 1 /\ Names[1][1] = "clr_autostrt"
    /\ Len(Names[2]) = 3 /\ Names[2][1] = "s" /\ Names[2][2] = "_" /\ Names[2][3] = "down_f"
    /\ Len(Names[3]) = 3 /\ Names[3][1] = "s" /\ Names[3][2] = "et_" /\ Names[3][3] = "alarm"
    /\ Len(Names[4]) = 3 /\ Names[4][1] = "s" /\ Names[4][2] = "_" /\ Names[4][3] = "alarm"
    /\ Len(Names[5]) = 2 /\ Names[5][1] = "en_" /\ Names[5][2] = "batt"
    /\ Len(Names[6]) = 2 /\ Names[6][1] = "en_" /\ Names[6][2] = "4p2"
    /\ Len(Names[7]) = 5 /\ Names[7][1] = "s" /\ Names[7][2] = "et_" /\ Names[7][3] = "4"
    /\ Names[7][4] = "V_" /\ Names[7][5] = "full"
    /\ Len(Names[8]) = 5 /\ Names[8][1] = "s" /\ Names[8][2] = "et_" /\ Names[8][3] = "4"
    /\ Names[8][4] = "V_" /\ Names[8][5] = "th"
    /\ Len(Names[9]) = 4 /\ Names[9][1] = "s" /\ Names[9][2] = "et_" /\ Names[9][3] = "4"
    /\ Names[9][4] = ".4V_th"
    /\ Len(Names[10]) = 3 /\ Names[10][1] = "s" /\ Names[10][2] = "et_" /\ Names[10][3] = "nooli"
    /\ Len(Names[11]) = 1 /\ Names[11][1] = "dis_load_res"
    /\ Len(Names[12]) = 1 /\ Names[12][1] = "release_nooli"
<1> DEFINE n1 == <<"clr_autostrt">>
           n2 == <<"s", "_", "down_f">>
           n3 == <<"s", "et_", "alarm">>
           n4 == <<"s", "_", "alarm">>
           n5 == <<"en_", "batt">>
           n6 == <<"en_", "4p2">>
           n7 == <<"s", "et_", "4", "V_", "full">>
           n8 == <<"s", "et_", "4", "V_", "th">>
           n9 == <<"s", "et_", "4", ".4V_th">>
           n10 == <<"s", "et_", "nooli">>
           n11 == <<"dis_load_res">>
           n12 == <<"release_nooli">>
<1>1. Names = <<n1, n2, n3, n4, n5, n6, n7, n8, n9, n10, n11, n12>>
  BY DEF Names
<1>2. /\ n1 \in Seq(Parts) /\ n2 \in Seq(Parts) /\ n3 \in Seq(Parts) /\ n4 \in Seq(Parts)
      /\ n5 \in Seq(Parts) /\ n6 \in Seq(Parts)
  BY DEF Parts
<1>3. /\ n7 \in Seq(Parts) /\ n8 \in Seq(Parts)
      /\ n9 \in Seq(Parts) /\ n10 \in Seq(Parts) /\ n11 \in Seq(Parts) /\ n12 \in Seq(Parts)
  BY DEF Parts
<1>4. /\ Len(n1) = 1 /\ n1[1] = "clr_autostrt"
      /\ Len(n2) = 3 /\ n2[1] = "s" /\ n2[2] = "_" /\ n2[3] = "down_f"
      /\ Len(n3) = 3 /\ n3[1] = "s" /\ n3[2] = "et_" /\ n3[3] = "alarm"
      /\ Len(n4) = 3 /\ n4[1] = "s" /\ n4[2] = "_" /\ n4[3] = "alarm"
      /\ Len(n5) = 2 /\ n5[1] = "en_" /\ n5[2] = "batt"
      /\ Len(n6) = 2 /\ n6[1] = "en_" /\ n6[2] = "4p2"
  OBVIOUS
<1>5. /\ Len(n7) = 5 /\ n7[1] = "s" /\ n7[2] = "et_" /\ n7[3] = "4"
      /\ n7[4] = "V_" /\ n7[5] = "full"
      /\ Len(n8) = 5 /\ n8[1] = "s" /\ n8[2] = "et_" /\ n8[3] = "4"
      /\ n8[4] = "V_" /\ n8[5] = "th"
      /\ Len(n9) = 4 /\ n9[1] = "s" /\ n9[2] = "et_" /\ n9[3] = "4"
      /\ n9[4] = ".4V_th"
  OBVIOUS
<1>6. /\ Len(n10) = 3 /\ n10[1] = "s" /\ n10[2] = "et_" /\ n10[3] = "nooli"
      /\ Len(n11) = 1 /\ n11[1] = "dis_load_res"
      /\ Len(n12) = 1 /\ n12[1] = "release_nooli"
  OBVIOUS
<1> HIDE DEF n1, n2, n3, n4, n5, n6, n7, n8, n9, n10, n11, n12
<1>7. /\ DOMAIN Names = 1 .. 12
      /\ Names[1] = n1 /\ Names[2] = n2 /\ Names[3] = n3 /\ Names[4] = n4 /\ Names[5] = n5
      /\ Names[6] = n6 /\ Names[7] = n7 /\ Names[8] = n8 /\ Names[9] = n9 /\ Names[10] = n10
      /\ Names[11] = n11 /\ Names[12] = n12
  BY <1>1
<1>8. \A i \in 1 .. 12 : Names[i] \in Seq(Parts)
  <2>1. ASSUME NEW i \in 1 .. 12
        PROVE  \/ i = 1 \/ i = 2 \/ i = 3 \/ i = 4 \/ i = 5 \/ i = 6
               \/ i = 7 \/ i = 8 \/ i = 9 \/ i = 10 \/ i = 11 \/ i = 12
    OBVIOUS
  <2> QED
    BY <1>2, <1>3, <1>7, <2>1
<1>9. /\ Len(Names[1]) = 1 /\ Names[1][1] = "clr_autostrt"
      /\ Len(Names[2]) = 3 /\ Names[2][1] = "s" /\ Names[2][2] = "_" /\ Names[2][3] = "down_f"
      /\ Len(Names[3]) = 3 /\ Names[3][1] = "s" /\ Names[3][2] = "et_" /\ Names[3][3] = "alarm"
      /\ Len(Names[4]) = 3 /\ Names[4][1] = "s" /\ Names[4][2] = "_" /\ Names[4][3] = "alarm"
      /\ Len(Names[5]) = 2 /\ Names[5][1] = "en_" /\ Names[5][2] = "batt"
      /\ Len(Names[6]) = 2 /\ Names[6][1] = "en_" /\ Names[6][2] = "4p2"
  BY <1>4, <1>7
<1>10. /\ Len(Names[7]) = 5 /\ Names[7][1] = "s" /\ Names[7][2] = "et_" /\ Names[7][3] = "4"
      /\ Names[7][4] = "V_" /\ Names[7][5] = "full"
      /\ Len(Names[8]) = 5 /\ Names[8][1] = "s" /\ Names[8][2] = "et_" /\ Names[8][3] = "4"
      /\ Names[8][4] = "V_" /\ Names[8][5] = "th"
      /\ Len(Names[9]) = 4 /\ Names[9][1] = "s" /\ Names[9][2] = "et_" /\ Names[9][3] = "4"
      /\ Names[9][4] = ".4V_th"
  BY <1>5, <1>7
<1>11. /\ Len(Names[10]) = 3 /\ Names[10][1] = "s" /\ Names[10][2] = "et_"
      /\ Names[10][3] = "nooli"
      /\ Len(Names[11]) = 1 /\ Names[11][1] = "dis_load_res"
      /\ Len(Names[12]) = 1 /\ Names[12][1] = "release_nooli"
  BY <1>6, <1>7
<1> QED
  BY <1>7, <1>8, <1>9, <1>10, <1>11

(* Which names have a first, a second, ... a fifth part.                   *)
LEMMA TheLengths ==
    /\ \A i \in {2, 3, 4, 5, 6, 7, 8, 9, 10, 11, 12} : 1 <= Len(Names[i])
    /\ \A i \in {3, 4, 6, 7, 8, 9, 10} : 2 <= Len(Names[i])
    /\ \A i \in {4, 7, 8, 9, 10} : 3 <= Len(Names[i])
    /\ \A i \in {8, 9} : 4 <= Len(Names[i])
    /\ 5 <= Len(Names[8])
<1>1. /\ Len(Names[2]) = 3 /\ Len(Names[3]) = 3 /\ Len(Names[4]) = 3 /\ Len(Names[5]) = 2
      /\ Len(Names[6]) = 2 /\ Len(Names[7]) = 5 /\ Len(Names[8]) = 5 /\ Len(Names[9]) = 4
      /\ Len(Names[10]) = 3 /\ Len(Names[11]) = 1 /\ Len(Names[12]) = 1
  BY TheNames, Zenon
<1>2. /\ 1 <= 1 /\ 1 <= 2 /\ 1 <= 3 /\ 1 <= 4 /\ 1 <= 5 /\ 2 <= 2 /\ 2 <= 3 /\ 2 <= 4 /\ 2 <= 5
      /\ 3 <= 3 /\ 3 <= 4 /\ 3 <= 5 /\ 4 <= 4 /\ 4 <= 5 /\ 5 <= 5
  OBVIOUS
<1>3. \A i \in {2, 3, 4, 5, 6, 7, 8, 9, 10, 11, 12} : 1 <= Len(Names[i])
  BY <1>1, <1>2, Zenon
<1>4. \A i \in {3, 4, 6, 7, 8, 9, 10} : 2 <= Len(Names[i])
  BY <1>1, <1>2, Zenon
<1>5. \A i \in {4, 7, 8, 9, 10} : 3 <= Len(Names[i])
  BY <1>1, <1>2, Zenon
<1>6. \A i \in {8, 9} : 4 <= Len(Names[i])
  BY <1>1, <1>2, Zenon
<1>7. 5 <= Len(Names[8])
  BY <1>1, <1>2, Zenon
<1> QED
  BY <1>3, <1>4, <1>5, <1>6, <1>7

(* The parts again, column by column.                                      *)
LEMMA TheFirstParts ==
    /\ Names[1][1] = "clr_autostrt" /\ Names[2][1] = "s" /\ Names[3][1] = "s"
    /\ Names[4][1] = "s" /\ Names[5][1] = "en_" /\ Names[6][1] = "en_" /\ Names[7][1] = "s"
    /\ Names[8][1] = "s" /\ Names[9][1] = "s" /\ Names[10][1] = "s"
    /\ Names[11][1] = "dis_load_res" /\ Names[12][1] = "release_nooli"
BY TheNames, Zenon

LEMMA TheSecondParts ==
    /\ Names[2][2] = "_" /\ Names[3][2] = "et_" /\ Names[4][2] = "_" /\ Names[5][2] = "batt"
    /\ Names[6][2] = "4p2" /\ Names[7][2] = "et_" /\ Names[8][2] = "et_"
    /\ Names[9][2] = "et_" /\ Names[10][2] = "et_"
BY TheNames, Zenon

LEMMA TheThirdParts ==
    /\ Names[2][3] = "down_f" /\ Names[3][3] = "alarm" /\ Names[4][3] = "alarm"
    /\ Names[7][3] = "4" /\ Names[8][3] = "4" /\ Names[9][3] = "4" /\ Names[10][3] = "nooli"
BY TheNames, Zenon

LEMMA TheFourthParts ==
    /\ Names[7][4] = "V_" /\ Names[8][4] = "V_" /\ Names[9][4] = ".4V_th"
BY TheNames, Zenon

LEMMA TheFifthParts ==
    /\ Names[7][5] = "full" /\ Names[8][5] = "th"
BY TheNames, Zenon

(* No name is the beginning of an earlier one: two that begin alike part   *)
(* later.                                                                  *)
LEMMA NoEarlierName ==
    ASSUME NEW i \in 1 .. 12, NEW j \in 1 .. 12, j < i, IsPrefix(Names[i], Names[j])
    PROVE  FALSE
<1>1. \/ i = 2 \/ i = 3 \/ i = 4 \/ i = 5 \/ i = 6
      \/ i = 7 \/ i = 8 \/ i = 9 \/ i = 10 \/ i = 11 \/ i = 12
  OBVIOUS
<1>2. \/ j = 1 \/ j = 2 \/ j = 3 \/ j = 4 \/ j = 5 \/ j = 6
      \/ j = 7 \/ j = 8 \/ j = 9 \/ j = 10 \/ j = 11
  OBVIOUS
<1> DEFINE Like(k) == k <= Len(Names[i]) => Names[i][k] = Names[j][k]
<1>3. Like(1) /\ Like(2) /\ Like(3) /\ Like(4) /\ Like(5)
  <2>1. Names[i] \in Seq(Parts) /\ Names[j] \in Seq(Parts)
    BY TheNames
  <2>2. Len(Names[i]) \in Nat /\ \A k \in 1 .. Len(Names[i]) : Names[i][k] = Names[j][k]
    BY <2>1, PrefixElements
  <2> QED
    BY <2>2
<1>4. (i = 6 /\ j = 5) \/ (i \in {3, 4, 7, 8, 9, 10} /\ j \in {2, 3, 4, 7, 8, 9})
  <2>1. 1 <= Len(Names[i])
    BY <1>1, TheLengths
  <2>2. Names[i][1] = Names[j][1]
    BY <1>3, <2>1
  <2> QED
    BY <1>1, <1>2, <2>2, TheFirstParts
<1>5. (i = 4 /\ j = 2) \/ (i \in {7, 8, 9, 10} /\ j \in {3, 7, 8, 9})
  <2>1. 2 <= Len(Names[i])
    BY <1>4, TheLengths
  <2>2. Names[i][2] = Names[j][2]
    BY <1>3, <2>1
  <2>3. CASE i = 6 /\ j = 5
    BY <2>2, <2>3, TheSecondParts
  <2>4. CASE i \in {3, 4, 7, 8, 9, 10} /\ j \in {2, 3, 4, 7, 8, 9}
    <3>1. i \in {3, 7, 8, 9, 10} => j \in {3, 7, 8, 9}
      BY <2>2, <2>4, TheSecondParts
    <3>2. i = 4 => j \in {2, 4}
      BY <2>2, <2>4, TheSecondParts
    <3>3. i # j
      OBVIOUS
    <3> QED
      BY <2>4, <3>1, <3>2, <3>3
  <2> QED
    BY <1>4, <2>3, <2>4
<1>6. i \in {8, 9} /\ j \in {7, 8}
  <2>1. 3 <= Len(Names[i])
    BY <1>5, TheLengths
  <2>2. Names[i][3] = Names[j][3]
    BY <1>3, <2>1
  <2> QED
    BY <1>5, <2>2, TheThirdParts
<1>7. i = 8 /\ j = 7
  <2>1. 4 <= Len(Names[i])
    BY <1>6, TheLengths
  <2>2. Names[i][4] = Names[j][4]
    BY <1>3, <2>1
  <2> QED
    BY <1>6, <2>2, TheFourthParts
<1>8. 5 <= Len(Names[i])
  BY <1>7, TheLengths
<1> QED
  BY <1>3, <1>7, <1>8, TheFifthParts

(* Every name selects its own command.                                     *)
LEMMA OwnName ==
    ASSUME NEW i \in 1 .. 12
    PROVE  Selected(Names[i]) = i
<1>1. \A j \in 1 .. 12 : IsPrefix(Names[i], Names[j]) => ~(j < i)
  BY NoEarlierName
<1>2. \A j \in 1 .. 12 : IsPrefix(Names[i], Names[j]) => i <= j
  BY <1>1
<1>3. DOMAIN Names = 1 .. 12 /\ Names[i] \in Seq(Parts)
  BY TheNames
<1>4. IsPrefix(Names[i], Names[i])
  BY <1>3 DEF IsPrefix
<1> DEFINE hits == {j \in DOMAIN Names : IsPrefix(Names[i], Names[j])}
<1>5. i \in hits /\ \A j \in hits : i <= j /\ j \in 1 .. 12
  BY <1>2, <1>3, <1>4
<1> HIDE DEF hits
<1>6. Min(hits) = i
  <2>1. Min(hits) \in hits /\ \A j \in hits : Min(hits) <= j
    BY <1>5 DEF Min
  <2>2. Min(hits) <= i /\ i <= Min(hits) /\ Min(hits) \in 1 .. 12
    BY <1>5, <2>1
  <2> QED
    BY <2>2
<1> QED
  BY <1>5, <1>6 DEF Selected, hits

-----------------------------------------------------------------------------
(* Commands.                                                               *)

(* As long as no two processes have met, the buffer holds what its only    *)
(* user writes, and the command is the one selected by it.                 *)
Commanded(p) ==
    /\ at[p] = "copy" => msg = Head(rest[p]).text
    /\ InCall(p) /\ Head(rest[p]).op = "write" => cmd[p] = Selected(Head(rest[p]).text)

CommandInv ==
    /\ LoadInv
    /\ rest = [p \in Processes |-> rest[p]] /\ cmd = [p \in Processes |-> cmd[p]]
    /\ met = 0 => \A p \in Processes : Commanded(p)

(* Nobody is in the module at the beginning.                               *)
LEMMA InitEstablishesCommandInv == Init => CommandInv
<1> SUFFICES ASSUME Init PROVE CommandInv
  OBVIOUS
<1>1. LoadInv
  BY InitEstablishesLoadInv
<1>2. /\ rest = [p \in Processes |-> rest[p]] /\ cmd = [p \in Processes |-> cmd[p]]
      /\ \A p \in Processes : at[p] = "user"
  BY DEF Init
<1> QED
  BY <1>1, <1>2 DEF CommandInv, Commanded, InCall

(* What keeps a process that does not move: the message, unless it copies, *)
(* its call and its command.                                               *)
LEMMA StaysCommanded ==
    ASSUME NEW p \in Processes, Commanded(p), at'[p] = at[p], rest'[p] = rest[p],
           cmd'[p] = cmd[p], at[p] = "copy" => msg' = msg
    PROVE  Commanded(p)'
BY DEF Commanded, InCall

(* Whoever enters the module while nobody was met is alone in it.          *)
LEMMA EntersAlone ==
    ASSUME met \in {0, 1}, NEW p \in Processes, Meets(p), met' = 0
    PROVE  met = 0 /\ \A q \in Processes \ {p} : at[q] = "user"
BY DEF Meets

(* A process that is in the module is alone in it.                         *)
LEMMA IsAlone ==
    ASSUME LoadInv, met = 0, NEW p \in Processes, at[p] # "user"
    PROVE  \A q \in Processes \ {p} : at[q] = "user"
BY DEF LoadInv, Lonely

(* Every step keeps the commands with their messages.                      *)
LEMMA StepKeepsCommandInv ==
    ASSUME CommandInv, [Next]_vars
    PROVE  CommandInv'
<1> USE DEF moduleVars, resources, procVars
<1>1. LoadInv /\ LoadInv'
  BY StepKeepsLoadInv DEF CommandInv
<1>2. /\ at = [q \in Processes |-> at[q]] /\ rest = [q \in Processes |-> rest[q]]
      /\ cmd = [q \in Processes |-> cmd[q]] /\ met \in {0, 1}
  BY <1>1 DEF CommandInv, LoadInv, PmInv, ProcessShape
<1>3. ASSUME met = 0
      PROVE  \A q \in Processes : Commanded(q)
  BY <1>3 DEF CommandInv
<1>4. ASSUME NEW q \in Processes, at'[q] = "user"
      PROVE  Commanded(q)'
  BY <1>4 DEF Commanded, InCall
<1>5. CASE vensey_pm_exit \/ PowerUp \/ VbusBecomesValid \/ UNCHANGED vars
  <2>1. UNCHANGED <<at, rest, cmd, msg, met>>
    BY <1>5 DEF vensey_pm_exit, PowerUp, VbusBecomesValid, vars
  <2> QED
    BY <1>1, <1>2, <1>3, <2>1, StaysCommanded DEF CommandInv
<1>6. ASSUME NEW p \in Processes,
             Begin(p) \/ IsLoaded(p) \/ CallFails(p) \/ WriteToNothing(p)
      PROVE  CommandInv'
  <2>1. /\ at[p] = "user" /\ UNCHANGED <<at, msg, met>>
        /\ \A q \in Processes \ {p} : rest'[q] = rest[q] /\ cmd'[q] = cmd[q]
        /\ rest' = [q \in Processes |-> rest'[q]] /\ cmd' = [q \in Processes |-> cmd'[q]]
    BY <1>2, <1>6 DEF Begin, IsLoaded, CallFails, Killed, WriteToNothing, Calls
  <2>2. ASSUME met' = 0, NEW q \in Processes
        PROVE  Commanded(q)'
    BY <1>3, <1>4, <2>1, <2>2, StaysCommanded
  <2> QED
    BY <1>1, <2>1, <2>2 DEF CommandInv
<1>7. ASSUME NEW p \in Processes, vensey_pm_init(p)
      PROVE  CommandInv'
  <2>1. /\ at[p] = "user" /\ UNCHANGED <<at, cmd>> /\ Meets(p)
        /\ rest' = [q \in Processes |-> rest'[q]]
    BY <1>2, <1>7 DEF vensey_pm_init, Calls
  <2>2. ASSUME met' = 0, NEW q \in Processes
        PROVE  at'[q] = "user"
    BY <1>2, <2>1, <2>2, EntersAlone
  <2> QED
    BY <1>1, <1>2, <1>4, <2>1, <2>2 DEF CommandInv
<1>8. ASSUME NEW p \in Processes, vensey_pm_debug_provide_data(p) \/ vensey_pm_debug_write(p)
                                    \/ CopyHead(p) \/ CopyTail(p)
      PROVE  CommandInv'
  <2>1. UNCHANGED rest /\ Meets(p) /\ cmd' = [q \in Processes |-> cmd'[q]]
    BY <1>2, <1>8 DEF vensey_pm_debug_provide_data, vensey_pm_debug_write, CopyHead,
                      CopyTail, Execute, Enters
  <2>2. ASSUME met' = 0, NEW q \in Processes \ {p}
        PROVE  at'[q] = "user"
    <3>1. at[q] = "user"
      BY <1>2, <2>1, <2>2, EntersAlone
    <3> QED
      BY <1>2, <1>8, <3>1 DEF vensey_pm_debug_provide_data, vensey_pm_debug_write, CopyHead,
                      CopyTail, Execute, Enters
  <2>3. ASSUME met' = 0
        PROVE  Commanded(p)'
    <3>1. met = 0 /\ \A q \in Processes \ {p} : at[q] = "user"
      BY <1>2, <2>1, <2>3, EntersAlone
    <3>2. CASE vensey_pm_debug_provide_data(p)
      <4>1. at'[p] = "request" /\ Head(rest'[p]).op = "read"
        BY <1>2, <3>2 DEF vensey_pm_debug_provide_data, Enters, Calls
      <4> QED
        BY <4>1 DEF Commanded
    <3>3. CASE vensey_pm_debug_write(p)
      <4>1. at'[p] = "request" /\ cmd'[p] = Selected(Head(rest[p]).text) /\ rest' = rest
        BY <1>2, <3>3 DEF vensey_pm_debug_write, Enters, Execute
      <4> QED
        BY <4>1 DEF Commanded
    <3>4. CASE CopyHead(p)
      <4>1. at'[p] = "copy" /\ msg' = Head(rest[p]).text /\ rest' = rest
        BY <1>2, <3>1, <3>4 DEF CopyHead, Enters, Buffered, OthersCopy
      <4> QED
        BY <4>1 DEF Commanded, InCall
    <3>5. CASE CopyTail(p)
      <4>1. msg = Head(rest[p]).text
        BY <1>3, <3>1, <3>5 DEF CopyTail, Commanded, InModule
      <4>2. Execute(p, Selected(Head(rest[p]).text))
        BY <3>5, <4>1 DEF CopyTail
      <4>3. at'[p] = "request" /\ cmd'[p] = Selected(Head(rest[p]).text) /\ rest' = rest
        BY <1>2, <2>1, <4>2 DEF Enters, Execute
      <4> QED
        BY <4>3 DEF Commanded
    <3> QED
      BY <1>8, <3>2, <3>3, <3>4, <3>5
  <2>4. ASSUME met' = 0
        PROVE  \A q \in Processes : Commanded(q)'
    BY <1>4, <2>2, <2>3, <2>4
  <2> QED
    BY <1>1, <1>2, <2>1, <2>4 DEF CommandInv
<1>9. ASSUME NEW p \in Processes, Request(p) \/ MapFails(p) \/ MapAndAccess(p) \/ Return(p)
      PROVE  CommandInv'
  <2>1. /\ InCall(p) /\ UNCHANGED <<cmd, msg, met>>
        /\ rest' = [q \in Processes |-> rest'[q]]
        /\ \A q \in Processes \ {p} : at'[q] = at[q] /\ rest'[q] = rest[q]
        /\ at'[p] = "user" \/ (InCall(p)' /\ rest'[p] = rest[p])
    BY <1>2, <1>9 DEF Request, MapFails, MapAndAccess, Return, InModule, InCall
  <2>2. ASSUME met' = 0, NEW q \in Processes \ {p}
        PROVE  Commanded(q)'
    BY <1>3, <2>1, <2>2, StaysCommanded
  <2>3. ASSUME met' = 0
        PROVE  Commanded(p)'
    BY <1>3, <1>4, <2>1, <2>3 DEF Commanded, InCall
  <2> QED
    BY <1>1, <1>2, <2>1, <2>2, <2>3 DEF CommandInv
<1>10. ASSUME NEW p \in Processes, PowersDown(p)
       PROVE  CommandInv'
  <2>1. /\ \A q \in Processes : at'[q] = "user"
        /\ rest' = [q \in Processes |-> rest'[q]] /\ cmd' = [q \in Processes |-> cmd'[q]]
    BY <1>10 DEF PowersDown
  <2> QED
    BY <1>1, <1>4, <2>1 DEF CommandInv
<1>11. ASSUME NEW p \in Processes, Oops(p)
       PROVE  CommandInv'
  <2>1. /\ at' = [at EXCEPT ![p] = "user"] /\ UNCHANGED <<cmd, msg, met>>
        /\ \A q \in Processes \ {p} : rest'[q] = rest[q]
        /\ rest' = [q \in Processes |-> rest'[q]]
    BY <1>2, <1>11 DEF Oops, Killed
  <2>2. ASSUME met' = 0, NEW q \in Processes
        PROVE  Commanded(q)'
    BY <1>2, <1>3, <1>4, <2>1, <2>2, StaysCommanded
  <2> QED
    BY <1>1, <1>2, <2>1, <2>2 DEF CommandInv
<1> QED
  BY <1>5, <1>6, <1>7, <1>8, <1>9, <1>10, <1>11 DEF Next, Process

(* Whoever is alone has the command executed whose name it wrote           *)
(* (vensey_pm.c:274-485): none of the twelve names is caught by an earlier *)
(* comparison, and nothing of another message gets into the buffer.        *)
THEOREM CommandIsOwn == Spec => []OwnCommand
<1>1. CommandInv => OwnCommand
  <2> SUFFICES ASSUME CommandInv, met = 0, NEW p \in Processes, NEW i \in DOMAIN Names,
                      InCall(p), Head(rest[p]) = [op |-> "write", text |-> Names[i]]
               PROVE  cmd[p] = i
    BY DEF OwnCommand
  <2>1. cmd[p] = Selected(Names[i])
    BY DEF CommandInv, Commanded
  <2> QED
    BY <2>1, TheNames, OwnName
<1> QED
  BY <1>1, InitEstablishesCommandInv, StepKeepsCommandInv, PTL DEF Spec

-----------------------------------------------------------------------------
(* Going down.  What a process has still to do is the rest of a job.       *)

NoDown(s) == \A i \in 1 .. Len(s) : s[i].text # Names[s_down_f]

ClearCall == Tail(PwrDown)
DownCall == Tail(Tail(PwrDown))

(* s_down_f is only written by pwr_down; whoever is in the module reads or *)
(* writes; behind modprobe the /proc entry exists.                         *)
Follows(p) ==
    /\ rest[p] \in Seq(Operations)
    /\ NoDown(rest[p]) \/ rest[p] \in {PwrDown, ClearCall, DownCall}
    /\ rest[p] \in {ClearCall, DownCall} => entry
    /\ at[p] # "user" => rest[p] # <<>> /\ Head(rest[p]).op \in {"read", "write"}

JobsInv ==
    /\ CommandInv
    /\ loaded => entry
    /\ \A p \in Processes : Follows(p)

(* The script, and that its calls differ.                                  *)
LEMMA TheScript ==
    /\ PwrDown # <<>> /\ Head(PwrDown).op = "modprobe"
    /\ ClearCall # <<>> /\ Head(ClearCall) = [op |-> "write", text |-> Names[1]]
    /\ DownCall # <<>> /\ Head(DownCall) = [op |-> "write", text |-> Names[2]]
    /\ Tail(DownCall) = <<>>
    /\ PwrDown # ClearCall /\ PwrDown # DownCall /\ ClearCall # DownCall
    /\ ~NoDown(PwrDown) /\ ~NoDown(ClearCall) /\ ~NoDown(DownCall)
<1> DEFINE a == [op |-> "modprobe", text |-> <<>>]
           b == [op |-> "write", text |-> Names[1]]
           c == [op |-> "write", text |-> Names[2]]
<1>1. PwrDown = <<a, b, c>>
  BY DEF PwrDown, s_down_f
<1>2. a.op = "modprobe" /\ c.text = Names[s_down_f]
  BY DEF s_down_f
<1> HIDE DEF a, b, c
<1>3. ClearCall = <<b, c>> /\ DownCall = <<c>>
  BY <1>1 DEF ClearCall, DownCall
<1>4. /\ Len(PwrDown) = 3 /\ Len(ClearCall) = 2 /\ Len(DownCall) = 1
      /\ PwrDown[3] = c /\ ClearCall[2] = c /\ DownCall[1] = c
  BY <1>1, <1>3
<1>5. ~NoDown(PwrDown) /\ ~NoDown(ClearCall) /\ ~NoDown(DownCall)
  BY <1>2, <1>4 DEF NoDown
<1>6. PwrDown # ClearCall /\ PwrDown # DownCall /\ ClearCall # DownCall
  BY <1>4
<1>7. PwrDown # <<>> /\ ClearCall # <<>> /\ DownCall # <<>>
  BY <1>4
<1>8. Head(PwrDown) = a /\ Head(ClearCall) = b /\ Head(DownCall) = c /\ Tail(DownCall) = <<>>
  BY <1>1, <1>3
<1> QED
  BY <1>2, <1>5, <1>6, <1>7, <1>8 DEF b, c

(* What is left of a job after its first call.                             *)
LEMMA TailFollows ==
    ASSUME NEW s \in Seq(Operations), s # <<>>,
           NoDown(s) \/ s \in {PwrDown, ClearCall, DownCall}
    PROVE  /\ Tail(s) \in Seq(Operations)
           /\ NoDown(Tail(s)) \/ Tail(s) \in {PwrDown, ClearCall, DownCall}
           /\ Tail(s) = ClearCall => s = PwrDown
           /\ Tail(s) = DownCall => s = ClearCall
<1>1. Tail(s) \in Seq(Operations)
  OBVIOUS
<1>2. CASE NoDown(s)
  <2>1. NoDown(Tail(s))
    BY <1>2 DEF NoDown
  <2> QED
    BY <1>1, <2>1, TheScript
<1>3. CASE s = PwrDown
  <2>1. Tail(s) = ClearCall
    BY <1>3 DEF ClearCall
  <2> QED
    BY <1>1, <1>3, <2>1, TheScript
<1>4. CASE s = ClearCall
  <2>1. Tail(s) = DownCall
    BY <1>4 DEF ClearCall, DownCall
  <2> QED
    BY <1>1, <1>4, <2>1, TheScript
<1>5. CASE s = DownCall
  <2>1. Tail(s) = <<>>
    BY <1>5, TheScript
  <2>2. NoDown(<<>>)
    BY DEF NoDown
  <2> QED
    BY <1>1, <2>1, <2>2, TheScript
<1> QED
  BY <1>2, <1>3, <1>4, <1>5

(* Nobody has anything to do at the beginning.                             *)
LEMMA InitEstablishesJobsInv == Init => JobsInv
<1> SUFFICES ASSUME Init PROVE JobsInv
  OBVIOUS
<1>1. CommandInv
  BY InitEstablishesCommandInv
<1>2. entry /\ \A p \in Processes : rest[p] = <<>> /\ at[p] = "user"
  BY DEF Init
<1>3. NoDown(<<>>) /\ <<>> \in Seq(Operations)
  BY DEF NoDown
<1> QED
  BY <1>1, <1>2, <1>3 DEF JobsInv, Follows

(* A process in user space, when the entry stays.                          *)
LEMMA StillFollows ==
    ASSUME NEW p \in Processes, Follows(p), rest'[p] = rest[p],
           at'[p] = at[p] \/ at'[p] = "user", entry => entry'
    PROVE  Follows(p)'
BY DEF Follows

(* A call is over, or did not take place.                                  *)
LEMMA CallOver ==
    ASSUME NEW p \in Processes, Follows(p), rest[p] # <<>>,
           rest'[p] = Tail(rest[p]), at'[p] = "user", entry => entry',
           Head(rest[p]).op = "modprobe" => entry'
    PROVE  Follows(p)'
<1>1. /\ rest'[p] \in Seq(Operations)
      /\ NoDown(rest'[p]) \/ rest'[p] \in {PwrDown, ClearCall, DownCall}
      /\ rest'[p] = ClearCall => rest[p] = PwrDown
      /\ rest'[p] = DownCall => rest[p] = ClearCall
  BY TailFollows DEF Follows
<1>2. rest'[p] \in {ClearCall, DownCall} => entry'
  BY <1>1, TheScript DEF Follows
<1> QED
  BY <1>1, <1>2 DEF Follows, NoDown

(* Every step leaves of a job what follows.                                *)
LEMMA StepKeepsJobsInv ==
    ASSUME JobsInv, [Next]_vars
    PROVE  JobsInv'
<1> USE DEF moduleVars, resources, procVars
<1>1. CommandInv /\ CommandInv'
  BY StepKeepsCommandInv DEF JobsInv
<1>2. /\ at = [q \in Processes |-> at[q]] /\ rest = [q \in Processes |-> rest[q]]
      /\ \A q \in Processes : Follows(q)
      /\ loaded => entry
  BY <1>1 DEF CommandInv, LoadInv, PmInv, ProcessShape, JobsInv
<1>3. CASE vensey_pm_exit \/ PowerUp \/ VbusBecomesValid \/ UNCHANGED vars
  <2>1. UNCHANGED <<at, rest, entry>> /\ (loaded' => loaded)
    BY <1>3 DEF vensey_pm_exit, PowerUp, VbusBecomesValid, vars
  <2> QED
    BY <1>1, <1>2, <2>1, StillFollows DEF JobsInv
<1>4. ASSUME NEW p \in Processes, Begin(p)
      PROVE  JobsInv'
  <2>1. PICK job \in Jobs[p] : rest' = [rest EXCEPT ![p] = job]
    BY <1>4 DEF Begin
  <2>2. job \in Seq(Operations) /\ (job = PwrDown \/ NoDown(job))
    BY <2>1, JobsAssumption DEF NoDown
  <2>3. at[p] = "user" /\ UNCHANGED <<at, loaded, entry>>
    BY <1>4 DEF Begin
  <2>4. Follows(p)'
    BY <1>2, <2>1, <2>2, <2>3, TheScript DEF Follows, NoDown
  <2>5. \A q \in Processes \ {p} : Follows(q)'
    BY <1>2, <2>1, <2>3, StillFollows
  <2> QED
    BY <1>1, <1>2, <2>3, <2>4, <2>5 DEF JobsInv
<1>5. ASSUME NEW p \in Processes, vensey_pm_init(p) \/ IsLoaded(p)
                                    \/ WriteToNothing(p) \/ Return(p)
      PROVE  JobsInv'
  <2>1. /\ rest[p] # <<>> /\ rest' = [rest EXCEPT ![p] = Tail(rest[p])]
        /\ at' = [at EXCEPT ![p] = "user"]
    BY <1>2, <1>5 DEF vensey_pm_init, IsLoaded, WriteToNothing, Return, Calls, Follows
  <2>2. (loaded' => entry') /\ (entry => entry')
    BY <1>2, <1>5 DEF vensey_pm_init, IsLoaded, WriteToNothing, Return
  <2>3. Head(rest[p]).op = "modprobe" => entry'
    BY <1>2, <1>5 DEF vensey_pm_init, IsLoaded, WriteToNothing, Return, Calls, Follows
  <2>4. Follows(p)'
    BY <1>2, <2>1, <2>2, <2>3, CallOver
  <2>5. \A q \in Processes \ {p} : Follows(q)'
    BY <1>2, <2>1, <2>2, StillFollows
  <2> QED
    BY <1>1, <2>2, <2>4, <2>5 DEF JobsInv
<1>6. ASSUME NEW p \in Processes,
             vensey_pm_debug_provide_data(p) \/ vensey_pm_debug_write(p) \/ CopyHead(p)
                \/ CopyTail(p) \/ Request(p) \/ MapFails(p) \/ MapAndAccess(p)
      PROVE  JobsInv'
  <2>1. UNCHANGED <<rest, loaded, entry>> /\ \A q \in Processes \ {p} : at'[q] = at[q]
    BY <1>2, <1>6 DEF vensey_pm_debug_provide_data, vensey_pm_debug_write, CopyHead,
                      CopyTail, Execute, Enters, Request, MapFails, MapAndAccess
  <2>2. rest[p] # <<>> /\ Head(rest[p]).op \in {"read", "write"}
    BY <1>2, <1>6 DEF vensey_pm_debug_provide_data, vensey_pm_debug_write, CopyHead, CopyTail,
                      Calls, Request, MapFails, MapAndAccess, InModule, Follows
  <2>3. Follows(p)'
    BY <1>2, <2>1, <2>2 DEF Follows, NoDown
  <2>4. \A q \in Processes \ {p} : Follows(q)'
    BY <1>2, <2>1, StillFollows
  <2> QED
    BY <1>1, <1>2, <2>1, <2>3, <2>4 DEF JobsInv
<1>7. ASSUME NEW p \in Processes, PowersDown(p)
      PROVE  JobsInv'
  <2>1. loaded' = FALSE /\ \A q \in Processes : at'[q] = "user" /\ rest'[q] = <<>>
    BY <1>7 DEF PowersDown
  <2>2. <<>> \in Seq(Operations) /\ \A i \in 1 .. Len(<<>>) : <<>>[i].text # Names[s_down_f]'
    OBVIOUS
  <2>3. ASSUME NEW q \in Processes
        PROVE  Follows(q)'
    BY <2>1, <2>2, TheScript DEF Follows, NoDown
  <2> QED
    BY <1>1, <2>1, <2>3 DEF JobsInv
<1>8. ASSUME NEW p \in Processes, CallFails(p) \/ Oops(p)
      PROVE  JobsInv'
  <2>1. rest[p] # <<>> /\ Head(rest[p]).op \in {"read", "write"}
    BY <1>2, <1>8 DEF CallFails, Oops, Calls, Follows
  <2>2. PICK left \in {<<>>, Tail(rest[p])} : rest' = [rest EXCEPT ![p] = left]
    BY <1>8 DEF CallFails, Oops, Killed
  <2>3. at' = [at EXCEPT ![p] = "user"] /\ UNCHANGED <<loaded, entry>>
    BY <1>2, <1>8 DEF CallFails, Oops, Calls
  <2>4. ASSUME left = <<>>
        PROVE  Follows(p)'
    <3>1. at'[p] = "user" /\ rest'[p] = <<>> /\ <<>> \in Seq(Operations)
      BY <1>2, <2>2, <2>3, <2>4
    <3> QED
      BY <3>1, TheScript DEF Follows, NoDown
  <2>5. ASSUME left = Tail(rest[p])
        PROVE  Follows(p)'
    BY <1>2, <2>1, <2>2, <2>3, <2>5, CallOver
  <2>6. \A q \in Processes \ {p} : Follows(q)'
    BY <1>2, <2>2, <2>3, StillFollows
  <2> QED
    BY <1>1, <1>2, <2>2, <2>3, <2>4, <2>5, <2>6 DEF JobsInv
<1> QED
  BY <1>3, <1>4, <1>5, <1>6, <1>7, <1>8 DEF Next, Process

-----------------------------------------------------------------------------
(* What has come about, as long as no two processes have met and something *)
(* can be mapped: later accesses may fail, but nothing goes down then.     *)

Persistent0 == hw["PERSISTENT0"]

(* What the program of s_alarm has done, from what is left of it.          *)
AlarmLeft(p) ==
    \/ todo[p] \in {AlarmProgram, Tail(AlarmProgram)}
    \/ todo[p] = Tail(Tail(AlarmProgram)) /\ Persistent0 \cap {16, 17} = {}
    \/ todo[p] = Down /\ Persistent0 \cap {2, 16, 17} = {2}

(* The same of clr_autostrt.                                               *)
ClearLeft(p) ==
    \/ todo[p] \in {Program(1), Tail(Program(1))}
    \/ todo[p] = <<>> /\ Persistent0 = {}

Ready == loaded /\ entry /\ msg # NoBuffer
Alarming(p) == InCall(p) /\ cmd[p] = s_alarm

(* Between its two writes pwr_down leaves HW_RTC_PERSISTENT0 cleared, if   *)
(* the second one can go down at all; only s_alarm could set a bit, but it *)
(* goes down itself.                                                       *)
Going(p) ==
    /\ Alarming(p) => AlarmLeft(p)
    /\ InCall(p) /\ cmd[p] # s_alarm => ClearsOnly(todo[p])
    /\ InCall(p) /\ rest[p] = ClearCall => ClearLeft(p)
    /\ rest[p] = DownCall /\ (at[p] # "user" \/ Ready)
          => Persistent0 = {} \/ \E q \in Processes : Alarming(q)

DownInv ==
    /\ JobsInv
    /\ met = 0 /\ mapped < MAPPINGS => \A p \in Processes : Going(p)

(* Nobody is in the module at the beginning.                               *)
LEMMA InitEstablishesDownInv == Init => DownInv
<1> SUFFICES ASSUME Init PROVE DownInv
  OBVIOUS
<1>1. JobsInv
  BY InitEstablishesJobsInv
<1>2. \A p \in Processes : rest[p] = <<>> /\ at[p] = "user"
  BY DEF Init
<1> QED
  BY <1>1, <1>2, TheScript DEF DownInv, Going, Alarming, InCall

(* Steps of nobody in the module: what is left stays, and a call of        *)
(* pwr_down that could not go down still cannot.                           *)
LEMMA StillGoing ==
    ASSUME NEW p \in Processes, Going(p), rest'[p] = rest[p], todo'[p] = todo[p],
           InCall(p)' <=> InCall(p), at'[p] = "user" <=> at[p] = "user",
           InCall(p) => cmd'[p] = cmd[p],
           hw'["PERSISTENT0"] = hw["PERSISTENT0"],
           \A q \in Processes : Alarming(q) => Alarming(q)',
           rest[p] = DownCall /\ Ready' => Ready
    PROVE  Going(p)'
<1>1. InCall(p)' <=> InCall(p)
  OBVIOUS
<1>2. Alarming(p)' <=> Alarming(p)
  BY <1>1 DEF Alarming
<1>3. Persistent0' = Persistent0
  BY DEF Persistent0
<1>4. (AlarmLeft(p) => AlarmLeft(p)') /\ (ClearLeft(p) => ClearLeft(p)')
  BY <1>3 DEF AlarmLeft, ClearLeft
<1>5. rest[p] = DownCall /\ (at'[p] # "user" \/ Ready')
         => Persistent0' = {} \/ \E q \in Processes : Alarming(q)'
  BY <1>3 DEF Going
<1> QED
  BY <1>1, <1>2, <1>4, <1>5 DEF Going

(* s_alarm: the first access is only tried, the second clears, the third   *)
(* enables the alarm; the fourth goes down.                                *)
LEMMA AlarmGoesOn ==
    ASSUME LoadInv, NEW p \in Processes, AlarmLeft(p), MapAndAccess(p)
    PROVE  AlarmLeft(p)'
<1> DEFINE a == Access("trial", "PERSISTENT0", "CLR", {16, 17})
           b == Access("write", "PERSISTENT0", "CLR", {16, 17})
           c == Access("write", "PERSISTENT0", "SET", {2})
           d == Access("write", "RESET", "", {0})
<1>1. AlarmProgram = <<a, b, c, d>> /\ Down = <<d>>
  BY AlarmSteps
<1>2. /\ a.dir = "trial" /\ b.dir = "write" /\ c.dir = "write"
      /\ b.reg = <<"PERSISTENT0", "CLR">> /\ c.reg = <<"PERSISTENT0", "SET">>
      /\ b.bits = {16, 17} /\ c.bits = {2}
  BY DEF Access
<1> HIDE DEF a, b, c, d
<1>3. /\ Head(AlarmProgram) = a
      /\ Tail(AlarmProgram) = <<b, c, d>> /\ Head(<<b, c, d>>) = b
      /\ Tail(<<b, c, d>>) = <<c, d>> /\ Head(<<c, d>>) = c /\ Tail(<<c, d>>) = <<d>>
      /\ Head(Down) = d
  BY <1>1
<1>4. /\ hw \in [Bases -> SUBSET Bits] /\ "PERSISTENT0" \in Bases
      /\ todo = [q \in Processes |-> todo[q]]
  BY DEF LoadInv, PmInv, ProcessShape, Bases
<1>5. /\ Head(todo[p]) # Head(Down)
      /\ todo'[p] = After(p, hw[Head(todo[p]).reg[1]])
      /\ hw' = IF Head(todo[p]).dir = "write" THEN Written(Head(todo[p])) ELSE hw
  BY <1>4 DEF MapAndAccess
<1>6. CASE todo[p] = AlarmProgram
  <2>1. todo'[p] = Tail(AlarmProgram)
    BY <1>2, <1>3, <1>5, <1>6 DEF After
  <2> QED
    BY <2>1 DEF AlarmLeft
<1>7. CASE todo[p] = Tail(AlarmProgram)
  <2>1. todo'[p] = Tail(Tail(AlarmProgram)) /\ hw' = Written(b)
    BY <1>2, <1>3, <1>5, <1>7 DEF After
  <2>2. hw'["PERSISTENT0"] = hw["PERSISTENT0"] \ {16, 17}
    BY <1>2, <1>4, <2>1 DEF Written
  <2> QED
    BY <2>1, <2>2 DEF AlarmLeft, Persistent0
<1>8. CASE todo[p] = Tail(Tail(AlarmProgram)) /\ Persistent0 \cap {16, 17} = {}
  <2>1. todo'[p] = Down /\ hw' = Written(c)
    BY <1>1, <1>2, <1>3, <1>5, <1>8 DEF After
  <2>2. hw'["PERSISTENT0"] = hw["PERSISTENT0"] \cup {2}
    BY <1>2, <1>4, <2>1 DEF Written
  <2>3. hw'["PERSISTENT0"] \cap {2, 16, 17} = {2}
    BY <1>8, <2>2 DEF Persistent0
  <2> QED
    BY <2>1, <2>3 DEF AlarmLeft, Persistent0
<1> QED
  BY <1>5, <1>6, <1>7, <1>8 DEF AlarmLeft

(* clr_autostrt: the first access is only tried, the second clears all.    *)
LEMMA ClearSteps ==
    /\ Program(1) = <<Access("trial", "PERSISTENT0", "CLR", 0 .. 31),
                      Access("write", "PERSISTENT0", "CLR", 0 .. 31)>>
<1> DEFINE a == Access("trial", "PERSISTENT0", "CLR", 0 .. 31)
           b == Access("write", "PERSISTENT0", "CLR", 0 .. 31)
<1>1. Write("PERSISTENT0", "CLR", 0 .. 31) = <<a>> \o <<b>>
  BY DEF Write
<1> HIDE DEF a, b
<1>2. <<a>> \o <<b>> = <<a, b>>
  <2>1. \A x, y \in {a, b} : <<x>> \o <<y>> = <<x, y>>
    BY Concatenated
  <2> QED
    BY <2>1
<1> DEFINE clear == Write("PERSISTENT0", "CLR", 0 .. 31)
<1> HIDE DEF clear
<1>3. Program(1) = clear
  BY DEF Program, Programs, clear
<1> QED
  BY <1>1, <1>2, <1>3 DEF a, b, clear

(* Its accesses, as far as they do not fail.                               *)
LEMMA ClearGoesOn ==
    ASSUME LoadInv, NEW p \in Processes, ClearLeft(p), todo[p] # <<>>, MapAndAccess(p)
    PROVE  ClearLeft(p)'
<1> DEFINE a == Access("trial", "PERSISTENT0", "CLR", 0 .. 31)
           b == Access("write", "PERSISTENT0", "CLR", 0 .. 31)
<1>1. Program(1) = <<a, b>>
  BY ClearSteps
<1>2. /\ a.dir = "trial" /\ b.dir = "write"
      /\ b.reg = <<"PERSISTENT0", "CLR">> /\ b.bits = 0 .. 31
  BY DEF Access
<1> HIDE DEF a, b
<1>3. /\ Head(Program(1)) = a /\ Tail(Program(1)) = <<b>>
      /\ Head(<<b>>) = b /\ Tail(<<b>>) = <<>>
  <2>1. Head(<<a, b>>) = a /\ Tail(<<a, b>>) = <<b>>
    OBVIOUS
  <2>2. Head(<<b>>) = b /\ Tail(<<b>>) = <<>>
    OBVIOUS
  <2> QED
    BY <1>1, <2>1, <2>2, Zenon
<1>4. /\ hw \in [Bases -> SUBSET Bits] /\ "PERSISTENT0" \in Bases
      /\ todo = [q \in Processes |-> todo[q]]
  BY DEF LoadInv, PmInv, ProcessShape, Bases
<1>5. /\ todo'[p] = After(p, hw[Head(todo[p]).reg[1]])
      /\ hw' = IF Head(todo[p]).dir = "write" THEN Written(Head(todo[p])) ELSE hw
  BY <1>4 DEF MapAndAccess
<1>6. CASE todo[p] = Program(1)
  <2>1. todo'[p] = Tail(Program(1))
    BY <1>2, <1>3, <1>5, <1>6 DEF After
  <2> QED
    BY <2>1 DEF ClearLeft
<1>7. CASE todo[p] = Tail(Program(1))
  <2>1. todo'[p] = <<>> /\ hw' = Written(b)
    BY <1>2, <1>3, <1>5, <1>7 DEF After
  <2>2. hw'["PERSISTENT0"] = hw["PERSISTENT0"] \ (0 .. 31)
    BY <1>2, <1>4, <2>1 DEF Written
  <2>3. hw'["PERSISTENT0"] = {}
    BY <1>4, <2>2 DEF Bits
  <2> QED
    BY <2>1, <2>3 DEF ClearLeft, Persistent0
<1> QED
  BY <1>6, <1>7 DEF ClearLeft

(* Any other access leaves HW_RTC_PERSISTENT0 clear.                       *)
LEMMA ClearStaysClear ==
    ASSUME LoadInv, NEW p \in Processes, ClearsOnly(todo[p]), todo[p] # <<>>, MapAndAccess(p)
    PROVE  ClearsOnly(todo'[p]) /\ (Persistent0 = {} => Persistent0' = {})
<1> DEFINE a == Head(todo[p])
<1>1. /\ hw \in [Bases -> SUBSET Bits] /\ "PERSISTENT0" \in Bases
      /\ todo = [q \in Processes |-> todo[q]] /\ todo[p] \in Seq(Accesses)
  BY DEF LoadInv, PmInv, ProcessShape, Bases
<1>2. /\ todo'[p] = After(p, hw[a.reg[1]])
      /\ hw' = IF a.dir = "write" THEN Written(a) ELSE hw
  BY <1>1 DEF MapAndAccess
<1>3. ClearsOnly(todo'[p])
  <2>1. todo'[p] = <<>> \/ todo'[p] = Tail(todo[p])
    BY <1>2 DEF After
  <2>2. ClearsOnly(<<>>) /\ ClearsOnly(Tail(todo[p]))
    BY <1>1 DEF ClearsOnly
  <2> QED
    BY <2>1, <2>2
<1>4. Clears(a) /\ a \in Accesses
  BY <1>1 DEF ClearsOnly
<1> HIDE DEF a
<1>5. ASSUME Persistent0 = {}
      PROVE  Persistent0' = {}
  <2>1. CASE a.dir # "write" \/ a.reg[1] # "PERSISTENT0"
    <3>1. hw'["PERSISTENT0"] = hw["PERSISTENT0"]
      BY <1>1, <1>2, <2>1 DEF Written
    <3> QED
      BY <1>5, <3>1 DEF Persistent0
  <2>2. CASE a.dir = "write" /\ a.reg[1] = "PERSISTENT0"
    <3>1. a.reg[2] = "CLR"
      BY <1>4, <2>2 DEF Clears
    <3>2. hw'["PERSISTENT0"] = hw["PERSISTENT0"] \ a.bits
      BY <1>1, <1>2, <2>2, <3>1 DEF Written
    <3> QED
      BY <1>5, <3>2 DEF Persistent0
  <2> QED
    BY <2>1, <2>2
<1> QED
  BY <1>3, <1>5

(* s_alarm is the fourth of the commands.                                  *)
LEMMA FourthProgram == Program(s_alarm) = AlarmProgram
<1> DEFINE n1 == Write("PERSISTENT0", "CLR", 0 .. 31)
           n3 == Write("ALARM", "", {0, 4, 8, 12})
           n8 == Comparators({8})
           n9 == Comparators({8, 10})
           n10 == NooliLevels \o <<VbusTest>> \o <<ChargerLoad>>
           n11 == Write("CHARGE", "", 0 .. 5)
           n12 == Write("CHARGE", "", {16})
<1>1. Programs = <<n1, Down, n3, AlarmProgram, <<>>, Enable4P2, FullCurrent, n8, n9, n10,
                   n11, n12>>
  BY DEF Programs
<1> HIDE DEF n1, n3, n8, n9, n10, n11, n12
<1>2. Programs[4] = AlarmProgram
  BY <1>1
<1> QED
  BY <1>2 DEF Program, s_alarm

(* As long as s_alarm is under way it has still to go down.                *)
LEMMA AlarmNotOver ==
    /\ AlarmProgram # <<>> /\ Tail(AlarmProgram) # <<>> /\ Tail(Tail(AlarmProgram)) # <<>>
    /\ Down # <<>>
    /\ Head(AlarmProgram) # Head(Down) /\ Head(Tail(AlarmProgram)) # Head(Down)
    /\ Head(Tail(Tail(AlarmProgram))) # Head(Down)
<1> DEFINE a == Access("trial", "PERSISTENT0", "CLR", {16, 17})
           b == Access("write", "PERSISTENT0", "CLR", {16, 17})
           c == Access("write", "PERSISTENT0", "SET", {2})
           d == Access("write", "RESET", "", {0})
<1>1. AlarmProgram = <<a, b, c, d>> /\ Down = <<d>>
  BY AlarmSteps
<1>2. /\ a.reg[1] = "PERSISTENT0" /\ b.reg[1] = "PERSISTENT0" /\ c.reg[1] = "PERSISTENT0"
      /\ d.reg[1] = "RESET"
  BY DEF Access
<1> HIDE DEF a, b, c, d
<1>3. a # d /\ b # d /\ c # d
  BY <1>2
<1>4. /\ Head(AlarmProgram) = a
      /\ Tail(AlarmProgram) = <<b, c, d>> /\ Head(<<b, c, d>>) = b
      /\ Tail(<<b, c, d>>) = <<c, d>> /\ Head(<<c, d>>) = c
      /\ Head(Down) = d
  BY <1>1
<1>5. /\ AlarmProgram # <<>> /\ <<b, c, d>> # <<>> /\ <<c, d>> # <<>> /\ Down # <<>>
  BY <1>1
<1> QED
  BY <1>3, <1>4, <1>5

(* As long as clr_autostrt has not cleared it has an access to make.       *)
LEMMA ClearNotOver == Program(1) # <<>> /\ Tail(Program(1)) # <<>>
<1> DEFINE a == Access("trial", "PERSISTENT0", "CLR", 0 .. 31)
           b == Access("write", "PERSISTENT0", "CLR", 0 .. 31)
<1>1. Program(1) = <<a, b>>
  BY ClearSteps
<1> HIDE DEF a, b
<1>2. Tail(<<a, b>>) = <<b>> /\ <<a, b>> # <<>> /\ <<b>> # <<>>
  OBVIOUS
<1> QED
  BY <1>1, <1>2, Zenon

(* A process in user space, when nothing of pwr_down is left or it cannot  *)
(* go down.                                                                *)
LEMMA OutsideGoes ==
    ASSUME NEW p \in Processes, at'[p] = "user", rest'[p] = DownCall => ~Ready'
    PROVE  Going(p)'
BY DEF Going, Alarming, InCall

(* While only p is in the module or about to enter it, a process that is   *)
(* not keeps what it had.                                                  *)
LEMMA OthersGo ==
    ASSUME NEW q \in Processes, Going(q), at[q] = "user", at'[q] = "user", rest'[q] = rest[q],
           rest[q] = DownCall /\ Ready' => Ready,
           Persistent0 = {} \/ (\E r \in Processes : Alarming(r))
              => Persistent0' = {} \/ \E r \in Processes : Alarming(r)'
    PROVE  Going(q)'
BY DEF Going, Alarming, InCall

(* A call that does not get into the module leaves the others and the      *)
(* registers alone; if it was the first of pwr_down, so does the second.   *)
LEMMA OutsideKeepsDownInv ==
    ASSUME DownInv, JobsInv', NEW p \in Processes,
           vensey_pm_init(p) \/ IsLoaded(p) \/ CallFails(p) \/ WriteToNothing(p) \/ Begin(p)
    PROVE  DownInv'
<1> USE DEF moduleVars, resources, procVars
<1>1. /\ at = [q \in Processes |-> at[q]] /\ rest = [q \in Processes |-> rest[q]]
      /\ cmd = [q \in Processes |-> cmd[q]] /\ met \in {0, 1}
      /\ \A q \in Processes : Follows(q)
      /\ loaded => entry
  BY DEF DownInv, JobsInv, CommandInv, LoadInv, PmInv, ProcessShape
<1>2. /\ at[p] = "user" /\ UNCHANGED <<at, todo, hw, mapped>>
      /\ \A q \in Processes \ {p} : rest'[q] = rest[q] /\ cmd'[q] = cmd[q]
      /\ met' = 0 => met = 0
  BY <1>1 DEF vensey_pm_init, IsLoaded, CallFails, Killed, WriteToNothing, Begin, Calls, Meets
<1> SUFFICES ASSUME met' = 0, mapped' < MAPPINGS
             PROVE  \A q \in Processes : Going(q)'
  BY DEF DownInv
<1>3. \A q \in Processes : Going(q)
  BY <1>2 DEF DownInv
<1>4. \A q \in Processes : InCall(q)' <=> InCall(q)
  BY <1>2 DEF InCall
<1>5. \A q \in Processes : InCall(q) => cmd'[q] = cmd[q]
  BY <1>2 DEF InCall
<1>6. \A q \in Processes : Alarming(q) => Alarming(q)'
  BY <1>4, <1>5 DEF Alarming
<1>7. ASSUME NEW q \in Processes, rest[q] = DownCall, Ready'
      PROVE  Ready
  <2>1. entry
    BY <1>1, <1>7 DEF Follows
  <2> QED
    BY <1>7, <2>1 DEF Ready, vensey_pm_init, IsLoaded, CallFails, WriteToNothing, Begin
<1>8. ASSUME NEW q \in Processes \ {p}
      PROVE  Going(q)'
  BY <1>2, <1>3, <1>4, <1>5, <1>6, <1>7, StillGoing
<1>9. ASSUME rest'[p] = DownCall
      PROVE  ~Ready'
  <2>1. CASE Begin(p)
    <3>1. PICK job \in Jobs[p] : rest'[p] = job
      BY <1>1, <2>1 DEF Begin
    <3>2. job = PwrDown \/ NoDown(job)
      BY <3>1, JobsAssumption DEF NoDown
    <3> QED
      BY <1>9, <3>1, <3>2, TheScript
  <2>2. CASE ~Begin(p)
    <3>1. rest[p] # <<>> /\ rest'[p] = Tail(rest[p])
      BY <1>1, <1>9, <2>2, TheScript
      DEF vensey_pm_init, IsLoaded, CallFails, Killed, WriteToNothing, Calls
    <3>2. rest[p] = ClearCall
      BY <1>1, <1>9, <3>1, TailFollows DEF Follows
    <3>3. Head(rest[p]).op = "write" /\ entry
      BY <1>1, <3>2, TheScript DEF Follows
    <3>4. CallFails(p) \/ WriteToNothing(p)
      BY <2>2, <3>3 DEF vensey_pm_init, IsLoaded, Calls
    <3> QED
      BY <3>3, <3>4 DEF CallFails, WriteToNothing, Ready
  <2> QED
    BY <2>1, <2>2
<1>10. Going(p)'
  BY <1>2, <1>9, OutsideGoes
<1> QED
  BY <1>8, <1>10

(* Whoever enters begins with what it is asked for, and alone.             *)
LEMMA EnteringKeepsDownInv ==
    ASSUME DownInv, JobsInv', NEW p \in Processes,
           vensey_pm_debug_provide_data(p) \/ vensey_pm_debug_write(p)
              \/ CopyHead(p) \/ CopyTail(p)
    PROVE  DownInv'
<1> USE DEF moduleVars, resources, procVars
<1>1. /\ at = [q \in Processes |-> at[q]] /\ todo = [q \in Processes |-> todo[q]]
      /\ cmd = [q \in Processes |-> cmd[q]] /\ met \in {0, 1}
      /\ \A q \in Processes : Follows(q)
      /\ loaded => entry
  BY DEF DownInv, JobsInv, CommandInv, LoadInv, PmInv, ProcessShape
<1>2. UNCHANGED <<rest, hw, mapped, loaded, entry>> /\ Meets(p) /\ at[p] \in {"user", "copy"}
  BY DEF vensey_pm_debug_provide_data, vensey_pm_debug_write, CopyHead, CopyTail, Calls,
         Execute, Enters, InModule
<1> SUFFICES ASSUME met' = 0, mapped' < MAPPINGS
             PROVE  \A q \in Processes : Going(q)'
  BY DEF DownInv
<1>3. /\ met = 0 /\ \A q \in Processes \ {p} : at[q] = "user"
      /\ \A q \in Processes \ {p} : at'[q] = "user"
  <2>1. met = 0 /\ \A q \in Processes \ {p} : at[q] = "user"
    BY <1>1, <1>2, EntersAlone
  <2> QED
    BY <1>1, <2>1 DEF vensey_pm_debug_provide_data, vensey_pm_debug_write, CopyHead, CopyTail,
                      Execute, Enters
<1>4. \A q \in Processes : Going(q) /\ Commanded(q)
  BY <1>2, <1>3 DEF DownInv, JobsInv, CommandInv
<1>5. \A q \in Processes : ~Alarming(q)
  BY <1>2, <1>3 DEF Alarming, InCall
<1>6. ASSUME Ready'
      PROVE  Ready
  <2>1. msg # NoBuffer
    <3>1. CASE CopyTail(p)
      <4>1. Head(rest[p]) \in Operations
        BY <1>1, <3>1 DEF CopyTail, Follows, InModule
      <4>2. msg = Head(rest[p]).text
        BY <1>4, <3>1 DEF CopyTail, Commanded, InModule
      <4> QED
        BY <4>1, <4>2 DEF Operations
    <3>2. CASE vensey_pm_debug_provide_data(p)
      BY <1>6, <3>2 DEF vensey_pm_debug_provide_data, Ready
    <3> QED
      BY <3>1, <3>2 DEF vensey_pm_debug_write, CopyHead
  <2> QED
    BY <1>2, <1>6, <2>1 DEF Ready
<1>7. Persistent0' = Persistent0
  BY <1>2 DEF Persistent0
<1>8. ASSUME NEW q \in Processes \ {p}
      PROVE  Going(q)'
  BY <1>2, <1>3, <1>4, <1>5, <1>6, <1>7, OthersGo
<1>9. ASSUME rest'[p] = DownCall
      PROVE  Persistent0' = {}
  <2>1. Head(rest[p]).op = "write"
    BY <1>2, <1>9, TheScript
  <2>2. at[p] # "user" \/ Ready
    BY <2>1 DEF vensey_pm_debug_provide_data, vensey_pm_debug_write, CopyHead, CopyTail, Calls,
                Ready, InModule
  <2> QED
    BY <1>2, <1>4, <1>5, <1>7, <1>9, <2>2 DEF Going
<1>10. CASE CopyHead(p)
  <2>1. at'[p] = "copy"
    BY <1>1, <1>10 DEF CopyHead, Enters
  <2>2. Going(p)'
    BY <1>9, <2>1 DEF Going, Alarming, InCall
  <2> QED
    BY <1>8, <2>2
<1>11. CASE vensey_pm_debug_provide_data(p)
  <2>1. cmd'[p] = 0 /\ todo'[p] = ReadOut
    BY <1>1, <1>11 DEF vensey_pm_debug_provide_data
  <2>2. rest[p] # ClearCall
    BY <1>11, TheScript DEF vensey_pm_debug_provide_data, Calls
  <2>3. Going(p)'
    BY <1>2, <1>9, <2>1, <2>2, ReadOutGuarded DEF Going, Alarming, s_alarm
  <2> QED
    BY <1>8, <2>3
<1>12. CASE vensey_pm_debug_write(p) \/ CopyTail(p)
  <2> DEFINE c == Selected(Head(rest[p]).text)
  <2>1. Execute(p, c)
    BY <1>4, <1>12 DEF vensey_pm_debug_write, CopyTail, Commanded, InModule
  <2>2. cmd'[p] = c /\ todo'[p] = Program(c)
    BY <1>1, <2>1 DEF Execute
  <2>3. rest[p] = ClearCall => c = 1
    BY TheScript, OwnName
  <2>4. c \in 0 .. 12
    BY SelectedRange
  <2> HIDE DEF c
  <2>5. c # s_alarm => ClearsOnly(todo'[p])
    BY <2>2, <2>4, EveryProgramGuarded
  <2>6. c = s_alarm => AlarmLeft(p)'
    <3>1. Program(s_alarm) = AlarmProgram
      BY FourthProgram
    <3> QED
      BY <2>2, <3>1 DEF AlarmLeft
  <2>7. rest[p] = ClearCall => ClearLeft(p)'
    BY <2>2, <2>3 DEF ClearLeft
  <2>8. Going(p)'
    BY <1>2, <1>9, <2>2, <2>5, <2>6, <2>7 DEF Going, Alarming
  <2> QED
    BY <1>8, <2>8
<1> QED
  BY <1>10, <1>11, <1>12

(* Accesses and the return from a call, by the one process in the module.  *)
LEMMA CallKeepsDownInv ==
    ASSUME DownInv, JobsInv', NEW p \in Processes,
           Request(p) \/ MapFails(p) \/ MapAndAccess(p) \/ Return(p)
    PROVE  DownInv'
<1> USE DEF moduleVars, resources, procVars
<1>1. /\ at = [q \in Processes |-> at[q]] /\ todo = [q \in Processes |-> todo[q]]
      /\ rest = [q \in Processes |-> rest[q]]
      /\ mapped \in Nat /\ MAPPINGS \in Nat
      /\ \A q \in Processes : Follows(q)
      /\ LoadInv
  BY PmAssumption DEF DownInv, JobsInv, CommandInv, LoadInv, PmInv, ProcessShape
<1>2. /\ UNCHANGED <<loaded, entry, msg, cmd, met>> /\ InCall(p)
      /\ \A q \in Processes \ {p} : rest'[q] = rest[q] /\ at'[q] = at[q]
      /\ mapped' = mapped \/ mapped' = mapped + 1
  BY <1>1 DEF Request, MapFails, MapAndAccess, Return, InModule, InCall
<1> SUFFICES ASSUME met' = 0, mapped' < MAPPINGS
             PROVE  \A q \in Processes : Going(q)'
  BY DEF DownInv
<1>3. met = 0 /\ mapped < MAPPINGS
  BY <1>1, <1>2
<1>4. /\ \A q \in Processes : Going(q)
      /\ \A q \in Processes \ {p} : at[q] = "user" /\ at'[q] = "user"
  BY <1>1, <1>2, <1>3, IsAlone DEF DownInv, InCall
<1>5. Ready' <=> Ready
  BY <1>2 DEF Ready
<1>6. CASE Request(p)
  <2>1. ~\E r \in busy : Overlap(r, Region(p))
    <3> SUFFICES ASSUME NEW r \in busy PROVE FALSE
      OBVIOUS
    <3>1. PICK q \in Processes : at[q] = "map"
      BY <1>1, <1>6 DEF LoadInv, PmInv, RegionsReturned, Request, InModule
    <3>2. at[p] = "request"
      BY <1>6 DEF Request, InModule
    <3> QED
      BY <1>4, <3>1, <3>2
  <2>2. at' = [at EXCEPT ![p] = "map"] /\ UNCHANGED <<todo, rest, hw>> /\ at[p] = "request"
    BY <1>6, <2>1 DEF Request, InModule
  <2>3. \A q \in Processes : InCall(q)' <=> InCall(q)
    BY <1>1, <2>2 DEF InCall
  <2>4. \A q \in Processes : Alarming(q) => Alarming(q)'
    BY <1>2, <2>3 DEF Alarming
  <2>5. \A q \in Processes : at'[q] = "user" <=> at[q] = "user"
    BY <1>1, <2>2
  <2> QED
    BY <1>2, <1>4, <1>5, <2>2, <2>3, <2>4, <2>5, StillGoing
<1>7. CASE MapFails(p)
  BY <1>1, <1>3, <1>7 DEF MapFails
<1>8. CASE MapAndAccess(p)
  <2>1. /\ at' = [at EXCEPT ![p] = "request"] /\ UNCHANGED <<rest, cmd>> /\ at[p] = "map"
        /\ todo[p] # <<>>
    BY <1>1, <1>8 DEF MapAndAccess, InModule, LoadInv, PmInv, ProcessShape
  <2>2. InCall(p) /\ InCall(p)' /\ (Alarming(p) => Alarming(p)')
    BY <1>1, <2>1 DEF InCall, Alarming
  <2>3. Persistent0 = {} \/ (\E r \in Processes : Alarming(r))
           => Persistent0' = {} \/ \E r \in Processes : Alarming(r)'
    <3>1. ASSUME NEW r \in Processes, Alarming(r)
          PROVE  Alarming(r)'
      <4>1. r = p
        BY <1>4, <3>1 DEF Alarming, InCall
      <4> QED
        BY <2>2, <3>1, <4>1
    <3>2. ASSUME Persistent0 = {}, ~Alarming(p)
          PROVE  Persistent0' = {}
      <4>1. ClearsOnly(todo[p])
        BY <1>4, <2>2, <3>2 DEF Going, Alarming
      <4> QED
        BY <1>1, <1>8, <2>1, <3>2, <4>1, ClearStaysClear
    <3> QED
      BY <2>2, <3>1, <3>2
  <2>4. ASSUME NEW q \in Processes \ {p}
        PROVE  Going(q)'
    BY <1>2, <1>4, <1>5, <2>3, OthersGo
  <2>5. Alarming(p)' => AlarmLeft(p)'
    <3>1. Alarming(p)' => Alarming(p)
      BY <2>1, <2>2 DEF Alarming
    <3> QED
      BY <1>1, <1>4, <1>8, <3>1, AlarmGoesOn DEF Going
  <2>6. cmd'[p] # s_alarm => ClearsOnly(todo'[p])
    BY <1>1, <1>4, <1>8, <2>1, <2>2, ClearStaysClear DEF Going
  <2>7. rest'[p] = ClearCall => ClearLeft(p)'
    BY <1>1, <1>4, <1>8, <2>1, <2>2, ClearGoesOn DEF Going
  <2>8. rest'[p] = DownCall => Persistent0' = {} \/ \E r \in Processes : Alarming(r)'
    BY <1>4, <2>1, <2>3 DEF Going
  <2>9. Going(p)'
    BY <2>5, <2>6, <2>7, <2>8 DEF Going
  <2> QED
    BY <2>4, <2>9
<1>9. CASE Return(p)
  <2>1. /\ at' = [at EXCEPT ![p] = "user"] /\ UNCHANGED <<todo, hw>> /\ todo[p] = <<>>
        /\ rest' = [rest EXCEPT ![p] = Tail(rest[p])] /\ at[p] # "user"
    BY <1>9 DEF Return, InModule
  <2>2. Persistent0' = Persistent0
    BY <2>1 DEF Persistent0
  <2>3. ~Alarming(p)
    <3>1. ~AlarmLeft(p)
      BY <2>1, AlarmNotOver DEF AlarmLeft
    <3> QED
      BY <1>4, <3>1 DEF Going
  <2>4. \A r \in Processes : ~Alarming(r)
    BY <1>4, <2>3 DEF Alarming, InCall
  <2>5. ASSUME NEW q \in Processes \ {p}
        PROVE  Going(q)'
    BY <1>2, <1>4, <1>5, <2>2, <2>4, OthersGo
  <2>6. ASSUME rest'[p] = DownCall
        PROVE  Persistent0' = {}
    <3>1. rest'[p] = Tail(rest[p]) /\ rest[p] # <<>>
      BY <1>1, <2>1 DEF Follows
    <3>2. rest[p] = ClearCall
      BY <1>1, <2>6, <3>1, TailFollows DEF Follows
    <3>3. ClearLeft(p)
      BY <1>2, <1>4, <3>2 DEF Going
    <3>4. Program(1) # <<>> /\ Tail(Program(1)) # <<>>
      BY ClearNotOver
    <3> QED
      BY <2>1, <2>2, <3>3, <3>4 DEF ClearLeft
  <2>7. at'[p] = "user"
    BY <1>1, <2>1
  <2>8. Going(p)'
    BY <2>6, <2>7 DEF Going, Alarming, InCall
  <2> QED
    BY <2>5, <2>8
<1> QED
  BY <1>6, <1>7, <1>8, <1>9

(* Every step keeps pwr_down and s_alarm going.                            *)
LEMMA StepKeepsDownInv ==
    ASSUME DownInv, [Next]_vars
    PROVE  DownInv'
<1> USE DEF moduleVars, resources, procVars
<1>1. JobsInv'
  BY StepKeepsJobsInv DEF DownInv
<1>2. CASE vensey_pm_exit \/ PowerUp \/ VbusBecomesValid \/ UNCHANGED vars
  <2>1. UNCHANGED <<at, rest, todo, cmd, mapped, met, msg, entry>> /\ (loaded' => loaded)
    BY <1>2 DEF vensey_pm_exit, PowerUp, VbusBecomesValid, vars
  <2>2. hw'["PERSISTENT0"] = hw["PERSISTENT0"]
    <3>1. hw \in [Bases -> SUBSET Bits] /\ "PERSISTENT0" \in Bases /\ "PERSISTENT0" # "CTRL"
      BY DEF DownInv, JobsInv, CommandInv, LoadInv, Bases
    <3> QED
      BY <1>2, <3>1 DEF vensey_pm_exit, PowerUp, VbusBecomesValid, vars
  <2>3. Ready' => Ready
    BY <2>1 DEF Ready
  <2>4. \A q \in Processes : (InCall(q)' <=> InCall(q)) /\ (Alarming(q) => Alarming(q)')
    BY <2>1 DEF InCall, Alarming
  <2>5. ASSUME NEW q \in Processes, Going(q)
        PROVE  Going(q)'
    BY <2>1, <2>2, <2>3, <2>4, <2>5, StillGoing
  <2> QED
    BY <1>1, <2>1, <2>5 DEF DownInv
<1>3. ASSUME NEW p \in Processes, PowersDown(p)
      PROVE  DownInv'
  <2>1. \A q \in Processes : at'[q] = "user" /\ rest'[q] = <<>>
    BY <1>3 DEF PowersDown
  <2>2. \A q \in Processes : Going(q)'
    BY <2>1, TheScript, OutsideGoes
  <2> QED
    BY <1>1, <2>2 DEF DownInv
<1>4. ASSUME NEW p \in Processes, Oops(p)
      PROVE  DownInv'
  <2>1. /\ ~loaded' /\ at[p] # "user" /\ at' = [at EXCEPT ![p] = "user"]
        /\ met' = met /\ LoadInv /\ at = [q \in Processes |-> at[q]]
    BY <1>4 DEF Oops, DownInv, JobsInv, CommandInv, LoadInv, PmInv, ProcessShape
  <2>2. ASSUME met' = 0, NEW q \in Processes
        PROVE  at'[q] = "user"
    BY <2>1, <2>2, IsAlone
  <2>3. ASSUME met' = 0, NEW q \in Processes
        PROVE  Going(q)'
    BY <2>1, <2>2, <2>3, OutsideGoes DEF Ready
  <2> QED
    BY <1>1, <2>3 DEF DownInv
<1> QED
  BY <1>1, <1>2, <1>3, <1>4, OutsideKeepsDownInv, EnteringKeepsDownInv, CallKeepsDownInv
  DEF Next, Process

(* The chip goes down only as it was asked to (vensey_pm.c:274-329 and the *)
(* script pwr_down), as long as no two processes have met since power up:  *)
(* whichever processes, mappings and failures there are, s_alarm leaves    *)
(* the alarm enabled and nothing else that switches on, and the script     *)
(* leaves nothing at all.                                                  *)
THEOREM GoesDownAsAsked == Spec => DownAsAsked
<1> DEFINE Goes(p) ==
             met = 0 /\ power /\ ~power' /\ InCall(p) =>
                /\ cmd[p] = s_alarm => hw'["PERSISTENT0"] \cap {2, 16, 17} = {2}
                /\ Head(rest[p]).text = Names[s_down_f] => hw'["PERSISTENT0"] = {}
<1>1. ASSUME DownInv, [Next]_vars
      PROVE  [\A p \in Processes : Goes(p)]_vars
  <2> SUFFICES ASSUME NEW p \in Processes, met = 0, power, ~power', InCall(p)
               PROVE  /\ cmd[p] = s_alarm => hw'["PERSISTENT0"] \cap {2, 16, 17} = {2}
                      /\ Head(rest[p]).text = Names[s_down_f] => hw'["PERSISTENT0"] = {}
    OBVIOUS
  <2>1. PICK q \in Processes : PowersDown(q)
    BY <1>1 DEF Next, Process, Begin, vensey_pm_init, IsLoaded, CallFails,
                vensey_pm_debug_provide_data, vensey_pm_debug_write, CopyHead, CopyTail,
                WriteToNothing, Request, MapFails, MapAndAccess, Return, Oops, vensey_pm_exit,
                VbusBecomesValid, PowerUp, vars
  <2>2. q = p
    BY <1>1, <2>1, IsAlone DEF PowersDown, InModule, InCall, DownInv, JobsInv, CommandInv
  <2>3. /\ mapped < MAPPINGS /\ Head(todo[p]) = Head(Down)
        /\ hw'["PERSISTENT0"] = Persistent0
    BY <2>1, <2>2 DEF PowersDown, Persistent0, Bases
  <2>4. Going(p) /\ Follows(p) /\ Commanded(p)
    BY <1>1, <2>3 DEF DownInv, JobsInv, CommandInv
  <2>5. ASSUME cmd[p] = s_alarm
        PROVE  Persistent0 \cap {2, 16, 17} = {2}
    <3>1. AlarmLeft(p)
      BY <2>4, <2>5 DEF Going, Alarming
    <3> QED
      BY <2>3, <3>1, AlarmNotOver DEF AlarmLeft
  <2>6. ASSUME Head(rest[p]).text = Names[s_down_f]
        PROVE  Persistent0 = {}
    <3>1. rest[p] # <<>> /\ ~NoDown(rest[p]) /\ Head(rest[p]).op \in {"read", "write"}
      BY <2>4, <2>6 DEF Follows, NoDown, InCall
    <3>2. Selected(Names[1]) = 1 /\ Selected(Names[2]) = 2
      BY OwnName
    <3>3. rest[p] = DownCall
      BY <2>4, <2>6, <3>1, <3>2, TheScript DEF Follows, s_down_f
    <3>4. cmd[p] = 2
      BY <2>4, <3>2, <3>3, TheScript DEF Commanded
    <3>5. \A r \in Processes : ~Alarming(r)
      BY <1>1, <3>4, IsAlone DEF Alarming, InCall, s_alarm, DownInv, JobsInv, CommandInv
    <3> QED
      BY <2>4, <3>3, <3>5 DEF Going, InCall
  <2> QED
    BY <2>3, <2>5, <2>6
<1> QED
  BY <1>1, InitEstablishesDownInv, StepKeepsDownInv, PTL DEF Spec, DownAsAsked
=============================================================================
