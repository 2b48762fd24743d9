# Verification of the vb_iot1 power manager and its surroundings

TLA+ models of the software in this repository, the TLC runs that check them on
small instances and the theorems proved about them with TLAPS. `PROJECT.json`
lists the components, runs, mutants, the source lines behind every definition,
the findings, the hazards and the theorems.

## 1. The system

The board has two processors. An **ATmega** (`src/02_Atmega_Source`) stays
powered and manages power; an **imx233** under Linux
(`src/01_IMX_Buildroot`) does the work, with a GSM modem for the connection.
The imx233 is the master of an I2C bus (i2c-gpio), the ATmega is a slave at
address 5, written in software on two pins.

| part | state it keeps | operations | talks to |
|---|---|---|---|
| main program (`main_application.c`) | where it is in boot | initialise, wait 300 ms, pulse the imx233's power key, sleep for ever | pins; interrupts |
| wake-up timer (`power_control.c` 93-134) | `sleep_counter`, `sleep_cycle_counter`, `sleep_counter_factor`, PD2 | timer 1 interrupt; increment and decrement of the factor | PD2 to the imx233; commands |
| I2C slave (`gpio_twi.c`) | shift registers, `portbhistory`, direction of SDA, timer 0 | pin change interrupt: start, address, read, write | SCL, SDA; registers; command handler |
| registers (`communication_handler.c` 170-298) | `send_buff[77]`, `reg_buf_position` | store, move, advance and wrap | the slave reads them |
| command handler (`communication_handler.c` 47-164, `power_control.c`) | `modem_power_state`, PD4, PD7, PB0 | 24 command codes; modem on, off, reset with delays of up to 3.2 s inside the interrupt routine; `POWER_OFF`, which sleeps inside it | modem by PWRKEY and STATUS |
| scripts (`vensey_fs/sbin`) | `/root/modem_on.pid`, pppd | modem_on, modem_off, pwr_down, check_internet | the bus by i2cset, i2cget; `/proc/pm_experimental` |
| supervision of the server (`vensey_fs`) | watchdog daemon, server process | init scripts, test, repair | processes |
| kernel module (`vensey_pm.c`) | message buffer, requested and mapped regions | load, unload, read and write of the proc file | power registers of the imx233 |
| boot command (patch 0001 of U-Boot) | environment | look at one partition after the other, import, boot | SD card |
| flashing (`vflash.sh`, `bcb.c`) | layout of the card | erase, partition, copy u-boot, root file system and boot control block | SD card |
| temperature tool (`internal_temperature`) | window of /dev/mem; bits of the converter | read and write a register; one measurement | ADC, shared by all programs |
| configuration programs (`buildroot/support/kconfig`) | symbols with user values, `.config`, `.config.old`, defconfig, `auto.conf` | parse, read, ask, set, write; menuconfig and the modes of conf | the files of the build directory |

The image is built by Buildroot from a configuration that kconfig keeps; the
rest of Buildroot, the JDK packaging, the hello-world programs and the binary
nooli server are vendored, generated or without behaviour of their own.

### What is hard

* **Interrupts.** The slave follows the bus inside one interrupt routine with
  busy waits; whatever it does there (modem keys, sleeping) stops everything
  else, while SDA is still held low. It recognises a start by comparing with
  the line at the last entry, which may be long ago.
* **Time-outs.** Its waits give up after a millisecond, or do not wait at all
  before timer 0 has overflowed once; one wait never gives up.
* **Loss of power** of the master in a transfer, reset of the ATmega in a
  modem sequence, a modem that dies, a flashing that is cut off.
* **Late feedback.** The modem's key toggles; STATUS follows it seconds later.
* **Width.** 16-bit int products, factors reported through a byte, sizes of
  cards rounded to sectors, megabytes and what fdisk aligns to.
* **Two-step protocols.** A register is selected in one transfer and read in
  another; the repair of the server looks first and starts later; a register
  is read, changed and written.
* **Shared state without a lock**: the pid file, the message buffer of the
  kernel module, the converter, the environment of U-Boot.
* **Rewriting.** kconfig rewrites every dependency until nothing changes, with
  dozens of special cases, and decides by the result where an entry is shown;
  what it writes leaves out what can be calculated again.
* **Results nobody looks at**: requests, mappings, `dd`, `bootz`, `open`.

### What makes each part correct

* Timer: the line is high for exactly the minute after a rise, rises are a
  period apart, and both recur whatever commands come.
* Slave: a command sent to it is executed once; a read returns consecutive
  registers; other devices are left alone; the routine comes back.
* Power manager: nobody sleeps without a wake-up; the key of the modem is
  pressed only in a pulse and only on a settled modem; the registers tell the
  factor and the modem state; commands end.
* Scripts: the modem is on when the connection is asked for, what is read is
  the modem's state, the pid file names every pppd.
* Supervision: the server comes back after a crash, and there is one.
* Kernel module: the command written is the one executed, its writes arrive in
  order, what was requested is returned, calls come back.
* Boot: the first bootable partition is booted with its own kernel, tree and
  root. Flashing: parts lie apart and the block comes last.
* Temperature: a run ends, and reads when its conversions are complete; the
  window shows the register asked for.
* Configuration: dependencies keep their meaning, what can be set can be
  reached, and what was saved comes back, however it was written.

## 2. Modules

| module | models |
|---|---|
| `DutyCycle` | abstract: what the imx233 may rely on at PD2 |
| `SleepTimer` | the timer interrupt and the factor commands; refines `DutyCycle` |
| `RegisterFile` | `send_buff` and `reg_buf_position`; instantiated by `TwiSlave` and `PowerManager` |
| `CommandLink` | abstract: an I2C transfer as one request, execution, answer |
| `TwiMaster` | external: the bit-banging master, one action per edge; other devices; stalls and loss of power |
| `TwiSlave` | the pin change interrupt routine, one action per wait that ends |
| `TwiBus` | composition of the two; refines `CommandLink` |
| `PowerManager` | main program, command handler, timer (`SleepTimer`), registers (`RegisterFile`), modem |
| `ModemScripts` | modem_on and modem_off as processes over `PowerManager` |
| `PmDriver` | vensey_pm, its processes and the script pwr_down |
| `NooliSupervisor` | S40nooli, S41nooliwd, test and repair under the watchdog daemon |
| `BootCommand` | mmcboot and uname_boot of U-Boot |
| `FlashLayout` | vflash.sh and bcb.c |
| `RegisterWindow` | imx233.c: the window of /dev/mem |
| `TemperatureTool` | internal_temperature.c, several processes on one converter |
| `InternalTemperature` | composition of the two |
| `KconfigExpr` | expr.c: dependencies, their meaning and their rewriting |
| `KconfigTristate` | n, m and y |
| `KconfigTree` | menu.c: the tree of entries |
| `KconfigSymbols` | symbol.c, confdata.c: the values, what goes into a file and comes out, over any tree and any meaning of its expressions; what conf_parse() checks |
| `KconfigPrograms` | conf.c, mconf.c, confdata.c: the programs, one after the other, on the files |
| `Kconfig` | composition: `KconfigPrograms` with the trees, expressions and screens of the others |
| `...Proofs` | the theorems about `SleepTimer`, `TwiBus`, `PowerManager` with `ModemScripts`, `PmDriver`, `NooliSupervisor`, `BootCommand`, `FlashLayout`, `InternalTemperature`, `KconfigPrograms` |
| `MC...` | model checking modules; the `.cfg` files give the constants |

**Correspondence.** Variables keep the names of the code where it has them.

* `SleepTimer`: one tick is one of `Count`, `EndCycle`, `Raise`, the branches
  of the routine.
* `TwiSlave`: the routine is cut at its waits. `pc` and `level` say which wait
  it is in, an action is everything from the end of that wait to the next one,
  and `Through` holds when the wait ends: the level is there, TOV0 is not set,
  or the rounds are used up.
* `PowerManager`: a command is one action up to its first delay, and one action
  per delay after that; `isr` names the delay. `POWER_OFF` ends with the timer
  interrupt that wakes it. Commands that only touch the LED or the 3.3 V supply
  are one action, since both are pin PB0. PD5 is always low and left out.
* `ModemScripts`: `at` is the line a script executes next, an `i2cset` or
  `i2cget` an action, a read while the manager is busy two, since the command
  may end in between. A lost `i2cset` changes nothing.
* `PmDriver`: `at` says whether a process is in user space, in the copy of its
  message, or at a request or mapping; `todo` holds the register accesses its
  command still has to make. The kernel is not preemptible and the board has
  one processor: processes change only where the code may sleep. The module may
  be removed there too: nothing waits for who sleeps in it, and `Oops` is what
  becomes of a process that wakes up without text to return to. The freed text
  is taken to be unmapped, so that it faults at its first instruction.
* `NooliSupervisor`: one action per command of a script that looks at or changes
  processes. `start-stop-daemon` with a pid file nobody writes finds nothing;
  with `-n` it finds the daemon.
* `BootCommand`: one action per test or load of the command string; the
  environment is a variable each, memory remembers the partition it was loaded
  from.
* `FlashLayout`: positions and sizes are the script's arithmetic; an action
  per step, each of which may fail, the whole may be cut off anywhere.
* `TemperatureTool`: registers as sets of bits, one action per register write
  of the program, since the SET and CLR addresses make each one atomic.

* `KconfigPrograms`: a program reads at its start, then one action per entry of the
  user, per rename and per file written. A rewriting of an expression in place
  is a function on a pair of trees; a slot of the C code is a path. A
  configuration file is a function from the symbols it has a line for to their
  values; reading and writing it line by line are `ReadSimple` and `Lines`. C
  calculates a value when it is next asked for, the model calculates all when
  the flags are cleared. Which of the shown entries the user has been at, and
  so which carry the mark of `menu_is_visible()`, is left open (`Seen`). The
  modules about values and programs take the value of an expression and the
  entries of a screen as parameters (`ExprValue`, `Shown`): `Kconfig` gives them
  those of expr.c and menu.c for the run, the theorems hold for any.

**The slave keeps up.** In `TwiBus` the master's next edge comes after the
slave has reached its next wait: tens of cycles of a 16 MHz processor against
the microseconds of i2c-gpio. Two things are slower and are modelled: a long
command (`LONG`), and a master that is preempted (`Stall`), where the slave's
time-outs run. An interrupt entry that is later than the distance from SDA to
SCL is not modelled; it would take a data bit for a start.

**The composition.** `PowerManager` receives commands as `TwiBus` delivers
them: one at a time, each executed as a whole, none while the handler runs. A
transfer begun while a command is handled is not executed; the bus is the
subject of `TwiBus`, where `LONG` commands do it, and `ModemScripts` takes from
it that such an i2cset is acknowledged and lost.

## 3. Runs

| run | instance | what it shows |
|---|---|---|
| `sleep_timer` | cycles of up to 4 x 5 ticks, 3 cycles per pulse | refines the duty cycle; the pulses recur. The code's SLEEP_CYCLE_MAX is 1; with 3 the second counter matters |
| `sleep_timer_overflow` | constants of the code, factor up to 547 | the comment at `power_control.c:117-119` is violated (section 6) |
| `twi_transfer` | every address, direction, byte and length, short commands | implements `CommandLink`; the routine returns |
| `twi_disturbed` | timer 0 cold, commands that outlast transfers, one stall, loss of power anywhere | what a transfer the slave was free for still does; where the routine can hang: two places only |
| `power_board` | any clients, one reset of the ATmega, one death of the modem | sleep ends, reports are true, the key is pressed when and as long as it should be, commands end; the duty cycle, begun anew by a reset |
| `scripts` | two scripts at any time, another client, a modem that dies | what each manner of calling still guarantees |
| `pm_driver` | two processes, page faults, mappings that run out, one unload, also under a sleeping process | regions, commands, order of writes, calls |
| `nooli` | two crashes, a reboot, two operator calls, a slow server, another Java program | one server, which comes back |
| `boot_cards` | one card after the other, two partitions, every uEnv.txt over two kernels and a tree | the first bootable partition, of one piece |
| `flash_cards` | cards and images around every boundary, one fault, interruptions | layout, bootability, the block last |
| `temperature` | two processes, two ranges, one failing call | conversions complete, runs end, the window follows |
| `kconfig` | two programs one after the other on three Config.in files, every pair of operands in 22 more | dependencies keep their meaning, prompts are reachable, files give the values back |

Every property of a passing run has a mutant in `PROJECT.json`: a slip in a
mapped definition that the run detects. The slips are in the modules, before
the definitions they replace.

**Deadlock.** CHECK_DEADLOCK FALSE is given where the system really stops: a
bus whose master has lost power, a booted kernel, the end of a flashing, a
program that has crashed, a supervision or a build directory whose bounds are
used up.

**Bounds.** In `TwiBus` addresses have 2 bits and bytes 3 (the code: 7 and 8):
the slave treats bits alike, and what matters is kept: a byte is one bit longer
than an address, there are own, foreign and unanswered addresses, and reads are
up to as long as the buffer of 3 registers, so that the position wraps;
positions beyond the buffer (3 to 7) are reached by increments. One retry of a
refused address (`RETRIES`; the kernel's default tries more often, and
`ExecutesItsWritesOnly` fails with none). `PowerManager` has bytes of two values and
factors up to 2, so that the reported factor wraps. `FACTOR_BOUND` is the one
bound on a counter of the code; the code has none, see the overflow run. One
restart and one fault: no action looks at more than the last. `MAPPINGS` is
small so that ioremap runs out within a few accesses. `Mixtures` are the commands
that two messages mixed up in the buffer may spell, any of the twelve or none;
in the instance none and `s_down_f`, the one with the gravest effect. Five `Pids` are as many
servers as the bounds of `nooli` can start. The cards of `flash_cards` are the
multiples of a megabyte, one byte and one sector off, at which a rounding
changes; `MBYTE` is that of the code. `NUM_SAMPLES` is 2: the loop counts.
In `kconfig` two programs (`MaxStarts`) are one that writes and one that reads;
`MaxChanges` is per tree, two where a choice and a number depend on each other.
The trees of a session have what decides over a screen or a value: a selected
symbol whose prompt can go, an entry that mentions a symbol without depending
on it, a choice with a member that comes and goes, a range with a condition,
menus and "if" in one another. The 22 others put every pair of eleven operands
(tests of a bool and of a tristate) under "and" and "or" inside an "if"; the
meaning is compared for all values of their symbols. A user enters the numbers
1 to 3, inside and outside of the range; 0 is the text of an int nobody has set.

**Conditions of properties.** Each names what the code does not guard against:

* `undisturbed` (`TwiBus`): the slave was out of its routine and timer 0 had
  overflowed when the transfer began, and the master has not failed since.
  While a command runs SDA is held low and the master takes this for
  acknowledgements. In `twi_transfer`, where this cannot happen, the
  refinement has no such condition.
* `Undisturbed` (`PowerManager`): modem commands came only to a modem that was
  neither booting nor halting, no reset, no death of the modem. A second
  POWER_UP_MODEM during the boot toggles the modem again; nothing in the ATmega
  prevents it. `PatientClients` shows that politely called scripts keep to it,
  also when the modem dies meanwhile.
* `manners` (`ModemScripts`): hurried, overlapping or interposed calls. Each
  property names the manners it needs; without any of them it is false.
* `met` (`PmDriver`): two processes have been inside the module at a time. The
  driver has no lock; what is guaranteed to one alone is lost between two.
  `RegionsReturned` and `CallsReturn` do not need it. They hold while the module
  is loaded: removing it under a process that sleeps in a call kills that
  process and leaves the region it waited for requested until the power is off.
* `tidy` (`BootCommand`): every uEnv.txt so far named its kernel and its uuid.
  An incomplete file takes over what an earlier one has set.
* `alone` (`TemperatureTool`): no other run of the program overlapped.
* `faulted` (`KconfigPrograms`): a rename of `.config` has failed. The next attempt of
  menuconfig then writes an empty file (section 6).
* `tool.val = Values(...)` in `AutoConfFollows`: no number was entered that
  equals one that was forgotten (section 6).

## 4. Fairness

* `SleepTimer`: weak fairness of the tick; the oscillator runs in the sleep
  mode used (idle, SMCR is never written). No command is ever assumed.
* `TwiBus`: weak fairness of the slave (it is a processor), of the overflow of
  timer 0, of the master's next edge once a transfer has begun and of its
  return from a stall. Beginning a transfer, stalling and dying are never
  fair.
* `PowerManager`: weak fairness of delays, timer and modem; strong fairness of
  the timer interrupt and the main program, which are disabled while a
  command is handled. The pin change interrupt has priority, but its flag is
  not set during the routine (its mask is cleared), and between two transfers
  the bus is quiet for longer than an interrupt entry: whenever a handler has
  ended the pending timer interrupt gets its turn, and the AVR executes an
  instruction of the main program after each interrupt. That every command
  reaches its end on the bus is `SlaveReturns`; with a master that loses power
  it fails (`twi_disturbed`), and then the timer starves.
* `PmDriver`: each process that is in the kernel gets on; that it calls again,
  that 5 V comes or power returns is not assumed.
* `NooliSupervisor`: init scripts, the daemon, the operator's script and a
  launched server get on, as processes of Linux; crashes, reboots, new calls
  and other programs are never fair.
* `BootCommand`: the command goes on; changing the card is never fair.
* `InternalTemperature`: processes and the converter run on.

`FlashLayout`, `ModemScripts`, `RegisterWindow` and `KconfigPrograms` have safety
properties only and assume nothing.

## 5. Proofs

`PowerManagerProofs` begins with the timer by itself, for all constants that
satisfy `SleepTimerAssumption` and `FactorFits` (the largest product of line 103
is an int):

* `TimerTypeCorrect`, `LineFollowsCounterAlways`: the inductive invariant is
  `TypeOK /\ LineFollowsCounter`. `TypeOK` bounds the counter by the largest
  int and not by the current threshold, since a decrement of the factor drops
  the threshold below the counter.
* `TimerImplementsDutyCycle`: every step is a step of `DutyCycle` or a stutter,
  where the age of the pulse is the counter, cut off at a period. The invariant
  is needed for the grounding: a raise happens with a counter of at least
  SLEEP_COUNTER_MAX - 1, hence after the minute.

The firmware then, for all buffer sizes, positions, numbers of resets and
faults: the inductive invariant `PowerInv` joins the shape of the buffer,
`SleepEnds`, `DurationReported`, `KeyOnlyInPulse` and, when nothing fails, what
the handler knows of the modem in each delay (`StageMatchesModem`): STATUS read
at the beginning still holds when the key is pressed. From it follow
`SleepAlwaysEnds`, `DurationAlwaysReported`, `KeyOnlyEverInPulse`,
`ReportAlwaysMatchesModem` and `KeyAlwaysFindsSettledModem`. `StoredAtPosition`
separates the two reports in the buffer.

`FirmwareKeepsDuty` joins the two: under `FactorFits` every step of the whole
firmware is a step of the timer, leaves it alone, or is a reset, which begins
its initial state again (`StepOfTimer`, `InitiatedIsInit`). So the imx233 gets
the duty cycle whatever commands, sleeps and resets come in between.
`FirmwareTypeCorrect` is the type invariant of all variables; it needs
`TimerInv`, and that the buffer holds bytes only (`RegistersStayBytes`).

The scripts are in the same module, over the manager's invariant: every step of
theirs is a step of the manager or stutters (`ScriptsUseTheManager`), so that
`PowerInv` holds for them without a second proof. `ScriptInv` adds that one
script runs at a time as long as none overlapped (`OneRuns`), what the pid file
then knows (`Tracked`), and what a politely called script relies on at each of
its lines: the modem has settled, the position is the one it selected, the
register it read is the one shown (`Relies`), and, unless the modem dies, what
this says about the modem (`Knows`). From it follow `ConnectsWithModemOn`,
`ReadsModemState`, `PppdsTracked` and `ScriptsArePatient`, for any number of
scripts, pppds and faults.

`TwiBusProofs`, for any widths, any other devices, any set of long commands,
any number of retries and stalls (`TwiBusAssumption`: operations have addresses
and bytes of these widths, and the slave's address is nobody else's):

* `BusInvariant`. Besides the types, `BusInv` says what each wait of the routine
  means for its shift registers and its drive (`SlaveSound`) and what each edge
  of the master means for the lines (`MasterSound`). For a transfer that began
  with the slave free, until the master fails: the two are in step, bit for bit
  (`InStep`); the bits so far are those of the address and of the byte sent
  (`Heard`, `CommandHeard`); the registers so far are consecutive (`ReadOn`);
  what the slave has executed is what the transfer asked for, over all retries
  (`Outcome`); and a slave that is not addressed watches for the next start
  (`Watches`). Two numbers tell a prefix of bits: the shift register is the
  address divided by a power of two (`Pow2`), which is how the proof goes from
  one bit to the next for words of any width.
* `WritesExecuted`, `ReadsInOrder`, `Contention` follow from it.
* `SlaveImplementsLink`: under `KeepsTime` (the constants of `twi_transfer`: TOV0
  set, no long commands, no stalls, no loss of power) every transfer is
  undisturbed; the step that ends one is a step of `CommandLink`, all others
  stutter.

`PmDriverProofs`, for any set of processes, any jobs and any number of mappings:

* `RegionsAlwaysReturned` from `PmInv`. A region that is busy has an owner at
  its mapping, as long as the module is loaded. After a removal that owner may
  have been killed; the theorem covers a later load too, because the entry a
  removal leaves behind keeps the module out until the power is off, and without
  an entry nothing is requested (`OffWithoutEntry`). The release after a failed request frees a region that may be
  somebody else's, so that the statement is not that each owner's region is
  busy. `OwnersStay`, `OwnerLeaves`, `OwnerArrives` are the three things a step
  can do to the owners.
* `LoadOnlyEverWithVbus` from `LoadInv`: as long as no two processes have met,
  every write of the charger's load still to be made is preceded by the test of
  VBUSVALID (`LoadTested`), or comes next and the test has been passed. It
  needs `PmInv`, that all but one process have nothing to do (`Lonely`), and
  that each program is guarded (`EveryProgramGuarded`).
* `CommandIsOwn` from `CommandInv`: until two processes meet, the buffer holds
  what the process in the module has copied so far, and what it executes next
  is the program of the name it wrote (`Commanded`). The comparisons of the
  driver are of prefixes and in an order; `NoEarlierName` shows that no name is
  caught by one that comes before it.
* `GoesDownAsAsked` from `DownInv`. What can switch the chip on when it goes
  down was set by earlier commands, so the invariant follows a process through
  its job (`JobsInv`) and through the accesses of the command (`Going`): which
  of the alarm's writes have been made, and that the script pwr_down, whose
  `clr_autostrt` comes first, finds nothing left. `JobsAssumption` says what is
  used of the programs: in the repository only that script writes `s_down_f`.

`NooliSupervisorProofs`, for any number of crashes, reboots, calls:
`ServersAlwaysAccountedFor` from `ServerInv`, which counts the decision to
start a server, taken but not yet executed (`Decided`), as a server.

`FlashLayoutProofs`, for all sizes of cards and images, with the MBYTE of the
code: `CardsAlwaysSound`, `FlashingMakesBootable`, `BlockComesLast`. The
arithmetic lemmas (`CardNumbers`, `PartitionNumbers`, `SizesMakeSound`,
`ImagesApart`) turn the rounding divisions into inequalities; the inductive
`IInv` says which images are on the card at each step and that those written
are whole as long as no step has failed and they fit.

`BootCommandProofs`, for any number of partitions, kernels and cards:
`BootTypeCorrect`, and `BootsFromOnePartition` from `BootInv`. With complete
files the environment is that of the partition as soon as its file has been
imported, whatever was in it (`OwnEnvironment`). An old device tree may be in
memory where bootz is called with one, but only after bootz without a tree has
refused the same kernel (`OwnMemory`). Nothing bootable lies behind the command
(`NothingMissed`).

`InternalTemperatureProofs`, for any ranges, failures, runs and samples:

* `WindowAlwaysFollows` from `WindowInv`: what is mapped is what the pointer
  points at when a file is open; after a failed open the pointer is stale and a
  range is remembered that was never mapped, which is why a crash needs a
  failure.
* `MeasurementsComplete` from `ToolsInv`. A conversion under way always has a
  run that waits for it, the last one that scheduled any (`Awaited`): a run that
  is alone finds none from before. The two channels then keep step, both with as
  many conversions left (`InPhase`), so that the loop, which ends with either
  interrupt bit, ends with both.

`KconfigProofs`, for any number of Config.in files and symbols, any meaning of
expressions and any screens: `FilesAlwaysRestoreValues` and
`AutoConfAlwaysFollows`, from `KconfigInvariant`.

* The assumption is `SessionsAssumption`: the trees are `WellFormed`, what is
  there at first are files. `WellFormed` is what conf_parse() looks at and
  prints an error or a warning for: types (`sym_check_prop`, `menu_finalize`)
  and circles (`sym_check_deps`); and, what it does not look at, that no range
  is empty. TLC evaluates it for the trees of the run.
* The values: sym_calc_value() calls itself, which the model states as a
  function defined by itself. That there is such a function is shown by
  extending a largest set of symbols already calculated (`CalculationEnds`), and
  that there is only one by looking at the set of symbols two results differ at
  (`CalculationUnique`): `NotRecursive` gives that set a symbol that depends on
  nothing in it. So values that fit a user state are those of the user state
  (`ValuesUnique`).
* Files: a user state `Recalls` values if whoever can be seen has its value as
  the user's, as the default or by being selected, and every choice its member.
  It need not be the user state they came from; with `ValuesUnique` it gives
  the same values (`RecallsRestores`). A file with `Enough` lines is read into
  one that does, also after conf_read() has forgotten what nobody can see, and
  both what conf_write() and what conf_write_defconfig() leave is enough
  (`LinesSuffice`, `MinimalSuffices`).
* The programs: `SavedInv` follows what was saved through the renames. It is
  kept because the temporary file holds the lines of the values on the screen
  (`TmpInv`), which holds because the flags cover them (`WriteInv`), which fails
  after a failed rename in menuconfig (`HasFlags`, section 6). `AutoInv` says
  that silentoldconfig skips writing only where .config already has the lines
  (`UnchangedFile`).

**Induction and recursion.** The provers cannot instantiate induction theorems
that take a predicate. `TwiBusProofs` begins with induction over sets instead
(`LeastNatural`, `SetInduction`, from the well-foundedness of the naturals as
the library states it): enough to unfold recursive functions of numbers,
`Pow2` and `Run`; `KconfigProofs` does the same with sets of symbols.

Only model-checked: all liveness (fairness and ENABLED are out of the provers'
reach); `DependenciesKeepMeaning` and `PromptsReachable`, since the rewriting of
expressions and the building of the tree are RECURSIVE operators, and what they
compute needs induction over expressions and menus.

## 6. Findings and observations

One run is expected to be violated:

* `power_control.c:103`: the threshold overflows the 16-bit int from factor 547
  on. Every tick then raises the line and none grounds it, against the comment
  at `power_control.c:117-119`.

Met while modelling. The models follow the code here; nothing in the repository
says what is meant, or the statement is too loose to be refuted:

* `gpio_twi.c:122,239`: the first transfer after a reset reads the address
  while SCL is still high from the start condition; until timer 0 has
  overflowed once the waits do not wait.
* `gpio_twi.c:260`: after a stall of more than a millisecond at the R/W bit the
  slave may take a write for a read, drive SDA, and stay in its read loop on a
  live bus.
* `GET_MODEM_POWER_STATE` reports what the last command did, not STATUS: after
  a reset or the death of the modem the report is stale.
* The end of the boot pulse lowers PD4 also after SET_PSWITCH_TO_HIGH.
* `vensey_pm.c`: the alarm can fail to be written unnoticed (323); -ENOMEM is
  taken for a register with VBUSVALID set (455); the region is released for
  whoever holds it (70); mappings are never returned (81); unloading names
  another entry than the one created (538), so that the file stays and nothing
  waits for who is in a call: who sleeps in the module, or uses the file
  afterwards, is killed, and a region may stay requested; all writers share one message buffer (268); levels written
  through SET addresses keep the bits of the level before (407).
* `modem_on` guards neither against a call before the modem has settled nor
  against another script or another client between its two transfers.
* `testnooliserver:7` tests a variable that is never set and always fails;
  `repairnooliserver:5` takes any Java program for the server;
  `S40nooli:13,19` uses a pid file nobody writes, so that stop stops nothing
  and restart starts a second server; `S41nooliwd:17`: restart finds the daemon
  it has just told to end and starts none.
* Patch 0001 line 76: a uEnv.txt without uname_r boots the kernel named by an
  earlier one.
* `internal_temperature.c:35`: the mask 0x1f000000 clears the accumulate bit set
  just before; line 29: 0x89 connects the two channels the other way round than
  the comment says.

* kconfig, `symbol.c:677`: a number equal to the last one clears no value, even
  if that one was out of its range when it was read and was forgotten. With a
  `.config` that holds such a number, answered again in silentoldconfig once it
  is in range, `.config` gets the number calculated before the answer and
  `auto.conf`, by which the image is built, the number answered.
* kconfig, `confdata.c:797,826`: conf_write() uses up SYMBOL_WRITE before the
  renames. If one fails, a second attempt in menuconfig writes a file without
  symbols, and reports it as written.
* kconfig, `symbol.c:155`: a range whose first bound is above the second is
  accepted. A number is then forced to one of its bounds, is out of range when
  it is read, and is forgotten.
* kconfig, `symbol.c:1283`: sym_check_deps() prints "recursive dependency
  detected!" for a circle, but returns no error at the symbol it began with:
  conf_parse(), which would exit, goes on.
* kconfig, `confdata.c:820`: neither `fclose` nor the writes before it are
  looked at; with a full disk the good file is renamed away for half of one.
* kconfig, `symbol.c:331`: a value of a choice keeps SYMBOL_WRITE when it goes;
  a session in which it was there once writes a line for it.
* kconfig, `menu.c:496`: displaying an entry marks a selected symbol as set by
  the user. `expr.c:484`: the comment says 'm', the code gives 'y', which is
  right.

## 7. Not modelled

* Patch 0002 of U-Boot (battery boot): constants of the power block.
* The build of the image, check_internet, S39prepareeth, the Java and
  hello-world programs: no state of their own.
* `jni.h`, `jvmti.h` and `imx233_regs.h`: declarations and register numbers,
  nearly a third of the C lines of the repository.
* Buildroot beyond kconfig: make rules and shell of a vendored build system.
* Of kconfig: tests of numbers and strings in dependencies, hex symbols,
  tristate symbols and a modules symbol in a session (tristate operands are in
  the dependencies), symbols defined in several places, optional choices and
  "visible if"; randconfig, listnewconfig, allmodconfig, oldaskconfig and
  KCONFIG_ALLCONFIG; loading and saving under another name and show_all_options
  in menuconfig, its handler of SIGINT, which enters conf_write() again; the
  header and the touched files beside `auto.conf`; the parser, the search and
  the graphical programs.
* A device tree that bootz refuses; descriptor 0 from `open` for a program without
  standard input, which `imx233.c:22` takes for none; the write of CTRL2 that
  powers the temperature sensor, and runs of that program that are killed; the
  second count of a number out of its range (`confdata.c:459`), whose symbol
  counts already; a module removed while its text stays mapped, where a process
  would go on in memory that is no longer the module's.
* Formatting and logging; electrical behaviour beyond contention on SDA; the
  closed nooli server and the watchdog daemon beyond what the scripts rely on.

What a next step would take up: the refinement of the registers by the slave
and the manager as theorems.
