------------------------------- MODULE TwiBus -------------------------------
(***************************************************************************)
(* The I2C bus of the board: the software slave of the power manager       *)
(* (TwiSlave) and the bit-banging master of the imx233 (TwiMaster).        *)
(*                                                                         *)
(* The slave keeps up: the master's next edge, microseconds away, comes    *)
(* after the slave has reached its next wait.  Two things are slower than  *)
(* that: a long command of the slave, and a master that stalls.            *)
(***************************************************************************)
EXTENDS TwiSlave

CONSTANTS WARM   \* TRUE: timer 0 of the slave has overflowed before

(* Addresses and bytes have so many bits, nobody else answers the slave's  *)
(* address, and the kernel tries a refused address once more at least.     *)
ASSUME TwiBusAssumption ==
    /\ {ADDR_BITS, BYTE_BITS, RETRIES} \subseteq Nat \ {0}
    /\ {REG_BUF_SIZE, STALLS} \subseteq Nat /\ {WARM, MORTAL} \subseteq BOOLEAN
    /\ SLAVE_ADRESS \notin FOREIGN
    /\ {MODEM_POWER_STATE_POSITION, CURRENT_SLEEP_DURATION_POSITION} \subseteq 0 .. UINT8 - 1
    /\ Operations \subseteq [addr : 0 .. Pow2[ADDR_BITS] - 1, rw : {"read", "write"},
                             byte : 0 .. UINT8 - 1, length : Nat \ {0}]

VARIABLES executed,           \* commands executed since the transfer began
          undisturbed,        \* the slave was free, TOV0 set, when it began, and the
                              \* master has not failed since
          from                \* the register position when it began

transfer == <<executed, undisturbed, from>>
vars == <<slaveVars, tov0, masterVars, failures, transfer>>

(* The slave is out of its interrupt routine and the bus is idle. *)
Init ==
    /\ SlaveInit(WARM) /\ MasterInit
    /\ executed = <<>> /\ undisturbed = FALSE /\ from = 0

-----------------------------------------------------------------------------
Slave ==
    /\ \/ (Listen \/ LongCommandEnds) /\ UNCHANGED executed
       \/ HandleCommand /\ executed' = Append(executed, command_byte)
    /\ UNCHANGED <<tov0, masterVars, failures, undisturbed, from>>

(* Timer 0 overflows about a millisecond after its first start; the flag   *)
(* is never cleared.                                                       *)
TimerOverflow ==
    /\ timer0 /\ ~tov0 /\ tov0' = TRUE
    /\ UNCHANGED <<slaveVars, masterVars, failures, transfer>>

(* Any change of a line is a pin change while the interrupt is enabled. *)
PinChange == irq' = (irq \/ (pc = "idle" /\ <<scl', sda'>> # <<scl, sda>>))

SlaveWaits ==
    UNCHANGED <<pc, level, bit, addr_reg, rw_operation, command_byte, portbhistory,
                tmp_sda_tracking, timer0, tov0, drive, out, reg_buf_position>>

BeginTransfer ==
    /\ ~stalled /\ ~Ready
    /\ MasterBegins
    /\ executed' = <<>> /\ undisturbed' = (pc = "idle" /\ tov0) /\ from' = reg_buf_position
    /\ SlaveWaits /\ PinChange /\ UNCHANGED failures

ContinueTransfer ==
    /\ ~stalled /\ ~Ready
    /\ MasterContinues
    /\ SlaveWaits /\ PinChange /\ UNCHANGED <<failures, transfer>>

MasterFails ==
    /\ \/ Stall /\ UNCHANGED <<slaveVars, tov0>>
       \/ Die /\ SlaveWaits /\ PinChange
    /\ undisturbed' = FALSE
    /\ UNCHANGED <<executed, from>>

MasterResumes == Resume /\ UNCHANGED <<slaveVars, tov0, transfer>>

Next ==
    \/ Slave \/ TimerOverflow
    \/ BeginTransfer \/ ContinueTransfer
    \/ MasterFails \/ MasterResumes

Spec == Init /\ [][Next]_vars

(* The processor runs the routine, delays end, timer 0 counts; the kernel  *)
(* finishes a transfer it has begun unless it loses power.                 *)
FairSpec ==
    /\ Spec
    /\ WF_vars(Slave) /\ WF_vars(TimerOverflow)
    /\ WF_vars(ContinueTransfer) /\ WF_vars(MasterResumes)

-----------------------------------------------------------------------------
Link == INSTANCE CommandLink WITH
    Own       <- SLAVE_ADRESS,
    After     <- After,
    Following <- Regs!NextPosition,
    Contents  <- Contents,
    request   <- op,
    open      <- mphase # "free",
    executed  <- executed # <<>>,
    first     <- from,
    position  <- reg_buf_position,
    accepted  <- mphase = "free" /\ acked = "yes",
    answer    <- IF mphase = "free" /\ acked = "yes" THEN got ELSE <<>>

OwnWrite == op.addr = SLAVE_ADRESS /\ op.rw = "write"
OwnRead  == op.addr = SLAVE_ADRESS /\ op.rw = "read"
Over     == mphase = "free" /\ acked # "none" /\ ~dead

(* The slave's own address is never refused in the end, and a write to it *)
(* is executed once, as sent, over all retries: a START missed because     *)
(* portbhistory was stale (the bus moved while a long command ran with the *)
(* pin change interrupt disabled) is made good by one retry.  Not so when  *)
(* the slave was not free as the transfer began: a long command of an      *)
(* earlier one still held SDA low (gpio_twi.c:348-370), or TOV0 was not    *)
(* yet set.                                                                *)
OwnWriteExecuted ==
    Over /\ OwnWrite /\ undisturbed => acked = "yes" /\ executed = <<op.byte>>

(* A read returns consecutive registers from the position on, wrapping at  *)
(* the end of the buffer, and leaves the position at the last one.  It is  *)
(* not refused, either.                                                    *)
ReadsConsecutiveRegisters ==
    Over /\ OwnRead /\ undisturbed =>
        LET run == Link!Run(from, op.length)
        IN  /\ acked = "yes"
            /\ \A i \in 1 .. op.length : got[i] \in Contents(run[i])
            /\ reg_buf_position = run[op.length]

(* A transfer to another device leaves the slave out of it: it drives      *)
(* nothing, executes nothing and keeps its position, although it is        *)
(* interrupted by every edge and follows the address.                      *)
ForeignTransferUntouched ==
    op.addr # SLAVE_ADRESS /\ undisturbed =>
        drive = "in" /\ executed = <<>> /\ reg_buf_position = from

(* Taken together: what was sent to the slave is executed, and nothing     *)
(* else, whatever the bus did before.                                      *)
ExecutesItsWritesOnly == OwnWriteExecuted /\ ForeignTransferUntouched

(* SDA is driven both ways by set_sda_to_high (gpio_twi.c:186-190).  The   *)
(* slave drives it against a low level in one spot only: it shifts out the *)
(* next register of a longer read while the master still holds its         *)
(* acknowledgement (the one byte reads of i2cget never get there).         *)
ContentionOnlyReadingOn ==
    drive = "high" /\ pulled /\ undisturbed =>
        OwnRead /\ mphase = "data" /\ mbit = 0 /\ mstep = "setup" /\ 0 < Len(got)

(* The routine comes back: timer 1 can interrupt and the next start        *)
(* condition be seen.                                                      *)
SlaveReturns == []<>(pc = "idle")

(* Whatever the master does, stalls and loss of power in a transfer        *)
(* included, the routine can stay for ever in two places only: in the read *)
(* loop, as long as the bus, dead or out of step with the slave after a    *)
(* stall, is low wherever the slave looks for an acknowledgement, and in   *)
(* the wait for a stop condition, which has no timeout, while SCL is high. *)
MasterFailed == dead \/ stalls > 0
StaysInTwoPlaces ==
    \/ SlaveReturns
    \/ <>[](MasterFailed /\ pc \in {"byte_out", "master_ack"})
    \/ <>[](MasterFailed /\ pc = "stop" /\ scl = 1)

(* The bit by bit slave implements the atomic link: each transfer executes *)
(* its command or returns its registers in one piece.                      *)
ImplementsCommandLink == Link!Spec
=============================================================================
