------------------------------ MODULE TwiSlave ------------------------------
(***************************************************************************)
(* The software I2C slave of the power manager: the pin change interrupt   *)
(* routine of gpio_twi.c, which follows SCL and SDA bit by bit.  One       *)
(* action per wait of the routine that ends, with everything it does up to *)
(* the next wait.  It follows the lines of TwiMaster; module TwiBus        *)
(* composes the two.                                                       *)
(***************************************************************************)
EXTENDS TwiMaster

CONSTANTS SLAVE_ADRESS,           \* 5 in the code
          REG_BUF_SIZE,           \* 77 in the code
          INCREMENT_REG_BUF_POSITION, DECREMENT_REG_BUF_POSITION,
          RESET_REG_BUF_POSITION, GET_MODEM_POWER_STATE, GET_CURRENT_SLEEP_DURATION,
          MODEM_POWER_STATE_POSITION, CURRENT_SLEEP_DURATION_POSITION,
          LONG                    \* commands whose handler outlasts the transfer

VARIABLES pc,                \* where the routine is, "idle" outside it
          level,             \* the SCL level it waits for
          bit,               \* clk_counter
          addr_reg, rw_operation, command_byte,
          portbhistory,      \* SDA as the last entry of the routine saw it
          tmp_sda_tracking,
          out,               \* the register byte being shifted out
          reg_buf_position,
          irq,               \* the pin change flag
          timer0, tov0       \* timer 0 started; its overflow flag

received == <<addr_reg, rw_operation, command_byte>>
remembered == <<portbhistory, tmp_sda_tracking, timer0>>
slaveVars == <<pc, level, bit, received, remembered, drive, out, reg_buf_position, irq>>

UINT8 == Pow2[BYTE_BITS]

(* The registers as init_twi_related_regs_bufs leaves them: the contents   *)
(* do not matter to the protocol.                                          *)
send_buff == [i \in 0 .. REG_BUF_SIZE - 1 |-> i % UINT8]

Regs == INSTANCE RegisterFile

Contents(position) == Regs!ReadFrom(send_buff, position)

SlaveInit(warm) ==
    /\ pc = "idle" /\ level = 1 /\ bit = 0
    /\ addr_reg = 0 /\ rw_operation = 0 /\ command_byte = 0
    /\ portbhistory = 1 /\ tmp_sda_tracking = 0
    /\ drive = "in" /\ out = 0 /\ reg_buf_position = 0
    /\ irq = FALSE /\ timer0 = warm /\ tov0 = warm

-----------------------------------------------------------------------------
(* The waits.  The loops of wait_for_scl_to_low and wait_for_scl_to_high   *)
(* go on only while TOV0 is set, and give up after SCL_TIMEOUT rounds,     *)
(* about a millisecond.                                                    *)
Released == scl = level \/ ~tov0

(* A slip: the rounds are not counted. *)
ThroughWithoutTimeout(p, l) == pc = p /\ level = l /\ Released

Through(p, l) == pc = p /\ level = l /\ (Released \/ quiet)

WaitIn(p, l) == pc' = p /\ level' = l

(* wait_for_scl_to_high_with_stop_condition has no timeout. *)
StopSeen == pc = "stop" /\ (scl = 0 \/ sda # tmp_sda_tracking)

(* The slave has something to do before the master's next edge. *)
Ready ==
    \/ pc = "idle" /\ irq
    \/ pc \notin {"idle", "handling", "stop"} /\ Released
    \/ StopSeen

(* The end of the routine: SDA is let go, then the pin change interrupt    *)
(* enabled again.  Whether the rise of SDA this causes is still seen as a  *)
(* pin change is a race with the pull-up.                                  *)
Exit ==
    /\ WaitIn("idle", 1)
    /\ bit' = 0 /\ drive' = "in"
    /\ irq' \in {FALSE, drive = "low" /\ ~pulled}

-----------------------------------------------------------------------------
(* Slips a maintainer could make in the routine; the runs must notice each *)
(* of them.                                                                *)
OtherPinChangeForgotten ==
    /\ pc = "idle" /\ irq /\ ~(portbhistory # sda /\ sda = 0 /\ scl = 1)
    /\ irq' = FALSE /\ addr_reg' = 0 /\ rw_operation' = 0
    /\ UNCHANGED <<pc, level, bit, command_byte, remembered, drive, out, reg_buf_position>>

EveryAddressIsOwn ==
    /\ Through("address", 0)
    /\ IF bit + 1 < ADDR_BITS
       THEN bit' = bit + 1 /\ WaitIn("address", 1)
       ELSE bit' = 0 /\ WaitIn("rw", 1)
    /\ UNCHANGED <<received, remembered, drive, out, reg_buf_position, irq>>

SentByteNotReleased ==
    /\ Through("byte_out", 0)
    /\ IF bit + 1 < BYTE_BITS
       THEN /\ bit' = bit + 1 /\ WaitIn("byte_out", 1)
            /\ drive' = IF Bit(out, bit + 1, BYTE_BITS) = 1 THEN "high" ELSE "low"
       ELSE bit' = 0 /\ UNCHANGED drive /\ WaitIn("master_ack", 1)
    /\ UNCHANGED <<received, remembered, out, reg_buf_position, irq>>

NackTakenForAck ==
    /\ Through("master_ack", 1)
    /\ reg_buf_position' = Regs!NextPosition(reg_buf_position)
    /\ WaitIn("master_ack", 0)
    /\ UNCHANGED <<bit, received, remembered, drive, out, irq>>

AdvanceWithoutWrap ==
    /\ Through("master_ack", 1)
    /\ IF sda = 0
       THEN /\ reg_buf_position' = Regs!Incremented(reg_buf_position)
            /\ WaitIn("master_ack", 0)
       ELSE UNCHANGED reg_buf_position /\ WaitIn("nack", 0)
    /\ UNCHANGED <<bit, received, remembered, drive, out, irq>>

CommandOneBitShort ==
    /\ Through("command", 0)
    /\ IF bit + 2 < BYTE_BITS
       THEN bit' = bit + 1 /\ UNCHANGED drive /\ WaitIn("command", 1)
       ELSE bit' = 0 /\ drive' = "low" /\ WaitIn("command_ack", 1)
    /\ UNCHANGED <<received, remembered, out, reg_buf_position, irq>>

-----------------------------------------------------------------------------
StartSeen == portbhistory # sda /\ sda = 0 /\ scl = 1

(* The routine is entered; the edge was SDA falling while SCL is high. *)
StartCondition ==
    /\ pc = "idle" /\ irq /\ StartSeen
    /\ portbhistory' = sda /\ irq' = FALSE
    /\ addr_reg' = 0 /\ rw_operation' = 0
    /\ timer0' = TRUE
    /\ WaitIn("start", 0)
    /\ UNCHANGED <<bit, command_byte, tmp_sda_tracking, drive, out, reg_buf_position>>

OtherPinChange ==
    /\ pc = "idle" /\ irq /\ ~StartSeen
    /\ portbhistory' = sda /\ irq' = FALSE
    /\ addr_reg' = 0 /\ rw_operation' = 0
    /\ UNCHANGED <<pc, level, bit, command_byte, tmp_sda_tracking, timer0, drive, out,
                   reg_buf_position>>

StartEnds ==
    /\ Through("start", 0)
    /\ WaitIn("address", 1)
    /\ UNCHANGED <<bit, received, remembered, drive, out, reg_buf_position, irq>>

AddressBit ==
    /\ Through("address", 1)
    /\ addr_reg' = 2 * addr_reg + sda
    /\ WaitIn("address", 0)
    /\ UNCHANGED <<bit, rw_operation, command_byte, remembered, drive, out,
                   reg_buf_position, irq>>

AddressBitEnds ==
    /\ Through("address", 0)
    /\ IF bit + 1 < ADDR_BITS
       THEN bit' = bit + 1 /\ WaitIn("address", 1)
       ELSE bit' = 0 /\ WaitIn(IF addr_reg = SLAVE_ADRESS THEN "rw" ELSE "foreign", 1)
    /\ UNCHANGED <<received, remembered, drive, out, reg_buf_position, irq>>

ReadWriteBit ==
    /\ Through("rw", 1)
    /\ rw_operation' = sda
    /\ WaitIn("rw", 0)
    /\ UNCHANGED <<bit, addr_reg, command_byte, remembered, drive, out,
                   reg_buf_position, irq>>

Acknowledge ==
    /\ Through("rw", 0)
    /\ drive' = "low"
    /\ WaitIn("ack", 1)
    /\ UNCHANGED <<bit, received, remembered, out, reg_buf_position, irq>>

(* The clocks at whose rise the routine does nothing: its acknowledgements,*)
(* the bits it sends, and two clocks of a transfer to another device.      *)
ClockRises ==
    /\ pc \in {"ack", "byte_out", "command_ack", "foreign"}
    /\ Through(pc, 1)
    /\ WaitIn(pc, 0)
    /\ UNCHANGED <<bit, received, remembered, drive, out, reg_buf_position, irq>>

Shift(byte, i) == drive' = IF Bit(byte, i, BYTE_BITS) = 1 THEN "high" ELSE "low"

(* The first bit of the register at the position is put on the line. *)
SendRegister ==
    /\ out' \in Contents(reg_buf_position)
    /\ Shift(out', 0) /\ bit' = 0
    /\ WaitIn("byte_out", 1)

AcknowledgeEnds ==
    /\ Through("ack", 0)
    /\ IF rw_operation = 1 THEN SendRegister
       ELSE drive' = "in" /\ bit' = 0 /\ WaitIn("command", 1) /\ UNCHANGED out
    /\ UNCHANGED <<received, remembered, reg_buf_position, irq>>

SentBitEnds ==
    /\ Through("byte_out", 0)
    /\ IF bit + 1 < BYTE_BITS
       THEN bit' = bit + 1 /\ Shift(out, bit + 1) /\ WaitIn("byte_out", 1)
       ELSE bit' = 0 /\ drive' = "in" /\ WaitIn("master_ack", 1)
    /\ UNCHANGED <<received, remembered, out, reg_buf_position, irq>>

MasterAck ==
    /\ Through("master_ack", 1)
    /\ IF sda = 0
       THEN /\ reg_buf_position' = Regs!NextPosition(reg_buf_position)
            /\ WaitIn("master_ack", 0)
       ELSE UNCHANGED reg_buf_position /\ WaitIn("nack", 0)
    /\ UNCHANGED <<bit, received, remembered, drive, out, irq>>

NextRegister ==
    /\ Through("master_ack", 0)
    /\ SendRegister
    /\ UNCHANGED <<received, remembered, reg_buf_position, irq>>

NackEnds ==
    /\ Through("nack", 0)
    /\ tmp_sda_tracking' = sda
    /\ WaitIn("stop", 1)
    /\ UNCHANGED <<bit, received, portbhistory, timer0, drive, out, reg_buf_position, irq>>

ReadEnds ==
    /\ StopSeen
    /\ Exit
    /\ UNCHANGED <<received, remembered, out, reg_buf_position>>

CommandBit ==
    /\ Through("command", 1)
    /\ command_byte' = (2 * command_byte + sda) % UINT8
    /\ WaitIn("command", 0)
    /\ UNCHANGED <<bit, addr_reg, rw_operation, remembered, drive, out,
                   reg_buf_position, irq>>

CommandBitEnds ==
    /\ Through("command", 0)
    /\ IF bit + 1 < BYTE_BITS
       THEN bit' = bit + 1 /\ UNCHANGED drive /\ WaitIn("command", 1)
       ELSE bit' = 0 /\ drive' = "low" /\ WaitIn("command_ack", 1)
    /\ UNCHANGED <<received, remembered, out, reg_buf_position, irq>>

(* What the commands that move the register position make of it. *)
After(command, position) ==
    CASE command = INCREMENT_REG_BUF_POSITION -> Regs!Incremented(position)
      [] command = DECREMENT_REG_BUF_POSITION -> Regs!Decremented(position)
      [] command = RESET_REG_BUF_POSITION -> 0
      [] command = GET_MODEM_POWER_STATE -> MODEM_POWER_STATE_POSITION
      [] command = GET_CURRENT_SLEEP_DURATION -> CURRENT_SLEEP_DURATION_POSITION
      [] OTHER -> position

(* handle_command is called with SDA still low from the acknowledgement. *)
HandleCommand ==
    /\ Through("command_ack", 0)
    /\ reg_buf_position' = After(command_byte, reg_buf_position)
    /\ IF command_byte \in LONG
       THEN WaitIn("handling", level) /\ UNCHANGED <<bit, drive, irq>>
       ELSE Exit
    /\ UNCHANGED <<received, remembered, out>>

LongCommandEnds ==
    /\ pc = "handling"
    /\ Exit
    /\ UNCHANGED <<received, remembered, out, reg_buf_position>>

(* Another device is addressed: two clocks, then out. *)
ForeignClockEnds ==
    /\ Through("foreign", 0)
    /\ IF bit = 0 THEN bit' = 1 /\ WaitIn("foreign", 1) /\ UNCHANGED <<drive, irq>>
       ELSE Exit
    /\ UNCHANGED <<received, remembered, out, reg_buf_position>>

Listen ==
    \/ StartCondition \/ OtherPinChange \/ StartEnds
    \/ AddressBit \/ AddressBitEnds \/ ReadWriteBit
    \/ Acknowledge \/ ClockRises \/ AcknowledgeEnds
    \/ SentBitEnds \/ MasterAck \/ NextRegister \/ NackEnds \/ ReadEnds
    \/ CommandBit \/ CommandBitEnds \/ ForeignClockEnds

=============================================================================
