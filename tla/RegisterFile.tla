---------------------------- MODULE RegisterFile ----------------------------
(***************************************************************************)
(* The registers the power manager shows to the I2C master: send_buff and  *)
(* the position the next read starts at (communication_handler.c).  Its    *)
(* actions are conjoined by the modules that own the interrupt routine.    *)
(***************************************************************************)
EXTENDS Naturals

CONSTANTS REG_BUF_SIZE,   \* 77 in the code
          UINT8           \* number of values of a byte, 256 in the code

VARIABLES send_buff, reg_buf_position

Byte == 0 .. UINT8 - 1

TypeOK ==
    /\ send_buff \in [0 .. REG_BUF_SIZE - 1 -> Byte]
    /\ reg_buf_position \in Byte

InitialBuffer == [i \in 0 .. REG_BUF_SIZE - 1 |-> i % UINT8]

(* send_buff after the code stores value at position: an int is cut to a   *)
(* byte, a position outside the buffer is refused (the LED toggles: no     *)
(* caller has such a position).                                            *)
Stored(value, position) ==
    IF position >= REG_BUF_SIZE THEN send_buff
    ELSE [send_buff EXCEPT ![position] = value % UINT8]

set_twi_regs_buf_withposition(value, position) ==
    send_buff' = Stored(value, position) /\ UNCHANGED reg_buf_position

set_regbuf_position(new_position) ==
    reg_buf_position' = new_position /\ UNCHANGED send_buff

(* A byte wraps; the position is not compared with the size here. *)
Incremented(position) == (position + 1) % UINT8

increment_regbuf_position ==
    reg_buf_position' = Incremented(reg_buf_position) /\ UNCHANGED send_buff

Decremented(position) == IF position >= 1 THEN position - 1 ELSE position

decrement_regbuf_position ==
    reg_buf_position' = Decremented(reg_buf_position) /\ UNCHANGED send_buff

reset_regbuf_position ==
    reg_buf_position' = 0 /\ UNCHANGED send_buff

(* What a byte read from the current position can be: memory behind the    *)
(* buffer holds anything.                                                  *)
ReadFrom(buffer, position) ==
    IF position < REG_BUF_SIZE THEN {buffer[position]} ELSE Byte

(* increment_regbuf_position, then reset_reg_buf_pos_if_necessary. *)
NextPosition(position) ==
    IF Incremented(position) >= REG_BUF_SIZE THEN 0 ELSE Incremented(position)

advance_regbuf_position ==
    reg_buf_position' = NextPosition(reg_buf_position) /\ UNCHANGED send_buff
=============================================================================
