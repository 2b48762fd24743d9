----------------------------- MODULE TwiMaster ------------------------------
(***************************************************************************)
(* The I2C master of the imx233 side, Linux i2c-gpio with i2c-algo-bit,    *)
(* and the other devices on the bus.  External: the code under src/ only   *)
(* uses it (i2cset and i2cget in sbin/modem_on and sbin/modem_off).  One   *)
(* action per edge; a transfer is one message, its address tried again     *)
(* RETRIES times when nobody answers.                                      *)
(***************************************************************************)
EXTENDS Naturals, Sequences

CONSTANTS ADDR_BITS, BYTE_BITS,   \* 7 and 8
          FOREIGN,       \* other addresses some device answers
          Operations,    \* records [addr, rw, byte, length]
          RETRIES,
          STALLS,        \* bound on how often the master stalls
          MORTAL         \* TRUE: the imx233 may lose power in a transfer

VARIABLE drive   \* what the power manager does with SDA: "in", "low", "high"

VARIABLES op,                   \* the current or last transfer
          mphase, mstep, mbit,  \* where the master is in it
          tries,
          scl, msda,            \* the levels the master gives the two lines
          shift, got,           \* bits and bytes received
          acked                 \* "yes", or the phase that was not acknowledged

VARIABLES stalled, stalls,      \* the master is preempted; how often it was
          dead                  \* the imx233 has no power

failures == <<stalled, stalls, dead>>
masterVars == <<op, mphase, mstep, mbit, tries, scl, msda, shift, got, acked>>

(* 2 ^ n, as a function the provers can unfold. *)
Pow2[n \in Nat] == IF n = 0 THEN 1 ELSE 2 * Pow2[n - 1]

Bit(value, i, w) == (value \div Pow2[w - 1 - i]) % 2

MasterInit ==
    /\ op \in Operations
    /\ mphase = "free" /\ mstep = "setup" /\ mbit = 0 /\ tries = 0
    /\ scl = 1 /\ msda = 1 /\ shift = 0 /\ got = <<>> /\ acked = "none"
    /\ stalled = FALSE /\ stalls = 0 /\ dead = FALSE

(* Devices other than the power manager acknowledge, and send op.byte. *)
OtherPullsLow ==
    /\ op.addr \in FOREIGN
    /\ \/ mphase = "address_ack"
       \/ mphase = "data_ack" /\ op.rw = "write"
       \/ mphase = "data" /\ op.rw = "read" /\ Bit(op.byte, mbit, BYTE_BITS) = 0

pulled == msda = 0 \/ OtherPullsLow

(* SDA is pulled up; whoever pulls it low wins. *)
sda == IF pulled \/ drive = "low" THEN 0 ELSE 1

(* No edge comes for a millisecond. *)
quiet == stalled \/ mphase = "free"

-----------------------------------------------------------------------------
MasterBegins ==
    /\ mphase = "free"
    /\ op' \in Operations
    /\ msda' = 0 /\ mphase' = "start"
    /\ tries' = 0 /\ acked' = "yes" /\ got' = <<>>
    /\ UNCHANGED <<mstep, mbit, scl, shift>>

MasterRetries ==
    /\ mphase = "again"
    /\ msda' = 0 /\ mphase' = "start"
    /\ tries' = tries + 1 /\ acked' = "yes"
    /\ UNCHANGED <<op, mstep, mbit, scl, shift, got>>

MasterStarts ==
    /\ mphase = "start"
    /\ scl' = 0 /\ mphase' = "address" /\ mstep' = "setup" /\ mbit' = 0 /\ shift' = 0
    /\ UNCHANGED <<op, tries, msda, got, acked>>

IsLast == Len(got) = op.length

(* The level the master gives SDA for the next clock. *)
NextSda ==
    CASE mphase = "address" ->
             IF mbit < ADDR_BITS THEN Bit(op.addr, mbit, ADDR_BITS)
             ELSE IF op.rw = "read" THEN 1 ELSE 0
      [] mphase = "data" /\ op.rw = "write" -> Bit(op.byte, mbit, BYTE_BITS)
      [] mphase = "data_ack" /\ op.rw = "read" /\ ~IsLast -> 0
      [] mphase = "stop" -> 0
      [] OTHER -> 1

Clocking == mphase \in {"address", "address_ack", "data", "data_ack", "stop"}

SetSda ==
    /\ Clocking /\ mstep = "setup"
    /\ msda' = NextSda /\ mstep' = "rise"
    /\ UNCHANGED <<op, mphase, mbit, tries, scl, shift, got, acked>>

RaiseScl ==
    /\ Clocking /\ mstep = "rise"
    /\ scl' = 1 /\ mstep' = "fall"
    /\ UNCHANGED <<op, mphase, mbit, tries, msda, shift, got, acked>>

LowerScl(phase, b) ==
    /\ mstep = "fall"
    /\ scl' = 0 /\ mstep' = "setup"
    /\ mphase' = phase /\ mbit' = b
    /\ UNCHANGED <<op, tries, msda>>

AddressClockEnds ==
    /\ mphase = "address"
    /\ IF mbit < ADDR_BITS THEN LowerScl("address", mbit + 1) ELSE LowerScl("address_ack", 0)
    /\ UNCHANGED <<shift, got, acked>>

AddressAckEnds ==
    /\ mphase = "address_ack"
    /\ LowerScl(IF sda = 0 THEN "data" ELSE "stop", 0)
    /\ acked' = IF sda = 0 THEN acked ELSE "no_address"
    /\ UNCHANGED <<shift, got>>

DataClockEnds ==
    /\ mphase = "data"
    /\ IF mbit + 1 < BYTE_BITS
       THEN LowerScl("data", mbit + 1) /\ shift' = 2 * shift + sda /\ UNCHANGED got
       ELSE /\ LowerScl("data_ack", 0)
            /\ shift' = 0
            /\ got' = IF op.rw = "read" THEN Append(got, 2 * shift + sda) ELSE got
    /\ UNCHANGED acked

DataAckEnds ==
    /\ mphase = "data_ack"
    /\ LowerScl(IF op.rw = "read" /\ ~IsLast THEN "data" ELSE "stop", 0)
    /\ acked' = IF op.rw = "write" /\ sda = 1 THEN "no_data" ELSE acked
    /\ UNCHANGED <<shift, got>>

(* The stop condition; a refused address is tried again. *)
MasterStops ==
    /\ mphase = "stop" /\ mstep = "fall"
    /\ msda' = 1 /\ mstep' = "setup"
    /\ mphase' = IF acked = "no_address" /\ tries < RETRIES THEN "again" ELSE "free"
    /\ UNCHANGED <<op, mbit, tries, scl, shift, got, acked>>

(* Every edge but the first of a transfer. *)
MasterContinues ==
    \/ MasterRetries \/ MasterStarts \/ SetSda \/ RaiseScl
    \/ AddressClockEnds \/ AddressAckEnds \/ DataClockEnds \/ DataAckEnds \/ MasterStops

(* The master's processor does something else for more than a millisecond. *)
Stall ==
    /\ ~stalled /\ stalls < STALLS
    /\ mphase # "free"
    /\ stalled' = TRUE /\ stalls' = stalls + 1
    /\ UNCHANGED <<masterVars, dead>>

Resume ==
    /\ stalled /\ ~dead
    /\ stalled' = FALSE
    /\ UNCHANGED <<masterVars, stalls, dead>>

(* The imx233 loses power; the bus without it stays low, or is pulled up. *)
Die ==
    /\ MORTAL /\ ~dead
    /\ dead' = TRUE /\ stalled' = TRUE
    /\ \E l \in {0, 1} : scl' = l /\ msda' = l
    /\ mphase' = "free" /\ mstep' = "setup"
    /\ UNCHANGED <<op, mbit, tries, shift, got, acked, stalls>>
=============================================================================
