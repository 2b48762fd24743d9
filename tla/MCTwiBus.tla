----------------------------- MODULE MCTwiBus -------------------------------
(* The I2C bus on small instances.  As in the code a byte has one bit    *)
(* more than an address, so that a transfer is no multiple of the slave's  *)
(* read loop.                                                              *)
EXTENDS TwiBus

Own == 1
Bytes == 0 .. Pow2[BYTE_BITS] - 1

(* Writes and reads of every address; only the slave is read more than one *)
(* byte.                                                                   *)
AllOperations ==
    [addr : 0 .. Pow2[ADDR_BITS] - 1, rw : {"write"}, byte : Bytes, length : {1}]
    \cup [addr : FOREIGN, rw : {"read"}, byte : Bytes, length : {1}]
    \cup [addr : {Own}, rw : {"read"}, byte : {0}, length : 1 .. 3]

(* Some of each kind, for the run with failures: a long command, another   *)
(* one, and reads that go on.                                              *)
SomeOperations ==
    [addr : {Own} \cup FOREIGN, rw : {"write"}, byte : {0, 5}, length : {1}]
    \cup [addr : {Own}, rw : {"read"}, byte : {0}, length : {2}]
=============================================================================
