---------------------------- MODULE CommandLink -----------------------------
(***************************************************************************)
(* What an I2C transfer promises the Linux side, without bits and clocks:  *)
(* a command acknowledged by the power manager was executed exactly once,  *)
(* one that is refused was not executed, nothing sent to another device is *)
(* executed or moves the position, and a read returns consecutive          *)
(* registers and leaves the position on the last one.                      *)
(***************************************************************************)
EXTENDS Naturals, Sequences

CONSTANTS Operations,      \* records [addr, rw, byte, length]: what the master asks
          Own,             \* the address of the power manager
          After(_, _),     \* the position after a command
          Following(_),    \* the position after a register that was read on
          Contents(_)      \* the bytes a read of a position can return

VARIABLES request,    \* the current or last operation
          open,       \* TRUE while it is under way
          executed,   \* TRUE once its command was executed
          first,      \* the position when it began
          position,   \* the position now
          accepted,   \* whether the last one was acknowledged throughout
          answer      \* the bytes the last read returned

linkVars == <<request, open, executed, first, position, accepted, answer>>

IsCommand == request.addr = Own /\ request.rw = "write"
IsRead    == request.addr = Own /\ request.rw = "read"

(* The registers a read of n bytes from position p returns. *)
Run(p, n) == LET at[i \in 1 .. n] == IF i = 1 THEN p ELSE Following(at[i - 1]) IN at

Init ==
    /\ request \in Operations
    /\ ~open /\ ~executed /\ ~accepted
    /\ first = 0 /\ position = 0
    /\ answer = <<>>

Ask ==
    /\ ~open /\ open'
    /\ request' \in Operations
    /\ ~executed'
    /\ first' = position
    /\ ~accepted' /\ answer' = <<>>
    /\ UNCHANGED position

Execute ==
    /\ open /\ IsCommand /\ ~executed
    /\ executed'
    /\ position' = After(request.byte, position)
    /\ UNCHANGED <<request, open, first, accepted, answer>>

(* The master wants the next register too. *)
Follow ==
    /\ open /\ IsRead
    /\ position' = Following(position)
    /\ UNCHANGED <<request, open, executed, first, accepted, answer>>

Close ==
    /\ open /\ ~open'
    /\ accepted' \in BOOLEAN
    /\ IsCommand => (accepted' <=> executed)
    /\ IsRead /\ accepted' =>
          LET run == Run(first, request.length)
          IN  /\ position = run[request.length]
              /\ Len(answer') = request.length
              /\ \A i \in 1 .. request.length : answer'[i] \in Contents(run[i])
    /\ UNCHANGED <<request, executed, first, position>>

Next == Ask \/ Execute \/ Follow \/ Close

Spec == Init /\ [][Next]_linkVars
=============================================================================
