------------------------------ MODULE DutyCycle ------------------------------
(***************************************************************************)
(* What the power manager promises the imx233 on the wake-up line          *)
(* ATM_FALL_INTO_SPECIAL_STATE1 (PD2), counted in timer periods: after a   *)
(* rise the line stays high for exactly Pulse periods, is grounded, and is *)
(* not raised again before Period periods have passed.  How long it then   *)
(* stays grounded is the business of the implementation (the sleep factor).*)
(***************************************************************************)
EXTENDS Naturals

CONSTANTS Pulse,    \* length of a pulse, in timer periods
          Period    \* least distance of two rises, in timer periods (> Pulse)

VARIABLES line,   \* TRUE while PD2 is high
          age     \* periods since the last rise, counted up to Period

dutyVars == <<line, age>>

OneOlder == IF age < Period THEN age + 1 ELSE Period

Init == line = TRUE /\ age = 0

(* A period passes without a rise; the pulse ends when it is Pulse old. *)
Age ==
    /\ age' = OneOlder
    /\ line' = (line /\ age + 1 # Pulse)

(* The line is raised again, never before Period periods. *)
Rise ==
    /\ age + 1 >= Period
    /\ line' = TRUE
    /\ age' = 0

Next == Age \/ Rise

Spec == Init /\ [][Next]_dutyVars
=============================================================================
