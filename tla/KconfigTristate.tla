-------------------------- MODULE KconfigTristate --------------------------
(* The values of kconfig's symbols of type bool (enum tristate, expr.h).   *)
EXTENDS Integers

CONSTANT
    Boolean         \* the symbols of type bool

No  == 0
Mod == 1
Yes == 2

Lower(a, b)  == IF a < b THEN a ELSE b
Higher(a, b) == IF a > b THEN a ELSE b

\* No expression, a NULL pointer.
Null == <<>>

=============================================================================
