---------------------------- MODULE MCBootCommand ----------------------------
(* The boot command on small cards. *)
EXTENDS BootCommand, FiniteSets

CONSTANTS k1, k2, t1, t2

Nothing == [file |-> FALSE, uname_r |-> Unset, dtb |-> Unset, uuid |-> Unset,
            kernels |-> {}, good |-> {}, trees |-> {}]

(* A uEnv.txt that sets anything; the other kernel is never there. *)
SomeContents(p) ==
    {Nothing} \cup
    {c \in [file : {TRUE}, uname_r : {k1, k2, Unset}, dtb : {t1, Unset}, uuid : {p, Unset},
            kernels : {{}, {k1}}, good : {{}, {k1}}, trees : {{}, {t1}}] :
        /\ c.good \subseteq c.kernels
        /\ c.uname_r = k2 => c.trees = {}}

SomeCards == {<<c, d>> : c \in SomeContents(1), d \in SomeContents(2)}
=============================================================================
