------------------------------ MODULE MCKconfig ------------------------------
(* The configuration programs on small Config.in files.                    *)
EXTENDS Kconfig

(* Entries.                                                                *)
Bare == [sym |-> "", choice |-> FALSE, prompt |-> TRUE,
         vis |-> Null, dep |-> Null, defaults |-> <<>>, selects |-> <<>>,
         range |-> <<>>, list |-> <<>>]

Config(s)     == [Bare EXCEPT !.sym = s]
Blind(s)      == [Bare EXCEPT !.sym = s, !.prompt = FALSE]
Choice(s, l)  == [Bare EXCEPT !.sym = s, !.choice = TRUE, !.list = l]
Menu(l)       == [Bare EXCEPT !.list = l]
If(e, l)      == [Bare EXCEPT !.prompt = FALSE, !.dep = e, !.list = l]
Prompt(m, e)  == [m EXCEPT !.vis = e]
Depends(m, e) == [m EXCEPT !.dep = And(@, e)]
Default(m, e, n, if) ==
    [m EXCEPT !.defaults = Append(@, [value |-> e, number |-> n, vis |-> if])]
Select(m, s, if) ==
    [m EXCEPT !.selects = Append(@, [target |-> s, vis |-> if])]
Between(m, lo, hi, if) ==
    [m EXCEPT !.range = Append(@, [lo |-> lo, hi |-> hi, vis |-> if])]

A == Sym("A")
B == Sym("B")
C == Sym("C")
T == Sym("T")

(* A library that is selected, has options of its own and a prompt that     *)
(* can go; what follows it mentions it without being part of it.           *)
Library ==
    Menu(<< Config("A"),
            Prompt(Config("LIB"), A),
            Depends(Default(Config("OPT"), YesSym, 0, Null), Sym("LIB")),
            Depends(Config("OTHER"), Or(Not(Sym("LIB")), A)),
            Select(Default(Config("USER"), A, 0, Null), "LIB", Null) >>)

(* A choice whose members come and go and decide over a number; "A" also    *)
(* limits the number.                                                      *)
Board ==
    Menu(<< Config("A"),
            Default(Choice("BOARD", << Config("M1"),
                                       Depends(Config("M2"), A),
                                       Config("M3") >>),
                    Sym("M2"), 0, Null),
            Between(Default(Default(Depends(Config("SIZE"), Not(Sym("M3"))),
                                  Null, 2, Sym("M2")), Null, 1, Null),
                  1, 2, Not(A)) >>)

(* Menus, "if" and a symbol without a prompt, one in the other.             *)
Nested ==
    Menu(<< Default(Config("A"), YesSym, 0, Null),
            If(A, << Config("B"),
                     Menu(<< Depends(Select(Config("C"), "HELP", B), B),
                             Default(Config("D"), Sym("HELP"), 0, Null) >>) >>),
            Blind("HELP"),
            Default(Blind("AUTO"), YesSym, 0, And(A, Not(Sym("HELP")))) >>)

SomeSessions == {1, 2, 3}

(* Dependencies without programs: comments and a symbol inside an "if",      *)
(* with every dependency of two operands.                                  *)
Outers   == << Not(<<"AND", A, Not(B)>>),
               <<"AND", Unequal("T", "m"), Unequal("T", "n")>> >>
Operands == <<A, Not(A), B, Not(B), Equal("A", "n"), Unequal("B", "m"),
              T, Not(T), Equal("T", "m"), Unequal("T", "n"), Equal("T", "y")>>

Around(outer, first) ==
    LET With(op) == [i \in DOMAIN Operands |-> Depends(Bare, <<op, first, Operands[i]>>)]
    IN  Menu(<< Config("A"), Config("B"), Config("T"),
                If(outer, With("AND") \o With("OR")
                          \o << Prompt(Depends(Config("X"), first), Or(T, outer)) >>) >>)

AllTrees ==
    <<Library, Board, Nested>>
    \o FlattenSeq([o \in DOMAIN Outers |->
          [i \in DOMAIN Operands |-> Around(Outers[o], Operands[i])]])

SomeChanges == <<1, 2, 1>>

(* .config files of earlier times: none, one of another Config.in, one of   *)
(* a choice that was edited by hand, a number that is too large.           *)
SomeFiles ==
    << {<<>>, <<[A |-> No, LIB |-> Yes]>>},
       {<<>>, <<[SIZE |-> 3]>>, <<[M1 |-> Yes, M2 |-> Yes, M3 |-> No]>>},
       {<<>>} >>
=============================================================================
