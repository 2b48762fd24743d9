---------------------------- MODULE KconfigExpr ----------------------------
(***************************************************************************)
(* The dependency expressions of kconfig, the program that holds the       *)
(* configuration of the image (support/kconfig of the Buildroot tree):     *)
(* what an expression means and the rewriting menu_finalize() puts every   *)
(* dependency through (expr.c).                                            *)
(*                                                                         *)
(* An expression is a tuple <<type, operand, ...>>, <<>> stands for NULL.  *)
(* The C functions rewrite in place, through pointers to the slots of one  *)
(* or two trees.  Here the trees are kept in a triple: two trees and the   *)
(* number of rewritings (trans_count); a slot is the path that leads to    *)
(* it, so that two paths are equal where two pointers are.  Copying and    *)
(* freeing have no counterpart.                                            *)
(***************************************************************************)
EXTENDS KconfigTristate, SequencesExt

CONSTANT
    Tristate        \* symbols of type tristate

ASSUME TypesAssumption == Boolean \cap Tristate = {}

Sym(s)        == <<"SYMBOL", s>>
Equal(s, c)   == <<"EQUAL", s, c>>
Unequal(s, c) == <<"UNEQUAL", s, c>>
Not(e)        == <<"NOT", e>>
AndOr(type, a, b) == IF a = <<>> THEN b ELSE IF b = <<>> THEN a
                     ELSE <<type, a, b>>
And(a, b)     == AndOr("AND", a, b)
Or(a, b)      == AndOr("OR", a, b)

YesSym == Sym("y")
NoSym  == Sym("n")
Const  == {"n", "m", "y"}

\* The operand that changes nothing: "y" of an AND, "n" of an OR.
Unit(type) == IF type = "AND" THEN YesSym ELSE NoSym
Zero(type) == IF type = "AND" THEN NoSym ELSE YesSym

-----------------------------------------------------------------------------
(* Meaning: val gives the value of every symbol.                           *)

SymValue(s, val) ==
    CASE s = "n" -> No [] s = "m" -> Mod [] s = "y" -> Yes [] OTHER -> val[s]

\* The text two symbols are compared by.  Without a symbol for modules the
\* text of a symbol that is m is "n".
SymText(s, val) ==
    IF s \in Const THEN s ELSE IF val[s] = Yes THEN "y" ELSE "n"

RECURSIVE CalcValue(_, _)
CalcValue(e, val) ==
    IF e = Null THEN Yes
    ELSE CASE e[1] = "SYMBOL"  -> SymValue(e[2], val)
           [] e[1] = "AND"     -> Lower(CalcValue(e[2], val), CalcValue(e[3], val))
           [] e[1] = "OR"      -> Higher(CalcValue(e[2], val), CalcValue(e[3], val))
           [] e[1] = "NOT"     -> Yes - CalcValue(e[2], val)
           [] e[1] = "EQUAL"   ->
                IF SymText(e[2], val) = SymText(e[3], val) THEN Yes ELSE No
           [] e[1] = "UNEQUAL" ->
                IF SymText(e[2], val) = SymText(e[3], val) THEN No ELSE Yes

-----------------------------------------------------------------------------
(* Slots.                                                                  *)

At(f, p) == FoldLeft(LAMBDA e, i : e[i], f, p)

RECURSIVE Put(_, _, _)
Put(f, p, e) ==
    IF p = <<>> THEN e ELSE [f EXCEPT ![Head(p)] = Put(@, Tail(p), e)]

Type(f, p) == At(f, p)[1]
Left(p)    == Append(p, 2)
Right(p)   == Append(p, 3)

\* Two slots are rewritten, which counts as one rewriting.
PutBoth(f, p, a, q, b) == [Put(Put(f, p, a), q, b) EXCEPT ![3] = @ + 1]

-----------------------------------------------------------------------------
(* expr_eliminate_yn(): y and n as operands disappear.  It does not look   *)
(* below a NOT.                                                            *)

Reduced(type, a, b) ==
    CASE Zero(type) \in {a, b} -> Zero(type)
      [] a = Unit(type)        -> b
      [] b = Unit(type)        -> a
      [] OTHER                 -> <<type, a, b>>

RECURSIVE EliminateYn(_)
EliminateYn(e) ==
    IF e = Null \/ e[1] \notin {"AND", "OR"} THEN e
    ELSE Reduced(e[1], EliminateYn(e[2]), EliminateYn(e[3]))

(* expr_eq(), expr_eliminate_eq(): what two expressions have in common     *)
(* becomes the unit in both.                                               *)

RECURSIVE EliminateEq1(_, _, _, _), ExprEq(_, _)
EliminateEq1(type, f, p, q) ==
    CASE Type(f, p) = type ->
           EliminateEq1(type, EliminateEq1(type, f, Left(p), q), Right(p), q)
      [] Type(f, q) = type ->
           EliminateEq1(type, EliminateEq1(type, f, p, Left(q)), p, Right(q))
      [] At(f, p) = At(f, q) /\ At(f, p) \in {YesSym, NoSym} -> f
      [] ~ExprEq(At(f, p), At(f, q)) -> f
      [] OTHER -> PutBoth(f, p, Unit(type), q, Unit(type))

EliminateEqOf(type, f) ==
    IF type \in {"AND", "OR"} THEN EliminateEq1(type, f, <<1>>, <<2>>) ELSE f
EliminateEqOfSecond(f) ==
    IF Type(f, <<1>>) = Type(f, <<2>>) THEN f ELSE EliminateEqOf(Type(f, <<2>>), f)
WithoutUnits(f) == <<EliminateYn(f[1]), EliminateYn(f[2])>>

EliminateEq(a, b) ==
    WithoutUnits(EliminateEqOfSecond(EliminateEqOf(a[1], <<a, b, 0>>)))

BothSymbol(f) == f[1][1] = "SYMBOL" /\ f[1] = f[2]
ExprEq(a, b) ==
    /\ a[1] = b[1]
    /\ CASE a[1] = "NOT" -> ExprEq(a[2], b[2])
         [] a[1] \in {"AND", "OR"} -> BothSymbol(EliminateEq(a, b))
         [] OTHER -> a = b

-----------------------------------------------------------------------------
(* expr_join_or(), expr_join_and(): one expression for two tests of one    *)
(* symbol; Null where there is none.                                       *)

Tests == {"EQUAL", "UNEQUAL", "SYMBOL"}

TestedSym(e) == IF e[1] = "NOT" THEN e[2][2] ELSE e[2]

Joinable(a, b) ==
    /\ a[1] \in Tests \/ (a[1] = "NOT" /\ a[2][1] \in Tests)
    /\ b[1] \in Tests \/ (b[1] = "NOT" /\ b[2][1] = "SYMBOL")
    /\ TestedSym(a) = TestedSym(b)
    /\ TestedSym(a) \in Boolean \cup Tristate

\* One value of n, m and y is left when two others are not.
RemainingAsCommented(c, d) ==
    IF {c, d} = {"m", "n"} THEN "m" ELSE CHOOSE x \in Const : x \notin {c, d}
Remaining(c, d) == CHOOSE x \in Const : x \notin {c, d}

Both(a, b, type) == a[1] = type /\ b[1] = type
                    /\ a[3] # b[3] /\ {a[3], b[3]} \subseteq Const

JoinOr(s, a, b) ==
    CASE s \in Tristate /\ Both(a, b, "EQUAL") -> Unequal(s, Remaining(a[3], b[3]))
      [] s \in Boolean /\ {a, b} = {Sym(s), Not(Sym(s))} -> YesSym
      [] OTHER -> Null

JoinAnd(s, a, b) ==
    LET mixed == {a[1], b[1]} = {"EQUAL", "UNEQUAL"} /\ {a[3], b[3]} \subseteq Const
    IN  CASE {a, b} = {Sym(s), Equal(s, "y")}   -> Equal(s, "y")
          [] {a, b} = {Sym(s), Unequal(s, "n")} -> Sym(s)
          [] {a, b} = {Sym(s), Unequal(s, "m")} -> Equal(s, "y")
          [] s \in Tristate /\ mixed ->
               IF a[3] = b[3] THEN NoSym ELSE IF a[1] = "EQUAL" THEN a ELSE b
          [] s \in Tristate /\ Both(a, b, "UNEQUAL") -> Equal(s, Remaining(a[3], b[3]))
          [] OTHER -> Null

Join(type, a, b) ==
    IF ExprEq(a, b) THEN a
    ELSE IF ~Joinable(a, b) THEN Null
    ELSE IF type = "OR" THEN JoinOr(TestedSym(a), a, b)
    ELSE JoinAnd(TestedSym(a), a, b)

-----------------------------------------------------------------------------
(* expr_transform(): no tests of bool symbols, no negation but of symbols. *)

RECURSIVE Transform(_)
Negated(a) ==
    CASE a[1] = "NOT"     -> Transform(a[2])
      [] a[1] = "EQUAL"   -> Unequal(a[2], a[3])
      [] a[1] = "UNEQUAL" -> Equal(a[2], a[3])
      [] a[1] = "OR"      -> Transform(<<"AND", Not(a[2]), Not(a[3])>>)
      [] a[1] = "AND"     -> Transform(<<"OR", Not(a[2]), Not(a[3])>>)
      [] a = YesSym       -> NoSym
      [] a = NoSym        -> YesSym
      [] a = Sym("m")     -> a
      [] OTHER            -> Not(a)

Transform(e) ==
    IF e = Null \/ e[1] = "SYMBOL" THEN e
    ELSE IF e[1] \in {"AND", "OR"} THEN <<e[1], Transform(e[2]), Transform(e[3])>>
    ELSE IF e[1] = "NOT" THEN Negated(Transform(e[2]))
    ELSE IF e[2] \notin Boolean \/ e[3] \notin Const THEN e
    ELSE CASE e[3] = "m" -> IF e[1] = "EQUAL" THEN NoSym ELSE YesSym
           [] (e[1] = "EQUAL") = (e[3] = "y") -> Sym(e[2])
           [] OTHER -> Not(Sym(e[2]))

\* expr_trans_bool(): a tristate that is not n, in a dependency of a bool.
RECURSIVE TransBool(_)
TransBool(e) ==
    CASE e = Null                  -> e
      [] e # Null /\ e[1] = "NOT"  -> Not(TransBool(e[2]))
      [] e # Null /\ e[1] \in {"AND", "OR"} ->
           <<e[1], TransBool(e[2]), TransBool(e[3])>>
      [] OTHER -> IF e[1] = "UNEQUAL" /\ e[2] \in Tristate /\ e[3] = "n"
                  THEN Sym(e[2]) ELSE e

-----------------------------------------------------------------------------
(* expr_eliminate_dups(): pairs of operands are joined, opposite operands  *)
(* found, until nothing changes.                                           *)

RECURSIVE EliminateDups1(_, _, _, _)
Paired(type, f, p, q, joined) ==
    IF joined = Null THEN f ELSE PutBoth(f, p, Unit(type), q, joined)
JoinPair(type, f, p, q) == Paired(type, f, p, q, Join(type, At(f, p), At(f, q)))

EliminateDups1(type, f, p, q) ==
    CASE Type(f, p) = type ->
           EliminateDups1(type, EliminateDups1(type, f, Left(p), q), Right(p), q)
      [] Type(f, q) = type ->
           EliminateDups1(type, EliminateDups1(type, f, p, Left(q)), p, Right(q))
      [] p = q -> f
      [] OTHER ->
           JoinPair(type, IF Type(f, p) \in {"AND", "OR"}
                          THEN EliminateDups1(Type(f, p), f, p, p) ELSE f, p, q)

\* expr_extract_eq(): the third component says whether anything was found.
RECURSIVE ExtractEq(_, _, _, _)
ExtractEq(type, f, p, q) ==
    CASE Type(f, p) = type ->
           ExtractEq(type, ExtractEq(type, f, Left(p), q), Right(p), q)
      [] Type(f, q) = type ->
           ExtractEq(type, ExtractEq(type, f, p, Left(q)), p, Right(q))
      [] ExprEq(At(f, p), At(f, q)) -> PutBoth(f, p, Unit(type), q, Unit(type))
      [] OTHER -> f

\* Is nothing left of a when what it shares with b is taken out?
NothingLeft(type, a, f) == (IF f[3] = 0 THEN a ELSE EliminateYn(f[1])) = Unit(type)
Covers(type, a, b) == NothingLeft(type, a, ExtractEq(type, <<a, b, 0>>, <<1>>, <<2>>))

\* The operand at p has been through this function by itself.  It goes if its
\* opposite adds nothing to the operand at q.
Absorbed(f, p, q, own) ==
    IF Covers(IF own = "OR" THEN "AND" ELSE "OR", Transform(Not(At(f, p))), At(f, q))
    THEN [Put(f, p, Unit(own)) EXCEPT ![3] = @ + 1]
    ELSE f

RECURSIVE EliminateDups2(_, _, _, _)
Opposites(f, p, q) ==
    IF p = q \/ Type(f, p) \notin {"AND", "OR"} THEN f
    ELSE Absorbed(EliminateDups2(Type(f, p), f, p, p), p, q, Type(f, p))

\* The C function goes on after it has split the second operand.
EliminateDups2(type, f, p, q) ==
    IF Type(f, p) = type
    THEN EliminateDups2(type, EliminateDups2(type, f, Left(p), q), Right(p), q)
    ELSE Opposites(
           IF Type(f, q) = type
           THEN EliminateDups2(type, EliminateDups2(type, f, p, Left(q)), p, Right(q))
           ELSE f, p, q)

RECURSIVE EliminateDups(_)
UntilNothingChanges(f) == IF f[3] = 0 THEN f[1] ELSE EliminateDups(EliminateYn(f[1]))

EliminateDups(e) ==
    IF e = Null \/ e[1] \notin {"AND", "OR"} THEN e
    ELSE UntilNothingChanges(
           EliminateDups2(e[1], EliminateDups1(e[1], <<e, Null, 0>>, <<1>>, <<1>>),
                          <<1>>, <<1>>))

-----------------------------------------------------------------------------
(* What menu_finalize() asks of a dependency.                              *)

RECURSIVE ContainsSym(_, _)
ContainsSym(e, s) ==
    CASE e = Null -> FALSE
      [] e # Null /\ e[1] \in {"AND", "OR"} -> ContainsSym(e[2], s) \/ ContainsSym(e[3], s)
      [] e # Null /\ e[1] = "NOT" -> ContainsSym(e[2], s)
      [] OTHER -> s \in {e[2], e[Len(e)]}

RECURSIVE DependsSym(_, _)
DependsSym(e, s) ==
    CASE e = Null -> FALSE
      [] e # Null /\ e[1] = "AND" -> DependsSym(e[2], s) \/ DependsSym(e[3], s)
      [] OTHER -> e \in {Sym(s), Equal(s, "y"), Equal(s, "m"), Unequal(s, "n")}

\* expr_trans_compare(): the expression for "e is (not) c".
RECURSIVE TransCompare(_, _, _)
TransCompare(e, type, c) ==
    LET Signed(a) == IF type = "UNEQUAL" THEN Not(a) ELSE a
        Swap      == IF type = "EQUAL" THEN "UNEQUAL" ELSE "EQUAL"
        Pair(t)   == <<t, TransCompare(e[2], "EQUAL", c), TransCompare(e[3], "EQUAL", c)>>
    IN  IF e = Null THEN Signed(Sym(c))
        ELSE CASE e[1] = "SYMBOL" -> <<type, e[2], c>>
               [] e[1] = "NOT"    -> TransCompare(e[2], Swap, c)
               [] e[1] \in {"AND", "OR"} ->
                    Signed(CASE c = "y" -> Pair(e[1])
                             [] c = "n" -> Pair(IF e[1] = "AND" THEN "OR" ELSE "AND")
                             [] c = "m" -> e)
               [] OTHER ->
                    CASE c = "m" -> IF type = "EQUAL" THEN NoSym ELSE YesSym
                      [] (c = "y") = (type = "EQUAL") -> e
                      [] OTHER -> Not(e)

=============================================================================
