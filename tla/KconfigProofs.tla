--------------------------- MODULE KconfigProofs ---------------------------
(***************************************************************************)
(* Theorems about KconfigPrograms: files give back the values they were    *)
(* written from, for every Config.in file that conf_parse() has no error   *)
(* and no warning for.                                                     *)
(*                                                                         *)
(* First about one calculation: symbols depend on one another without a    *)
(* circle, so the values exist and are the only ones that fit the user     *)
(* state.  Then about files: one with Enough lines makes a user state that *)
(* Recalls the values, and what conf_write(), conf_write_defconfig() and   *)
(* conf_write_autoconf() write has enough lines.  Then the invariant of    *)
(* the programs, KconfigInv, step by step.                                 *)
(***************************************************************************)
EXTENDS KconfigPrograms, FiniteSetTheorems, WellFoundedInduction, TLAPS

(* A set of naturals that is not empty has a least element.                *)
LEMMA LeastNatural ==
  ASSUME NEW T, T \subseteq Nat, T # {}
  PROVE \E n \in T : \A m \in T : n <= m
<1> DEFINE Below == {ss \in Nat \X Nat : ss[1] < ss[2]}
<1>1. Below = OpToRel(<, Nat)
  BY Zenon DEF OpToRel
<1>2. IsWellFoundedOn(Below, Nat)
  BY <1>1, NatLessThanWellFounded
<1>3. PICK n \in T : \A m \in T : <<m, n>> \notin Below
  <2> HIDE DEF Below
  <2> QED
    BY <1>2, WFMin
<1>4. ASSUME NEW m \in T PROVE n <= m
  <2>1. m \in Nat /\ n \in Nat
    OBVIOUS
  <2>2. <<m, n>> \in Nat \X Nat /\ <<m, n>>[1] = m /\ <<m, n>>[2] = n
    BY <2>1
  <2>3. ~(m < n)
    BY <1>3, <2>2, Zenon
  <2> QED
    BY <2>1, <2>3
<1> QED
  BY <1>4

(* The first and the last of some indices of a sequence are among them.    *)
LEMMA FirstIndex ==
  ASSUME NEW S, NEW n, S \subseteq 1 .. n, S # {}
  PROVE Min(S) \in S /\ \A i \in S : Min(S) <= i
<1>1. S \subseteq Nat
  OBVIOUS
<1>2. \E i \in S : \A j \in S : i <= j
  BY <1>1, LeastNatural
<1> QED
  BY <1>2 DEF Min

(* The last of some indices of a sequence is one of them.                  *)
LEMMA LastIndex ==
  ASSUME NEW S, NEW n \in Nat, S \subseteq 1 .. n, S # {}
  PROVE Max(S) \in S
<1> DEFINE After == {n - i : i \in S}
<1>1. After \subseteq Nat /\ After # {}
  <2>1. \A i \in S : i \in 1 .. n /\ n - i \in Nat
    OBVIOUS
  <2> QED BY <2>1
<1>2. PICK d \in After : \A m \in After : d <= m
  <2> HIDE DEF After
  <2> QED BY <1>1, LeastNatural
<1>3. PICK i \in S : d = n - i
  OBVIOUS
<1>4. \A j \in S : i >= j
  <2>1. \A j \in S : n - i <= n - j
    BY <1>2, <1>3
  <2> QED BY <2>1
<1> QED
  BY <1>4 DEF Max

-----------------------------------------------------------------------------
(* What a calculation gives, whatever the values it is made from.          *)

(* Calculations on bools give bools.                                       *)
LEMMA Bools ==
  /\ No = 0 /\ Yes = 2 /\ No # Yes
  /\ \A x : AsBool(x) \in {No, Yes}
  /\ \A x, y \in {No, Yes} : Higher(x, y) \in {No, Yes}
BY DEF No, Yes, AsBool, Higher

(* sym_calc_visibility() of a bool or int never gives m.                   *)
LEMMA VisibleIsBool ==
  ASSUME NEW e, NEW val
  PROVE Visible(e, val) \in {No, Yes}
BY Bools DEF Visible

(* What other symbols select is n or y.                                    *)
LEMMA RevDepIsBool ==
  ASSUME NEW t, NEW s, NEW val
  PROVE RevDep(t, s, val) \in {No, Yes}
BY Bools DEF RevDep

(* A symbol nobody has set has a value of its type: n, or the empty text.  *)
LEMMA ZeroValue ==
  ASSUME NEW s
  PROVE 0 \in ValuesOf(s) /\ No \in ValuesOf(s)
BY NumbersAssumption DEF ValuesOf, No

(* The first property that is active is one of them.                       *)
LEMMA FirstActive ==
  ASSUME NEW props, NEW val, IsSequence(props), Active(props, val) # {}
  PROVE /\ Min(Active(props, val)) \in Active(props, val)
        /\ Min(Active(props, val)) \in DOMAIN props
<1>1. Active(props, val) \subseteq 1 .. Len(props)
  BY DEF Active, IsSequence
<1> QED
  BY <1>1, FirstIndex DEF Active

(* A default has the type of its symbol.                                   *)
LEMMA DefaultIsValue ==
  ASSUME NEW t, WellTyped(t), NEW s \in Options(t), NEW val
  PROVE DefaultOf(s, t.entry[s], val) \in ValuesOf(s)
<1> DEFINE props == t.entry[s].defaults
<1>1. CASE Active(props, val) = {}
  BY <1>1, ZeroValue DEF DefaultOf
<1>2. CASE Active(props, val) # {} /\ s \in Boolean
  BY <1>2, Bools DEF DefaultOf, ValuesOf
<1>3. CASE Active(props, val) # {} /\ s \notin Boolean
  <2>1. s \in Syms(t) \ Boolean /\ IsSequence(props)
    BY <1>3 DEF Options, WellTyped
  <2>2. props[Min(Active(props, val))].number \in Numbers
    BY <1>3, <2>1, FirstActive DEF WellTyped
  <2> QED
    BY <1>3, <2>2 DEF DefaultOf, First, ValuesOf
<1> QED
  BY <1>1, <1>2, <1>3

(* What a user may have answered.                                          *)
Users(t) ==
    {user \in [has : SUBSET Syms(t), def : [Options(t) -> {No, Yes} \cup Numbers],
               pick : [ChoiceSyms(t) -> SUBSET Syms(t)]] :
        /\ \A s \in Options(t) : user.def[s] \in ValuesOf(s)
        /\ \A c \in ChoiceSyms(t) : user.pick[c] \subseteq Members(t, c)}

ShownOf(t, c, val) == {x \in Members(t, c) : Visible(t.entry[x], val) # No}

(* A choice has its default among the members that can be seen, if any.    *)
LEMMA DefaultIsShown ==
  ASSUME NEW t, WellTyped(t), NEW c \in ChoiceSyms(t), NEW val,
         ShownOf(t, c, val) # {}
  PROVE ChoiceDefault(t, c, val) \in ShownOf(t, c, val)
<1> DEFINE props  == t.entry[c].defaults
           wanted == {i \in Active(props, val) :
                        Visible(t.entry[Wanted(props[i])], val) # No}
           shown  == VisibleMembers(t, c, val)
<1>1. c \in Syms(t) /\ IsSequence(props) /\ IsSequence(t.members[c])
  BY DEF WellTyped
<1>2. CASE wanted # {}
  <2>1. wanted \subseteq 1 .. Len(props)
    BY <1>1 DEF IsSequence, Active
  <2>2. Min(wanted) \in wanted
    BY <1>2, <2>1, FirstIndex
  <2>3. Min(wanted) \in DOMAIN props
    BY <2>2 DEF Active
  <2>4. Wanted(props[Min(wanted)]) \in ShownOf(t, c, val)
    BY <2>2, <2>3 DEF WellTyped, ShownOf
  <2> QED
    BY <1>2, <2>4 DEF ChoiceDefault
<1>3. CASE wanted = {}
  <2>1. shown # {} /\ shown \subseteq 1 .. Len(t.members[c])
    BY <1>1 DEF IsSequence, VisibleMembers, ShownOf, Members
  <2>2. Min(shown) \in shown
    BY <2>1, FirstIndex
  <2>3. t.members[c][Min(shown)] \in ShownOf(t, c, val)
    BY <2>2 DEF VisibleMembers, ShownOf, Members
  <2> QED
    BY <1>3, <2>1, <2>3 DEF ChoiceDefault
<1> QED
  BY <1>2, <1>3

(* A choice with visible members gives y to one of them.                   *)
LEMMA ChosenIsShown ==
  ASSUME NEW t, WellTyped(t), NEW c \in ChoiceSyms(t), NEW val,
         NEW user, user.pick[c] \subseteq Members(t, c),
         ShownOf(t, c, val) # {}
  PROVE Chosen(t, c, user, val) \in ShownOf(t, c, val)
<1> DEFINE picked == {s \in user.pick[c] : Visible(t.entry[s], val) # No}
<1>1. picked \subseteq ShownOf(t, c, val)
  BY DEF ShownOf
<1>2. picked # {} => (CHOOSE s \in picked : TRUE) \in picked
  BY Zenon
<1> QED
  BY <1>1, <1>2, DefaultIsShown DEF Chosen

(* The range a number has to be in.                                        *)
LEMMA RangeOfNumber ==
  ASSUME NEW t, WellTyped(t), NEW s \in Options(t), s \notin Boolean, NEW val,
         Active(t.entry[s].range, val) # {}
  PROVE LET range == First(t.entry[s].range, val)
        IN  /\ range.lo \in Numbers /\ range.hi \in Numbers
            /\ range.lo \in Int /\ range.hi \in Int /\ range.lo <= range.hi
<1> DEFINE props == t.entry[s].range
<1>1. s \in Syms(t) \ Boolean /\ IsSequence(props)
  BY DEF Options, WellTyped
<1>2. Min(Active(props, val)) \in DOMAIN props
  BY <1>1, FirstActive
<1> QED
  BY <1>1, <1>2, NumbersAssumption DEF First, WellTyped

(* sym_validate_range() leaves a number within the range that holds.       *)
LEMMA ClampedIsValue ==
  ASSUME NEW t, WellTyped(t), NEW s \in Options(t), s \notin Boolean, NEW val,
         NEW x \in ValuesOf(s)
  PROVE /\ Clamped(t.entry[s], x, val) \in ValuesOf(s)
        /\ InRange(t.entry[s], Clamped(t.entry[s], x, val), val)
<1> DEFINE e == t.entry[s]
           range == First(e.range, val)
<1>1. x \in Numbers /\ x \in Int /\ ValuesOf(s) = Numbers
  BY NumbersAssumption DEF ValuesOf
<1>2. CASE InRange(e, x, val)
  BY <1>1, <1>2 DEF Clamped
<1>3. CASE ~InRange(e, x, val)
  <2>1. Active(e.range, val) # {} /\ ~(x \in range.lo .. range.hi)
    BY <1>3 DEF InRange
  <2>2. /\ range.lo \in Numbers /\ range.hi \in Numbers
        /\ range.lo \in Int /\ range.hi \in Int /\ range.lo <= range.hi
    BY <2>1, RangeOfNumber
  <2>3. Clamped(e, x, val) = IF x < range.lo THEN range.lo ELSE range.hi
    BY <1>3 DEF Clamped
  <2>4. Clamped(e, x, val) \in {range.lo, range.hi}
    BY <2>3
  <2>5. Clamped(e, x, val) \in range.lo .. range.hi
    BY <2>2, <2>4
  <2> QED
    BY <1>1, <2>2, <2>4, <2>5 DEF InRange
<1> QED
  BY <1>2, <1>3

(* A number in its range stays as it is.                                   *)
LEMMA ClampedAgain ==
  ASSUME NEW e, NEW x, NEW val, InRange(e, x, val)
  PROVE Clamped(e, x, val) = x
BY DEF Clamped

(* The value before selects and ranges has the type of the symbol.         *)
LEMMA GivenIsValue ==
  ASSUME NEW t, WellTyped(t), NEW user \in Users(t), NEW s \in Options(t), NEW val
  PROVE Given(t, user, val, s) \in ValuesOf(s)
BY DefaultIsValue DEF Given, Users

(* Any calculation gives a symbol one of its values.                       *)
LEMMA ValueOfIsValue ==
  ASSUME NEW t, WellTyped(t), NEW user \in Users(t), NEW s \in Syms(t), NEW val
  PROVE ValueOf(t, user, val, s) \in ValuesOf(s)
<1>1. CASE s \in ChoiceSyms(t)
  <2>1. s \in Boolean
    BY <1>1 DEF WellTyped
  <2> QED
    BY <1>1, <2>1, VisibleIsBool DEF ValueOf, ValuesOf
<1>2. CASE s \in Options(t) /\ IsMember(t, s)
  <2>1. s \in Boolean
    BY <1>2 DEF WellTyped, IsMember, Options
  <2>2. Higher(Given(t, user, val, s), RevDep(t, s, val)) \in {No, Yes}
    BY <1>2, <2>1, GivenIsValue, RevDepIsBool, Bools DEF ValuesOf
  <2> QED
    BY <1>2, <2>1, <2>2 DEF ValueOf, ValuesOf, Options
<1>3. CASE s \in Options(t) /\ ~IsMember(t, s) /\ s \in Boolean
  <2>1. Higher(Given(t, user, val, s), RevDep(t, s, val)) \in {No, Yes}
    BY <1>3, GivenIsValue, RevDepIsBool, Bools DEF ValuesOf
  <2> QED
    BY <1>3, <2>1 DEF ValueOf, ValuesOf, Options
<1>4. CASE s \in Options(t) /\ ~IsMember(t, s) /\ s \notin Boolean
  <2>1. Clamped(t.entry[s], Given(t, user, val, s), val) \in ValuesOf(s)
    BY <1>4, GivenIsValue, ClampedIsValue
  <2> QED
    BY <1>4, <2>1 DEF ValueOf, Options
<1> QED
  BY <1>1, <1>2, <1>3, <1>4 DEF Options

-----------------------------------------------------------------------------
(* One calculation has one result.                                         *)

(* Values that agree on the expressions of an entry agree on what is       *)
(* calculated from it.                                                     *)
LEMMA AskedAlike ==
  ASSUME NEW t, NEW s \in Syms(t), NEW v, NEW w,
         \A e \in Asked(t, s) : ExprValue(e, v) = ExprValue(e, w)
  PROVE /\ Visible(t.entry[s], v) = Visible(t.entry[s], w)
        /\ Active(t.entry[s].defaults, v) = Active(t.entry[s].defaults, w)
        /\ Active(t.entry[s].range, v) = Active(t.entry[s].range, w)
        /\ RevDep(t, s, v) = RevDep(t, s, w)
<1> DEFINE e == t.entry[s]
<1>1. /\ ExprValue(e.vis, v) = ExprValue(e.vis, w)
      /\ ExprValue(t.rev[s], v) = ExprValue(t.rev[s], w)
  BY DEF Asked
<1>2. \A i \in DOMAIN e.defaults :
         ExprValue(e.defaults[i].vis, v) = ExprValue(e.defaults[i].vis, w)
  BY DEF Asked
<1>3. \A i \in DOMAIN e.range :
         ExprValue(e.range[i].vis, v) = ExprValue(e.range[i].vis, w)
  BY DEF Asked
<1> QED
  BY <1>1, <1>2, <1>3 DEF Visible, Active, RevDep

(* Values that agree on the expressions of a symbol give it the same       *)
(* default or user value.                                                  *)
LEMMA GivenAlike ==
  ASSUME NEW t, WellTyped(t), NEW s \in Options(t), NEW v, NEW w, NEW user,
         \A e \in Asked(t, s) : ExprValue(e, v) = ExprValue(e, w)
  PROVE Given(t, user, v, s) = Given(t, user, w, s)
<1> DEFINE e == t.entry[s]
           props == e.defaults
<1>1. s \in Syms(t) /\ s \notin ChoiceSyms(t) /\ IsSequence(props)
  BY DEF Options, WellTyped
<1>2. /\ Visible(e, v) = Visible(e, w)
      /\ Active(props, v) = Active(props, w)
  BY <1>1, AskedAlike
<1>3. CASE Active(props, v) = {}
  BY <1>2, <1>3 DEF Given, DefaultOf
<1>4. CASE Active(props, v) # {}
  <2> DEFINE i == Min(Active(props, v))
  <2>1. i \in DOMAIN props /\ First(props, v) = props[i] /\ First(props, w) = props[i]
    BY <1>1, <1>2, <1>4, FirstActive DEF First
  <2>2. /\ ExprValue(props[i].vis, v) = ExprValue(props[i].vis, w)
        /\ ExprValue(props[i].value, v) = ExprValue(props[i].value, w)
    BY <1>1, <2>1 DEF Asked
  <2>3. DefaultOf(s, e, v) = DefaultOf(s, e, w)
    BY <1>2, <1>4, <2>1, <2>2 DEF DefaultOf
  <2> QED
    BY <1>2, <2>3 DEF Given
<1> QED
  BY <1>3, <1>4

(* Ranges that hold alike bound alike.                                     *)
LEMMA ClampedAlike ==
  ASSUME NEW e, NEW v, NEW w, NEW x, Active(e.range, v) = Active(e.range, w)
  PROVE /\ Clamped(e, x, v) = Clamped(e, x, w)
        /\ InRange(e, x, v) <=> InRange(e, x, w)
BY DEF Clamped, InRange, First

(* A choice looks at its defaults and at what of its members can be seen.  *)
LEMMA ChosenAlike ==
  ASSUME NEW t, WellTyped(t), NEW c \in ChoiceSyms(t), NEW v, NEW w,
         NEW user \in Users(t),
         Active(t.entry[c].defaults, v) = Active(t.entry[c].defaults, w),
         \A x \in Members(t, c) : Visible(t.entry[x], v) = Visible(t.entry[x], w)
  PROVE Chosen(t, c, user, v) = Chosen(t, c, user, w)
<1> DEFINE props == t.entry[c].defaults
<1>1. VisibleMembers(t, c, v) = VisibleMembers(t, c, w)
  BY DEF VisibleMembers, Members
<1>2. \A i \in Active(props, v) :
        Visible(t.entry[Wanted(props[i])], v) = Visible(t.entry[Wanted(props[i])], w)
  BY DEF WellTyped, Active
<1>3. {i \in Active(props, v) : Visible(t.entry[Wanted(props[i])], v) # No}
      = {i \in Active(props, w) : Visible(t.entry[Wanted(props[i])], w) # No}
  BY <1>2
<1>4. ChoiceDefault(t, c, v) = ChoiceDefault(t, c, w)
  BY <1>1, <1>3 DEF ChoiceDefault
<1> DEFINE P(val) == {s \in user.pick[c] : Visible(t.entry[s], val) # No}
<1>5. P(v) = P(w)
  BY DEF Users
<1> DEFINE AnyOf(set) == CHOOSE s \in set : TRUE
<1>6. \A val : Chosen(t, c, user, val) = IF P(val) # {} THEN AnyOf(P(val))
                                          ELSE ChoiceDefault(t, c, val)
  BY Zenon DEF Chosen
<1> HIDE DEF P, AnyOf
<1> QED
  BY <1>4, <1>5, <1>6

(* The value of a symbol depends on nothing but the expressions it looks   *)
(* at.                                                                     *)
LEMMA ValueAlike ==
  ASSUME NEW t, WellTyped(t), NEW s \in Syms(t), NEW v, NEW w, NEW user \in Users(t),
         \A e \in LooksAt(t, s) : ExprValue(e, v) = ExprValue(e, w)
  PROVE ValueOf(t, user, v, s) = ValueOf(t, user, w, s)
<1>1. CASE IsMember(t, s)
  <2> DEFINE c == t.within[s]
  <2>1. c \in ChoiceSyms(t) /\ c \in Syms(t) /\ s \in Members(t, c)
    BY <1>1 DEF WellTyped, IsMember
  <2>2. s \in Options(t) /\ s \in Boolean /\ s \notin ChoiceSyms(t)
    BY <2>1 DEF WellTyped, Options
  <2>3. \A x \in {c} \cup Members(t, c) : x \in Syms(t)
    BY <2>1 DEF WellTyped, Options
  <2>4. \A x \in {c} \cup Members(t, c) : \A e \in Asked(t, x) :
          ExprValue(e, v) = ExprValue(e, w)
    BY <1>1 DEF LooksAt
  <2>5. Active(t.entry[c].defaults, v) = Active(t.entry[c].defaults, w)
    BY <2>1, <2>4, AskedAlike
  <2>6. \A x \in Members(t, c) : Visible(t.entry[x], v) = Visible(t.entry[x], w)
    BY <2>3, <2>4, AskedAlike
  <2>7. Chosen(t, c, user, v) = Chosen(t, c, user, w)
    BY <2>1, <2>5, <2>6, ChosenAlike
  <2>8. /\ Given(t, user, v, s) = Given(t, user, w, s)
        /\ RevDep(t, s, v) = RevDep(t, s, w)
    BY <2>1, <2>2, <2>4, GivenAlike, AskedAlike
  <2>9. Visible(t.entry[s], v) = Visible(t.entry[s], w)
    BY <2>1, <2>6
  <2> QED
    BY <2>2, <2>7, <2>8, <2>9 DEF ValueOf
<1>2. CASE ~IsMember(t, s) /\ s \in Options(t)
  <2>1. \A e \in Asked(t, s) : ExprValue(e, v) = ExprValue(e, w)
    BY <1>2 DEF LooksAt
  <2>2. /\ RevDep(t, s, v) = RevDep(t, s, w)
        /\ Active(t.entry[s].range, v) = Active(t.entry[s].range, w)
    BY <2>1, AskedAlike
  <2>3. Given(t, user, v, s) = Given(t, user, w, s)
    BY <1>2, <2>1, GivenAlike
  <2>4. Clamped(t.entry[s], Given(t, user, v, s), v)
        = Clamped(t.entry[s], Given(t, user, w, s), w)
    BY <2>2, <2>3, ClampedAlike
  <2> QED
    BY <1>2, <2>2, <2>3, <2>4 DEF ValueOf, Options
<1>3. CASE ~IsMember(t, s) /\ s \in ChoiceSyms(t)
  <2>1. \A e \in Asked(t, s) : ExprValue(e, v) = ExprValue(e, w)
    BY <1>3 DEF LooksAt
  <2>2. Visible(t.entry[s], v) = Visible(t.entry[s], w)
    BY <2>1, AskedAlike
  <2> QED
    BY <1>3, <2>2 DEF ValueOf
<1> QED
  BY <1>1, <1>2, <1>3 DEF Options

(* A value that depends on a set of symbols is the same for all valuations *)
(* that agree on them; and it depends on any larger set.                   *)
LEMMA KeptIsValuation ==
  ASSUME NEW t, NEW v \in Valuations(t), NEW set
  PROVE Kept(v, set) \in Valuations(t)
<1>1. DOMAIN v = Syms(t) /\ \A s \in Syms(t) : v[s] \in ValuesOf(s) /\ No \in ValuesOf(s)
  BY ZeroValue DEF Valuations
<1>2. Kept(v, set) \in [Syms(t) -> {No, Yes} \cup Numbers]
  BY <1>1 DEF Kept, ValuesOf
<1> QED
  BY <1>1, <1>2 DEF Kept, Valuations

(* A symbol that depends on some symbols has one value for each valuation  *)
(* of those.                                                               *)
LEMMA DependentAlike ==
  ASSUME NEW t, WellTyped(t), NEW s \in Syms(t), NEW user \in Users(t),
         NEW v \in Valuations(t), NEW w \in Valuations(t), NEW set,
         DependsOn(t, s, set),
         \A x \in Syms(t) \cap set : v[x] = w[x]
  PROVE ValueOf(t, user, v, s) = ValueOf(t, user, w, s)
<1>1. DOMAIN v = Syms(t) /\ DOMAIN w = Syms(t)
  BY DEF Valuations
<1>2. Kept(v, set) = Kept(w, set)
  BY <1>1 DEF Kept
<1>3. \A e \in LooksAt(t, s) : ExprValue(e, v) = ExprValue(e, w)
  BY <1>2 DEF DependsOn
<1> QED
  BY <1>3, ValueAlike

(* Depending on some symbols is depending on more.                         *)
LEMMA DependsOnMore ==
  ASSUME NEW t, NEW s, NEW set, NEW more, set \subseteq more, DependsOn(t, s, set)
  PROVE DependsOn(t, s, more)
<1> SUFFICES ASSUME NEW v \in Valuations(t), NEW e \in LooksAt(t, s)
             PROVE ExprValue(e, v) = ExprValue(e, Kept(v, more))
  BY DEF DependsOn
<1>1. Kept(v, more) \in Valuations(t)
  BY KeptIsValuation
<1>2. Kept(Kept(v, more), set) = Kept(v, set)
  BY DEF Kept
<1>3. ExprValue(e, v) = ExprValue(e, Kept(v, set))
  BY DEF DependsOn
<1>4. ExprValue(e, Kept(v, more)) = ExprValue(e, Kept(Kept(v, more), set))
  BY <1>1 DEF DependsOn
<1> QED
  BY <1>2, <1>3, <1>4

(* Some valuation agrees with its own calculation: one symbol after the    *)
(* other gets its value, each after those it depends on.                   *)
LEMMA CalculationEnds ==
  ASSUME NEW t, WellFormed(t), NEW user \in Users(t)
  PROVE \E v \in Valuations(t) : \A s \in Syms(t) : v[s] = ValueOf(t, user, v, s)
<1> DEFINE Done == {set \in SUBSET Syms(t) :
                      /\ \A x \in set : DependsOn(t, x, set)
                      /\ \E v \in Valuations(t) :
                           \A s \in set : v[s] = ValueOf(t, user, v, s)}
           Left == {Cardinality(Syms(t) \ set) : set \in Done}
<1>1. WellTyped(t) /\ IsFiniteSet(Syms(t)) /\ NotRecursive(t)
  BY DEF WellFormed
<1>2. {} \in Done
  <2>1. [s \in Syms(t) |-> 0] \in Valuations(t)
    BY ZeroValue, NumbersAssumption DEF Valuations
  <2> QED
    BY <2>1
<1>3. \A set \in Done : IsFiniteSet(Syms(t) \ set) /\ Cardinality(Syms(t) \ set) \in Nat
  BY <1>1, FS_Subset, FS_CardinalityType
<1>4. PICK n \in Left : \A m \in Left : n <= m
  <2>1. Left \subseteq Nat /\ Left # {}
    BY <1>2, <1>3
  <2> HIDE DEF Left
  <2> QED BY <2>1, LeastNatural
<1>5. PICK set \in Done : n = Cardinality(Syms(t) \ set)
  BY <1>4
<1>6. PICK v \in Valuations(t) : \A s \in set : v[s] = ValueOf(t, user, v, s)
  BY <1>5
<1>7. set \subseteq Syms(t) /\ \A x \in set : DependsOn(t, x, set)
  BY <1>5
<1>8. CASE set = Syms(t)
  BY <1>6, <1>8
<1>9. CASE set # Syms(t)
  <2>1. PICK s \in Syms(t) \ set : DependsOn(t, s, Syms(t) \ (Syms(t) \ set))
    BY <1>1, <1>7, <1>9 DEF NotRecursive
  <2>2. DependsOn(t, s, set)
    <3>1. Syms(t) \ (Syms(t) \ set) = set
      BY <1>7
    <3> QED BY <2>1, <3>1
  <2> DEFINE w == [v EXCEPT ![s] = ValueOf(t, user, v, s)]
             more == set \cup {s}
  <2>3. ValueOf(t, user, v, s) \in ValuesOf(s)
    BY <1>1, <2>1, ValueOfIsValue
  <2>4. w \in Valuations(t)
    BY <2>1, <2>3 DEF Valuations, ValuesOf
  <2>5. DOMAIN v = Syms(t) /\ w[s] = ValueOf(t, user, v, s)
        /\ \A x \in set : w[x] = v[x]
    BY <1>7, <2>1 DEF Valuations
  <2>6. \A x \in more : DependsOn(t, x, set) /\ x \in Syms(t)
    BY <1>7, <2>1, <2>2
  <2> HIDE DEF w
  <2>7. \A x \in more : ValueOf(t, user, w, x) = ValueOf(t, user, v, x)
    BY <1>1, <2>4, <2>5, <2>6, DependentAlike
  <2>8. \A x \in more : w[x] = ValueOf(t, user, w, x)
    BY <1>6, <2>5, <2>7
  <2>9. \A x \in more : DependsOn(t, x, more)
    BY <2>6, DependsOnMore
  <2>10. more \in Done
    BY <2>4, <2>6, <2>8, <2>9
  <2>11. Cardinality(Syms(t) \ more) < n
    <3>1. Syms(t) \ more = (Syms(t) \ set) \ {s}
      OBVIOUS
    <3>2. /\ IsFiniteSet(Syms(t) \ set) /\ Cardinality(Syms(t) \ set) \in Nat
          /\ s \in Syms(t) \ set
      BY <1>3, <1>5, <2>1
    <3>3. Cardinality((Syms(t) \ set) \ {s}) = Cardinality(Syms(t) \ set) - 1
      BY <3>2, FS_RemoveElement
    <3> DEFINE k == Cardinality(Syms(t) \ set)
    <3>4. k \in Nat /\ n = k /\ Cardinality(Syms(t) \ more) = k - 1
      BY <1>5, <3>1, <3>2, <3>3
    <3> QED BY <3>4
  <2>12. Cardinality(Syms(t) \ more) \in Left
    BY <2>10
  <2>13. n \in Nat /\ Cardinality(Syms(t) \ more) \in Nat
    BY <1>3, <1>5, <2>10
  <2>14. n <= Cardinality(Syms(t) \ more)
    <3> HIDE DEF Left
    <3> QED BY <1>4, <2>12
  <2> QED
    BY <2>11, <2>13, <2>14
<1> QED
  BY <1>8, <1>9

(* No two valuations agree with their own calculation.                     *)
LEMMA CalculationUnique ==
  ASSUME NEW t, WellFormed(t), NEW user \in Users(t),
         NEW v \in Valuations(t), \A s \in Syms(t) : v[s] = ValueOf(t, user, v, s),
         NEW w \in Valuations(t), \A s \in Syms(t) : w[s] = ValueOf(t, user, w, s)
  PROVE v = w
<1> DEFINE differ == {s \in Syms(t) : v[s] # w[s]}
<1>1. WellTyped(t) /\ NotRecursive(t)
  BY DEF WellFormed
<1>2. differ = {}
  <2> SUFFICES ASSUME differ # {} PROVE FALSE
    OBVIOUS
  <2>1. PICK s \in differ : DependsOn(t, s, Syms(t) \ differ)
    BY <1>1 DEF NotRecursive
  <2>2. ValueOf(t, user, v, s) = ValueOf(t, user, w, s)
    BY <1>1, <2>1, DependentAlike
  <2> QED
    BY <2>2
<1> QED
  BY <1>2 DEF Valuations

(* The values of a user state: the one valuation that agrees with its      *)
(* calculation.                                                            *)
LEMMA ValuesAgree ==
  ASSUME NEW t, WellFormed(t), NEW user \in Users(t)
  PROVE /\ Values(t, user) \in Valuations(t)
        /\ \A s \in Syms(t) :
             Values(t, user)[s] = ValueOf(t, user, Values(t, user), s)
<1> DEFINE IsIt(f) == f = [s \in Syms(t) |-> ValueOf(t, user, f, s)]
           val == CHOOSE f : IsIt(f)
<1>1. PICK v \in Valuations(t) : \A s \in Syms(t) : v[s] = ValueOf(t, user, v, s)
  BY CalculationEnds
<1>2. IsIt(v)
  BY <1>1 DEF Valuations
<1>3. IsIt(val)
  <2> HIDE DEF IsIt
  <2> QED BY <1>2
<1>4. DOMAIN val = Syms(t) /\ val = [s \in Syms(t) |-> val[s]]
      /\ \A s \in Syms(t) : val[s] = ValueOf(t, user, val, s)
  <2> HIDE DEF val
  <2> QED BY <1>3
<1>5. Values(t, user) = [s \in Syms(t) |-> val[s]]
  BY DEF Values
<1>6. WellTyped(t)
  BY DEF WellFormed
<1>7. val \in Valuations(t)
  <2> HIDE DEF val
  <2>1. \A s \in Syms(t) : val[s] \in ValuesOf(s)
    BY <1>4, <1>6, ValueOfIsValue
  <2> QED
    BY <1>4, <2>1 DEF Valuations, ValuesOf
<1> HIDE DEF val
<1> QED
  BY <1>4, <1>5, <1>7

(* Whatever fits the user state is what sym_calc_value() calculates.       *)
LEMMA ValuesUnique ==
  ASSUME NEW t, WellFormed(t), NEW user \in Users(t),
         NEW v \in Valuations(t), \A s \in Syms(t) : v[s] = ValueOf(t, user, v, s)
  PROVE Values(t, user) = v
BY ValuesAgree, CalculationUnique

-----------------------------------------------------------------------------
(* What brings values back.                                                *)

(* The values of some user state.                                          *)
Attained(t, v) == \E user \in Users(t) : v = Values(t, user)

(* The values of a user state fit it and have their types.                 *)
LEMMA AttainedAgrees ==
  ASSUME NEW t, WellFormed(t), NEW user \in Users(t), NEW v, v = Values(t, user)
  PROVE /\ WellTyped(t)
        /\ v \in Valuations(t)
        /\ \A s \in Syms(t) : v[s] = ValueOf(t, user, v, s) /\ v[s] \in ValuesOf(s)
<1>1. v \in Valuations(t) /\ \A s \in Syms(t) : v[s] = ValueOf(t, user, v, s)
  BY ValuesAgree
<1> QED
  BY <1>1 DEF Valuations, WellFormed

(* A value of a choice is a bool in the list of that choice.               *)
LEMMA MembersAreTyped ==
  ASSUME NEW t, WellTyped(t), NEW s \in Syms(t), IsMember(t, s)
  PROVE /\ t.within[s] \in ChoiceSyms(t) /\ s \in Members(t, t.within[s])
        /\ s \in Options(t) /\ s \in Boolean /\ s \notin ChoiceSyms(t)
<1>1. t.within[s] \in ChoiceSyms(t) /\ s \in Members(t, t.within[s])
  BY DEF WellTyped, IsMember
<1> QED
  BY <1>1 DEF WellTyped, Options

(* A value of a choice has no default and nothing selects it.              *)
LEMMA MemberDefault ==
  ASSUME NEW t, WellTyped(t), NEW s \in Syms(t), IsMember(t, s), NEW val
  PROVE DefaultOf(s, t.entry[s], val) = No /\ RevDep(t, s, val) = No
<1>1. t.entry[s].defaults = <<>>
  BY DEF WellTyped
<1>2. Active(t.entry[s].defaults, val) = {}
  BY <1>1 DEF Active
<1> QED
  BY <1>2 DEF DefaultOf, RevDep

(* A value of a choice is n when it cannot be seen.                        *)
LEMMA HiddenMember ==
  ASSUME NEW t, WellTyped(t), NEW s \in Syms(t), IsMember(t, s), NEW user, NEW val,
         Visible(t.entry[s], val) = No
  PROVE ValueOf(t, user, val, s) = No
<1>1. s \in Boolean /\ s \notin ChoiceSyms(t)
  BY MembersAreTyped
<1>2. Given(t, user, val, s) = No /\ RevDep(t, s, val) = No
  BY MemberDefault DEF Given
<1>3. Higher(No, No) = No /\ No # Yes
  BY DEF Higher, No, Yes
<1> QED
  BY <1>1, <1>2, <1>3 DEF ValueOf

(* The member that is chosen is y, the others are n.                       *)
LEMMA MemberValue ==
  ASSUME NEW t, WellFormed(t), NEW user \in Users(t), NEW v, v = Values(t, user),
         NEW s \in Syms(t), IsMember(t, s)
  PROVE v[s] = IF /\ Visible(t.entry[s], v) # No
                  /\ Chosen(t, t.within[s], user, v) = s
               THEN Yes ELSE No
<1>1. WellTyped(t) /\ v[s] = ValueOf(t, user, v, s)
  BY AttainedAgrees
<1>2. CASE Visible(t.entry[s], v) = No
  BY <1>1, <1>2, HiddenMember
<1>3. CASE Visible(t.entry[s], v) # No
  <2>1. Visible(t.entry[s], v) = Yes /\ s \notin ChoiceSyms(t)
    BY <1>1, <1>3, VisibleIsBool, MembersAreTyped
  <2> QED
    BY <1>1, <1>3, <2>1 DEF ValueOf
<1> QED
  BY <1>2, <1>3

(* At most one value of a choice is y, the one sym_calc_choice() has       *)
(* chosen.                                                                 *)
LEMMA MemberYes ==
  ASSUME NEW t, WellFormed(t), NEW user \in Users(t), NEW v, v = Values(t, user),
         NEW c \in ChoiceSyms(t), NEW x \in Members(t, c)
  PROVE /\ x \in Options(t) /\ IsMember(t, x) /\ t.within[x] = c /\ x \in Syms(t)
        /\ v[x] = Yes <=> /\ Visible(t.entry[x], v) # No
                          /\ Chosen(t, c, user, v) = x
<1>1. WellTyped(t)
  BY AttainedAgrees
<1>2. x \in Options(t) /\ x \in Syms(t) /\ c # ""
  BY <1>1 DEF WellTyped, Options
<1>3. t.within[x] = c /\ IsMember(t, x)
  BY <1>1, <1>2 DEF WellTyped, IsMember
<1>4. v[x] = IF Visible(t.entry[x], v) # No /\ Chosen(t, c, user, v) = x
             THEN Yes ELSE No
  BY <1>2, <1>3, MemberValue
<1>5. No # Yes
  BY DEF No, Yes
<1>6. v[x] = Yes <=> Visible(t.entry[x], v) # No /\ Chosen(t, c, user, v) = x
  BY <1>4, <1>5
<1> QED
  BY <1>2, <1>3, <1>6, Zenon

(* What a user state needs to bring values back: the value of each visible *)
(* symbol unless the symbol has it anyway, and the chosen member unless it *)
(* is the default.                                                         *)
Recalls(t, user, v) ==
    /\ \A s \in Options(t) :
         ~IsMember(t, s) /\ Visible(t.entry[s], v) # No =>
             IF s \in user.has THEN user.def[s] = v[s]
             ELSE IsDefault(t, s, v) \/ (s \in Boolean /\ RevDep(t, s, v) = Yes)
    /\ \A c \in ChoiceSyms(t) : \A x \in Members(t, c) :
         v[x] = Yes =>
             IF user.pick[c] = {} THEN x = ChoiceDefault(t, c, v)
             ELSE user.pick[c] = {x}

(* A choice whose member is recalled, or is the default anyway, chooses    *)
(* that member again.                                                      *)
LEMMA SameChosen ==
  ASSUME NEW t, WellFormed(t), NEW user \in Users(t), NEW v, v = Values(t, user),
         NEW other \in Users(t), Recalls(t, other, v),
         NEW c \in ChoiceSyms(t), ShownOf(t, c, v) # {}
  PROVE Chosen(t, c, other, v) = Chosen(t, c, user, v)
<1> DEFINE x == Chosen(t, c, user, v)
           picked == {s \in other.pick[c] : Visible(t.entry[s], v) # No}
<1>1. WellTyped(t) /\ user.pick[c] \subseteq Members(t, c)
  BY AttainedAgrees DEF Users
<1>2. x \in Members(t, c) /\ Visible(t.entry[x], v) # No
  BY <1>1, ChosenIsShown DEF ShownOf
<1>3. v[x] = Yes
  BY <1>2, MemberYes
<1>4. IF other.pick[c] = {} THEN x = ChoiceDefault(t, c, v) ELSE other.pick[c] = {x}
  BY <1>2, <1>3 DEF Recalls
<1>5. Chosen(t, c, other, v) = IF picked # {} THEN CHOOSE s \in picked : TRUE
                               ELSE ChoiceDefault(t, c, v)
  BY Zenon DEF Chosen
<1> SUFFICES Chosen(t, c, other, v) = x
  OBVIOUS
<1>6. CASE other.pick[c] = {}
  <2>1. picked = {} /\ x = ChoiceDefault(t, c, v)
    BY <1>4, <1>6
  <2> HIDE DEF picked, x
  <2> QED
    BY <1>5, <2>1
<1>7. CASE other.pick[c] # {}
  <2>1. picked = {x}
    BY <1>2, <1>4, <1>7
  <2>2. (CHOOSE s \in {x} : TRUE) = x
    OBVIOUS
  <2> HIDE DEF picked, x
  <2> QED
    BY <1>5, <2>1, <2>2
<1> QED
  BY <1>6, <1>7

(* Selecting twice is selecting once.                                      *)
LEMMA HigherFacts ==
  \A a, b \in {No, Yes} : /\ Higher(Higher(a, b), b) = Higher(a, b)
                          /\ Higher(a, Yes) = Yes
BY DEF Higher, No, Yes

(* A user state that recalls the values has them calculated again.         *)
LEMMA RecallsRestores ==
  ASSUME NEW t, WellFormed(t), NEW user \in Users(t), NEW v, v = Values(t, user),
         NEW other \in Users(t), Recalls(t, other, v)
  PROVE Values(t, other) = v
<1>1. /\ WellTyped(t) /\ v \in Valuations(t)
      /\ \A s \in Syms(t) : v[s] = ValueOf(t, user, v, s) /\ v[s] \in ValuesOf(s)
  BY AttainedAgrees
<1> SUFFICES ASSUME NEW s \in Syms(t) PROVE v[s] = ValueOf(t, other, v, s)
  BY <1>1, ValuesUnique
<1>2. CASE s \in ChoiceSyms(t)
  BY <1>1, <1>2 DEF ValueOf
<1>3. CASE s \in Options(t) /\ IsMember(t, s) /\ Visible(t.entry[s], v) = No
  BY <1>1, <1>3, HiddenMember
<1>4. CASE s \in Options(t) /\ IsMember(t, s) /\ Visible(t.entry[s], v) # No
  <2>1. t.within[s] \in ChoiceSyms(t) /\ s \in ShownOf(t, t.within[s], v)
    BY <1>1, <1>4, MembersAreTyped DEF ShownOf
  <2>2. Chosen(t, t.within[s], other, v) = Chosen(t, t.within[s], user, v)
    BY <2>1, SameChosen
  <2>3. Visible(t.entry[s], v) = Yes /\ s \notin ChoiceSyms(t)
    BY <1>4, VisibleIsBool DEF Options
  <2> QED
    BY <1>1, <1>4, <2>2, <2>3 DEF ValueOf
<1>5. CASE s \in Options(t) /\ ~IsMember(t, s) /\ s \in Boolean
  <2> DEFINE rev == RevDep(t, s, v)
  <2>1. s \notin ChoiceSyms(t) /\ v[s] = Higher(Given(t, user, v, s), rev)
    BY <1>1, <1>5 DEF ValueOf, Options
  <2>2. ValueOf(t, other, v, s) = Higher(Given(t, other, v, s), rev)
    BY <1>5, <2>1 DEF ValueOf
  <2>3. /\ rev \in {No, Yes} /\ v[s] \in {No, Yes}
        /\ Given(t, user, v, s) \in {No, Yes} /\ Given(t, other, v, s) \in {No, Yes}
    BY <1>1, <1>5, RevDepIsBool, GivenIsValue DEF ValuesOf
  <2>4. CASE Visible(t.entry[s], v) = No
    BY <2>1, <2>2, <2>4 DEF Given
  <2>5. CASE Visible(t.entry[s], v) # No /\ s \in other.has
    <3>1. Given(t, other, v, s) = v[s]
      BY <1>5, <2>5 DEF Given, Recalls
    <3> QED
      BY <2>1, <2>2, <2>3, <3>1, HigherFacts
  <2>6. CASE Visible(t.entry[s], v) # No /\ s \notin other.has
    <3>1. Given(t, other, v, s) = DefaultOf(s, t.entry[s], v)
      BY <2>6 DEF Given
    <3>2. IsDefault(t, s, v) \/ rev = Yes
      BY <1>5, <2>6 DEF Recalls
    <3>3. CASE IsDefault(t, s, v)
      BY <1>5, <2>2, <3>1, <3>3 DEF IsDefault
    <3>4. CASE rev = Yes
      BY <2>1, <2>2, <2>3, <3>4, HigherFacts
    <3> QED BY <3>2, <3>3, <3>4
  <2> QED BY <2>4, <2>5, <2>6
<1>6. CASE s \in Options(t) /\ ~IsMember(t, s) /\ s \notin Boolean
  <2>1. v[s] = Clamped(t.entry[s], Given(t, user, v, s), v)
    BY <1>1, <1>6 DEF ValueOf, Options
  <2>2. ValueOf(t, other, v, s) = Clamped(t.entry[s], Given(t, other, v, s), v)
    BY <1>6 DEF ValueOf, Options
  <2>3. InRange(t.entry[s], v[s], v)
    BY <1>1, <1>6, <2>1, GivenIsValue, ClampedIsValue
  <2>4. Clamped(t.entry[s], v[s], v) = v[s]
    BY <2>3, ClampedAgain
  <2>5. CASE Visible(t.entry[s], v) = No
    BY <2>1, <2>2, <2>5 DEF Given
  <2>6. CASE Visible(t.entry[s], v) # No /\ s \in other.has
    <3>1. Given(t, other, v, s) = v[s]
      BY <1>6, <2>6 DEF Given, Recalls
    <3> QED
      BY <2>2, <2>4, <3>1
  <2>7. CASE Visible(t.entry[s], v) # No /\ s \notin other.has
    <3>1. Given(t, other, v, s) = DefaultOf(s, t.entry[s], v)
      BY <2>7 DEF Given
    <3>2. v[s] = DefaultOf(s, t.entry[s], v)
      BY <1>6, <2>7 DEF Recalls, IsDefault
    <3> QED
      BY <2>2, <2>4, <3>1, <3>2
  <2> QED BY <2>5, <2>6, <2>7
<1> QED
  BY <1>2, <1>3, <1>4, <1>5, <1>6 DEF Options

-----------------------------------------------------------------------------
(* What a file brings back.                                                *)

(* The line that counts for a choice is a line of one of its values.       *)
LEMMA LastYesLine ==
  ASSUME NEW t, WellTyped(t), NEW c \in ChoiceSyms(t), NEW file,
         YesLines(t, c, file) # {}
  PROVE Max(YesLines(t, c, file)) \in YesLines(t, c, file)
<1>1. IsSequence(t.members[c])
  BY DEF WellTyped
<1>2. YesLines(t, c, file) \subseteq 1 .. Len(t.members[c])
      /\ Len(t.members[c]) \in Nat
  BY <1>1 DEF YesLines, IsSequence
<1> QED
  BY <1>2, LastIndex

(* A line of a file has a value of its symbol.                             *)
LEMMA FileValue ==
  ASSUME NEW t, NEW file, IsFile(t, file), NEW s \in DOMAIN file
  PROVE s \in Options(t) /\ file[s] \in ValuesOf(s) /\ file[s] \in {No, Yes} \cup Numbers
BY DEF IsFile, ValuesOf

(* conf_read_simple() makes a user state.                                  *)
LEMMA ReadIsUser ==
  ASSUME NEW t, WellTyped(t), NEW file, IsFile(t, file)
  PROVE ReadSimple(t, file) \in Users(t)
<1> DEFINE user == ReadSimple(t, file)
           has  == DOMAIN file \cup ChoiceSyms(t)
           def  == [s \in Options(t) |-> IF s \in DOMAIN file THEN file[s] ELSE 0]
           pick == [c \in ChoiceSyms(t) |->
                      IF YesLines(t, c, file) = {} THEN {}
                      ELSE {t.members[c][Max(YesLines(t, c, file))]}]
<1>1. user = [has |-> has, def |-> def, pick |-> pick]
  BY DEF ReadSimple
<1>2. has \in SUBSET Syms(t)
  BY DEF IsFile, Options, WellTyped
<1>3. \A s \in Options(t) : def[s] \in ValuesOf(s) /\ def[s] \in {No, Yes} \cup Numbers
  BY FileValue, ZeroValue, NumbersAssumption
<1>4. def \in [Options(t) -> {No, Yes} \cup Numbers]
  BY <1>3
<1>5. \A c \in ChoiceSyms(t) : pick[c] \subseteq Members(t, c)
  <2> SUFFICES ASSUME NEW c \in ChoiceSyms(t), YesLines(t, c, file) # {}
               PROVE t.members[c][Max(YesLines(t, c, file))] \in Members(t, c)
    OBVIOUS
  <2>1. Max(YesLines(t, c, file)) \in DOMAIN t.members[c]
    BY LastYesLine DEF YesLines
  <2> QED
    BY <2>1 DEF Members
<1>6. \A c \in ChoiceSyms(t) : Members(t, c) \subseteq Syms(t)
  BY DEF WellTyped, Options
<1>7. pick \in [ChoiceSyms(t) -> SUBSET Syms(t)]
  BY <1>5, <1>6
<1> HIDE DEF user, has, def, pick
<1> QED
  BY <1>1, <1>2, <1>3, <1>4, <1>5, <1>7 DEF Users, user

(* Taking user values back leaves a user state.                            *)
LEMMA FewerIsUser ==
  ASSUME NEW t, NEW user \in Users(t), NEW has \in SUBSET Syms(t)
  PROVE /\ [user EXCEPT !.has = has] \in Users(t)
        /\ [user EXCEPT !.has = has].has = has
        /\ [user EXCEPT !.has = has].def = user.def
        /\ [user EXCEPT !.has = has].pick = user.pick
BY DEF Users

(* conf_read() leaves a user state, with all but the user values it        *)
(* forgets.                                                                *)
LEMMA LoadedFrom ==
  ASSUME NEW t, WellTyped(t), NEW file, IsFile(t, file)
  PROVE LET user == ReadSimple(t, file)
            val  == Values(t, user)
        IN  /\ Loaded(t, file) \in Users(t)
            /\ Loaded(t, file).has = {s \in user.has : ~Forgotten(t, user, val, s)}
            /\ Loaded(t, file).def = user.def
            /\ Loaded(t, file).pick = user.pick
<1> DEFINE user == ReadSimple(t, file)
           has  == {s \in user.has : ~Forgotten(t, user, Values(t, user), s)}
<1>1. user \in Users(t)
  BY ReadIsUser
<1>2. has \in SUBSET Syms(t)
  BY <1>1 DEF Users
<1>3. Loaded(t, file) = [user EXCEPT !.has = has]
  BY DEF Loaded
<1> HIDE DEF user, has
<1>4. /\ Loaded(t, file) \in Users(t) /\ Loaded(t, file).has = has
      /\ Loaded(t, file).def = user.def /\ Loaded(t, file).pick = user.pick
  BY <1>1, <1>2, <1>3, FewerIsUser
<1> QED
  BY <1>4 DEF has, user

(* What is read of a file: its lines, and the member that is y in it.      *)
LEMMA ReadLines ==
  ASSUME NEW t, WellTyped(t), NEW file, IsFile(t, file)
  PROVE /\ \A s \in Options(t) : s \in ReadSimple(t, file).has <=> s \in DOMAIN file
        /\ \A s \in DOMAIN file : ReadSimple(t, file).def[s] = file[s]
BY DEF ReadSimple, Options, IsFile

(* The value conf_read_simple() picks for a choice.                        *)
LEMMA ReadPick ==
  ASSUME NEW t, NEW file, NEW c \in ChoiceSyms(t)
  PROVE ReadSimple(t, file).pick[c] =
          IF YesLines(t, c, file) = {} THEN {}
          ELSE {t.members[c][Max(YesLines(t, c, file))]}
BY DEF ReadSimple

(* A file has the lines it takes to bring values back.                     *)
Enough(t, file, v) ==
    /\ IsFile(t, file)
    /\ \A s \in DOMAIN file : file[s] = v[s]
    /\ \A s \in Options(t) \ DOMAIN file :
         ~IsMember(t, s) /\ Visible(t.entry[s], v) # No =>
             IsDefault(t, s, v) \/ (s \in Boolean /\ RevDep(t, s, v) = Yes)
    /\ \A c \in ChoiceSyms(t) : \A x \in Members(t, c) \ DOMAIN file :
         v[x] = Yes => x = ChoiceDefault(t, c, v)

(* The file picks the member that was y, or picks none and that one is the *)
(* default.                                                                *)
LEMMA PickedOfFile ==
  ASSUME NEW t, WellFormed(t), NEW user \in Users(t), NEW v, v = Values(t, user),
         NEW file, Enough(t, file, v),
         NEW c \in ChoiceSyms(t), NEW x \in Members(t, c), v[x] = Yes
  PROVE IF ReadSimple(t, file).pick[c] = {} THEN x = ChoiceDefault(t, c, v)
        ELSE ReadSimple(t, file).pick[c] = {x}
<1> DEFINE lines == YesLines(t, c, file)
           last  == t.members[c][Max(lines)]
<1>1. WellTyped(t) /\ IsFile(t, file)
  BY DEF WellFormed, Enough
<1>2. ReadSimple(t, file).pick[c] = IF lines = {} THEN {} ELSE {last}
  BY ReadPick
<1>3. \A y \in Members(t, c) : v[y] = Yes => y = x
  BY MemberYes
<1>4. CASE lines = {}
  <2>1. x \notin DOMAIN file
    <3>1. x \in DOMAIN file => file[x] = Yes
      BY DEF Enough
    <3> QED
      BY <1>4, <3>1 DEF YesLines, Members
  <2> QED
    BY <1>2, <1>4, <2>1 DEF Enough
<1>5. CASE lines # {}
  <2>1. Max(lines) \in lines
    BY <1>1, <1>5, LastYesLine
  <2>2. last \in Members(t, c) /\ last \in DOMAIN file /\ file[last] = Yes
    BY <2>1 DEF YesLines, Members
  <2>3. last = x
    BY <1>3, <2>2 DEF Enough
  <2> HIDE DEF lines, last
  <2> QED
    BY <1>2, <1>5, <2>3
<1> QED
  BY <1>4, <1>5

(* conf_read_simple() of a file with enough lines recalls the values.      *)
LEMMA ReadRecalls ==
  ASSUME NEW t, WellFormed(t), NEW user \in Users(t), NEW v, v = Values(t, user),
         NEW file, Enough(t, file, v)
  PROVE Recalls(t, ReadSimple(t, file), v)
<1>1. WellTyped(t) /\ IsFile(t, file)
  BY DEF WellFormed, Enough
<1>2. ASSUME NEW s \in Options(t), ~IsMember(t, s), Visible(t.entry[s], v) # No
      PROVE IF s \in ReadSimple(t, file).has THEN ReadSimple(t, file).def[s] = v[s]
            ELSE IsDefault(t, s, v) \/ (s \in Boolean /\ RevDep(t, s, v) = Yes)
  <2>1. CASE s \in DOMAIN file
    BY <1>1, <2>1, ReadLines DEF Enough
  <2>2. CASE s \notin DOMAIN file
    BY <1>1, <1>2, <2>2, ReadLines DEF Enough
  <2> QED BY <2>1, <2>2
<1> QED
  BY <1>2, PickedOfFile DEF Recalls

(* conf_read() forgets no line that counts.                                *)
LEMMA LoadedRecalls ==
  ASSUME NEW t, WellFormed(t), NEW user \in Users(t), NEW v, v = Values(t, user),
         NEW file, Enough(t, file, v)
  PROVE Recalls(t, Loaded(t, file), v)
<1> DEFINE read == ReadSimple(t, file)
           kept == Loaded(t, file)
<1>1. /\ WellTyped(t) /\ IsFile(t, file)
      /\ \A s \in Syms(t) : v[s] = ValueOf(t, user, v, s)
  BY AttainedAgrees DEF Enough
<1>2. read \in Users(t) /\ Recalls(t, read, v)
  BY <1>1, ReadIsUser, ReadRecalls
<1>3. Values(t, read) = v
  BY <1>2, RecallsRestores
<1>4. /\ kept.has = {s \in read.has : ~Forgotten(t, read, v, s)}
      /\ kept.def = read.def /\ kept.pick = read.pick
  BY <1>1, <1>3, LoadedFrom
<1> HIDE DEF read, kept
<1>5. ASSUME NEW s \in Options(t), ~IsMember(t, s), Visible(t.entry[s], v) # No
      PROVE s \in read.has => s \in kept.has
  <2>1. CASE s \in Boolean
    BY <1>4, <1>5, <2>1 DEF Forgotten
  <2>2. CASE s \notin Boolean /\ s \in read.has
    <3>1. v[s] = Clamped(t.entry[s], Given(t, user, v, s), v)
      BY <1>1, <1>5, <2>2 DEF ValueOf, Options
    <3>2. InRange(t.entry[s], v[s], v)
      BY <1>1, <1>5, <2>2, <3>1, GivenIsValue, ClampedIsValue
    <3>3. read.def[s] = v[s]
      BY <1>2, <1>5, <2>2 DEF Recalls
    <3> QED
      BY <1>4, <1>5, <2>2, <3>2, <3>3 DEF Forgotten
  <2> QED BY <2>1, <2>2
<1>6. \A s : s \in kept.has => s \in read.has
  BY <1>4
<1> SUFFICES Recalls(t, kept, v)
  BY DEF kept
<1> QED
  BY <1>2, <1>4, <1>5, <1>6 DEF Recalls

(* A file that has enough lines gives the values back to whoever reads it. *)
LEMMA FileRestores ==
  ASSUME NEW t, WellFormed(t), NEW v, Attained(t, v), NEW file, Enough(t, file, v)
  PROVE /\ Values(t, ReadSimple(t, file)) = v
        /\ Values(t, Loaded(t, file)) = v
<1>1. PICK user \in Users(t) : v = Values(t, user)
  BY DEF Attained
<1>2. WellTyped(t) /\ IsFile(t, file)
  BY DEF WellFormed, Enough
<1>3. ReadSimple(t, file) \in Users(t) /\ Loaded(t, file) \in Users(t)
  BY <1>2, ReadIsUser, LoadedFrom
<1> QED
  BY <1>1, <1>3, ReadRecalls, LoadedRecalls, RecallsRestores

(* The lines of some symbols with their values are a file.                 *)
LEMMA LinesAreFile ==
  ASSUME NEW t, NEW v \in Valuations(t), NEW set \in SUBSET Options(t)
  PROVE /\ IsFile(t, Lines(v, set))
        /\ DOMAIN Lines(v, set) = set
        /\ \A s \in set : Lines(v, set)[s] = v[s]
BY DEF Lines, IsFile, Options, Valuations

(* The symbols of a file that conf_write() has written: those that have to *)
(* be there, and values of choices that keep the flag.                     *)
Covered(t, v, set) ==
    /\ WriteSet(t, v) \subseteq set
    /\ set \subseteq Options(t)
    /\ \A s \in set : s \notin WriteSet(t, v) => IsMember(t, s)

(* What can be seen gets a line.                                           *)
LEMMA VisibleWritten ==
  ASSUME NEW t, NEW s \in Options(t), NEW v, Visible(t.entry[s], v) # No
  PROVE s \in WriteSet(t, v)
BY DEF WriteSet, Written

(* What conf_write() writes is enough.                                     *)
LEMMA LinesSuffice ==
  ASSUME NEW t, WellFormed(t), NEW v, Attained(t, v), NEW set, Covered(t, v, set)
  PROVE Enough(t, Lines(v, set), v)
<1>1. PICK user \in Users(t) : v = Values(t, user)
  BY DEF Attained
<1>2. v \in Valuations(t)
  BY <1>1, AttainedAgrees
<1>3. /\ IsFile(t, Lines(v, set)) /\ DOMAIN Lines(v, set) = set
      /\ \A s \in set : Lines(v, set)[s] = v[s]
  BY <1>2, LinesAreFile DEF Covered
<1>4. \A s \in Options(t) \ set : Visible(t.entry[s], v) = No
  BY VisibleWritten DEF Covered
<1>5. \A c \in ChoiceSyms(t) : \A x \in Members(t, c) : v[x] = Yes => x \in set
  BY <1>1, <1>4, MemberYes
<1> QED
  BY <1>3, <1>4, <1>5 DEF Enough

(* What conf_write_defconfig() writes is enough: a line it leaves out says *)
(* what is the default, the selected value or the default member without   *)
(* it.                                                                     *)
LEMMA MinimalSuffices ==
  ASSUME NEW t, WellFormed(t), NEW v, Attained(t, v)
  PROVE Enough(t, Minimal(t, v), v)
<1> DEFINE kept == {s \in WriteSet(t, v) : /\ Changeable(t, s, v)
                                           /\ ~IsDefault(t, s, v)
                                           /\ ~Obvious(t, s, v)}
<1>1. PICK user \in Users(t) : v = Values(t, user)
  BY DEF Attained
<1>2. WellTyped(t) /\ v \in Valuations(t)
  BY <1>1, AttainedAgrees
<1>3. kept \in SUBSET Options(t) /\ Minimal(t, v) = Lines(v, kept)
  BY DEF WriteSet, Minimal
<1> HIDE DEF kept
<1>4. /\ IsFile(t, Minimal(t, v)) /\ DOMAIN Minimal(t, v) = kept
      /\ \A s \in kept : Minimal(t, v)[s] = v[s]
  BY <1>2, <1>3, LinesAreFile
<1>5. ASSUME NEW s \in Options(t), Visible(t.entry[s], v) # No, s \notin kept
      PROVE ~Changeable(t, s, v) \/ IsDefault(t, s, v) \/ Obvious(t, s, v)
  BY <1>5, VisibleWritten DEF kept
<1>6. ASSUME NEW s \in Options(t), Visible(t.entry[s], v) # No, ~Changeable(t, s, v)
      PROVE RevDep(t, s, v) = Yes /\ s \in Boolean
  <2>1. /\ Visible(t.entry[s], v) = Yes
        /\ RevDep(t, s, v) \in {No, Yes} /\ RevDep(t, s, v) # No
    BY <1>6, VisibleIsBool, RevDepIsBool DEF Changeable, No, Yes
  <2>2. s \notin Boolean => RevDep(t, s, v) = No
    BY <1>2 DEF RevDep, WellTyped, Options
  <2> QED
    BY <2>1, <2>2
<1>7. ASSUME NEW c \in ChoiceSyms(t), NEW x \in Members(t, c), x \notin kept, v[x] = Yes
      PROVE x = ChoiceDefault(t, c, v)
  <2>1. /\ x \in Options(t) /\ IsMember(t, x) /\ t.within[x] = c /\ x \in Syms(t)
        /\ Visible(t.entry[x], v) # No
    BY <1>1, <1>7, MemberYes
  <2>2. DefaultOf(x, t.entry[x], v) = No /\ RevDep(t, x, v) = No
    BY <1>2, <2>1, MemberDefault
  <2>3. x \in Boolean
    BY <1>2, <2>1, MembersAreTyped
  <2>4. ~IsDefault(t, x, v)
    BY <1>7, <2>2, <2>3 DEF IsDefault, Higher, No, Yes
  <2>5. Changeable(t, x, v)
    BY <1>6, <2>1, <2>2, Bools
  <2> QED
    BY <1>5, <1>7, <2>1, <2>4, <2>5 DEF Obvious
<1>8. ASSUME NEW s \in Options(t) \ kept, ~IsMember(t, s), Visible(t.entry[s], v) # No
      PROVE IsDefault(t, s, v) \/ (s \in Boolean /\ RevDep(t, s, v) = Yes)
  BY <1>5, <1>6, <1>8 DEF Obvious
<1> QED
  BY <1>4, <1>7, <1>8 DEF Enough

(* If conf_read() finds nothing changed, the file is the one that would be *)
(* written.                                                                *)
LEMMA UnchangedFile ==
  ASSUME NEW t, WellFormed(t), NEW file, IsFile(t, file), ~LoadedChanged(t, file)
  PROVE /\ Attained(t, Values(t, Loaded(t, file)))
        /\ Covered(t, Values(t, Loaded(t, file)), WriteSet(t, Values(t, Loaded(t, file))))
        /\ file = Lines(Values(t, Loaded(t, file)), WriteSet(t, Values(t, Loaded(t, file))))
<1> DEFINE read == ReadSimple(t, file)
           v    == Values(t, read)
<1>1. WellTyped(t) /\ read \in Users(t) /\ Attained(t, v)
  BY ReadIsUser DEF WellFormed, Attained
<1>2. \A s \in Options(t) :
        \/ s \in read.has /\ Written(t, s, v) /\ v[s] = read.def[s]
        \/ s \notin read.has /\ ~Written(t, s, v)
  BY DEF LoadedChanged, Unsaved
<1>3. \A s \in Options(t) : s \in read.has <=> s \in DOMAIN file
  BY <1>1, ReadLines
<1>4. \A s \in DOMAIN file : read.def[s] = file[s]
  BY <1>1, ReadLines
<1> HIDE DEF read, v
<1>5. DOMAIN file = WriteSet(t, v)
  BY <1>2, <1>3 DEF WriteSet, IsFile
<1>6. \A s \in WriteSet(t, v) : file[s] = v[s]
  BY <1>2, <1>3, <1>4, <1>5 DEF WriteSet
<1>7. file = Lines(v, WriteSet(t, v))
  BY <1>5, <1>6 DEF Lines, IsFile
<1>8. Covered(t, v, WriteSet(t, v))
  BY DEF Covered, WriteSet
<1>9. Values(t, Loaded(t, file)) = v
  BY <1>1, <1>7, <1>8, LinesSuffice, FileRestores
<1> QED
  BY <1>1, <1>7, <1>8, <1>9

(* auto.conf has the lines of .config that are not n.                      *)
LEMMA PositiveLines ==
  ASSUME NEW t, WellFormed(t), NEW v, Attained(t, v), NEW set, Covered(t, v, set)
  PROVE Positive(t, v)
        = Lines(Lines(v, set), WithoutNo(Lines(v, set), DOMAIN Lines(v, set)))
<1>1. PICK user \in Users(t) : v = Values(t, user)
  BY DEF Attained
<1>2. WellTyped(t) /\ v \in Valuations(t)
  BY <1>1, AttainedAgrees
<1>3. DOMAIN Lines(v, set) = set /\ \A s \in set : Lines(v, set)[s] = v[s]
  BY DEF Lines
<1>4. ASSUME NEW s \in set, s \notin WriteSet(t, v)
      PROVE s \in Boolean /\ v[s] = No
  <2>1. IsMember(t, s) /\ s \in Options(t) /\ s \in Syms(t)
    BY <1>4 DEF Covered, Options
  <2>2. Visible(t.entry[s], v) = No
    BY <1>4, <2>1, VisibleWritten
  <2> QED
    BY <1>1, <1>2, <2>1, <2>2, MemberValue, MembersAreTyped
<1>5. WithoutNo(Lines(v, set), set) = WithoutNo(v, WriteSet(t, v))
  BY <1>3, <1>4 DEF WithoutNo, Covered
<1>6. WithoutNo(v, WriteSet(t, v)) \subseteq set
  BY DEF WithoutNo, Covered
<1> QED
  BY <1>3, <1>5, <1>6 DEF Positive, Lines

-----------------------------------------------------------------------------
(* The invariant of the programs.                                          *)

Files(t) == {file \in UNION {[set -> {No, Yes} \cup Numbers] : set \in SUBSET Options(t)} :
               IsFile(t, file)}
Contents(t) == {<<>>} \cup {<<file>> : file \in Files(t)}

Modes == {"none", "menuconfig", "oldconfig", "olddefconfig", "savedefconfig",
          "silentoldconfig", "defconfig", "allconfig"}
Steps == {"none", "edit", "ask", "write", "rename_old", "rename_new", "auto",
          "open_def", "write_def"}

ToolType(t) ==
    [mode : Modes, step : Steps, then : {"edit", "exit", "auto"}, user : Users(t),
     val : Valuations(t), changed : BOOLEAN, write : SUBSET Options(t)]
FilesType(t) ==
    [config : Contents(t), old : Contents(t), tmp : Contents(t),
     defconfig : Contents(t), auto : Contents(t)]

TypeInv ==
    /\ tool \in ToolType(tree)
    /\ files \in FilesType(tree)
    /\ saved \in {<<>>} \cup {<<v>> : v \in Valuations(tree)}
    /\ faulted \in BOOLEAN

(* What the steps of the programs have in common.                          *)
StepInv ==
    /\ tool.mode = "none" => tool.step = "none"
    /\ tool.step = "edit" \/ tool.then = "edit" => tool.mode = "menuconfig"
    /\ tool.then = "auto" => tool.mode = "silentoldconfig"
    /\ tool.step = "rename_new" => files.config = <<>>

(* The values are those of a user state, if not of the present one.        *)
ValuesInv == tool.mode # "none" => Attained(tree, tool.val)

(* Only menuconfig goes on after a failed rename; it has lost the flags.   *)
HasFlags == tool.mode = "menuconfig" => ~faulted

WriteInv ==
    tool.step \in {"edit", "ask", "write"} /\ tool.changed /\ HasFlags =>
        Covered(tree, tool.val, tool.write)

HoldsLines(t, content, v) ==
    \E set \in SUBSET Options(t) : Covered(t, v, set) /\ content = <<Lines(v, set)>>

TmpInv ==
    tool.step \in {"rename_old", "rename_new"} /\ HasFlags =>
        HoldsLines(tree, files.tmp, tool.val)

(* silentoldconfig leaves .config as it is if it says what is known.       *)
AutoInv ==
    \/ tool.step = "auto"
    \/ tool.mode = "silentoldconfig" /\ tool.step = "ask" /\ ~tool.changed
    => HoldsLines(tree, files.config, tool.val)

(* The configuration that was saved is in .config, or in the old file      *)
(* between the two renames.                                                *)
Saves(t, content, v) ==
    content # <<>> /\ Values(t, Loaded(t, content[1])) = v
SavedInv ==
    saved # <<>> /\ ~faulted =>
        \/ Saves(tree, files.config, saved[1])
        \/ files.config = <<>> /\ Saves(tree, files.old, saved[1])

SessionInv ==
    TypeInv /\ StepInv /\ ValuesInv /\ WriteInv /\ TmpInv /\ AutoInv /\ SavedInv

KconfigInv ==
    /\ tree \in ParsedTrees
    /\ IF tree.n \in Sessions THEN SessionInv
       ELSE tool = Idle(tree) /\ saved = <<>>

-----------------------------------------------------------------------------
(* Files and tools of the right kind.                                      *)

(* A file may be the content of a file.                                    *)
LEMMA FileIsContent ==
  ASSUME NEW t, NEW file, IsFile(t, file)
  PROVE <<file>> \in Contents(t)
<1>1. file \in [DOMAIN file -> {No, Yes} \cup Numbers]
  BY DEF IsFile, ValuesOf
<1>2. DOMAIN file \in SUBSET Options(t)
  BY DEF IsFile
<1>3. file \in Files(t)
  BY <1>1, <1>2 DEF Files
<1> QED
  BY <1>3 DEF Contents

(* What is there is a file that conf_read() takes.                         *)
LEMMA ContentIsFile ==
  ASSUME NEW t, NEW content \in Contents(t), content # <<>>
  PROVE IsFile(t, content[1]) /\ content = <<content[1]>>
<1>1. PICK file \in Files(t) : content = <<file>>
  BY DEF Contents
<1>2. content[1] = file
  BY <1>1
<1> QED
  BY <1>1, <1>2 DEF Files

(* A program that has read nothing has a user state.                       *)
LEMMA FreshIsUser ==
  ASSUME NEW t
  PROVE Fresh(t) \in Users(t)
<1>1. /\ {} \in SUBSET Syms(t)
      /\ [s \in Options(t) |-> 0] \in [Options(t) -> {No, Yes} \cup Numbers]
      /\ [c \in ChoiceSyms(t) |-> {}] \in [ChoiceSyms(t) -> SUBSET Syms(t)]
  BY NumbersAssumption
<1> QED
  BY <1>1, ZeroValue DEF Users, Fresh

(* A choice that counts as new again leaves a user state.                  *)
LEMMA SettledIsUser ==
  ASSUME NEW t, NEW user \in Users(t), NEW val
  PROVE Settled(t, user, val) \in Users(t)
<1> DEFINE has == {s \in user.has :
                     s \in ChoiceSyms(t) =>
                       \A x \in Members(t, s) :
                         x \in user.has \/ Visible(t.entry[x], val) = No}
<1>1. has \in SUBSET Syms(t)
  BY DEF Users
<1>2. Settled(t, user, val) = [user EXCEPT !.has = has]
  BY DEF Settled
<1> QED
  BY <1>1, <1>2, FewerIsUser

(* No program is a program of the right kind.                              *)
LEMMA IdleIsTool ==
  ASSUME NEW t
  PROVE Idle(t) \in ToolType(t)
<1> DEFINE user == Fresh(t)
           val  == [s \in Syms(t) |-> 0]
<1>1. val \in Valuations(t)
  BY ZeroValue, NumbersAssumption DEF Valuations
<1>2. user \in Users(t)
  BY FreshIsUser
<1>3. {} \in SUBSET Options(t)
  OBVIOUS
<1>4. Idle(t) = [mode |-> "none", step |-> "none", then |-> "exit", user |-> user,
                 val |-> val, changed |-> FALSE, write |-> {}]
  BY DEF Idle
<1> HIDE DEF user, val
<1> QED
  BY <1>1, <1>2, <1>3, <1>4 DEF ToolType, Modes, Steps

(* The flags of one calculation are the lines it takes.                    *)
LEMMA WriteSetCovers ==
  ASSUME NEW t, NEW v
  PROVE WriteSet(t, v) \in SUBSET Options(t) /\ Covered(t, v, WriteSet(t, v))
BY DEF WriteSet, Covered

(* Flags kept from an earlier calculation are those of values of choices.  *)
LEMMA FlaggedCovers ==
  ASSUME NEW v, tool.write \subseteq Options(tree)
  PROVE Flagged(v) \in SUBSET Options(tree) /\ Covered(tree, v, Flagged(v))
BY DEF Flagged, WriteSet, Covered

(* Programs are run on trees that conf_parse() has no error for.           *)
LEMMA SessionWellFormed ==
  ASSUME tree \in ParsedTrees, tree.n \in Sessions
  PROVE WellFormed(tree) /\ WellTyped(tree)
BY SessionsAssumption DEF WellFormed

(* A calculation ends, with values of the right types.                     *)
LEMMA AttainedValues ==
  ASSUME NEW t, WellFormed(t), NEW user \in Users(t)
  PROVE Attained(t, Values(t, user)) /\ Values(t, user) \in Valuations(t)
BY ValuesAgree DEF Attained

(* The invariant holds before the first program.                           *)
LEMMA InitEstablishesInv == Init => KconfigInv
<1> SUFFICES ASSUME Init PROVE KconfigInv
  OBVIOUS
<1>1. tree \in ParsedTrees /\ tool = Idle(tree) /\ saved = <<>> /\ faulted = FALSE
  BY DEF Init
<1>2. CASE tree.n \notin Sessions
  BY <1>1, <1>2 DEF KconfigInv
<1>3. CASE tree.n \in Sessions
  <2>1. PICK config \in HandFiles[tree.n] :
          files = [config |-> config, old |-> <<>>, tmp |-> <<>>,
                   defconfig |-> <<>>, auto |-> <<>>]
    BY <1>3 DEF Init
  <2>2. config \in Contents(tree)
    <3>1. config = <<>> \/ (config = <<config[1]>> /\ IsFile(tree, config[1]))
      BY <1>1, <1>3, SessionsAssumption
    <3> QED
      BY <3>1, FileIsContent DEF Contents
  <2>3. files \in FilesType(tree)
    BY <2>1, <2>2 DEF FilesType, Contents
  <2>4. TypeInv
    BY <1>1, <2>3, IdleIsTool DEF TypeInv
  <2>5. tool.mode = "none" /\ tool.step = "none" /\ tool.then = "exit"
    BY <1>1 DEF Idle
  <2>6. SessionInv
    BY <1>1, <2>4, <2>5 DEF SessionInv, StepInv, ValuesInv, WriteInv, TmpInv, AutoInv,
       SavedInv
  <2> QED
    BY <1>1, <1>3, <2>6 DEF KconfigInv
<1> QED
  BY <1>2, <1>3
-----------------------------------------------------------------------------
(* The steps of a program, in a session.                                   *)

(* A program that starts.                                                  *)
LEMMA StartKeeps ==
  ASSUME tree \in ParsedTrees, tree.n \in Sessions, SessionInv, Started,
         NEW mode \in Modes \ {"none"}, NEW step \in {"edit", "ask", "write", "open_def"},
         NEW then \in {"edit", "exit", "auto"}, NEW user \in Users(tree),
         NEW changed \in BOOLEAN, Running(mode, step, then, user, changed),
         step = "edit" \/ then = "edit" => mode = "menuconfig",
         then = "auto" => mode = "silentoldconfig",
         mode = "silentoldconfig" /\ step = "ask" /\ ~changed
           => HoldsLines(tree, files.config, Values(tree, user))
  PROVE SessionInv'
<1> DEFINE val == Values(tree, user)
           settled == Settled(tree, user, val)
           write == WriteSet(tree, val)
<1>1. tool' = [mode |-> mode, step |-> step, then |-> then, user |-> settled,
               val |-> val, changed |-> changed, write |-> write]
  BY DEF Running
<1>2. /\ Attained(tree, val) /\ val \in Valuations(tree)
      /\ settled \in Users(tree)
      /\ write \in SUBSET Options(tree) /\ Covered(tree, val, write)
  BY SessionWellFormed, AttainedValues, SettledIsUser, WriteSetCovers
<1>3. tree' = tree /\ files' = files /\ saved' = saved /\ faulted' = faulted
  BY DEF Started
<1>4. mode = "silentoldconfig" /\ step = "ask" /\ ~changed
        => HoldsLines(tree, files.config, val)
  OBVIOUS
<1> HIDE DEF val, settled, write
<1>5. /\ tool'.mode = mode /\ tool'.step = step /\ tool'.then = then
      /\ tool'.val = val /\ tool'.changed = changed /\ tool'.write = write
  BY <1>1
<1>6. TypeInv'
  <2>1. tool' \in ToolType(tree)
    BY <1>1, <1>2 DEF ToolType, Steps
  <2> QED
    BY <1>3, <2>1 DEF SessionInv, TypeInv
<1>7. StepInv'
  BY <1>5 DEF StepInv, Modes
<1>8. ValuesInv'
  BY <1>2, <1>3, <1>5 DEF ValuesInv
<1>9. WriteInv'
  BY <1>2, <1>3, <1>5 DEF WriteInv
<1>10. TmpInv'
  BY <1>5 DEF TmpInv
<1>11. AutoInv'
  BY <1>3, <1>4, <1>5 DEF AutoInv
<1>12. SavedInv'
  BY <1>3 DEF SessionInv, SavedInv
<1> QED
  BY <1>6, <1>7, <1>8, <1>9, <1>10, <1>11, <1>12 DEF SessionInv

(* What a program reads is a user state; if it finds nothing changed,      *)
(* .config says what it knows.                                             *)
LEMMA ReadingKeeps ==
  ASSUME tree \in ParsedTrees, tree.n \in Sessions, SessionInv, Started,
         NEW mode \in Modes \ {"none"}, NEW step \in {"edit", "ask", "write", "open_def"},
         NEW then \in {"edit", "exit", "auto"}, Reading(mode, step, then),
         step = "edit" \/ then = "edit" => mode = "menuconfig",
         then = "auto" => mode = "silentoldconfig"
  PROVE SessionInv'
<1> USE SessionWellFormed
<1>1. CASE files.config = <<>>
  <2>1. Running(mode, step, then, Fresh(tree), TRUE)
    BY <1>1 DEF Reading
  <2> QED
    BY <2>1, StartKeeps, FreshIsUser
<1>2. CASE files.config # <<>>
  <2> DEFINE file    == files.config[1]
             changed == LoadedChanged(tree, file)
  <2>1. files.config \in Contents(tree)
    BY DEF SessionInv, TypeInv, FilesType
  <2>2. IsFile(tree, file) /\ files.config = <<file>>
    BY <1>2, <2>1, ContentIsFile
  <2>3. Running(mode, step, then, Loaded(tree, file), changed)
    BY <1>2 DEF Reading
  <2>4. Loaded(tree, file) \in Users(tree) /\ changed \in BOOLEAN
    BY <2>2, LoadedFrom DEF LoadedChanged, Unsaved
  <2>5. ~changed => HoldsLines(tree, files.config, Values(tree, Loaded(tree, file)))
    BY <2>2, UnchangedFile, WriteSetCovers DEF HoldsLines
  <2> HIDE DEF file, changed
  <2> QED
    BY <2>3, <2>4, <2>5, StartKeeps
<1> QED
  BY <1>1, <1>2

(* Every program finds a user state in what it reads.                      *)
LEMMA StartsKeepInv ==
  ASSUME tree \in ParsedTrees, tree.n \in Sessions, SessionInv,
         \/ StartMenuconfig \/ StartOldconfig \/ StartOlddefconfig
         \/ StartSavedefconfig \/ StartSilentoldconfig \/ StartDefconfig
         \/ StartAlldefconfig \/ \E answer \in {No, Yes} : StartAll(answer)
  PROVE SessionInv'
<1>1. CASE StartMenuconfig
  BY <1>1, ReadingKeeps DEF StartMenuconfig, Modes
<1>2. CASE StartOldconfig
  BY <1>2, ReadingKeeps DEF StartOldconfig, Modes
<1>3. CASE StartOlddefconfig
  BY <1>3, ReadingKeeps DEF StartOlddefconfig, Modes
<1>4. CASE StartSavedefconfig
  BY <1>4, ReadingKeeps DEF StartSavedefconfig, Modes
<1>5. CASE StartSilentoldconfig
  BY <1>5, ReadingKeeps DEF StartSilentoldconfig, Modes
<1>6. CASE StartDefconfig
  <2>1. files.defconfig \in Contents(tree) /\ files.defconfig # <<>>
    BY <1>6 DEF SessionInv, TypeInv, FilesType, StartDefconfig
  <2>2. Loaded(tree, files.defconfig[1]) \in Users(tree)
    BY <2>1, ContentIsFile, SessionWellFormed, LoadedFrom
  <2> QED
    BY <1>6, <2>2, StartKeeps DEF StartDefconfig, Modes
<1>7. CASE StartAlldefconfig
  BY <1>7, FreshIsUser, StartKeeps DEF StartAlldefconfig, Modes
<1>8. ASSUME NEW answer \in {No, Yes}, StartAll(answer) PROVE SessionInv'
  <2> DEFINE fresh == Fresh(tree)
             has   == Syms(tree) \cap Boolean
             def   == [s \in DOMAIN fresh.def |-> IF s \in Boolean THEN answer ELSE 0]
             user  == [fresh EXCEPT !.has = has, !.def = def]
  <2>1. fresh \in Users(tree)
    BY FreshIsUser
  <2>2. has \in SUBSET Syms(tree)
    OBVIOUS
  <2>3. DOMAIN fresh.def = Options(tree)
    BY <2>1 DEF Users
  <2>4. /\ def \in [Options(tree) -> {No, Yes} \cup Numbers]
        /\ \A s \in Options(tree) : def[s] \in ValuesOf(s)
    BY <2>3, NumbersAssumption DEF ValuesOf
  <2>5. user \in Users(tree)
    <3> HIDE DEF fresh, has, def
    <3> QED BY <2>1, <2>2, <2>4 DEF Users
  <2>6. Started /\ Running("allconfig", "write", "exit", user, TRUE)
    BY <1>8, Zenon DEF StartAll
  <2> HIDE DEF user
  <2> QED
    BY <2>5, <2>6, StartKeeps DEF Modes
<1> QED
  BY <1>1, <1>2, <1>3, <1>4, <1>5, <1>6, <1>7, <1>8
(* An entry: the values are calculated anew, or stay.                      *)
LEMMA EnteredKeeps ==
  ASSUME tree \in ParsedTrees, tree.n \in Sessions, SessionInv,
         tool.step \in {"edit", "ask"},
         NEW user \in Users(tree), NEW cleared, Entered(user, cleared)
  PROVE SessionInv'
<1> DEFINE val     == Values(tree, user)
           settled == Settled(tree, user, val)
           write   == Flagged(val)
<1>1. tree' = tree /\ files' = files /\ saved' = saved /\ faulted' = faulted
  BY DEF Entered
<1>2. tool \in ToolType(tree)
  BY DEF SessionInv, TypeInv
<1>3. SavedInv'
  BY <1>1 DEF SessionInv, SavedInv
<1>4. CASE cleared
  <2>1. tool' = [tool EXCEPT !.user = settled, !.val = val, !.changed = TRUE,
                             !.write = write]
    BY <1>4 DEF Entered
  <2>2. /\ Attained(tree, val) /\ val \in Valuations(tree)
        /\ settled \in Users(tree)
    BY SessionWellFormed, AttainedValues, SettledIsUser
  <2>3. write \in SUBSET Options(tree) /\ Covered(tree, val, write)
    <3>1. tool.write \subseteq Options(tree)
      BY <1>2 DEF ToolType
    <3> QED BY <3>1, FlaggedCovers
  <2> HIDE DEF val, settled, write
  <2>4. tool' \in ToolType(tree)
    BY <1>2, <2>1, <2>2, <2>3 DEF ToolType
  <2>5. /\ tool'.mode = tool.mode /\ tool'.step = tool.step /\ tool'.then = tool.then
        /\ tool'.val = val /\ tool'.changed = TRUE /\ tool'.write = write
    BY <1>2, <2>1 DEF ToolType
  <2>6. TypeInv'
    BY <1>1, <2>4 DEF SessionInv, TypeInv
  <2>7. StepInv'
    BY <1>1, <2>5 DEF SessionInv, StepInv
  <2>8. ValuesInv' /\ WriteInv'
    BY <1>1, <2>2, <2>3, <2>5 DEF ValuesInv, WriteInv
  <2>9. TmpInv' /\ AutoInv'
    BY <2>5 DEF TmpInv, AutoInv
  <2> QED
    BY <1>3, <2>6, <2>7, <2>8, <2>9 DEF SessionInv
<1>5. CASE ~cleared
  <2>1. tool' = [tool EXCEPT !.user = user]
    BY <1>5 DEF Entered
  <2>2. tool' \in ToolType(tree)
    BY <1>2, <2>1 DEF ToolType
  <2>3. /\ tool'.mode = tool.mode /\ tool'.step = tool.step /\ tool'.then = tool.then
        /\ tool'.val = tool.val /\ tool'.changed = tool.changed
        /\ tool'.write = tool.write
    BY <1>2, <2>1 DEF ToolType
  <2>4. TypeInv' /\ StepInv'
    BY <1>1, <2>2, <2>3 DEF SessionInv, TypeInv, StepInv
  <2>5. ValuesInv' /\ WriteInv' /\ TmpInv' /\ AutoInv'
    BY <1>1, <2>3 DEF SessionInv, ValuesInv, WriteInv, HasFlags, TmpInv, AutoInv
  <2> QED
    BY <1>3, <2>4, <2>5 DEF SessionInv
<1> QED
  BY <1>4, <1>5

(* The entries give user states.                                           *)
LEMMA SeenIsUser ==
  ASSUME TypeInv, NEW user \in Seen
  PROVE user \in Users(tree)
<1> DEFINE shown == Markable(Shown(tree.root, tool.val))
<1>1. PICK marked \in SUBSET shown : user = [tool.user EXCEPT !.has = @ \cup marked]
  BY DEF Seen
<1>2. tool.user \in Users(tree)
  BY DEF TypeInv, ToolType
<1>3. shown \subseteq Syms(tree)
  BY DEF Markable, Options
<1>4. tool.user.has \cup marked \in SUBSET Syms(tree)
  BY <1>2, <1>3 DEF Users
<1> HIDE DEF shown
<1> QED
  BY <1>1, <1>2, <1>4, FewerIsUser

(* Setting a symbol to one of its values makes a user state.               *)
LEMMA ValueIsUser ==
  ASSUME NEW t, NEW user \in Users(t), NEW s \in Options(t), NEW x \in ValuesOf(s)
  PROVE [user EXCEPT !.has = @ \cup {s}, !.def[s] = x] \in Users(t)
<1> DEFINE has == user.has \cup {s}
           def == [user.def EXCEPT ![s] = x]
<1>1. /\ user.has \in SUBSET Syms(t)
      /\ user.def \in [Options(t) -> {No, Yes} \cup Numbers]
      /\ \A y \in Options(t) : user.def[y] \in ValuesOf(y)
  BY DEF Users
<1>2. x \in {No, Yes} \cup Numbers
  BY DEF ValuesOf
<1>3. has \in SUBSET Syms(t)
  BY <1>1 DEF Options
<1>4. /\ def \in [Options(t) -> {No, Yes} \cup Numbers]
      /\ \A y \in Options(t) : def[y] \in ValuesOf(y)
  BY <1>1, <1>2
<1>5. [user EXCEPT !.has = @ \cup {s}, !.def[s] = x]
      = [user EXCEPT !.has = has, !.def = def]
  BY DEF Users
<1> HIDE DEF has, def
<1> QED
  BY <1>3, <1>4, <1>5 DEF Users

(* Picking a value of a choice makes a user state.                         *)
LEMMA PickIsUser ==
  ASSUME NEW t, WellTyped(t), NEW user \in Users(t), NEW c \in ChoiceSyms(t),
         NEW s \in Members(t, c), NEW more \in SUBSET Members(t, c)
  PROVE [user EXCEPT !.has = @ \cup {c} \cup more, !.def[s] = Yes, !.pick[c] = {s}]
          \in Users(t)
<1> DEFINE has  == user.has \cup {c} \cup more
           def  == [user.def EXCEPT ![s] = Yes]
           pick == [user.pick EXCEPT ![c] = {s}]
<1>1. /\ user.has \in SUBSET Syms(t)
      /\ user.def \in [Options(t) -> {No, Yes} \cup Numbers]
      /\ \A y \in Options(t) : user.def[y] \in ValuesOf(y)
      /\ user.pick \in [ChoiceSyms(t) -> SUBSET Syms(t)]
      /\ \A d \in ChoiceSyms(t) : user.pick[d] \subseteq Members(t, d)
  BY DEF Users
<1>2. /\ Members(t, c) \subseteq Options(t) \cap Boolean
      /\ Options(t) \subseteq Syms(t) /\ c \in Syms(t)
  BY DEF WellTyped, Options
<1>3. has \in SUBSET Syms(t)
  BY <1>1, <1>2
<1>4. Yes \in ValuesOf(s)
  BY <1>2 DEF ValuesOf
<1>5. /\ def \in [Options(t) -> {No, Yes} \cup Numbers]
      /\ \A y \in Options(t) : def[y] \in ValuesOf(y)
  BY <1>1, <1>4
<1>6. /\ pick \in [ChoiceSyms(t) -> SUBSET Syms(t)]
      /\ \A d \in ChoiceSyms(t) : pick[d] \subseteq Members(t, d)
  BY <1>1, <1>2
<1>7. [user EXCEPT !.has = @ \cup {c} \cup more, !.def[s] = Yes, !.pick[c] = {s}]
      = [user EXCEPT !.has = has, !.def = def, !.pick = pick]
  BY DEF Users
<1> HIDE DEF has, def, pick
<1> QED
  BY <1>3, <1>5, <1>6, <1>7 DEF Users

(* Every answer of the user keeps the invariant.                           *)
LEMMA EntriesKeepInv ==
  ASSUME tree \in ParsedTrees, tree.n \in Sessions, SessionInv,
         \/ \E s \in Syms(tree), answer \in {No, Yes} : SetBool(s, answer)
         \/ \E c \in Syms(tree), s \in Syms(tree) : Pick(c, s)
         \/ \E s \in Syms(tree), x \in Numbers \ {0} : SetNumber(s, x)
  PROVE SessionInv'
<1>1. TypeInv
  BY DEF SessionInv
<1>2. ASSUME NEW s \in Syms(tree), NEW answer \in {No, Yes}, SetBool(s, answer)
      PROVE SessionInv'
  <2>1. PICK user \in Seen :
          Entered([user EXCEPT !.has = @ \cup {s}, !.def[s] = answer],
                  answer # tool.val[s])
    BY <1>2 DEF SetBool
  <2>2. s \in Options(tree) /\ answer \in ValuesOf(s) /\ tool.step \in {"edit", "ask"}
    BY <1>2 DEF SetBool, CanAnswer, ValuesOf
  <2>3. [user EXCEPT !.has = @ \cup {s}, !.def[s] = answer] \in Users(tree)
    BY <1>1, <2>2, SeenIsUser, ValueIsUser
  <2> QED
    BY <2>1, <2>2, <2>3, EnteredKeeps
<1>3. ASSUME NEW c \in Syms(tree), NEW s \in Syms(tree), Pick(c, s) PROVE SessionInv'
  <2> DEFINE shown == VisibleMembers(tree, c, tool.val)
             more  == {tree.members[c][i] : i \in shown}
  <2>1. PICK user \in Seen :
          Entered([user EXCEPT !.has = @ \cup {c} \cup more, !.def[s] = Yes,
                               !.pick[c] = {s}],
                  tool.val[s] # Yes)
    BY <1>3 DEF Pick
  <2>2. /\ c \in ChoiceSyms(tree) /\ s \in Members(tree, c)
        /\ tool.step \in {"edit", "ask"}
    BY <1>3, SessionWellFormed DEF Pick, CanAnswer, WellTyped
  <2>3. more \in SUBSET Members(tree, c)
    BY DEF VisibleMembers, Members
  <2> HIDE DEF more
  <2>4. [user EXCEPT !.has = @ \cup {c} \cup more, !.def[s] = Yes, !.pick[c] = {s}]
          \in Users(tree)
    BY <1>1, <2>2, <2>3, SeenIsUser, PickIsUser, SessionWellFormed
  <2> QED
    BY <2>1, <2>2, <2>4, EnteredKeeps
<1>4. ASSUME NEW s \in Syms(tree), NEW x \in Numbers \ {0}, SetNumber(s, x)
      PROVE SessionInv'
  <2>1. PICK user \in Seen :
          Entered([user EXCEPT !.has = @ \cup {s}, !.def[s] = x],
                  x # tool.user.def[s])
    BY <1>4 DEF SetNumber
  <2>2. s \in Options(tree) /\ x \in ValuesOf(s) /\ tool.step \in {"edit", "ask"}
    BY <1>4 DEF SetNumber, CanAnswer, ValuesOf
  <2>3. [user EXCEPT !.has = @ \cup {s}, !.def[s] = x] \in Users(tree)
    BY <1>1, <2>2, SeenIsUser, ValueIsUser
  <2> QED
    BY <2>1, <2>2, <2>3, EnteredKeeps
<1> QED
  BY <1>2, <1>3, <1>4
(* A program that ends.                                                    *)
LEMMA EndingKeeps ==
  ASSUME tree' = tree, tool' = Idle(tree), files' \in FilesType(tree),
         saved' \in {<<>>} \cup {<<v>> : v \in Valuations(tree)}, faulted' \in BOOLEAN,
         SavedInv'
  PROVE SessionInv'
<1>1. tool'.mode = "none" /\ tool'.step = "none" /\ tool'.then = "exit"
  BY DEF Idle
<1>2. TypeInv'
  BY IdleIsTool DEF TypeInv
<1>3. StepInv' /\ ValuesInv' /\ WriteInv' /\ TmpInv' /\ AutoInv'
  BY <1>1 DEF StepInv, ValuesInv, WriteInv, TmpInv, AutoInv
<1> QED
  BY <1>2, <1>3 DEF SessionInv

(* A program that goes on to another step with the same values.            *)
LEMMA ProceedKeeps ==
  ASSUME SessionInv, NEW step \in {"write", "auto"}, NEW then \in {"edit", "exit", "auto"},
         Proceed(step, then), tool.step \in {"edit", "ask"},
         then = "edit" => tool.mode = "menuconfig",
         then = "auto" => tool.mode = "silentoldconfig",
         step = "auto" => HoldsLines(tree, files.config, tool.val)
  PROVE SessionInv'
<1>1. /\ tool' = [tool EXCEPT !.step = step, !.then = then]
      /\ tree' = tree /\ files' = files /\ saved' = saved /\ faulted' = faulted
  BY DEF Proceed
<1>2. tool \in ToolType(tree)
  BY DEF SessionInv, TypeInv
<1>3. tool' \in ToolType(tree)
  BY <1>1, <1>2 DEF ToolType, Steps
<1>4. /\ tool'.mode = tool.mode /\ tool'.step = step /\ tool'.then = then
      /\ tool'.val = tool.val /\ tool'.changed = tool.changed /\ tool'.write = tool.write
  BY <1>1, <1>2 DEF ToolType
<1>5. TypeInv'
  BY <1>1, <1>3 DEF SessionInv, TypeInv
<1>6. StepInv'
  BY <1>4 DEF SessionInv, StepInv
<1>7. ValuesInv' /\ WriteInv'
  BY <1>1, <1>4 DEF SessionInv, ValuesInv, WriteInv, HasFlags
<1>8. TmpInv'
  BY <1>4 DEF TmpInv
<1>9. AutoInv'
  BY <1>1, <1>4 DEF AutoInv
<1>10. SavedInv'
  BY <1>1 DEF SessionInv, SavedInv
<1> QED
  BY <1>5, <1>6, <1>7, <1>8, <1>9, <1>10 DEF SessionInv

(* So does going on to write; silentoldconfig goes on without only if      *)
(* .config says what is known.                                             *)
LEMMA ProceedsKeepInv ==
  ASSUME SessionInv, Save \/ QuitSave \/ AskedAll
  PROVE SessionInv'
<1>1. tool \in ToolType(tree) /\ StepInv
  BY DEF SessionInv, TypeInv
<1>2. CASE Save
  BY <1>1, <1>2, ProceedKeeps DEF Save, StepInv
<1>3. CASE QuitSave
  BY <1>1, <1>3, ProceedKeeps DEF QuitSave, StepInv
<1>4. CASE AskedAll
  <2>1. tool.then \in {"edit", "exit", "auto"} /\ tool.step = "ask"
    BY <1>1, <1>4 DEF ToolType, AskedAll
  <2>2. CASE tool.mode = "silentoldconfig" /\ ~tool.changed
    <3>1. HoldsLines(tree, files.config, tool.val)
      BY <2>1, <2>2 DEF SessionInv, AutoInv
    <3>2. Proceed("auto", tool.then)
      BY <1>4, <2>2 DEF AskedAll
    <3> QED
      BY <1>1, <2>1, <3>1, <3>2, ProceedKeeps DEF StepInv
  <2>3. CASE ~(tool.mode = "silentoldconfig" /\ ~tool.changed)
    <3>1. Proceed("write", tool.then)
      BY <1>4, <2>3 DEF AskedAll
    <3> QED
      BY <1>1, <2>1, <3>1, ProceedKeeps DEF StepInv
  <2> QED
    BY <2>2, <2>3
<1> QED
  BY <1>2, <1>3, <1>4

(* Nothing was written: menuconfig goes on.                                *)
LEMMA GivesUpKeeps ==
  ASSUME SessionInv, NEW changed \in BOOLEAN, GivesUp(changed),
         tool.step \in {"write", "rename_new"},
         tree' = tree, files' = files, saved' = saved, faulted' \in BOOLEAN,
         faulted => faulted',
         changed /\ ~faulted' => Covered(tree, tool.val, tool.write)
  PROVE SessionInv'
<1>1. tool \in ToolType(tree)
  BY DEF SessionInv, TypeInv
<1>2. SavedInv'
  BY DEF SessionInv, SavedInv
<1>3. CASE tool.then # "edit"
  <2>1. tool' = Idle(tree)
    BY <1>3 DEF GivesUp, Continue
  <2> QED
    BY <1>2, <2>1, EndingKeeps DEF SessionInv, TypeInv
<1>4. CASE tool.then = "edit"
  <2>1. tool' = [tool EXCEPT !.step = "edit", !.then = "edit", !.changed = changed]
    BY <1>4 DEF GivesUp, Continue
  <2>2. tool.mode = "menuconfig"
    BY <1>4 DEF SessionInv, StepInv
  <2>3. tool' \in ToolType(tree)
    BY <1>1, <2>1 DEF ToolType, Steps
  <2>4. /\ tool'.mode = "menuconfig" /\ tool'.step = "edit" /\ tool'.then = "edit"
        /\ tool'.val = tool.val /\ tool'.changed = changed /\ tool'.write = tool.write
    BY <1>1, <2>1, <2>2 DEF ToolType
  <2>5. TypeInv'
    BY <2>3 DEF SessionInv, TypeInv
  <2>6. StepInv' /\ TmpInv' /\ AutoInv'
    BY <2>4 DEF StepInv, TmpInv, AutoInv
  <2>7. ValuesInv'
    BY <2>2, <2>4 DEF SessionInv, ValuesInv
  <2>8. WriteInv'
    BY <2>4 DEF WriteInv, HasFlags
  <2> QED
    BY <1>2, <2>5, <2>6, <2>7, <2>8 DEF SessionInv
<1> QED
  BY <1>3, <1>4

(* So does a failure to open or rename, after which no flags are left.     *)
LEMMA FailuresKeepInv ==
  ASSUME SessionInv, OpenFails \/ RenameFails
  PROVE SessionInv'
<1>1. tool.changed \in BOOLEAN /\ faulted \in BOOLEAN
  BY DEF SessionInv, TypeInv, ToolType
<1>2. CASE OpenFails
  <2>1. tool.changed /\ ~faulted => Covered(tree, tool.val, tool.write)
    BY <1>2 DEF OpenFails, SessionInv, WriteInv, HasFlags
  <2> QED
    BY <1>1, <1>2, <2>1, GivesUpKeeps DEF OpenFails
<1>3. CASE RenameFails
  BY <1>1, <1>3, GivesUpKeeps DEF RenameFails
<1> QED
  BY <1>2, <1>3

(* The lines of a program give back the values that it shows.              *)
LEMMA HeldIsSaved ==
  ASSUME NEW t, WellFormed(t), NEW v, Attained(t, v), NEW content, HoldsLines(t, content, v)
  PROVE Saves(t, content, v)
<1>1. PICK set \in SUBSET Options(t) : Covered(t, v, set) /\ content = <<Lines(v, set)>>
  BY DEF HoldsLines
<1>2. Values(t, Loaded(t, Lines(v, set))) = v
  BY <1>1, LinesSuffice, FileRestores
<1>3. content[1] = Lines(v, set) /\ content # <<>>
  BY <1>1
<1> QED
  BY <1>2, <1>3 DEF Saves
(* The steps of conf_write().                                              *)
LEMMA WriteTmpKeeps ==
  ASSUME tree \in ParsedTrees, tree.n \in Sessions, SessionInv, WriteTmp
  PROVE SessionInv'
<1> DEFINE val == IF tool.changed THEN tool.val ELSE Values(tree, tool.user)
           set == IF tool.changed THEN tool.write ELSE Flagged(val)
<1>1. /\ files' = [files EXCEPT !.tmp = <<Lines(val, set)>>]
      /\ tool' = [tool EXCEPT !.step = "rename_old", !.val = val, !.changed = TRUE,
                              !.write = {}]
      /\ tree' = tree /\ saved' = saved /\ faulted' = faulted /\ tool.step = "write"
  BY DEF WriteTmp
<1>2. /\ tool \in ToolType(tree) /\ files \in FilesType(tree)
      /\ tool.mode # "none"
  BY <1>1 DEF SessionInv, TypeInv, StepInv, ToolType
<1>3. Attained(tree, val) /\ val \in Valuations(tree)
  <2>1. CASE tool.changed
    BY <1>2, <2>1 DEF SessionInv, ValuesInv, ToolType
  <2>2. CASE ~tool.changed
    <3>1. tool.user \in Users(tree)
      BY <1>2 DEF ToolType
    <3> QED
      BY <2>2, <3>1, SessionWellFormed, AttainedValues
  <2> QED BY <2>1, <2>2
<1>4. set \in SUBSET Options(tree) /\ (HasFlags => Covered(tree, val, set))
  <2>1. tool.write \subseteq Options(tree)
    BY <1>2 DEF ToolType
  <2>2. CASE tool.changed
    BY <1>1, <2>1, <2>2 DEF SessionInv, WriteInv
  <2>3. CASE ~tool.changed
    BY <2>1, <2>3, FlaggedCovers
  <2> QED BY <2>2, <2>3
<1> HIDE DEF val, set
<1>5. <<Lines(val, set)>> \in Contents(tree)
  BY <1>3, <1>4, LinesAreFile, FileIsContent
<1>6. /\ tool' \in ToolType(tree) /\ files' \in FilesType(tree)
  BY <1>1, <1>2, <1>3, <1>5 DEF ToolType, FilesType, Steps
<1>7. /\ tool'.mode = tool.mode /\ tool'.step = "rename_old" /\ tool'.then = tool.then
      /\ tool'.val = val
  BY <1>1, <1>2 DEF ToolType
<1>8. /\ files'.tmp = <<Lines(val, set)>>
      /\ files'.config = files.config /\ files'.old = files.old
  BY <1>1, <1>2 DEF FilesType
<1>9. TypeInv'
  BY <1>1, <1>6 DEF SessionInv, TypeInv
<1>10. StepInv'
  BY <1>2, <1>7 DEF SessionInv, StepInv
<1>11. ValuesInv' /\ WriteInv' /\ AutoInv'
  BY <1>1, <1>3, <1>7 DEF ValuesInv, WriteInv, AutoInv
<1>12. TmpInv'
  BY <1>1, <1>4, <1>7, <1>8 DEF TmpInv, HasFlags, HoldsLines
<1>13. SavedInv'
  BY <1>1, <1>8 DEF SessionInv, SavedInv
<1> QED
  BY <1>9, <1>10, <1>11, <1>12, <1>13 DEF SessionInv

(* What was saved is in .config.old from here on.                          *)
LEMMA RenameOldKeeps ==
  ASSUME SessionInv, RenameOld
  PROVE SessionInv'
<1>1. /\ tool' = [tool EXCEPT !.step = "rename_new"]
      /\ tree' = tree /\ saved' = saved /\ faulted' = faulted
      /\ tool.step = "rename_old"
  BY DEF RenameOld
<1>2. /\ tool \in ToolType(tree) /\ files \in FilesType(tree)
  BY DEF SessionInv, TypeInv
<1>3. /\ files' \in FilesType(tree) /\ files'.config = <<>> /\ files'.tmp = files.tmp
      /\ files'.old = IF files.config = <<>> THEN files.old ELSE files.config
  <2>1. CASE files.config = <<>>
    BY <1>2, <2>1 DEF RenameOld
  <2>2. CASE files.config # <<>>
    <3>1. files' = [files EXCEPT !.old = files.config, !.config = <<>>]
      BY <2>2 DEF RenameOld
    <3> QED
      BY <1>2, <2>2, <3>1 DEF FilesType, Contents
  <2> QED BY <2>1, <2>2
<1>4. tool' \in ToolType(tree)
  BY <1>1, <1>2 DEF ToolType, Steps
<1>5. /\ tool'.mode = tool.mode /\ tool'.step = "rename_new" /\ tool'.then = tool.then
      /\ tool'.val = tool.val
  BY <1>1, <1>2 DEF ToolType
<1>6. TypeInv'
  BY <1>1, <1>3, <1>4 DEF SessionInv, TypeInv
<1>7. StepInv'
  BY <1>1, <1>3, <1>5 DEF SessionInv, StepInv
<1>8. ValuesInv' /\ WriteInv' /\ AutoInv'
  BY <1>1, <1>5 DEF SessionInv, ValuesInv, WriteInv, AutoInv
<1>9. TmpInv'
  BY <1>1, <1>3, <1>5 DEF SessionInv, TmpInv, HasFlags
<1>10. SavedInv'
  <2> SUFFICES ASSUME saved # <<>>, ~faulted
               PROVE Saves(tree, files'.old, saved[1])
    BY <1>1, <1>3 DEF SavedInv
  <2>1. \/ Saves(tree, files.config, saved[1])
        \/ files.config = <<>> /\ Saves(tree, files.old, saved[1])
    BY DEF SessionInv, SavedInv
  <2> QED
    BY <1>3, <2>1 DEF Saves
<1> QED
  BY <1>6, <1>7, <1>8, <1>9, <1>10 DEF SessionInv

(* From here on .config holds what the user is told is saved.              *)
LEMMA RenameNewKeeps ==
  ASSUME tree \in ParsedTrees, tree.n \in Sessions, SessionInv, RenameNew
  PROVE SessionInv'
<1>1. /\ files' = [files EXCEPT !.config = files.tmp, !.tmp = <<>>]
      /\ saved' = <<tool.val>> /\ Continue(tool.then, FALSE)
      /\ tree' = tree /\ faulted' = faulted /\ tool.step = "rename_new"
  BY DEF RenameNew
<1>2. /\ tool \in ToolType(tree) /\ files \in FilesType(tree)
  BY DEF SessionInv, TypeInv
<1>3. tool.val \in Valuations(tree) /\ Attained(tree, tool.val) /\ tool.mode # "none"
  BY <1>1, <1>2 DEF ToolType, SessionInv, StepInv, ValuesInv
<1>4. files' \in FilesType(tree) /\ files'.config = files.tmp
  BY <1>1, <1>2 DEF FilesType, Contents
<1>5. HasFlags => HoldsLines(tree, files'.config, tool.val)
  BY <1>1, <1>4 DEF SessionInv, TmpInv
<1>6. SavedInv'
  <2> SUFFICES ASSUME ~faulted PROVE Saves(tree, files'.config, tool.val)
    BY <1>1 DEF SavedInv
  <2> QED
    BY <1>3, <1>5, SessionWellFormed, HeldIsSaved DEF HasFlags
<1>7. saved' \in {<<v>> : v \in Valuations(tree)} /\ faulted' \in BOOLEAN
  BY <1>1, <1>3 DEF SessionInv, TypeInv
<1>8. CASE tool.then = "exit"
  BY <1>1, <1>4, <1>6, <1>7, <1>8, EndingKeeps DEF Continue
<1>9. CASE tool.then # "exit"
  <2>1. tool' = [tool EXCEPT !.step = tool.then, !.then = tool.then, !.changed = FALSE]
    BY <1>1, <1>9 DEF Continue
  <2>2. tool.then \in {"edit", "auto"}
    BY <1>2, <1>9 DEF ToolType
  <2>3. tool' \in ToolType(tree)
    BY <1>2, <2>1, <2>2 DEF ToolType, Steps
  <2>4. /\ tool'.mode = tool.mode /\ tool'.step = tool.then /\ tool'.then = tool.then
        /\ tool'.val = tool.val /\ tool'.changed = FALSE
    BY <1>2, <2>1 DEF ToolType
  <2>5. TypeInv'
    BY <1>1, <1>4, <1>7, <2>3 DEF TypeInv
  <2>6. StepInv'
    BY <1>3, <2>2, <2>4 DEF SessionInv, StepInv
  <2>7. ValuesInv' /\ WriteInv'
    BY <1>1, <1>3, <2>4 DEF ValuesInv, WriteInv
  <2>8. TmpInv'
    BY <2>2, <2>4 DEF TmpInv
  <2>9. AutoInv'
    <3>1. tool'.step # "ask"
      BY <2>2, <2>4
    <3>2. tool'.step = "auto" => tool.mode = "silentoldconfig"
      BY <2>4 DEF SessionInv, StepInv
    <3> QED
      BY <1>1, <1>5, <2>4, <3>1, <3>2 DEF AutoInv, HasFlags
  <2> QED
    BY <1>6, <2>5, <2>6, <2>7, <2>8, <2>9 DEF SessionInv
<1> QED
  BY <1>8, <1>9
(* The other files.                                                        *)
LEMMA WrittenFiles ==
  ASSUME tree \in ParsedTrees, tree.n \in Sessions, TypeInv
  PROVE /\ <<Positive(tree, Values(tree, tool.user))>> \in Contents(tree)
        /\ <<Minimal(tree, Values(tree, tool.user))>> \in Contents(tree)
        /\ <<[s \in {} |-> 0]>> \in Contents(tree)
<1> DEFINE val  == Values(tree, tool.user)
           some == WithoutNo(val, WriteSet(tree, val))
           few  == {s \in WriteSet(tree, val) : /\ Changeable(tree, s, val)
                                                /\ ~IsDefault(tree, s, val)
                                                /\ ~Obvious(tree, s, val)}
<1>1. tool.user \in Users(tree)
  BY DEF TypeInv, ToolType
<1>2. val \in Valuations(tree)
  BY <1>1, SessionWellFormed, AttainedValues
<1>3. some \in SUBSET Options(tree) /\ few \in SUBSET Options(tree)
  BY DEF WithoutNo, WriteSet
<1>4. Positive(tree, val) = Lines(val, some) /\ Minimal(tree, val) = Lines(val, few)
  BY DEF Positive, Minimal
<1> HIDE DEF val, some, few
<1>5. /\ <<Positive(tree, val)>> \in Contents(tree)
      /\ <<Minimal(tree, val)>> \in Contents(tree)
  BY <1>2, <1>3, <1>4, LinesAreFile, FileIsContent
<1>6. IsFile(tree, [s \in {} |-> 0])
  BY DEF IsFile
<1> QED
  BY <1>5, <1>6, FileIsContent DEF val

(* Writing the other files and ending leave .config alone.                 *)
LEMMA OtherFilesKeepInv ==
  ASSUME tree \in ParsedTrees, tree.n \in Sessions, SessionInv,
         WriteAutoconf \/ OpenDefconfig \/ WriteDefconfig \/ End
  PROVE SessionInv'
<1>1. /\ tool \in ToolType(tree) /\ files \in FilesType(tree) /\ TypeInv
      /\ tree' = tree /\ saved' = saved /\ faulted' = faulted
  BY DEF SessionInv, TypeInv, WriteAutoconf, OpenDefconfig, WriteDefconfig, End
<1>2. files' \in FilesType(tree) /\ files'.config = files.config /\ files'.old = files.old
  <2>1. CASE WriteAutoconf
    <3>1. files' = [files EXCEPT !.auto = <<Positive(tree, Values(tree, tool.user))>>]
      BY <2>1 DEF WriteAutoconf
    <3> QED BY <1>1, <3>1, WrittenFiles DEF FilesType
  <2>2. CASE OpenDefconfig
    <3>1. files' = [files EXCEPT !.defconfig = <<[s \in {} |-> 0]>>]
      BY <2>2 DEF OpenDefconfig
    <3> QED BY <1>1, <3>1, WrittenFiles DEF FilesType
  <2>3. CASE WriteDefconfig
    <3>1. files' = [files EXCEPT !.defconfig = <<Minimal(tree, Values(tree, tool.user))>>]
      BY <2>3 DEF WriteDefconfig
    <3> QED BY <1>1, <3>1, WrittenFiles DEF FilesType
  <2>4. CASE End
    <3>1. files' = [files EXCEPT !.tmp = <<>>]
      BY <2>4 DEF End
    <3> QED BY <1>1, <3>1 DEF FilesType, Contents
  <2> QED BY <2>1, <2>2, <2>3, <2>4
<1>3. SavedInv'
  BY <1>1, <1>2 DEF SessionInv, SavedInv
<1>4. CASE WriteAutoconf \/ WriteDefconfig \/ End
  <2>1. tool' = Idle(tree)
    BY <1>4 DEF WriteAutoconf, WriteDefconfig, End
  <2> QED
    BY <1>1, <1>2, <1>3, <2>1, EndingKeeps DEF TypeInv
<1>5. CASE OpenDefconfig
  <2>1. tool' = [tool EXCEPT !.step = "write_def"] /\ tool.step = "open_def"
    BY <1>5 DEF OpenDefconfig
  <2>2. tool' \in ToolType(tree)
    BY <1>1, <2>1 DEF ToolType, Steps
  <2>3. /\ tool'.mode = tool.mode /\ tool'.step = "write_def" /\ tool'.then = tool.then
        /\ tool'.val = tool.val
    BY <1>1, <2>1 DEF ToolType
  <2>4. TypeInv'
    BY <1>1, <1>2, <2>2 DEF TypeInv
  <2>5. StepInv'
    BY <2>1, <2>3 DEF SessionInv, StepInv
  <2>6. ValuesInv' /\ WriteInv' /\ TmpInv' /\ AutoInv'
    BY <1>1, <2>3 DEF SessionInv, ValuesInv, WriteInv, TmpInv, AutoInv
  <2> QED
    BY <1>3, <2>4, <2>5, <2>6 DEF SessionInv
<1> QED
  BY <1>4, <1>5

(* A tree that no program is run on: nothing happens.                      *)
LEMMA NoSession ==
  ASSUME tool = Idle(tree), tree.n \notin Sessions, Next
  PROVE FALSE
<1>1. tool.mode = "none" /\ tool.step = "none"
  BY DEF Idle
<1> QED
  BY <1>1 DEF Next, Started, StartMenuconfig, StartOldconfig, StartOlddefconfig,
     StartSavedefconfig, StartSilentoldconfig, StartDefconfig, StartAlldefconfig, StartAll,
     CanAnswer, SetBool, Pick, SetNumber, Save, QuitSave, AskedAll, OpenFails, WriteTmp,
     RenameOld, RenameNew, RenameFails, WriteAutoconf, OpenDefconfig, WriteDefconfig, End

(* Starting a program writes no file.                                      *)
LEMMA StartsKeepFiles ==
  ASSUME \/ StartMenuconfig \/ StartOldconfig \/ StartOlddefconfig
         \/ StartSavedefconfig \/ StartSilentoldconfig \/ StartDefconfig
         \/ StartAlldefconfig \/ \E answer \in {No, Yes} : StartAll(answer)
  PROVE files' = files /\ tree' = tree
<1>1. Started
  BY DEF StartMenuconfig, StartOldconfig, StartOlddefconfig, StartSavedefconfig,
     StartSilentoldconfig, StartDefconfig, StartAlldefconfig, StartAll
<1> QED
  BY <1>1 DEF Started

(* Nor does an answer.                                                     *)
LEMMA EntriesKeepFiles ==
  ASSUME \/ \E s \in Syms(tree), answer \in {No, Yes} : SetBool(s, answer)
         \/ \E c \in Syms(tree), s \in Syms(tree) : Pick(c, s)
         \/ \E s \in Syms(tree), x \in Numbers \ {0} : SetNumber(s, x)
  PROVE files' = files /\ tree' = tree
<1>1. ASSUME NEW user, NEW cleared, Entered(user, cleared)
      PROVE files' = files /\ tree' = tree
  BY <1>1 DEF Entered
<1>2. ASSUME NEW s, NEW answer, SetBool(s, answer) PROVE files' = files /\ tree' = tree
  BY <1>1, <1>2, Zenon DEF SetBool
<1>3. ASSUME NEW c, NEW s, Pick(c, s) PROVE files' = files /\ tree' = tree
  BY <1>1, <1>3, Zenon DEF Pick
<1>4. ASSUME NEW s, NEW x, SetNumber(s, x) PROVE files' = files /\ tree' = tree
  BY <1>1, <1>4, Zenon DEF SetNumber
<1> QED
  BY <1>2, <1>3, <1>4, Zenon

(* The Config.in file is parsed once.                                      *)
LEMMA TreeStays ==
  ASSUME Next
  PROVE tree' = tree
<1>1. CASE \/ StartMenuconfig \/ StartOldconfig \/ StartOlddefconfig
           \/ StartSavedefconfig \/ StartSilentoldconfig \/ StartDefconfig
           \/ StartAlldefconfig \/ \E answer \in {No, Yes} : StartAll(answer)
  BY <1>1, StartsKeepFiles
<1>2. CASE \/ \E s \in Syms(tree), answer \in {No, Yes} : SetBool(s, answer)
           \/ \E c \in Syms(tree), s \in Syms(tree) : Pick(c, s)
           \/ \E s \in Syms(tree), x \in Numbers \ {0} : SetNumber(s, x)
  BY <1>2, EntriesKeepFiles
<1>3. CASE \/ Save \/ QuitSave \/ AskedAll \/ OpenFails \/ WriteTmp \/ RenameOld
           \/ RenameNew \/ RenameFails \/ WriteAutoconf \/ OpenDefconfig
           \/ WriteDefconfig \/ End
  BY <1>3 DEF Save, QuitSave, AskedAll, Proceed, OpenFails, WriteTmp, RenameOld,
     RenameNew, RenameFails, WriteAutoconf, OpenDefconfig, WriteDefconfig, End
<1> QED
  BY <1>1, <1>2, <1>3, Zenon DEF Next

(* Every step keeps the invariant.                                         *)
LEMMA StepKeepsInv == KconfigInv /\ [Next]_vars => KconfigInv'
<1> SUFFICES ASSUME KconfigInv, [Next]_vars PROVE KconfigInv'
  OBVIOUS
<1>1. CASE UNCHANGED vars
  <2>1. /\ tree' = tree /\ files' = files /\ tool' = tool /\ saved' = saved
        /\ faulted' = faulted
    BY <1>1 DEF vars
  <2> QED
    BY <2>1 DEF KconfigInv, SessionInv, TypeInv, StepInv, ValuesInv, WriteInv, HasFlags,
       TmpInv, AutoInv, SavedInv
<1>2. CASE Next /\ tree.n \notin Sessions
  BY <1>2, NoSession DEF KconfigInv
<1>3. CASE Next /\ tree.n \in Sessions
  <2>1. tree \in ParsedTrees /\ SessionInv /\ tree' = tree
    BY <1>3, TreeStays DEF KconfigInv
  <2>2. SessionInv'
    <3>1. CASE \/ StartMenuconfig \/ StartOldconfig \/ StartOlddefconfig
               \/ StartSavedefconfig \/ StartSilentoldconfig \/ StartDefconfig
               \/ StartAlldefconfig \/ \E answer \in {No, Yes} : StartAll(answer)
      BY <1>3, <2>1, <3>1, StartsKeepInv
    <3>2. CASE \/ \E s \in Syms(tree), answer \in {No, Yes} : SetBool(s, answer)
               \/ \E c \in Syms(tree), s \in Syms(tree) : Pick(c, s)
               \/ \E s \in Syms(tree), x \in Numbers \ {0} : SetNumber(s, x)
      BY <1>3, <2>1, <3>2, EntriesKeepInv
    <3>3. CASE Save \/ QuitSave \/ AskedAll
      BY <2>1, <3>3, ProceedsKeepInv
    <3>4. CASE OpenFails \/ RenameFails
      BY <2>1, <3>4, FailuresKeepInv
    <3>5. CASE WriteTmp
      BY <1>3, <2>1, <3>5, WriteTmpKeeps
    <3>6. CASE RenameOld
      BY <2>1, <3>6, RenameOldKeeps
    <3>7. CASE RenameNew
      BY <1>3, <2>1, <3>7, RenameNewKeeps
    <3>8. CASE WriteAutoconf \/ OpenDefconfig \/ WriteDefconfig \/ End
      BY <1>3, <2>1, <3>8, OtherFilesKeepInv
    <3> QED
      BY <1>3, <3>1, <3>2, <3>3, <3>4, <3>5, <3>6, <3>7, <3>8, Zenon DEF Next
  <2> QED
    BY <1>3, <2>1, <2>2 DEF KconfigInv
<1> QED
  BY <1>1, <1>2, <1>3

(* Whatever programs are run, asked and killed, everything they leave in   *)
(* the build directory is a file conf_read() takes, what they show is what *)
(* sym_calc_value() makes of the answers, and .config, .config.old and the *)
(* temporary file hold what has to be there to bring that back.            *)
THEOREM KconfigInvariant == Spec => []KconfigInv
<1>1. Init => KconfigInv
  BY InitEstablishesInv
<1>2. KconfigInv /\ [Next]_vars => KconfigInv'
  BY StepKeepsInv
<1> QED
  BY <1>1, <1>2, PTL DEF Spec

(* The invariant and the lemmas about files give the property.             *)
LEMMA InvRestores == KconfigInv => FilesRestoreValues
<1> SUFFICES ASSUME KconfigInv PROVE FilesRestoreValues
  OBVIOUS
<1>1. CASE tree.n \notin Sessions
  BY <1>1 DEF KconfigInv, Idle, FilesRestoreValues, SavedIsRestored, DefconfigRestores
<1>2. CASE tree.n \in Sessions
  <2>1. tree \in ParsedTrees /\ SessionInv
    BY <1>2 DEF KconfigInv
  <2>2. SavedIsRestored
    BY <2>1 DEF SessionInv, SavedInv, Saves, SavedIsRestored
  <2>3. DefconfigRestores
    <3> SUFFICES ASSUME tool.mode # "none"
                 PROVE Values(tree, Loaded(tree, Minimal(tree, tool.val))) = tool.val
      BY DEF DefconfigRestores
    <3>1. Attained(tree, tool.val)
      BY <2>1 DEF SessionInv, ValuesInv
    <3> QED
      BY <1>2, <2>1, <3>1, SessionWellFormed, MinimalSuffices, FileRestores
  <2> QED
    BY <2>2, <2>3 DEF FilesRestoreValues
<1> QED
  BY <1>1, <1>2

(* What was saved last is in .config or .config.old, and whoever reads it  *)
(* gets the value of every symbol back, whatever is killed in between,     *)
(* unless a rename failed; and the shortened lines of savedefconfig do the *)
(* same: for every Config.in file without a circle of dependencies.        *)
THEOREM FilesAlwaysRestoreValues == Spec => []FilesRestoreValues
BY KconfigInvariant, InvRestores, PTL

(* auto.conf is written only where .config holds the values that are       *)
(* written.                                                                *)
LEMMA AutoStep ==
  ASSUME KconfigInv, Next, files'.auto # files.auto, tool.val = Values(tree, tool.user)
  PROVE /\ files.config # <<>>
        /\ files'.auto = <<Lines(files.config[1],
                                  WithoutNo(files.config[1], DOMAIN files.config[1]))>>
<1>1. tree.n \in Sessions /\ tree \in ParsedTrees /\ SessionInv
  BY NoSession DEF KconfigInv
<1>2. files \in FilesType(tree)
  BY <1>1 DEF SessionInv, TypeInv
<1>3. WriteAutoconf
  <2>1. files' = files => FALSE
    OBVIOUS
  <2>2. ASSUME NEW c, files' = [files EXCEPT !.defconfig = c] PROVE FALSE
    BY <1>2, <2>2 DEF FilesType
  <2>3. ASSUME NEW c, files' = [files EXCEPT !.tmp = c] PROVE FALSE
    BY <1>2, <2>3 DEF FilesType
  <2>4. ASSUME NEW c, NEW d, files' = [files EXCEPT !.old = c, !.config = d] PROVE FALSE
    BY <1>2, <2>4 DEF FilesType
  <2>5. ASSUME NEW c, NEW d, files' = [files EXCEPT !.config = c, !.tmp = d] PROVE FALSE
    BY <1>2, <2>5 DEF FilesType
  <2>6. WriteTmp \/ RenameOld \/ RenameNew \/ OpenDefconfig \/ WriteDefconfig \/ End => FALSE
    BY <2>1, <2>2, <2>3, <2>4, <2>5 DEF WriteTmp, RenameOld, RenameNew, OpenDefconfig,
       WriteDefconfig, End
  <2>7. \/ StartMenuconfig \/ StartOldconfig \/ StartOlddefconfig
        \/ StartSavedefconfig \/ StartSilentoldconfig \/ StartDefconfig
        \/ StartAlldefconfig \/ \E answer \in {No, Yes} : StartAll(answer)
        => FALSE
    BY <2>1, StartsKeepFiles
  <2>8. \/ \E s \in Syms(tree), answer \in {No, Yes} : SetBool(s, answer)
        \/ \E c \in Syms(tree), s \in Syms(tree) : Pick(c, s)
        \/ \E s \in Syms(tree), x \in Numbers \ {0} : SetNumber(s, x)
        => FALSE
    BY <2>1, EntriesKeepFiles
  <2>9. Save \/ QuitSave \/ AskedAll \/ OpenFails \/ RenameFails => FALSE
    BY <2>1 DEF Save, QuitSave, AskedAll, Proceed, OpenFails, RenameFails
  <2> QED
    BY <2>6, <2>7, <2>8, <2>9, Zenon DEF Next
<1>4. /\ tool.step = "auto"
      /\ files' = [files EXCEPT !.auto = <<Positive(tree, tool.val)>>]
  BY <1>3 DEF WriteAutoconf
<1>5. files'.auto = <<Positive(tree, tool.val)>>
  BY <1>2, <1>4 DEF FilesType
<1>6. HoldsLines(tree, files.config, tool.val) /\ Attained(tree, tool.val)
  BY <1>1, <1>4 DEF SessionInv, AutoInv, ValuesInv, StepInv
<1>7. PICK set \in SUBSET Options(tree) :
        Covered(tree, tool.val, set) /\ files.config = <<Lines(tool.val, set)>>
  BY <1>6 DEF HoldsLines
<1>8. files.config # <<>> /\ files.config[1] = Lines(tool.val, set)
  BY <1>7
<1> QED
  BY <1>1, <1>5, <1>6, <1>7, <1>8, SessionWellFormed, PositiveLines

(* Whenever silentoldconfig writes auto.conf, it has the lines of .config  *)
(* that are not n, whatever the user was asked and answered and whatever   *)
(* programs killed earlier have left behind; unless a number was entered   *)
(* that clears no flag.                                                    *)
THEOREM AutoConfAlwaysFollows == Spec => AutoConfFollows
<1> DEFINE Follows ==
      files'.auto # files.auto /\ tool.val = Values(tree, tool.user) =>
         files.config # <<>> /\
         LET all == files.config[1]
         IN  files'.auto = <<Lines(all, WithoutNo(all, DOMAIN all))>>
<1>1. KconfigInv /\ [Next]_vars => [Follows]_vars
  BY AutoStep
<1>2. Spec => [][Follows]_vars
  <2> HIDE DEF Follows
  <2> QED
    BY <1>1, KconfigInvariant, PTL DEF Spec
<1> QED
  BY <1>2 DEF AutoConfFollows
=============================================================================
