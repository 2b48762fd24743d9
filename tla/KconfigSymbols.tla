--------------------------- MODULE KconfigSymbols ---------------------------
(***************************************************************************)
(* The values of kconfig's symbols (symbol.c) and the text that goes into  *)
(* a configuration file and comes out of it (confdata.c), over a tree as   *)
(* KconfigTree describes it.  A file is a function from the symbols it has *)
(* a line for to their values.                                             *)
(***************************************************************************)
EXTENDS KconfigTristate, Sequences, FiniteSetsExt

CONSTANTS
    ExprValue(_, _),    \* the value of an expression (expr_calc_value())
    Numbers             \* the values of the symbols that are no bool

\* 0 is the empty text of an int, which strtoll() reads as 0.
ASSUME NumbersAssumption == Numbers \subseteq Int /\ 0 \in Numbers

Syms(t)       == DOMAIN t.entry
ChoiceSyms(t) == DOMAIN t.members
Options(t)    == Syms(t) \ ChoiceSyms(t)

IsMember(t, s) == t.within[s] # ""
Members(t, c)  == {t.members[c][i] : i \in DOMAIN t.members[c]}

\* The values a symbol can have, and all valuations of a tree.
ValuesOf(s)   == IF s \in Boolean THEN {No, Yes} ELSE Numbers
Valuations(t) == {val \in [Syms(t) -> {No, Yes} \cup Numbers] :
                    \A s \in Syms(t) : val[s] \in ValuesOf(s)}

-----------------------------------------------------------------------------
(* sym_calc_value().  A user state is a record of                          *)
(*   has   the symbols with a user value, the choices whose value is not   *)
(*         new (SYMBOL_DEF_USER)                                           *)
(*   def   the user values, def[S_DEF_USER]                                *)
(*   pick  for each choice the set of the member the user picked           *)

\* A bool that would be m is y.
AsBool(x) == IF x = No THEN No ELSE Yes

Visible(e, val) == IF e.prompt THEN AsBool(ExprValue(e.vis, val)) ELSE No

\* The properties whose condition holds; the first of them counts.
Active(props, val) == {i \in DOMAIN props : ExprValue(props[i].vis, val) # No}
First(props, val)  == props[Min(Active(props, val))]

\* How strongly the other symbols select s (rev_dep.tri); it is not
\* calculated for the values of a choice.
RevDep(t, s, val) ==
    IF IsMember(t, s) \/ t.rev[s] = Null THEN No
    ELSE AsBool(ExprValue(t.rev[s], val))

\* sym_choice_default(), sym_calc_choice().
VisibleMembers(t, c, val) ==
    {i \in DOMAIN t.members[c] : Visible(t.entry[t.members[c][i]], val) # No}

Wanted(p) == p.value[2]

ChoiceDefault(t, c, val) ==
    LET props  == t.entry[c].defaults
        wanted == {i \in Active(props, val) :
                     Visible(t.entry[Wanted(props[i])], val) # No}
        shown  == VisibleMembers(t, c, val)
    IN  IF wanted # {} THEN Wanted(props[Min(wanted)])
        ELSE IF shown # {} THEN t.members[c][Min(shown)] ELSE ""

Chosen(t, c, user, val) ==
    LET picked == {s \in user.pick[c] : Visible(t.entry[s], val) # No}
    IN  IF picked # {} THEN CHOOSE s \in picked : TRUE ELSE ChoiceDefault(t, c, val)

\* The value of the first default, as it is (sym_get_default_prop()).
DefaultOf(s, e, val) ==
    IF Active(e.defaults, val) = {} THEN No
    ELSE LET p == First(e.defaults, val)
         IN  IF s \in Boolean
             THEN AsBool(Lower(ExprValue(p.value, val), ExprValue(p.vis, val)))
             ELSE p.number

InRange(e, x, val) ==
    Active(e.range, val) # {} =>
        x \in First(e.range, val).lo .. First(e.range, val).hi

\* sym_validate_range().
Clamped(e, x, val) ==
    IF InRange(e, x, val) THEN x
    ELSE LET range == First(e.range, val)
         IN  IF x < range.lo THEN range.lo ELSE range.hi

\* The user value counts where it can be seen.
Given(t, user, val, s) ==
    IF Visible(t.entry[s], val) # No /\ s \in user.has
    THEN user.def[s] ELSE DefaultOf(s, t.entry[s], val)

ValueOf(t, user, val, s) ==
    IF s \in ChoiceSyms(t) THEN Visible(t.entry[s], val)
    ELSE IF IsMember(t, s) /\ Visible(t.entry[s], val) = Yes
    THEN IF Chosen(t, t.within[s], user, val) = s THEN Yes ELSE No
    ELSE IF s \in Boolean THEN Higher(Given(t, user, val, s), RevDep(t, s, val))
    ELSE Clamped(t.entry[s], Given(t, user, val, s), val)

Values(t, user) ==
    LET val[s \in Syms(t)] == ValueOf(t, user, val, s)
    IN  [s \in Syms(t) |-> val[s]]

\* What one calculation gives SYMBOL_WRITE: a line in the file.
Written(t, s, val) ==
    \/ Visible(t.entry[s], val) # No
    \/ Active(t.entry[s].defaults, val) # {}
    \/ RevDep(t, s, val) # No

\* The flag of a choice goes when one of its visible values has none.
Settled(t, user, val) ==
    [user EXCEPT !.has = {s \in @ :
        s \in ChoiceSyms(t) =>
            \A x \in Members(t, s) : x \in user.has \/ Visible(t.entry[x], val) = No}]

\* sym_is_changable().
Changeable(t, s, val) == Visible(t.entry[s], val) > RevDep(t, s, val)

-----------------------------------------------------------------------------
(* Files.                                                                  *)

WriteSet(t, val) == {s \in Options(t) : Written(t, s, val)}
Lines(val, set)  == [s \in set |-> val[s]]

\* The member the choice would have anyway.
ObviousIfFirst(t, s, val) ==
    /\ IsMember(t, s) /\ val[s] = Yes
    /\ s = t.members[t.within[s]][Min(VisibleMembers(t, t.within[s], val))]
Obvious(t, s, val) ==
    IsMember(t, s) /\ val[s] = Yes /\ s = ChoiceDefault(t, t.within[s], val)

IsDefault(t, s, val) ==
    val[s] = IF s \in Boolean
             THEN Higher(DefaultOf(s, t.entry[s], val), RevDep(t, s, val))
             ELSE DefaultOf(s, t.entry[s], val)

\* What conf_write_defconfig() writes: only what is not there without it.
Minimal(t, val) ==
    Lines(val, {s \in WriteSet(t, val) : /\ Changeable(t, s, val)
                                         /\ ~IsDefault(t, s, val)
                                         /\ ~Obvious(t, s, val)})

\* What conf_write_autoconf() writes: no line for a bool that is n.
WithoutNo(val, set)  == {s \in set : s \in Boolean => val[s] # No}
Positive(t, val) == Lines(val, WithoutNo(val, WriteSet(t, val)))

\* The user state of a program that has read no file.
Fresh(t) == [has |-> {}, def |-> [s \in Options(t) |-> 0],
             pick |-> [c \in ChoiceSyms(t) |-> {}]]

\* conf_read_simple(): of two members that are y the last one counts.
YesLines(t, c, file) ==
    {i \in DOMAIN t.members[c] :
        t.members[c][i] \in DOMAIN file /\ file[t.members[c][i]] = Yes}
ReadSimple(t, file) ==
    [has  |-> DOMAIN file \cup ChoiceSyms(t),
     def  |-> [s \in Options(t) |-> IF s \in DOMAIN file THEN file[s] ELSE 0],
     pick |-> [c \in ChoiceSyms(t) |->
                 IF YesLines(t, c, file) = {} THEN {}
                 ELSE {t.members[c][Max(YesLines(t, c, file))]}]]

UnsavedIfOther(t, user, val) ==
    \E s \in Options(t) : s \in user.has /\ val[s] # user.def[s]

\* conf_unsaved: the values that come of the file are not those in it.
Unsaved(t, user, val) ==
    \E s \in Options(t) :
        ~ \/ s \in user.has /\ Written(t, s, val) /\ val[s] = user.def[s]
          \/ s \notin user.has /\ ~Written(t, s, val)

\* conf_read(): user values nobody can see are forgotten, if all agrees, and
\* numbers out of their range.
Forgotten(t, user, val, s) ==
    /\ ~IsMember(t, s)
    /\ \/ Visible(t.entry[s], val) = No /\ ~Unsaved(t, user, val)
       \/ s \notin Boolean /\ ~InRange(t.entry[s], user.def[s], val)

Loaded(t, file) ==
    LET user == ReadSimple(t, file)
        val  == Values(t, user)
    IN  [user EXCEPT !.has = {s \in @ : ~Forgotten(t, user, val, s)}]

\* conf_unsaved.  It is counted up again for a number out of its range, whose
\* symbol counts already: it is not set to what was read.
LoadedChanged(t, file) ==
    LET user == ReadSimple(t, file) IN Unsaved(t, user, Values(t, user))

-----------------------------------------------------------------------------
(* What conf_parse() prints no error and no warning for, and ranges that   *)
(* are not empty, which it does not look at.                               *)

\* sym_check_prop(), menu_finalize(): a choice has bools for values, which
\* have no defaults, and one of them for a default; a symbol that is no bool
\* is not selected, and its ranges and defaults are numbers.
IsSequence(p) == Len(p) \in Nat /\ DOMAIN p = 1 .. Len(p)

WellTyped(t) ==
    /\ "" \notin Syms(t)
    /\ ChoiceSyms(t) \subseteq Syms(t) \cap Boolean
    /\ \A c \in ChoiceSyms(t) :
         /\ IsSequence(t.members[c])
         /\ Members(t, c) \subseteq Options(t) \cap Boolean
         /\ \A i \in DOMAIN t.entry[c].defaults :
              Wanted(t.entry[c].defaults[i]) \in Members(t, c)
    /\ \A s \in Syms(t) :
         /\ \A c \in ChoiceSyms(t) : t.within[s] = c <=> s \in Members(t, c)
         /\ t.within[s] \in ChoiceSyms(t) \cup {""}
         /\ IsSequence(t.entry[s].defaults)
         /\ IsMember(t, s) => t.entry[s].defaults = <<>>
    /\ \A s \in Syms(t) \ Boolean :
         /\ t.rev[s] = Null
         /\ \A i \in DOMAIN t.entry[s].defaults :
              t.entry[s].defaults[i].number \in Numbers
         /\ IsSequence(t.entry[s].range)
         /\ \A i \in DOMAIN t.entry[s].range :
              LET range == t.entry[s].range[i]
              IN  {range.lo, range.hi} \subseteq Numbers /\ range.lo <= range.hi

\* sym_check_sym_deps(), sym_check_choice_deps(): the expressions a value
\* depends on.
Asked(t, s) ==
    LET e == t.entry[s]
    IN  {t.rev[s], e.vis}
        \cup {e.defaults[i].vis : i \in DOMAIN e.defaults}
        \cup {e.range[i].vis : i \in DOMAIN e.range}
        \cup IF s \in ChoiceSyms(t) THEN {}
             ELSE {e.defaults[i].value : i \in DOMAIN e.defaults}

LooksAt(t, s) ==
    IF IsMember(t, s)
    THEN UNION {Asked(t, x) : x \in {t.within[s]} \cup Members(t, t.within[s])}
    ELSE Asked(t, s)

\* The value of s is settled by the values of the symbols in a set.
Kept(val, set) == [s \in DOMAIN val |-> IF s \in set THEN val[s] ELSE No]
DependsOn(t, s, set) ==
    \A val \in Valuations(t), e \in LooksAt(t, s) :
        ExprValue(e, val) = ExprValue(e, Kept(val, set))

\* sym_check_deps(): no circle of symbols each of which depends on the next;
\* that is, any set of symbols has one that depends on none of them.
NotRecursive(t) ==
    \A set \in SUBSET Syms(t) :
        set # {} => \E s \in set : DependsOn(t, s, Syms(t) \ set)

WellFormed(t) == IsFiniteSet(Syms(t)) /\ WellTyped(t) /\ NotRecursive(t)

\* The lines of a file that conf_read_simple() takes: other symbols and
\* other values are warned of and left out.
IsFile(t, file) ==
    /\ file = [s \in DOMAIN file |-> file[s]]
    /\ DOMAIN file \subseteq Options(t)
    /\ \A s \in DOMAIN file : file[s] \in ValuesOf(s)

=============================================================================
