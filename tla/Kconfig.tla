------------------------------ MODULE Kconfig ------------------------------
(***************************************************************************)
(* The configuration programs (KconfigPrograms) on trees that menu.c has   *)
(* made of Config.in files (KconfigTree), with the entries it shows.       *)
(***************************************************************************)
EXTENDS KconfigPrograms, KconfigTree

AllParsed == {Parsed(n) : n \in DOMAIN Trees}

-----------------------------------------------------------------------------
(* The screens.  menu_is_visible() shows a selected symbol whose prompt is  *)
(* not visible if an entry below it is visible, and then gives it the mark *)
(* of a user value.                                                        *)

RECURSIVE MenuVisible(_, _)
MenuVisible(e, val) ==
    /\ e.prompt
    /\ \/ Visible(e, val) # No
       \/ /\ e.sym \in Boolean /\ val[e.sym] # No
          /\ \E i \in DOMAIN e.list : MenuVisible(e.list[i], val)

\* The symbols whose entry, and all it is inside of, can be seen.
RECURSIVE Displayed(_, _)
Displayed(e, val) ==
    IF ~MenuVisible(e, val) THEN {}
    ELSE {e.sym} \cup UNION {Displayed(e.list[i], val) : i \in DOMAIN e.list}

-----------------------------------------------------------------------------
(* Properties.                                                             *)

\* The conditions of an entry: its own, and those of its properties.
Conditions(e) ==
    <<e.dep>> \o (IF e.prompt THEN <<e.vis>> ELSE <<>>)
    \o [i \in DOMAIN e.defaults |-> e.defaults[i].vis]
    \o [i \in DOMAIN e.selects |-> e.selects[i].vis]
    \o [i \in DOMAIN e.range |-> e.range[i].vis]

\* The values of all conditions, entry by entry, as menu_finalize() left them
\* and as the Config.in file says: each under the entry's dependency, that
\* under the entries it is written in.
Under(above, e, val) ==
    [j \in DOMAIN Conditions(e) |-> Lower(above, CalcValue(Conditions(e)[j], val))]

Found(list, val) == [i \in DOMAIN list |-> Under(Yes, list[i], val)]

RECURSIVE Meant(_, _, _)
Meant(e, above, val) ==
    LET dep   == Lower(above, CalcValue(e.dep, val))
        below == IF e.choice THEN SymValue(e.sym, val)
                 ELSE IF e.prompt THEN Lower(dep, CalcValue(e.vis, val)) ELSE dep
    IN  <<Under(dep, e, val)>>
        \o FlattenSeq([i \in DOMAIN e.list |-> Meant(e.list[i], below, val)])

\* Rewriting a dependency, moving it down to the entries inside and moving
\* entries below the symbol they depend on never changes what has to hold for
\* a prompt, a default, a select or a range to count.  The tree stays what
\* conf_parse() has made of it: it is looked at before the first program.
DependenciesKeepMeaning ==
    starts = 0 =>
        \A val \in [Syms(tree) -> {No, Yes}] :
            Found(Flat(tree.root), val) = Meant(Trees[tree.n], Yes, val)

\* No visible prompt is on a screen that cannot be opened: whatever entry
\* menu_finalize() has put it under is shown.
PromptsReachable ==
    tool.mode # "none" =>
        \A s \in Syms(tree) \ Displayed(tree.root, tool.val) :
            Visible(tree.entry[s], tool.val) = No

=============================================================================
