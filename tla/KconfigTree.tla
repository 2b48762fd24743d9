---------------------------- MODULE KconfigTree ----------------------------
(***************************************************************************)
(* The tree of menu entries kconfig builds from the Config.in files        *)
(* (menu.c).                                                               *)
(*                                                                         *)
(* As the Config.in files of this tree use it: symbols of type bool and    *)
(* int, of which a string is one without a range, and choices of bools     *)
(* that are not optional; no symbol for modules, no "visible if".  Each    *)
(* symbol is defined in one place.  Choices have no name there; here they  *)
(* have one to speak of them.                                              *)
(***************************************************************************)
EXTENDS KconfigExpr

CONSTANT
    Trees           \* the Config.in files looked at, as the parser leaves
                    \* them: a sequence of root entries, each a record of
                    \*   sym       the symbol, "" if the entry has none
                    \*   choice    it is a choice
                    \*   prompt    it has a prompt, with the condition vis
                    \*   dep       what it depends on
                    \*   defaults  sequence of [value, number, vis]
                    \*   selects   sequence of [target, vis]
                    \*   range     sequence of [lo, hi, vis]
                    \*   list      the entries inside it

-----------------------------------------------------------------------------
(* menu_finalize().                                                        *)

ParentDep(parent) ==
    IF parent.choice THEN Sym(parent.sym)
    ELSE IF parent.prompt THEN parent.vis ELSE parent.dep

\* Dependencies of an entry and its properties, with those of its parent.
TypedDep(menu, dep) ==
    IF menu.sym # "" /\ menu.sym \notin Tristate THEN TransBool(dep) ELSE dep

Distributed(menu, basedep) ==
    LET Under(e) == TypedDep(menu, EliminateDups(And(basedep, Transform(e))))
        Props(s) == [i \in DOMAIN s |-> [s[i] EXCEPT !.vis = Under(@)]]
    IN  [menu EXCEPT !.dep      = basedep,
                     !.vis      = IF menu.prompt THEN Under(@) ELSE @,
                     !.defaults = Props(@),
                     !.selects  = Props(@),
                     !.range    = Props(@)]

Inherited(menu, parentdep) ==
    Distributed(menu, EliminateDups(And(parentdep, Transform(menu.dep))))

NotNo(e) == EliminateDups(Transform(TransCompare(e, "UNEQUAL", "n")))

\* An entry that follows the one of a symbol is shown below it if it depends
\* on the symbol, or tests it and is never there when the symbol is not.
ShownDep(menu) == IF menu.prompt THEN menu.vis ELSE menu.dep

BelongsByMention(menu, parent) == ContainsSym(ShownDep(menu), parent.sym)
Belongs(menu, parent) ==
    /\ ContainsSym(ShownDep(menu), parent.sym)
    /\ \/ DependsSym(ShownDep(menu), parent.sym)
       \/ EliminateEq(NotNo(ShownDep(menu)),
                      NotNo(IF parent.prompt THEN parent.vis ELSE Null))[2] = YesSym

\* The entries inside one that has no prompt come after it.
Spliced(list) ==
    FlattenSeq([i \in DOMAIN list |->
        IF list[i].list # <<>> /\ ~list[i].prompt
        THEN <<[list[i] EXCEPT !.list = <<>>]>> \o list[i].list
        ELSE <<list[i]>>])

\* Finalize() gives the entry and what it leaves of the entries after it.
RECURSIVE Finalize(_, _), FinalizeAll(_), Adopt(_, _, _)
Holding(menu, r) ==
    [menu |-> [menu EXCEPT !.list = Spliced(r.kids)], next |-> r.next]
Finalize(menu, next) ==
    Holding(menu,
        IF menu.list # <<>>
        THEN [next |-> next,
              kids |-> FinalizeAll([i \in DOMAIN menu.list |->
                                      Inherited(menu.list[i], ParentDep(menu))])]
        ELSE IF menu.sym = "" THEN [kids |-> <<>>, next |-> next]
        ELSE Adopt(menu, <<>>, next))

FirstAndRest(first) == <<first.menu>> \o FinalizeAll(first.next)
FinalizeAll(list) ==
    IF list = <<>> THEN <<>> ELSE FirstAndRest(Finalize(Head(list), Tail(list)))

Adopted(parent, kids, first) == Adopt(parent, Append(kids, first.menu), first.next)
Adopt(parent, kids, next) ==
    IF next = <<>> \/ ~Belongs(Head(next), parent)
    THEN [kids |-> kids, next |-> next]
    ELSE Adopted(parent, kids, Finalize(Head(next), Tail(next)))

-----------------------------------------------------------------------------
(* What a program keeps of a Config.in file (conf_parse()): a record of    *)
(*   n        its number in Trees                                          *)
(*   root     the finished menu                                            *)
(*   entry    for each symbol its entry, without the entries inside it     *)
(*   members  for each choice its values, in order                         *)
(*   within   for each symbol the choice it is a value of, or ""           *)
(*   rev      for each symbol the symbols that select it (rev_dep.expr)    *)

RECURSIVE Flat(_)
Flat(menu) == <<menu>> \o FlattenSeq([i \in DOMAIN menu.list |-> Flat(menu.list[i])])

WithSym(list) == SelectSeq(list, LAMBDA e : e.sym # "")

Named(list, s)    == list[CHOOSE i \in DOMAIN list : list[i].sym = s]
Inside(list, s)   == {i \in DOMAIN list : list[i].choice
                         /\ \E j \in DOMAIN list[i].list : list[i].list[j].sym = s}
SelectedBy(e, s)  ==
    FoldLeft(LAMBDA rev, p : IF p.target = s THEN Or(rev, And(Sym(e.sym), p.vis)) ELSE rev,
             Null, e.selects)
RevDepOf(list, s) ==
    LET e == Named(list, s)
    IN  IF e.choice /\ e.prompt THEN And(e.vis, Sym("m"))
        ELSE FoldLeft(LAMBDA rev, by : Or(rev, SelectedBy(by, s)), Null, list)

NamesOf(list) == [i \in DOMAIN list |-> list[i].sym]

Described(n, root, list) ==
    LET names == {list[i].sym : i \in DOMAIN list}
    IN  [n       |-> n,
         root    |-> root,
         entry   |-> [s \in names |-> [Named(list, s) EXCEPT !.list = <<>>]],
         members |-> [s \in {x \in names : Named(list, x).choice} |->
                        NamesOf(WithSym(Named(list, s).list))],
         within  |-> [s \in names |->
                        IF Inside(list, s) = {} THEN ""
                        ELSE list[CHOOSE i \in Inside(list, s) : TRUE].sym],
         rev     |-> [s \in names |-> RevDepOf(list, s)]]

DescribedMenu(n, root) == Described(n, root, WithSym(Flat(root)))
Parsed(n) == DescribedMenu(n, Finalize(Trees[n], <<>>).menu)

=============================================================================
