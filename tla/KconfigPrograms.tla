-------------------------- MODULE KconfigPrograms --------------------------
(***************************************************************************)
(* The configuration of the image in use: the programs of                  *)
(* support/kconfig that read and write it (conf.c, mconf.c, confdata.c),   *)
(* run one after the other on the files of one build directory, and killed *)
(* at any moment.                                                          *)
(***************************************************************************)
EXTENDS KconfigSymbols

CONSTANTS
    ParsedTrees,    \* Config.in files as conf_parse() keeps them, see KconfigTree
    Sessions,       \* the numbers of those that programs are run on
    HandFiles,      \* for each, the .config files there may be at first
    Shown(_, _),    \* the symbols whose entry, and all it is inside of, can
                    \* be seen: for the root of a tree and the values
    MaxStarts,      \* bound: programs started
    MaxChanges      \* bound, for each tree: entries that change something

ASSUME SessionsAssumption ==
    \A t \in ParsedTrees : t.n \in Sessions =>
        /\ WellFormed(t)
        /\ \A config \in HandFiles[t.n] :
             config = <<>> \/ (config = <<config[1]>> /\ IsFile(t, config[1]))

VARIABLES
    tree,           \* the Config.in file, parsed
    files,          \* .config, .config.old, the temporary file, the defconfig
                    \* and auto.conf: <<>> or <<contents>>
    tool,           \* the program that runs:
                    \*   mode     what it was started as, "none"
                    \*   step     what it does next
                    \*   then     what follows the writing of .config
                    \*   user     the user state
                    \*   val      values of the symbols (curr)
                    \*   changed  sym_change_count is not 0
                    \*   write    the symbols with SYMBOL_WRITE
    saved,          \* history: <<what the user was last told is saved>>
    faulted,        \* history: a rename has failed
    starts, changes \* counters of the bounds

vars == <<tree, files, tool, saved, faulted, starts, changes>>

Idle(t) == [mode |-> "none", step |-> "none", then |-> "exit",
            user |-> Fresh(t), val |-> [s \in Syms(t) |-> 0],
            changed |-> FALSE, write |-> {}]

Init ==
    /\ tree \in ParsedTrees
    /\ \E config \in IF tree.n \in Sessions THEN HandFiles[tree.n] ELSE {<<>>} :
         files = [config |-> config, old |-> <<>>, tmp |-> <<>>,
                  defconfig |-> <<>>, auto |-> <<>>]
    /\ tool = Idle(tree)
    /\ saved = <<>>
    /\ faulted = FALSE
    /\ starts = 0 /\ changes = 0

-----------------------------------------------------------------------------
(* Starting a program: conf_parse(), then what it reads.                   *)

Running(mode, step, then, user, changed) ==
    \E val \in {Values(tree, user)} :
        tool' = [mode |-> mode, step |-> step, then |-> then,
                 user |-> Settled(tree, user, val), val |-> val,
                 changed |-> changed, write |-> WriteSet(tree, val)]

Started ==
    /\ tool.mode = "none" /\ tree.n \in Sessions
    /\ starts < MaxStarts /\ starts' = starts + 1
    /\ UNCHANGED <<tree, files, saved, faulted, changes>>

\* conf_read(NULL); without a .config the user state stays as it is and
\* counts as changed.
Reading(mode, step, then) ==
    IF files.config = <<>>
    THEN Running(mode, step, then, Fresh(tree), TRUE)
    ELSE Running(mode, step, then, Loaded(tree, files.config[1]),
                 LoadedChanged(tree, files.config[1]))

StartMenuconfig      == Started /\ Reading("menuconfig", "edit", "edit")
StartOldconfig       == Started /\ Reading("oldconfig", "ask", "exit")
StartOlddefconfig    == Started /\ Reading("olddefconfig", "write", "exit")
StartSavedefconfig   == Started /\ Reading("savedefconfig", "open_def", "exit")
StartSilentoldconfig ==
    /\ files.config # <<>>
    /\ Started /\ Reading("silentoldconfig", "ask", "auto")

StartDefconfig ==
    /\ files.defconfig # <<>>
    /\ Started
    /\ Running("defconfig", "write", "exit", Loaded(tree, files.defconfig[1]), TRUE)

\* conf_set_all_new_symbols() without a file: every bool gets the answer, or
\* none does.
StartAlldefconfig ==
    /\ Started
    /\ Running("allconfig", "write", "exit", Fresh(tree), TRUE)

StartAll(answer) ==
    /\ Started
    /\ Running("allconfig", "write", "exit",
               [Fresh(tree) EXCEPT
                   !.has = Syms(tree) \cap Boolean,
                   !.def = [s \in DOMAIN @ |-> IF s \in Boolean THEN answer ELSE 0]],
               TRUE)

-----------------------------------------------------------------------------
(* The screens.  menu_is_visible() shows a selected symbol whose prompt is  *)
(* not visible if an entry below it is visible, and then gives it the mark *)
(* of a user value.                                                        *)

OnScreen(s) == s \in Shown(tree.root, tool.val)

\* What has become of the user state when the user answers: any of the
\* entries shown without a visible prompt may be marked, which ones depends on
\* the screens opened so far.
Markable(shown) ==
    {s \in shown \cap Options(tree) : Visible(tree.entry[s], tool.val) = No}
Seen == {[tool.user EXCEPT !.has = @ \cup marked] :
           marked \in SUBSET Markable(Shown(tree.root, tool.val))}

\* check_conf(): the entries oldconfig and silentoldconfig ask for.
IsNew(s) ==
    /\ s \notin tool.user.has /\ ~IsMember(tree, s)
    /\ \/ Changeable(tree, s, tool.val)
       \/ s \in ChoiceSyms(tree) /\ tool.val[s] = Yes

CanAnswer(s) ==
    /\ tool.step \in {"edit", "ask"}
    /\ tool.step = "ask" => IsNew(s)
    /\ OnScreen(s)

-----------------------------------------------------------------------------
(* The user's entries.                                                     *)

\* conf_write() takes SYMBOL_WRITE away.  A new calculation gives it again,
\* and takes it from the symbols that get no line now, but not from the
\* values of a choice.
Flagged(val) == {s \in tool.write : IsMember(tree, s)} \cup WriteSet(tree, val)

\* The state after an entry: if it cleared SYMBOL_VALID all values are new.
Entered(user, cleared) ==
    /\ IF cleared
       THEN /\ changes < MaxChanges[tree.n] /\ changes' = changes + 1
            /\ \E val \in {Values(tree, user)} :
                 tool' = [tool EXCEPT !.user = Settled(tree, user, val), !.val = val,
                                      !.changed = TRUE, !.write = Flagged(val)]
       ELSE tool' = [tool EXCEPT !.user = user] /\ UNCHANGED changes
    /\ UNCHANGED <<tree, files, saved, faulted, starts>>

\* sym_set_tristate_value() of a bool that is no value of a choice.  The
\* value it has is accepted even where it cannot be changed.
SetBool(s, answer) ==
    /\ s \in Options(tree) \cap Boolean /\ ~IsMember(tree, s)
    /\ CanAnswer(s)
    /\ \/ answer = tool.val[s]
       \/ /\ Changeable(tree, s, tool.val)
          /\ answer \in RevDep(tree, s, tool.val) .. Visible(tree.entry[s], tool.val)
    /\ \E user \in Seen :
         Entered([user EXCEPT !.has = @ \cup {s}, !.def[s] = answer],
                 answer # tool.val[s])

\* sym_set_tristate_value() of a value of a choice.
Pick(c, s) ==
    /\ c \in ChoiceSyms(tree) /\ tree.within[s] = c
    /\ CanAnswer(c)
    /\ Visible(tree.entry[s], tool.val) # No
    /\ LET shown == VisibleMembers(tree, c, tool.val)
       IN  \E user \in Seen :
             Entered([user EXCEPT !.has = @ \cup {c} \cup {tree.members[c][i] : i \in shown},
                                  !.def[s]  = Yes,
                                  !.pick[c] = {s}],
                     tool.val[s] # Yes)

\* sym_set_string_value().  A text equal to the last one clears nothing, even
\* if that one was forgotten in between.
SetNumber(s, x) ==
    /\ s \in Options(tree) \ Boolean
    /\ CanAnswer(s)
    /\ InRange(tree.entry[s], x, tool.val)
    /\ \E user \in Seen :
         Entered([user EXCEPT !.has = @ \cup {s}, !.def[s] = x],
                 x # tool.user.def[s])

-----------------------------------------------------------------------------
(* conf_write(): a temporary file, the old file out of the way, the new    *)
(* one in its place.                                                       *)

Proceed(step, then) ==
    /\ tool' = [tool EXCEPT !.step = step, !.then = then]
    /\ UNCHANGED <<tree, files, saved, faulted, starts, changes>>

Save     == tool.step = "edit" /\ Proceed("write", "edit")
QuitSave == tool.step = "edit" /\ tool.changed /\ Proceed("write", "exit")

\* All new symbols have been answered; silentoldconfig writes .config only if
\* something has changed.
AskedAll ==
    /\ tool.step = "ask"
    /\ \A s \in Shown(tree.root, tool.val) \cap Syms(tree) : ~IsNew(s)
    /\ Proceed(IF tool.mode = "silentoldconfig" /\ ~tool.changed
               THEN "auto" ELSE "write", tool.then)

Continue(next, changed) ==
    tool' = IF next = "exit" THEN Idle(tree)
            ELSE [tool EXCEPT !.step = next, !.then = next, !.changed = changed]

\* The dialog of menuconfig stays open; everything else reports and ends.
GivesUp(changed) ==
    Continue(IF tool.then = "edit" THEN "edit" ELSE "exit", changed)

OpenFails ==
    /\ tool.step = "write"
    /\ GivesUp(tool.changed)
    /\ UNCHANGED <<tree, files, saved, faulted, starts, changes>>

\* sym_clear_all_valid() only if nothing has changed: otherwise the values
\* and flags are those of the last calculation.
WriteTmp ==
    /\ tool.step = "write"
    /\ \E val \in {IF tool.changed THEN tool.val ELSE Values(tree, tool.user)} :
         /\ files' = [files EXCEPT !.tmp =
                <<Lines(val, IF tool.changed THEN tool.write ELSE Flagged(val))>>]
         /\ tool' = [tool EXCEPT !.step = "rename_old", !.val = val,
                                 !.changed = TRUE, !.write = {}]
    /\ UNCHANGED <<tree, saved, faulted, starts, changes>>

RenameOldAlways ==
    /\ tool.step = "rename_old"
    /\ files' = [files EXCEPT !.old = files.config, !.config = <<>>]
    /\ tool' = [tool EXCEPT !.step = "rename_new"]
    /\ UNCHANGED <<tree, saved, faulted, starts, changes>>

RenameOld ==
    /\ tool.step = "rename_old"
    /\ files' = IF files.config = <<>> THEN files
                ELSE [files EXCEPT !.old = files.config, !.config = <<>>]
    /\ tool' = [tool EXCEPT !.step = "rename_new"]
    /\ UNCHANGED <<tree, saved, faulted, starts, changes>>

RenameNew ==
    /\ tool.step = "rename_new"
    /\ files' = [files EXCEPT !.config = files.tmp, !.tmp = <<>>]
    /\ saved' = <<tool.val>>
    /\ Continue(tool.then, FALSE)
    /\ UNCHANGED <<tree, faulted, starts, changes>>

RenameFails ==
    /\ tool.step = "rename_new"
    /\ faulted' = TRUE
    /\ GivesUp(TRUE)
    /\ UNCHANGED <<tree, files, saved, starts, changes>>

-----------------------------------------------------------------------------
(* The other files, and the end.                                           *)

\* conf_write_autoconf(): it clears all values before it writes.
WriteAutoconf ==
    /\ tool.step = "auto"
    /\ files' = [files EXCEPT !.auto = <<Positive(tree, Values(tree, tool.user))>>]
    /\ tool' = Idle(tree)
    /\ UNCHANGED <<tree, saved, faulted, starts, changes>>

\* conf_write_defconfig() writes in place.
OpenDefconfig ==
    /\ tool.step = "open_def"
    /\ files' = [files EXCEPT !.defconfig = <<[s \in {} |-> 0]>>]
    /\ tool' = [tool EXCEPT !.step = "write_def"]
    /\ UNCHANGED <<tree, saved, faulted, starts, changes>>

WriteDefconfig ==
    /\ tool.step = "write_def"
    /\ files' = [files EXCEPT !.defconfig = <<Minimal(tree, Values(tree, tool.user))>>]
    /\ tool' = Idle(tree)
    /\ UNCHANGED <<tree, saved, faulted, starts, changes>>

\* menuconfig is left without saving, or a program is killed.  A temporary
\* file that stays is never read.
End ==
    /\ tool.mode # "none"
    /\ tool' = Idle(tree)
    /\ files' = [files EXCEPT !.tmp = <<>>]
    /\ UNCHANGED <<tree, saved, faulted, starts, changes>>

Next ==
    \/ StartMenuconfig \/ StartOldconfig \/ StartOlddefconfig
    \/ StartSavedefconfig \/ StartSilentoldconfig \/ StartDefconfig
    \/ StartAlldefconfig \/ \E answer \in {No, Yes} : StartAll(answer)
    \/ \E s \in Syms(tree), answer \in {No, Yes} : SetBool(s, answer)
    \/ \E c \in Syms(tree), s \in Syms(tree) : Pick(c, s)
    \/ \E s \in Syms(tree), x \in Numbers \ {0} : SetNumber(s, x)
    \/ Save \/ QuitSave \/ AskedAll
    \/ OpenFails \/ WriteTmp \/ RenameOld \/ RenameNew \/ RenameFails
    \/ WriteAutoconf \/ OpenDefconfig \/ WriteDefconfig \/ End

Spec == Init /\ [][Next]_vars

-----------------------------------------------------------------------------
(* Properties.                                                             *)

\* Once the user was told that the configuration is saved, a file holds it
\* from which every symbol gets the value it had on the screen, also after a
\* kill between the two renames; unless a rename failed.
SavedIsRestored ==
    saved # <<>> /\ ~faulted =>
        \E f \in {files.config, files.old} :
            f # <<>> /\ Values(tree, Loaded(tree, f[1])) = saved[1]

\* The few lines of a defconfig bring every value back.
DefconfigRestores ==
    tool.mode # "none" =>
        Values(tree, Loaded(tree, Minimal(tree, tool.val))) = tool.val

\* What a program has written, of .config or as a defconfig, gives back the
\* values the user saw, to any program that reads it later.
FilesRestoreValues == SavedIsRestored /\ DefconfigRestores

\* What the build is told by auto.conf is what .config says, whatever was
\* asked in between; unless a number was entered that clears no flag (see
\* SetNumber), which only conf_write_autoconf() makes count.
AutoConfFollows ==
    [][files'.auto # files.auto /\ tool.val = Values(tree, tool.user) =>
         files.config # <<>> /\
         LET all == files.config[1]
         IN  files'.auto = <<Lines(all, WithoutNo(all, DOMAIN all))>>]_vars

=============================================================================
