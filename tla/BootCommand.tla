----------------------------- MODULE BootCommand -----------------------------
(***************************************************************************)
(* mmcboot, the boot command of U-Boot (board/vensey/patches/u-boot, patch *)
(* 0001): it looks for /boot/uEnv.txt on one partition of the SD card      *)
(* after the other, imports it and boots the kernel it names.  The         *)
(* environment is that of U-Boot and outlives a partition, a run of the    *)
(* command and a card.  The card is read without errors.                   *)
(***************************************************************************)
EXTENDS Naturals

CONSTANTS First, Last,   \* the partitions looked at, 2 and 7 in the code
          Names,         \* kernel names, values of uname_r
          Trees,         \* device tree files
          FDT_FILE,      \* the default one
          Earlier,       \* a partition of a card that was taken out
          Unset,         \* a variable a uEnv.txt does not set
          Cards          \* what a card may hold, partition by partition

Partitions == First .. Last

(* What a partition holds: which variables its uEnv.txt sets, if it has    *)
(* one (a uuid is the partition it names), the kernels in /boot, those of  *)
(* them bootz accepts, and the device trees in one of the directories.     *)
Contents ==
    [file : BOOLEAN, uname_r : Names \cup {Unset}, dtb : Trees \cup {Unset},
     uuid : Partitions \cup {Unset}, kernels : SUBSET Names, good : SUBSET Names,
     trees : SUBSET Trees]

ASSUME BootCommandAssumption ==
    /\ First \in Nat /\ Last \in Nat /\ First <= Last /\ FDT_FILE \in Trees
    /\ Unset \notin Partitions
    /\ Cards \subseteq [Partitions -> Contents]

VARIABLES card, found,   \* the card in the slot, or none found
          at,            \* where the command is
          mmcpart, uname_r, dtb, uuid, fdt_file, mmcroot,   \* environment
          kernel, fdt,   \* where loadaddr and fdt_addr were loaded from
          bootargs,      \* the root in the kernel's command line
          tidy           \* history: every uEnv.txt so far was complete

slot == <<card, found, tidy>>
environment == <<uname_r, dtb, uuid, fdt_file>>
memory == <<kernel, fdt>>
vars == <<slot, at, mmcpart, environment, mmcroot, memory, bootargs>>

(* The uEnv.txt files of a card leave nothing to the environment: they     *)
(* name a kernel and the uuid of their partition.                          *)
Complete(c) ==
    \A p \in Partitions : c[p].file => c[p].uname_r # Unset /\ c[p].uuid = p

Init ==
    /\ card \in Cards /\ found \in BOOLEAN /\ tidy = Complete(card)
    /\ at = "rescan" /\ mmcpart = First
    /\ uname_r = Unset /\ dtb = Unset /\ uuid = Unset /\ fdt_file = FDT_FILE
    /\ mmcroot = First /\ kernel = Unset /\ fdt = Unset /\ bootargs = Unset

EmptyCard == [p \in Partitions |->
    [file |-> FALSE, uname_r |-> Unset, dtb |-> Unset, uuid |-> Unset, kernels |-> {},
     good |-> {}, trees |-> {}]]

Here == card[mmcpart]

Goes(from, to) == at = from /\ at' = to

-----------------------------------------------------------------------------
Rescan ==
    /\ Goes("rescan", IF found THEN "test" ELSE "prompt")
    /\ mmcpart' = IF found THEN First ELSE mmcpart
    /\ UNCHANGED <<slot, environment, mmcroot, memory, bootargs>>

(* A slip: the command starts over after the last partition. *)
NextPartitionOver ==
    /\ at = "next" /\ at' = "test"
    /\ mmcpart' = IF mmcpart < Last THEN mmcpart + 1 ELSE First
    /\ UNCHANGED <<slot, environment, mmcroot, memory, bootargs>>

(* On with the next partition, or to the prompt. *)
NextPartition ==
    /\ at = "next"
    /\ IF mmcpart < Last THEN at' = "test" /\ mmcpart' = mmcpart + 1
       ELSE at' = "prompt" /\ UNCHANGED mmcpart
    /\ UNCHANGED <<slot, environment, mmcroot, memory, bootargs>>

TestFile ==
    /\ Goes("test", IF Here.file THEN "import" ELSE "next")
    /\ UNCHANGED <<slot, mmcpart, environment, mmcroot, memory, bootargs>>

(* A slip: what is set already stays. *)
ImportedOnce(old, new) == IF old = Unset THEN new ELSE old

Imported(old, new) == IF new = Unset THEN old ELSE new

(* env import adds to the environment what the file sets; dtb names the    *)
(* device tree from now on.                                                *)
Import ==
    /\ Goes("import", "uname")
    /\ uname_r' = Imported(uname_r, Here.uname_r)
    /\ dtb' = Imported(dtb, Here.dtb)
    /\ uuid' = Imported(uuid, Here.uuid)
    /\ fdt_file' = Imported(fdt_file, dtb')
    /\ UNCHANGED <<slot, mmcpart, mmcroot, memory, bootargs>>

TestUname ==
    /\ Goes("uname", IF uname_r # Unset THEN "uname_boot" ELSE "next")
    /\ mmcroot' = IF uname_r # Unset THEN Imported(mmcpart, uuid) ELSE mmcroot
    /\ UNCHANGED <<slot, mmcpart, environment, memory, bootargs>>

-----------------------------------------------------------------------------
(* uname_boot: without the kernel it names nothing is booted. *)
TestKernel ==
    /\ Goes("uname_boot", IF uname_r \in Here.kernels THEN "fdt" ELSE "next")
    /\ kernel' = IF uname_r \in Here.kernels THEN mmcpart ELSE kernel
    /\ UNCHANGED <<slot, mmcpart, environment, mmcroot, fdt, bootargs>>

(* The first of seven directories that has the device tree. *)
LoadTree ==
    /\ Goes("fdt", IF fdt_file \in Here.trees THEN "mmcargs" ELSE "legacy")
    /\ fdt' = IF fdt_file \in Here.trees THEN mmcpart ELSE fdt
    /\ UNCHANGED <<slot, mmcpart, environment, mmcroot, kernel, bootargs>>

Accepted == uname_r \in card[kernel].good

(* A slip: bootz with whatever is at fdt_addr. *)
BootLegacyWithTree ==
    /\ Goes("legacy", IF Accepted THEN "booted" ELSE "mmcargs")
    /\ bootargs' = mmcroot
    /\ UNCHANGED <<slot, mmcpart, environment, mmcroot, memory>>

(* bootz without a device tree does not return if the kernel is one. *)
BootLegacy ==
    /\ Goes("legacy", IF Accepted THEN "booted" ELSE "mmcargs")
    /\ bootargs' = mmcroot
    /\ fdt' = IF Accepted THEN Unset ELSE fdt
    /\ UNCHANGED <<slot, mmcpart, environment, mmcroot, kernel>>

(* A device tree that could be loaded is taken for a good one. *)
BootWithTree ==
    /\ Goes("mmcargs", IF Accepted THEN "booted" ELSE "next")
    /\ bootargs' = mmcroot
    /\ UNCHANGED <<slot, mmcpart, environment, mmcroot, memory>>

-----------------------------------------------------------------------------
(* At the prompt somebody takes the card out, puts one in and types boot;  *)
(* what was loaded from the first stays in memory.                         *)
Before(part) == IF part = Unset THEN Unset ELSE Earlier

TakeOut ==
    /\ Goes("prompt", "no card")
    /\ card' = EmptyCard /\ found' = FALSE /\ UNCHANGED tidy
    /\ kernel' = Before(kernel) /\ fdt' = Before(fdt)
    /\ mmcpart' = First
    /\ UNCHANGED <<environment, mmcroot, bootargs>>

Again ==
    /\ Goes("no card", "rescan")
    /\ card' \in Cards /\ found' \in BOOLEAN /\ tidy' = (tidy /\ Complete(card'))
    /\ UNCHANGED <<mmcpart, environment, mmcroot, memory, bootargs>>

Command ==
    \/ Rescan \/ NextPartition \/ TestFile \/ Import \/ TestUname
    \/ TestKernel \/ LoadTree \/ BootLegacy \/ BootWithTree

Next == Command \/ TakeOut \/ Again

Spec == Init /\ [][Next]_vars /\ WF_vars(Command)

-----------------------------------------------------------------------------
(* Properties *)

TypeOK ==
    /\ card \in [Partitions -> Contents] /\ found \in BOOLEAN
    /\ mmcpart \in Partitions
    /\ uname_r \in Names \cup {Unset} /\ dtb \in Trees \cup {Unset}
    /\ uuid \in Partitions \cup {Unset} /\ fdt_file \in Trees
    /\ mmcroot \in Partitions
    /\ {kernel, fdt} \subseteq Partitions \cup {Unset, Earlier}
    /\ bootargs \in Partitions \cup {Unset} /\ tidy \in BOOLEAN

Bootable(p) == card[p].file /\ card[p].uname_r \in card[p].kernels \cap card[p].good

(* With complete uEnv.txt files a partition that can be booted is never    *)
(* passed over, whatever the partitions before it, earlier runs and cards  *)
(* have left in the environment: not for one behind it, and not for the    *)
(* prompt.                                                                 *)
PassesNoneOver ==
    tidy /\ found /\ at \in {"booted", "prompt"} =>
        /\ at = "booted" => Bootable(mmcpart)
        /\ \A p \in Partitions : at = "prompt" \/ p < mmcpart => ~Bootable(p)

(* A kernel is booted from the partition the command is at, with a device  *)
(* tree of that partition or none at all, never one that a partition       *)
(* looked at before, or a card taken out, has left in memory; with         *)
(* complete files its root file system is that partition, too.             *)
OfOnePartition ==
    at = "booted" =>
        /\ kernel = mmcpart /\ fdt \in {kernel, Unset}
        /\ tidy => bootargs = kernel

(* Taken together: what runs is the system of one partition, the first one *)
(* that can be booted.                                                     *)
BootsOnePartition == PassesNoneOver /\ OfOnePartition

(* The command ends, whatever the partitions hold (for i in 2 3 4 5 6 7).   *)
CommandEnds == []<>(at \in {"booted", "prompt", "no card"})
=============================================================================
