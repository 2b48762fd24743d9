-------------------------- MODULE BootCommandProofs --------------------------
(***************************************************************************)
(* Theorems about the boot command of U-Boot, for any number of partitions *)
(* and any cards, put in one after the other.                              *)
(***************************************************************************)
EXTENDS BootCommand, TLAPS

(* The states in which the command looks at a partition, those after the   *)
(* import of its uEnv.txt, and those after the load of its kernel.         *)
Looking == at \notin {"rescan", "prompt", "no card"}
Named == at \in {"uname", "uname_boot", "fdt", "legacy", "mmcargs", "booted"}
Loaded == at \in {"fdt", "legacy", "mmcargs", "booted"}

(* It looks at partitions of a card that was found.                        *)
CardThere ==
    /\ Looking => found
    /\ at = "no card" => ~found
    /\ tidy => Complete(card)

(* With complete files the environment is that of the partition, whatever  *)
(* was in it before.                                                       *)
OwnEnvironment ==
    /\ at = "import" \/ Named => Here.file
    /\ tidy /\ Named => uname_r = Here.uname_r /\ uuid = mmcpart
    /\ tidy /\ at \in {"uname_boot", "fdt", "legacy", "mmcargs", "booted"} => mmcroot = mmcpart

(* What is in memory.  A device tree may be an old one at mmcargs, but     *)
(* only behind bootz without a tree, which has refused the kernel.         *)
OwnMemory ==
    /\ Loaded => kernel = mmcpart /\ uname_r \in Here.kernels
    /\ at = "mmcargs" => fdt = mmcpart \/ ~Accepted
    /\ at = "booted" => fdt \in {kernel, Unset} /\ bootargs = mmcroot /\ Accepted

(* Nothing bootable lies behind the command.                               *)
NothingMissed ==
    tidy /\ found =>
        /\ Looking => \A p \in Partitions : p < mmcpart => ~Bootable(p)
        /\ at = "next" => ~Bootable(mmcpart)
        /\ at = "prompt" => \A p \in Partitions : ~Bootable(p)

(* The inductive invariant.                                                *)
BootInv == TypeOK /\ CardThere /\ OwnEnvironment /\ OwnMemory /\ NothingMissed

(* The command begins with the first partition and an environment of       *)
(* which nothing is set.                                                   *)
LEMMA BootInvInit == Init => BootInv
<1> SUFFICES ASSUME Init PROVE BootInv
  OBVIOUS
<1> USE BootCommandAssumption DEF Init
<1>1. TypeOK
  BY DEF TypeOK, Partitions, Complete
<1>2. CardThere /\ OwnEnvironment /\ OwnMemory /\ NothingMissed
  BY DEF CardThere, OwnEnvironment, OwnMemory, NothingMissed, Looking, Named, Loaded
<1> QED
  BY <1>1, <1>2 DEF BootInv

(* A card nothing is on holds what a card may hold.                        *)
LEMMA EmptyCardIsCard == EmptyCard \in [Partitions -> Contents] /\ Complete(EmptyCard)
BY DEF EmptyCard, Contents, Complete

(* Each step keeps the variables in their sets.                            *)
LEMMA TypeKept == TypeOK /\ [Next]_vars => TypeOK'
<1> SUFFICES ASSUME TypeOK, [Next]_vars PROVE TypeOK'
  OBVIOUS
<1> USE BootCommandAssumption DEF TypeOK, Goes, slot, environment, memory, Here
<1>1. CASE Rescan \/ NextPartition \/ TestFile
  BY <1>1 DEF Rescan, NextPartition, TestFile, Partitions
<1>2. CASE Import
  <2>1. Here \in Contents
    OBVIOUS
  <2> QED
    BY <1>2, <2>1 DEF Import, Imported, Contents
<1>3. CASE TestUname
  BY <1>3 DEF TestUname, Imported
<1>4. CASE TestKernel \/ LoadTree \/ BootLegacy \/ BootWithTree
  BY <1>4 DEF TestKernel, LoadTree, BootLegacy, BootWithTree
<1>5. CASE TakeOut
  <2>1. First \in Partitions
    BY DEF Partitions
  <2>2. card' \in [Partitions -> Contents]
    BY <1>5, EmptyCardIsCard DEF TakeOut
  <2>3. {kernel', fdt'} \subseteq Partitions \cup {Unset, Earlier}
    BY <1>5 DEF TakeOut, Before
  <2> QED
    BY <1>5, <2>1, <2>2, <2>3 DEF TakeOut
<1>6. CASE Again
  BY <1>6 DEF Again, Complete
<1>7. CASE UNCHANGED vars
  BY <1>7 DEF vars
<1> QED
  BY <1>1, <1>2, <1>3, <1>4, <1>5, <1>6, <1>7 DEF Next, Command

(* So does it the rest of the invariant.                                   *)
LEMMA BootInvKept == BootInv /\ [Next]_vars => BootInv'
<1> SUFFICES ASSUME BootInv, [Next]_vars PROVE BootInv'
  OBVIOUS
<1>0. TypeOK /\ TypeOK'
  BY TypeKept DEF BootInv
<1> USE <1>0, BootCommandAssumption DEF BootInv, Goes, slot, environment, memory
<1>1. CASE Rescan
  <2>1. CardThere' /\ OwnEnvironment' /\ OwnMemory'
    BY <1>1 DEF Rescan, CardThere, OwnEnvironment, OwnMemory, Looking, Named, Loaded
  <2>2. \A p \in Partitions : ~(p < First)
    BY DEF Partitions
  <2>3. NothingMissed'
    BY <1>1, <2>2 DEF Rescan, NothingMissed, Looking
  <2> QED
    BY <2>1, <2>3
<1>2. CASE NextPartition
  <2>1. CardThere' /\ OwnEnvironment' /\ OwnMemory'
    BY <1>2 DEF NextPartition, CardThere, OwnEnvironment, OwnMemory, Looking, Named, Loaded
  <2>2. \A p \in Partitions : p < mmcpart + 1 \/ mmcpart >= Last => p < mmcpart \/ p = mmcpart
    BY DEF Partitions, TypeOK
  <2>3. tidy /\ found =>
          \A p \in Partitions : p < mmcpart \/ p = mmcpart => ~Bootable(p)
    BY <1>2 DEF NextPartition, NothingMissed, Looking
  <2>4. NothingMissed'
    <3>1. UNCHANGED <<card, found, tidy>>
      BY <1>2 DEF NextPartition
    <3>2. CASE mmcpart < Last
      <4>1. at' = "test" /\ mmcpart' = mmcpart + 1
        BY <1>2, <3>2 DEF NextPartition
      <4> QED
        BY <2>2, <2>3, <3>1, <4>1 DEF NothingMissed, Bootable
    <3>3. CASE ~(mmcpart < Last)
      <4>1. at' = "prompt" /\ mmcpart' = mmcpart
        BY <1>2, <3>3 DEF NextPartition
      <4>2. mmcpart >= Last
        BY <3>3 DEF TypeOK, Partitions
      <4> QED
        BY <2>2, <2>3, <3>1, <4>1, <4>2 DEF NothingMissed, Looking, Bootable
    <3> QED
      BY <3>2, <3>3
  <2> QED
    BY <2>1, <2>4
<1>3. CASE TestFile
  <2>1. CardThere' /\ OwnEnvironment' /\ OwnMemory'
    BY <1>3 DEF TestFile, CardThere, OwnEnvironment, OwnMemory, Looking, Named, Loaded, Here
  <2>2. NothingMissed'
    BY <1>3 DEF TestFile, NothingMissed, Looking, Bootable, Here
  <2> QED
    BY <2>1, <2>2
<1>4. CASE Import
  <2>1. tidy => Here.uname_r # Unset /\ Here.uuid = mmcpart /\ mmcpart # Unset
    BY <1>4 DEF Import, CardThere, OwnEnvironment, Complete, Here, TypeOK
  <2>2. tidy => uname_r' = Here.uname_r /\ uuid' = mmcpart
    BY <1>4, <2>1 DEF Import, Imported
  <2>3. OwnEnvironment'
    BY <1>4, <2>2 DEF Import, OwnEnvironment, Named, Here
  <2>4. CardThere' /\ OwnMemory' /\ NothingMissed'
    BY <1>4 DEF Import, CardThere, OwnMemory, NothingMissed, Looking, Loaded, Bootable
  <2> QED
    BY <2>3, <2>4
<1>5. CASE TestUname
  <2>1. tidy => /\ uname_r = Here.uname_r /\ Here.uname_r # Unset
               /\ uuid = mmcpart /\ mmcpart # Unset
    BY <1>5 DEF TestUname, CardThere, OwnEnvironment, Named, Complete, Here, TypeOK
  <2>2. tidy => at' = "uname_boot" /\ mmcroot' = mmcpart
    BY <1>5, <2>1 DEF TestUname, Imported
  <2>3. OwnEnvironment'
    BY <1>5, <2>2 DEF TestUname, OwnEnvironment, Named, Here
  <2>4. CardThere' /\ OwnMemory'
    BY <1>5 DEF TestUname, CardThere, OwnMemory, Looking, Loaded
  <2>5. NothingMissed'
    BY <1>5, <2>2 DEF TestUname, NothingMissed, Looking, Bootable
  <2> QED
    BY <2>3, <2>4, <2>5
<1>6. CASE TestKernel
  <2>1. CardThere' /\ OwnEnvironment' /\ OwnMemory'
    BY <1>6 DEF TestKernel, CardThere, OwnEnvironment, OwnMemory, Looking, Named, Loaded, Here
  <2>2. NothingMissed'
    BY <1>6 DEF TestKernel, OwnEnvironment, Named, NothingMissed, Looking, Bootable, Here
  <2> QED
    BY <2>1, <2>2
<1>7. CASE LoadTree
  <2>1. CardThere' /\ OwnEnvironment' /\ OwnMemory'
    BY <1>7
       DEF LoadTree, CardThere, OwnEnvironment, OwnMemory, Looking, Named, Loaded, Here, Accepted
  <2>2. NothingMissed'
    BY <1>7 DEF LoadTree, NothingMissed, Looking, Bootable
  <2> QED
    BY <2>1, <2>2
<1>8. CASE BootLegacy
  <2>1. CardThere' /\ OwnEnvironment' /\ OwnMemory'
    BY <1>8
       DEF BootLegacy, CardThere, OwnEnvironment, OwnMemory, Looking, Named, Loaded, Here, Accepted
  <2>2. NothingMissed'
    BY <1>8 DEF BootLegacy, NothingMissed, Looking, Bootable
  <2> QED
    BY <2>1, <2>2
<1>9. CASE BootWithTree
  <2>1. CardThere' /\ OwnEnvironment' /\ OwnMemory'
    BY <1>9
       DEF BootWithTree, CardThere, OwnEnvironment, OwnMemory, Looking, Named, Loaded, Here,
           Accepted
  <2>2. ~Accepted /\ tidy => ~Bootable(mmcpart)
    BY <1>9 DEF BootWithTree, OwnEnvironment, OwnMemory, Named, Loaded, Bootable, Accepted, Here
  <2>3. NothingMissed'
    BY <1>9, <2>2 DEF BootWithTree, NothingMissed, Looking, Bootable
  <2> QED
    BY <2>1, <2>3
<1>10. CASE TakeOut
  BY <1>10, EmptyCardIsCard
     DEF TakeOut, CardThere, OwnEnvironment, OwnMemory, NothingMissed, Looking, Named, Loaded
<1>11. CASE Again
  <2>1. tidy' => Complete(card')
    BY <1>11 DEF Again
  <2> QED
    BY <1>11, <2>1
       DEF Again, CardThere, OwnEnvironment, OwnMemory, NothingMissed, Looking, Named, Loaded
<1>12. CASE UNCHANGED vars
  BY <1>12
     DEF vars, CardThere, OwnEnvironment, OwnMemory, NothingMissed, Looking, Named, Loaded,
         Here, Accepted, Bootable, Complete
<1> QED
  BY <1>1, <1>2, <1>3, <1>4, <1>5, <1>6, <1>7, <1>8, <1>9, <1>10, <1>11, <1>12
     DEF Next, Command

(* The variables of the environment and the memory hold what they may:     *)
(* partitions, names and trees, or nothing.                                *)
THEOREM BootTypeCorrect == Spec => []TypeOK
<1>1. Init => TypeOK
  BY BootInvInit DEF BootInv
<1> QED
  BY <1>1, TypeKept, PTL DEF Spec

(* What boots is the kernel of one partition, with a device tree of that   *)
(* partition or none; with complete uEnv.txt files it is the first         *)
(* partition that can be booted, the root of the system is on it, and the  *)
(* prompt means that there is none (patch 0001, lines 63-113).             *)
THEOREM BootsFromOnePartition == Spec => []BootsOnePartition
<1>1. BootInv => BootsOnePartition
  <2> SUFFICES ASSUME BootInv PROVE PassesNoneOver /\ OfOnePartition
    BY DEF BootsOnePartition
  <2>1. OfOnePartition
    BY DEF BootInv, OwnEnvironment, OwnMemory, OfOnePartition, Loaded
  <2>2. at = "booted" /\ tidy => Bootable(mmcpart)
    BY DEF BootInv, OwnEnvironment, OwnMemory, Named, Loaded, Bootable, Accepted, Here
  <2>3. PassesNoneOver
    BY <2>2 DEF BootInv, NothingMissed, PassesNoneOver, Looking
  <2> QED
    BY <2>1, <2>3
<1> QED
  BY <1>1, BootInvInit, BootInvKept, PTL DEF Spec
=============================================================================
