-------------------------- MODULE FlashLayoutProofs --------------------------
(***************************************************************************)
(* For cards and images of every size, with the code's sectors to a        *)
(* megabyte: the layout is sound, and flashing to the end leaves a card    *)
(* that can be booted.                                                     *)
(***************************************************************************)
EXTENDS FlashLayout, TLAPS

States == {"none", "old", "whole", "torn"}
Steps == {"erase", "fdisk", "uboot", "rootfs", "bcb", "end", "cut"}

(* What is known of a card and its images.                                 *)
Sizes ==
    /\ size \in Nat /\ uboot \in Nat \ {0} /\ rootfs \in Nat \ {0}
    /\ mode \in {"bcb", "mbr"} /\ Megabytes(size) > 18

TypesKnown ==
    /\ Sizes
    /\ step \in Steps /\ (step = "bcb" => mode = "bcb") /\ table \in {"none", "written"}
    /\ disk \in [Images -> States] /\ faults \in Nat

(* What is on the card before each step, if nothing fails and the images   *)
(* fit.                                                                    *)
Copied ==
    faults = 0 /\ ImagesFit =>
        /\ step \in {"uboot", "rootfs", "bcb", "end"} => table = "written"
        /\ step \in {"rootfs", "bcb", "end"} => disk["uboot"] = "whole"
        /\ step \in {"bcb", "end"} => disk["rootfs"] = "whole"
        /\ step = "end" /\ mode = "bcb" => disk["bcb"] = "whole"

BlockLast == Fresh /\ disk["bcb"] # "none" => step = "end" /\ mode = "bcb"

IInv == TypesKnown /\ Copied /\ BlockLast

-----------------------------------------------------------------------------
(* The numbers of a card.                                                  *)
LEMMA CardNumbers ==
    ASSUME MBYTE = 2048, Sizes
    PROVE  /\ Megabytes(size) \in Nat /\ Sectors(size) \in Nat
           /\ 2048 * Megabytes(size) <= Sectors(size)
           /\ Sectors(size) < 2048 * (Megabytes(size) + 1)
<1>1. Megabytes(size) = size \div 1048576 /\ Sectors(size) = size \div 512
  BY DEF Megabytes, Sectors, SECTOR
<1>2. size \in Nat
  BY DEF Sizes
<1> QED
  BY <1>1, <1>2

(* The partitions, written out.                                            *)
LEMMA PartitionNumbers ==
    ASSUME MBYTE = 2048, Sizes
    PROVE  /\ Partitions[1][1] = 2048
           /\ mode = "bcb" => /\ Partitions[1][2] = 16383 /\ Partitions[2][1] = 16384
                              /\ Partitions[2][2] = 2048 * (Megabytes(size) - 1) - 1
           /\ mode = "mbr" => /\ Partitions[1][2] = 34815 /\ Partitions[2][1] = 34816
                              /\ Partitions[2][2] = Sectors(size) - 1
<1>1. Megabytes(size) \in Nat /\ Sectors(size) \in Nat
  BY CardNumbers
<1>2. CASE mode = "bcb"
  BY <1>1, <1>2 DEF Partitions, BcbPartitions, rootfsMaxSize
<1>3. CASE mode = "mbr"
  BY <1>1, <1>3 DEF Partitions, MbrPartitions
<1> QED
  BY <1>2, <1>3 DEF Sizes

(* The layout is sound on every card.                                      *)
LEMMA SizesMakeSound ==
    ASSUME MBYTE = 2048, Sizes
    PROVE  LayoutSound
<1>1. mode \in {"bcb", "mbr"} /\ Megabytes(size) > 18
  BY DEF Sizes
<1> QED
  BY <1>1, CardNumbers, PartitionNumbers DEF LayoutSound, bcbConfigPosition

(* Where images that fit their partitions come to lie.                     *)
LEMMA ImagesApart ==
    ASSUME MBYTE = 2048, Sizes, ImagesFit
    PROVE  /\ First("uboot") = Partitions[1][1] /\ First("rootfs") = Partitions[2][1]
           /\ Room("uboot") /\ Room("rootfs") /\ Room("bcb")
           /\ ~Overlap("uboot", "rootfs") /\ ~Overlap("rootfs", "uboot")
           /\ mode = "bcb" => ~Overlap("uboot", "bcb") /\ ~Overlap("rootfs", "bcb")
<1> DEFINE n == Megabytes(size)  s == Sectors(size)
<1>1. /\ n \in Nat /\ s \in Nat /\ n > 18 /\ 2048 * n <= s
      /\ uboot \in Nat /\ rootfs \in Nat
  BY CardNumbers DEF Sizes
<1>2. Length("uboot") = uboot /\ Length("rootfs") = rootfs /\ Length("bcb") = 1
  BY DEF Length
<1>3. Target("bcb")[1] = s - 1 /\ Target("bcb")[2] = s - 1
  BY DEF Target, bcbConfigPosition
<1>4. CASE mode = "bcb"
  <2>1. /\ Target("uboot")[1] = 2048 /\ Target("uboot")[2] = s - 1
        /\ Target("rootfs")[1] = 16384 /\ Target("rootfs")[2] = s - 1
    BY <1>4 DEF Target, UbootAt, RootfsAt
  <2>2. uboot <= 14336 /\ rootfs <= 2048 * (n - 1) - 16384
    BY <1>1, <1>4, PartitionNumbers DEF ImagesFit
  <2>3. Partitions[1][1] = 2048 /\ Partitions[2][1] = 16384
    BY <1>4, PartitionNumbers
  <2> HIDE DEF n, s
  <2> QED
    BY <1>1, <1>2, <1>3, <1>4, <2>1, <2>2, <2>3 DEF First, End, Room, Overlap
<1>5. CASE mode = "mbr"
  <2>1. /\ Target("uboot")[1] = Partitions[1][1] /\ Target("uboot")[2] = Partitions[1][2]
        /\ Target("rootfs")[1] = Partitions[2][1] /\ Target("rootfs")[2] = Partitions[2][2]
    BY <1>5 DEF Target
  <2>2. /\ Partitions[1][1] = 2048 /\ Partitions[1][2] = 34815
        /\ Partitions[2][1] = 34816 /\ Partitions[2][2] = s - 1
    BY <1>5, PartitionNumbers
  <2>3. uboot <= 32768 /\ rootfs <= s - 34816
    BY <1>1, <2>2 DEF ImagesFit
  <2> HIDE DEF n, s
  <2> QED
    BY <1>1, <1>2, <1>3, <1>5, <2>1, <2>2, <2>3 DEF First, End, Room, Overlap
<1> QED
  BY <1>4, <1>5 DEF Sizes

(* The length and the sixth word of a sequence put together.               *)
LEMMA BlockConcat ==
    ASSUME NEW S, NEW s \in Seq(S), NEW t \in Seq(S), NEW m \in Nat, NEW n \in Nat,
           Len(s) = m, Len(t) = n, m > 5
    PROVE  Len(s \o t) = m + n /\ (s \o t)[6] = s[6]
OBVIOUS

(* The block is one sector long and points at u-boot.                      *)
LEMMA BlockPoints ==
    ASSUME MBYTE = 2048
    PROVE  4 * Len(Bcb(0, 0)) = SECTOR /\ Bcb(0, 0)[6] = 2048
<1> DEFINE head == <<0, CONFIG_BLOCK_VERSION, NUM_DRIVES, NUM_DRIVES, NUM_DRIVES,
                     IMAGE_START_BLOCK, BOOTIMAGE_TAG, BOOTIMAGE_TAG, BOOTIMAGE_TAG,
                     BOOTIMAGE_TAG, 0>>
<1>1. head \in Seq(Int) /\ Len(head) = 11 /\ head[6] = 2048
  BY DEF CONFIG_BLOCK_VERSION, NUM_DRIVES, IMAGE_START_BLOCK, BOOTIMAGE_TAG
<1>2. Padding \in Seq(Int) /\ Len(Padding) = 117
  <2>1. Padding = [i \in 1 .. 117 |-> i - 1]
    BY DEF Padding, SECTOR, NUM_WORDS_WRITTEN
  <2> QED
    BY <2>1
<1>3. Bcb(0, 0) = head \o Padding
  BY DEF Bcb
<1> HIDE DEF head
<1>4. PICK m \in Nat, n \in Nat : m = 11 /\ n = 117
  OBVIOUS
<1>5. Len(head) = m /\ Len(Padding) = n /\ m > 5
  BY <1>1, <1>2, <1>4
<1>6. Len(head \o Padding) = m + n /\ (head \o Padding)[6] = head[6]
  <2>1. head \in Seq(Int) /\ Padding \in Seq(Int)
    BY <1>1, <1>2
  <2> QED
    BY <1>5, <2>1, BlockConcat
<1> QED
  BY <1>1, <1>3, <1>4, <1>6 DEF SECTOR

-----------------------------------------------------------------------------
(* The invariant holds before the first step of the script.                *)
LEMMA InitMakesIInv == Init => IInv
<1> SUFFICES ASSUME Init PROVE IInv
  OBVIOUS
<1>1. TypesKnown
  BY FlashLayoutAssumption DEF Init, TypesKnown, Sizes, Steps, States, Images
<1> QED
  BY <1>1 DEF Init, IInv, Copied, BlockLast, Images

(* One copy, of an image that does not lie over the others.                *)
LEMMA CopyKeepsOthers ==
    ASSUME TypesKnown, UNCHANGED files, UNCHANGED table,
           NEW image \in Images, Copy(image)
    PROVE  /\ disk' \in [Images -> States] /\ faults' \in Nat
           /\ faults' = 0 => faults = 0
           /\ faults' = 0 /\ table = "written" /\ Room(image) => disk'[image] = "whole"
           /\ \A i \in Images \ {image} :
                 /\ disk'[i] # "none" => disk[i] # "none"
                 /\ ~Overlap(i, image) => disk'[i] = disk[i]
<1> USE DEF TypesKnown, States
<1>1. disk \in [Images -> States] /\ faults \in Nat /\ FAULTS \in Nat
  BY FlashLayoutAssumption
<1>2. \A state \in {"whole", "torn"} :
         /\ Written(image, state) \in [Images -> States]
         /\ Written(image, state)[image] = state
         /\ \A i \in Images \ {image} :
              /\ Written(image, state)[i] # "none" => disk[i] # "none"
              /\ ~Overlap(i, image) => Written(image, state)[i] = disk[i]
  BY <1>1 DEF Written
<1>3. CASE disk' = Written(image, IF Room(image) THEN "whole" ELSE "torn")
           /\ UNCHANGED faults
  BY <1>1, <1>2, <1>3
<1>4. CASE mode = "mbr" /\ table = "none" /\ UNCHANGED <<disk, faults>>
  BY <1>1, <1>4
<1>5. CASE Fault /\ disk' = Written(image, "torn")
  BY <1>1, <1>2, <1>5 DEF Fault
<1> QED
  BY <1>3, <1>4, <1>5 DEF Copy

(* Every step of the script, faults and interruptions included, keeps it.  *)
LEMMA NextKeepsIInv ==
    ASSUME MBYTE = 2048, IInv, [Next]_vars
    PROVE  IInv'
<1> USE DEF IInv
<1>1. TypesKnown /\ Copied /\ BlockLast
  OBVIOUS
<1>2. ASSUME UNCHANGED files
      PROVE  Sizes' /\ (ImagesFit' <=> ImagesFit)
  BY <1>1, <1>2 DEF TypesKnown, Sizes, files, ImagesFit, Partitions
<1>3. CASE Erase
  <2>1. TypesKnown'
    BY <1>1, <1>2, <1>3 DEF Erase, TypesKnown, Steps, Goes, Fault
  <2> QED
    BY <1>1, <1>2, <1>3, <2>1 DEF Erase, Goes, Copied, BlockLast, files, TypesKnown, Fault
<1>4. CASE Fdisk
  <2>1. TypesKnown'
    BY <1>1, <1>2, <1>4 DEF Fdisk, TypesKnown, Steps, Goes, Fault
  <2>2. faults' = 0 => faults = 0 /\ table' = "written"
    BY <1>1, <1>4 DEF Fdisk, Fault, TypesKnown
  <2> QED
    BY <1>1, <1>2, <1>4, <2>1, <2>2 DEF Fdisk, Goes, Copied, BlockLast, files
<1>5. CASE CopyUboot
  <2>1. /\ step = "uboot" /\ step' = "rootfs" /\ Copy("uboot")
        /\ UNCHANGED files /\ UNCHANGED table /\ "uboot" \in Images
    BY <1>5 DEF CopyUboot, Goes, Images
  <2>2. TypesKnown'
    BY <1>1, <1>2, <2>1, CopyKeepsOthers DEF TypesKnown, Steps, files
  <2>3. Copied'
    BY <1>1, <1>2, <2>1, CopyKeepsOthers, ImagesApart DEF Copied, TypesKnown, files
  <2>4. BlockLast'
    BY <1>1, <2>1, CopyKeepsOthers DEF BlockLast, Images, files
  <2> QED
    BY <2>2, <2>3, <2>4
<1>6. CASE CopyRootfs
  <2>1. /\ step = "rootfs" /\ step' = IF mode = "bcb" THEN "bcb" ELSE "end"
        /\ Copy("rootfs")
        /\ UNCHANGED files /\ UNCHANGED table /\ "rootfs" \in Images
    BY <1>6 DEF CopyRootfs, Goes, Images
  <2>2. TypesKnown'
    BY <1>1, <1>2, <2>1, CopyKeepsOthers DEF TypesKnown, Steps, files
  <2>3. ASSUME faults' = 0, ImagesFit
        PROVE  table = "written" /\ disk'["uboot"] = "whole" /\ disk'["rootfs"] = "whole"
    <3>1. faults = 0
      BY <1>1, <2>1, <2>3, CopyKeepsOthers
    <3>2. table = "written" /\ disk["uboot"] = "whole"
      BY <1>1, <2>1, <2>3, <3>1 DEF Copied
    <3>3. Room("rootfs") /\ ~Overlap("uboot", "rootfs")
      BY <1>1, <2>3, ImagesApart DEF TypesKnown
    <3>4. "uboot" \in Images \ {"rootfs"}
      BY DEF Images
    <3> QED
      BY <1>1, <2>1, <2>3, <3>2, <3>3, <3>4, CopyKeepsOthers
  <2>4. Copied'
    BY <1>2, <2>1, <2>3 DEF Copied, files
  <2>5. BlockLast'
    BY <1>1, <2>1, CopyKeepsOthers DEF BlockLast, Images, files
  <2> QED
    BY <2>2, <2>4, <2>5
<1>7. CASE CopyBcb
  <2>1. /\ step = "bcb" /\ step' = "end" /\ Copy("bcb")
        /\ UNCHANGED files /\ UNCHANGED table /\ "bcb" \in Images
    BY <1>7 DEF CopyBcb, Goes, Images
  <2>2. TypesKnown'
    BY <1>1, <1>2, <2>1, CopyKeepsOthers DEF TypesKnown, Steps, files
  <2>3. ASSUME faults' = 0, ImagesFit
        PROVE  /\ table = "written" /\ mode = "bcb"
               /\ \A i \in Images : disk'[i] = "whole"
    <3>1. faults = 0
      BY <1>1, <2>1, <2>3, CopyKeepsOthers
    <3>2. /\ table = "written" /\ mode = "bcb"
          /\ disk["uboot"] = "whole" /\ disk["rootfs"] = "whole"
      BY <1>1, <2>1, <2>3, <3>1 DEF Copied, TypesKnown
    <3>3. Room("bcb") /\ ~Overlap("uboot", "bcb") /\ ~Overlap("rootfs", "bcb")
      BY <1>1, <2>3, <3>2, ImagesApart DEF TypesKnown
    <3> QED
      BY <1>1, <2>1, <2>3, <3>2, <3>3, CopyKeepsOthers DEF Images
  <2>4. Copied'
    BY <1>2, <2>1, <2>3 DEF Copied, files, Images
  <2>5. BlockLast'
    BY <1>1, <2>1 DEF BlockLast, files, TypesKnown
  <2> QED
    BY <2>2, <2>4, <2>5
<1>8. CASE Interrupted
  <2>1. TypesKnown'
    BY <1>1, <1>2, <1>8 DEF Interrupted, TypesKnown, Steps
  <2> QED
    BY <1>1, <1>2, <1>8, <2>1 DEF Interrupted, Copied, BlockLast, files
<1>9. CASE UNCHANGED vars
  <2>1. TypesKnown'
    BY <1>1, <1>2, <1>9 DEF vars, TypesKnown, files
  <2> QED
    BY <1>1, <1>2, <1>9, <2>1 DEF vars, Copied, BlockLast, files
<1> QED
  BY <1>3, <1>4, <1>5, <1>6, <1>7, <1>8, <1>9 DEF Next

(* A card at the end of a flashing without faults can be booted.           *)
LEMMA CopiedIsBootable ==
    ASSUME MBYTE = 2048, IInv, step = "end", faults = 0, ImagesFit
    PROVE  Bootable
<1>1. /\ Sizes /\ table = "written"
      /\ disk["uboot"] = "whole" /\ disk["rootfs"] = "whole"
      /\ mode = "bcb" => disk["bcb"] = "whole"
  BY DEF IInv, TypesKnown, Copied
<1>2. First("uboot") = Partitions[1][1] /\ First("rootfs") = Partitions[2][1]
  BY <1>1, ImagesApart
<1>3. First("uboot") = 2048
  BY <1>1, <1>2, PartitionNumbers
<1> QED
  BY <1>1, <1>2, <1>3, BlockPoints DEF Bootable

(* On every card that is large enough the layout of vflash.sh is sound,    *)
(* whatever the images.                                                    *)
THEOREM CardsAlwaysSound == ASSUME MBYTE = 2048 PROVE Spec => []LayoutSound
<1>1. IInv => LayoutSound
  BY SizesMakeSound DEF IInv, TypesKnown
<1> QED
  BY InitMakesIInv, NextKeepsIInv, <1>1, PTL DEF Spec

(* Flashing to the end makes a card that can be booted (vflash.sh).        *)
THEOREM FlashingMakesBootable == ASSUME MBYTE = 2048 PROVE Spec => []FlashedIsBootable
<1>1. IInv => FlashedIsBootable
  BY CopiedIsBootable DEF FlashedIsBootable
<1> QED
  BY InitMakesIInv, NextKeepsIInv, <1>1, PTL DEF Spec

(* A fresh card that was cut off has no boot control block.                *)
THEOREM BlockComesLast == ASSUME MBYTE = 2048 PROVE Spec => []NoBlockOnHalf
<1>1. IInv => NoBlockOnHalf
  BY CopiedIsBootable DEF NoBlockOnHalf, IInv, BlockLast
<1> QED
  BY InitMakesIInv, NextKeepsIInv, <1>1, PTL DEF Spec
=============================================================================
