----------------------------- MODULE FlashLayout -----------------------------
(***************************************************************************)
(* Flashing an SD card: vflash.sh, which partitions the card and copies    *)
(* the images to it with dd, and bcb.c, which makes the boot control block *)
(* that tells the ROM of the imx233 where u-boot is.  Sizes and positions  *)
(* are in sectors of 512 bytes unless they are named otherwise.  fdisk and *)
(* dd are external: fdisk starts a partition at the first free sector that *)
(* is a multiple of 2048.                                                  *)
(***************************************************************************)
EXTENDS Integers, Sequences

CONSTANTS MBYTE,        \* sectors of a megabyte, 2048
          CardSizes,    \* bytes of the cards
          UbootSizes, RootfsSizes,   \* sectors of the images
          Fresh,        \* TRUE: the card held no boot control block
          FAULTS        \* bound on steps that fail

ASSUME FlashLayoutAssumption ==
    /\ MBYTE \in Nat \ {0}
    /\ CardSizes \subseteq Nat /\ UbootSizes \subseteq Nat \ {0}
    /\ RootfsSizes \subseteq Nat \ {0}
    /\ Fresh \in BOOLEAN /\ FAULTS \in Nat

VARIABLES size, uboot, rootfs,   \* the card in bytes and the images
          mode,                  \* "bcb" or "mbr"
          step,                  \* what the script does next
          table,                 \* the partition table: "none" or "written"
          disk,                  \* the regions written and what is left of them
          faults

files == <<size, uboot, rootfs, mode>>
vars == <<files, step, table, disk, faults>>

SECTOR == 512
Sectors(bytes) == bytes \div SECTOR
Megabytes(bytes) == bytes \div (SECTOR * MBYTE)

-----------------------------------------------------------------------------
(* bcb.c: the words of the block.  The signature and the tag are numbers   *)
(* only the ROM looks at.                                                  *)
CONFIG_BLOCK_VERSION == 1
NUM_DRIVES == 4
IMAGE_START_BLOCK == MBYTE
BOOTIMAGE_TAG == 80
NUM_WORDS_WRITTEN == 11

Padding == [i \in 1 .. SECTOR \div 4 - NUM_WORDS_WRITTEN |-> i - 1]

Bcb(signature, deadbeef) ==
    <<signature, CONFIG_BLOCK_VERSION, NUM_DRIVES, NUM_DRIVES, NUM_DRIVES,
      IMAGE_START_BLOCK, BOOTIMAGE_TAG, BOOTIMAGE_TAG, BOOTIMAGE_TAG, BOOTIMAGE_TAG,
      deadbeef>> \o Padding

-----------------------------------------------------------------------------
(* The layout. *)
(* A slip: room is left for u-boot and the block only. *)
rootfsMaxSizeTooBig(bytes) == Megabytes(bytes) - 8

rootfsMaxSize(bytes) == Megabytes(bytes) - 9

(* A slip: the block behind the last one. *)
bcbConfigPositionBehind(bytes) == Sectors(bytes)

bcbConfigPosition(bytes) == Sectors(bytes) - 1

UbootAt == MBYTE            \* seek=2048
RootfsAt == 8 * MBYTE       \* seek=16384

(* The partitions <<first, last>> fdisk makes. *)
BcbPartitions(bytes) ==
    << <<MBYTE, 8 * MBYTE - 1>>,
       <<8 * MBYTE, (8 + rootfsMaxSize(bytes)) * MBYTE - 1>> >>

MbrPartitions(bytes) ==
    << <<MBYTE, 17 * MBYTE - 1>>, <<17 * MBYTE, Sectors(bytes) - 1>> >>

Partitions ==
    IF mode = "bcb" THEN BcbPartitions(size) ELSE MbrPartitions(size)

(* Where a file is copied to: a part of the card, given by its first and   *)
(* last sector, or a partition of it.                                      *)
Target(image) ==
    IF image = "bcb" THEN <<bcbConfigPosition(size), Sectors(size) - 1>>
    ELSE IF mode = "bcb" THEN <<IF image = "uboot" THEN UbootAt ELSE RootfsAt,
                                Sectors(size) - 1>>
    ELSE Partitions[IF image = "uboot" THEN 1 ELSE 2]

Length(image) == IF image = "uboot" THEN uboot ELSE IF image = "rootfs" THEN rootfs ELSE 1

First(image) == Target(image)[1]
End(image) == First(image) + Length(image)    \* the first sector behind it
Room(image) == End(image) <= Target(image)[2] + 1
Overlap(a, b) == First(a) < End(b) /\ First(b) < End(a)

-----------------------------------------------------------------------------
Images == {"uboot", "rootfs", "bcb"}

Init ==
    /\ size \in CardSizes /\ uboot \in UbootSizes /\ rootfs \in RootfsSizes
    /\ mode \in {"bcb", "mbr"}
    /\ Megabytes(size) > 18    \* fdisk makes both partitions in both modes
    /\ step = "erase" /\ table = "none"
    /\ disk = [i \in Images |-> IF i = "bcb" /\ ~Fresh THEN "old" ELSE "none"]
    /\ faults = 0

(* Nothing looks at how a step ended. *)
Goes(from, to) == step = from /\ step' = to

Fault == faults < FAULTS /\ faults' = faults + 1

(* Zeros over the first sectors, which end before the first partition. *)
Erase ==
    /\ Goes("erase", "fdisk")
    /\ \/ table' = "none" /\ UNCHANGED faults
       \/ Fault /\ UNCHANGED table
    /\ UNCHANGED <<files, disk>>

(* A slip: the block goes first. *)
FdiskThenBcb ==
    /\ Goes("fdisk", "bcb")
    /\ table' = "written" /\ UNCHANGED <<faults, files, disk>>

Fdisk ==
    /\ Goes("fdisk", "uboot")
    /\ \/ table' = "written" /\ UNCHANGED faults
       \/ Fault /\ UNCHANGED table
    /\ UNCHANGED <<files, disk>>

(* What the regions hold once image is written: one that is overlapped is  *)
(* torn.                                                                   *)
Written(image, state) ==
    [i \in Images |->
        IF i = image THEN state
        ELSE IF disk[i] # "none" /\ Overlap(i, image) THEN "torn"
        ELSE disk[i]]

(* dd writes the file, as far as there is room, or fails on the way.  In   *)
(* mbr mode it writes to the device node of a partition; without one it    *)
(* makes a file of that name on the host.                                  *)
Copy(image) ==
    \/ /\ mode = "mbr" => table = "written"
       /\ disk' = Written(image, IF Room(image) THEN "whole" ELSE "torn")
       /\ UNCHANGED faults
    \/ /\ mode = "mbr" /\ table = "none"
       /\ UNCHANGED <<disk, faults>>
    \/ Fault /\ disk' = Written(image, "torn")

CopyUboot == Goes("uboot", "rootfs") /\ Copy("uboot") /\ UNCHANGED <<files, table>>

CopyRootfs ==
    /\ Goes("rootfs", IF mode = "bcb" THEN "bcb" ELSE "end")
    /\ Copy("rootfs") /\ UNCHANGED <<files, table>>

CopyBcb == Goes("bcb", "end") /\ Copy("bcb") /\ UNCHANGED <<files, table>>

(* The script is interrupted or the card pulled. *)
Interrupted ==
    /\ step \notin {"end", "cut"} /\ step' = "cut"
    /\ UNCHANGED <<files, table, disk, faults>>

Next == Erase \/ Fdisk \/ CopyUboot \/ CopyRootfs \/ CopyBcb \/ Interrupted

Spec == Init /\ [][Next]_vars

-----------------------------------------------------------------------------
(* Properties *)

TypeOK ==
    /\ size \in CardSizes /\ uboot \in UbootSizes /\ rootfs \in RootfsSizes
    /\ mode \in {"bcb", "mbr"}
    /\ step \in {"erase", "fdisk", "uboot", "rootfs", "bcb", "end", "cut"}
    /\ table \in {"none", "written"}
    /\ disk \in [Images -> {"none", "old", "whole", "torn"}]
    /\ faults \in 0 .. FAULTS

ImagesFit ==
    /\ uboot <= Partitions[1][2] + 1 - Partitions[1][1]
    /\ rootfs <= Partitions[2][2] + 1 - Partitions[2][1]

Bootable ==
    /\ table = "written" /\ disk["uboot"] = "whole" /\ disk["rootfs"] = "whole"
    /\ First("uboot") = Partitions[1][1] /\ First("rootfs") = Partitions[2][1]
    /\ mode = "bcb" => /\ disk["bcb"] = "whole"
                       /\ 4 * Len(Bcb(0, 0)) = SECTOR /\ Bcb(0, 0)[6] = First("uboot")

(* A card flashed to the end with images that fit their partitions can be  *)
(* booted: nothing written last has gone over what was written before, the *)
(* block in the last sector, 512 bytes long (bcb.c:1), points at u-boot,   *)
(* and the root file system starts where partition 2 does.                 *)
FlashedIsBootable == step = "end" /\ faults = 0 /\ ImagesFit => Bootable

(* The partitions and the last sector, which belongs to the boot control   *)
(* block, do not overlap and lie on the card; the partition of the root    *)
(* file system leaves less than two megabytes of the card unused           *)
(* (README.md:64, "use the size of SD card itself").                       *)
LayoutSound ==
    /\ Partitions[1][1] <= Partitions[1][2]
    /\ Partitions[1][2] < Partitions[2][1] /\ Partitions[2][1] <= Partitions[2][2]
    /\ Partitions[2][2] < Sectors(size)
    /\ mode = "bcb" => /\ Partitions[2][2] < bcbConfigPosition(size)
                       /\ Sectors(size) - Partitions[2][2] <= 2 * MBYTE

(* On a fresh card the block is the last thing written: a card that was    *)
(* cut off has none, and the ROM does not boot half a u-boot.              *)
NoBlockOnHalf ==
    Fresh /\ faults = 0 /\ ImagesFit /\ disk["bcb"] # "none" => Bootable
=============================================================================
