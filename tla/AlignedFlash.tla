---------------------------- MODULE AlignedFlash ----------------------------
(***************************************************************************)
(* Flash with partitions made of whole erase blocks.  The sizes of the     *)
(* repository have that (a bootloader of 16 kB, PARTITION_APP_SIZE 0xE000),*)
(* but nothing checks it: flash.c:30 leaves it as a TODO, and Kconfig      *)
(* takes any BOOTLOADER_SIZE.  What the driver does without it is a run of *)
(* Flash alone.                                                            *)
(***************************************************************************)
EXTENDS Flash

ASSUME AlignmentAssumption == BOOTLOADER_PAGES % 16 = 0 /\ APP_PAGES % 16 = 0
=============================================================================
