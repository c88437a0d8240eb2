---------------------------- MODULE MCBootloader ----------------------------
(***************************************************************************)
(* A bootloader with two-byte pages and partitions of one erase block.     *)
(***************************************************************************)
EXTENDS Main, FiniteSetsExt

MCBasePage == IF SERIES = "V71" THEN 8192 ELSE 1048576
MCCell == 0 .. CONFIG_PAGE_SIZE - 1
MCContent == SUBSET MCCell

\* An old image in both applications, with one blank page in each.
MCInitialFlashes ==
  {[p \in 0 .. DEVICE_PAGES - 1 |-> IF p % 16 = 0 THEN {} ELSE {0}]}

\* A checksum with collisions: {} and {0, 1} have the same.
MCcrc_32_page(content) == SumSet({c + 1 : c \in content}) % 3

MCAskedCrcs == {0, 1}

\* Two chunks that fit, the second overwriting part of the first, and one that
\* ends a byte beyond the page.
MCAskedChunks ==
  {[offset |-> 0, data_len |-> 2, data |-> {0}],
   [offset |-> 0, data_len |-> 1, data |-> {}],
   [offset |-> 1, data_len |-> 2, data |-> {1}]}

\* BOOT_NONE, both applications and the bootloader.
MCAskedActions == {0, 1, 2, 255}

\* First page, and the first page beyond the partition.
MCAskedPages == {0, APP_PAGES}
=============================================================================
