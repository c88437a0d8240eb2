------------------------------ MODULE MCFlash ------------------------------
(***************************************************************************)
(* Small instances of Flash.  The base addresses and the literals of the   *)
(* drivers (32, 16, the 12-bit mask) are the real ones; partitions shrink  *)
(* to two erase blocks each.                                               *)
(***************************************************************************)
EXTENDS Flash

MCBasePage == IF SERIES = "V71" THEN 8192 ELSE 1048576

MCCell == {0, 1}

\* The bootloader is half programmed, the partitions hold an old image.
MCInitialFlashes ==
  {[p \in 0 .. DEVICE_PAGES - 1 |->
      IF p < BOOTLOADER_PAGES THEN {0} ELSE IF p % 2 = 0 THEN {1} ELSE {}]}

\* Both applications, the bootloader and an id nobody has.
MCAskedIds == {0, 1, 255, 7}

\* First and last page of a partition, the page after it, the first page
\* beyond the device, and the page number that wraps to 0 in a uint16_t.
MCAskedPages == {0, APP_PAGES - 1, APP_PAGES, DEVICE_PAGES, 65536 - BOOTLOADER_PAGES}

MCAskedBuffers == {{0}, {0, 1}}
=============================================================================
