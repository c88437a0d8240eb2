------------------------------- MODULE Flash -------------------------------
(***************************************************************************)
(* The flash driver (flash.c, v71_flash.c, rh71_flash.c) and the flash     *)
(* controller it commands.  Addresses are counted in pages: every address  *)
(* the driver computes is a multiple of CONFIG_PAGE_SIZE.  The content of  *)
(* a page is the set of its cells that are programmed (not FF): a blank    *)
(* page is {}, and programming can only add cells, never clear them.       *)
(*                                                                         *)
(* One action per point where the controller and the driver interleave:    *)
(* the driver polls EEFC_FSR, writes EEFC_FCR, polls again.  The           *)
(* controller (hardware, not in the repository) finishes or refuses the    *)
(* command between two polls.                                              *)
(***************************************************************************)
EXTENDS Integers, FiniteSets

CONSTANTS
  SERIES,             \* "V71" or "RH71": which of the two drivers is built
  CONFIG_RAM_BUILD,   \* TRUE in the build that may flash the bootloader
  FLASH_BASE_PAGE,    \* CONFIG_FLASH_BASE_ADDRESS / CONFIG_PAGE_SIZE
  BOOTLOADER_PAGES,   \* CONFIG_BOOTLOADER_SIZE * 1024 / CONFIG_PAGE_SIZE
  APP_PAGES,          \* PARTITION_APP_SIZE / CONFIG_PAGE_SIZE
  DEVICE_PAGES,       \* pages the device has
  EPA_FIELD,          \* how the controller reads FARG of an EPA command
  STORE_FAULTS,       \* a store outside the device raises a bus fault
  Cell,               \* the byte positions of a page
  InitialFlashes,     \* contents the flash may have at power-up
  AskedIds,           \* partition ids a caller asks for
  AskedPages,         \* page numbers (uint16_t) a caller asks for
  AskedBuffers,       \* page buffers a caller passes
  MaxCalls,           \* bound: driver calls in a behaviour
  MaxResets           \* bound: resets in a behaviour

APP_1 == 0
APP_2 == 1
BOOTLOADER == 255

Page == 0 .. DEVICE_PAGES - 1
Content == SUBSET Cell
uint16_t == {n \in Nat : n <= 65535}

ASSUME GeometryAssumption ==
  /\ SERIES \in {"V71", "RH71"}
  /\ CONFIG_RAM_BUILD \in BOOLEAN
  /\ STORE_FAULTS \in BOOLEAN
  /\ EPA_FIELD \in {"page", "page_div_16"}
  /\ FLASH_BASE_PAGE \in Nat /\ FLASH_BASE_PAGE % 4096 = 0
  /\ BOOTLOADER_PAGES \in Nat \ {0}
  /\ APP_PAGES \in Nat \ {0}
  /\ DEVICE_PAGES \in Nat /\ DEVICE_PAGES <= 4096
  /\ BOOTLOADER_PAGES + 2 * APP_PAGES <= DEVICE_PAGES
  /\ SERIES = "V71" => /\ BOOTLOADER_PAGES <= 32
                       /\ FLASH_BASE_PAGE + DEVICE_PAGES + 32 <= 65536
  /\ SERIES = "RH71" => FLASH_BASE_PAGE % 65536 = 0

ASSUME InputAssumption ==
  /\ InitialFlashes \subseteq [Page -> Content]
  /\ AskedIds \subseteq Nat
  /\ AskedPages \subseteq uint16_t
  /\ AskedBuffers \subseteq Content
  /\ MaxCalls \in Nat /\ MaxResets \in Nat

VARIABLES
  flash,    \* content of every page of the device
  latch,    \* the controller's page latch
  fcr,      \* the command the controller is executing
  fsr,      \* EEFC_FSR: bit 0 FRDY, 1 FCMDE, 2 FLOCKE, 3 FLERR
  pc,       \* where the driver is
  page,     \* the local `page' of the call in progress
  partition,\* whose bounds flash_get_partition copied for the call in progress
  ret,      \* the value the last call returned
  call,     \* history: the call in progress and its arguments
  before,   \* history: the flash when that call was made
  calls,    \* calls so far
  resets    \* resets so far

controller == <<flash, latch, fcr, fsr>>
driver == <<pc, page, partition, ret>>
history == <<call, before, calls, resets>>
flashVars == <<flash, latch, fcr, fsr, pc, page, partition, ret, call, before, calls, resets>>

-----------------------------------------------------------------------------
(* Partitions: flash.c *)

\* Mutant: the bootloader partition without its #if.
PartitionsOfEveryBuild == {APP_1, APP_2, BOOTLOADER}
Partitions == {APP_1, APP_2} \cup (IF CONFIG_RAM_BUILD THEN {BOOTLOADER} ELSE {})

PartitionStart(id) ==
  CASE id = APP_1 -> FLASH_BASE_PAGE + BOOTLOADER_PAGES
    [] id = APP_2 -> FLASH_BASE_PAGE + BOOTLOADER_PAGES + APP_PAGES
    [] OTHER      -> FLASH_BASE_PAGE

PartitionEnd(id) ==
  PartitionStart(id) + (IF id \in {APP_1, APP_2} THEN APP_PAGES ELSE BOOTLOADER_PAGES)

PartitionPages(id) ==
  {p \in Page : PartitionStart(id) <= FLASH_BASE_PAGE + p /\ FLASH_BASE_PAGE + p < PartitionEnd(id)}

BootloaderPages == 0 .. BOOTLOADER_PAGES - 1

-----------------------------------------------------------------------------
(* Command words *)

\* Mutant: the poll loop of wait_fsr_frdy left out.
ReadyAtOnce(status) == TRUE
Ready(status) == status % 2 = 1
ERRORS == {3, 5, 9}                 \* FRDY with FCMDE, FLOCKE or FLERR

\* Mutant: the sign of an error forgotten.
ResultUnsigned(status) == IF status \in ERRORS THEN status ELSE 0
Result(status) == IF status \in ERRORS THEN -status ELSE 0

NoCommand == [cmd |-> "none", farg |-> 0]
Command == [cmd : {"WP", "EPA"}, farg : uint16_t]
NoCall == [op |-> "none", id |-> 0, n |-> 0, buf |-> {}]

\* Mutant: the start page not shifted past the block size.
EpaArgUnshifted(p) == ((p - (p % 16)) % 4096) + 2

\* EEFC_CMD_EPA_ARG((p & ~0xF), EEFC_CMD_EPA_ARG_NP_16)
EpaArg(p) == 4 * ((p - (p % 16)) % 4096) + 2

\* Mutant: the page within the partition taken for the page of the device.
WritePageArgRelative(start, n) == n % 65536

\* FARG of the WP command for page n of the partition that starts at `start'.
WritePageArg(start, n) ==
  IF SERIES = "V71" THEN (32 + n) % 65536 ELSE (start + n) % 65536

\* The first page the controller erases: FARG[15:2] is the page, rounded down
\* to a multiple of 16, or FARG[15:4] is the page divided by 16.
EpaStart(farg) ==
  IF EPA_FIELD = "page" THEN 16 * (farg \div 64) ELSE 16 * (farg \div 16)

Targets(c) ==
  CASE c.cmd = "WP"  -> {c.farg}
    [] c.cmd = "EPA" -> EpaStart(c.farg) .. EpaStart(c.farg) + 15
    [] OTHER         -> {}

\* The flash once `target' has been erased (junk = {}) or was left half done.
Overwritten(target, junk) == [p \in Page |-> IF p \in target THEN junk ELSE flash[p]]

\* Programming only turns more cells from 1 to 0.
Programmed(target) == [p \in Page |-> IF p \in target THEN flash[p] \cup latch ELSE flash[p]]

-----------------------------------------------------------------------------
(* flash_erase_partition *)

Return(value) == pc' = "return" /\ ret' = value

Calls(op, id, n, buf) ==
  /\ pc = "idle"
  /\ calls < MaxCalls
  /\ calls' = calls + 1
  /\ call' = [op |-> op, id |-> id, n |-> n, buf |-> buf]
  /\ before' = flash
  /\ UNCHANGED resets

EraseCall(id) ==
  /\ Calls("erase", id, 0, {})
  /\ IF id \notin Partitions
       THEN Return(-1) /\ UNCHANGED <<page, partition>>
       ELSE /\ partition' = id
            /\ page' = PartitionStart(id)
            /\ pc' = "erase_wait"
            /\ UNCHANGED ret
  /\ UNCHANGED controller

\* Mutants: the loop counter not advanced; the end of the partition included.
NextBlockForgotten(p) == p
NextBlock(p) == p + 16
InPartitionInclusive(p) == p <= PartitionEnd(partition)
InPartition(p) == p < PartitionEnd(partition)

EraseIssue ==
  /\ pc = "erase_wait"
  /\ Ready(fsr)
  /\ fcr' = [cmd |-> "EPA", farg |-> EpaArg(page)]
  /\ fsr' = 0
  /\ pc' = "erase_check"
  /\ UNCHANGED <<flash, latch, page, partition, ret, history>>

\* Reading the status clears its error flags.
EraseCheck ==
  /\ pc = "erase_check"
  /\ Ready(fsr)
  /\ fsr' = 1
  /\ IF fsr \in ERRORS THEN Return(Result(fsr)) /\ UNCHANGED page
     ELSE /\ page' = NextBlock(page)
          /\ IF InPartition(NextBlock(page)) THEN pc' = "erase_wait" /\ UNCHANGED ret
             ELSE Return(0)
  /\ UNCHANGED <<flash, latch, fcr, partition, history>>

-----------------------------------------------------------------------------
(* flash_write_page *)

InDevice(p) == FLASH_BASE_PAGE <= p /\ p < FLASH_BASE_PAGE + DEVICE_PAGES

\* The range check, then the stores of the whole buffer through the address of
\* the page into the latch.
WriteCall(id, buf, n) ==
  /\ Calls("write", id, n, buf)
  /\ IF id \notin Partitions
       THEN Return(-1) /\ UNCHANGED <<page, partition, latch>>
     ELSE IF n >= PartitionEnd(id)
       THEN Return(-2) /\ UNCHANGED <<page, partition, latch>>
     ELSE /\ page' = n
          /\ partition' = id
          /\ UNCHANGED ret
          /\ \/ /\ InDevice(PartitionStart(id) + n)
                /\ latch' = buf /\ pc' = "write_issue"
             \/ /\ ~InDevice(PartitionStart(id) + n) /\ STORE_FAULTS
                /\ UNCHANGED latch /\ pc' = "fault"
             \/ /\ ~InDevice(PartitionStart(id) + n) /\ ~STORE_FAULTS
                /\ latch' \in {latch, buf} /\ pc' = "write_issue"
  /\ UNCHANGED <<flash, fcr, fsr>>

WriteIssue ==
  /\ pc = "write_issue"
  /\ SERIES = "RH71" => Ready(fsr)
  /\ fcr' = [cmd |-> "WP", farg |-> WritePageArg(PartitionStart(partition), page)]
  /\ fsr' = 0
  /\ pc' = "write_check"
  /\ UNCHANGED <<flash, latch, page, partition, ret, history>>

WriteCheck ==
  /\ pc = "write_check"
  /\ Ready(fsr)
  /\ fsr' = 1
  /\ Return(Result(fsr))
  /\ UNCHANGED <<flash, latch, fcr, page, partition, history>>

\* The caller takes the result.
Returned ==
  /\ pc = "return"
  /\ pc' = "idle"
  /\ call' = NoCall
  /\ UNCHANGED <<controller, page, partition, ret, before, calls, resets>>

-----------------------------------------------------------------------------
(* The controller (external) *)

Finish(status) ==
  /\ fcr # NoCommand
  /\ fcr' = NoCommand
  /\ fsr' = status
  /\ UNCHANGED <<driver, history>>

Addressable == Targets(fcr) \subseteq Page

Complete ==
  /\ Addressable
  /\ flash' = IF fcr.cmd = "EPA" THEN Overwritten(Targets(fcr), {}) ELSE Programmed(Targets(fcr))
  /\ latch' = {}
  /\ Finish(1)

CommandError == ~Addressable /\ Finish(3) /\ UNCHANGED <<flash, latch>>

LockError == Addressable /\ Finish(5) /\ UNCHANGED <<flash, latch>>

\* The verify failed: what the addressed pages hold is anybody's guess.
FlashError ==
  /\ Addressable
  /\ \E junk \in Content : flash' = Overwritten(Targets(fcr), junk)
  /\ latch' = {}
  /\ Finish(9)

Controller == Complete \/ CommandError \/ LockError \/ FlashError

\* A reset or a power cut, at any point, a command in progress included.
FlashReset ==
  /\ resets < MaxResets
  /\ resets' = resets + 1
  /\ \E junk \in Content : flash' = IF Addressable THEN Overwritten(Targets(fcr), junk) ELSE flash
  /\ latch' = {}
  /\ fcr' = NoCommand /\ fsr' = 1
  /\ pc' = "idle" /\ page' = 0 /\ partition' = APP_1 /\ ret' = 0
  /\ call' = NoCall
  /\ UNCHANGED <<before, calls>>

-----------------------------------------------------------------------------

FlashInit ==
  /\ flash \in InitialFlashes
  /\ latch = {}
  /\ fcr = NoCommand /\ fsr = 1
  /\ pc = "idle" /\ page = 0 /\ partition = APP_1 /\ ret = 0
  /\ call = NoCall
  /\ before = flash
  /\ calls = 0 /\ resets = 0

Call ==
  \/ \E id \in AskedIds : EraseCall(id)
  \/ \E id \in AskedIds, buf \in AskedBuffers, n \in AskedPages : WriteCall(id, buf, n)

DriverStep == EraseIssue \/ EraseCheck \/ WriteIssue \/ WriteCheck

FlashNext == Call \/ DriverStep \/ Returned \/ Controller \/ FlashReset

FlashSpec == FlashInit /\ [][FlashNext]_flashVars

\* The driver runs whenever it can, and the controller ends every command.
FairFlashSpec == FlashSpec /\ WF_flashVars(DriverStep) /\ WF_flashVars(Controller)

-----------------------------------------------------------------------------
(* Properties *)

\* Types: what FARG, EEFC_FSR and the driver's return value can be; an error is
\* always negative, and an erase argument always fits FARG.
FlashTypeOK ==
  /\ flash \in [Page -> Content]
  /\ latch \in Content
  /\ fcr \in Command \cup {NoCommand}
  /\ fsr \in {0, 1} \cup ERRORS
  /\ pc \in {"idle", "erase_wait", "erase_check", "write_issue", "write_check", "return", "fault"}
  /\ page \in Nat
  /\ partition \in Partitions
  /\ ret \in {0, -1, -2, -3, -5, -9}
  /\ call \in [op : {"none", "erase", "write"}, id : Nat, n : uint16_t, buf : Content]
  /\ before \in [Page -> Content]
  /\ calls \in Nat /\ resets \in Nat

\* The bootloader is out of reach: the build has no partition for it, and page
\* numbers that wrap around cannot get past the stores that precede the command.
Shielded == ~CONFIG_RAM_BUILD /\ (STORE_FAULTS \/ SERIES = "V71")

\* A command runs only while the driver polls for its end (wait_fsr_frdy).
OneCommandAtATime ==
  /\ fcr # NoCommand => fsr = 0 /\ pc \in {"erase_check", "write_check"}
  /\ fcr = NoCommand => Ready(fsr)
  /\ pc \notin {"erase_check", "write_check"} => fcr = NoCommand /\ fsr = 1

\* flash_erase_partition is always at the start of a block of its partition.
EraseInPartition ==
  pc \in {"erase_wait", "erase_check"} =>
    /\ page % 16 = 0
    /\ PartitionStart(partition) <= page /\ page < PartitionEnd(partition)

\* A page that passed the range check of flash_write_page and its stores.
WriteInReach ==
  pc = "write_issue" =>
    /\ page <= 65535 /\ page < PartitionEnd(partition)
    /\ STORE_FAULTS => InDevice(PartitionStart(partition) + page)

\* No command word in progress targets a page of the bootloader.
CommandsMissBootloader == Shielded => Targets(fcr) \cap BootloaderPages = {}

\* Who may be doing what, and which pages a command in progress can reach: the
\* inductive invariant of the two driver functions, behind the theorems of
\* FlashProofs.
FlashInv == OneCommandAtATime /\ EraseInPartition /\ WriteInReach /\ CommandsMissBootloader

\* flash.c:60: only the RAM build may touch the bootloader partition.  No page
\* of it changes, whatever is asked for and whenever a reset strikes: not by an
\* erase block that starts elsewhere, not by a page number beyond its partition.
BootloaderUntouched ==
  [][~CONFIG_RAM_BUILD => \A p \in BootloaderPages : flash'[p] = flash[p]]_flashVars

\* wait_fsr_frdy (v71_flash.c:245): a command word is only ever written to an idle controller,
\* although flash_write_page of the V71 does not look at FRDY first.
CommandOnlyWhenReady ==
  [][fcr' # fcr /\ fcr' # NoCommand => fcr = NoCommand /\ Ready(fsr)]_flashVars

\* A write that returned 0 programmed exactly the page it was asked for, over
\* what that page held (bootloader.c:117), and nothing else.
WriteProgramsItsPage ==
  pc = "return" /\ call.op = "write" /\ ret = 0 =>
    LET target == (PartitionStart(call.id) - FLASH_BASE_PAGE) + call.n
    IN  flash = [p \in Page |-> IF p = target THEN before[p] \cup call.buf ELSE before[p]]

\* An erase that returned 0 left the whole partition blank and all else as it was.
EraseBlanksPartition ==
  pc = "return" /\ call.op = "erase" /\ ret = 0 =>
    flash = [p \in Page |-> IF p \in PartitionPages(call.id) THEN {} ELSE before[p]]

\* A call that failed changed no page outside the partition it was given,
\* provided the page number was one of that partition's.
FailureConfined ==
  pc = "return" /\ ret # 0 /\ (call.op = "write" => call.n < APP_PAGES) =>
    \A p \in Page \ PartitionPages(call.id) : flash[p] = before[p]

\* v71_flash.c:319, rh71_flash.c:386 "Validate page argument": a write is
\* answered with 0 only for a page number of the partition it was given.
PageBeyondPartitionRefused ==
  pc = "return" /\ call.op = "write" /\ ret = 0 =>
    PartitionStart(call.id) + call.n < PartitionEnd(call.id)

\* Every call comes back, unless its stores fault or the device is reset.
CallReturns == (pc \notin {"idle", "fault"}) ~> (pc \in {"return", "idle"})
=============================================================================
