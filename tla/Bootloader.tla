----------------------------- MODULE Bootloader -----------------------------
(***************************************************************************)
(* The bootloader service (services/bootloader.c), the boot state          *)
(* (system.c) and the main loop (main.c), over the flash driver of Flash.  *)
(* A request that reached its method handler is one action; the handlers   *)
(* that call the flash driver return when the driver does.  The loop is    *)
(* strictly sequential: poll the server (run a handler, send its reply),   *)
(* then poll for a boot.                                                   *)
(***************************************************************************)
EXTENDS AlignedFlash

CONSTANTS
  CONFIG_PAGE_SIZE,   \* bytes of a page
  crc_32_page(_),     \* the CRC of a page's content
  AskedCrcs,          \* page CRCs clients send
  AskedChunks,        \* [offset, data_len, data] clients send for the page buffer
  AskedActions,       \* boot actions (uint8_t) clients send
  STACK_ADDRESS,      \* where BootJumpASM's parameter RH lives
  MaxRequests         \* bound: requests in a behaviour

ASSUME ServiceAssumption ==
  /\ CONFIG_PAGE_SIZE \in Nat \ {0}
  /\ Cell = 0 .. CONFIG_PAGE_SIZE - 1
  /\ AskedBuffers = Content     \* the service passes page_buffer_g
  /\ \A c \in AskedChunks : /\ c.offset \in uint16_t /\ c.data_len \in Nat /\ c.data_len <= 255
                            /\ c.data \subseteq c.offset .. c.offset + c.data_len - 1
  /\ \A content \in Content : crc_32_page(content) \in Int
  /\ AskedActions \subseteq Nat
  /\ STACK_ADDRESS \in Nat
  /\ STACK_ADDRESS \notin FLASH_BASE_PAGE .. FLASH_BASE_PAGE + DEVICE_PAGES - 1
  /\ MaxRequests \in Nat

BOOT_APP_1 == 1
BOOT_APP_2 == 2
BOOT_BOOTLOADER == 255
BOOT_INVALID_ENTRY == -1     \* 0xFFFFFFFF, no page address

VARIABLES
  loop,          \* where the main loop is
  page_buffer,   \* page_buffer_g: its programmed cells
  boot_entry,    \* boot_entry_g, as a page address
  boot_enable,   \* boot_enable_g
  vtor,          \* the vector table register
  resp,          \* the response of the request being handled
  request,       \* history: the request being handled
  acked,         \* history: the partition of the last setBootAction answered with 0
  requests       \* requests so far

serviceVars == <<page_buffer, boot_entry, boot_enable, vtor>>
bootVars == <<loop, page_buffer, boot_entry, boot_enable, vtor, resp, request, acked, requests>>
vars == <<flashVars, bootVars>>

NoRequest == [method |-> "none", id |-> 0, n |-> 0, crc |-> 0]

-----------------------------------------------------------------------------
(* Handlers *)

\* A decoded request reaches the handler of its method.
Request(method, id, n, crc) ==
  /\ loop = "poll"
  /\ requests < MaxRequests
  /\ requests' = requests + 1
  /\ request' = [method |-> method, id |-> id, n |-> n, crc |-> crc]
  /\ UNCHANGED acked

Answer(value) == loop' = "reply" /\ resp' = value

bl_ping ==
  /\ Request("ping", 0, 0, 0)
  /\ Answer(0)
  /\ UNCHANGED <<flashVars, serviceVars>>

\* The list pointer comes from the message buffer and is never NULL here.
bl_writePageBuffer(c) ==
  /\ Request("writePageBuffer", 0, 0, 0)
  /\ IF c.offset + c.data_len > CONFIG_PAGE_SIZE
       THEN Answer(-2) /\ UNCHANGED page_buffer
       ELSE /\ Answer(0)
            /\ page_buffer' = (page_buffer \ (c.offset .. c.offset + c.data_len - 1)) \cup c.data
  /\ UNCHANGED <<flashVars, boot_entry, boot_enable, vtor>>

bl_erasePageBuffer ==
  /\ Request("erasePageBuffer", 0, 0, 0)
  /\ Answer(0)
  /\ page_buffer' = {}
  /\ UNCHANGED <<flashVars, boot_entry, boot_enable, vtor>>

bl_eraseApp(id) ==
  /\ Request("eraseApp", id, 0, 0)
  /\ EraseCall(id)
  /\ loop' = "flash"
  /\ UNCHANGED <<resp, serviceVars>>

\* Mutant: the CRC of the buffer not looked at.
bl_writePageUnchecked(id, n, crc) ==
  /\ Request("writePage", id, n, crc)
  /\ WriteCall(id, page_buffer, n) /\ loop' = "flash"
  /\ UNCHANGED <<resp, serviceVars>>

bl_writePage(id, n, crc) ==
  /\ Request("writePage", id, n, crc)
  /\ IF crc # crc_32_page(page_buffer)
       THEN Answer(-2) /\ UNCHANGED flashVars
       ELSE WriteCall(id, page_buffer, n) /\ loop' = "flash" /\ UNCHANGED resp
  /\ UNCHANGED serviceVars

\* The driver returned to bl_eraseApp or bl_writePage.
FlashReturned ==
  /\ loop = "flash"
  /\ Returned
  /\ Answer(ret)
  /\ UNCHANGED <<serviceVars, request, acked, requests>>

ActionPartition(action) ==
  CASE action = BOOT_APP_1 -> APP_1
    [] action = BOOT_APP_2 -> APP_2
    [] OTHER -> BOOTLOADER

\* Mutant: the entry stored before the lookup is checked.
bl_setBootActionUnchecked(action) ==
  LET id == ActionPartition(action)
  IN  /\ Request("setBootAction", id, 0, 0)
      /\ Answer(IF action \in {BOOT_APP_1, BOOT_APP_2, BOOT_BOOTLOADER} /\ id \in Partitions
                  THEN 0 ELSE -1)
      /\ boot_entry' = PartitionStart(id)
      /\ UNCHANGED <<flashVars, page_buffer, boot_enable, vtor>>

\* The action is mapped to a partition, and sys_set_boot_action looks it up.
bl_setBootAction(action) ==
  LET id == ActionPartition(action)
  IN  /\ Request("setBootAction", id, 0, 0)
      /\ IF action \in {BOOT_APP_1, BOOT_APP_2, BOOT_BOOTLOADER} /\ id \in Partitions
           THEN Answer(0) /\ boot_entry' = PartitionStart(id)
           ELSE Answer(-1) /\ UNCHANGED boot_entry
      /\ UNCHANGED <<flashVars, page_buffer, boot_enable, vtor>>

\* Mutant: no look at the entry.
bl_bootUnchecked ==
  /\ Request("boot", 0, 0, 0)
  /\ Answer(0) /\ boot_enable' = TRUE
  /\ UNCHANGED <<flashVars, page_buffer, boot_entry, vtor>>

\* Mutant: success answered and nothing enabled.
bl_bootForgotten ==
  /\ Request("boot", 0, 0, 0)
  /\ Answer(IF boot_entry = BOOT_INVALID_ENTRY THEN -1 ELSE 0)
  /\ UNCHANGED <<flashVars, page_buffer, boot_entry, boot_enable, vtor>>

\* sys_set_boot_enable
bl_boot ==
  /\ Request("boot", 0, 0, 0)
  /\ IF boot_entry = BOOT_INVALID_ENTRY
       THEN Answer(-1) /\ UNCHANGED boot_enable
       ELSE Answer(0) /\ boot_enable' = TRUE
  /\ UNCHANGED <<flashVars, page_buffer, boot_entry, vtor>>

Handler ==
  \/ bl_ping
  \/ \E c \in AskedChunks : bl_writePageBuffer(c)
  \/ bl_erasePageBuffer
  \/ \E id \in AskedIds : bl_eraseApp(id)
  \/ \E id \in AskedIds, n \in AskedPages, crc \in AskedCrcs : bl_writePage(id, n, crc)
  \/ \E action \in AskedActions : bl_setBootAction(action)
  \/ bl_boot

-----------------------------------------------------------------------------
(* The main loop *)

\* moon_server_poll finds no complete frame.
NoFrame ==
  /\ loop = "poll"
  /\ loop' = "boot_poll"
  /\ UNCHANGED <<flashVars, serviceVars, resp, request, acked, requests>>

\* The response is encoded and transmitted; moon_server_poll returns.
Reply ==
  /\ loop = "reply"
  /\ loop' = "boot_poll"
  /\ acked' = IF request.method = "setBootAction" /\ resp = 0 THEN request.id ELSE acked
  /\ request' = NoRequest
  /\ UNCHANGED <<flashVars, serviceVars, resp, requests>>

\* sys_boot_poll, BootJumpASM: VTOR gets the address of the parameter RH.
sys_boot_poll ==
  /\ loop = "boot_poll"
  /\ IF boot_enable
       THEN loop' = "app" /\ vtor' = STACK_ADDRESS
       ELSE loop' = "poll" /\ UNCHANGED vtor
  /\ UNCHANGED <<flashVars, page_buffer, boot_entry, boot_enable, resp, request, acked, requests>>

FlashStep ==
  /\ loop = "flash"
  /\ DriverStep
  /\ UNCHANGED bootVars

ControllerStep == Controller /\ UNCHANGED bootVars

\* A reset and the start up to the loop, in one step (step by step: module Main):
\* .bss is cleared (the page buffer is all zeros, not erased), .data restored,
\* and the vector table is the bootloader's again.
Reset ==
  /\ FlashReset
  /\ loop' = "poll"
  /\ page_buffer' = Cell
  /\ boot_entry' = BOOT_INVALID_ENTRY
  /\ boot_enable' = FALSE
  /\ vtor' = FLASH_BASE_PAGE
  /\ resp' = 0
  /\ request' = NoRequest
  /\ acked' = BOOT_INVALID_ENTRY
  /\ UNCHANGED requests

-----------------------------------------------------------------------------

Init ==
  /\ FlashInit
  /\ loop = "poll"
  /\ page_buffer = Cell
  /\ boot_entry = BOOT_INVALID_ENTRY
  /\ boot_enable = FALSE
  /\ vtor = FLASH_BASE_PAGE
  /\ resp = 0
  /\ request = NoRequest
  /\ acked = BOOT_INVALID_ENTRY
  /\ requests = 0

LoopStep == FlashReturned \/ FlashStep \/ Reply \/ sys_boot_poll

Next == Handler \/ NoFrame \/ LoopStep \/ ControllerStep \/ Reset

Spec == Init /\ [][Next]_vars

-----------------------------------------------------------------------------
(* Properties *)

\* Types: the boot entry is a partition's start or invalid, whatever actions
\* bl_setBootAction is given; a response is 0 or one of the driver's errors.
TypeOK ==
  /\ FlashTypeOK
  /\ loop \in {"poll", "flash", "reply", "boot_poll", "app"}
  /\ page_buffer \in Content
  /\ boot_entry \in {BOOT_INVALID_ENTRY} \cup {PartitionStart(id) : id \in Partitions}
  /\ boot_enable \in BOOLEAN
  /\ vtor \in {FLASH_BASE_PAGE, STACK_ADDRESS}
  /\ resp \in {0, -1, -2, -3, -5, -9}
  /\ acked \in {BOOT_INVALID_ENTRY} \cup Partitions
  /\ requests \in Nat

\* bl_writePage: when the write of a blank page is about to be answered with 0,
\* the flash holds a page with the CRC the client computed.  (A page that was
\* not blank holds the combination of old and new, bootloader.c:117.  That
\* ImplementsStore says; this is what it comes to for a client that erased.)
BlankPageGetsItsCrc ==
  loop = "flash" /\ pc = "return" /\ ret = 0 /\ request.method = "writePage" =>
    LET target == (PartitionStart(request.id) - FLASH_BASE_PAGE) + request.n
    IN  before[target] = {} => crc_32_page(flash[target]) = request.crc

\* The pages a request names.  A page number beyond the partition names a page
\* further on: the check of rh71_flash.c:388 does not refuse it.
PageNumbered(id, n) == (PartitionStart(id) - FLASH_BASE_PAGE) + n
Named(r) ==
  IF r.id \notin Partitions THEN {}
  ELSE IF r.method = "eraseApp" THEN PartitionPages(r.id)
  ELSE {PageNumbered(r.id, r.n)}

\* A page changes only while an erase or a write that names it is at work, a
\* write only if the client's CRC is that of the page buffer, whatever becomes
\* of the command: refused, failed, cut off by a reset.  So the image in the
\* other partition stays bootable while one is replaced, with the exception of
\* a write whose page number is beyond its partition: its one page may be one
\* of the other image.
OnlyNamedPagesChange ==
  [][\A p \in Page : flash'[p] # flash[p] =>
       /\ loop = "flash" /\ p \in Named(request)
       /\ request.method = "writePage" => request.crc = crc_32_page(page_buffer)
       /\ PartitionStart(request.id) + request.n < PartitionEnd(request.id) =>
            p \in PartitionPages(request.id)]_vars

\* Between requests, while replying and in the application the flash is at
\* rest: no command is in progress and none is half reported.
FlashAtRest == loop # "flash" => fcr = NoCommand /\ fsr = 1 /\ pc = "idle"

\* A setBootAction has succeeded and its reply is still to go out.
SelectionPending == loop = "reply" /\ request.method = "setBootAction" /\ resp = 0

\* The boot state between the handlers and sys_boot_poll: enabled only with a
\* valid entry, never at a poll, and the entry is the partition acknowledged
\* last or the one about to be.
BootInv ==
  /\ boot_enable => boot_entry # BOOT_INVALID_ENTRY
  /\ loop = "app" => boot_enable
  /\ loop \in {"poll", "flash"} => ~boot_enable
  /\ loop \notin {"flash", "reply"} => request = NoRequest
  /\ loop = "flash" => request.method \in {"eraseApp", "writePage"}
  /\ IF SelectionPending THEN request.id \in Partitions /\ boot_entry = PartitionStart(request.id)
     ELSE IF acked = BOOT_INVALID_ENTRY THEN boot_entry = BOOT_INVALID_ENTRY
     ELSE boot_entry = PartitionStart(acked)

\* sys_boot_poll jumps to the partition of the last setBootAction that was
\* answered with success; failed ones leave it alone.
BootsAckedPartition ==
  loop = "app" => acked # BOOT_INVALID_ENTRY /\ boot_entry = PartitionStart(acked)

\* system.c:52 "Set new vector table": the application runs with its own table.
VectorTableOfApplication == loop = "app" => vtor = boot_entry

\* The boot state implements BootControl: a selection survives failed ones and
\* every other request, the jump needs an accepted boot, comes after its reply
\* (main.c:35) and, once armed, does come.
Control == INSTANCE BootControl WITH
  Partition <- {PartitionStart(id) : id \in Partitions}, None <- BOOT_INVALID_ENTRY,
  selected <- boot_entry, armed <- boot_enable, owed <- loop \in {"flash", "reply"},
  running <- IF loop = "app" THEN boot_entry ELSE BOOT_INVALID_ENTRY

ImplementsBootControl == Control!Spec

\* bl_eraseApp and bl_writePage implement Store: an answer of 0 means the
\* partition is blank or the page programmed with the buffer checked against the
\* client's CRC, and whatever happens instead, a reset included, only the pages
\* asked for have changed.
OfFlash(value) == IF request.method \in {"eraseApp", "writePage"} THEN value ELSE "none"
Files == INSTANCE Store WITH
  Partition <- Partitions, PagesOf <- PartitionPages, PageOf <- PageNumbered,
  Crc <- crc_32_page, None <- NoRequest,
  stored <- flash, buffer <- page_buffer, was <- before,
  job <- IF loop = "flash" THEN request ELSE NoRequest,
  answer <- IF loop = "reply" THEN OfFlash(IF resp = 0 THEN "done" ELSE "failed") ELSE "none"

ImplementsStore == Files!Spec
=============================================================================
