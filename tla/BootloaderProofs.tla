-------------------------- MODULE BootloaderProofs --------------------------
(***************************************************************************)
(* Theorems about the bootloader service.  Every step of it is a step of   *)
(* the flash driver or leaves the flash alone, so the theorems of          *)
(* FlashProofs carry over; the main loop adds its own invariant.           *)
(***************************************************************************)
EXTENDS Bootloader, FlashProofs

USE DEF BOOT_APP_1, BOOT_APP_2, BOOT_BOOTLOADER, BOOT_INVALID_ENTRY

BufferType == page_buffer \in Content

\* bl_writePageBuffer and bl_erasePageBuffer stay inside the page buffer.
LEMMA BufferStep == BufferType /\ [Next]_vars => BufferType'
<1> SUFFICES ASSUME BufferType, [Next]_vars PROVE BufferType'
  OBVIOUS
<1> USE DEF BufferType
<1>1. ASSUME NEW c \in AskedChunks, bl_writePageBuffer(c) PROVE BufferType'
  <2>1. CASE c.offset + c.data_len > CONFIG_PAGE_SIZE
    BY <1>1, <2>1 DEF bl_writePageBuffer
  <2>2. CASE ~(c.offset + c.data_len > CONFIG_PAGE_SIZE)
    <3>1. /\ c.offset \in Nat /\ c.data_len \in Nat /\ CONFIG_PAGE_SIZE \in Nat
          /\ c.data \subseteq c.offset .. c.offset + c.data_len - 1
      BY ServiceAssumption DEF uint16_t
    <3>2. c.offset .. c.offset + c.data_len - 1 \subseteq 0 .. CONFIG_PAGE_SIZE - 1
      BY <2>2, <3>1, SMT
    <3>3. c.data \subseteq Cell
      BY <3>1, <3>2, ServiceAssumption
    <3> QED
      BY <1>1, <2>2, <3>3 DEF bl_writePageBuffer, Content
  <2> QED
    BY <2>1, <2>2
<1>2. CASE \/ bl_ping \/ bl_erasePageBuffer \/ bl_boot
           \/ \E id \in AskedIds : bl_eraseApp(id)
           \/ \E id \in AskedIds, n \in AskedPages, crc \in AskedCrcs : bl_writePage(id, n, crc)
           \/ \E action \in AskedActions : bl_setBootAction(action)
  BY <1>2 DEF bl_ping, bl_erasePageBuffer, bl_boot, bl_eraseApp, bl_writePage, bl_setBootAction,
     serviceVars, Content
<1>3. CASE NoFrame \/ LoopStep \/ ControllerStep
  BY <1>3 DEF NoFrame, LoopStep, ControllerStep, FlashReturned, FlashStep, Reply, sys_boot_poll,
     serviceVars, bootVars
<1>4. CASE Reset
  BY <1>4 DEF Reset, Content
<1>5. CASE UNCHANGED vars
  BY <1>5 DEF vars, bootVars
<1> QED
  BY <1>1, <1>2, <1>3, <1>4, <1>5 DEF Next, Handler

\* A step of the service is a step of the flash driver or leaves it alone.
LEMMA FlashOfStep == BufferType /\ [Next]_vars => [FlashNext]_flashVars
<1> SUFFICES ASSUME BufferType, [Next]_vars PROVE [FlashNext]_flashVars
  OBVIOUS
<1>1. ASSUME NEW id \in AskedIds, bl_eraseApp(id) PROVE FlashNext
  BY <1>1 DEF bl_eraseApp, FlashNext, Call
<1>2. ASSUME NEW id \in AskedIds, NEW n \in AskedPages, NEW crc \in AskedCrcs, bl_writePage(id, n, crc)
      PROVE  [FlashNext]_flashVars
  BY <1>2, ServiceAssumption DEF bl_writePage, FlashNext, Call, BufferType
<1>3. CASE \/ bl_ping \/ bl_erasePageBuffer \/ bl_boot
           \/ \E c \in AskedChunks : bl_writePageBuffer(c)
           \/ \E action \in AskedActions : bl_setBootAction(action)
  BY <1>3 DEF bl_ping, bl_writePageBuffer, bl_erasePageBuffer, bl_boot, bl_setBootAction
<1>4. CASE NoFrame \/ Reply \/ sys_boot_poll
  BY <1>4 DEF NoFrame, Reply, sys_boot_poll
<1>5. CASE FlashReturned \/ FlashStep \/ ControllerStep \/ Reset
  BY <1>5 DEF FlashReturned, FlashStep, ControllerStep, Reset, FlashNext
<1>6. CASE UNCHANGED vars
  BY <1>6 DEF vars
<1> QED
  BY <1>1, <1>2, <1>3, <1>4, <1>5, <1>6 DEF Next, Handler, LoopStep

\* The service uses the driver as Flash says: it implements FlashSpec.
THEOREM ImplementsFlash == Spec => FlashSpec
<1>1. Init => FlashInit /\ BufferType
  BY DEF Init, BufferType, Content
<1> QED
  BY <1>1, BufferStep, FlashOfStep, PTL DEF Spec, FlashSpec

\* flash.c:60 for the whole service: no request can change the bootloader.
THEOREM ServiceSparesBootloader ==
  ASSUME STORE_FAULTS \/ SERIES = "V71"
  PROVE  Spec => BootloaderUntouched
  BY ImplementsFlash, BootloaderSafe

-----------------------------------------------------------------------------
(* The flash is at rest outside a flash request *)

\* The loop leaves bl_eraseApp and bl_writePage only with the flash at rest.
LEMMA RestStep ==
  FlashInv /\ FlashInv' /\ FlashAtRest /\ [Next]_vars => FlashAtRest'
<1> SUFFICES ASSUME FlashInv, FlashInv', FlashAtRest, [Next]_vars PROVE FlashAtRest'
  OBVIOUS
<1> USE DEF FlashAtRest
<1>1. CASE Handler
  BY <1>1 DEF Handler, bl_ping, bl_writePageBuffer, bl_erasePageBuffer, bl_eraseApp, bl_writePage,
     bl_setBootAction, bl_boot, Request, flashVars
<1>2. CASE NoFrame \/ Reply \/ sys_boot_poll
  BY <1>2 DEF NoFrame, Reply, sys_boot_poll, flashVars
<1>3. CASE FlashReturned
  <2>1. pc' = "idle"
    BY <1>3 DEF FlashReturned, Returned
  <2> QED
    BY <2>1 DEF FlashInv, OneCommandAtATime
<1>4. CASE FlashStep
  BY <1>4 DEF FlashStep, bootVars
<1>5. CASE ControllerStep
  BY <1>5 DEF ControllerStep, bootVars, Controller, Complete, CommandError, LockError, FlashError, Finish
<1>6. CASE Reset
  BY <1>6 DEF Reset, FlashReset
<1>7. CASE UNCHANGED vars
  BY <1>7 DEF vars, bootVars, flashVars
<1> QED
  BY <1>1, <1>2, <1>3, <1>4, <1>5, <1>6, <1>7 DEF Next, LoopStep

\* No application is started, no request answered, with a command in progress.
THEOREM FlashRests == Spec => []FlashAtRest
<1>1. Init => FlashAtRest
  BY DEF Init, FlashInit, FlashAtRest
<1> QED
  BY <1>1, RestStep, ImplementsFlash, FlashInvariant, PTL DEF Spec

-----------------------------------------------------------------------------
(* The boot state *)

\* No partition starts at, or is named by, the invalid entry.
LEMMA EntryIsAddress ==
  ASSUME NEW id \in Partitions
  PROVE  PartitionStart(id) # BOOT_INVALID_ENTRY /\ id # BOOT_INVALID_ENTRY
<1>1. PartitionStart(id) \in Nat
  BY PartitionBounds
<1>2. id \in {0, 1, 255}
  BY DEF Partitions, APP_1, APP_2, BOOTLOADER
<1>3. ASSUME NEW n \in Nat PROVE n # -1
  BY <1>3, SMT
<1>4. id # -1
  BY <1>2, <1>3
<1> QED
  BY <1>1, <1>3, <1>4

\* Every handler, reply, jump and reset preserves the boot invariant.
LEMMA BootStep == BootInv /\ [Next]_vars => BootInv'
<1> SUFFICES ASSUME BootInv, [Next]_vars PROVE BootInv'
  OBVIOUS
<1> USE DEF BootInv, SelectionPending
<1>1. CASE bl_ping \/ bl_erasePageBuffer \/ \E c \in AskedChunks : bl_writePageBuffer(c)
  BY <1>1 DEF bl_ping, bl_erasePageBuffer, bl_writePageBuffer, Request, Answer, serviceVars
<1>2. ASSUME NEW id \in AskedIds, bl_eraseApp(id) PROVE BootInv'
  BY <1>2 DEF bl_eraseApp, Request, serviceVars
<1>3. ASSUME NEW id \in AskedIds, NEW n \in AskedPages, NEW crc \in AskedCrcs, bl_writePage(id, n, crc)
      PROVE  BootInv'
  BY <1>3 DEF bl_writePage, Request, Answer, serviceVars
<1>4. ASSUME NEW action \in AskedActions, bl_setBootAction(action) PROVE BootInv'
  <2> DEFINE id == ActionPartition(action)
  <2>1. /\ request' = [method |-> "setBootAction", id |-> id, n |-> 0, crc |-> 0]
        /\ loop = "poll" /\ loop' = "reply" /\ acked' = acked /\ boot_enable' = boot_enable
    BY <1>4 DEF bl_setBootAction, Request, Answer
  <2>2. CASE resp' = 0
    <3>1. id \in Partitions /\ boot_entry' = PartitionStart(id)
      BY <1>4, <2>2, SMT DEF bl_setBootAction, Answer
    <3> QED
      BY <2>1, <2>2, <3>1, EntryIsAddress
  <2>3. CASE resp' # 0
    <3>1. boot_entry' = boot_entry
      BY <1>4, <2>3 DEF bl_setBootAction, Answer
    <3> QED
      BY <2>1, <2>3, <3>1
  <2> QED
    BY <2>2, <2>3
<1>5. CASE bl_boot
  BY <1>5 DEF bl_boot, Request, Answer
<1>6. CASE NoFrame
  BY <1>6 DEF NoFrame, serviceVars
<1>7. CASE FlashReturned
  BY <1>7 DEF FlashReturned, Answer, serviceVars
<1>8. CASE Reply
  <2>1. request' = NoRequest /\ loop' = "boot_poll" /\ boot_entry' = boot_entry /\ boot_enable' = boot_enable
    BY <1>8 DEF Reply, serviceVars
  <2>2. CASE SelectionPending
    BY <1>8, <2>1, <2>2, EntryIsAddress DEF Reply
  <2>3. CASE ~SelectionPending
    BY <1>8, <2>1, <2>3 DEF Reply
  <2> QED
    BY <2>2, <2>3
<1>9. CASE sys_boot_poll
  BY <1>9 DEF sys_boot_poll
<1>10. CASE FlashStep \/ ControllerStep
  BY <1>10 DEF FlashStep, ControllerStep, bootVars
<1>11. CASE Reset
  BY <1>11 DEF Reset
<1>12. CASE UNCHANGED vars
  BY <1>12 DEF vars, bootVars
<1> QED
  BY <1>1, <1>2, <1>3, <1>4, <1>5, <1>6, <1>7, <1>8, <1>9, <1>10, <1>11, <1>12
     DEF Next, Handler, LoopStep

\* The application started is the one of the last acknowledged setBootAction.
THEOREM BootsAcked == Spec => []BootsAckedPartition
<1>1. Init => BootInv
  BY DEF Init, BootInv, SelectionPending
<1>2. BootInv => BootsAckedPartition
  BY DEF BootInv, SelectionPending, BootsAckedPartition
<1> QED
  BY <1>1, <1>2, BootStep, PTL DEF Spec

-----------------------------------------------------------------------------
(* Types *)

\* Every step keeps the types of the service's own variables.
LEMMA ServiceTypeStep ==
  TypeOK /\ BootInv /\ [Next]_vars => TypeOK'
<1> SUFFICES ASSUME TypeOK, BootInv, [Next]_vars PROVE TypeOK'
  OBVIOUS
<1>1. FlashTypeOK' /\ page_buffer' \in Content
  <2>1. BufferType
    BY DEF TypeOK, BufferType
  <2> QED
    BY <2>1, BufferStep, FlashOfStep, TypeStep DEF TypeOK, BufferType
<1>2. SUFFICES /\ loop' \in {"poll", "flash", "reply", "boot_poll", "app"}
               /\ boot_entry' \in {BOOT_INVALID_ENTRY} \cup {PartitionStart(id) : id \in Partitions}
               /\ boot_enable' \in BOOLEAN
               /\ vtor' \in {FLASH_BASE_PAGE, STACK_ADDRESS}
               /\ resp' \in {0, -1, -2, -3, -5, -9}
               /\ acked' \in {BOOT_INVALID_ENTRY} \cup Partitions
               /\ requests' \in Nat
  BY <1>1 DEF TypeOK
<1> USE DEF TypeOK
<1>3. CASE bl_ping \/ bl_erasePageBuffer \/ bl_boot
           \/ \E c \in AskedChunks : bl_writePageBuffer(c)
  <2>1. CASE bl_ping \/ bl_erasePageBuffer
    BY <2>1 DEF bl_ping, bl_erasePageBuffer, Request, Answer, serviceVars
  <2>2. CASE bl_boot
    <3>1. resp' \in {0, -1} /\ boot_enable' \in {boot_enable, TRUE} /\ loop' = "reply"
      BY <2>2 DEF bl_boot, Answer
    <3>2. requests' \in Nat /\ acked' = acked /\ boot_entry' = boot_entry /\ vtor' = vtor
      BY <2>2 DEF bl_boot, Request
    <3> QED
      BY <3>1, <3>2
  <2>3. ASSUME NEW c \in AskedChunks, bl_writePageBuffer(c) PROVE TypeOK'
    BY <1>1, <2>3 DEF bl_writePageBuffer, Request, Answer
  <2> QED
    BY <1>3, <2>1, <2>2, <2>3
<1>4. CASE \E action \in AskedActions : bl_setBootAction(action)
  BY <1>4 DEF bl_setBootAction, Request, Answer
<1>5. CASE \/ \E id \in AskedIds : bl_eraseApp(id)
           \/ \E id \in AskedIds, n \in AskedPages, crc \in AskedCrcs : bl_writePage(id, n, crc)
  BY <1>5 DEF bl_eraseApp, bl_writePage, Request, Answer, serviceVars
<1>6. CASE NoFrame
  BY <1>6 DEF NoFrame, serviceVars
<1>7. CASE FlashReturned
  BY <1>7 DEF FlashReturned, Answer, serviceVars, FlashTypeOK
<1>8. CASE Reply
  <2>1. CASE SelectionPending
    BY <1>8, <2>1 DEF Reply, serviceVars, BootInv
  <2>2. CASE ~SelectionPending
    BY <1>8, <2>2 DEF Reply, serviceVars, SelectionPending
  <2> QED
    BY <2>1, <2>2
<1>9. CASE sys_boot_poll
  BY <1>9 DEF sys_boot_poll
<1>10. CASE FlashStep \/ ControllerStep
  BY <1>10 DEF FlashStep, ControllerStep, bootVars
<1>11. CASE Reset
  BY <1>11 DEF Reset
<1>12. CASE UNCHANGED vars
  BY <1>12 DEF vars, bootVars
<1> QED
  BY <1>3, <1>4, <1>5, <1>6, <1>7, <1>8, <1>9, <1>10, <1>11, <1>12 DEF Next, Handler, LoopStep

\* The types and the invariants of the service and its driver, together
\* inductive.
ServiceInv == TypeOK /\ FlashInv /\ BootInv

\* ServiceInv holds after a reset of .bss and .data.
LEMMA ServiceInvInit == Init => ServiceInv
<1> SUFFICES ASSUME Init PROVE ServiceInv
  OBVIOUS
<1>1. FlashTypeOK /\ FlashInv
  BY TypeInit, InvInit DEF Init
<1>2. BootInv
  BY DEF Init, BootInv, SelectionPending
<1>3. TypeOK
  BY <1>1 DEF Init, TypeOK, Content
<1> QED
  BY <1>1, <1>2, <1>3 DEF ServiceInv

\* Every step of the loop, the controller and the reset preserves ServiceInv.
LEMMA ServiceInvStep == ServiceInv /\ [Next]_vars => ServiceInv'
<1> SUFFICES ASSUME ServiceInv, [Next]_vars PROVE ServiceInv'
  OBVIOUS
<1>1. TypeOK' /\ BootInv'
  BY ServiceTypeStep, BootStep DEF ServiceInv
<1>2. FlashInv'
  BY FlashOfStep, InvStep DEF ServiceInv, TypeOK, BufferType
<1> QED
  BY <1>1, <1>2 DEF ServiceInv

\* Whatever is requested, the boot entry is a partition's start or invalid, and
\* a response is 0 or one of the driver's errors.
THEOREM ServiceTypeCorrect == Spec => []TypeOK
<1>1. ServiceInv => TypeOK
  BY DEF ServiceInv
<1> QED
  BY <1>1, ServiceInvInit, ServiceInvStep, PTL DEF Spec

-----------------------------------------------------------------------------
(* What a request does to the flash *)

\* While the driver is at work its call is the request's, and a page goes to
\* it only under the CRC of the request.
CallOfRequest ==
  loop = "flash" =>
    /\ call.id = request.id
    /\ request.method = "eraseApp" => call.op = "erase"
    /\ request.method = "writePage" =>
         /\ call.op = "write" /\ call.n = request.n
         /\ call.buf = page_buffer /\ request.crc = crc_32_page(page_buffer)

\* The handlers keep the call their request's: no other call is made before
\* the driver has returned.
LEMMA CallStep == CallOfRequest /\ FlashAtRest' /\ [Next]_vars => CallOfRequest'
<1> SUFFICES ASSUME CallOfRequest, FlashAtRest', [Next]_vars PROVE CallOfRequest'
  OBVIOUS
<1> USE DEF CallOfRequest
<1>1. ASSUME NEW id \in AskedIds, bl_eraseApp(id) PROVE CallOfRequest'
  BY <1>1 DEF bl_eraseApp, Request, EraseCall, Calls
<1>2. ASSUME NEW id \in AskedIds, NEW n \in AskedPages, NEW crc \in AskedCrcs, bl_writePage(id, n, crc)
      PROVE  CallOfRequest'
  BY <1>2 DEF bl_writePage, Request, Answer, WriteCall, Calls, serviceVars
<1>3. CASE \/ bl_ping \/ bl_erasePageBuffer \/ bl_boot
           \/ \E c \in AskedChunks : bl_writePageBuffer(c)
           \/ \E action \in AskedActions : bl_setBootAction(action)
  <2>1. loop' = "reply"
    BY <1>3 DEF bl_ping, bl_writePageBuffer, bl_erasePageBuffer, bl_boot, bl_setBootAction, Answer
  <2> QED
    BY <2>1
<1>4. CASE NoFrame \/ Reply \/ sys_boot_poll \/ FlashReturned \/ Reset
  BY <1>4 DEF NoFrame, Reply, sys_boot_poll, FlashReturned, Answer, Reset
<1>5. CASE FlashStep
  BY <1>5 DEF FlashStep, DriverStep, EraseIssue, EraseCheck, WriteIssue, WriteCheck, history, bootVars
<1>6. CASE ControllerStep
  BY <1>6 DEF ControllerStep, Controller, Complete, CommandError, LockError, FlashError, Finish,
     history, bootVars
<1>7. CASE UNCHANGED vars
  BY <1>7 DEF vars, flashVars, bootVars
<1> QED
  BY <1>1, <1>2, <1>3, <1>4, <1>5, <1>6, <1>7 DEF Next, Handler, LoopStep

\* CallOfRequest holds from power-up on.
LEMMA CallInvariant == Spec => []CallOfRequest
<1>1. Init => CallOfRequest
  BY DEF Init, CallOfRequest
<1> QED
  BY <1>1, CallStep, FlashRests, PTL DEF Spec

\* Where the stores of flash_write_page go is a page of the device.
LEMMA TargetInDevice ==
  ASSUME FlashTypeOK, Reached PROVE WriteTarget \in Page
<1>1. PartitionStart(call.id) \in Nat /\ call.n \in Nat
  BY GeometryAssumption DEF PartitionStart, FlashTypeOK, uint16_t
<1> QED
  BY <1>1, BaseAligned, SMT DEF Reached, InDevice, WriteTarget, Page

\* bl_writePage on the RH71: the success of a write to a blank page is the
\* arrival of the page the client computed its CRC of, whatever was requested
\* before and whatever chunks the page buffer was made of.
THEOREM PageArrives ==
  ASSUME SERIES = "RH71", STORE_FAULTS PROVE Spec => []BlankPageGetsItsCrc
<1>1. FlashTypeOK /\ WriteInv /\ CallOfRequest => BlankPageGetsItsCrc
  <2> SUFFICES ASSUME FlashTypeOK, WriteInv, CallOfRequest,
                      loop = "flash", pc = "return", ret = 0, request.method = "writePage",
                      before[(PartitionStart(request.id) - FLASH_BASE_PAGE) + request.n] = {}
               PROVE  crc_32_page(flash[(PartitionStart(request.id) - FLASH_BASE_PAGE) + request.n]) = request.crc
    BY DEF BlankPageGetsItsCrc
  <2>1. /\ call.op = "write" /\ request.crc = crc_32_page(call.buf)
        /\ (PartitionStart(request.id) - FLASH_BASE_PAGE) + request.n = WriteTarget
    BY DEF CallOfRequest, WriteTarget
  <2>2. Reached /\ WroteTarget
    BY <2>1 DEF WriteInv
  <2>3. WriteTarget \in Page
    BY <2>2, TargetInDevice
  <2>4. flash[WriteTarget] = {} \cup call.buf
    BY <2>1, <2>2, <2>3 DEF WroteTarget
  <2>5. {} \cup call.buf = call.buf
    OBVIOUS
  <2> QED
    BY <2>1, <2>4, <2>5
<1> QED
  BY <1>1, ImplementsFlash, FlashTypeCorrect, WriteInvariant, CallInvariant, PTL

-----------------------------------------------------------------------------
(* The service implements Store *)

\* The job and the answer as Store sees them.
FilesJob == IF loop = "flash" THEN request ELSE NoRequest
FilesAnswer == IF loop = "reply" THEN OfFlash(IF resp = 0 THEN "done" ELSE "failed") ELSE "none"

\* Everything the steps of Store are told from.
FilesInv ==
  /\ TypeOK /\ FlashInv /\ EraseInv /\ WriteInv /\ FlashAtRest /\ CallOfRequest
  /\ loop = "flash" => request.method \in {"eraseApp", "writePage"}

\* FilesInv holds from power-up on.
LEMMA FilesInvariant ==
  ASSUME SERIES = "RH71", EPA_FIELD = "page" PROVE Spec => []FilesInv
<1>1. Init => BootInv
  BY DEF Init, BootInv, SelectionPending
<1>2. TypeOK /\ FlashInv /\ EraseInv /\ WriteInv /\ FlashAtRest /\ CallOfRequest /\ BootInv => FilesInv
  BY DEF FilesInv, BootInv
<1> QED
  BY <1>1, <1>2, BootStep, ServiceTypeCorrect, ImplementsFlash, FlashInvariant, EraseInvariant,
     WriteInvariant, FlashRests, CallInvariant, PTL DEF Spec

\* The command in progress reaches only the pages of the job.
LEMMA TargetsOfJob ==
  ASSUME SERIES = "RH71", EPA_FIELD = "page", STORE_FAULTS, FilesInv,
         NEW p \in Page, p \in Targets(fcr)
  PROVE  loop = "flash" /\ p \in Files!Target(FilesJob)
<1>1. fcr # NoCommand
  BY DEF Targets, NoCommand
<1>2. loop = "flash" /\ pc \in {"erase_check", "write_check"} /\ call.id = request.id
  BY <1>1 DEF FilesInv, FlashAtRest, FlashInv, OneCommandAtATime, CallOfRequest
<1>3. FilesJob = request /\ request # NoRequest /\ request.method \in {"eraseApp", "writePage"}
  BY <1>2 DEF FilesJob, FilesInv, NoRequest
<1>4. partition \in Partitions /\ FlashTypeOK
  BY DEF FilesInv, TypeOK, FlashTypeOK
<1>5. CASE request.method = "eraseApp"
  <2>1. pc = "erase_check" /\ fcr = EraseCommand /\ call.id = partition
    BY <1>1, <1>2, <1>5 DEF FilesInv, CallOfRequest, EraseInv
  <2>2. p \in PartitionPages(request.id)
    BY <1>2, <1>4, <2>1, EraseTargets DEF FilesInv, FlashInv
  <2> QED
    BY <1>2, <1>3, <1>4, <1>5, <2>1, <2>2 DEF Files!Target
<1>6. CASE request.method = "writePage"
  <2>1. /\ pc = "write_check" /\ fcr = WriteCommand
        /\ call.id = partition /\ call.n = page /\ call.n = request.n /\ Reached
    BY <1>1, <1>2, <1>6 DEF FilesInv, CallOfRequest, WriteInv
  <2>2. Targets(WriteCommand) = {WriteTarget}
    BY <1>4, <2>1, WriteTargets
  <2>3. p = PageNumbered(request.id, request.n)
    BY <1>2, <2>1, <2>2 DEF WriteTarget, PageNumbered
  <2> QED
    BY <1>2, <1>3, <1>4, <1>6, <2>1, <2>3 DEF Files!Target
<1> QED
  BY <1>3, <1>5, <1>6

\* No step changes a page that is not the job's.
LEMMA JobConfined ==
  ASSUME SERIES = "RH71", EPA_FIELD = "page", STORE_FAULTS, FilesInv, FilesInv',
         [FlashNext]_flashVars
  PROVE  /\ flash' \in [Page -> Content]
         /\ \A p \in Page \ Files!Target(FilesJob) : flash'[p] = flash[p]
         /\ loop # "flash" => flash' = flash
<1>1. FlashTypeOK
  BY DEF FilesInv, TypeOK
<1>2. flash \in [Page -> Content] /\ flash' \in [Page -> Content]
  BY DEF FilesInv, TypeOK, FlashTypeOK
<1>3. ASSUME NEW p \in Page, loop # "flash" \/ p \notin Files!Target(FilesJob)
      PROVE  flash'[p] = flash[p]
  <2>1. p \notin Targets(fcr)
    BY <1>3, TargetsOfJob
  <2> QED
    BY <1>1, <2>1, FlashFrame
<1>4. ASSUME loop # "flash" PROVE flash' = flash
  BY <1>2, <1>3, <1>4
<1> QED
  BY <1>2, <1>3, <1>4

\* A page number within a partition names one of its pages.
LEMMA NumberedInPartition ==
  ASSUME NEW id \in Partitions, NEW n \in Nat, PageNumbered(id, n) \in Page,
         PartitionStart(id) + n < PartitionEnd(id)
  PROVE  PageNumbered(id, n) \in PartitionPages(id)
<1>1. PartitionStart(id) \in Nat /\ FLASH_BASE_PAGE \in Nat
  BY PartitionBounds, GeometryAssumption
<1>2. FLASH_BASE_PAGE + PageNumbered(id, n) = PartitionStart(id) + n
  BY <1>1, SMT DEF PageNumbered
<1> QED
  BY <1>1, <1>2 DEF PartitionPages

\* The RH71, for every page number: a page changes only under a request that
\* names it, a write only with the buffer's CRC, resets and failures included;
\* and the pages named are the request's own partition's unless the number of
\* the page is beyond it.
THEOREM ChangesAreNamed ==
  ASSUME SERIES = "RH71", EPA_FIELD = "page", STORE_FAULTS PROVE Spec => OnlyNamedPagesChange
<1>1. FilesInv /\ FilesInv' /\ [Next]_vars =>
        [\A p \in Page : flash'[p] # flash[p] =>
           /\ loop = "flash" /\ p \in Named(request)
           /\ request.method = "writePage" => request.crc = crc_32_page(page_buffer)
           /\ PartitionStart(request.id) + request.n < PartitionEnd(request.id) =>
                p \in PartitionPages(request.id)]_vars
  <2> SUFFICES ASSUME FilesInv, FilesInv', [Next]_vars, NEW p \in Page, flash'[p] # flash[p]
               PROVE  /\ loop = "flash" /\ p \in Named(request)
                      /\ request.method = "writePage" => request.crc = crc_32_page(page_buffer)
                      /\ PartitionStart(request.id) + request.n < PartitionEnd(request.id) =>
                           p \in PartitionPages(request.id)
    OBVIOUS
  <2>1. [FlashNext]_flashVars
    BY FlashOfStep DEF FilesInv, TypeOK, BufferType
  <2>2. loop = "flash" /\ p \in Files!Target(FilesJob)
    BY <2>1, JobConfined
  <2>3. FilesJob = request /\ request.method \in {"eraseApp", "writePage"}
    BY <2>2 DEF FilesJob, FilesInv
  <2>4. request.id \in Partitions
    BY <2>2, <2>3 DEF Files!Target
  <2>5. request.method = "writePage" => request.crc = crc_32_page(page_buffer)
    BY <2>2 DEF FilesInv, CallOfRequest
  <2>6. CASE request.method = "eraseApp"
    <3>1. p \in PartitionPages(request.id)
      BY <2>2, <2>3, <2>4, <2>6 DEF Files!Target
    <3> QED
      BY <2>2, <2>4, <2>5, <2>6, <3>1 DEF Named
  <2>7. CASE request.method = "writePage"
    <3>1. p = PageNumbered(request.id, request.n)
      BY <2>2, <2>3, <2>4, <2>7 DEF Files!Target
    <3>2. request.n = call.n /\ call.n \in Nat
      BY <2>2, <2>7 DEF FilesInv, CallOfRequest, TypeOK, FlashTypeOK, uint16_t
    <3>3. PartitionStart(request.id) + request.n < PartitionEnd(request.id) => p \in PartitionPages(request.id)
      BY <2>4, <3>1, <3>2, NumberedInPartition
    <3> QED
      BY <2>2, <2>4, <2>5, <2>7, <3>1, <3>3 DEF Named
  <2> QED
    BY <2>3, <2>6, <2>7
<1> QED
  BY <1>1, FilesInvariant, PTL DEF Spec, OnlyNamedPagesChange

\* When the driver returns 0 the job has been achieved.
LEMMA JobAchieved ==
  ASSUME STORE_FAULTS, FilesInv, loop = "flash", pc = "return", ret = 0
  PROVE  Files!Achieved(request)
<1>1. call.id = request.id /\ request.method \in {"eraseApp", "writePage"} /\ FlashTypeOK
  BY DEF FilesInv, CallOfRequest, TypeOK
<1>2. CASE request.method = "eraseApp"
  <2>1. call.id = partition /\ ErasedTo(PartitionEnd(partition)) /\ partition \in Partitions
    BY <1>1, <1>2 DEF FilesInv, CallOfRequest, EraseInv, FlashTypeOK
  <2>2. ASSUME NEW p \in PartitionPages(request.id) PROVE flash[p] = {}
    BY <1>1, <2>1 DEF ErasedTo, PartitionPages
  <2> QED
    BY <1>1, <1>2, <2>1, <2>2 DEF Files!Achieved
<1>3. CASE request.method = "writePage"
  <2>1. /\ call.op = "write" /\ call.buf = page_buffer /\ request.crc = crc_32_page(page_buffer)
        /\ call.n = request.n
    BY <1>3 DEF FilesInv, CallOfRequest
  <2>2. Reached /\ WroteTarget
    BY <2>1 DEF FilesInv, WriteInv
  <2>3. WriteTarget \in Page /\ WriteTarget = PageNumbered(request.id, request.n)
    BY <1>1, <2>1, <2>2, TargetInDevice DEF WriteTarget, PageNumbered
  <2>4. request.id \in Partitions
    BY <1>1, <2>1 DEF FilesInv, WriteInv
  <2>5. flash[WriteTarget] = before[WriteTarget] \cup page_buffer
    BY <2>1, <2>2, <2>3 DEF WroteTarget
  <2> QED
    BY <1>3, <2>1, <2>3, <2>4, <2>5 DEF Files!Achieved
<1> QED
  BY <1>1, <1>2, <1>3

\* The variables of Store, for a step that moves none of them.
FilesVars == <<flash, page_buffer, FilesJob, before, FilesAnswer>>

\* A handler loads the buffer, begins a job, refuses one or does nothing to Store.
LEMMA FilesHandler ==
  ASSUME FilesInv, FilesInv', Handler
  PROVE  Files!Load \/ Files!Begin \/ Files!Refuse \/ UNCHANGED FilesVars
<1> USE DEF FilesJob, FilesAnswer, FilesVars, OfFlash, Request, Answer, serviceVars, flashVars
<1>1. loop = "poll" /\ page_buffer' \in Content
  BY DEF Handler, bl_ping, bl_writePageBuffer, bl_erasePageBuffer, bl_eraseApp, bl_writePage,
     bl_setBootAction, bl_boot, FilesInv, TypeOK
<1>2. Files!Idle
  BY <1>1 DEF Files!Idle
<1>3. CASE bl_ping \/ bl_boot \/ \E action \in AskedActions : bl_setBootAction(action)
  BY <1>1, <1>3 DEF bl_ping, bl_boot, bl_setBootAction
<1>4. CASE bl_erasePageBuffer \/ \E c \in AskedChunks : bl_writePageBuffer(c)
  BY <1>1, <1>2, <1>4 DEF bl_erasePageBuffer, bl_writePageBuffer, Files!Load
<1>5. ASSUME NEW id \in AskedIds, bl_eraseApp(id) PROVE Files!Begin
  <2>1. request' # NoRequest /\ request'.method = "eraseApp" /\ loop' = "flash" /\ page_buffer' = page_buffer
    BY <1>5 DEF bl_eraseApp, NoRequest
  <2>2. before' = flash /\ flash' = flash
    BY <1>5 DEF bl_eraseApp, EraseCall, Calls, controller
  <2> QED
    BY <1>1, <1>2, <2>1, <2>2 DEF Files!Begin
<1>6. ASSUME NEW id \in AskedIds, NEW n \in AskedPages, NEW crc \in AskedCrcs, bl_writePage(id, n, crc)
      PROVE  Files!Begin \/ Files!Refuse
  <2>1. request' # NoRequest /\ request'.method = "writePage" /\ page_buffer' = page_buffer
    BY <1>6 DEF bl_writePage, NoRequest
  <2>2. CASE crc # crc_32_page(page_buffer)
    <3>1. loop' = "reply" /\ resp' = -2 /\ flash' = flash /\ before' = before
      BY <1>6, <2>2 DEF bl_writePage
    <3>2. resp' # 0
      BY <3>1, SMT
    <3>3. FilesAnswer' = "failed" /\ FilesJob' = NoRequest
      BY <2>1, <3>1, <3>2
    <3> QED
      BY <1>1, <1>2, <2>1, <3>1, <3>3 DEF Files!Refuse
  <2>3. CASE crc = crc_32_page(page_buffer)
    <3>1. loop' = "flash" /\ before' = flash /\ flash' = flash
      BY <1>6, <2>3 DEF bl_writePage, WriteCall, Calls
    <3> QED
      BY <1>1, <1>2, <2>1, <3>1 DEF Files!Begin
  <2> QED
    BY <2>2, <2>3
<1> QED
  BY <1>3, <1>4, <1>5, <1>6 DEF Handler

\* A reset in the middle of a job may leave the job's pages half done.
LEMMA FilesReset ==
  ASSUME SERIES = "RH71", EPA_FIELD = "page", STORE_FAULTS, FilesInv, FilesInv', FlashReset, loop' = "poll"
  PROVE  Files!Reset
<1> USE DEF FilesJob, FilesAnswer
<1>1. before' = before /\ [FlashNext]_flashVars
  BY DEF FlashReset, FlashNext
<1>2. page_buffer' \in Content
  BY DEF FilesInv, TypeOK
<1> QED
  BY <1>1, <1>2, JobConfined DEF Files!Confined, Files!Reset

\* A step of the service is a step of Store or moves none of its variables.
LEMMA FilesStep ==
  ASSUME SERIES = "RH71", EPA_FIELD = "page", STORE_FAULTS, FilesInv, FilesInv', [Next]_vars
  PROVE  [Files!Next]_(Files!storeVars)
<1> USE DEF FilesJob, FilesAnswer, FilesVars
<1>1. SUFFICES Files!Next \/ UNCHANGED FilesVars
  BY DEF Files!storeVars
<1>2. loop = "flash" => request # NoRequest /\ request.method \in {"eraseApp", "writePage"}
  BY DEF FilesInv, NoRequest
<1>3. CASE Handler
  BY <1>3, FilesHandler DEF Files!Next
<1>4. CASE NoFrame \/ sys_boot_poll
  BY <1>4 DEF NoFrame, sys_boot_poll, flashVars, serviceVars
<1>5. CASE Reply
  <2>1. CASE request.method \in {"eraseApp", "writePage"}
    BY <1>5, <2>1 DEF Reply, flashVars, serviceVars, OfFlash, Files!Deliver, Files!Next
  <2>2. CASE request.method \notin {"eraseApp", "writePage"}
    BY <1>5, <2>2 DEF Reply, flashVars, serviceVars, OfFlash
  <2> QED
    BY <2>1, <2>2
<1>6. CASE FlashReturned
  <2>1. /\ loop = "flash" /\ pc = "return" /\ loop' = "reply" /\ resp' = ret /\ request' = request
        /\ flash' = flash /\ before' = before /\ page_buffer' = page_buffer
    BY <1>6 DEF FlashReturned, Returned, Answer, controller, serviceVars
  <2>2. CASE ret = 0
    <3>1. Files!Achieved(request)
      BY <2>1, <2>2, JobAchieved
    <3> QED
      BY <1>2, <2>1, <2>2, <3>1 DEF OfFlash, Files!Finish, Files!Next
  <2>3. CASE ret # 0
    BY <1>2, <2>1, <2>3 DEF OfFlash, Files!Finish, Files!Next
  <2> QED
    BY <2>2, <2>3
<1>7. CASE FlashStep \/ ControllerStep
  <2>1. UNCHANGED <<bootVars, before>>
    BY <1>7 DEF FlashStep, ControllerStep, DriverStep, EraseIssue, EraseCheck, WriteIssue, WriteCheck,
       Controller, Complete, CommandError, LockError, FlashError, Finish, history
  <2>2. /\ flash' \in [Page -> Content]
        /\ \A p \in Page \ Files!Target(FilesJob) : flash'[p] = flash[p]
        /\ loop # "flash" => flash' = flash
    BY JobConfined, FlashOfStep DEF FilesInv, TypeOK, BufferType
  <2>3. CASE loop = "flash"
    BY <1>2, <2>1, <2>2, <2>3 DEF bootVars, Files!Confined, Files!Work, Files!Next
  <2>4. CASE loop # "flash"
    BY <2>1, <2>2, <2>4 DEF bootVars, OfFlash
  <2> QED
    BY <2>3, <2>4
<1>8. CASE Reset
  BY <1>8, FilesReset DEF Reset, Files!Next
<1>9. CASE UNCHANGED vars
  BY <1>9 DEF vars, flashVars, bootVars, OfFlash
<1> QED
  BY <1>3, <1>4, <1>5, <1>6, <1>7, <1>8, <1>9 DEF Next, LoopStep

\* The RH71: bl_eraseApp and bl_writePage implement Store.  An answer of 0 is the
\* truth about the flash, and whatever else becomes of a request (refused, failed
\* half way, cut off by a reset), no page but those it named has changed.
THEOREM StoreRefinement ==
  ASSUME SERIES = "RH71", EPA_FIELD = "page", STORE_FAULTS PROVE Spec => ImplementsStore
<1>1. Init => Files!Init
  BY InputAssumption DEF Init, FlashInit, Content, Files!Init
<1>2. FilesInv /\ FilesInv' /\ [Next]_vars => [Files!Next]_(Files!storeVars)
  BY FilesStep
<1> QED
  BY <1>1, <1>2, FilesInvariant, PTL DEF Spec, ImplementsStore, Files!Spec

-----------------------------------------------------------------------------
(* The boot state implements BootControl *)

\* A step of the service is a step of the abstract boot control or a stutter.
LEMMA ControlStep == BootInv /\ [Next]_vars => [Control!Next]_(Control!bootControlVars)
<1> SUFFICES ASSUME BootInv, [Next]_vars
             PROVE  [Control!Next]_(Control!bootControlVars)
  OBVIOUS
<1> USE DEF Control!bootControlVars
<1>1. CASE Handler
  <2>1. loop = "poll" /\ loop' \in {"flash", "reply"} /\ ~boot_enable
    BY <1>1 DEF Handler, bl_ping, bl_writePageBuffer, bl_erasePageBuffer, bl_eraseApp, bl_writePage,
       bl_setBootAction, bl_boot, Request, Answer, BootInv
  <2>2. \/ boot_entry' \in {PartitionStart(id) : id \in Partitions} /\ boot_enable' = boot_enable
        \/ boot_entry # BOOT_INVALID_ENTRY /\ boot_enable' = TRUE /\ boot_entry' = boot_entry
        \/ boot_entry' = boot_entry /\ boot_enable' = boot_enable
    <3>1. ASSUME NEW action \in AskedActions, bl_setBootAction(action)
          PROVE  \/ boot_entry' \in {PartitionStart(id) : id \in Partitions} /\ boot_enable' = boot_enable
                 \/ boot_entry' = boot_entry /\ boot_enable' = boot_enable
      BY <3>1 DEF bl_setBootAction
    <3>2. CASE bl_boot
      BY <3>2 DEF bl_boot
    <3>3. CASE \/ bl_ping \/ bl_erasePageBuffer
               \/ \E c \in AskedChunks : bl_writePageBuffer(c)
               \/ \E id \in AskedIds : bl_eraseApp(id)
               \/ \E id \in AskedIds, n \in AskedPages, crc \in AskedCrcs : bl_writePage(id, n, crc)
      BY <3>3 DEF bl_ping, bl_erasePageBuffer, bl_writePageBuffer, bl_eraseApp, bl_writePage, serviceVars
    <3> QED
      BY <1>1, <3>1, <3>2, <3>3 DEF Handler
  <2>3. Control!Handle
    BY <2>1, <2>2 DEF Control!Handle, Control!Select, Control!Arm, Control!Nothing
  <2> QED
    BY <2>3 DEF Control!Next
<1>2. CASE Reply
  BY <1>2 DEF Reply, serviceVars, Control!Next, Control!Reply
<1>3. CASE sys_boot_poll
  BY <1>3 DEF sys_boot_poll, Control!Next, Control!Start
<1>4. CASE Reset
  BY <1>4 DEF Reset, Control!Next, Control!Reset
<1>5. CASE NoFrame \/ FlashReturned
  BY <1>5 DEF NoFrame, FlashReturned, Answer, serviceVars
<1>6. CASE FlashStep \/ ControllerStep \/ UNCHANGED vars
  BY <1>6 DEF FlashStep, ControllerStep, bootVars, vars
<1> QED
  BY <1>1, <1>2, <1>3, <1>4, <1>5, <1>6 DEF Next, LoopStep

\* Every behaviour of the service is one of BootControl: the jump needs an
\* accepted boot, goes to the partition selected last and follows the reply.
THEOREM BootRefinement == Spec => Control!Init /\ [][Control!Next]_(Control!bootControlVars)
<1>1. Init => BootInv
  BY DEF Init, BootInv, SelectionPending
<1>2. Init => Control!Init
  BY DEF Init, Control!Init
<1> QED
  BY <1>1, <1>2, BootStep, ControlStep, PTL DEF Spec
=============================================================================
