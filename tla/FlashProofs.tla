---------------------------- MODULE FlashProofs ----------------------------
(***************************************************************************)
(* Theorems about Flash, for every geometry GeometryAssumption and         *)
(* AlignmentAssumption allow.                                              *)
(***************************************************************************)
EXTENDS AlignedFlash, TLAPS

USE DEF APP_1, APP_2, BOOTLOADER

-----------------------------------------------------------------------------
(* Arithmetic of partitions and command words *)

\* flash_get_partition: where the partitions of this build lie.
LEMMA PartitionBounds ==
  ASSUME NEW id \in Partitions
  PROVE  /\ PartitionStart(id) \in Nat /\ PartitionEnd(id) \in Nat
         /\ FLASH_BASE_PAGE <= PartitionStart(id)
         /\ PartitionStart(id) < PartitionEnd(id)
         /\ PartitionEnd(id) <= FLASH_BASE_PAGE + DEVICE_PAGES
         /\ PartitionStart(id) % 16 = 0 /\ PartitionEnd(id) % 16 = 0
         /\ id # BOOTLOADER => FLASH_BASE_PAGE + BOOTLOADER_PAGES <= PartitionStart(id)
<1>1. /\ FLASH_BASE_PAGE \in Nat /\ BOOTLOADER_PAGES \in Nat \ {0} /\ APP_PAGES \in Nat \ {0}
      /\ DEVICE_PAGES \in Nat /\ BOOTLOADER_PAGES + 2 * APP_PAGES <= DEVICE_PAGES
      /\ FLASH_BASE_PAGE % 16 = 0 /\ BOOTLOADER_PAGES % 16 = 0 /\ APP_PAGES % 16 = 0
  BY GeometryAssumption, AlignmentAssumption, SMT
<1>2. CASE id = 0
  <2>1. PartitionStart(id) = FLASH_BASE_PAGE + BOOTLOADER_PAGES /\ PartitionEnd(id) = FLASH_BASE_PAGE + BOOTLOADER_PAGES + APP_PAGES
    BY <1>2, SMT DEF PartitionStart, PartitionEnd
  <2> QED
    BY <1>1, <1>2, <2>1, SMT
<1>3. CASE id = 1
  <2>1. PartitionStart(id) = FLASH_BASE_PAGE + BOOTLOADER_PAGES + APP_PAGES /\ PartitionEnd(id) = FLASH_BASE_PAGE + BOOTLOADER_PAGES + APP_PAGES + APP_PAGES
    BY <1>3, SMT DEF PartitionStart, PartitionEnd
  <2> QED
    BY <1>1, <1>3, <2>1, SMT
<1>4. CASE id = 255
  <2>1. PartitionStart(id) = FLASH_BASE_PAGE /\ PartitionEnd(id) = FLASH_BASE_PAGE + BOOTLOADER_PAGES
    BY <1>4, SMT DEF PartitionStart, PartitionEnd
  <2> QED
    BY <1>1, <1>4, <2>1, SMT
<1>5. id = 0 \/ id = 1 \/ id = 255
  BY SMT DEF Partitions
<1> QED
  BY <1>2, <1>3, <1>4, <1>5

\* The device starts at a multiple of what FARG of an EPA command can hold.
LEMMA BaseAligned ==
  /\ FLASH_BASE_PAGE \in Nat /\ DEVICE_PAGES \in Nat /\ DEVICE_PAGES <= 4096
  /\ FLASH_BASE_PAGE % 4096 = 0 /\ FLASH_BASE_PAGE % 16 = 0
  BY GeometryAssumption, SMT

\* The EPA command word of a block of the device erases that block, or the
\* blocks of 16 pages at four times its distance from the base.
LEMMA EpaWord ==
  ASSUME NEW p \in Nat, p % 16 = 0, InDevice(p)
  PROVE  /\ EpaArg(p) \in uint16_t
         /\ EPA_FIELD = "page" => EpaStart(EpaArg(p)) = p - FLASH_BASE_PAGE
         /\ EPA_FIELD = "page_div_16" => EpaStart(EpaArg(p)) = 4 * (p - FLASH_BASE_PAGE)
<1>1. FLASH_BASE_PAGE <= p /\ p < FLASH_BASE_PAGE + 4096
  BY BaseAligned, SMT DEF InDevice
<1>2. (p - (p % 16)) % 4096 = p - FLASH_BASE_PAGE
  BY <1>1, BaseAligned, SMT
<1>3. EpaArg(p) = 4 * (p - FLASH_BASE_PAGE) + 2
  BY <1>2 DEF EpaArg
<1>4. (p - FLASH_BASE_PAGE) % 16 = 0 /\ p - FLASH_BASE_PAGE \in Nat /\ p - FLASH_BASE_PAGE < 4096
  BY <1>1, BaseAligned, SMT
<1>5. ASSUME NEW q \in Nat, q % 16 = 0
      PROVE  16 * ((4 * q + 2) \div 64) = q /\ 16 * ((4 * q + 2) \div 16) = 4 * q
  BY <1>5, SMT
<1>6. EpaArg(p) \in uint16_t
  BY <1>3, <1>4, SMT DEF uint16_t
<1>7. EPA_FIELD = "page" => EpaStart(EpaArg(p)) = p - FLASH_BASE_PAGE
  BY <1>3, <1>4, <1>5 DEF EpaStart
<1>8. EPA_FIELD = "page_div_16" => EpaStart(EpaArg(p)) = 4 * (p - FLASH_BASE_PAGE)
  BY <1>3, <1>4, <1>5 DEF EpaStart
<1> QED
  BY <1>6, <1>7, <1>8

\* The WP command word of a page of the device.
LEMMA WpWord ==
  ASSUME NEW id \in Partitions, NEW n \in uint16_t
  PROVE  /\ WritePageArg(PartitionStart(id), n) \in uint16_t
         /\ SERIES = "V71" /\ n < PartitionEnd(id) => WritePageArg(PartitionStart(id), n) = 32 + n
         /\ SERIES = "RH71" /\ InDevice(PartitionStart(id) + n) =>
              WritePageArg(PartitionStart(id), n) = (PartitionStart(id) + n) - FLASH_BASE_PAGE
<1>1. PartitionStart(id) \in Nat /\ PartitionEnd(id) \in Nat
  BY PartitionBounds
<1>2. CASE SERIES = "V71"
  <2>1. FLASH_BASE_PAGE + DEVICE_PAGES + 32 <= 65536
    BY <1>2, GeometryAssumption
  <2>2. ASSUME n < PartitionEnd(id) PROVE 32 + n < 65536
    BY <1>1, <2>1, <2>2, PartitionBounds, BaseAligned, SMT DEF uint16_t
  <2>3. (32 + n) % 65536 \in uint16_t /\ (32 + n < 65536 => (32 + n) % 65536 = 32 + n)
    BY SMT DEF uint16_t
  <2> QED
    BY <1>2, <2>2, <2>3 DEF WritePageArg
<1>3. CASE SERIES = "RH71"
  <2>1. FLASH_BASE_PAGE % 65536 = 0
    BY <1>3, GeometryAssumption
  <2>3. ASSUME InDevice(PartitionStart(id) + n)
        PROVE  (PartitionStart(id) + n) % 65536 = (PartitionStart(id) + n) - FLASH_BASE_PAGE
    <3> DEFINE a == PartitionStart(id) + n
    <3>1. a \in Nat
      BY <1>1, SMT DEF uint16_t
    <3>2. FLASH_BASE_PAGE <= a /\ a < FLASH_BASE_PAGE + DEVICE_PAGES
      BY <2>3, SMT DEF InDevice
    <3>3. a % 65536 = a - FLASH_BASE_PAGE
      <4> HIDE DEF a
      <4> QED BY <2>1, <3>1, <3>2, BaseAligned, SMT
    <3> QED
      BY <3>3
  <2>4. (PartitionStart(id) + n) % 65536 \in uint16_t
    BY <1>1, SMT DEF uint16_t
  <2> QED
    BY <1>3, <2>3, <2>4 DEF WritePageArg
<1> QED
  BY <1>2, <1>3, GeometryAssumption

\* A command word fits the 16 bits of FARG whatever the page.
LEMMA WordType ==
  ASSUME NEW id \in Partitions, NEW p \in Nat
  PROVE  /\ [cmd |-> "EPA", farg |-> EpaArg(p)] \in Command
         /\ [cmd |-> "WP", farg |-> WritePageArg(PartitionStart(id), p)] \in Command
<1>1. EpaArg(p) \in uint16_t
  BY SMT DEF EpaArg, uint16_t
<1>2. PartitionStart(id) \in Nat
  BY PartitionBounds
<1>3. (32 + p) % 65536 \in uint16_t /\ (PartitionStart(id) + p) % 65536 \in uint16_t
  BY <1>2, SMT DEF uint16_t
<1>4. WritePageArg(PartitionStart(id), p) \in uint16_t
  BY <1>3 DEF WritePageArg
<1> QED
  BY <1>1, <1>4 DEF Command

-----------------------------------------------------------------------------
(* Type correctness *)

\* What programming, erasing or a failed verify leaves is a flash.
LEMMA FlashContent ==
  ASSUME FlashTypeOK, NEW target, NEW junk \in Content
  PROVE  Overwritten(target, junk) \in [Page -> Content] /\ Programmed(target) \in [Page -> Content]
  BY DEF FlashTypeOK, Overwritten, Programmed, Content

\* The driver and the controller start with values of their types.
LEMMA TypeInit == FlashInit => FlashTypeOK
  BY InputAssumption DEF FlashInit, FlashTypeOK, Content, NoCall, uint16_t, Partitions

\* Every step of the driver, its callers and the controller keeps the types.
LEMMA TypeStep == FlashTypeOK /\ [FlashNext]_flashVars => FlashTypeOK'
<1> SUFFICES ASSUME FlashTypeOK, [FlashNext]_flashVars
             PROVE  FlashTypeOK'
  OBVIOUS
<1> USE DEF FlashTypeOK
<1>1. ASSUME NEW id \in AskedIds, EraseCall(id) PROVE FlashTypeOK'
  <2>1. id \in Nat /\ {} \in Content /\ 0 \in uint16_t
    BY InputAssumption DEF Content, uint16_t
  <2>2. call' \in [op : {"none", "erase", "write"}, id : Nat, n : uint16_t, buf : Content]
    BY <1>1, <2>1 DEF EraseCall, Calls
  <2>3. CASE id \notin Partitions
    BY <1>1, <2>2, <2>3 DEF EraseCall, Calls, Return, controller
  <2>4. CASE id \in Partitions
    <3>1. PartitionStart(id) \in Nat
      BY <2>4, PartitionBounds
    <3> QED
      BY <1>1, <2>2, <2>4, <3>1 DEF EraseCall, Calls, Return, controller
  <2> QED
    BY <2>3, <2>4
<1>2. ASSUME NEW id \in AskedIds, NEW buf \in AskedBuffers, NEW n \in AskedPages, WriteCall(id, buf, n)
      PROVE FlashTypeOK'
  <2>1. id \in Nat /\ buf \in Content /\ n \in uint16_t /\ n \in Nat
    BY InputAssumption DEF uint16_t
  <2>2. call' \in [op : {"none", "erase", "write"}, id : Nat, n : uint16_t, buf : Content]
    BY <1>2, <2>1 DEF WriteCall, Calls
  <2> QED
    BY <1>2, <2>1, <2>2 DEF WriteCall, Calls, Return, controller
<1>3. CASE EraseIssue
  BY <1>3, WordType DEF EraseIssue, history
<1>4. CASE EraseCheck
  BY <1>4 DEF EraseCheck, Return, Result, NextBlock, InPartition, history, ERRORS
<1>5. CASE WriteIssue
  BY <1>5, WordType DEF WriteIssue, history
<1>6. CASE WriteCheck
  BY <1>6 DEF WriteCheck, Return, Result, history, ERRORS
<1>7. CASE Returned
  BY <1>7 DEF Returned, controller, NoCall, Content, uint16_t
<1>8. CASE Controller
  <2>1. CASE Complete
    <3>1. {} \in Content
      BY DEF Content
    <3>2. flash' \in [Page -> Content]
      BY <2>1, <3>1, FlashContent DEF Complete
    <3> QED
      BY <2>1, <3>1, <3>2 DEF Complete, Finish, driver, history
  <2>2. CASE CommandError
    BY <2>2 DEF CommandError, Finish, driver, history, ERRORS
  <2>3. CASE LockError
    BY <2>3 DEF LockError, Finish, driver, history, ERRORS
  <2>4. CASE FlashError
    <3>1. flash' \in [Page -> Content] /\ {} \in Content
      BY <2>4, FlashContent DEF FlashError, Content
    <3> QED
      BY <2>4, <3>1 DEF FlashError, Finish, driver, history, ERRORS
  <2> QED
    BY <1>8, <2>1, <2>2, <2>3, <2>4 DEF Controller
<1>9. CASE FlashReset
  <2>1. flash' \in [Page -> Content] /\ {} \in Content /\ 0 \in uint16_t
    BY <1>9, FlashContent DEF FlashReset, Content, uint16_t
  <2> QED
    BY <1>9, <2>1 DEF FlashReset, NoCall, Partitions
<1>10. CASE UNCHANGED flashVars
  BY <1>10 DEF flashVars
<1> QED
  BY <1>1, <1>2, <1>3, <1>4, <1>5, <1>6, <1>7, <1>8, <1>9, <1>10
     DEF FlashNext, Call, DriverStep

\* Every variable of the driver and of the controller keeps its type.
THEOREM FlashTypeCorrect == FlashSpec => []FlashTypeOK
  BY TypeInit, TypeStep, PTL DEF FlashSpec

-----------------------------------------------------------------------------
(* The inductive invariant *)

\* At power-up no command is in progress.
LEMMA InvInit == FlashInit => FlashInv
  BY SMT DEF FlashInit, FlashInv, OneCommandAtATime, EraseInPartition, WriteInReach,
     CommandsMissBootloader, Targets, NoCommand, Ready

\* The command an erase issues lies outside the bootloader.
LEMMA EraseMisses ==
  ASSUME FlashTypeOK, EraseInPartition, pc = "erase_wait", Shielded
  PROVE  Targets([cmd |-> "EPA", farg |-> EpaArg(page)]) \cap BootloaderPages = {}
<1> DEFINE c == [cmd |-> "EPA", farg |-> EpaArg(page)]
<1>1. partition \in Partitions /\ partition # BOOTLOADER
  BY DEF FlashTypeOK, Shielded, Partitions
<1>2. /\ page \in Nat /\ page % 16 = 0
      /\ PartitionStart(partition) <= page /\ page < PartitionEnd(partition)
  BY DEF EraseInPartition, FlashTypeOK
<1>3. /\ BOOTLOADER_PAGES \in Nat
      /\ FLASH_BASE_PAGE + BOOTLOADER_PAGES <= page /\ InDevice(page)
  BY <1>1, <1>2, PartitionBounds, GeometryAssumption, SMT DEF InDevice
<1>4. EpaStart(EpaArg(page)) \in Nat /\ BOOTLOADER_PAGES <= EpaStart(EpaArg(page))
  <2>1. CASE EPA_FIELD = "page"
    BY <2>1, <1>2, <1>3, EpaWord, BaseAligned, SMT
  <2>2. CASE EPA_FIELD = "page_div_16"
    BY <2>2, <1>2, <1>3, EpaWord, BaseAligned, SMT
  <2> QED
    BY <2>1, <2>2, GeometryAssumption
<1>5. Targets(c) = EpaStart(EpaArg(page)) .. EpaStart(EpaArg(page)) + 15
  BY DEF Targets
<1> QED
  BY <1>3, <1>4, <1>5, SMT DEF BootloaderPages

\* So does the command a write issues.
LEMMA WriteMisses ==
  ASSUME FlashTypeOK, WriteInReach, pc = "write_issue", Shielded
  PROVE  Targets([cmd |-> "WP", farg |-> WritePageArg(PartitionStart(partition), page)])
           \cap BootloaderPages = {}
<1> DEFINE arg == WritePageArg(PartitionStart(partition), page)
<1>1. partition \in Partitions /\ partition # BOOTLOADER
  BY DEF FlashTypeOK, Shielded, Partitions
<1>2. page \in uint16_t /\ page \in Nat /\ page < PartitionEnd(partition)
  BY DEF WriteInReach, FlashTypeOK, uint16_t
<1>3. /\ BOOTLOADER_PAGES \in Nat /\ PartitionStart(partition) \in Nat
      /\ FLASH_BASE_PAGE + BOOTLOADER_PAGES <= PartitionStart(partition)
  BY <1>1, PartitionBounds, GeometryAssumption
<1>4. arg \in Nat /\ BOOTLOADER_PAGES <= arg
  <2>1. CASE SERIES = "V71"
    <3>1. BOOTLOADER_PAGES <= 32
      BY <2>1, GeometryAssumption
    <3>2. arg = 32 + page
      BY <1>1, <1>2, <2>1, WpWord
    <3> QED
      BY <1>2, <1>3, <3>1, <3>2, SMT
  <2>2. CASE SERIES = "RH71"
    <3>1. InDevice(PartitionStart(partition) + page)
      BY <2>2 DEF WriteInReach, Shielded
    <3>2. arg = (PartitionStart(partition) + page) - FLASH_BASE_PAGE
      BY <1>1, <1>2, <2>2, <3>1, WpWord
    <3> QED
      BY <1>2, <1>3, <3>2, BaseAligned, SMT
  <2> QED
    BY <2>1, <2>2, GeometryAssumption
<1>5. Targets([cmd |-> "WP", farg |-> arg]) = {arg}
  BY DEF Targets
<1> QED
  BY <1>3, <1>4, <1>5, SMT DEF BootloaderPages

\* Every step keeps commands one at a time and away from the bootloader.
LEMMA InvStep == FlashTypeOK /\ FlashInv /\ [FlashNext]_flashVars => FlashInv'
<1> SUFFICES ASSUME FlashTypeOK, FlashInv, [FlashNext]_flashVars
             PROVE  FlashInv'
  OBVIOUS
<1> USE DEF FlashInv
<1>1. ASSUME NEW id \in AskedIds, EraseCall(id) PROVE FlashInv'
  <2>1. OneCommandAtATime' /\ CommandsMissBootloader'
    BY <1>1 DEF EraseCall, Calls, Return, controller, OneCommandAtATime, CommandsMissBootloader
  <2>2. WriteInReach'
    BY <1>1 DEF EraseCall, Calls, Return, WriteInReach
  <2>3. EraseInPartition'
    <3>1. CASE id \notin Partitions
      BY <1>1, <3>1 DEF EraseCall, Return, EraseInPartition
    <3>2. CASE id \in Partitions
      <4>1. PartitionStart(id) % 16 = 0 /\ PartitionStart(id) <= PartitionStart(id)
        BY <3>2, PartitionBounds, SMT
      <4>2. PartitionStart(id) < PartitionEnd(id)
        BY <3>2, PartitionBounds
      <4> QED
        BY <1>1, <3>2, <4>1, <4>2 DEF EraseCall, EraseInPartition
    <3> QED
      BY <3>1, <3>2
  <2> QED
    BY <2>1, <2>2, <2>3
<1>2. ASSUME NEW id \in AskedIds, NEW buf \in AskedBuffers, NEW n \in AskedPages, WriteCall(id, buf, n)
      PROVE FlashInv'
  <2>1. OneCommandAtATime' /\ CommandsMissBootloader'
    BY <1>2 DEF WriteCall, Calls, Return, controller, OneCommandAtATime, CommandsMissBootloader
  <2>2. EraseInPartition'
    BY <1>2 DEF WriteCall, Calls, Return, EraseInPartition
  <2>3. WriteInReach'
    <3>1. n \in Nat /\ n <= 65535
      BY InputAssumption DEF uint16_t
    <3>2. CASE pc' # "write_issue"
      BY <3>2 DEF WriteInReach
    <3>3. CASE pc' = "write_issue"
      <4>1. id \in Partitions /\ ~(n >= PartitionEnd(id)) /\ page' = n /\ partition' = id
        BY <1>2, <3>3 DEF WriteCall, Return
      <4>2. n < PartitionEnd(id)
        BY <3>1, <4>1, PartitionBounds, SMT
      <4>3. STORE_FAULTS => InDevice(PartitionStart(id) + n)
        BY <1>2, <3>3, <4>1, <4>2 DEF WriteCall, Return
      <4> QED
        BY <3>1, <4>1, <4>2, <4>3 DEF WriteInReach
    <3> QED
      BY <3>2, <3>3
  <2> QED
    BY <2>1, <2>2, <2>3
<1>3. CASE EraseIssue
  <2>1. CommandsMissBootloader'
    BY <1>3, EraseMisses DEF EraseIssue, CommandsMissBootloader
  <2> QED
    BY <1>3, <2>1 DEF EraseIssue, history, OneCommandAtATime, EraseInPartition, WriteInReach, NoCommand
<1>4. CASE EraseCheck
  <2>1. fcr = NoCommand
    BY <1>4, SMT DEF EraseCheck, OneCommandAtATime, Ready
  <2>2. OneCommandAtATime' /\ CommandsMissBootloader'
    BY <1>4, <2>1, SMT DEF EraseCheck, OneCommandAtATime, CommandsMissBootloader, Ready
  <2>3. WriteInReach'
    BY <1>4 DEF EraseCheck, Return, WriteInReach
  <2>4. EraseInPartition'
    <3>1. CASE pc' \notin {"erase_wait", "erase_check"}
      BY <3>1 DEF EraseInPartition
    <3>2. CASE pc' \in {"erase_wait", "erase_check"}
      <4>1. page' = page + 16 /\ page + 16 < PartitionEnd(partition) /\ partition' = partition
        BY <1>4, <3>2 DEF EraseCheck, Return, NextBlock, InPartition
      <4>2. page \in Nat /\ page % 16 = 0 /\ PartitionStart(partition) <= page
        BY <1>4 DEF EraseCheck, EraseInPartition, FlashTypeOK
      <4>3. PartitionStart(partition) \in Nat
        BY PartitionBounds DEF FlashTypeOK
      <4>4. (page + 16) % 16 = 0 /\ PartitionStart(partition) <= page + 16
        BY <4>2, <4>3, SMT
      <4> QED
        BY <4>1, <4>4 DEF EraseInPartition
    <3> QED
      BY <3>1, <3>2
  <2> QED
    BY <2>2, <2>3, <2>4
<1>5. CASE WriteIssue
  <2>1. CommandsMissBootloader'
    BY <1>5, WriteMisses DEF WriteIssue, CommandsMissBootloader
  <2> QED
    BY <1>5, <2>1 DEF WriteIssue, history, OneCommandAtATime, EraseInPartition, WriteInReach, NoCommand
<1>6. CASE WriteCheck
  <2>1. fcr = NoCommand
    BY <1>6, SMT DEF WriteCheck, OneCommandAtATime, Ready
  <2> QED
    BY <1>6, <2>1, SMT DEF WriteCheck, Return, OneCommandAtATime, CommandsMissBootloader, Ready,
       EraseInPartition, WriteInReach
<1>7. CASE Returned
  BY <1>7 DEF Returned, controller, OneCommandAtATime, EraseInPartition, WriteInReach,
     CommandsMissBootloader
<1>8. CASE Controller
  <2>1. PICK status \in {1, 3, 5, 9} : Finish(status)
    BY <1>8 DEF Controller, Complete, CommandError, LockError, FlashError
  <2>2. Ready(status)
    BY <2>1, SMT DEF Ready
  <2>3. Targets(fcr') = {}
    BY <2>1 DEF Finish, Targets, NoCommand
  <2> QED
    BY <2>1, <2>2, <2>3 DEF Finish, driver, history, OneCommandAtATime, EraseInPartition,
       WriteInReach, CommandsMissBootloader
<1>9. CASE FlashReset
  <2>1. Ready(1)
    BY SMT DEF Ready
  <2> QED
    BY <1>9, <2>1 DEF FlashReset, OneCommandAtATime, EraseInPartition, WriteInReach,
       CommandsMissBootloader, Targets, NoCommand
<1>10. CASE UNCHANGED flashVars
  BY <1>10 DEF flashVars, OneCommandAtATime, EraseInPartition, WriteInReach, CommandsMissBootloader
<1> QED
  BY <1>1, <1>2, <1>3, <1>4, <1>5, <1>6, <1>7, <1>8, <1>9, <1>10
     DEF FlashNext, Call, DriverStep

\* One command at a time, inside the partition asked for, away from the bootloader.
THEOREM FlashInvariant == FlashSpec => []FlashInv
<1>1. FlashInit => FlashTypeOK /\ FlashInv
  BY TypeInit, InvInit
<1>2. FlashTypeOK /\ FlashInv /\ [FlashNext]_flashVars => (FlashTypeOK /\ FlashInv)'
  BY TypeStep, InvStep
<1> QED
  BY <1>1, <1>2, PTL DEF FlashSpec

-----------------------------------------------------------------------------
(* What a step may not do *)

\* Pages outside the targets of the command in progress never change.
LEMMA FlashFrame ==
  ASSUME FlashTypeOK, [FlashNext]_flashVars, NEW p \in Page, p \notin Targets(fcr)
  PROVE  flash'[p] = flash[p]
<1> USE DEF FlashTypeOK
<1>1. CASE Call
  BY <1>1 DEF Call, EraseCall, WriteCall, controller
<1>2. CASE DriverStep
  BY <1>2 DEF DriverStep, EraseIssue, EraseCheck, WriteIssue, WriteCheck
<1>3. CASE Returned
  BY <1>3 DEF Returned, controller
<1>4. CASE Controller
  BY <1>4 DEF Controller, Complete, CommandError, LockError, FlashError, Overwritten, Programmed
<1>5. CASE FlashReset
  BY <1>5 DEF FlashReset, Overwritten
<1>6. CASE UNCHANGED flashVars
  BY <1>6 DEF flashVars
<1> QED
  BY <1>1, <1>2, <1>3, <1>4, <1>5, <1>6 DEF FlashNext

\* Where stores outside the device fault (or on the V71, whose range check is
\* tight enough), a build that may not touch the bootloader never does.
THEOREM BootloaderSafe ==
  ASSUME STORE_FAULTS \/ SERIES = "V71"
  PROVE  FlashSpec => BootloaderUntouched
<1>1. FlashTypeOK /\ FlashInv /\ [FlashNext]_flashVars =>
        [~CONFIG_RAM_BUILD => \A p \in BootloaderPages : flash'[p] = flash[p]]_flashVars
  <2> SUFFICES ASSUME FlashTypeOK, FlashInv, [FlashNext]_flashVars, ~CONFIG_RAM_BUILD,
                      NEW p \in BootloaderPages
               PROVE  flash'[p] = flash[p]
    OBVIOUS
  <2>1. p \in Page
    BY GeometryAssumption, SMT DEF BootloaderPages, Page
  <2>2. p \notin Targets(fcr)
    BY DEF FlashInv, CommandsMissBootloader, Shielded
  <2> QED
    BY <2>1, <2>2, FlashFrame
<1> QED
  BY <1>1, FlashTypeCorrect, FlashInvariant, PTL DEF FlashSpec, BootloaderUntouched

\* No command word reaches a controller that is still busy.
THEOREM CommandDiscipline == FlashSpec => CommandOnlyWhenReady
<1>1. FlashTypeOK /\ FlashInv /\ [FlashNext]_flashVars =>
        [fcr' # fcr /\ fcr' # NoCommand => fcr = NoCommand /\ Ready(fsr)]_flashVars
  <2> SUFFICES ASSUME FlashInv, [FlashNext]_flashVars, fcr' # fcr, fcr' # NoCommand
               PROVE  fcr = NoCommand /\ Ready(fsr)
    OBVIOUS
  <2>1. EraseIssue \/ WriteIssue
    BY DEF FlashNext, Call, EraseCall, WriteCall, DriverStep, EraseCheck, WriteCheck, Returned,
       Controller, Complete, CommandError, LockError, FlashError, Finish, FlashReset, controller,
       flashVars
  <2>2. pc \in {"erase_wait", "write_issue"}
    BY <2>1 DEF EraseIssue, WriteIssue
  <2> QED
    BY <2>2 DEF FlashInv, OneCommandAtATime
<1> QED
  BY <1>1, FlashTypeCorrect, FlashInvariant, PTL DEF FlashSpec, CommandOnlyWhenReady

-----------------------------------------------------------------------------
(* What an erase comes to *)

\* The blocks of the partition before address a are blank, the rest is as it was.
ErasedTo(a) ==
  flash = [p \in Page |-> IF PartitionStart(partition) <= FLASH_BASE_PAGE + p /\ FLASH_BASE_PAGE + p < a
                          THEN {} ELSE before[p]]

KeptOutside(id) == \A p \in Page \ PartitionPages(id) : flash[p] = before[p]

EraseCommand == [cmd |-> "EPA", farg |-> EpaArg(page)]

\* How far an erase has come at each point of its loop.
EraseInv ==
  /\ pc \in {"erase_wait", "erase_check"} => call.op = "erase" /\ call.id = partition
  /\ pc \in {"write_issue", "write_check"} => call.op = "write"
  /\ pc = "erase_wait" => ErasedTo(page)
  /\ pc = "erase_check" /\ fcr # NoCommand => ErasedTo(page) /\ fcr = EraseCommand
  /\ pc = "erase_check" /\ fcr = NoCommand =>
       KeptOutside(partition) /\ (fsr \notin ERRORS => ErasedTo(page + 16))
  /\ pc = "return" /\ call.op = "erase" =>
       KeptOutside(call.id) /\ (ret = 0 => call.id = partition /\ ErasedTo(PartitionEnd(partition)))

\* The command of a block erases that block, and the block is of the partition.
LEMMA EraseTargets ==
  ASSUME FlashTypeOK, EraseInPartition, pc \in {"erase_wait", "erase_check"}, EPA_FIELD = "page"
  PROVE  /\ Targets(EraseCommand) = (page - FLASH_BASE_PAGE) .. (page - FLASH_BASE_PAGE) + 15
         /\ page + 16 <= PartitionEnd(partition)
         /\ FLASH_BASE_PAGE <= page
         /\ \A p \in Page : p \in Targets(EraseCommand) <=>
              page <= FLASH_BASE_PAGE + p /\ FLASH_BASE_PAGE + p < page + 16
         /\ \A p \in Page : p \in Targets(EraseCommand) => p \in PartitionPages(partition)
         /\ Targets(EraseCommand) \subseteq Page
<1>1. partition \in Partitions
  BY DEF FlashTypeOK
<1>2. /\ page \in Nat /\ page % 16 = 0
      /\ PartitionStart(partition) <= page /\ page < PartitionEnd(partition)
  BY DEF EraseInPartition, FlashTypeOK
<1>3. /\ PartitionStart(partition) \in Nat /\ PartitionEnd(partition) \in Nat
      /\ FLASH_BASE_PAGE <= PartitionStart(partition)
      /\ PartitionEnd(partition) <= FLASH_BASE_PAGE + DEVICE_PAGES
      /\ PartitionEnd(partition) % 16 = 0
  BY <1>1, PartitionBounds
<1>4. page + 16 <= PartitionEnd(partition) /\ FLASH_BASE_PAGE <= page /\ InDevice(page)
  BY <1>2, <1>3, BaseAligned, SMT DEF InDevice
<1>5. Targets(EraseCommand) = (page - FLASH_BASE_PAGE) .. (page - FLASH_BASE_PAGE) + 15
  BY <1>2, <1>4, EpaWord DEF Targets, EraseCommand
<1>6. ASSUME NEW p \in Page
      PROVE  p \in Targets(EraseCommand) <=> page <= FLASH_BASE_PAGE + p /\ FLASH_BASE_PAGE + p < page + 16
  BY <1>2, <1>4, <1>5, BaseAligned, SMT DEF Page
<1>7. ASSUME NEW p \in Page, p \in Targets(EraseCommand) PROVE p \in PartitionPages(partition)
  BY <1>2, <1>3, <1>4, <1>6, <1>7, BaseAligned, SMT DEF Page, PartitionPages
<1>8. Targets(EraseCommand) \subseteq Page
  BY <1>2, <1>3, <1>4, <1>5, BaseAligned, SMT DEF Page
<1> QED
  BY <1>4, <1>5, <1>6, <1>7, <1>8

\* Blocks erased in order leave the outside of the partition alone.
LEMMA ErasedKeeps ==
  ASSUME FlashTypeOK, NEW a \in Nat, a <= PartitionEnd(partition), ErasedTo(a)
  PROVE  KeptOutside(partition)
<1>1. PartitionEnd(partition) \in Nat /\ PartitionStart(partition) \in Nat
  BY PartitionBounds DEF FlashTypeOK
<1> SUFFICES ASSUME NEW p \in Page, p \notin PartitionPages(partition) PROVE flash[p] = before[p]
  BY DEF KeptOutside
<1>2. ~(PartitionStart(partition) <= FLASH_BASE_PAGE + p /\ FLASH_BASE_PAGE + p < a)
  BY <1>1, BaseAligned, SMT DEF PartitionPages, Page
<1> QED
  BY <1>2 DEF ErasedTo

\* The call starts with nothing erased and the flash as it was.
LEMMA EraseInvCall ==
  ASSUME FlashTypeOK, EraseInv, Call PROVE EraseInv'
<1>1. ASSUME NEW id \in AskedIds, EraseCall(id) PROVE EraseInv'
  <2>1. flash' = flash /\ before' = flash /\ call'.op = "erase" /\ call'.id = id
        /\ flash \in [Page -> Content]
    BY <1>1 DEF EraseCall, Calls, controller, FlashTypeOK
  <2>2. CASE id \notin Partitions
    <3>1. pc' = "return" /\ ret' # 0
      BY <1>1, <2>2 DEF EraseCall, Return
    <3> QED
      BY <2>1, <3>1 DEF EraseInv, KeptOutside
  <2>3. CASE id \in Partitions
    <3>1. pc' = "erase_wait" /\ partition' = id /\ page' = PartitionStart(id)
      BY <1>1, <2>3 DEF EraseCall
    <3>2. PartitionStart(id) \in Nat
      BY <2>3, PartitionBounds
    <3>3. \A p \in Page : ~(PartitionStart(id) <= FLASH_BASE_PAGE + p /\ FLASH_BASE_PAGE + p < PartitionStart(id))
      BY <3>2, BaseAligned, SMT DEF Page
    <3>4. ErasedTo(page)'
      BY <2>1, <3>1, <3>3 DEF ErasedTo
    <3> QED
      BY <2>1, <3>1, <3>4 DEF EraseInv
  <2> QED
    BY <2>2, <2>3
<1>2. ASSUME NEW id \in AskedIds, NEW buf \in AskedBuffers, NEW n \in AskedPages, WriteCall(id, buf, n)
      PROVE EraseInv'
  BY <1>2 DEF WriteCall, Calls, Return, EraseInv
<1> QED
  BY <1>1, <1>2 DEF Call

\* One turn of the loop: the block is added to what is blank.
LEMMA EraseInvCheck ==
  ASSUME FlashTypeOK, FlashInv, EraseInv, EraseCheck, EPA_FIELD = "page" PROVE EraseInv'
<1>1. /\ fcr = NoCommand /\ pc = "erase_check" /\ call.op = "erase" /\ call.id = partition
      /\ KeptOutside(partition) /\ (fsr \notin ERRORS => ErasedTo(page + 16))
  BY SMT DEF EraseCheck, FlashInv, OneCommandAtATime, Ready, EraseInv
<1>2. UNCHANGED <<flash, fcr, partition, call, before>>
  BY DEF EraseCheck, history
<1>3. CASE fsr \in ERRORS
  <2>1. pc' = "return" /\ ret' # 0
    BY <1>3, SMT DEF EraseCheck, Return, Result, ERRORS
  <2> QED
    BY <1>1, <1>2, <2>1 DEF EraseInv, KeptOutside
<1>4. CASE fsr \notin ERRORS
  <2>1. page' = page + 16 /\ ErasedTo(page + 16)
    BY <1>1, <1>4 DEF EraseCheck, NextBlock
  <2>2. CASE InPartition(page + 16)
    <3>1. pc' = "erase_wait"
      BY <1>4, <2>2 DEF EraseCheck, NextBlock
    <3>2. ErasedTo(page)'
      BY <1>2, <2>1 DEF ErasedTo
    <3> QED
      BY <1>1, <1>2, <3>1, <3>2 DEF EraseInv
  <2>3. CASE ~InPartition(page + 16)
    <3>1. pc' = "return"
      BY <1>4, <2>3 DEF EraseCheck, NextBlock, Return
    <3>2. page + 16 = PartitionEnd(partition)
      <4>1. page + 16 <= PartitionEnd(partition)
        BY <1>1, EraseTargets DEF FlashInv
      <4>2. page \in Nat /\ PartitionEnd(partition) \in Nat
        BY PartitionBounds DEF FlashTypeOK
      <4> QED
        BY <2>3, <4>1, <4>2, SMT DEF InPartition
    <3>3. ErasedTo(PartitionEnd(partition))'
      BY <1>2, <2>1, <3>2 DEF ErasedTo
    <3> QED
      BY <1>1, <1>2, <3>1, <3>3 DEF EraseInv, KeptOutside
  <2> QED
    BY <2>2, <2>3
<1> QED
  BY <1>3, <1>4

\* The controller: the block goes blank, or is refused, or is anybody's guess.
LEMMA EraseInvController ==
  ASSUME FlashTypeOK, FlashInv, EraseInv, Controller, EPA_FIELD = "page" PROVE EraseInv'
<1>1. /\ fcr # NoCommand /\ fcr' = NoCommand
      /\ UNCHANGED <<pc, page, partition, ret, call, before>>
  BY DEF Controller, Complete, CommandError, LockError, FlashError, Finish, driver, history
<1>2. pc \in {"erase_check", "write_check"}
  BY <1>1 DEF FlashInv, OneCommandAtATime
<1>3. CASE pc = "write_check"
  BY <1>1, <1>3 DEF EraseInv
<1>4. CASE pc = "erase_check"
  <2>1. ErasedTo(page) /\ fcr = EraseCommand /\ call.op = "erase" /\ call.id = partition
    BY <1>1, <1>4 DEF EraseInv
  <2>2. /\ page \in Nat /\ PartitionStart(partition) \in Nat /\ PartitionStart(partition) <= page
        /\ page + 16 <= PartitionEnd(partition)
        /\ \A p \in Page : p \in Targets(fcr) <=> page <= FLASH_BASE_PAGE + p /\ FLASH_BASE_PAGE + p < page + 16
        /\ \A p \in Page : p \in Targets(fcr) => p \in PartitionPages(partition)
    BY <1>4, <2>1, EraseTargets, PartitionBounds DEF FlashInv, EraseInPartition, FlashTypeOK
  <2>3. PartitionEnd(partition) \in Nat /\ page <= PartitionEnd(partition)
    BY <2>2, PartitionBounds, SMT DEF FlashTypeOK
  <2>4. KeptOutside(partition)
    BY <2>1, <2>2, <2>3, ErasedKeeps
  <2>5. flash' = flash \/ \E junk \in Content : flash' = Overwritten(Targets(fcr), junk)
    BY <2>1 DEF Controller, Complete, CommandError, LockError, FlashError, Content, EraseCommand
  <2>6. KeptOutside(partition)'
    BY <1>1, <2>2, <2>4, <2>5 DEF KeptOutside, Overwritten, PartitionPages
  <2>7. ASSUME fsr' \notin ERRORS PROVE ErasedTo(page + 16)'
    <3>1. flash' = Overwritten(Targets(fcr), {})
      BY <2>1, <2>7, SMT DEF Controller, Complete, CommandError, LockError, FlashError, Finish, ERRORS, EraseCommand
    <3>2. \A p \in Page : (p \in Targets(fcr)
            \/ (PartitionStart(partition) <= FLASH_BASE_PAGE + p /\ FLASH_BASE_PAGE + p < page))
            <=> (PartitionStart(partition) <= FLASH_BASE_PAGE + p /\ FLASH_BASE_PAGE + p < page + 16)
      BY <2>2, BaseAligned, SMT DEF Page
    <3>3. \A p \in Page : flash[p] =
            IF PartitionStart(partition) <= FLASH_BASE_PAGE + p /\ FLASH_BASE_PAGE + p < page
            THEN {} ELSE before[p]
      BY <2>1 DEF ErasedTo
    <3> QED
      BY <1>1, <3>1, <3>2, <3>3 DEF ErasedTo, Overwritten
  <2> QED
    BY <1>1, <1>4, <2>1, <2>6, <2>7 DEF EraseInv
<1> QED
  BY <1>2, <1>3, <1>4

\* Every step keeps track of how far the erase has come.
LEMMA EraseInvStep ==
  ASSUME EPA_FIELD = "page"
  PROVE  FlashTypeOK /\ FlashInv /\ EraseInv /\ [FlashNext]_flashVars => EraseInv'
<1> SUFFICES ASSUME FlashTypeOK, FlashInv, EraseInv, [FlashNext]_flashVars PROVE EraseInv'
  OBVIOUS
<1>1. CASE EraseIssue
  <2>1. UNCHANGED <<flash, page, partition, call, before>> /\ pc' = "erase_check"
        /\ fcr' = EraseCommand /\ EraseCommand # NoCommand /\ pc = "erase_wait"
    BY <1>1 DEF EraseIssue, history, EraseCommand, NoCommand
  <2> QED
    BY <2>1 DEF EraseInv, ErasedTo, EraseCommand
<1>2. CASE WriteIssue
  BY <1>2 DEF WriteIssue, EraseInv, history
<1>3. CASE WriteCheck
  <2>1. pc = "write_check" /\ pc' = "return" /\ call' = call
    BY <1>3 DEF WriteCheck, Return, history
  <2>2. call.op # "erase"
    BY <2>1 DEF EraseInv
  <2> QED
    BY <2>1, <2>2 DEF EraseInv
<1>4. CASE Returned
  BY <1>4 DEF Returned, EraseInv
<1>5. CASE FlashReset
  BY <1>5 DEF FlashReset, EraseInv
<1>6. CASE UNCHANGED flashVars
  BY <1>6 DEF flashVars, EraseInv, ErasedTo, KeptOutside, EraseCommand
<1>7. CASE Call
  BY <1>7, EraseInvCall
<1>8. CASE EraseCheck
  BY <1>8, EraseInvCheck
<1>9. CASE Controller
  BY <1>9, EraseInvController
<1> QED
  BY <1>1, <1>2, <1>3, <1>4, <1>5, <1>6, <1>7, <1>8, <1>9 DEF FlashNext, DriverStep

\* EraseInv holds from power-up on, resets included.
LEMMA EraseInvariant ==
  ASSUME EPA_FIELD = "page" PROVE FlashSpec => []EraseInv
<1>1. FlashInit => EraseInv
  BY DEF FlashInit, EraseInv
<1> QED
  BY <1>1, EraseInvStep, FlashTypeCorrect, FlashInvariant, PTL DEF FlashSpec

\* For every geometry: an erase that returned 0 left its whole partition blank,
\* with no block left out and none taken twice, and every other page as it was.
THEOREM EraseIsWhole ==
  ASSUME EPA_FIELD = "page" PROVE FlashSpec => []EraseBlanksPartition
<1>1. FlashTypeOK /\ EraseInv => EraseBlanksPartition
  <2> SUFFICES ASSUME FlashTypeOK, EraseInv, pc = "return", call.op = "erase", ret = 0
               PROVE  flash = [p \in Page |-> IF p \in PartitionPages(call.id) THEN {} ELSE before[p]]
    BY DEF EraseBlanksPartition
  <2>1. call.id = partition /\ ErasedTo(PartitionEnd(partition))
    BY DEF EraseInv
  <2> QED
    BY <2>1 DEF ErasedTo, PartitionPages
<1> QED
  BY <1>1, EraseInvariant, FlashTypeCorrect, PTL

-----------------------------------------------------------------------------
(* What a write comes to *)

WriteTarget == (PartitionStart(call.id) - FLASH_BASE_PAGE) + call.n

\* The stores of the page buffer reach the page's latch.
Reached == InDevice(PartitionStart(call.id) + call.n)

WroteTarget ==
  flash = [p \in Page |-> IF p = WriteTarget THEN before[p] \cup call.buf ELSE before[p]]

KeptButTarget == \A p \in Page : p # WriteTarget => flash[p] = before[p]

WriteCommand == [cmd |-> "WP", farg |-> WritePageArg(PartitionStart(partition), page)]

\* The page, the latch and the flash at each point of a write.
WriteInv ==
  /\ pc \in {"erase_wait", "erase_check"} => call.op = "erase"
  /\ pc = "return" => call.op \in {"erase", "write"}
  /\ pc \in {"write_issue", "write_check"} =>
       call.op = "write" /\ call.id = partition /\ call.n = page /\ (STORE_FAULTS => Reached)
  /\ pc = "write_issue" \/ (pc = "write_check" /\ fcr # NoCommand) =>
       flash = before /\ (Reached => latch = call.buf)
  /\ pc = "write_check" /\ fcr # NoCommand => fcr = WriteCommand
  /\ pc = "write_check" /\ fcr = NoCommand /\ Reached =>
       KeptButTarget /\ (fsr \notin ERRORS => WroteTarget)
  /\ pc = "return" /\ call.op = "write" =>
       /\ flash = before \/ (call.id \in Partitions /\ (Reached => KeptButTarget))
       /\ ret = 0 => call.id \in Partitions /\ (STORE_FAULTS => Reached) /\ (Reached => WroteTarget)

\* On the RH71 the command names the page of the call, where its stores went.
LEMMA WriteTargets ==
  ASSUME FlashTypeOK, SERIES = "RH71", call.id = partition, call.n = page, Reached
  PROVE  Targets(WriteCommand) = {WriteTarget} /\ WriteTarget \in Page
<1>1. partition \in Partitions /\ page \in uint16_t /\ PartitionStart(partition) \in Nat /\ page \in Nat
  BY PartitionBounds DEF FlashTypeOK
<1>2. WritePageArg(PartitionStart(partition), page) = (PartitionStart(partition) + page) - FLASH_BASE_PAGE
  BY <1>1, WpWord DEF Reached
<1>3. WriteTarget = (PartitionStart(partition) + page) - FLASH_BASE_PAGE
  BY <1>1, BaseAligned, SMT DEF WriteTarget
<1>4. WriteTarget \in Page
  BY <1>1, <1>3, BaseAligned, SMT DEF Reached, InDevice, Page
<1> QED
  BY <1>2, <1>3, <1>4 DEF Targets, WriteCommand

\* The call: nothing is written by it but the latch.
LEMMA WriteInvCall ==
  ASSUME FlashTypeOK, WriteInv, Call PROVE WriteInv'
<1>1. ASSUME NEW id \in AskedIds, EraseCall(id) PROVE WriteInv'
  BY <1>1 DEF EraseCall, Calls, Return, WriteInv
<1>2. ASSUME NEW id \in AskedIds, NEW buf \in AskedBuffers, NEW n \in AskedPages, WriteCall(id, buf, n)
      PROVE WriteInv'
  <2>1. /\ call' = [op |-> "write", id |-> id, n |-> n, buf |-> buf]
        /\ before' = flash /\ flash' = flash /\ fcr' = fcr
    BY <1>2 DEF WriteCall, Calls
  <2>2. n \in Nat
    BY InputAssumption DEF uint16_t
  <2>3. Reached' <=> InDevice(PartitionStart(id) + n)
    BY <2>1 DEF Reached
  <2>4. CASE id \notin Partitions \/ n >= PartitionEnd(id)
    <3>1. pc' = "return" /\ ret' # 0
      BY <1>2, <2>4 DEF WriteCall, Return
    <3> QED
      BY <2>1, <3>1 DEF WriteInv
  <2>5. CASE id \in Partitions /\ ~(n >= PartitionEnd(id))
    <3>1. /\ page' = n /\ partition' = id
          /\ pc' = "fault" \/ /\ pc' = "write_issue"
                              /\ STORE_FAULTS => InDevice(PartitionStart(id) + n)
                              /\ InDevice(PartitionStart(id) + n) => latch' = buf
      BY <1>2, <2>5 DEF WriteCall
    <3> QED
      BY <2>1, <2>3, <3>1 DEF WriteInv
  <2> QED
    BY <2>4, <2>5
<1> QED
  BY <1>1, <1>2 DEF Call

\* The controller: the page is programmed, refused, or anybody's guess.
LEMMA WriteInvController ==
  ASSUME FlashTypeOK, FlashInv, WriteInv, Controller, SERIES = "RH71" PROVE WriteInv'
<1>1. /\ fcr # NoCommand /\ fcr' = NoCommand
      /\ UNCHANGED <<pc, page, partition, ret, call, before>>
  BY DEF Controller, Complete, CommandError, LockError, FlashError, Finish, driver, history
<1>2. pc \in {"erase_check", "write_check"}
  BY <1>1 DEF FlashInv, OneCommandAtATime
<1>3. CASE pc = "erase_check"
  BY <1>1, <1>3 DEF WriteInv
<1>4. CASE pc = "write_check"
  <2>1. /\ flash = before /\ fcr = WriteCommand
        /\ call.op = "write" /\ call.id = partition /\ call.n = page
        /\ (STORE_FAULTS => Reached) /\ (Reached => latch = call.buf)
    BY <1>1, <1>4 DEF WriteInv
  <2>2. Reached' <=> Reached
    BY <1>1 DEF Reached
  <2>3. ASSUME Reached PROVE KeptButTarget' /\ (fsr' \notin ERRORS => WroteTarget')
    <3>1. Targets(fcr) = {WriteTarget} /\ WriteTarget \in Page
      BY <2>1, <2>3, WriteTargets
    <3>2. latch = call.buf /\ fcr.cmd = "WP"
      BY <2>1, <2>3 DEF WriteCommand
    <3>3. WriteTarget' = WriteTarget
      BY <1>1 DEF WriteTarget
    <3>4. \/ flash' = Programmed(Targets(fcr))
          \/ flash' = flash /\ fsr' \in ERRORS
          \/ fsr' \in ERRORS /\ \E junk \in Content : flash' = Overwritten(Targets(fcr), junk)
      BY <3>2 DEF Controller, Complete, CommandError, LockError, FlashError, Finish, ERRORS
    <3>5. CASE flash' = Programmed(Targets(fcr))
      BY <1>1, <2>1, <3>1, <3>2, <3>3, <3>5 DEF Programmed, WroteTarget, KeptButTarget
    <3>6. CASE flash' = flash /\ fsr' \in ERRORS
      BY <1>1, <2>1, <3>6 DEF KeptButTarget
    <3>7. CASE fsr' \in ERRORS /\ \E junk \in Content : flash' = Overwritten(Targets(fcr), junk)
      BY <1>1, <2>1, <3>1, <3>3, <3>7 DEF Overwritten, KeptButTarget
    <3> QED
      BY <3>4, <3>5, <3>6, <3>7
  <2> QED
    BY <1>1, <1>4, <2>1, <2>2, <2>3 DEF WriteInv
<1> QED
  BY <1>2, <1>3, <1>4

\* Every step keeps track of the page to be written.
LEMMA WriteInvStep ==
  ASSUME SERIES = "RH71"
  PROVE  FlashTypeOK /\ FlashInv /\ WriteInv /\ [FlashNext]_flashVars => WriteInv'
<1> SUFFICES ASSUME FlashTypeOK, FlashInv, WriteInv, [FlashNext]_flashVars PROVE WriteInv'
  OBVIOUS
<1>1. CASE Call
  BY <1>1, WriteInvCall
<1>2. CASE EraseIssue
  BY <1>2 DEF EraseIssue, WriteInv, history
<1>3. CASE EraseCheck
  BY <1>3 DEF EraseCheck, Return, WriteInv, history
<1>4. CASE WriteIssue
  <2>1. /\ pc = "write_issue" /\ pc' = "write_check" /\ fcr' = WriteCommand
        /\ UNCHANGED <<flash, latch, page, partition, call, before>>
        /\ WriteCommand # NoCommand
    BY <1>4 DEF WriteIssue, WriteCommand, NoCommand, history
  <2>2. Reached' <=> Reached
    BY <2>1 DEF Reached
  <2>3. WriteCommand' = WriteCommand
    BY <2>1 DEF WriteCommand
  <2> QED
    BY <2>1, <2>2, <2>3 DEF WriteInv
<1>5. CASE WriteCheck
  <2>1. /\ fcr = NoCommand /\ pc = "write_check" /\ pc' = "return" /\ ret' = Result(fsr)
        /\ UNCHANGED <<flash, partition, call, before>>
    BY <1>5, SMT DEF WriteCheck, Return, FlashInv, OneCommandAtATime, Ready, history
  <2>2. ret' = 0 => fsr \notin ERRORS
    BY <2>1, SMT DEF Result, ERRORS
  <2>3. (Reached' <=> Reached) /\ (KeptButTarget' <=> KeptButTarget) /\ (WroteTarget' <=> WroteTarget)
    BY <2>1 DEF Reached, KeptButTarget, WroteTarget, WriteTarget
  <2>4. call.id \in Partitions
    BY <2>1 DEF WriteInv, FlashTypeOK
  <2> QED
    BY <2>1, <2>2, <2>3, <2>4 DEF WriteInv
<1>6. CASE Returned
  BY <1>6 DEF Returned, WriteInv
<1>7. CASE FlashReset
  BY <1>7 DEF FlashReset, WriteInv
<1>8. CASE Controller
  BY <1>8, WriteInvController
<1>9. CASE UNCHANGED flashVars
  BY <1>9 DEF flashVars, WriteInv, WriteCommand, Reached, KeptButTarget, WroteTarget, WriteTarget
<1> QED
  BY <1>1, <1>2, <1>3, <1>4, <1>5, <1>6, <1>7, <1>8, <1>9 DEF FlashNext, DriverStep

\* WriteInv holds from power-up on, resets included.
LEMMA WriteInvariant ==
  ASSUME SERIES = "RH71" PROVE FlashSpec => []WriteInv
<1>1. FlashInit => WriteInv
  BY DEF FlashInit, WriteInv
<1> QED
  BY <1>1, WriteInvStep, FlashTypeCorrect, FlashInvariant, PTL DEF FlashSpec

\* The RH71, where stores outside the device fault: a write that returned 0
\* programmed the page it was asked for and no other, whatever the uint16_t
\* page number, the partition and the geometry.
THEOREM WriteIsExact ==
  ASSUME SERIES = "RH71", STORE_FAULTS PROVE FlashSpec => []WriteProgramsItsPage
<1>1. WriteInv => WriteProgramsItsPage
  BY DEF WriteInv, WroteTarget, WriteTarget, WriteProgramsItsPage
<1> QED
  BY <1>1, WriteInvariant, PTL

\* A page number of the partition names a page of it.
LEMMA TargetInPartition ==
  ASSUME FlashTypeOK, call.id \in {APP_1, APP_2}, call.n < APP_PAGES
  PROVE  Reached /\ WriteTarget \in PartitionPages(call.id)
<1>1. call.id \in {0, 1} /\ call.n \in Nat /\ call.n < APP_PAGES
  BY DEF APP_1, APP_2, FlashTypeOK, uint16_t
<1>2. /\ PartitionStart(call.id) \in Nat /\ FLASH_BASE_PAGE <= PartitionStart(call.id)
      /\ PartitionEnd(call.id) = PartitionStart(call.id) + APP_PAGES
      /\ PartitionEnd(call.id) <= FLASH_BASE_PAGE + DEVICE_PAGES
      /\ APP_PAGES \in Nat
  BY <1>1, PartitionBounds, GeometryAssumption DEF PartitionEnd, Partitions
<1> QED
  BY <1>1, <1>2, BaseAligned, SMT DEF Reached, InDevice, WriteTarget, PartitionPages, Page

\* The RH71 and a build without the bootloader's partition: a call that failed
\* half way has changed no page outside the partition it was given.
THEOREM FailureStaysInside ==
  ASSUME SERIES = "RH71", EPA_FIELD = "page", ~CONFIG_RAM_BUILD
  PROVE  FlashSpec => []FailureConfined
<1>1. FlashTypeOK /\ EraseInv /\ WriteInv => FailureConfined
  <2> SUFFICES ASSUME FlashTypeOK, EraseInv, WriteInv, pc = "return", ret # 0,
                      call.op = "write" => call.n < APP_PAGES,
                      NEW p \in Page \ PartitionPages(call.id)
               PROVE  flash[p] = before[p]
    BY DEF FailureConfined
  <2>1. CASE call.op = "erase"
    BY <2>1 DEF EraseInv, KeptOutside
  <2>2. CASE call.op = "write" /\ flash # before
    <3>1. call.id \in Partitions /\ call.n < APP_PAGES
      BY <2>2 DEF WriteInv
    <3>2. Reached /\ WriteTarget \in PartitionPages(call.id)
      BY <3>1, TargetInPartition DEF Partitions
    <3> QED
      BY <2>2, <3>2 DEF WriteInv, KeptButTarget
  <2>3. CASE flash = before
    BY <2>3
  <2> QED
    BY <2>1, <2>2, <2>3 DEF WriteInv
<1> QED
  BY <1>1, EraseInvariant, WriteInvariant, FlashTypeCorrect, PTL
=============================================================================
