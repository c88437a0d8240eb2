----------------------------- MODULE MainProofs -----------------------------
(***************************************************************************)
(* Theorems about the bootloader from reset to jump: what startup leaves   *)
(* behind for the loop, and that the reply to bl_boot has left before the  *)
(* jump for every length of the message.                                   *)
(***************************************************************************)
EXTENDS Main, BootloaderProofs

USE DEF CONSOLE, TRANSPORT_USART_NO, Ports, Other,
        BOOT_APP_1, BOOT_APP_2, BOOT_BOOTLOADER, BOOT_INVALID_ENTRY

\* How the steps are told apart in the proofs below: three kinds change nothing
\* of the program but its stage.
LEMMA StepCases ==
  ASSUME [MainNext]_mainVars
  PROVE  \/ Startup
         \/ ServerPoll \/ ServerReply \/ BootMessage \/ putchar \/ BootPoll
         \/ \E p \in Ports : ShiftOut(p)
         \/ FlashController \/ BoardReset
         \/ UNCHANGED mainVars
  BY DEF MainNext, Program, MainLoop, Shift

\* A step of startup leaves the driver, the loop and the transport's transmitter alone.
LEMMA StartupStep ==
  ASSUME Startup
  PROVE  /\ UNCHANGED <<flashVars, loop, vtor, resp, request, acked, requests, due, printing>>
         /\ tx' = tx \/ tx' = [tx EXCEPT ![CONSOLE] = 2]
         /\ stage \notin {"main", "booting"} /\ stage' # "booting"
<1>1. CASE copy_data \/ zero_bss
  BY <1>1 DEF At, copy_data, zero_bss
<1>2. CASE watchdog_disable \/ usart_init \/ flash_init
  BY <1>2 DEF At, watchdog_disable, usart_init, flash_init
<1>3. CASE Banner \/ moon_server_init
  BY <1>3 DEF At, Banner, moon_server_init
<1> QED
  BY <1>1, <1>2, <1>3 DEF Startup

-----------------------------------------------------------------------------
(* The reply leaves before the jump *)

\* While the reply is on its way, the characters of the message that have left
\* are at most those the reply has been ahead by: both end in turn.
PhaseInv ==
  /\ tx \in [Ports -> 0 .. 2] /\ due \in Ports /\ printing \in 0 .. MESSAGE
  /\ stage # "booting" => printing = 0 /\ loop # "app"
  /\ stage \notin {"main", "booting"} => tx[TRANSPORT_USART_NO] = 0
  /\ stage = "booting" => loop \in {"boot_poll", "app"}
  /\ loop = "app" => printing = 0 /\ tx[TRANSPORT_USART_NO] = 0
  /\ stage = "booting" /\ tx[TRANSPORT_USART_NO] > 0 =>
       ((MESSAGE - printing) - tx[CONSOLE]) + tx[TRANSPORT_USART_NO]
         <= 2 + (IF due = TRANSPORT_USART_NO THEN 1 ELSE 0)

LEMMA PhaseInit == MainInit => PhaseInv
  BY MainAssumption DEF MainInit, PhaseInv

LEMMA PhaseStep == PhaseInv /\ [MainNext]_mainVars => PhaseInv'
<1> SUFFICES ASSUME PhaseInv, [MainNext]_mainVars PROVE PhaseInv'
  OBVIOUS
<1> USE MainAssumption DEF PhaseInv
<1>1. CASE Startup
  BY <1>1, StartupStep
<1>2. CASE ServerPoll
  <2>1. stage = "main" /\ UNCHANGED <<stage, tx, due, printing>>
    BY <1>2 DEF ServerPoll, lineVars
  <2>2. loop' # "app"
    BY <1>2, <2>1 DEF ServerPoll, Handler, bl_ping, bl_writePageBuffer, bl_erasePageBuffer, bl_eraseApp,
       bl_writePage, bl_setBootAction, bl_boot, Answer, NoFrame, FlashReturned, FlashStep, bootVars
  <2> QED
    BY <2>1, <2>2
<1>3. CASE ServerReply
  BY <1>3 DEF ServerReply, Reply
<1>4. CASE BootMessage
  BY <1>4 DEF BootMessage, vars, bootVars, lineVars
<1>5. CASE putchar
  BY <1>5 DEF putchar, vars, bootVars
<1>6. CASE BootPoll
  BY <1>6 DEF BootPoll, sys_boot_poll, lineVars
<1>7. ASSUME NEW p \in Ports, ShiftOut(p) PROVE PhaseInv'
  BY <1>7 DEF ShiftOut, vars, bootVars
<1>8. CASE FlashController
  BY <1>8 DEF FlashController, ControllerStep, bootVars, lineVars
<1>9. CASE BoardReset
  BY <1>9 DEF BoardReset
<1>10. CASE UNCHANGED mainVars
  BY <1>10 DEF mainVars, vars, bootVars, lineVars
<1> QED
  BY <1>1, <1>2, <1>3, <1>4, <1>5, <1>6, <1>7, <1>8, <1>9, <1>10, StepCases

\* x71_usart.c:306: however slow or fast the program is, the last byte of the
\* reply to bl_boot has left the shift register before the application starts,
\* for every message of at least five characters.
THEOREM ReplyLeaves == MainSpec => []ReplyLeavesBeforeJump
<1>1. PhaseInv => ReplyLeavesBeforeJump
  BY DEF PhaseInv, ReplyLeavesBeforeJump
<1> QED
  BY <1>1, PhaseInit, PhaseStep, PTL DEF MainSpec

-----------------------------------------------------------------------------
(* What startup leaves to the loop *)

\* Each step of startup has done its part by the next stage, and until the loop
\* begins nothing has been asked of the flash.
StartupInv ==
  /\ ~Started => /\ loop = "poll" /\ resp = 0 /\ request = NoRequest
                 /\ acked = BOOT_INVALID_ENTRY /\ vtor = FLASH_BASE_PAGE /\ fcr = NoCommand
  /\ stage \in {"bss", "watchdog", "usart", "flash", "banner", "server"} =>
       boot_entry = BOOT_INVALID_ENTRY
  /\ stage \in {"watchdog", "usart", "flash", "banner", "server"} =>
       page_buffer = Cell /\ boot_enable = FALSE
  /\ stage \notin {"data", "bss", "watchdog"} => watchdog = FALSE

LEMMA StartupInit == MainInit => StartupInv
  BY DEF MainInit, StartupInv, Started, FlashInit

\* Every step of the board, in one table: the stages it may be taken at.
LEMMA StartupInvStep == StartupInv /\ [MainNext]_mainVars => StartupInv'
<1> SUFFICES ASSUME StartupInv, [MainNext]_mainVars PROVE StartupInv'
  OBVIOUS
<1> USE DEF StartupInv, Started
<1>1. CASE Startup
  <2>1. CASE copy_data \/ zero_bss
    BY <2>1 DEF copy_data, zero_bss, At, flashVars, boardVars
  <2>2. CASE watchdog_disable
    BY <2>2 DEF watchdog_disable, At, flashVars, ramVars
  <2>3. CASE usart_init \/ flash_init
    BY <2>3 DEF usart_init, flash_init, At, flashVars, ramVars
  <2>4. CASE Banner \/ moon_server_init
    BY <2>4 DEF Banner, moon_server_init, At, flashVars, ramVars, boardVars
  <2> QED
    BY <1>1, <2>1, <2>2, <2>3, <2>4 DEF Startup
<1>2. CASE ServerPoll \/ ServerReply
  BY <1>2 DEF ServerPoll, ServerReply, boardVars
<1>3. CASE BootMessage
  BY <1>3 DEF BootMessage, boardVars
<1>4. CASE putchar \/ \E p \in Ports : ShiftOut(p)
  BY <1>4 DEF putchar, ShiftOut, vars, flashVars, bootVars, boardVars
<1>5. CASE BootPoll
  BY <1>5 DEF BootPoll, boardVars
<1>6. CASE FlashController
  BY <1>6 DEF FlashController, ControllerStep, bootVars, boardVars, Controller, Complete,
     CommandError, LockError, FlashError, Finish
<1>7. CASE BoardReset
  BY <1>7 DEF BoardReset, FlashReset
<1>8. CASE UNCHANGED mainVars
  BY <1>8 DEF mainVars, vars, flashVars, bootVars, boardVars
<1> QED
  BY <1>1, <1>2, <1>3, <1>4, <1>5, <1>6, <1>7, <1>8, StepCases

\* main.c:20: from the moment a request can be handled the watchdog is off, so
\* that it cuts no command short.
THEOREM NoCommandUnderWatchdog == MainSpec => []CommandsUninterrupted
<1>1. StartupInv => CommandsUninterrupted
  BY DEF StartupInv, Started, CommandsUninterrupted
<1> QED
  BY <1>1, StartupInit, StartupInvStep, PTL DEF MainSpec

-----------------------------------------------------------------------------
(* Types *)

BoardType ==
  /\ stage \in {"data", "bss", "watchdog", "usart", "flash", "banner", "server", "main", "booting"}
  /\ watchdog \in BOOLEAN /\ flash_clock \in BOOLEAN
  /\ usart \in [Ports -> SUBSET Working]

\* Every step keeps the types of what startup sets up.
LEMMA BoardTypeStep == BoardType /\ [MainNext]_mainVars => BoardType'
<1> SUFFICES ASSUME BoardType, [MainNext]_mainVars PROVE BoardType'
  OBVIOUS
<1> USE DEF BoardType
<1>1. CASE Startup
  <2>1. CASE usart_init
    <3>1. \A p \in Ports : usart_init_one(usart[p]) \in SUBSET Working
      BY DEF usart_init_one, usart_hw_init, Working
    <3> QED
      BY <2>1, <3>1 DEF usart_init, At
  <2>2. CASE copy_data \/ zero_bss \/ watchdog_disable
    BY <2>2 DEF copy_data, zero_bss, watchdog_disable, At, boardVars
  <2>3. CASE flash_init \/ Banner \/ moon_server_init
    BY <2>3 DEF flash_init, Banner, moon_server_init, At, boardVars
  <2> QED
    BY <1>1, <2>1, <2>2, <2>3 DEF Startup
<1>2. CASE ServerPoll \/ ServerReply \/ BootMessage
  BY <1>2 DEF ServerPoll, ServerReply, BootMessage, boardVars
<1>3. CASE putchar \/ BootPoll \/ \E p \in Ports : ShiftOut(p)
  BY <1>3 DEF putchar, BootPoll, ShiftOut, boardVars
<1>4. CASE FlashController \/ UNCHANGED mainVars
  BY <1>4 DEF FlashController, mainVars, boardVars
<1>5. CASE BoardReset
  BY <1>5 DEF BoardReset
<1> QED
  BY <1>1, <1>2, <1>3, <1>4, <1>5, StepCases

\* Startup may run on any RAM: the loop's invariant begins with the loop.
LoopInv == TypeOK /\ (Started => BootInv)

LEMMA LoopInvInit == MainInit => LoopInv
<1> SUFFICES ASSUME MainInit PROVE LoopInv
  OBVIOUS
<1>1. FlashTypeOK
  BY TypeInit DEF MainInit
<1> QED
  BY <1>1 DEF MainInit, LoopInv, TypeOK, Started

\* A step of the loop is one of Bootloader; startup ends where its Init begins.
LEMMA LoopInvStep == StartupInv /\ LoopInv /\ [MainNext]_mainVars => LoopInv'
<1> SUFFICES ASSUME StartupInv, LoopInv, [MainNext]_mainVars PROVE LoopInv'
  OBVIOUS
<1> USE DEF LoopInv
<1>1. ASSUME Started, [Next]_vars PROVE LoopInv'
  BY <1>1, ServiceTypeStep, BootStep
<1>2. ASSUME UNCHANGED <<vars, Started>> PROVE LoopInv'
  BY <1>2 DEF vars, flashVars, bootVars, TypeOK, FlashTypeOK, BootInv, SelectionPending
<1>3. CASE Startup
  <2>1. UNCHANGED <<flashVars, loop, vtor, resp, request, acked, requests>>
    BY <1>3, StartupStep
  <2>2. FlashTypeOK'
    BY <2>1 DEF flashVars, TypeOK, FlashTypeOK
  <2>3. CASE copy_data \/ zero_bss
    BY <2>1, <2>2, <2>3 DEF copy_data, zero_bss, At, Started, TypeOK, Content
  <2>4. CASE watchdog_disable \/ usart_init
    BY <2>1, <2>2, <2>4 DEF watchdog_disable, usart_init, At, ramVars, Started, TypeOK
  <2>5. CASE flash_init \/ Banner
    BY <2>1, <2>2, <2>5 DEF flash_init, Banner, At, ramVars, Started, TypeOK
  <2>6. CASE moon_server_init
    BY <2>1, <2>2, <2>6 DEF moon_server_init, At, ramVars, Started, StartupInv, TypeOK, BootInv,
       SelectionPending, NoRequest
  <2> QED
    BY <1>3, <2>3, <2>4, <2>5, <2>6 DEF Startup
<1>4. CASE ServerPoll \/ ServerReply \/ BootPoll
  <2>1. Started
    BY <1>4 DEF ServerPoll, ServerReply, BootPoll, Started
  <2>2. Next
    BY <1>4 DEF ServerPoll, ServerReply, BootPoll, Next, LoopStep
  <2> QED
    BY <1>1, <2>1, <2>2
<1>5. CASE BootMessage \/ putchar \/ \E p \in Ports : ShiftOut(p)
  BY <1>2, <1>5 DEF BootMessage, putchar, ShiftOut, Started
<1>6. CASE FlashController
  <2>1. Started
    BY <1>6 DEF FlashController, ControllerStep, Controller, Complete, CommandError, LockError,
       FlashError, Finish, StartupInv
  <2> QED
    BY <1>1, <1>6, <2>1 DEF FlashController, Next
<1>7. CASE BoardReset
  <2>1. FlashTypeOK'
    BY <1>7, TypeStep DEF BoardReset, FlashNext, TypeOK
  <2> QED
    BY <1>7, <2>1 DEF BoardReset, Started, ramVars, TypeOK
<1>8. CASE UNCHANGED mainVars
  BY <1>2, <1>8 DEF mainVars, Started
<1> QED
  BY <1>3, <1>4, <1>5, <1>6, <1>7, <1>8, StepCases

\* For every state of RAM at power-up and every length of the message: TXRDY
\* keeps the transmitters at two characters, and startup keeps to its types.
THEOREM MainTypeCorrect == MainSpec => []MainTypeOK
<1>1. MainInit => BoardType
  BY DEF MainInit, BoardType
<1>2. BoardType /\ PhaseInv /\ LoopInv => MainTypeOK
  BY DEF BoardType, PhaseInv, LoopInv, MainTypeOK
<1> QED
  BY <1>1, <1>2, StartupInit, StartupInvStep, PhaseInit, PhaseStep, BoardTypeStep, LoopInvInit, LoopInvStep,
     PTL DEF MainSpec

-----------------------------------------------------------------------------
(* Bootloader's reset is what a reset and the startup come to *)

\* The driver and the controller know nothing of what is mapped: Base has them
\* as they are.
LEMMA SameGeometry ==
  /\ Base!Partitions = Partitions /\ Base!Page = Page /\ Base!Content = Content
  /\ \A id : Base!PartitionStart(id) = PartitionStart(id) /\ Base!PartitionEnd(id) = PartitionEnd(id)
  /\ \A p : Base!InDevice(p) <=> InDevice(p)
  BY DEF Partitions, Base!Partitions, Page, Base!Page, Content, Base!Content, PartitionStart, Base!PartitionStart,
     PartitionEnd, Base!PartitionEnd, InDevice, Base!InDevice, APP_1, APP_2, BOOTLOADER,
     Base!APP_1, Base!APP_2, Base!BOOTLOADER

LEMMA SameCalls ==
  /\ \A id : Base!EraseCall(id) <=> EraseCall(id)
  /\ \A id, buf, n : Base!WriteCall(id, buf, n) <=> WriteCall(id, buf, n)
  BY SameGeometry DEF EraseCall, Base!EraseCall, WriteCall, Base!WriteCall, Calls, Base!Calls,
     Return, Base!Return, controller, Base!controller

LEMMA SameDriver == (Base!DriverStep <=> DriverStep) /\ (Base!Returned <=> Returned)
<1> USE DEF Return, Base!Return, controller, Base!controller, history, Base!history,
            Ready, Base!Ready, Result, Base!Result, ERRORS, Base!ERRORS
<1>1. Base!EraseIssue <=> EraseIssue
  BY DEF EraseIssue, Base!EraseIssue, EpaArg, Base!EpaArg
<1>2. Base!EraseCheck <=> EraseCheck
  BY SameGeometry DEF EraseCheck, Base!EraseCheck, NextBlock, Base!NextBlock, InPartition, Base!InPartition
<1>3. Base!WriteIssue <=> WriteIssue
  BY SameGeometry DEF WriteIssue, Base!WriteIssue, WritePageArg, Base!WritePageArg
<1>4. Base!WriteCheck <=> WriteCheck
  BY DEF WriteCheck, Base!WriteCheck
<1>5. Base!Returned <=> Returned
  BY DEF Returned, Base!Returned, NoCall, Base!NoCall
<1> QED
  BY <1>1, <1>2, <1>3, <1>4, <1>5 DEF DriverStep, Base!DriverStep

LEMMA SameController ==
  (Base!Controller <=> Controller) /\ (Base!FlashReset <=> FlashReset) /\ (Base!FlashInit <=> FlashInit)
<1>1. /\ \A c : Base!Targets(c) = Targets(c)
      /\ Base!NoCommand = NoCommand /\ Base!NoCall = NoCall
  BY DEF Targets, Base!Targets, EpaStart, Base!EpaStart, NoCommand, Base!NoCommand, NoCall, Base!NoCall
<1>2. (Base!Addressable <=> Addressable) /\ (\A status : Base!Finish(status) <=> Finish(status))
  BY <1>1, SameGeometry DEF Addressable, Base!Addressable, Finish, Base!Finish,
     driver, Base!driver, history, Base!history
<1>3. \A target, junk : Base!Overwritten(target, junk) = Overwritten(target, junk)
  BY SameGeometry DEF Overwritten, Base!Overwritten
<1>4. \A target : Base!Programmed(target) = Programmed(target)
  BY SameGeometry DEF Programmed, Base!Programmed
<1>5. Base!Complete <=> Complete
  BY <1>1, <1>2, <1>3, <1>4 DEF Complete, Base!Complete
<1>6. (Base!CommandError <=> CommandError) /\ (Base!LockError <=> LockError)
  BY <1>2 DEF CommandError, Base!CommandError, LockError, Base!LockError
<1>7. Base!FlashError <=> FlashError
  BY <1>1, <1>2, <1>3, SameGeometry DEF FlashError, Base!FlashError
<1>8. Base!FlashReset <=> FlashReset
  BY <1>1, <1>2, <1>3, SameGeometry DEF FlashReset, Base!FlashReset, APP_1, Base!APP_1
<1>9. Base!FlashInit <=> FlashInit
  BY <1>1 DEF FlashInit, Base!FlashInit, APP_1, Base!APP_1
<1> QED
  BY <1>5, <1>6, <1>7, <1>8, <1>9 DEF Controller, Base!Controller

\* A handler of the loop is the same handler on the state Bootloader sees.
LEMMA BaseHandler == Started /\ Started' /\ Handler => Base!Handler
<1> SUFFICES ASSUME Started, Started', Handler PROVE Base!Handler
  OBVIOUS
<1> USE DEF Request, Base!Request, Answer, Base!Answer, flashVars, Base!flashVars, serviceVars, Base!serviceVars
<1>1. CASE bl_ping
  BY <1>1 DEF bl_ping, Base!bl_ping, Base!Handler
<1>2. ASSUME NEW c \in AskedChunks, bl_writePageBuffer(c) PROVE Base!bl_writePageBuffer(c)
  BY <1>2 DEF bl_writePageBuffer, Base!bl_writePageBuffer
<1>3. CASE bl_erasePageBuffer
  BY <1>3 DEF bl_erasePageBuffer, Base!bl_erasePageBuffer, Base!Handler
<1>4. ASSUME NEW id \in AskedIds, bl_eraseApp(id) PROVE Base!bl_eraseApp(id)
  BY <1>4, SameCalls DEF bl_eraseApp, Base!bl_eraseApp
<1>5. ASSUME NEW id \in AskedIds, NEW n \in AskedPages, NEW crc \in AskedCrcs, bl_writePage(id, n, crc)
      PROVE  Base!bl_writePage(id, n, crc)
  BY <1>5, SameCalls DEF bl_writePage, Base!bl_writePage
<1>6. ASSUME NEW action \in AskedActions, bl_setBootAction(action) PROVE Base!bl_setBootAction(action)
  <2>1. Base!ActionPartition(action) = ActionPartition(action)
    BY DEF ActionPartition, Base!ActionPartition, APP_1, APP_2, BOOTLOADER, Base!APP_1, Base!APP_2, Base!BOOTLOADER,
       Base!BOOT_APP_1, Base!BOOT_APP_2
  <2> QED
    BY <1>6, <2>1, SameGeometry DEF bl_setBootAction, Base!bl_setBootAction,
       Base!BOOT_APP_1, Base!BOOT_APP_2, Base!BOOT_BOOTLOADER
<1>7. CASE bl_boot
  BY <1>7 DEF bl_boot, Base!bl_boot, Base!BOOT_INVALID_ENTRY, Base!Handler
<1> QED
  BY <1>1, <1>2, <1>3, <1>4, <1>5, <1>6, <1>7 DEF Handler, Base!Handler

\* A step of the board is a step of Bootloader or, in startup, on the line and
\* while it prints, none: each moves only what Bootloader does not have.
LEMMA BaseStep == StartupInv /\ [MainNext]_mainVars => [Base!Next]_(Base!vars)
<1> SUFFICES ASSUME StartupInv, [MainNext]_mainVars PROVE [Base!Next]_(Base!vars)
  OBVIOUS
<1> USE DEF flashVars, Base!flashVars, bootVars, Base!bootVars, vars, Base!vars, serviceVars, Base!serviceVars
<1>1. CASE Startup
  <2> USE DEF Started, ramVars
  <2>1. CASE copy_data \/ zero_bss
    BY <2>1 DEF copy_data, zero_bss, At
  <2>2. CASE watchdog_disable \/ usart_init \/ flash_init
    BY <2>2 DEF watchdog_disable, usart_init, flash_init, At
  <2>3. CASE Banner
    BY <2>3 DEF Banner, At
  <2>4. CASE moon_server_init
    BY <2>4 DEF moon_server_init, At, StartupInv
  <2> QED
    BY <1>1, <2>1, <2>2, <2>3, <2>4 DEF Startup
<1>2. CASE ServerPoll
  <2>1. Started /\ Started'
    BY <1>2 DEF ServerPoll, Started
  <2>2. CASE Handler
    BY <2>1, <2>2, BaseHandler DEF Base!Next
  <2>3. CASE NoFrame
    BY <2>1, <2>3 DEF NoFrame, Base!NoFrame, Base!Next
  <2>4. CASE FlashReturned
    BY <2>1, <2>4, SameDriver DEF FlashReturned, Base!FlashReturned, Answer, Base!Answer, Base!LoopStep, Base!Next
  <2>5. CASE FlashStep
    BY <2>1, <2>5, SameDriver DEF FlashStep, Base!FlashStep, Base!LoopStep, Base!Next
  <2> QED
    BY <1>2, <2>2, <2>3, <2>4, <2>5 DEF ServerPoll
<1>3. CASE ServerReply
  BY <1>3 DEF ServerReply, Started, Reply, Base!Reply, NoRequest, Base!NoRequest, Base!LoopStep, Base!Next
<1>4. CASE BootMessage \/ putchar \/ \E p \in Ports : ShiftOut(p)
  BY <1>4 DEF BootMessage, putchar, ShiftOut, Started
<1>5. CASE BootPoll
  BY <1>5 DEF BootPoll, Started, sys_boot_poll, Base!sys_boot_poll, Base!LoopStep, Base!Next
<1>6. CASE FlashController
  BY <1>6, SameController DEF FlashController, Started, ControllerStep, Base!ControllerStep, Base!Next
<1>7. CASE BoardReset
  BY <1>7, SameController DEF BoardReset, Started, Base!Reset, Base!BOOT_INVALID_ENTRY, NoRequest, Base!NoRequest,
     Base!Next
<1>8. CASE UNCHANGED mainVars
  BY <1>8 DEF mainVars, Started
<1> QED
  BY <1>1, <1>2, <1>3, <1>4, <1>5, <1>6, <1>7, <1>8, StepCases

\* vector.c:66 to 73: whatever RAM holds at a reset and however startup goes on,
\* what the loop does is a behaviour of Bootloader, whose theorems hold of it.
THEOREM MainImplementsBootloader == MainSpec => ImplementsBootloader
<1>1. MainInit => Base!Init
  BY SameController DEF MainInit, Base!Init, Started, Base!BOOT_INVALID_ENTRY, NoRequest, Base!NoRequest
<1> QED
  BY <1>1, StartupInit, StartupInvStep, BaseStep, PTL DEF MainSpec, ImplementsBootloader, Base!Spec

-----------------------------------------------------------------------------
(* The store, from power-up on *)

\* Every step of the board is one of the flash driver or leaves it alone.
LEMMA FlashOfMain == TypeOK /\ [MainNext]_mainVars => [FlashNext]_flashVars
<1> SUFFICES ASSUME TypeOK, [MainNext]_mainVars PROVE [FlashNext]_flashVars
  OBVIOUS
<1>1. ASSUME [Next]_vars PROVE [FlashNext]_flashVars
  BY <1>1, FlashOfStep DEF TypeOK, BufferType
<1>2. CASE Startup
  BY <1>2, StartupStep
<1>3. CASE ServerPoll \/ ServerReply \/ BootPoll \/ FlashController
  BY <1>1, <1>3 DEF ServerPoll, ServerReply, BootPoll, FlashController, Next, LoopStep
<1>4. CASE BootMessage \/ putchar \/ (\E p \in Ports : ShiftOut(p)) \/ UNCHANGED mainVars
  BY <1>4 DEF BootMessage, putchar, ShiftOut, mainVars, vars
<1>5. CASE BoardReset
  BY <1>5 DEF BoardReset, FlashNext
<1> QED
  BY <1>2, <1>3, <1>4, <1>5, StepCases

\* The flash is at rest and its call the request's in startup as in the loop.
LEMMA RestOfMain ==
  StartupInv /\ FlashInv /\ FlashInv' /\ FlashAtRest /\ CallOfRequest /\ [MainNext]_mainVars =>
    FlashAtRest' /\ CallOfRequest'
<1> SUFFICES ASSUME StartupInv, FlashInv, FlashInv', FlashAtRest, CallOfRequest, [MainNext]_mainVars
             PROVE  FlashAtRest' /\ CallOfRequest'
  OBVIOUS
<1>1. ASSUME [Next]_vars PROVE FlashAtRest' /\ CallOfRequest'
  BY <1>1, RestStep, CallStep
<1>2. CASE Startup
  <2>1. UNCHANGED <<flashVars, loop>> /\ loop = "poll"
    BY <1>2, StartupStep DEF StartupInv, Started
  <2> QED
    BY <2>1 DEF flashVars, FlashAtRest, CallOfRequest
<1>3. CASE ServerPoll \/ ServerReply \/ BootPoll \/ FlashController
  BY <1>1, <1>3 DEF ServerPoll, ServerReply, BootPoll, FlashController, Next, LoopStep
<1>4. CASE BootMessage \/ putchar \/ (\E p \in Ports : ShiftOut(p)) \/ UNCHANGED mainVars
  BY <1>1, <1>4 DEF BootMessage, putchar, ShiftOut, mainVars
<1>5. CASE BoardReset
  BY <1>5 DEF BoardReset, FlashReset, FlashAtRest, CallOfRequest
<1> QED
  BY <1>2, <1>3, <1>4, <1>5, StepCases

\* A step of the board is a step of Store or none: startup sets the buffer.
LEMMA FilesOfMain ==
  ASSUME SERIES = "RH71", EPA_FIELD = "page", STORE_FAULTS,
         StartupInv, FilesInv, FilesInv', [MainNext]_mainVars
  PROVE  [Files!Next]_(Files!storeVars)
<1>1. ASSUME [Next]_vars PROVE [Files!Next]_(Files!storeVars)
  BY <1>1, FilesStep
<1>2. CASE Startup
  <2>1. UNCHANGED <<flashVars, loop, resp, request>> /\ loop = "poll"
    BY <1>2, StartupStep DEF StartupInv, Started
  <2>2. page_buffer' \in Content
    BY DEF FilesInv, TypeOK
  <2> QED
    BY <2>1, <2>2 DEF flashVars, Files!Idle, Files!Load, Files!Next
<1>3. CASE ServerPoll \/ ServerReply \/ BootPoll \/ FlashController
  BY <1>1, <1>3 DEF ServerPoll, ServerReply, BootPoll, FlashController, Next, LoopStep
<1>4. CASE BootMessage \/ putchar \/ (\E p \in Ports : ShiftOut(p)) \/ UNCHANGED mainVars
  BY <1>1, <1>4 DEF BootMessage, putchar, ShiftOut, mainVars
<1>5. CASE BoardReset
  BY <1>5, FilesReset DEF BoardReset, Files!Next
<1> QED
  BY <1>2, <1>3, <1>4, <1>5, StepCases

\* From power-up with any RAM, through every reset and startup, the RH71's
\* bootloader implements Store.
THEOREM MainImplementsStore ==
  ASSUME SERIES = "RH71", EPA_FIELD = "page", STORE_FAULTS PROVE MainSpec => ImplementsStore
<1>1. MainInit => Files!Init
  BY InputAssumption DEF MainInit, FlashInit, Files!Init
<1>2. MainInit => FlashInit /\ FlashAtRest /\ CallOfRequest
  BY DEF MainInit, FlashInit, FlashAtRest, CallOfRequest
<1>3. MainSpec => []StartupInv /\ []LoopInv
  BY StartupInit, StartupInvStep, LoopInvInit, LoopInvStep, PTL DEF MainSpec
<1>4. StartupInv /\ LoopInv /\ FlashInv /\ EraseInv /\ WriteInv /\ FlashAtRest /\ CallOfRequest => FilesInv
  BY DEF FilesInv, StartupInv, LoopInv, BootInv
<1>5. StartupInv /\ FilesInv /\ FilesInv' /\ [MainNext]_mainVars => [Files!Next]_(Files!storeVars)
  BY FilesOfMain
<1>6. LoopInv => TypeOK
  BY DEF LoopInv
<1>7. MainSpec => FlashSpec
  BY <1>2, <1>3, <1>6, FlashOfMain, PTL DEF MainSpec, FlashSpec
<1>8. MainSpec => [](FlashInv /\ EraseInv /\ WriteInv)
  BY <1>7, FlashInvariant, EraseInvariant, WriteInvariant, PTL
<1>9. MainSpec => [](FlashAtRest /\ CallOfRequest)
  BY <1>2, <1>3, <1>8, RestOfMain, PTL DEF MainSpec
<1>10. MainSpec => []FilesInv
  BY <1>3, <1>4, <1>8, <1>9, PTL
<1> QED
  BY <1>1, <1>3, <1>5, <1>10, PTL DEF MainSpec, ImplementsStore, Files!Spec
=============================================================================
