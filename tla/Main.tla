-------------------------------- MODULE Main --------------------------------
(***************************************************************************)
(* The bootloader from a reset to the jump: reset_handler (vector.c) and   *)
(* main (main.c) bring up a processor whose RAM holds whatever it held     *)
(* before, and then run the loop of Bootloader over the USARTs.  A reset   *)
(* of that module is the whole of it: here it is the first of the steps    *)
(* that follow, and that the sum of them comes to the same is a property.  *)
(*                                                                         *)
(* A transmitter holds two characters, one in the shift register and one   *)
(* in the holding register, and usart_write returns when its last one is   *)
(* in the holding register.                                                *)
(***************************************************************************)
EXTENDS Bootloader

CONSTANT MESSAGE    \* characters of "Booting from $%08x\n\r" (24)

ASSUME MainAssumption == MESSAGE \in Nat /\ MESSAGE >= 5

CONSOLE == 0
TRANSPORT_USART_NO == 1
Ports == {0, 1}
Other(p) == 1 - p
USART_N_PERIPH == 10

VARIABLES
  stage,        \* the part of reset_handler or main that is next
  watchdog,     \* the watchdog counts
  flash_clock,  \* the clock of the RH71's flash controller is on
  usart,        \* what has been set up of each USART
  tx,           \* characters in each transmitter
  due,          \* when both transmit: the one whose character ends first
  printing      \* characters of the message still to be written

boardVars == <<watchdog, flash_clock, usart>>
lineVars == <<tx, due>>
mainVars == <<vars, stage, boardVars, lineVars, printing>>

\* RAM keeps its contents over a reset.
ramVars == <<page_buffer, boot_entry, boot_enable>>

Working == {"pins", "clock", "enabled"}

-----------------------------------------------------------------------------
(* reset_handler, and main before its loop *)

At(here, next) ==
  /\ stage = here
  /\ stage' = next
  /\ UNCHANGED <<flashVars, loop, vtor, resp, request, acked, requests, due, printing>>

\* .data is copied from the flash.  The partition structs (flash.c:39-47) and the
\* USART configurations (x71_usart.c:65-93) are there too, but nothing assigns to
\* them: boot_entry_g is the variable of it that changes.
copy_data ==
  /\ At("data", "bss")
  /\ boot_entry' = BOOT_INVALID_ENTRY
  /\ UNCHANGED <<page_buffer, boot_enable, boardVars, tx>>

\* Mutant: .bss left as the reset found it.
zero_bssForgotten ==
  /\ At("bss", "watchdog")
  /\ UNCHANGED <<ramVars, boardVars, tx>>

\* The page buffer is all zeros, not erased.
zero_bss ==
  /\ At("bss", "watchdog")
  /\ page_buffer' = Cell
  /\ boot_enable' = FALSE
  /\ UNCHANGED <<boot_entry, boardVars, tx>>

\* Mutant: another bit of WDT_MR set.
watchdog_disableOtherBit ==
  /\ At("watchdog", "usart")
  /\ UNCHANGED <<ramVars, boardVars, tx>>

watchdog_disable ==
  /\ At("watchdog", "usart")
  /\ watchdog' = FALSE
  /\ UNCHANGED <<ramVars, flash_clock, usart, tx>>

usart_hw_init(set_up) == set_up \cup {"pins", "clock"}
usart_init_one(set_up) == usart_hw_init(set_up) \cup {"enabled"}

\* Mutant: the loop over the USARTs begins with the second.
usart_initFromOne ==
  /\ At("usart", "flash")
  /\ usart' = [p \in Ports |-> IF p \in 1 .. USART_N_PERIPH - 1 THEN usart_init_one(usart[p])
                               ELSE usart[p]]
  /\ UNCHANGED <<ramVars, watchdog, flash_clock, tx>>

\* Numbers without a USART are skipped.
usart_init ==
  /\ At("usart", "flash")
  /\ usart' = [p \in Ports |-> IF p \in 0 .. USART_N_PERIPH - 1 THEN usart_init_one(usart[p])
                               ELSE usart[p]]
  /\ UNCHANGED <<ramVars, watchdog, flash_clock, tx>>

\* The V71's controller needs no clock of its own.
flash_init ==
  /\ At("flash", "banner")
  /\ flash_clock' = (SERIES = "RH71")
  /\ UNCHANGED <<ramVars, watchdog, usart, tx>>

\* A transmitter that is not enabled is never ready.
Transmits(p) == usart[p] = Working

\* The last characters of the banner are left to the transmitter.
Banner ==
  /\ At("banner", "server")
  /\ Transmits(CONSOLE)
  /\ tx' = [tx EXCEPT ![CONSOLE] = 2]
  /\ UNCHANGED <<ramVars, boardVars>>

\* The decoder and the message buffer are those of Link and MoonServer.
moon_server_init ==
  /\ At("server", "main")
  /\ UNCHANGED <<ramVars, boardVars, tx>>

Startup ==
  \/ copy_data \/ zero_bss
  \/ watchdog_disable \/ usart_init \/ flash_init \/ Banner \/ moon_server_init

-----------------------------------------------------------------------------
(* The loop of main *)

\* A request takes longer to arrive than two characters take to leave: no frame
\* is complete before the transmitters are empty.
ServerPoll ==
  /\ stage = "main"
  /\ usart[TRANSPORT_USART_NO] = Working
  /\ \/ Handler /\ \A p \in Ports : tx[p] = 0
     \/ NoFrame \/ FlashReturned \/ FlashStep
  /\ UNCHANGED <<stage, boardVars, lineVars, printing>>

\* moon_transport_write leaves the last of the frame to the transmitter.
ServerReply ==
  /\ stage = "main"
  /\ Reply
  /\ Transmits(TRANSPORT_USART_NO)
  /\ tx' = [tx EXCEPT ![TRANSPORT_USART_NO] = 2]
  /\ UNCHANGED <<stage, boardVars, due, printing>>

\* Mutant: nothing printed.
BootMessageSilent ==
  /\ stage = "main" /\ loop = "boot_poll" /\ boot_enable
  /\ stage' = "booting"
  /\ UNCHANGED <<vars, boardVars, lineVars, printing>>

\* sys_boot_poll prints where it boots from.
BootMessage ==
  /\ stage = "main" /\ loop = "boot_poll" /\ boot_enable
  /\ stage' = "booting" /\ printing' = MESSAGE
  /\ UNCHANGED <<vars, boardVars, lineVars>>

\* usart_write of one character: it waits for TXRDY.  The character that starts
\* now ends after the one the other transmitter is at.
putchar ==
  /\ printing > 0
  /\ Transmits(CONSOLE) /\ tx[CONSOLE] < 2
  /\ tx' = [tx EXCEPT ![CONSOLE] = @ + 1]
  /\ due' = IF tx[CONSOLE] = 0 THEN TRANSPORT_USART_NO ELSE due
  /\ printing' = printing - 1
  /\ UNCHANGED <<vars, stage, boardVars>>

BootPoll ==
  /\ IF boot_enable THEN stage = "booting" /\ printing = 0 ELSE stage = "main"
  /\ sys_boot_poll
  /\ UNCHANGED <<stage, boardVars, lineVars, printing>>

MainLoop == ServerReply \/ BootMessage \/ putchar \/ BootPoll

-----------------------------------------------------------------------------
(* The board (external) *)

\* A character leaves the shift register, and the next takes its place.  Both
\* USARTs run at USART_FIXED_BAUD: while both transmit their characters end in
\* turn.
ShiftOut(p) ==
  /\ tx[p] > 0
  /\ tx[Other(p)] = 0 \/ due = p
  /\ tx' = [tx EXCEPT ![p] = @ - 1]
  /\ due' = IF tx[Other(p)] = 0 THEN CONSOLE ELSE Other(p)
  /\ UNCHANGED <<vars, stage, boardVars, printing>>

Shift == \E p \in Ports : ShiftOut(p)

\* rh71_flash.c:209: no command without the clock.
FlashController ==
  /\ flash_clock \/ SERIES = "V71"
  /\ ControllerStep
  /\ UNCHANGED <<stage, boardVars, lineVars, printing>>

\* The registers have their reset values; RAM is as it was.  The watchdog, a
\* reset pin and a power cut come to the same.
BoardReset ==
  /\ FlashReset
  /\ loop' = "poll" /\ resp' = 0 /\ request' = NoRequest /\ acked' = BOOT_INVALID_ENTRY
  /\ vtor' = FLASH_BASE_PAGE
  /\ stage' = "data"
  /\ watchdog' = TRUE /\ flash_clock' = FALSE
  /\ usart' = [p \in Ports |-> {}]
  /\ tx' = [p \in Ports |-> 0] /\ due' = CONSOLE
  /\ printing' = 0
  /\ UNCHANGED <<ramVars, requests>>

\* Power comes up with anything in RAM.
MainInit ==
  /\ FlashInit
  /\ loop = "poll" /\ resp = 0 /\ request = NoRequest /\ acked = BOOT_INVALID_ENTRY
  /\ requests = 0 /\ vtor = FLASH_BASE_PAGE
  /\ page_buffer \in Content
  /\ boot_entry \in {BOOT_INVALID_ENTRY} \cup {PartitionStart(id) : id \in Partitions}
  /\ boot_enable \in BOOLEAN
  /\ stage = "data"
  /\ watchdog = TRUE /\ flash_clock = FALSE
  /\ usart = [p \in Ports |-> {}]
  /\ tx = [p \in Ports |-> 0] /\ due = CONSOLE
  /\ printing = 0

Program == Startup \/ MainLoop \/ ServerPoll

MainNext == Program \/ Shift \/ FlashController \/ BoardReset

MainSpec == MainInit /\ [][MainNext]_mainVars

\* The processor runs, the transmitters shift and the controller ends every
\* command; requests and resets come when they come.
FairMain ==
  /\ MainSpec
  /\ WF_mainVars(Startup \/ MainLoop \/ (ServerPoll /\ loop = "flash"))
  /\ WF_mainVars(Shift)
  /\ WF_mainVars(FlashController)

-----------------------------------------------------------------------------
(* Properties *)

\* Types: TXRDY keeps a transmitter at two characters.
MainTypeOK ==
  /\ TypeOK
  /\ stage \in {"data", "bss", "watchdog", "usart", "flash", "banner", "server", "main", "booting"}
  /\ watchdog \in BOOLEAN /\ flash_clock \in BOOLEAN
  /\ usart \in [Ports -> SUBSET Working]
  /\ tx \in [Ports -> 0 .. 2]
  /\ due \in Ports
  /\ printing \in 0 .. MESSAGE

\* The server always comes back to its poll, unless it has started an application
\* or a store of flash_write_page faults: every reset leads to the loop, with
\* nothing printed over a USART that is not set up yet (main.c:23 to 28), every
\* request to its reply, and no wait for FRDY or TXRDY is for ever.
ServesAgain == []<>((stage = "main" /\ loop = "poll") \/ loop = "app" \/ pc = "fault")

\* main.c:20: the watchdog never cuts a flash command short.
CommandsUninterrupted == fcr # NoCommand => ~watchdog

\* x71_usart.c:306: when sys_boot_poll jumps, the last byte of the reply to
\* bl_boot has left the shift register, although nothing waits for it: the
\* message printed on the other USART takes longer.
ReplyLeavesBeforeJump == loop = "app" => tx[TRANSPORT_USART_NO] = 0

\* Bootloader takes a reset and what follows up to the loop for one step: from
\* there on nothing tells what RAM held before.
Started == stage \in {"main", "booting"}
Base == INSTANCE Bootloader WITH
  page_buffer <- IF Started THEN page_buffer ELSE Cell,
  boot_entry <- IF Started THEN boot_entry ELSE BOOT_INVALID_ENTRY,
  boot_enable <- Started /\ boot_enable

ImplementsBootloader == Base!Spec

\* With it, and with what the fairness of the board adds, BootControl: the jump
\* comes, message and all.
BootControlFromReset == Base!ImplementsBootControl
=============================================================================
