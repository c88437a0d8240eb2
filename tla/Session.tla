------------------------------ MODULE Session ------------------------------
(***************************************************************************)
(* A session of the command line client (tools/blcli.py): it pings, erases *)
(* the application, sends and commits the image page by page and boots it, *)
(* over the erpc client, the Moon transport and a serial line that loses   *)
(* frames and delays replies beyond the client's timeout.  The other end   *)
(* is the service of Bootloader.                                           *)
(*                                                                         *)
(* A frame is one message: what the line does to its bytes either leaves a *)
(* valid frame or none (module Sll).  The client has one request under way *)
(* and gives it up when a reply does not come in time; the reply may still *)
(* come, and nothing drains it.                                            *)
(***************************************************************************)
EXTENDS Bootloader, Sequences

CONSTANTS
  App,            \* the partition id of args.app
  Image,          \* the binary as a sequence of [size, data]: the last page may be short
  PAYLOAD_SIZE,   \* args.payload_size
  DO_BOOT,        \* args.do_boot
  SEQUENCES,      \* sequence numbers (32)
  MAX_ERRORS,     \* failures send_page puts up with for a chunk (5)
  MaxFaults       \* bound: frames lost and replies late in a behaviour

\* Padding with FF adds no programmed cell, so the CRC of the padded page is
\* that of its data.
Chunk(n, start) ==
  LET left == Image[n].size - start
      size == IF left < PAYLOAD_SIZE THEN left ELSE PAYLOAD_SIZE
  IN  [offset |-> start, data_len |-> size,
       data |-> {c \in Image[n].data : start <= c /\ c < start + size}]

ASSUME SessionAssumption ==
  /\ App \in {APP_1, APP_2} /\ App \in AskedIds
  /\ DO_BOOT \in BOOLEAN
  /\ PAYLOAD_SIZE \in Nat \ {0} /\ SEQUENCES \in Nat \ {0, 1}
  /\ MAX_ERRORS \in Nat /\ MaxFaults \in Nat
  /\ Image \in Seq([size : 1 .. CONFIG_PAGE_SIZE, data : Content]) /\ Image # <<>>
  /\ \A n \in DOMAIN Image :
       /\ n - 1 \in AskedPages
       /\ Image[n].data \subseteq 0 .. Image[n].size - 1
       /\ crc_32_page(Image[n].data) \in AskedCrcs
       /\ \A start \in 0 .. Image[n].size - 1 : Chunk(n, start) \in AskedChunks
  /\ {BOOT_APP_1, BOOT_APP_2} \subseteq AskedActions

VARIABLES
  stage,      \* the call main is at, or how it ended
  page_no,    \* the page being sent, from 1
  addr,       \* offset of the chunk being sent
  err_cnt,    \* failures of this chunk
  sequence,   \* ClientManager._sequence
  awaiting,   \* perform_request has sent and waits
  toServer,   \* requests on the line
  toClient,   \* replies on the line
  handling,   \* message_g.header of the request being handled
  sent,       \* history: requests sent
  erased,     \* history: the reply to eraseApp was 0
  faults      \* faults so far

client == <<stage, page_no, addr, err_cnt, sequence, awaiting, sent, erased>>
line == <<toServer, toClient, handling, faults>>
sessionVars == <<vars, client, line>>

Methods == {"ping", "eraseApp", "erasePageBuffer", "writePageBuffer", "writePage",
            "setBootAction", "boot"}
NoMessage == [seq |-> 0, id |-> 0]
Ended == stage \in {"done", "failed"}

-----------------------------------------------------------------------------
(* perform_request *)

\* Mutant: one bit of sequence number.
NextSequenceNarrow(s) == (s + 1) % 2
NextSequence(s) == (s + 1) % SEQUENCES

Method == IF stage = "ping_post" THEN "ping" ELSE stage

Send ==
  /\ ~Ended /\ ~awaiting
  /\ sequence' = NextSequence(sequence)
  /\ sent' = sent + 1
  /\ awaiting' = TRUE
  /\ toServer' = Append(toServer, [seq |-> sequence', id |-> sent', method |-> Method,
                                   n |-> page_no, addr |-> addr])
  /\ UNCHANGED <<vars, stage, page_no, addr, err_cnt, erased, toClient, handling, faults>>

\* What main does after a call: the next stage, page, chunk and error count.
Goto(next) == stage' = next /\ UNCHANGED <<page_no, addr, err_cnt>>

NextPage ==
  IF page_no < Len(Image)
    THEN stage' = "erasePageBuffer" /\ page_no' = page_no + 1 /\ UNCHANGED <<addr, err_cnt>>
    ELSE Goto(IF DO_BOOT THEN "setBootAction" ELSE "ping_post")

NextChunk ==
  /\ IF addr + PAYLOAD_SIZE < Image[page_no].size
       THEN addr' = addr + PAYLOAD_SIZE /\ stage' = "writePageBuffer"
       ELSE addr' = 0 /\ stage' = "writePage"
  /\ err_cnt' = 0
  /\ UNCHANGED page_no

\* Mutant: one failure more than the limit.
ChunkFailedOnceMore ==
  /\ IF err_cnt > MAX_ERRORS
       THEN stage' = "writePage" /\ err_cnt' = 0 /\ addr' = 0
       ELSE err_cnt' = err_cnt + 1 /\ UNCHANGED <<stage, addr>>
  /\ UNCHANGED page_no

\* send_page gives up after MAX_ERRORS failures beyond the first, and main
\* goes on to commit the page all the same.
ChunkFailed ==
  /\ IF err_cnt + 1 > MAX_ERRORS
       THEN stage' = "writePage" /\ err_cnt' = 0 /\ addr' = 0
       ELSE err_cnt' = err_cnt + 1 /\ UNCHANGED <<stage, addr>>
  /\ UNCHANGED page_no

\* The results of eraseApp, setBootAction and boot are not looked at.
Returns(value) ==
  CASE stage = "ping" -> Goto("eraseApp")
    [] stage = "eraseApp" -> Goto("erasePageBuffer")
    [] stage = "erasePageBuffer" -> Goto("writePageBuffer")
    [] stage = "writePageBuffer" -> IF value = 0 THEN NextChunk ELSE ChunkFailed
    [] stage = "writePage" -> IF value = 0 THEN NextPage ELSE Goto("failed")
    [] stage = "setBootAction" -> Goto("boot")
    [] OTHER -> Goto("done")

\* Mutant: a commit whose reply did not come is tried again.
RaiseAndCommitAgain ==
  CASE stage = "writePageBuffer" -> ChunkFailed
    [] stage = "writePage" -> Goto("writePage")
    [] OTHER -> Goto("failed")

\* An exception: only send_page tries again.
Raise == IF stage = "writePageBuffer" THEN ChunkFailed ELSE Goto("failed")

Receive ==
  /\ awaiting /\ toClient # <<>>
  /\ awaiting' = FALSE
  /\ toClient' = Tail(toClient)
  /\ IF Head(toClient).seq = sequence
       THEN /\ Returns(Head(toClient).value)
            /\ erased' = IF stage = "eraseApp" THEN Head(toClient).value = 0 ELSE erased
       ELSE Raise /\ UNCHANGED erased
  /\ UNCHANGED <<vars, sequence, sent, toServer, handling, faults>>

\* A reply may still come: the timeout that does not wait for it is a fault.
Answerable == loop # "app" /\ pc # "fault" /\ (toServer # <<>> \/ handling # NoMessage)

\* Mutant: receive goes on waiting when the port has timed out.
TimeoutIgnored == FALSE

Timeout ==
  /\ awaiting /\ toClient = <<>>
  /\ Answerable => faults < MaxFaults
  /\ faults' = IF Answerable THEN faults + 1 ELSE faults
  /\ awaiting' = FALSE
  /\ Raise
  /\ UNCHANGED <<vars, sequence, sent, erased, toServer, toClient, handling>>

-----------------------------------------------------------------------------
(* The service *)

\* Mutant: pages numbered from one.
HandlePagesFromOne(m) ==
  \/ m.method = "writePage" /\ bl_writePage(App, m.n, crc_32_page(Image[m.n].data))
  \/ m.method = "ping" /\ bl_ping
  \/ m.method = "eraseApp" /\ bl_eraseApp(App)
  \/ m.method = "erasePageBuffer" /\ bl_erasePageBuffer
  \/ m.method = "writePageBuffer" /\ bl_writePageBuffer(Chunk(m.n, m.addr))

Handle(m) ==
  \/ m.method = "ping" /\ bl_ping
  \/ m.method = "eraseApp" /\ bl_eraseApp(App)
  \/ m.method = "erasePageBuffer" /\ bl_erasePageBuffer
  \/ m.method = "writePageBuffer" /\ bl_writePageBuffer(Chunk(m.n, m.addr))
  \/ m.method = "writePage" /\ bl_writePage(App, m.n - 1, crc_32_page(Image[m.n].data))
  \/ m.method = "setBootAction" /\ bl_setBootAction(IF App = APP_1 THEN BOOT_APP_1 ELSE BOOT_APP_2)
  \/ m.method = "boot" /\ bl_boot

TakeRequest ==
  /\ toServer # <<>>
  /\ Handle(Head(toServer))
  /\ toServer' = Tail(toServer)
  /\ handling' = [seq |-> Head(toServer).seq, id |-> Head(toServer).id]
  /\ UNCHANGED <<client, toClient, faults>>

\* The reply carries the sequence number of the request (module MoonServer).
ServerReply ==
  /\ Reply
  /\ toClient' = Append(toClient, [seq |-> handling.seq, id |-> handling.id, value |-> resp])
  /\ handling' = NoMessage
  /\ UNCHANGED <<client, toServer, faults>>

\* A poll that finds no frame changes nothing (NoFrame) and is left out.
ServerStep ==
  /\ FlashReturned \/ FlashStep \/ sys_boot_poll
  /\ UNCHANGED <<client, line>>

HardwareStep == ControllerStep /\ UNCHANGED <<client, line>>

-----------------------------------------------------------------------------
(* The line and the device (external) *)

\* Noise spoils a frame; a frame that comes while a handler runs or its reply
\* goes out overruns the one byte the receiver holds.
Busy == loop \in {"flash", "reply"}

LoseRequest ==
  /\ ~Ended /\ toServer # <<>>
  /\ Busy \/ faults < MaxFaults
  /\ faults' = IF Busy THEN faults ELSE faults + 1
  /\ toServer' = Tail(toServer)
  /\ UNCHANGED <<vars, client, toClient, handling>>

LoseReply ==
  /\ ~Ended /\ toClient # <<>> /\ faults < MaxFaults
  /\ faults' = faults + 1
  /\ toClient' = Tail(toClient)
  /\ UNCHANGED <<vars, client, toServer, handling>>

\* Resets are of interest while the session lasts.
DeviceReset ==
  /\ ~Ended
  /\ Reset
  /\ handling' = NoMessage
  /\ UNCHANGED <<client, toServer, toClient, faults>>

-----------------------------------------------------------------------------

SessionInit ==
  /\ Init
  /\ stage = "ping" /\ page_no = 1 /\ addr = 0 /\ err_cnt = 0
  /\ sequence = 0 /\ awaiting = FALSE
  /\ toServer = <<>> /\ toClient = <<>> /\ handling = NoMessage
  /\ sent = 0 /\ erased = FALSE /\ faults = 0

ClientStep == Send \/ Receive \/ Timeout

DeviceStep == TakeRequest \/ ServerReply \/ ServerStep

SessionNext ==
  ClientStep \/ DeviceStep \/ HardwareStep \/ LoseRequest \/ LoseReply \/ DeviceReset

SessionSpec == SessionInit /\ [][SessionNext]_sessionVars

\* Both programs run, the controller ends its commands, and the serial port
\* times out when nothing comes.
FairSession ==
  SessionSpec /\ WF_sessionVars(ClientStep) /\ WF_sessionVars(DeviceStep) /\ WF_sessionVars(HardwareStep)

-----------------------------------------------------------------------------
(* Properties *)

RequestMessage ==
  {m \in [seq : 0 .. SEQUENCES - 1, id : Nat, method : Methods, n : DOMAIN Image, addr : Nat] :
     m.addr < Image[m.n].size}
ReplyMessage == [seq : 0 .. SEQUENCES - 1, id : Nat, value : {0, -1, -2, -3, -5, -9}]

\* Types: the client's counters stay within the image, and what is on the line
\* are messages.
SessionTypeOK ==
  /\ stage \in Methods \cup {"ping_post", "done", "failed"}
  /\ page_no \in DOMAIN Image
  /\ addr \in 0 .. Image[page_no].size - 1
  /\ stage # "writePageBuffer" => addr = 0
  /\ err_cnt \in 0 .. MAX_ERRORS
  /\ sequence \in 0 .. SEQUENCES - 1
  /\ awaiting \in BOOLEAN /\ erased \in BOOLEAN
  /\ sent \in Nat /\ faults \in 0 .. MaxFaults
  /\ toServer \in Seq(RequestMessage)
  /\ toClient \in Seq(ReplyMessage)
  /\ handling \in [seq : 0 .. SEQUENCES - 1, id : Nat]

\* erpc/client.py:88: a reply with the sequence number of the request under way
\* is the reply to that request, whatever replies came too late for earlier ones.
StaleReplyRecognised ==
  awaiting /\ toClient # <<>> /\ Head(toClient).seq = sequence => Head(toClient).id = sent

Written == [p \in PartitionPages(App) |->
              LET n == 1 + (FLASH_BASE_PAGE + p) - PartitionStart(App)
              IN  IF n \in DOMAIN Image THEN Image[n].data ELSE {}]

\* When main has seen every page acknowledged, and the erase did succeed, the
\* partition holds the image and nothing else: in spite of chunks sent twice or
\* given up, late replies, lost frames, and a reset of the device half way.  So
\* it is when the device starts the application, which bl_boot does not look at
\* (bootloader.c:155).
ImageIsWritten ==
  (stage \in {"setBootAction", "boot", "ping_post", "done"} \/ loop = "app") /\ erased =>
    \A p \in PartitionPages(App) : flash[p] = Written[p]

\* bootloader.c:117: after a successful erase no page is programmed twice.
ProgramsErasedPages ==
  [][fcr'.cmd = "WP" /\ fcr # fcr' /\ erased => \A p \in Targets(fcr') : flash[p] = {}]_sessionVars

\* The client always comes to an end, retries and stale replies included.
SessionEnds == <>Ended

\* blcli.py:170: main does not look at what setBootAction and boot return.  All
\* the same, when it ends well the device starts the application, unless it was
\* reset on the way.
StartsWhenDone == (stage = "done" /\ DO_BOOT /\ resets = 0) ~> loop = "app"

\* Seen from the device a session is requests the service specification admits.
ImplementsService == Spec

\* blcli.py:117 "Flash erased successfully".
ErasedAsSaid ==
  stage = "erasePageBuffer" /\ page_no = 1 /\ ~awaiting =>
    \A p \in PartitionPages(App) : flash[p] = {}
=============================================================================
