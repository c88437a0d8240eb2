-------------------------------- MODULE Rpc --------------------------------
(***************************************************************************)
(* A remote call from end to end: the generated client                     *)
(* (tools/bootloader/client.py) and its codec (moon_codec.py) pack a       *)
(* method and its arguments, the server of MoonServer unpacks them with    *)
(* its own hand-written offsets, and the client reads the reply.           *)
(*                                                                         *)
(* A call whose frame and reply both arrive is one step; what a line does  *)
(* to them is in Link and Session.  Between calls the server may get any   *)
(* other frame, whole or broken.                                           *)
(***************************************************************************)
EXTENDS MoonServer

CONSTANTS
  Calls,       \* the calls the client makes
  SEQUENCES    \* sequence numbers in use: 32, or fewer to bound a run

U16 == {n \in Nat : n <= 65535}
U32 == {n \in Nat : n \div 16777216 <= 255}

\* What a method takes; struct.pack refuses anything wider.
Calling ==
  [method : {ping, erasePageBuffer, boot}]
    \cup [method : {eraseApp}, app_id : Byte]
    \cup [method : {setBootAction}, action : Byte]
    \cup [method : {writePage}, app_id : Byte, page_no : U16, crc : U32]
    \cup [method : {writePageBuffer}, offset : U16, data : Seq(Byte)]

\* A frame holds a header of three bytes, the length, the offset and the data.
ASSUME CallsAssumption ==
  /\ SEQUENCES \in 1 .. 32
  /\ Calls \subseteq Calling
  /\ \A c \in Calls : c.method = writePageBuffer => Len(c.data) <= 255 /\ Len(c.data) + 8 <= BUFFER_LEN

VARIABLES
  sequence,   \* ClientManager._sequence
  asked,      \* history: the call the last frame was made for, or NoCall
  outcome     \* history: what perform_request and the result's read came to

rpcVars == <<vars, sequence, asked, outcome>>

-----------------------------------------------------------------------------
(* The client *)

\* struct.pack with <H and <I
PackU16(n) == <<n % 256, n \div 256>>
PackU32(n) == <<n % 256, (n \div 256) % 256, (n \div 65536) % 256, n \div 16777216>>

\* MoonCodec.start_write_message: a single normal message of protocol 0.
ClientHeader(method, q) ==
  LET word == kBootloader_service_id * 4 + (method % 64) * 128 + (q % 32) * 8192
  IN  <<word % 256, (word \div 256) % 256, (word \div 65536) % 256>>

\* Mutant: the arguments of writePage in the order of the interface.
PackPageAsDeclared(c) == <<c.app_id>> \o PackU16(c.page_no) \o PackU32(c.crc)

\* Not in the order of the interface: rearranged by hand to align them.
PackPage(c) == <<c.app_id>> \o PackU32(c.crc) \o PackU16(c.page_no)
PackChunk(c) == <<Len(c.data)>> \o PackU16(c.offset) \o c.data

PackArguments(c) ==
  CASE c.method = eraseApp -> <<c.app_id>>
    [] c.method = setBootAction -> <<c.action>>
    [] c.method = writePage -> PackPage(c)
    [] c.method = writePageBuffer -> PackChunk(c)
    [] OTHER -> <<>>

ClientFrame(c, q) == ClientHeader(c.method, q) \o PackArguments(c)

\* Mutant: the sequence number read one place short.
ClientReadsShort(r) ==
  [sequence |-> (Word(r) \div 4096) % 32,
   type     |-> (Word(r) \div 262144) % 4,
   protocol |-> (Word(r) \div 1048576) % 16]

\* MoonCodec.start_read_message: the fields perform_request looks at.
ClientReads(r) ==
  [sequence |-> (Word(r) \div 8192) % 32,
   type     |-> (Word(r) \div 262144) % 4,
   protocol |-> (Word(r) \div 1048576) % 16]

\* Every other way to end is an exception.
Outcome(c, q, r) ==
  IF /\ Version(r) = MOON_CODEC_VERSION
     /\ ClientReads(r) = [sequence |-> q, type |-> MSG_TYPE_SINGLE_NORMAL, protocol |-> MOON_PROT_OK]
     /\ c.method \notin {ping, erasePageBuffer} => 3 \in DOMAIN r
  THEN "returned"
  ELSE "raised"

\* ClientManager.sequence
NextSequence == (sequence + 1) % SEQUENCES

perform_request(c) ==
  /\ sequence' = NextSequence
  /\ moon_server_poll(ClientFrame(c, sequence'))
  /\ asked' = c
  /\ outcome' = Outcome(c, sequence', reply')

\* Frames of another client, or spoiled ones.
OtherFrame ==
  /\ Next
  /\ asked' = NoCall
  /\ outcome' = "none"
  /\ UNCHANGED sequence

RpcInit == Init /\ sequence = 0 /\ asked = NoCall /\ outcome = "none"

RpcNext == (\E c \in Calls : perform_request(c)) \/ OtherFrame

RpcSpec == RpcInit /\ [][RpcNext]_rpcVars

-----------------------------------------------------------------------------
(* Properties *)

\* The arguments a shim passes to its method, read at its own offsets.
Passed(m, b) ==
  CASE m = eraseApp -> [method |-> m, app_id |-> b[3]]
    [] m = setBootAction -> [method |-> m, action |-> b[3]]
    [] m = writePage ->
         [method  |-> m,
          app_id  |-> b[3],
          page_no |-> b[8] + 256 * b[9],
          crc     |-> b[4] + 256 * b[5] + 65536 * b[6] + 16777216 * b[7]]
    [] m = writePageBuffer ->
         [method |-> m, offset |-> b[4] + 256 * b[5], data |-> [i \in 1 .. b[3] |-> b[5 + i]]]
    [] OTHER -> [method |-> m]

\* client.py against generated/service_bootloader.c: the method runs with the
\* arguments the client was given, although both ends pack them by hand and the
\* server's buffer still holds earlier messages.
ArgumentsArrive == asked # NoCall => Passed(called.method, called.args) = asked

\* Every call that is delivered returns to its caller: the reply passes all
\* the checks of perform_request and has a result where one is read.
CallsReturn == outcome # "raised"
=============================================================================
