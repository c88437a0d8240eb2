----------------------------- MODULE MoonServer -----------------------------
(***************************************************************************)
(* The RPC server (moon/server.c), its codec (moon/codec.c) and the        *)
(* generated dispatch and shims (moon/generated/).  The transport hands it *)
(* decoded frames in the one buffer that requests, replies and the frame's *)
(* CRC share; it keeps the header of the last request it could read.       *)
(*                                                                         *)
(* moon_server_poll is one action: the frame is in, the method has run and *)
(* the reply is encoded when it returns.  What the methods do is in        *)
(* Bootloader; here a method is the arguments it is called with and any    *)
(* int8_t it may answer.                                                   *)
(***************************************************************************)
EXTENDS Integers, Sequences

CONSTANTS
  BUFFER_LEN,    \* bytes of the message buffer
  Frames,        \* payloads of the frames clients send
  BrokenFrames,  \* payloads the line spoils
  Answers,       \* what the methods answer, as the byte an int8_t becomes
  FrameCrcs      \* two-byte CRCs sll_encode appends to a reply

Byte == 0 .. 255
Payloads == {f \in Seq(Byte) : Len(f) <= BUFFER_LEN - 2}

ASSUME ServerAssumption ==
  /\ BUFFER_LEN \in Nat /\ BUFFER_LEN >= 12
  /\ Frames \subseteq Payloads /\ BrokenFrames \subseteq Payloads
  /\ Answers \subseteq Byte
  /\ FrameCrcs \subseteq Byte \X Byte

MOON_CODEC_VERSION == 0
MSG_TYPE_SINGLE_NORMAL == 0
MOON_PROT_OK == 0
MOON_PROT_E_NO_SERVICE == 1
MOON_PROT_E_NO_METHOD == 2

kBootloader_service_id == 1

\* _Bootloader_ids
ping == 1
writePageBuffer == 2
erasePageBuffer == 3
eraseApp == 4
writePage == 5
setBootAction == 8
boot == 9
Methods == {ping, writePageBuffer, erasePageBuffer, eraseApp, writePage, setBootAction, boot}

VARIABLES
  buffer,   \* the payload part of sll_buffer_g
  header,   \* message_g.header
  len,      \* message_g.read_len and write_len: a union
  frame,    \* history: the frame handled last
  called,   \* history: the method it called, with its argument bytes
  reply     \* history: the reply that was encoded

vars == <<buffer, header, len, frame, called, reply>>

-----------------------------------------------------------------------------
(* Codec *)

Header == [service : 0 .. 31, method : 0 .. 63, sequence : 0 .. 31, type : 0 .. 3, protocol : 0 .. 15]

\* Mutant: the sequence number shifted one place short.
HeaderWordOverlapping(h) ==
  MOON_CODEC_VERSION + h.service * 4 + h.method * 128 + h.sequence * 4096
    + h.type * 262144 + h.protocol * 1048576

\* moon_codec_write_header: the word, stored little endian in four bytes.
HeaderWord(h) ==
  MOON_CODEC_VERSION + h.service * 4 + h.method * 128 + h.sequence * 8192
    + h.type * 262144 + h.protocol * 1048576

HeaderByte(h, i) ==
  CASE i = 0 -> HeaderWord(h) % 256
    [] i = 1 -> (HeaderWord(h) \div 256) % 256
    [] i = 2 -> (HeaderWord(h) \div 65536) % 256
    [] OTHER -> 0

\* moon_codec_read_header on the first bytes of b.
Word(b) == b[0] + 256 * b[1] + 65536 * b[2]
Version(b) == Word(b) % 4

\* Mutant: the method number not masked to its six bits.
ReadHeaderUnmasked(b) ==
  [service  |-> (Word(b) \div 4) % 32,
   method   |-> Word(b) \div 128,
   sequence |-> (Word(b) \div 8192) % 32,
   type     |-> (Word(b) \div 262144) % 4,
   protocol |-> (Word(b) \div 1048576) % 16]

ReadHeader(b) ==
  [service  |-> (Word(b) \div 4) % 32,
   method   |-> (Word(b) \div 128) % 64,
   sequence |-> (Word(b) \div 8192) % 32,
   type     |-> (Word(b) \div 262144) % 4,
   protocol |-> (Word(b) \div 1048576) % 16]

-----------------------------------------------------------------------------
(* Dispatch and shims *)

\* The bytes the shim of a method reads its arguments from.
Arguments(method, b) ==
  CASE method \in {eraseApp, setBootAction} -> {3}
    [] method = writePage -> 3 .. 9
    [] method = writePageBuffer -> (3 .. 5) \cup (6 .. 5 + b[3])
    [] OTHER -> {}

NoCall == [method |-> 0, args |-> <<>>]

\* A list that runs past the buffer is read from whatever follows it.
CallOf(method, b) ==
  [method |-> method, args |-> [i \in Arguments(method, b) \cap 0 .. BUFFER_LEN - 1 |-> b[i]]]

\* The protocol field of the answer: the dispatcher's or the shim's.
Protocol(h) ==
  IF h.service # kBootloader_service_id THEN MOON_PROT_E_NO_SERVICE
  ELSE IF h.method \notin Methods THEN MOON_PROT_E_NO_METHOD
  ELSE MOON_PROT_OK

\* Methods without a result answer with a bare header, as errors do.
ReplyLength(h) ==
  IF Protocol(h) = MOON_PROT_OK /\ h.method \notin {ping, erasePageBuffer} THEN 4 ELSE 3

\* Mutant: the last byte of a frame not stored.
ReceivedShort(f) == [i \in 0 .. BUFFER_LEN - 1 |-> IF i < Len(f) - 1 THEN f[i + 1] ELSE buffer[i]]

\* The frame lies over what the buffer held.
Received(f) == [i \in 0 .. BUFFER_LEN - 1 |-> IF i < Len(f) THEN f[i + 1] ELSE buffer[i]]

\* A version mismatch leaves message_g.header as it was, and nobody looks.
Understood(f) ==
  IF Version(Received(f)) = MOON_CODEC_VERSION THEN ReadHeader(Received(f)) ELSE header

Response(h) == [h EXCEPT !.type = MSG_TYPE_SINGLE_NORMAL, !.protocol = Protocol(h)]

\* Four header bytes, then the result over the fourth; sll_encode puts its CRC
\* behind the reply.
WithReply(b, h, value, sum) ==
  LET n == ReplyLength(h)
  IN  [i \in 0 .. BUFFER_LEN - 1 |->
         IF i = n THEN sum[1]
         ELSE IF i = n + 1 THEN sum[2]
         ELSE IF i = 3 /\ n = 4 THEN value
         ELSE IF i < 4 THEN HeaderByte(Response(h), i)
         ELSE b[i]]

moon_server_poll(f) ==
  LET b == Received(f)
      h == Understood(f)
  IN  \E value \in Answers, sum \in FrameCrcs :
        /\ header' = Response(h)
        /\ len' = ReplyLength(h)
        /\ buffer' = WithReply(b, h, value, sum)
        /\ frame' = f
        /\ called' = IF Protocol(h) = MOON_PROT_OK THEN CallOf(h.method, b) ELSE NoCall
        /\ reply' = [i \in 0 .. len' - 1 |-> buffer'[i]]

\* A frame that fails its CRC, or breaks off, has been decoded into the buffer
\* all the same; the transport reports no message.
BrokenFrame(f) ==
  /\ buffer' = Received(f)
  /\ UNCHANGED <<header, len, frame, called, reply>>

-----------------------------------------------------------------------------

\* message_g and the buffer are in .bss.
Init ==
  /\ buffer = [i \in 0 .. BUFFER_LEN - 1 |-> 0]
  /\ header = [service |-> 0, method |-> 0, sequence |-> 0, type |-> 0, protocol |-> 0]
  /\ len = 0
  /\ frame = <<>>
  /\ called = NoCall
  /\ reply = [i \in {} |-> 0]

Next == (\E f \in Frames : moon_server_poll(f)) \/ (\E f \in BrokenFrames : BrokenFrame(f))

Spec == Init /\ [][Next]_vars

-----------------------------------------------------------------------------
(* Properties *)

\* Types: whatever a frame holds, the header fields keep the widths
\* moon_codec_write_header packs, and the buffer holds bytes.
TypeOK ==
  /\ buffer \in [0 .. BUFFER_LEN - 1 -> Byte]
  /\ header \in Header
  /\ len \in {0, 3, 4}
  /\ frame \in Payloads
  /\ called.method \in Methods \cup {0}
  /\ DOMAIN reply = 0 .. len - 1

\* The header and every argument byte of a request are in its frame.
At(f) == [i \in 0 .. Len(f) - 1 |-> f[i + 1]]
Readable(f) == Len(f) >= 3 /\ Version(At(f)) = MOON_CODEC_VERSION
Complete(f) ==
  /\ Readable(f)
  /\ LET h == ReadHeader(At(f))
     IN  /\ h.method = writePageBuffer => Len(f) >= 4
         /\ Arguments(h.method, At(f)) \subseteq 0 .. Len(f) - 1

\* A complete request calls the method it names with the bytes it carries,
\* whatever requests, replies and CRCs were in the buffer before.
CompleteRequestIsCalled ==
  Complete(frame) =>
    LET h == ReadHeader(At(frame))
    IN  called = IF Protocol(h) = MOON_PROT_OK THEN CallOf(h.method, At(frame)) ELSE NoCall

\* The reply to a readable request names its service, method and sequence, so
\* that the client can tell whose reply it is (erpc/client.py:88), and says
\* whether the method was there.
ReplyNamesRequest ==
  Readable(frame) =>
    LET h == ReadHeader(At(frame))
    IN  /\ DOMAIN reply = 0 .. ReplyLength(h) - 1
        /\ Version(reply) = MOON_CODEC_VERSION
        /\ ReadHeader(reply) = [h EXCEPT !.type = MSG_TYPE_SINGLE_NORMAL, !.protocol = Protocol(h)]

\* moon/server.c:48, moon/server.h:52: a message whose length is wrong for its
\* method is a syntax error; no method runs on bytes its frame did not carry.
CallsComeFromTheirFrame == called # NoCall => Complete(frame)
=============================================================================
