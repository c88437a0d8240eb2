-------------------------------- MODULE Sll --------------------------------
(***************************************************************************)
(* The link layer (sll.c): a byte-at-a-time frame decoder and an encoder   *)
(* that share one buffer.  A frame is two sync bytes, a length, the        *)
(* payload and a CRC, least significant byte first, over length and        *)
(* payload.                                                                *)
(*                                                                         *)
(* The decoder is one action per state and byte.  The encoder is called    *)
(* by the server, with the reply it wrote over the payload, between the    *)
(* byte that completed a frame and the next byte (moon/server.c).          *)
(***************************************************************************)
EXTENDS Integers, Sequences

CONSTANTS
  RADIX,                   \* values of a byte (256)
  SLL_SYNC_SEQ_1,
  SLL_SYNC_SEQ_2,
  SLL_MAX_PAYLOD_LEN,
  crc_16ibm_update(_, _)   \* the CRC register (two bytes wide) after one more byte

Byte == 0 .. RADIX - 1
Register == 0 .. RADIX * RADIX - 1
low(crc) == crc % RADIX
high(crc) == crc \div RADIX

SLL_FRAME_DATA_START == 3
SLL_MAX_MSG_LEN == SLL_MAX_PAYLOD_LEN + 5
CRC_16IBM_INIT_VALUE == 0

ASSUME SllAssumption ==
  /\ RADIX \in Nat \ {0, 1}
  /\ SLL_SYNC_SEQ_1 \in Byte /\ SLL_SYNC_SEQ_2 \in Byte
  /\ SLL_MAX_PAYLOD_LEN \in Nat \ {0} /\ SLL_MAX_PAYLOD_LEN < RADIX

\* What the table of crc.c is built to give: a register clocked with its own
\* two bytes, low byte first, becomes zero, and with no others.
ASSUME CrcAssumption ==
  \A crc \in Register :
    /\ \A c \in Byte : crc_16ibm_update(crc, c) \in Register
    /\ \A c, d \in Byte :
         crc_16ibm_update(crc_16ibm_update(crc, c), d) = 0 <=> c = low(crc) /\ d = high(crc)

VARIABLES
  frame_buffer,   \* the SLL_MAX_MSG_LEN bytes; the payload starts at index 3
  length,         \* frame->length
  state,          \* frame->_ctx.state
  idx,            \* frame->_ctx.idx
  crc,            \* frame->_ctx.crc
  call,           \* "decode" or "encode": the function that returned last
  ret,            \* what it returned
  rx              \* history: the bytes decoded since the sync bytes of this frame

vars == <<frame_buffer, length, state, idx, crc, call, ret, rx>>

Data(i) == frame_buffer[SLL_FRAME_DATA_START + i]
Payload(n) == [i \in 1 .. n |-> Data(i - 1)]

-----------------------------------------------------------------------------
(* sll_decode *)

\* The server answers a decoded frame before it reads another byte.
Decode(current, value) ==
  /\ state = current
  /\ ~(call = "decode" /\ ret = 1)
  /\ call' = "decode" /\ ret' = value

DecodeSync1(c) ==
  /\ Decode("SYNC1", 0)
  /\ state' = IF c = SLL_SYNC_SEQ_1 THEN "SYNC2" ELSE "SYNC1"
  /\ UNCHANGED <<frame_buffer, length, idx, crc, rx>>

\* Mutant: any byte but the second sync byte goes back to the first.
DecodeSync2GoesBack(c) ==
  /\ Decode("SYNC2", 0)
  /\ state' = IF c = SLL_SYNC_SEQ_2 THEN "LEN" ELSE "SYNC1"
  /\ rx' = <<>>
  /\ UNCHANGED <<frame_buffer, length, idx, crc>>

\* A byte that is not the second sync byte does not go back to the first.
DecodeSync2(c) ==
  /\ Decode("SYNC2", 0)
  /\ state' = IF c = SLL_SYNC_SEQ_2 THEN "LEN" ELSE "SYNC2"
  /\ rx' = <<>>
  /\ UNCHANGED <<frame_buffer, length, idx, crc>>

\* Mutant: the limit off by one.
TooLongByOne(c) == c > SLL_MAX_PAYLOD_LEN + 1
TooLong(c) == c > SLL_MAX_PAYLOD_LEN

DecodeLen(c) ==
  /\ Decode("LEN", 0)
  /\ IF TooLong(c)
       THEN state' = "SYNC1" /\ UNCHANGED <<length, idx, crc>>
       ELSE /\ length' = c
            /\ idx' = 0
            /\ crc' = crc_16ibm_update(CRC_16IBM_INIT_VALUE, c)
            /\ state' = IF c > 0 THEN "DATA" ELSE "CRC1"
  /\ rx' = <<c>>
  /\ UNCHANGED frame_buffer

\* Mutant: one byte too many.
PayloadDoneLate(i) == i > length
PayloadDone(i) == i >= length

DecodeData(c) ==
  /\ Decode("DATA", 0)
  /\ frame_buffer' = [frame_buffer EXCEPT ![SLL_FRAME_DATA_START + idx] = c]
  /\ idx' = idx + 1
  /\ crc' = crc_16ibm_update(crc, c)
  /\ state' = IF PayloadDone(idx + 1) THEN "CRC1" ELSE "DATA"
  /\ rx' = Append(rx, c)
  /\ UNCHANGED length

DecodeCrc1(c) ==
  /\ Decode("CRC1", 0)
  /\ crc' = crc_16ibm_update(crc, c)
  /\ state' = "CRC2"
  /\ rx' = Append(rx, c)
  /\ UNCHANGED <<frame_buffer, length, idx>>

\* Mutant: the CRC not compared.
DecodeCrc2Unchecked(c) ==
  /\ Decode("CRC2", 1)
  /\ crc' = crc_16ibm_update(crc, c)
  /\ state' = "SYNC1"
  /\ rx' = Append(rx, c)
  /\ UNCHANGED <<frame_buffer, length, idx>>

DecodeCrc2(c) ==
  /\ Decode("CRC2", IF crc_16ibm_update(crc, c) = 0 THEN 1 ELSE -1)
  /\ crc' = crc_16ibm_update(crc, c)
  /\ state' = "SYNC1"
  /\ rx' = Append(rx, c)
  /\ UNCHANGED <<frame_buffer, length, idx>>

sll_decode(c) ==
  \/ DecodeSync1(c) \/ DecodeSync2(c) \/ DecodeLen(c)
  \/ DecodeData(c) \/ DecodeCrc1(c) \/ DecodeCrc2(c)

-----------------------------------------------------------------------------
(* sll_encode *)

\* The register after the first n bytes of a sequence.
CrcOf(bytes) ==
  LET after[n \in 0 .. Len(bytes)] ==
        IF n = 0 THEN CRC_16IBM_INIT_VALUE ELSE crc_16ibm_update(after[n - 1], bytes[n])
  IN  after[Len(bytes)]

\* Mutant: the CRC most significant byte first.
EncodedBigEndian(buffer, n) ==
  LET sum == CrcOf(<<n>> \o [i \in 1 .. n |-> buffer[SLL_FRAME_DATA_START + i - 1]])
  IN  [buffer EXCEPT ![0] = SLL_SYNC_SEQ_1, ![1] = SLL_SYNC_SEQ_2, ![2] = n,
                     ![SLL_FRAME_DATA_START + n] = high(sum),
                     ![SLL_FRAME_DATA_START + n + 1] = low(sum)]

\* The buffer once the header and the CRC were written around the payload.
Encoded(buffer, n) ==
  LET sum == CrcOf(<<n>> \o [i \in 1 .. n |-> buffer[SLL_FRAME_DATA_START + i - 1]])
  IN  [buffer EXCEPT ![0] = SLL_SYNC_SEQ_1, ![1] = SLL_SYNC_SEQ_2, ![2] = n,
                     ![SLL_FRAME_DATA_START + n] = low(sum),
                     ![SLL_FRAME_DATA_START + n + 1] = high(sum)]

\* The server writes its reply into the payload of the frame it just decoded
\* and has it encoded in place.
sll_encode(reply) ==
  /\ call = "decode" /\ ret = 1
  /\ LET n == Len(reply)
         written == [i \in 0 .. SLL_MAX_MSG_LEN - 1 |->
                       IF i - 2 \in 1 .. n THEN reply[i - 2] ELSE frame_buffer[i]]
     IN  IF n >= SLL_MAX_PAYLOD_LEN
           THEN ret' = -1 /\ frame_buffer' = written
           ELSE ret' = SLL_FRAME_DATA_START + n + 2 /\ frame_buffer' = Encoded(written, n)
  /\ call' = "encode"
  /\ UNCHANGED <<length, state, idx, crc, rx>>

-----------------------------------------------------------------------------

\* sll_init; the buffer is in .bss.
Init ==
  /\ frame_buffer = [i \in 0 .. SLL_MAX_MSG_LEN - 1 |-> 0]
  /\ length = 0 /\ state = "SYNC1" /\ idx = 0 /\ crc = 0
  /\ call = "encode" /\ ret = 0
  /\ rx = <<>>

Payloads == UNION {[1 .. n -> Byte] : n \in 0 .. SLL_MAX_PAYLOD_LEN}

Next ==
  \/ \E c \in Byte : sll_decode(c)
  \/ \E reply \in Payloads : sll_encode(reply)

Spec == Init /\ [][Next]_vars

-----------------------------------------------------------------------------
(* Properties *)

\* Types: the index stays within the payload and the buffer within its length,
\* whatever the line delivers.
TypeOK ==
  /\ frame_buffer \in [0 .. SLL_MAX_MSG_LEN - 1 -> Byte]
  /\ length \in 0 .. SLL_MAX_PAYLOD_LEN
  /\ state \in {"SYNC1", "SYNC2", "LEN", "DATA", "CRC1", "CRC2"}
  /\ idx \in 0 .. SLL_MAX_PAYLOD_LEN
  /\ crc \in Register
  /\ call \in {"decode", "encode"}
  /\ ret \in -1 .. SLL_MAX_MSG_LEN
  /\ rx \in Seq(Byte)

\* Whatever bytes the line delivers, the decoder writes nothing but the payload
\* bytes the length announced: not the header before it, not what follows it.
DecodeStaysInPayload ==
  [][call' = "decode" =>
       \A i \in 0 .. SLL_MAX_MSG_LEN - 1 : frame_buffer'[i] # frame_buffer[i] =>
         i \in SLL_FRAME_DATA_START .. SLL_FRAME_DATA_START + length - 1]_vars

\* A frame is reported exactly when the bytes after the sync sequence were the
\* length, that many bytes, and the CRC of both; its payload is those bytes.
WellFormed(bytes) ==
  LET n == bytes[1]
  IN  /\ n <= SLL_MAX_PAYLOD_LEN
      /\ Len(bytes) = n + 3
      /\ LET sum == CrcOf(SubSeq(bytes, 1, n + 1))
         IN  bytes[n + 2] = low(sum) /\ bytes[n + 3] = high(sum)

DecodesExactlyFrames ==
  call = "decode" /\ state = "SYNC1" /\ rx # <<>> /\ ret # 0 =>
    /\ ret = 1 <=> WellFormed(rx)
    /\ ret = 1 => length = rx[1] /\ Payload(length) = SubSeq(rx, 2, length + 1)

\* What the encoder leaves in the buffer is a frame the other side accepts
\* (whose payload it is, EncodersAgree of Link tells).
EncodesFrame ==
  call = "encode" /\ ret > 0 =>
    /\ frame_buffer[0] = SLL_SYNC_SEQ_1 /\ frame_buffer[1] = SLL_SYNC_SEQ_2
    /\ WellFormed([i \in 1 .. ret - 2 |-> frame_buffer[i + 1]])

\* A frame always ends: the decoder is back to looking for sync bytes after at
\* most a length, a full payload and a CRC, so noise costs a bounded number of
\* bytes.
FrameBounded == Len(rx) <= SLL_MAX_PAYLOD_LEN + 3

\* How far the decoder is in the frame.
Progress ==
  /\ state = "LEN" => rx = <<>>
  /\ state = "DATA" => idx < length /\ Len(rx) = idx + 1
  /\ state = "CRC1" => Len(rx) = length + 1
  /\ state = "CRC2" => Len(rx) = length + 2
  /\ state \in {"SYNC1", "SYNC2"} => Len(rx) <= SLL_MAX_PAYLOD_LEN + 3

\* What it keeps of a frame is what it has seen of it.
KeepsFrame ==
  state \in {"DATA", "CRC1", "CRC2"} =>
    /\ rx[1] = length /\ crc = CrcOf(rx)
    /\ \A i \in 1 .. length : i < Len(rx) => Data(i - 1) = rx[i + 1]

\* The inductive invariant behind the theorems of SllProofs.
SllInv ==
  /\ TypeOK
  /\ Progress
  /\ KeepsFrame
  /\ call = "decode" /\ ret = 1 => state = "SYNC1"
  /\ DecodesExactlyFrames
  /\ EncodesFrame
=============================================================================
