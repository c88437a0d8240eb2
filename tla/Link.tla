-------------------------------- MODULE Link --------------------------------
(***************************************************************************)
(* The two ends of the serial line at byte level: the client's encoder and *)
(* decoder (tools/bootloader/moon_transport.py) and, at the device, the    *)
(* USART driver under the decoder and encoder of Sll.                      *)
(*                                                                         *)
(* The line is disturbed at first: one end gets any bytes at all, which    *)
(* leaves its decoder in any state.  When the line has become quiet the    *)
(* client sends one request until it is answered.                          *)
(***************************************************************************)
EXTENDS Sll

CONSTANTS
  Messages,      \* payloads of requests
  AnswerTo(_)    \* the reply the server gives to a payload (module MoonServer)

\* The client packs a request into one frame, and the server's reply is written
\* into the payload of the frame it answers.
ASSUME LinkAssumption ==
  /\ Messages \subseteq Payloads
  /\ \A payload \in Payloads : AnswerTo(payload) \in Payloads

VARIABLES
  noise,         \* the end that gets noise, or "none"
  message,       \* the request, once the line is quiet
  toDevice,      \* bytes the client has written
  toHost,        \* bytes the device has written
  rhr,           \* the receive holding register: <<>>, or <<c>> with RXRDY set
  unsent,        \* what usart_write has still to write
  hstate, hlen, hdata, hcrc,   \* the client's decoder
  outcome,       \* what its last byte led to: "none", "data" or "invalid"
  hrx,           \* history: the bytes it decoded since the sync bytes
  waiting,       \* the client is in receive
  answered       \* perform_request returned

wire == <<toDevice, toHost, rhr, unsent>>
decoder == <<hstate, hlen, hdata, hcrc, outcome, hrx>>
host == <<decoder, waiting, answered>>
linkVars == <<vars, noise, message, wire, host>>

-----------------------------------------------------------------------------
(* MoonTransport: send and the decoder *)

HostFrame(payload) ==
  LET body == <<Len(payload)>> \o payload
      sum == CrcOf(body)
  IN  <<SLL_SYNC_SEQ_1, SLL_SYNC_SEQ_2>> \o body \o <<low(sum), high(sum)>>

HostSync1(c) ==
  /\ hstate = "SYNC1"
  /\ hstate' = IF c = SLL_SYNC_SEQ_1 THEN "SYNC2" ELSE "SYNC1"
  /\ outcome' = "none"
  /\ UNCHANGED <<hlen, hdata, hcrc, hrx>>

HostSync2(c) ==
  /\ hstate = "SYNC2"
  /\ hstate' = IF c = SLL_SYNC_SEQ_2 THEN "LEN" ELSE "SYNC2"
  /\ outcome' = "none"
  /\ hrx' = <<>>
  /\ UNCHANGED <<hlen, hdata, hcrc>>

HostTooLong(c) == c > SLL_MAX_PAYLOD_LEN

\* Mutant: the length left out of the CRC.
HostLenOutsideCrc(c) ==
  /\ hstate = "LEN"
  /\ hlen' = c
  /\ IF HostTooLong(c)
       THEN hstate' = "SYNC1" /\ outcome' = "invalid" /\ UNCHANGED <<hdata, hcrc>>
       ELSE /\ hstate' = IF c = 0 THEN "CRC1" ELSE "DATA"
            /\ outcome' = "none"
            /\ hdata' = <<>>
            /\ hcrc' = CRC_16IBM_INIT_VALUE
  /\ hrx' = <<c>>

\* The length is stored even when it is too long.
HostLen(c) ==
  /\ hstate = "LEN"
  /\ hlen' = c
  /\ IF HostTooLong(c)
       THEN hstate' = "SYNC1" /\ outcome' = "invalid" /\ UNCHANGED <<hdata, hcrc>>
       ELSE /\ hstate' = IF c = 0 THEN "CRC1" ELSE "DATA"
            /\ outcome' = "none"
            /\ hdata' = <<>>
            /\ hcrc' = crc_16ibm_update(CRC_16IBM_INIT_VALUE, c)
  /\ hrx' = <<c>>

HostData(c) ==
  /\ hstate = "DATA"
  /\ hdata' = Append(hdata, c)
  /\ hcrc' = crc_16ibm_update(hcrc, c)
  /\ hstate' = IF Len(hdata') = hlen THEN "CRC1" ELSE "DATA"
  /\ outcome' = "none"
  /\ hrx' = Append(hrx, c)
  /\ UNCHANGED hlen

HostCrc1(c) ==
  /\ hstate = "CRC1"
  /\ hcrc' = crc_16ibm_update(hcrc, c)
  /\ hstate' = "CRC2"
  /\ outcome' = "none"
  /\ hrx' = Append(hrx, c)
  /\ UNCHANGED <<hlen, hdata>>

HostCrc2(c) ==
  /\ hstate = "CRC2"
  /\ hcrc' = crc_16ibm_update(hcrc, c)
  /\ hstate' = "SYNC1"
  /\ outcome' = IF hcrc' = 0 THEN "data" ELSE "invalid"
  /\ hrx' = Append(hrx, c)
  /\ UNCHANGED <<hlen, hdata>>

HostDecode(c) ==
  HostSync1(c) \/ HostSync2(c) \/ HostLen(c) \/ HostData(c) \/ HostCrc1(c) \/ HostCrc2(c)

-----------------------------------------------------------------------------
(* The client, once the line is quiet *)

\* A reply still on the line, or partly decoded, is not drained first.
HostSend ==
  /\ noise = "none" /\ ~waiting /\ ~answered
  /\ toDevice' = toDevice \o HostFrame(message)
  /\ waiting' = TRUE
  /\ UNCHANGED <<vars, noise, message, toHost, rhr, unsent, decoder, answered>>

\* receive returns at a frame, right or wrong, and at a frame that is not one.
HostRead ==
  /\ waiting /\ toHost # <<>>
  /\ HostDecode(Head(toHost))
  /\ toHost' = Tail(toHost)
  /\ waiting' = (outcome' = "none")
  /\ answered' = (outcome' = "data" /\ hdata' = AnswerTo(message))
  /\ UNCHANGED <<vars, noise, message, toDevice, rhr, unsent>>

\* A frame waits for its reply, or the reply is on its way out.
Busy == (call = "decode" /\ ret = 1) \/ unsent # <<>>

\* The port's timeout is long against the time a byte takes.
HostTimeout ==
  /\ waiting /\ toHost = <<>> /\ toDevice = <<>> /\ rhr = <<>> /\ ~Busy
  /\ waiting' = FALSE
  /\ UNCHANGED <<vars, noise, message, wire, decoder, answered>>

-----------------------------------------------------------------------------
(* The device *)

\* A poll takes one byte; while a reply goes out nothing is read.
DeviceRead ==
  /\ rhr # <<>> /\ ~Busy
  /\ sll_decode(rhr[1])
  /\ rhr' = <<>>
  /\ UNCHANGED <<noise, message, toDevice, toHost, unsent, host>>

\* The frame moon_transport_write passes to usart_write.
Outgoing == [i \in 1 .. (IF ret > 0 THEN ret ELSE 0) |-> frame_buffer[i - 1]]

DeviceReply ==
  /\ noise = "none"
  /\ sll_encode(AnswerTo(Payload(length)))
  /\ unsent' = Outgoing'
  /\ UNCHANGED <<noise, message, toDevice, toHost, rhr, host>>

DeviceWrite ==
  /\ unsent # <<>>
  /\ toHost' = Append(toHost, Head(unsent))
  /\ unsent' = Tail(unsent)
  /\ UNCHANGED <<vars, noise, message, toDevice, rhr, host>>

-----------------------------------------------------------------------------
(* The line (external) *)

\* A poll is short against the time a byte takes; while the device is busy the
\* next byte replaces one that was not read.
Deliver ==
  /\ toDevice # <<>>
  /\ rhr = <<>> \/ Busy
  /\ rhr' = <<Head(toDevice)>>
  /\ toDevice' = Tail(toDevice)
  /\ UNCHANGED <<vars, noise, message, toHost, unsent, host>>

\* What the device answers to noise is lost in it.
NoiseAtDevice ==
  /\ noise = "device"
  /\ \/ \E c \in Byte : sll_decode(c)
     \/ sll_encode(AnswerTo(Payload(length)))
  /\ UNCHANGED <<noise, message, wire, host>>

NoiseAtHost ==
  /\ noise = "host"
  /\ \E c \in Byte : HostDecode(c)
  /\ UNCHANGED <<vars, noise, message, wire, waiting, answered>>

Quiet ==
  /\ noise # "none"
  /\ noise' = "none"
  /\ message' \in Messages
  /\ UNCHANGED <<vars, wire, host>>

-----------------------------------------------------------------------------

\* moon_transport_init, open_device
LinkInit ==
  /\ Init
  /\ noise \in {"device", "host"}
  /\ message = <<>>
  /\ toDevice = <<>> /\ toHost = <<>> /\ rhr = <<>> /\ unsent = <<>>
  /\ hstate = "SYNC1" /\ hlen = 0 /\ hdata = <<>> /\ hcrc = 0
  /\ outcome = "none" /\ hrx = <<>>
  /\ waiting = FALSE /\ answered = FALSE

HostStep == HostSend \/ HostRead \/ HostTimeout

DeviceStep == DeviceRead \/ DeviceReply \/ DeviceWrite

LinkNext == HostStep \/ DeviceStep \/ Deliver \/ NoiseAtDevice \/ NoiseAtHost \/ Quiet

LinkSpec == LinkInit /\ [][LinkNext]_linkVars

\* Both programs run and bytes arrive; nothing makes the line become quiet.
FairLink ==
  LinkSpec /\ WF_linkVars(HostStep) /\ WF_linkVars(DeviceStep) /\ WF_linkVars(Deliver)

-----------------------------------------------------------------------------
(* Properties *)

\* Types: the client's decoder holds no more than a payload, and the receiver
\* no more than a byte.
LinkTypeOK ==
  /\ TypeOK
  /\ noise \in {"device", "host", "none"}
  /\ message \in Messages \cup {<<>>}
  /\ toDevice \in Seq(Byte) /\ toHost \in Seq(Byte) /\ unsent \in Seq(Byte)
  /\ rhr \in Seq(Byte) /\ Len(rhr) <= 1
  /\ hstate \in {"SYNC1", "SYNC2", "LEN", "DATA", "CRC1", "CRC2"}
  /\ hlen \in Byte /\ hcrc \in Register
  /\ hdata \in Seq(Byte) /\ Len(hdata) <= SLL_MAX_PAYLOD_LEN
  /\ outcome \in {"none", "data", "invalid"}
  /\ hrx \in Seq(Byte)
  /\ waiting \in BOOLEAN /\ answered \in BOOLEAN

\* The client's decoder, written apart from the device's, takes the same byte
\* sequences for frames, with the same payload.
HostDecodesExactlyFrames ==
  outcome # "none" =>
    /\ outcome = "data" <=> WellFormed(hrx)
    /\ outcome = "data" => hdata = SubSeq(hrx, 2, hlen + 1) /\ hlen = hrx[1]

\* The two encoders, written apart, make the same frame of a payload: what goes
\* out to the client is the reply as the client would have framed it.
EncodersAgree ==
  [][call = "decode" /\ call' = "encode" /\ ret' > 0 =>
       Outgoing' = HostFrame(AnswerTo(Payload(length)))]_linkVars

\* No false start within a frame: after the length no first sync byte with a
\* second one somewhere behind it.
Unambiguous(payload) ==
  LET bytes == HostFrame(payload)
  IN  \A i, j \in 3 .. Len(bytes) : i < j => ~(bytes[i] = SLL_SYNC_SEQ_1 /\ bytes[j] = SLL_SYNC_SEQ_2)

\* sll.c:72 "speed up re-sync": whatever noise left in either decoder, and
\* although receive gives up at the first wrong frame and the next request
\* overruns the receiver while the device is still answering, a request that is
\* sent again gets its answer once the line is quiet.  A frame with the sync
\* sequence in its payload may never get through: its false start can swallow
\* the true one each time.
GetsThrough ==
  (noise = "none" /\ Unambiguous(message) /\ Unambiguous(AnswerTo(message))) ~> answered

\* How far the client's decoder is in a frame, and what it keeps of it.
HostProgress ==
  /\ hstate = "LEN" => hrx = <<>>
  /\ hstate = "DATA" => Len(hdata) < hlen /\ Len(hrx) = Len(hdata) + 1
  /\ hstate = "CRC1" => Len(hdata) = hlen /\ Len(hrx) = hlen + 1
  /\ hstate = "CRC2" => Len(hdata) = hlen /\ Len(hrx) = hlen + 2

HostKeepsFrame ==
  hstate \in {"DATA", "CRC1", "CRC2"} =>
    /\ hlen <= SLL_MAX_PAYLOD_LEN
    /\ hrx[1] = hlen /\ hcrc = CrcOf(hrx)
    /\ \A i \in 1 .. Len(hdata) : hdata[i] = hrx[i + 1]

\* The inductive invariant behind the theorems about both ends.
HostInv ==
  /\ hstate \in {"SYNC1", "SYNC2", "LEN", "DATA", "CRC1", "CRC2"}
  /\ hlen \in Byte /\ hcrc \in Register
  /\ hdata \in Seq(Byte) /\ Len(hdata) <= SLL_MAX_PAYLOD_LEN
  /\ outcome \in {"none", "data", "invalid"}
  /\ hrx \in Seq(Byte)
  /\ HostProgress
  /\ HostKeepsFrame
  /\ HostDecodesExactlyFrames

LinkInv == SllInv /\ HostInv /\ LinkTypeOK
=============================================================================
