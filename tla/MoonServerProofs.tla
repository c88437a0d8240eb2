--------------------------- MODULE MoonServerProofs ---------------------------
(***************************************************************************)
(* The codec round trip, and what follows from it for the server: the      *)
(* types, the call a complete request makes and the reply it gets.         *)
(***************************************************************************)
EXTENDS MoonServer, TLAPS

\* The fields of the word moon_codec_write_header packs do not overlap: each
\* comes back from its own place.
LEMMA Packing ==
  ASSUME NEW s \in Nat, s < 32, NEW m \in Nat, m < 64, NEW q \in Nat, q < 32,
         NEW t \in Nat, t < 4, NEW p \in Nat, p < 16,
         NEW w, w = s * 4 + m * 128 + q * 8192 + t * 262144 + p * 1048576
  PROVE  /\ w \in Nat /\ w < 16777216 /\ w % 4 = 0
         /\ (w \div 4) % 32 = s
         /\ (w \div 128) % 64 = m
         /\ (w \div 8192) % 32 = q
         /\ (w \div 262144) % 4 = t
         /\ (w \div 1048576) % 16 = p
  <1>1. w \in Nat /\ w < 16777216 /\ w % 4 = 0
    BY SMT
  <1>2. (w \div 4) % 32 = s
    BY SMT
  <1>3. (w \div 128) % 64 = m
    BY SMT
  <1>4. (w \div 8192) % 32 = q
    BY SMT
  <1>5. (w \div 262144) % 4 = t
    BY SMT
  <1>6. (w \div 1048576) % 16 = p
    BY SMT
  <1> QED
    BY <1>1, <1>2, <1>3, <1>4, <1>5, <1>6

\* Three bytes, least significant first, hold any 24-bit word.
LEMMA LittleEndian ==
  ASSUME NEW w \in Nat, w < 16777216
  PROVE  (w % 256) + 256 * ((w \div 256) % 256) + 65536 * ((w \div 65536) % 256) = w
  BY SMT

\* The fields of a header as bounded numbers.
LEMMA HeaderFields ==
  ASSUME NEW h \in Header
  PROVE  /\ h.service \in Nat /\ h.service < 32
         /\ h.method \in Nat /\ h.method < 64
         /\ h.sequence \in Nat /\ h.sequence < 32
         /\ h.type \in Nat /\ h.type < 4
         /\ h.protocol \in Nat /\ h.protocol < 16
         /\ h = [service |-> h.service, method |-> h.method, sequence |-> h.sequence,
                 type |-> h.type, protocol |-> h.protocol]
  BY DEF Header

\* moon_codec_read_header undoes moon_codec_write_header.
LEMMA RoundTrip ==
  ASSUME NEW h \in Header, NEW b, \A i \in {0, 1, 2} : b[i] = HeaderByte(h, i)
  PROVE  ReadHeader(b) = h /\ Version(b) = MOON_CODEC_VERSION
  <1> DEFINE w == HeaderWord(h)
  <1>1. w = h.service * 4 + h.method * 128 + h.sequence * 8192 + h.type * 262144
            + h.protocol * 1048576
    BY HeaderFields, SMT DEF HeaderWord, MOON_CODEC_VERSION
  <1> HIDE DEF w
  <1>2. /\ w \in Nat /\ w < 16777216 /\ w % 4 = 0
        /\ (w \div 4) % 32 = h.service
        /\ (w \div 128) % 64 = h.method
        /\ (w \div 8192) % 32 = h.sequence
        /\ (w \div 262144) % 4 = h.type
        /\ (w \div 1048576) % 16 = h.protocol
    BY <1>1, HeaderFields, Packing
  <1>3. b[0] = w % 256 /\ b[1] = (w \div 256) % 256 /\ b[2] = (w \div 65536) % 256
    BY SMT DEF HeaderByte, w
  <1>4. Word(b) = w
    BY <1>2, <1>3, LittleEndian, SMT DEF Word
  <1> QED
    BY <1>2, <1>4, HeaderFields DEF ReadHeader, Version, MOON_CODEC_VERSION

\* Any three bytes read as some header.
LEMMA ReadType ==
  ASSUME NEW b, \A i \in {0, 1, 2} : b[i] \in Byte
  PROVE  ReadHeader(b) \in Header /\ Version(b) \in 0 .. 3
  <1>1. \A x \in Byte : x \in Nat
    BY DEF Byte
  <1>2. Word(b) \in Nat
    BY <1>1, SMT DEF Word
  <1> DEFINE w == Word(b)
  <1> HIDE DEF w
  <1>3. w \in Nat
    BY <1>2 DEF w
  <1>4. w % 4 \in 0 .. 3
    BY <1>3, SMT
  <1>5. (w \div 4) % 32 \in 0 .. 31
    BY <1>3, SMT
  <1>6. (w \div 128) % 64 \in 0 .. 63
    BY <1>3, SMT
  <1>7. (w \div 8192) % 32 \in 0 .. 31
    BY <1>3, SMT
  <1>8. (w \div 262144) % 4 \in 0 .. 3
    BY <1>3, SMT
  <1>9. (w \div 1048576) % 16 \in 0 .. 15
    BY <1>3, SMT
  <1> QED
    BY <1>4, <1>5, <1>6, <1>7, <1>8, <1>9 DEF ReadHeader, Version, Header, w

\* A header becomes bytes.
LEMMA HeaderByteType ==
  ASSUME NEW h \in Header, NEW i
  PROVE  HeaderByte(h, i) \in Byte
  <1> DEFINE w == HeaderWord(h)
  <1>1. w = h.service * 4 + h.method * 128 + h.sequence * 8192 + h.type * 262144
            + h.protocol * 1048576
    BY HeaderFields, SMT DEF HeaderWord, MOON_CODEC_VERSION
  <1> HIDE DEF w
  <1>2. w \in Nat
    BY <1>1, HeaderFields, SMT
  <1>3. w % 256 \in 0 .. 255
    BY <1>2, SMT
  <1>4. (w \div 256) % 256 \in 0 .. 255
    BY <1>2, SMT
  <1>5. (w \div 65536) % 256 \in 0 .. 255
    BY <1>2, SMT
  <1>6. 0 \in 0 .. 255
    OBVIOUS
  <1> QED
    BY <1>3, <1>4, <1>5, <1>6 DEF HeaderByte, Byte, w

\* The buffer a frame was decoded into is the frame as far as it goes.
LEMMA ReceivedType ==
  ASSUME NEW f \in Payloads, buffer \in [0 .. BUFFER_LEN - 1 -> Byte]
  PROVE  /\ Received(f) \in [0 .. BUFFER_LEN - 1 -> Byte]
         /\ \A i \in 0 .. Len(f) - 1 : Received(f)[i] = f[i + 1] /\ i \in 0 .. BUFFER_LEN - 1
         /\ \A i \in 0 .. 9 : Received(f)[i] \in Byte
  <1>1. f \in Seq(Byte) /\ Len(f) \in Nat /\ Len(f) <= BUFFER_LEN - 2
    BY DEF Payloads
  <1>2. \A i \in Nat : i < Len(f) => f[i + 1] \in Byte
    BY <1>1
  <1>3. Received(f) \in [0 .. BUFFER_LEN - 1 -> Byte]
    BY <1>2 DEF Received
  <1>4. \A i \in 0 .. Len(f) - 1 : i \in 0 .. BUFFER_LEN - 1
    BY <1>1, ServerAssumption
  <1>5. 0 .. 9 \subseteq 0 .. BUFFER_LEN - 1
    BY ServerAssumption
  <1>6. \A i \in 0 .. Len(f) - 1 : Received(f)[i] = f[i + 1]
    BY <1>1, <1>4 DEF Received
  <1> QED
    BY <1>3, <1>4, <1>5, <1>6

\* The response carries the request's service, method and sequence.
LEMMA ResponseType ==
  ASSUME NEW h \in Header
  PROVE  Response(h) \in Header
  <1>1. Protocol(h) \in 0 .. 15 /\ MSG_TYPE_SINGLE_NORMAL \in 0 .. 3
    BY DEF Protocol, MSG_TYPE_SINGLE_NORMAL, MOON_PROT_OK, MOON_PROT_E_NO_SERVICE,
           MOON_PROT_E_NO_METHOD
  <1> QED
    BY <1>1, HeaderFields DEF Response, Header

\* Initially nothing has been received.
LEMMA TypeInit == Init => TypeOK
  <1> SUFFICES ASSUME Init PROVE TypeOK
    OBVIOUS
  <1>1. 0 \in Byte
    BY DEF Byte
  <1>2. buffer \in [0 .. BUFFER_LEN - 1 -> Byte]
    BY <1>1 DEF Init
  <1>3. header \in Header
    BY DEF Init, Header
  <1>4. frame \in Payloads
    BY ServerAssumption DEF Init, Payloads
  <1>5. DOMAIN reply = 0 .. len - 1
    BY DEF Init
  <1>6. called.method \in Methods \cup {0}
    BY DEF Init, NoCall
  <1>7. len \in {0, 3, 4}
    BY DEF Init
  <1> QED
    BY <1>2, <1>3, <1>4, <1>5, <1>6, <1>7 DEF TypeOK

\* What the server understood of a frame, and what it makes of it.
LEMMA UnderstoodType ==
  ASSUME TypeOK, NEW f \in Payloads
  PROVE  /\ Understood(f) \in Header
         /\ Response(Understood(f)) \in Header
         /\ \A h : ReplyLength(h) \in {3, 4}
  <1>1. \A i \in {0, 1, 2} : Received(f)[i] \in Byte
    BY ReceivedType DEF TypeOK
  <1>2. ReadHeader(Received(f)) \in Header
    BY <1>1, ReadType
  <1>3. Understood(f) \in Header
    BY <1>2 DEF Understood, TypeOK
  <1> QED
    BY <1>3, ResponseType DEF ReplyLength

\* A reply in the buffer is bytes.
LEMMA WithReplyType ==
  ASSUME TypeOK, NEW f \in Payloads, NEW value \in Answers, NEW sum \in FrameCrcs,
         NEW h \in Header
  PROVE  WithReply(Received(f), h, value, sum) \in [0 .. BUFFER_LEN - 1 -> Byte]
  <1>1. Received(f) \in [0 .. BUFFER_LEN - 1 -> Byte]
    BY ReceivedType DEF TypeOK
  <1>2. value \in Byte /\ sum[1] \in Byte /\ sum[2] \in Byte
    BY ServerAssumption
  <1>3. \A i : HeaderByte(Response(h), i) \in Byte
    BY ResponseType, HeaderByteType
  <1> QED
    BY <1>1, <1>2, <1>3 DEF WithReply

\* A frame that is answered keeps the types.
LEMMA PollType ==
  ASSUME TypeOK, NEW f \in Payloads, moon_server_poll(f)
  PROVE  TypeOK'
  <1> DEFINE h == Understood(f)
  <1>1. h \in Header /\ Response(h) \in Header /\ ReplyLength(h) \in {3, 4}
    BY UnderstoodType
  <1> PICK value \in Answers, sum \in FrameCrcs :
             buffer' = WithReply(Received(f), h, value, sum)
    BY DEF moon_server_poll
  <1>2. buffer' \in [0 .. BUFFER_LEN - 1 -> Byte]
    BY <1>1, WithReplyType
  <1>3. header' \in Header /\ len' \in {0, 3, 4} /\ frame' \in Payloads
    BY <1>1 DEF moon_server_poll
  <1>4. DOMAIN reply' = 0 .. len' - 1
    BY DEF moon_server_poll
  <1>5. called'.method \in Methods \cup {0}
    <2>1. CASE Protocol(h) = MOON_PROT_OK
      <3>1. h.method \in Methods
        BY <2>1 DEF Protocol, MOON_PROT_OK, MOON_PROT_E_NO_SERVICE, MOON_PROT_E_NO_METHOD
      <3>2. called' = CallOf(h.method, Received(f))
        BY <2>1 DEF moon_server_poll
      <3> QED
        BY <3>1, <3>2 DEF CallOf
    <2>2. CASE Protocol(h) # MOON_PROT_OK
      BY <2>2 DEF moon_server_poll, NoCall
    <2> QED
      BY <2>1, <2>2
  <1> QED
    BY <1>2, <1>3, <1>4, <1>5 DEF TypeOK

\* Whatever frames arrive, whole, short or spoiled, the header the server keeps
\* and the bytes of its buffer stay in their types.
THEOREM ServerTypeCorrect == Spec => []TypeOK
  <1>1. Init => TypeOK
    BY TypeInit
  <1>2. TypeOK /\ [Next]_vars => TypeOK'
    <2> SUFFICES ASSUME TypeOK, [Next]_vars PROVE TypeOK'
      OBVIOUS
    <2>1. ASSUME NEW f \in Frames, moon_server_poll(f) PROVE TypeOK'
      BY <2>1, PollType, ServerAssumption
    <2>2. ASSUME NEW f \in BrokenFrames, BrokenFrame(f) PROVE TypeOK'
      <3>1. buffer' \in [0 .. BUFFER_LEN - 1 -> Byte]
        BY <2>2, ReceivedType, ServerAssumption DEF BrokenFrame, TypeOK
      <3> QED
        BY <2>2, <3>1 DEF BrokenFrame, TypeOK
    <2>3. CASE UNCHANGED vars
      BY <2>3 DEF vars, TypeOK
    <2> QED
      BY <2>1, <2>2, <2>3 DEF Next
  <1> QED
    BY <1>1, <1>2, PTL DEF Spec

-----------------------------------------------------------------------------

\* A readable frame is understood as its own bytes say.
LEMMA UnderstoodFrame ==
  ASSUME TypeOK, NEW f \in Payloads, Readable(f)
  PROVE  /\ Understood(f) = ReadHeader(At(f))
         /\ \A i \in 0 .. Len(f) - 1 : Received(f)[i] = At(f)[i]
  <1>1. \A i \in 0 .. Len(f) - 1 : Received(f)[i] = At(f)[i]
    BY ReceivedType DEF At, TypeOK
  <1>2. {0, 1, 2} \subseteq 0 .. Len(f) - 1
    BY DEF Readable, Payloads
  <1>3. Received(f)[0] = At(f)[0] /\ Received(f)[1] = At(f)[1] /\ Received(f)[2] = At(f)[2]
    BY <1>1, <1>2
  <1>4. ReadHeader(Received(f)) = ReadHeader(At(f)) /\ Version(Received(f)) = Version(At(f))
    BY <1>3 DEF ReadHeader, Version, Word
  <1> QED
    BY <1>1, <1>4 DEF Understood, Readable

\* The reply read back is the response header.
LEMMA ReplyReads ==
  ASSUME TypeOK, NEW f \in Payloads, moon_server_poll(f)
  PROVE  LET h == Understood(f)
         IN  /\ DOMAIN reply' = 0 .. ReplyLength(h) - 1
             /\ ReadHeader(reply') = Response(h)
             /\ Version(reply') = MOON_CODEC_VERSION
  <1> DEFINE h == Understood(f)
  <1>1. h \in Header /\ Response(h) \in Header /\ ReplyLength(h) \in {3, 4}
    BY UnderstoodType
  <1> PICK value \in Answers, sum \in FrameCrcs :
             buffer' = WithReply(Received(f), h, value, sum)
    BY DEF moon_server_poll
  <1>2. reply' = [i \in 0 .. ReplyLength(h) - 1 |-> buffer'[i]]
    BY DEF moon_server_poll
  <1>3. {0, 1, 2} \subseteq 0 .. ReplyLength(h) - 1 /\ {0, 1, 2} \subseteq 0 .. BUFFER_LEN - 1
    BY <1>1, ServerAssumption
  <1>4. \A i \in {0, 1, 2} : buffer'[i] = HeaderByte(Response(h), i)
    BY <1>1, <1>3 DEF WithReply
  <1>5. \A i \in {0, 1, 2} : reply'[i] = HeaderByte(Response(h), i)
    BY <1>2, <1>3, <1>4
  <1>6. ReadHeader(reply') = Response(h) /\ Version(reply') = MOON_CODEC_VERSION
    BY <1>1, <1>5, RoundTrip
  <1> QED
    BY <1>2, <1>6

\* Every reply to a readable request names the request's service, method and
\* sequence number: what _server_response and the shims write is what
\* moon_codec.py reads back, whatever the header held before.
THEOREM RepliesNameTheirRequest == Spec => []ReplyNamesRequest
  <1>1. Init => ReplyNamesRequest
    BY DEF Init, ReplyNamesRequest, Readable
  <1>2. TypeOK /\ ReplyNamesRequest /\ [Next]_vars => ReplyNamesRequest'
    <2> SUFFICES ASSUME TypeOK, ReplyNamesRequest, [Next]_vars PROVE ReplyNamesRequest'
      OBVIOUS
    <2>1. ASSUME NEW f \in Frames, moon_server_poll(f) PROVE ReplyNamesRequest'
      <3>1. f \in Payloads /\ frame' = f
        BY <2>1, ServerAssumption DEF moon_server_poll
      <3>2. ASSUME Readable(f) PROVE Understood(f) = ReadHeader(At(f))
        BY <3>1, <3>2, UnderstoodFrame
      <3> QED
        BY <2>1, <3>1, <3>2, ReplyReads DEF ReplyNamesRequest, Response
    <2>2. ASSUME NEW f \in BrokenFrames, BrokenFrame(f) PROVE ReplyNamesRequest'
      BY <2>2 DEF BrokenFrame, ReplyNamesRequest
    <2>3. CASE UNCHANGED vars
      BY <2>3 DEF vars, ReplyNamesRequest
    <2> QED
      BY <2>1, <2>2, <2>3 DEF Next
  <1> QED
    BY <1>1, <1>2, ServerTypeCorrect, PTL DEF Spec

\* The arguments of a complete request are read from its own bytes.
LEMMA OwnArguments ==
  ASSUME TypeOK, NEW f \in Payloads, Complete(f)
  PROVE  LET h == ReadHeader(At(f)) IN CallOf(h.method, Received(f)) = CallOf(h.method, At(f))
  <1> DEFINE h == ReadHeader(At(f))
             b == Received(f)
  <1>1. \A i \in 0 .. Len(f) - 1 : b[i] = At(f)[i]
    BY UnderstoodFrame DEF Complete
  <1>2. h.method = writePageBuffer => 3 \in 0 .. Len(f) - 1
    BY DEF Complete, Payloads
  <1>3. Arguments(h.method, b) = Arguments(h.method, At(f))
    BY <1>1, <1>2 DEF Arguments
  <1>4. Arguments(h.method, At(f)) \subseteq 0 .. Len(f) - 1
    BY DEF Complete
  <1> QED
    BY <1>1, <1>3, <1>4 DEF CallOf

\* A complete request calls its method with the bytes of its own frame: nothing
\* that earlier requests, replies, spoiled frames or CRCs left in the shared
\* buffer reaches the method.
THEOREM CompleteRequestsAreCalled == Spec => []CompleteRequestIsCalled
  <1>1. Init => CompleteRequestIsCalled
    BY DEF Init, CompleteRequestIsCalled, Complete, Readable
  <1>2. TypeOK /\ CompleteRequestIsCalled /\ [Next]_vars => CompleteRequestIsCalled'
    <2> SUFFICES ASSUME TypeOK, CompleteRequestIsCalled, [Next]_vars
                 PROVE  CompleteRequestIsCalled'
      OBVIOUS
    <2>1. ASSUME NEW f \in Frames, moon_server_poll(f) PROVE CompleteRequestIsCalled'
      <3>1. f \in Payloads /\ frame' = f
        BY <2>1, ServerAssumption DEF moon_server_poll
      <3>2. ASSUME Complete(f)
            PROVE  LET h == ReadHeader(At(f))
                   IN  /\ Understood(f) = h
                       /\ CallOf(h.method, Received(f)) = CallOf(h.method, At(f))
        BY <3>1, <3>2, UnderstoodFrame, OwnArguments DEF Complete
      <3> QED
        BY <2>1, <3>1, <3>2 DEF moon_server_poll, CompleteRequestIsCalled
    <2>2. ASSUME NEW f \in BrokenFrames, BrokenFrame(f) PROVE CompleteRequestIsCalled'
      BY <2>2 DEF BrokenFrame, CompleteRequestIsCalled
    <2>3. CASE UNCHANGED vars
      BY <2>3 DEF vars, CompleteRequestIsCalled
    <2> QED
      BY <2>1, <2>2, <2>3 DEF Next
  <1> QED
    BY <1>1, <1>2, ServerTypeCorrect, PTL DEF Spec
=============================================================================
