------------------------------ MODULE RpcProofs ------------------------------
(***************************************************************************)
(* What the client packs, the server unpacks, for every call, argument and *)
(* sequence number: the client's frames are complete requests, and the     *)
(* results of MoonServerProofs on those give the rest.                     *)
(***************************************************************************)
EXTENDS Rpc, MoonServerProofs, SequenceTheorems

\* A 16-bit number is its two bytes.
LEMMA U16Bytes ==
  ASSUME NEW n \in U16
  PROVE  /\ n % 256 \in Byte /\ n \div 256 \in Byte
         /\ (n % 256) + 256 * (n \div 256) = n
  <1>1. n \in Nat /\ n <= 65535
    BY DEF U16
  <1> QED
    BY <1>1, SMT DEF Byte

\* A 32-bit number is its four bytes.
LEMMA U32Bytes ==
  ASSUME NEW n \in U32
  PROVE  /\ n % 256 \in Byte /\ (n \div 256) % 256 \in Byte
         /\ (n \div 65536) % 256 \in Byte /\ n \div 16777216 \in Byte
         /\ (n % 256) + 256 * ((n \div 256) % 256) + 65536 * ((n \div 65536) % 256)
              + 16777216 * (n \div 16777216) = n
  <1>1. n \in Nat /\ n \div 16777216 <= 255
    BY DEF U32
  <1>2. n % 256 \in Byte /\ (n \div 256) % 256 \in Byte
    BY <1>1, SMT DEF Byte
  <1>3. (n \div 65536) % 256 \in Byte
    BY <1>1, SMT DEF Byte
  <1>4. n \div 16777216 \in Byte
    BY <1>1, SMT DEF Byte
  <1>5. (n % 256) + 256 * ((n \div 256) % 256) + 65536 * ((n \div 65536) % 256)
          + 16777216 * (n \div 16777216) = n
    BY <1>1, SMT
  <1> QED
    BY <1>2, <1>3, <1>4, <1>5

\* The methods are told apart by their numbers.
LEMMA CallCases ==
  ASSUME NEW c \in Calls
  PROVE  /\ c.method \in Methods
         /\ \/ c.method \in {ping, erasePageBuffer, boot} /\ c = [method |-> c.method]
            \/ /\ c.method = eraseApp /\ c.app_id \in Byte
               /\ c = [method |-> c.method, app_id |-> c.app_id]
            \/ /\ c.method = setBootAction /\ c.action \in Byte
               /\ c = [method |-> c.method, action |-> c.action]
            \/ /\ c.method = writePage /\ c.app_id \in Byte /\ c.page_no \in U16 /\ c.crc \in U32
               /\ c = [method |-> c.method, app_id |-> c.app_id, page_no |-> c.page_no, crc |-> c.crc]
            \/ /\ c.method = writePageBuffer /\ c.offset \in U16 /\ c.data \in Seq(Byte)
               /\ c = [method |-> c.method, offset |-> c.offset, data |-> c.data]
  <1>1. c \in Calling
    BY CallsAssumption
  <1>2. CASE c \in [method : {ping, erasePageBuffer, boot}]
    BY <1>2 DEF Methods
  <1>3. CASE c \in [method : {eraseApp}, app_id : Byte]
    BY <1>3 DEF Methods
  <1>4. CASE c \in [method : {setBootAction}, action : Byte]
    BY <1>4 DEF Methods
  <1>5. CASE c \in [method : {writePage}, app_id : Byte, page_no : U16, crc : U32]
    BY <1>5 DEF Methods
  <1>6. CASE c \in [method : {writePageBuffer}, offset : U16, data : Seq(Byte)]
    BY <1>6 DEF Methods
  <1> QED
    BY <1>1, <1>2, <1>3, <1>4, <1>5, <1>6 DEF Calling

\* A small number is a byte.
LEMMA SmallNumber == ASSUME NEW n \in Nat, n <= 255 PROVE n \in Byte
  BY DEF Byte

\* Two byte strings one behind the other.
LEMMA Joined ==
  ASSUME NEW p \in Seq(Byte), NEW q \in Seq(Byte)
  PROVE  /\ p \o q \in Seq(Byte) /\ Len(p \o q) = Len(p) + Len(q)
         /\ Len(p) \in Nat /\ Len(q) \in Nat
         /\ \A i \in 1 .. Len(p) : (p \o q)[i] = p[i]
         /\ \A i \in 1 .. Len(q) : (p \o q)[Len(p) + i] = q[i]
  <1>1. Len(p) \in Nat /\ Len(q) \in Nat
    BY LenProperties
  <1>2. /\ p \o q \in Seq(Byte) /\ Len(p \o q) = Len(p) + Len(q)
        /\ \A i \in 1 .. Len(p) + Len(q) :
             (p \o q)[i] = IF i <= Len(p) THEN p[i] ELSE q[i - Len(p)]
    BY ConcatProperties
  <1> DEFINE t == p \o q
             m == Len(p)
             n == Len(q)
  <1>3. \A i \in 1 .. m + n : t[i] = IF i <= m THEN p[i] ELSE q[i - m]
    BY <1>2
  <1>4. m \in Nat /\ n \in Nat
    BY <1>1
  <1> HIDE DEF t, m, n
  <1>5. \A i \in 1 .. m : t[i] = p[i]
    BY <1>3, <1>4
  <1>6. ASSUME NEW i \in 1 .. n PROVE t[m + i] = q[i]
    <2>1. m + i \in 1 .. m + n /\ ~(m + i <= m) /\ (m + i) - m = i
      BY <1>4
    <2> QED
      BY <1>3, <2>1
  <1> QED
    BY <1>1, <1>2, <1>5, <1>6 DEF t, m, n

-----------------------------------------------------------------------------
(* What is packed, method by method *)

\* The methods are different.
LEMMA MethodNumbers ==
  /\ ping = 1 /\ writePageBuffer = 2 /\ erasePageBuffer = 3 /\ eraseApp = 4
  /\ writePage = 5 /\ setBootAction = 8 /\ boot = 9
  BY DEF ping, erasePageBuffer, boot, eraseApp, setBootAction, writePage, writePageBuffer

\* Methods without arguments send none.
LEMMA PackedNone ==
  ASSUME NEW c \in Calls, c.method \in {ping, erasePageBuffer, boot}
  PROVE  PackArguments(c) = <<>>
  BY MethodNumbers DEF PackArguments

\* eraseApp and setBootAction send one byte.
LEMMA PackedByte ==
  ASSUME NEW c \in Calls
  PROVE  /\ c.method = eraseApp => PackArguments(c) = <<c.app_id>> /\ c.app_id \in Byte
         /\ c.method = setBootAction => PackArguments(c) = <<c.action>> /\ c.action \in Byte
  <1>1. c.method = eraseApp => PackArguments(c) = <<c.app_id>>
    BY MethodNumbers DEF PackArguments
  <1>2. c.method = setBootAction => PackArguments(c) = <<c.action>>
    BY MethodNumbers DEF PackArguments
  <1> QED
    BY <1>1, <1>2, CallCases, MethodNumbers

\* writePage sends the partition, the CRC and the page number, in seven bytes.
LEMMA PackedPage ==
  ASSUME NEW c \in Calls, c.method = writePage
  PROVE  LET a == PackArguments(c)
         IN  /\ a \in Seq(Byte) /\ Len(a) = 7
             /\ c.app_id \in Byte /\ c.crc \in U32 /\ c.page_no \in U16
             /\ a[1] = c.app_id
             /\ a[2] = c.crc % 256 /\ a[3] = (c.crc \div 256) % 256
             /\ a[4] = (c.crc \div 65536) % 256 /\ a[5] = c.crc \div 16777216
             /\ a[6] = c.page_no % 256 /\ a[7] = c.page_no \div 256
  <1> DEFINE p == <<c.app_id>>
             q == PackU32(c.crc)
             r == PackU16(c.page_no)
  <1>1. c.app_id \in Byte /\ c.crc \in U32 /\ c.page_no \in U16
    BY CallCases, MethodNumbers
  <1>2. p \in Seq(Byte) /\ Len(p) = 1 /\ p[1] = c.app_id
    BY <1>1
  <1>3. /\ q \in Seq(Byte) /\ Len(q) = 4
        /\ q[1] = c.crc % 256 /\ q[2] = (c.crc \div 256) % 256
        /\ q[3] = (c.crc \div 65536) % 256 /\ q[4] = c.crc \div 16777216
    BY <1>1, U32Bytes DEF PackU32
  <1>4. r \in Seq(Byte) /\ Len(r) = 2 /\ r[1] = c.page_no % 256 /\ r[2] = c.page_no \div 256
    BY <1>1, U16Bytes DEF PackU16
  <1>a. PackArguments(c) = PackPage(c)
    BY MethodNumbers DEF PackArguments
  <1>5. PackArguments(c) = (p \o q) \o r
    BY <1>a DEF PackPage
  <1> HIDE DEF p, q, r
  <1>6. /\ p \o q \in Seq(Byte) /\ Len(p \o q) = Len(p) + Len(q)
        /\ \A i \in 1 .. Len(p) : (p \o q)[i] = p[i]
        /\ \A i \in 1 .. Len(q) : (p \o q)[Len(p) + i] = q[i]
    <2>1. p \in Seq(Byte) /\ q \in Seq(Byte)
      BY <1>2, <1>3
    <2> QED
      BY <2>1, Joined
  <1> DEFINE t == p \o q
  <1>7. /\ t \in Seq(Byte) /\ Len(t) = 1 + 4
        /\ \A i \in 1 .. 1 : t[i] = p[i]
        /\ \A i \in 1 .. 4 : t[1 + i] = q[i]
    BY <1>2, <1>3, <1>6
  <1> HIDE DEF t
  <1>8. /\ Len(t) = 5 /\ t[1] = p[1]
        /\ t[1 + 1] = q[1] /\ t[1 + 2] = q[2] /\ t[1 + 3] = q[3] /\ t[1 + 4] = q[4]
    BY <1>7
  <1>9. /\ t \o r \in Seq(Byte) /\ Len(t \o r) = Len(t) + Len(r)
        /\ \A i \in 1 .. Len(t) : (t \o r)[i] = t[i]
        /\ \A i \in 1 .. Len(r) : (t \o r)[Len(t) + i] = r[i]
    <2>1. t \in Seq(Byte) /\ r \in Seq(Byte)
      BY <1>4, <1>7
    <2> QED
      BY <2>1, Joined
  <1> DEFINE u == t \o r
  <1>10. /\ u \in Seq(Byte) /\ Len(u) = 5 + 2
         /\ \A i \in 1 .. 5 : u[i] = t[i]
         /\ \A i \in 1 .. 2 : u[5 + i] = r[i]
    BY <1>4, <1>8, <1>9
  <1>11. PackArguments(c) = u
    BY <1>5 DEF t
  <1> HIDE DEF u
  <1>12. /\ u[1] = t[1] /\ u[2] = t[2] /\ u[3] = t[3] /\ u[4] = t[4] /\ u[5] = t[5]
         /\ u[5 + 1] = r[1] /\ u[5 + 2] = r[2] /\ Len(u) = 7
    BY <1>10
  <1> DEFINE a == PackArguments(c)
  <1>13. a = u
    BY <1>11
  <1> HIDE DEF a
  <1>14. /\ a[1] = c.app_id
         /\ a[2] = c.crc % 256 /\ a[3] = (c.crc \div 256) % 256
         /\ a[4] = (c.crc \div 65536) % 256 /\ a[5] = c.crc \div 16777216
         /\ a[6] = c.page_no % 256 /\ a[7] = c.page_no \div 256
    BY <1>2, <1>3, <1>4, <1>8, <1>12, <1>13
  <1>15. a \in Seq(Byte) /\ Len(a) = 7
    BY <1>10, <1>12, <1>13
  <1> QED
    BY <1>1, <1>14, <1>15 DEF a

\* writePageBuffer sends the length, the offset and the data.
LEMMA PackedChunk ==
  ASSUME NEW c \in Calls, c.method = writePageBuffer
  PROVE  LET a == PackArguments(c)
         IN  /\ a \in Seq(Byte) /\ Len(a) = 3 + Len(c.data)
             /\ c.data \in Seq(Byte) /\ Len(c.data) \in Byte /\ c.offset \in U16
             /\ a[1] = Len(c.data) /\ a[2] = c.offset % 256 /\ a[3] = c.offset \div 256
             /\ \A i \in 1 .. Len(c.data) : a[3 + i] = c.data[i]
  <1> DEFINE p == <<Len(c.data)>>
             q == PackU16(c.offset)
  <1>1. c.offset \in U16 /\ c.data \in Seq(Byte)
    BY CallCases, MethodNumbers
  <1>2. Len(c.data) \in Byte
    <2>1. Len(c.data) \in Nat
      BY <1>1, LenProperties
    <2>2. Len(c.data) <= 255
      BY CallsAssumption
    <2> QED
      BY <2>1, <2>2, SmallNumber
  <1>3. p \in Seq(Byte) /\ Len(p) = 1 /\ p[1] = Len(c.data)
    BY <1>2
  <1>4. q \in Seq(Byte) /\ Len(q) = 2 /\ q[1] = c.offset % 256 /\ q[2] = c.offset \div 256
    BY <1>1, U16Bytes DEF PackU16
  <1>a. PackArguments(c) = PackChunk(c)
    BY MethodNumbers DEF PackArguments
  <1>5. PackArguments(c) = (<<Len(c.data)>> \o PackU16(c.offset)) \o c.data
    BY <1>a DEF PackChunk
  <1> DEFINE t == p \o q
             d == c.data
             a == PackArguments(c)
  <1>6. a = t \o d /\ d \in Seq(Byte) /\ Len(d) \in Nat
    BY <1>1, <1>5, LenProperties
  <1> HIDE DEF p, q, d, a
  <1>7. /\ p \o q \in Seq(Byte) /\ Len(p \o q) = Len(p) + Len(q)
        /\ \A i \in 1 .. Len(p) : (p \o q)[i] = p[i]
        /\ \A i \in 1 .. Len(q) : (p \o q)[Len(p) + i] = q[i]
    <2>1. p \in Seq(Byte) /\ q \in Seq(Byte)
      BY <1>3, <1>4
    <2> QED
      BY <2>1, Joined
  <1>8. /\ t \in Seq(Byte) /\ Len(t) = 1 + 2
        /\ \A i \in 1 .. 1 : t[i] = p[i]
        /\ \A i \in 1 .. 2 : t[1 + i] = q[i]
    BY <1>3, <1>4, <1>7
  <1> HIDE DEF t
  <1>9. Len(t) = 3 /\ t[1] = p[1] /\ t[1 + 1] = q[1] /\ t[1 + 2] = q[2]
    BY <1>8
  <1>10. /\ t \o d \in Seq(Byte) /\ Len(t \o d) = Len(t) + Len(d)
         /\ \A i \in 1 .. Len(t) : (t \o d)[i] = t[i]
         /\ \A i \in 1 .. Len(d) : (t \o d)[Len(t) + i] = d[i]
    <2>1. t \in Seq(Byte) /\ d \in Seq(Byte)
      BY <1>6, <1>8
    <2> QED
      BY <2>1, Joined
  <1>11. /\ a \in Seq(Byte) /\ Len(a) = 3 + Len(d)
         /\ \A i \in 1 .. 3 : a[i] = t[i]
         /\ \A i \in 1 .. Len(d) : a[3 + i] = d[i]
    BY <1>6, <1>9, <1>10
  <1>12. a[1] = Len(c.data) /\ a[2] = c.offset % 256 /\ a[3] = c.offset \div 256
    BY <1>3, <1>4, <1>9, <1>11
  <1> QED
    BY <1>1, <1>2, <1>11, <1>12 DEF a, d

\* Arguments are bytes and fit a frame.
LEMMA PackedType ==
  ASSUME NEW c \in Calls
  PROVE  PackArguments(c) \in Seq(Byte) /\ Len(PackArguments(c)) + 5 <= BUFFER_LEN
  <1> DEFINE a == PackArguments(c)
             B == BUFFER_LEN
             b == c.app_id
             e == c.action
  <1>0. B \in Nat /\ B >= 12
    BY ServerAssumption
  <1>1. CASE c.method \in {ping, erasePageBuffer, boot}
    <2>1. a = <<>>
      BY <1>1, PackedNone
    <2> HIDE DEF a, B
    <2> QED
      BY <1>0, <2>1 DEF a, B
  <1>2. CASE c.method = eraseApp
    <2>1. a = <<b>> /\ b \in Byte
      BY <1>2, PackedByte
    <2> HIDE DEF a, b, B
    <2>2. a \in Seq(Byte) /\ Len(a) = 1
      BY <2>1
    <2> QED
      BY <1>0, <2>2 DEF a, B
  <1>3. CASE c.method = setBootAction
    <2>1. a = <<e>> /\ e \in Byte
      BY <1>3, PackedByte
    <2> HIDE DEF a, e, B
    <2>2. a \in Seq(Byte) /\ Len(a) = 1
      BY <2>1
    <2> QED
      BY <1>0, <2>2 DEF a, B
  <1>4. CASE c.method = writePage
    <2>1. a \in Seq(Byte) /\ Len(a) = 7
      BY <1>4, PackedPage
    <2> HIDE DEF a, B
    <2> QED
      BY <1>0, <2>1 DEF a, B
  <1>5. CASE c.method = writePageBuffer
    <2>1. /\ PackArguments(c) \in Seq(Byte)
          /\ Len(PackArguments(c)) = 3 + Len(c.data) /\ Len(c.data) \in Byte
      BY <1>5, PackedChunk
    <2>2. Len(c.data) + 8 <= BUFFER_LEN
      BY <1>5, CallsAssumption
    <2> QED
      BY <2>1, <2>2, <1>0 DEF Byte
  <1> QED
    BY <1>1, <1>2, <1>3, <1>4, <1>5, CallCases

-----------------------------------------------------------------------------
(* The frame *)

\* The client's header is three bytes that read back as its fields.
LEMMA ClientHeaderReads ==
  ASSUME NEW m \in Methods, NEW q \in 0 .. 31, NEW b,
         \A i \in {0, 1, 2} : b[i] = ClientHeader(m, q)[i + 1]
  PROVE  /\ Version(b) = MOON_CODEC_VERSION
         /\ ReadHeader(b) = [service |-> kBootloader_service_id, method |-> m, sequence |-> q,
                             type |-> 0, protocol |-> 0]
         /\ \A i \in {0, 1, 2} : b[i] \in Byte
  <1> DEFINE h == [service |-> kBootloader_service_id, method |-> m, sequence |-> q,
                   type |-> 0, protocol |-> 0]
             w == HeaderWord(h)
  <1>1. m \in 0 .. 63 /\ m \in Nat /\ q \in Nat
    BY MethodNumbers DEF Methods
  <1>2. h \in Header
    BY <1>1 DEF Header, kBootloader_service_id
  <1>3. m % 64 = m /\ q % 32 = q
    BY <1>1
  <1>4. w = kBootloader_service_id * 4 + (m % 64) * 128 + (q % 32) * 8192
    BY <1>1, <1>3 DEF HeaderWord, MOON_CODEC_VERSION, kBootloader_service_id
  <1> HIDE DEF h, w
  <1>5. ClientHeader(m, q) = <<w % 256, (w \div 256) % 256, (w \div 65536) % 256>>
    BY <1>4 DEF ClientHeader
  <1>6. b[0] = w % 256 /\ b[1] = (w \div 256) % 256 /\ b[2] = (w \div 65536) % 256
    BY <1>5
  <1>7. \A i \in {0, 1, 2} : b[i] = HeaderByte(h, i)
    BY <1>6 DEF HeaderByte, w
  <1>8. \A i : HeaderByte(h, i) \in Byte
    BY <1>2, HeaderByteType
  <1>9. ReadHeader(b) = h /\ Version(b) = MOON_CODEC_VERSION
    BY <1>2, <1>7, RoundTrip
  <1> QED
    BY <1>7, <1>8, <1>9 DEF h

\* The frame is the header with the arguments behind it, and fits the buffer.
LEMMA FrameShape ==
  ASSUME NEW c \in Calls, NEW q \in 0 .. 31
  PROVE  LET f == ClientFrame(c, q)
             a == PackArguments(c)
         IN  /\ f \in Payloads
             /\ Len(f) = 3 + Len(a) /\ Len(a) \in Nat
             /\ \A i \in 1 .. 3 : f[i] = ClientHeader(c.method, q)[i]
             /\ \A i \in 1 .. Len(a) : f[3 + i] = a[i]
  <1> DEFINE h == ClientHeader(c.method, q)
             a == PackArguments(c)
             x == [i \in {0, 1, 2} |-> h[i + 1]]
  <1>1. c.method \in Methods
    BY CallCases
  <1>2. \A i \in {0, 1, 2} : x[i] = h[i + 1]
    OBVIOUS
  <1>3. \A i \in {0, 1, 2} : x[i] \in Byte
    BY <1>1, <1>2, ClientHeaderReads
  <1>4. h[1] \in Byte /\ h[2] \in Byte /\ h[3] \in Byte
    BY <1>3
  <1>5. \E u, v, w : h = <<u, v, w>>
    BY DEF ClientHeader
  <1>6. a \in Seq(Byte) /\ Len(a) + 5 <= BUFFER_LEN
    BY PackedType
  <1> HIDE DEF h, a, x
  <1>7. h \in Seq(Byte) /\ Len(h) = 3
    BY <1>4, <1>5
  <1> DEFINE f == h \o a
  <1>8. /\ f \in Seq(Byte) /\ Len(f) = Len(h) + Len(a) /\ Len(a) \in Nat
        /\ \A i \in 1 .. Len(h) : f[i] = h[i]
        /\ \A i \in 1 .. Len(a) : f[Len(h) + i] = a[i]
    <2>1. h \in Seq(Byte) /\ a \in Seq(Byte)
      BY <1>6, <1>7
    <2> QED
      BY <2>1, Joined
  <1>9. ClientFrame(c, q) = f
    BY DEF ClientFrame, h, a
  <1> HIDE DEF f
  <1>10. BUFFER_LEN \in Nat
    BY ServerAssumption
  <1>11. f \in Payloads
    BY <1>6, <1>7, <1>8, <1>10 DEF Payloads
  <1> QED
    BY <1>7, <1>8, <1>9, <1>11 DEF h, a

\* Counted from 0, as the server does.
LEMMA FrameAt ==
  ASSUME NEW c \in Calls, NEW q \in 0 .. 31
  PROVE  LET b == At(ClientFrame(c, q))
             a == PackArguments(c)
         IN  /\ \A i \in {0, 1, 2} : b[i] = ClientHeader(c.method, q)[i + 1]
             /\ \A i \in 1 .. Len(a) : b[2 + i] = a[i]
  <1> DEFINE f == ClientFrame(c, q)
             a == PackArguments(c)
             h == ClientHeader(c.method, q)
  <1>1. /\ Len(f) = 3 + Len(a) /\ Len(a) \in Nat
        /\ \A i \in 1 .. 3 : f[i] = h[i]
        /\ \A i \in 1 .. Len(a) : f[3 + i] = a[i]
    BY FrameShape
  <1>2. \A i \in 0 .. Len(f) - 1 : At(f)[i] = f[i + 1]
    BY DEF At
  <1> HIDE DEF f, a, h
  <1>3. \A i \in {0, 1, 2} : At(f)[i] = h[i + 1]
    BY <1>1, <1>2
  <1>4. ASSUME NEW i \in 1 .. Len(a) PROVE At(f)[2 + i] = a[i]
    <2>1. 2 + i \in 0 .. Len(f) - 1 /\ (2 + i) + 1 = 3 + i
      BY <1>1
    <2> QED
      BY <1>1, <1>2, <2>1
  <1> QED
    BY <1>3, <1>4 DEF f, a, h

-----------------------------------------------------------------------------
(* What the shims read *)

\* Where the arguments of a call lie in its frame, and that the shim of its
\* method reads them back, from any bytes that agree with the frame there.
LEMMA Unpacked ==
  ASSUME NEW c \in Calls, NEW q \in 0 .. 31, NEW b,
         \A i \in 1 .. Len(PackArguments(c)) : b[2 + i] = PackArguments(c)[i]
  PROVE  /\ Passed(c.method, b) = c
         /\ Arguments(c.method, b) = 3 .. 2 + Len(PackArguments(c))
         /\ c.method = writePageBuffer => Len(PackArguments(c)) >= 1
  <1> DEFINE a == PackArguments(c)
  <1>0. \A i \in 1 .. Len(a) : b[2 + i] = a[i]
    OBVIOUS
  <1>1. CASE c.method \in {ping, erasePageBuffer, boot}
    <2>1. Arguments(c.method, b) = {}
      BY <1>1, MethodNumbers DEF Arguments
    <2>2. Passed(c.method, b) = [method |-> c.method]
      BY <1>1, MethodNumbers DEF Passed
    <2>3. c = [method |-> c.method]
      BY <1>1, CallCases, MethodNumbers
    <2>4. c.method # writePageBuffer
      BY <1>1, MethodNumbers
    <2>5. 3 .. 2 + Len(a) = {}
      <3>1. a = <<>>
        BY <1>1, PackedNone
      <3> HIDE DEF a
      <3> QED
        BY <3>1
    <2> QED
      BY <2>1, <2>2, <2>3, <2>4, <2>5
  <1>2. CASE c.method = eraseApp
    <2>1. a = <<c.app_id>>
      BY <1>2, PackedByte
    <2>2. b[2 + 1] = c.app_id /\ Len(a) = 1
      <3> DEFINE x == c.app_id
      <3>1. a = <<x>>
        BY <2>1
      <3> HIDE DEF a, x
      <3>2. Len(a) = 1 /\ a[1] = x
        BY <3>1
      <3>3. b[2 + 1] = x
        BY <1>0, <3>2
      <3> QED
        BY <3>2, <3>3 DEF x
    <2>3. Arguments(c.method, b) = {3}
      BY <1>2, MethodNumbers DEF Arguments
    <2>4. Passed(c.method, b) = [method |-> c.method, app_id |-> b[3]]
      BY <1>2, MethodNumbers DEF Passed
    <2>5. c = [method |-> c.method, app_id |-> c.app_id]
      BY <1>2, CallCases, MethodNumbers
    <2>6. c.method # writePageBuffer
      BY <1>2, MethodNumbers
    <2> HIDE DEF a
    <2>7. b[3] = c.app_id
      BY <2>2
    <2>8. Passed(c.method, b) = c
      BY <2>4, <2>5, <2>7
    <2>9. Arguments(c.method, b) = 3 .. 2 + Len(a)
      BY <2>2, <2>3
    <2> QED
      BY <2>6, <2>8, <2>9 DEF a
  <1>3. CASE c.method = setBootAction
    <2>1. a = <<c.action>>
      BY <1>3, PackedByte
    <2>2. b[2 + 1] = c.action /\ Len(a) = 1
      <3> DEFINE x == c.action
      <3>1. a = <<x>>
        BY <2>1
      <3> HIDE DEF a, x
      <3>2. Len(a) = 1 /\ a[1] = x
        BY <3>1
      <3>3. b[2 + 1] = x
        BY <1>0, <3>2
      <3> QED
        BY <3>2, <3>3 DEF x
    <2>3. Arguments(c.method, b) = {3}
      BY <1>3, MethodNumbers DEF Arguments
    <2>4. Passed(c.method, b) = [method |-> c.method, action |-> b[3]]
      BY <1>3, MethodNumbers DEF Passed
    <2>5. c = [method |-> c.method, action |-> c.action]
      BY <1>3, CallCases, MethodNumbers
    <2>6. c.method # writePageBuffer
      BY <1>3, MethodNumbers
    <2> HIDE DEF a
    <2>7. b[3] = c.action
      BY <2>2
    <2>8. Passed(c.method, b) = c
      BY <2>4, <2>5, <2>7
    <2>9. Arguments(c.method, b) = 3 .. 2 + Len(a)
      BY <2>2, <2>3
    <2> QED
      BY <2>6, <2>8, <2>9 DEF a
  <1>4. CASE c.method = writePage
    <2>1. /\ Len(a) = 7 /\ c.crc \in U32 /\ c.page_no \in U16
          /\ a[1] = c.app_id
          /\ a[2] = c.crc % 256 /\ a[3] = (c.crc \div 256) % 256
          /\ a[4] = (c.crc \div 65536) % 256 /\ a[5] = c.crc \div 16777216
          /\ a[6] = c.page_no % 256 /\ a[7] = c.page_no \div 256
      BY <1>4, PackedPage
    <2> HIDE DEF a
    <2>2. /\ b[2 + 1] = a[1] /\ b[2 + 2] = a[2] /\ b[2 + 3] = a[3] /\ b[2 + 4] = a[4]
          /\ b[2 + 5] = a[5] /\ b[2 + 6] = a[6] /\ b[2 + 7] = a[7]
      BY <1>0, <2>1
    <2>3. /\ b[3] = a[1] /\ b[4] = a[2] /\ b[5] = a[3] /\ b[6] = a[4]
          /\ b[7] = a[5] /\ b[8] = a[6] /\ b[9] = a[7]
      BY <2>2
    <2>4. b[8] + 256 * b[9] = c.page_no
      BY <2>1, <2>3, U16Bytes
    <2>5. b[4] + 256 * b[5] + 65536 * b[6] + 16777216 * b[7] = c.crc
      BY <2>1, <2>3, U32Bytes
    <2>6. Passed(c.method, b) =
            [method  |-> c.method,
             app_id  |-> b[3],
             page_no |-> b[8] + 256 * b[9],
             crc     |-> b[4] + 256 * b[5] + 65536 * b[6] + 16777216 * b[7]]
      BY <1>4, MethodNumbers DEF Passed
    <2>7. c = [method |-> c.method, app_id |-> c.app_id, page_no |-> c.page_no, crc |-> c.crc]
      BY <1>4, CallCases, MethodNumbers
    <2>8. Passed(c.method, b) = c
      BY <2>1, <2>3, <2>4, <2>5, <2>6, <2>7
    <2>9. Arguments(c.method, b) = 3 .. 9
      BY <1>4, MethodNumbers DEF Arguments
    <2>10. c.method # writePageBuffer
      BY <1>4, MethodNumbers
    <2>11. Arguments(c.method, b) = 3 .. 2 + Len(a)
      BY <2>1, <2>9
    <2> QED
      BY <2>8, <2>10, <2>11 DEF a
  <1>5. CASE c.method = writePageBuffer
    <2> DEFINE d == c.data
               n == Len(d)
    <2>1. /\ Len(a) = 3 + n /\ d \in Seq(Byte) /\ n \in Byte /\ c.offset \in U16
          /\ a[1] = n /\ a[2] = c.offset % 256 /\ a[3] = c.offset \div 256
          /\ \A i \in 1 .. n : a[3 + i] = d[i]
      BY <1>5, PackedChunk
    <2>2. d = [i \in 1 .. n |-> d[i]]
      BY <2>1, LenProperties
    <2>3. n \in Nat
      BY <2>1, LenProperties
    <2>4. c = [method |-> c.method, offset |-> c.offset, data |-> d]
      BY <1>5, CallCases, MethodNumbers
    <2>5. Passed(c.method, b) =
            [method |-> c.method, offset |-> b[4] + 256 * b[5], data |-> [i \in 1 .. b[3] |-> b[5 + i]]]
      BY <1>5, MethodNumbers DEF Passed
    <2>6. Arguments(c.method, b) = (3 .. 5) \cup (6 .. 5 + b[3])
      BY <1>5, MethodNumbers DEF Arguments
    <2> HIDE DEF a, d, n
    <2>7. b[2 + 1] = a[1] /\ b[2 + 2] = a[2] /\ b[2 + 3] = a[3]
      BY <1>0, <2>1, <2>3
    <2>8. b[3] = n /\ b[4] = c.offset % 256 /\ b[5] = c.offset \div 256
      BY <2>1, <2>7
    <2>9. b[4] + 256 * b[5] = c.offset
      BY <2>1, <2>8, U16Bytes
    <2>10. ASSUME NEW i \in 1 .. n PROVE b[5 + i] = d[i]
      <3>1. 3 + i \in 1 .. Len(a) /\ 2 + (3 + i) = 5 + i
        BY <2>1, <2>3
      <3> QED
        BY <1>0, <2>1, <3>1
    <2>11. [i \in 1 .. b[3] |-> b[5 + i]] = d
      BY <2>2, <2>8, <2>10
    <2>12. Passed(c.method, b) = c
      BY <2>4, <2>5, <2>9, <2>11
    <2>13. Arguments(c.method, b) = 3 .. 2 + Len(a)
      BY <2>1, <2>3, <2>6, <2>8
    <2>14. Len(a) >= 1
      BY <2>1, <2>3
    <2> QED
      BY <2>12, <2>13, <2>14 DEF a
  <1> QED
    BY <1>1, <1>2, <1>3, <1>4, <1>5, CallCases

\* A frame of the client is a complete request, and its arguments are there.
LEMMA FrameIsComplete ==
  ASSUME NEW c \in Calls, NEW q \in 0 .. 31
  PROVE  LET f == ClientFrame(c, q)
         IN  /\ f \in Payloads /\ Complete(f)
             /\ ReadHeader(At(f)) = [service |-> kBootloader_service_id, method |-> c.method,
                                     sequence |-> q, type |-> 0, protocol |-> 0]
             /\ Passed(c.method, CallOf(c.method, At(f)).args) = c
  <1> DEFINE f == ClientFrame(c, q)
             a == PackArguments(c)
             m == c.method
             h == [service |-> kBootloader_service_id, method |-> m, sequence |-> q,
                   type |-> 0, protocol |-> 0]
             g == CallOf(m, At(f)).args
  <1>1. f \in Payloads /\ Len(f) = 3 + Len(a) /\ Len(a) \in Nat
    BY FrameShape
  <1>2. /\ \A i \in {0, 1, 2} : At(f)[i] = ClientHeader(m, q)[i + 1]
        /\ \A i \in 1 .. Len(a) : At(f)[2 + i] = a[i]
    BY FrameAt
  <1>3. m \in Methods
    BY CallCases
  <1>4. Version(At(f)) = MOON_CODEC_VERSION /\ ReadHeader(At(f)) = h
    BY <1>2, <1>3, ClientHeaderReads
  <1>5. /\ Arguments(m, At(f)) = 3 .. 2 + Len(a)
        /\ m = writePageBuffer => Len(a) >= 1
    BY <1>2, Unpacked
  <1>6. h.method = m
    OBVIOUS
  <1>7. Readable(f)
    BY <1>1, <1>4 DEF Readable
  <1>8. Arguments(m, At(f)) \subseteq 0 .. Len(f) - 1
    <2> HIDE DEF f, a, m
    <2> QED
      BY <1>1, <1>5
  <1>9. m = writePageBuffer => Len(f) >= 4
    <2> HIDE DEF f, a, m
    <2> QED
      BY <1>1, <1>5
  <1>10. Complete(f)
    BY <1>4, <1>6, <1>7, <1>8, <1>9 DEF Complete
  <1>11. g = [i \in Arguments(m, At(f)) \cap 0 .. BUFFER_LEN - 1 |-> At(f)[i]]
    BY DEF CallOf
  <1>12. BUFFER_LEN \in Nat /\ Len(f) + 2 <= BUFFER_LEN
    <2>1. Len(f) <= BUFFER_LEN - 2 /\ BUFFER_LEN \in Nat
      BY <1>1, ServerAssumption DEF Payloads
    <2> QED
      BY <1>1, <2>1
  <1>13. \A i \in 1 .. Len(a) : g[2 + i] = a[i]
    <2> HIDE DEF f, g, m, a
    <2> TAKE i \in 1 .. Len(a)
    <2>1. 2 + i \in Arguments(m, At(f)) \cap 0 .. BUFFER_LEN - 1
      BY <1>1, <1>5, <1>12
    <2> QED
      BY <1>2, <1>11, <2>1
  <1>14. Passed(m, g) = c
    <2> HIDE DEF g
    <2> QED
      BY <1>13, Unpacked
  <1> QED
    BY <1>1, <1>4, <1>10, <1>14

-----------------------------------------------------------------------------
(* The theorems *)

RpcInv == TypeOK /\ sequence \in 0 .. 31

\* A call keeps the server's types and takes a sequence number of five bits.
LEMMA CallType ==
  ASSUME RpcInv, NEW c \in Calls, perform_request(c)
  PROVE  RpcInv' /\ moon_server_poll(ClientFrame(c, sequence'))
  <1>1. sequence' \in 0 .. 31
    <2>1. SEQUENCES \in 1 .. 32
      BY CallsAssumption
    <2>2. sequence' = (sequence + 1) % SEQUENCES /\ sequence \in Nat
      BY DEF perform_request, NextSequence, RpcInv
    <2> QED
      BY <2>1, <2>2
  <1>2. moon_server_poll(ClientFrame(c, sequence'))
    BY DEF perform_request
  <1>3. ClientFrame(c, sequence') \in Payloads
    BY <1>1, FrameShape
  <1>4. TypeOK'
    BY <1>2, <1>3, PollType DEF RpcInv
  <1> QED
    BY <1>1, <1>2, <1>4 DEF RpcInv

\* A frame of nobody's call does, too.
LEMMA OtherType ==
  ASSUME RpcInv, OtherFrame
  PROVE  RpcInv'
  <1>1. TypeOK /\ Next
    BY DEF RpcInv, OtherFrame
  <1>2. ASSUME NEW f \in Frames, moon_server_poll(f) PROVE TypeOK'
    BY <1>1, <1>2, PollType, ServerAssumption
  <1>3. ASSUME NEW f \in BrokenFrames, BrokenFrame(f) PROVE TypeOK'
    <2>1. buffer' \in [0 .. BUFFER_LEN - 1 -> Byte]
      BY <1>1, <1>3, ReceivedType, ServerAssumption DEF BrokenFrame, TypeOK
    <2> QED
      BY <1>1, <1>3, <2>1 DEF BrokenFrame, TypeOK
  <1> QED
    BY <1>1, <1>2, <1>3 DEF Next, OtherFrame, RpcInv

\* Whatever is called and whatever else arrives in between, the server's header
\* and buffer keep their types, and the client's numbers their five bits.
THEOREM RpcTypeCorrect == RpcSpec => []RpcInv
  <1>1. RpcInit => RpcInv
    BY TypeInit DEF RpcInit, RpcInv
  <1>2. RpcInv /\ [RpcNext]_rpcVars => RpcInv'
    <2> SUFFICES ASSUME RpcInv, [RpcNext]_rpcVars PROVE RpcInv'
      OBVIOUS
    <2>1. ASSUME NEW c \in Calls, perform_request(c) PROVE RpcInv'
      BY <2>1, CallType
    <2>2. CASE OtherFrame
      BY <2>2, OtherType
    <2>3. CASE UNCHANGED rpcVars
      BY <2>3 DEF rpcVars, vars, RpcInv, TypeOK
    <2> QED
      BY <2>1, <2>2, <2>3 DEF RpcNext
  <1> QED
    BY <1>1, <1>2, PTL DEF RpcSpec

\* What the server makes of a call's frame: the call, with its own arguments,
\* and a reply that names it.
LEMMA CallHandled ==
  ASSUME RpcInv, NEW c \in Calls, perform_request(c)
  PROVE  /\ Passed(called'.method, called'.args) = c
         /\ Version(reply') = MOON_CODEC_VERSION
         /\ ReadHeader(reply').sequence = sequence'
         /\ ReadHeader(reply').type = MSG_TYPE_SINGLE_NORMAL
         /\ ReadHeader(reply').protocol = MOON_PROT_OK
         /\ c.method \notin {ping, erasePageBuffer} => 3 \in DOMAIN reply'
  <1> DEFINE q == sequence'
             f == ClientFrame(c, q)
             h == [service |-> kBootloader_service_id, method |-> c.method, sequence |-> q,
                   type |-> 0, protocol |-> 0]
  <1>1. q \in 0 .. 31 /\ moon_server_poll(f) /\ TypeOK
    BY CallType DEF RpcInv
  <1>2. /\ f \in Payloads /\ Complete(f) /\ ReadHeader(At(f)) = h
        /\ Passed(c.method, CallOf(c.method, At(f)).args) = c
    BY <1>1, FrameIsComplete
  <1>3. Understood(f) = h
    BY <1>1, <1>2, UnderstoodFrame DEF Complete
  <1>4. CallOf(h.method, Received(f)) = CallOf(h.method, At(f))
    BY <1>1, <1>2, OwnArguments
  <1>5. Protocol(h) = MOON_PROT_OK
    BY CallCases DEF Protocol
  <1>6. called' = CallOf(c.method, At(f))
    BY <1>1, <1>3, <1>4, <1>5 DEF moon_server_poll
  <1>7. called'.method = c.method
    BY <1>6 DEF CallOf
  <1>8. /\ DOMAIN reply' = 0 .. ReplyLength(h) - 1
        /\ ReadHeader(reply') = Response(h)
        /\ Version(reply') = MOON_CODEC_VERSION
    BY <1>1, <1>2, <1>3, ReplyReads
  <1>9. Response(h).sequence = q /\ Response(h).type = MSG_TYPE_SINGLE_NORMAL
          /\ Response(h).protocol = MOON_PROT_OK
    BY <1>5 DEF Response
  <1>10. c.method \notin {ping, erasePageBuffer} => 3 \in DOMAIN reply'
    BY <1>5, <1>8 DEF ReplyLength
  <1> QED
    BY <1>2, <1>6, <1>7, <1>8, <1>9, <1>10

\* Every call reaches its method with the arguments it was made with: what
\* client.py packs, with its arguments rearranged by hand, is what the shims
\* read at their offsets, for all arguments of the interface's widths.
THEOREM ArgumentsAlwaysArrive == RpcSpec => []ArgumentsArrive
  <1>1. RpcInit => ArgumentsArrive
    BY DEF RpcInit, ArgumentsArrive
  <1>2. RpcInv /\ ArgumentsArrive /\ [RpcNext]_rpcVars => ArgumentsArrive'
    <2> SUFFICES ASSUME RpcInv, ArgumentsArrive, [RpcNext]_rpcVars PROVE ArgumentsArrive'
      OBVIOUS
    <2>1. ASSUME NEW c \in Calls, perform_request(c) PROVE ArgumentsArrive'
      <3>1. Passed(called'.method, called'.args) = c
        BY <2>1, CallHandled
      <3>2. asked' = c
        BY <2>1 DEF perform_request
      <3> QED
        BY <3>1, <3>2 DEF ArgumentsArrive, Passed
    <2>2. CASE OtherFrame
      BY <2>2 DEF OtherFrame, ArgumentsArrive
    <2>3. CASE UNCHANGED rpcVars
      BY <2>3 DEF rpcVars, vars, ArgumentsArrive, Passed
    <2> QED
      BY <2>1, <2>2, <2>3 DEF RpcNext
  <1> QED
    BY <1>1, <1>2, RpcTypeCorrect, PTL DEF RpcSpec

\* Every delivered call returns to its caller: no reply is refused for its
\* version, type, sequence number, protocol field or length.
THEOREM CallsAlwaysReturn == RpcSpec => []CallsReturn
  <1>1. RpcInit => CallsReturn
    BY DEF RpcInit, CallsReturn
  <1>2. RpcInv /\ CallsReturn /\ [RpcNext]_rpcVars => CallsReturn'
    <2> SUFFICES ASSUME RpcInv, CallsReturn, [RpcNext]_rpcVars PROVE CallsReturn'
      OBVIOUS
    <2>1. ASSUME NEW c \in Calls, perform_request(c) PROVE CallsReturn'
      <3>1. /\ Version(reply') = MOON_CODEC_VERSION
            /\ ReadHeader(reply').sequence = sequence'
            /\ ReadHeader(reply').type = MSG_TYPE_SINGLE_NORMAL
            /\ ReadHeader(reply').protocol = MOON_PROT_OK
            /\ c.method \notin {ping, erasePageBuffer} => 3 \in DOMAIN reply'
        BY <2>1, CallHandled
      <3>2. ClientReads(reply') = [sequence |-> sequence', type |-> MSG_TYPE_SINGLE_NORMAL,
                                   protocol |-> MOON_PROT_OK]
        BY <3>1 DEF ClientReads, ReadHeader
      <3>3. outcome' = Outcome(c, sequence', reply')
        BY <2>1 DEF perform_request
      <3>4. outcome' = "returned"
        BY <3>1, <3>2, <3>3 DEF Outcome
      <3> QED
        BY <3>4 DEF CallsReturn
    <2>2. CASE OtherFrame
      BY <2>2 DEF OtherFrame, CallsReturn
    <2>3. CASE UNCHANGED rpcVars
      BY <2>3 DEF rpcVars, CallsReturn
    <2> QED
      BY <2>1, <2>2, <2>3 DEF RpcNext
  <1> QED
    BY <1>1, <1>2, RpcTypeCorrect, PTL DEF RpcSpec
=============================================================================
