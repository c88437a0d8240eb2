----------------------------- MODULE SllProofs -----------------------------
(***************************************************************************)
(* Theorems about the link layer, for every byte width, payload limit and  *)
(* CRC that satisfies the assumptions of Sll.                              *)
(***************************************************************************)
EXTENDS Link, TLAPS

USE DEF SLL_FRAME_DATA_START, SLL_MAX_MSG_LEN

Crcs == INSTANCE CrcProofs

-----------------------------------------------------------------------------
(* The CRC of a sequence *)

\* The register keeps its width whatever byte comes in.
LEMMA RegisterType ==
  ASSUME NEW r \in Register, NEW c \in Byte
  PROVE  crc_16ibm_update(r, c) \in Register
  BY CrcAssumption

\* Bytes, the initial register and the payload limit are numbers.
LEMMA ByteType ==
  /\ Byte \subseteq Nat /\ 0 \in Register /\ CRC_16IBM_INIT_VALUE \in Register
  /\ SLL_MAX_PAYLOD_LEN \in Nat
  BY SllAssumption, SMT DEF Byte, Register, CRC_16IBM_INIT_VALUE

\* f is the register after each of the first k bytes of a sequence.
Registers(f, bytes, k) ==
  /\ f \in [0 .. k -> Register]
  /\ f[0] = CRC_16IBM_INIT_VALUE
  /\ \A n \in 1 .. k : f[n] = crc_16ibm_update(f[n - 1], bytes[n])

\* There is one such function for every length ...
LEMMA RegistersExist ==
  ASSUME NEW bytes \in Seq(Byte), NEW k \in 0 .. Len(bytes)
  PROVE  \E f : Registers(f, bytes, k)
<1> DEFINE S == {n \in Nat : n <= Len(bytes) => \E f : Registers(f, bytes, n)}
<1>1. 0 \in S
  <2> DEFINE g == [i \in 0 .. 0 |-> CRC_16IBM_INIT_VALUE]
  <2>1. Registers(g, bytes, 0)
    BY ByteType DEF Registers
  <2> HIDE DEF g
  <2> QED
    BY <2>1
<1>2. ASSUME NEW n \in Nat, n \in S PROVE n + 1 \in S
  <2> SUFFICES ASSUME n + 1 <= Len(bytes) PROVE \E f : Registers(f, bytes, n + 1)
    BY DEF S
  <2>1. n <= Len(bytes) /\ bytes[n + 1] \in Byte
    OBVIOUS
  <2>2. PICK f : Registers(f, bytes, n)
    BY <1>2, <2>1
  <2> DEFINE g == [i \in 0 .. n + 1 |->
                     IF i = n + 1 THEN crc_16ibm_update(f[n], bytes[n + 1]) ELSE f[i]]
  <2>3. crc_16ibm_update(f[n], bytes[n + 1]) \in Register
    BY <2>1, <2>2, RegisterType DEF Registers
  <2>4. g \in [0 .. n + 1 -> Register] /\ g[0] = CRC_16IBM_INIT_VALUE
    BY <2>2, <2>3 DEF Registers
  <2>5. ASSUME NEW i \in 1 .. n + 1 PROVE g[i] = crc_16ibm_update(g[i - 1], bytes[i])
    BY <2>2 DEF Registers
  <2> HIDE DEF g
  <2>6. Registers(g, bytes, n + 1)
    BY <2>4, <2>5 DEF Registers
  <2> QED
    BY <2>6
<1> HIDE DEF S
<1>3. Nat \subseteq S
  BY <1>1, <1>2, Crcs!SetInduction
<1> QED
  BY <1>3 DEF S

\* ... which the bytes up to each place determine ...
LEMMA RegistersUnique ==
  ASSUME NEW s \in Seq(Byte), NEW t \in Seq(Byte), NEW j \in Nat, NEW k \in Nat,
         NEW f, NEW g, Registers(f, s, j), Registers(g, t, k),
         NEW m \in Nat, m <= j, m <= k, \A i \in 1 .. m : s[i] = t[i]
  PROVE  f[m] = g[m]
<1> DEFINE S == {n \in Nat : n <= m => f[n] = g[n]}
<1>1. 0 \in S
  BY DEF Registers
<1>2. ASSUME NEW n \in Nat, n \in S PROVE n + 1 \in S
  BY <1>2 DEF Registers
<1> HIDE DEF S
<1>3. Nat \subseteq S
  BY <1>1, <1>2, Crcs!SetInduction
<1> QED
  BY <1>3 DEF S

\* ... and whose last value is CrcOf.
LEMMA CrcOfIsLast ==
  ASSUME NEW bytes \in Seq(Byte)
  PROVE  \E f : Registers(f, bytes, Len(bytes)) /\ CrcOf(bytes) = f[Len(bytes)]
<1> DEFINE Step(f) == [n \in 0 .. Len(bytes) |->
                         IF n = 0 THEN CRC_16IBM_INIT_VALUE ELSE crc_16ibm_update(f[n - 1], bytes[n])]
           after == CHOOSE f : f = Step(f)
<1>1. PICK f : Registers(f, bytes, Len(bytes))
  BY RegistersExist
<1>2. f = Step(f)
  BY <1>1 DEF Registers
<1>3. after = Step(after)
  <2> HIDE DEF Step
  <2> QED
    BY <1>2
<1>4. CrcOf(bytes) = after[Len(bytes)]
  BY DEF CrcOf
<1> HIDE DEF after
<1>5. after[0] = CRC_16IBM_INIT_VALUE /\ DOMAIN after = 0 .. Len(bytes)
  BY <1>3
<1>6. \A n \in 1 .. Len(bytes) : after[n] = crc_16ibm_update(after[n - 1], bytes[n])
  BY <1>3
<1> HIDE DEF Step
<1>7. after \in [0 .. Len(bytes) -> Register]
  <2> DEFINE S == {n \in Nat : n <= Len(bytes) => after[n] \in Register}
  <2>1. 0 \in S
    BY <1>5, ByteType
  <2>2. ASSUME NEW n \in Nat, n \in S PROVE n + 1 \in S
    <3> SUFFICES ASSUME n + 1 <= Len(bytes) PROVE after[n + 1] \in Register
      BY DEF S
    <3>1. after[n] \in Register /\ bytes[n + 1] \in Byte
      BY <2>2
    <3>2. after[n + 1] = crc_16ibm_update(after[n], bytes[n + 1])
      BY <1>6
    <3> QED
      BY <3>1, <3>2, RegisterType
  <2> HIDE DEF S
  <2>3. Nat \subseteq S
    BY <2>1, <2>2, Crcs!SetInduction
  <2>4. \A n \in 0 .. Len(bytes) : after[n] \in Register
    BY <2>3 DEF S
  <2>5. after = [n \in 0 .. Len(bytes) |-> after[n]]
    BY <1>3 DEF Step
  <2> QED
    BY <2>4, <2>5
<1>8. Registers(after, bytes, Len(bytes))
  BY <1>5, <1>6, <1>7 DEF Registers
<1> QED
  BY <1>4, <1>8

LEMMA CrcOfType ==
  ASSUME NEW bytes \in Seq(Byte)
  PROVE  CrcOf(bytes) \in Register
<1>1. PICK f : Registers(f, bytes, Len(bytes)) /\ CrcOf(bytes) = f[Len(bytes)]
  BY CrcOfIsLast
<1> QED
  BY <1>1 DEF Registers

\* What decoder and encoder compute step by step is CrcOf.
LEMMA CrcOfFirst ==
  ASSUME NEW c \in Byte
  PROVE  CrcOf(<<c>>) = crc_16ibm_update(CRC_16IBM_INIT_VALUE, c)
<1>1. <<c>> \in Seq(Byte) /\ Len(<<c>>) = 1 /\ <<c>>[1] = c
  OBVIOUS
<1>2. PICK f : Registers(f, <<c>>, 1) /\ CrcOf(<<c>>) = f[1]
  BY <1>1, CrcOfIsLast
<1>3. f[1] = crc_16ibm_update(f[1 - 1], c) /\ f[0] = CRC_16IBM_INIT_VALUE
  BY <1>1, <1>2 DEF Registers
<1> QED
  BY <1>2, <1>3

LEMMA CrcOfAppend ==
  ASSUME NEW s \in Seq(Byte), NEW c \in Byte
  PROVE  CrcOf(Append(s, c)) = crc_16ibm_update(CrcOf(s), c)
<1> DEFINE t == Append(s, c)
<1>1. t \in Seq(Byte) /\ Len(t) = Len(s) + 1 /\ t[Len(t)] = c /\ Len(s) \in Nat
  OBVIOUS
<1>2. \A i \in 1 .. Len(s) : s[i] = t[i]
  OBVIOUS
<1> HIDE DEF t
<1>3. PICK f : Registers(f, s, Len(s)) /\ CrcOf(s) = f[Len(s)]
  BY CrcOfIsLast
<1>4. PICK g : Registers(g, t, Len(t)) /\ CrcOf(t) = g[Len(t)]
  BY <1>1, CrcOfIsLast
<1>5. f[Len(s)] = g[Len(s)]
  BY <1>1, <1>2, <1>3, <1>4, RegistersUnique
<1>6. g[Len(t)] = crc_16ibm_update(g[Len(s)], c)
  BY <1>1, <1>4 DEF Registers
<1> QED
  BY <1>3, <1>4, <1>5, <1>6 DEF t

\* The bytes of a register are bytes.
LEMMA RegisterBytes ==
  ASSUME NEW r \in Register
  PROVE  low(r) \in Byte /\ high(r) \in Byte
<1>1. RADIX \in Nat /\ RADIX > 0 /\ r \in Nat /\ r < RADIX * RADIX
  BY SllAssumption DEF Register
<1>2. r % RADIX \in 0 .. RADIX - 1
  BY <1>1
<1>3. r \div RADIX \in Nat /\ r = RADIX * (r \div RADIX) + (r % RADIX)
  BY <1>1
<1>4. r \div RADIX < RADIX
  <2> SUFFICES ASSUME NEW q \in Nat, q = r \div RADIX, q >= RADIX PROVE FALSE
    BY <1>1, <1>3
  <2>1. q - RADIX \in Nat /\ q = RADIX + (q - RADIX)
    BY <1>1
  <2>2. RADIX * q = RADIX * RADIX + RADIX * (q - RADIX)
    BY <1>1, <2>1
  <2>3. RADIX * (q - RADIX) >= 0
    BY <1>1, <2>1
  <2> QED
    BY <1>1, <1>2, <1>3, <2>2, <2>3
<1> QED
  BY <1>1, <1>2, <1>3, <1>4 DEF low, high, Byte

-----------------------------------------------------------------------------
(* The decoder and the encoder of the device *)

\* sll_init establishes the invariant.
LEMMA InitInv == Init => SllInv
<1> SUFFICES ASSUME Init PROVE SllInv
  OBVIOUS
<1>1. 0 \in Byte /\ 0 \in Register /\ <<>> \in Seq(Byte) /\ SLL_MAX_PAYLOD_LEN \in Nat
  BY SllAssumption, ByteType DEF Byte
<1>2. TypeOK
  BY <1>1 DEF Init, TypeOK
<1>3. Progress /\ KeepsFrame /\ DecodesExactlyFrames /\ EncodesFrame
  BY <1>1 DEF Init, Progress, KeepsFrame, DecodesExactlyFrames, EncodesFrame
<1> QED
  BY <1>2, <1>3 DEF Init, SllInv

\* While it looks for sync bytes the decoder changes nothing but its state.
LEMMA Sync1Step ==
  ASSUME SllInv, NEW c \in Byte, DecodeSync1(c)
  PROVE  SllInv'
<1>1. /\ UNCHANGED <<frame_buffer, length, idx, crc, rx>>
      /\ state = "SYNC1" /\ state' \in {"SYNC1", "SYNC2"}
      /\ call' = "decode" /\ ret' = 0
  BY DEF DecodeSync1, Decode
<1>2. TypeOK'
  BY <1>1, ByteType DEF SllInv, TypeOK
<1>3. Progress' /\ KeepsFrame'
  BY <1>1 DEF SllInv, Progress, KeepsFrame
<1>4. DecodesExactlyFrames' /\ EncodesFrame'
  BY <1>1 DEF DecodesExactlyFrames, EncodesFrame
<1> QED
  BY <1>1, <1>2, <1>3, <1>4 DEF SllInv

LEMMA Sync2Step ==
  ASSUME SllInv, NEW c \in Byte, DecodeSync2(c)
  PROVE  SllInv'
<1>1. /\ UNCHANGED <<frame_buffer, length, idx, crc>>
      /\ rx' = <<>> /\ state' \in {"LEN", "SYNC2"}
      /\ call' = "decode" /\ ret' = 0
  BY DEF DecodeSync2, Decode
<1>2. TypeOK'
  BY <1>1, ByteType DEF SllInv, TypeOK
<1>3. Progress' /\ KeepsFrame'
  BY <1>1, ByteType DEF Progress, KeepsFrame
<1>4. DecodesExactlyFrames' /\ EncodesFrame'
  BY <1>1 DEF DecodesExactlyFrames, EncodesFrame
<1> QED
  BY <1>1, <1>2, <1>3, <1>4 DEF SllInv

\* The length is the first byte under the CRC.
LEMMA LenStep ==
  ASSUME SllInv, NEW c \in Byte, DecodeLen(c)
  PROVE  SllInv'
<1>1. /\ rx' = <<c>> /\ rx' \in Seq(Byte) /\ Len(rx') = 1 /\ rx'[1] = c
      /\ frame_buffer' = frame_buffer
      /\ call' = "decode" /\ ret' = 0
  BY DEF DecodeLen, Decode
<1>2. DecodesExactlyFrames' /\ EncodesFrame'
  BY <1>1 DEF DecodesExactlyFrames, EncodesFrame
<1>3. CASE c > SLL_MAX_PAYLOD_LEN
  <2>1. state' = "SYNC1" /\ UNCHANGED <<length, idx, crc>>
    BY <1>3 DEF DecodeLen, TooLong
  <2>2. TypeOK'
    BY <1>1, <2>1, ByteType DEF SllInv, TypeOK
  <2>3. Progress' /\ KeepsFrame'
    BY <1>1, <2>1, ByteType DEF Progress, KeepsFrame
  <2> QED
    BY <1>1, <1>2, <2>1, <2>2, <2>3 DEF SllInv
<1>4. CASE ~(c > SLL_MAX_PAYLOD_LEN)
  <2>1. /\ length' = c /\ c \in 0 .. SLL_MAX_PAYLOD_LEN /\ idx' = 0
        /\ crc' = crc_16ibm_update(CRC_16IBM_INIT_VALUE, c)
        /\ state' = IF c > 0 THEN "DATA" ELSE "CRC1"
    BY <1>4, ByteType DEF DecodeLen, TooLong
  <2>2. crc' = CrcOf(rx') /\ crc' \in Register
    BY <1>1, <2>1, CrcOfFirst, CrcOfType
  <2>3. TypeOK'
    BY <1>1, <2>1, <2>2, ByteType DEF SllInv, TypeOK
  <2>4. Progress'
    BY <1>1, <2>1, ByteType DEF Progress
  <2>5. KeepsFrame'
    BY <1>1, <2>1, <2>2, ByteType DEF KeepsFrame
  <2> QED
    BY <1>1, <1>2, <2>1, <2>3, <2>4, <2>5 DEF SllInv
<1> QED
  BY <1>3, <1>4

\* A payload byte goes into the buffer, the register and the history alike.
LEMMA DataStep ==
  ASSUME SllInv, NEW c \in Byte, DecodeData(c)
  PROVE  SllInv'
<1>1. /\ state = "DATA" /\ length' = length /\ idx' = idx + 1
      /\ frame_buffer' = [frame_buffer EXCEPT ![3 + idx] = c]
      /\ state' = IF idx + 1 >= length THEN "CRC1" ELSE "DATA"
      /\ call' = "decode" /\ ret' = 0
      /\ rx' = Append(rx, c)
      /\ crc' = crc_16ibm_update(crc, c)
  BY DEF DecodeData, Decode, PayloadDone
<1>2. /\ length \in 0 .. SLL_MAX_PAYLOD_LEN /\ idx \in Nat /\ idx < length
      /\ rx \in Seq(Byte) /\ Len(rx) = idx + 1
      /\ frame_buffer \in [0 .. SLL_MAX_PAYLOD_LEN + 4 -> Byte]
  BY <1>1, ByteType DEF SllInv, TypeOK, Progress
<1>3. rx' \in Seq(Byte) /\ Len(rx') = idx + 2 /\ rx'[idx + 2] = c
      /\ \A i \in 1 .. idx + 1 : rx'[i] = rx[i]
  BY <1>1, <1>2
<1>4. crc' = CrcOf(rx') /\ crc' \in Register /\ rx'[1] = length
  <2>1. crc = CrcOf(rx) /\ rx[1] = length
    BY <1>1 DEF SllInv, KeepsFrame
  <2>2. CrcOf(rx') = crc_16ibm_update(CrcOf(rx), c)
    BY <1>1, <1>2, CrcOfAppend
  <2>3. CrcOf(rx') \in Register
    BY <1>3, CrcOfType
  <2> QED
    BY <1>1, <1>2, <1>3, <2>1, <2>2, <2>3
<1>5. frame_buffer' \in [0 .. SLL_MAX_PAYLOD_LEN + 4 -> Byte]
  BY <1>1, <1>2
<1>6. TypeOK'
  BY <1>1, <1>2, <1>3, <1>4, <1>5, ByteType DEF SllInv, TypeOK
<1>7. Progress'
  BY <1>1, <1>2, <1>3, ByteType DEF Progress
<1>8. KeepsFrame'
  <2>1. ASSUME NEW i \in 1 .. length, i < idx + 2
        PROVE  frame_buffer'[3 + (i - 1)] = rx'[i + 1]
    <3>1. CASE i = idx + 1
      BY <1>1, <1>2, <1>3, <3>1, ByteType
    <3>2. CASE i < idx + 1
      <4>1. frame_buffer[3 + (i - 1)] = rx[i + 1]
        BY <1>1, <1>2, <3>2 DEF SllInv, KeepsFrame, Data
      <4> QED
        BY <1>1, <1>2, <1>3, <3>2, <4>1
    <3> QED
      BY <1>2, <2>1, <3>1, <3>2
  <2> QED
    BY <1>1, <1>3, <1>4, <2>1 DEF KeepsFrame, Data
<1>9. DecodesExactlyFrames' /\ EncodesFrame'
  BY <1>1 DEF DecodesExactlyFrames, EncodesFrame
<1> QED
  BY <1>1, <1>6, <1>7, <1>8, <1>9 DEF SllInv

LEMMA Crc1Step ==
  ASSUME SllInv, NEW c \in Byte, DecodeCrc1(c)
  PROVE  SllInv'
<1>1. /\ state = "CRC1" /\ state' = "CRC2"
      /\ UNCHANGED <<frame_buffer, length, idx>>
      /\ call' = "decode" /\ ret' = 0
      /\ rx' = Append(rx, c)
      /\ crc' = crc_16ibm_update(crc, c)
  BY DEF DecodeCrc1, Decode
<1>2. length \in 0 .. SLL_MAX_PAYLOD_LEN /\ rx \in Seq(Byte) /\ Len(rx) = length + 1
  BY <1>1, ByteType DEF SllInv, TypeOK, Progress
<1>3. rx' \in Seq(Byte) /\ Len(rx') = length + 2
      /\ \A i \in 1 .. length + 1 : rx'[i] = rx[i]
  BY <1>1, <1>2
<1>4. crc' = CrcOf(rx') /\ crc' \in Register /\ rx'[1] = length
  <2>1. crc = CrcOf(rx) /\ rx[1] = length
    BY <1>1 DEF SllInv, KeepsFrame
  <2>2. CrcOf(rx') = crc_16ibm_update(CrcOf(rx), c)
    BY <1>1, <1>2, CrcOfAppend
  <2>3. CrcOf(rx') \in Register
    BY <1>3, CrcOfType
  <2> QED
    BY <1>1, <1>2, <1>3, <2>1, <2>2, <2>3
<1>5. TypeOK'
  BY <1>1, <1>3, <1>4, ByteType DEF SllInv, TypeOK
<1>6. Progress'
  BY <1>1, <1>3 DEF Progress
<1>7. KeepsFrame'
  <2>1. ASSUME NEW i \in 1 .. length
        PROVE  frame_buffer'[3 + (i - 1)] = rx'[i + 1]
    <3>1. frame_buffer[3 + (i - 1)] = rx[i + 1]
      BY <1>1, <1>2 DEF SllInv, KeepsFrame, Data
    <3> QED
      BY <1>1, <1>2, <1>3, <3>1
  <2> QED
    BY <1>1, <1>3, <1>4, <2>1 DEF KeepsFrame, Data
<1>8. DecodesExactlyFrames' /\ EncodesFrame'
  BY <1>1 DEF DecodesExactlyFrames, EncodesFrame
<1> QED
  BY <1>1, <1>5, <1>6, <1>7, <1>8 DEF SllInv

\* A sequence of a length, its payload and two more bytes is a frame if the
\* register that saw all but the last is zero after it: both decoders' test.
LEMMA ZeroIffWellFormed ==
  ASSUME NEW bytes \in Seq(Byte), NEW n \in 0 .. SLL_MAX_PAYLOD_LEN, NEW c \in Byte,
         Len(bytes) = n + 2, bytes[1] = n
  PROVE  crc_16ibm_update(CrcOf(bytes), c) = 0 <=> WellFormed(Append(bytes, c))
<1> DEFINE body == SubSeq(bytes, 1, n + 1)
           all == Append(bytes, c)
           sum == CrcOf(body)
           d == bytes[n + 2]
<1>1. n \in Nat /\ n <= SLL_MAX_PAYLOD_LEN
  BY ByteType
<1>2. body \in Seq(Byte) /\ Len(body) = n + 1 /\ d \in Byte
      /\ \A i \in 1 .. n + 1 : body[i] = bytes[i]
  BY <1>1
<1>3. bytes = Append(body, d)
  BY <1>1, <1>2
<1>4. all \in Seq(Byte) /\ Len(all) = n + 3 /\ all[1] = n /\ all[n + 2] = d /\ all[n + 3] = c
  BY <1>1
<1>5. SubSeq(all, 1, n + 1) = body
  BY <1>1, <1>4
<1> HIDE DEF body, all, d
<1>6. sum \in Register
  BY <1>2, CrcOfType
<1>7. CrcOf(bytes) = crc_16ibm_update(sum, d)
  BY <1>2, <1>3, CrcOfAppend
<1> HIDE DEF sum
<1>8. crc_16ibm_update(crc_16ibm_update(sum, d), c) = 0 <=> d = low(sum) /\ c = high(sum)
  BY <1>2, <1>6, CrcAssumption
<1>9. WellFormed(all) <=> d = low(sum) /\ c = high(sum)
  BY <1>1, <1>4, <1>5 DEF WellFormed, sum
<1> QED
  BY <1>7, <1>8, <1>9 DEF all

\* The last byte decides.
LEMMA Crc2Step ==
  ASSUME SllInv, NEW c \in Byte, DecodeCrc2(c)
  PROVE  SllInv'
<1>1. /\ state = "CRC2" /\ state' = "SYNC1"
      /\ UNCHANGED <<frame_buffer, length, idx>>
      /\ call' = "decode" /\ ret' = IF crc_16ibm_update(crc, c) = 0 THEN 1 ELSE -1
      /\ rx' = Append(rx, c)
      /\ crc' = crc_16ibm_update(crc, c)
  BY DEF DecodeCrc2, Decode
<1>2. length \in 0 .. SLL_MAX_PAYLOD_LEN /\ rx \in Seq(Byte) /\ Len(rx) = length + 2
  BY <1>1, ByteType DEF SllInv, TypeOK, Progress
<1>3. rx' \in Seq(Byte) /\ Len(rx') = length + 3 /\ rx' # <<>>
      /\ \A i \in 1 .. length + 2 : rx'[i] = rx[i]
  BY <1>1, <1>2
<1>4. rx[1] = length /\ crc = CrcOf(rx)
      /\ \A i \in 1 .. length : frame_buffer[3 + (i - 1)] = rx[i + 1]
  BY <1>1, <1>2 DEF SllInv, KeepsFrame, Data
<1>5. TypeOK'
  <2>1. crc' \in Register
    BY <1>1, RegisterType DEF SllInv, TypeOK
  <2> QED
    BY <1>1, <1>3, <2>1, ByteType DEF SllInv, TypeOK
<1>6. Progress' /\ KeepsFrame'
  BY <1>1, <1>2, <1>3, ByteType DEF Progress, KeepsFrame
<1>7. ret' = 1 <=> WellFormed(rx')
  BY <1>1, <1>2, <1>4, ZeroIffWellFormed
<1>8. length' = rx'[1] /\ Payload(length)' = SubSeq(rx', 2, length' + 1)
  <2>1. length' = rx'[1]
    BY <1>1, <1>2, <1>3, <1>4
  <2>2. \A i \in 1 .. length : frame_buffer[3 + (i - 1)] = rx'[i + 1]
    BY <1>2, <1>3, <1>4
  <2>3. SubSeq(rx', 2, length + 1) = [i \in 1 .. length |-> rx'[i + 1]]
    BY <1>2, <1>3
  <2>4. Payload(length)' = [i \in 1 .. length |-> frame_buffer[3 + (i - 1)]]
    BY <1>1 DEF Payload, Data
  <2> QED
    BY <1>1, <2>1, <2>2, <2>3, <2>4
<1>9. DecodesExactlyFrames'
  BY <1>1, <1>7, <1>8 DEF DecodesExactlyFrames
<1>10. EncodesFrame'
  BY <1>1 DEF EncodesFrame
<1> QED
  BY <1>1, <1>5, <1>6, <1>9, <1>10 DEF SllInv

\* What the encoder makes of a buffer with n payload bytes in it.
LEMMA EncodedBytes ==
  ASSUME NEW buffer \in [0 .. SLL_MAX_MSG_LEN - 1 -> Byte], NEW n \in 0 .. SLL_MAX_PAYLOD_LEN
  PROVE  LET sum == CrcOf(<<n>> \o [i \in 1 .. n |-> buffer[SLL_FRAME_DATA_START + i - 1]])
             out == Encoded(buffer, n)
         IN  /\ sum \in Register
             /\ out \in [0 .. SLL_MAX_MSG_LEN - 1 -> Byte]
             /\ out[0] = SLL_SYNC_SEQ_1 /\ out[1] = SLL_SYNC_SEQ_2 /\ out[2] = n
             /\ \A i \in 1 .. n : out[i + 2] = buffer[i + 2]
             /\ out[n + 3] = low(sum) /\ out[n + 4] = high(sum)
<1> DEFINE payload == [i \in 1 .. n |-> buffer[SLL_FRAME_DATA_START + i - 1]]
           sum == CrcOf(<<n>> \o payload)
           out == Encoded(buffer, n)
<1>1. n \in Nat /\ n <= SLL_MAX_PAYLOD_LEN /\ n \in Byte /\ SLL_MAX_PAYLOD_LEN \in Nat
  BY SllAssumption, ByteType DEF Byte
<1>2. payload \in Seq(Byte)
  BY <1>1
<1>3. <<n>> \o payload \in Seq(Byte)
  BY <1>1, <1>2
<1> HIDE DEF payload
<1>4. sum \in Register
  BY <1>3, CrcOfType
<1>5. low(sum) \in Byte /\ high(sum) \in Byte
  BY <1>4, RegisterBytes
<1>6. out = [buffer EXCEPT ![0] = SLL_SYNC_SEQ_1, ![1] = SLL_SYNC_SEQ_2, ![2] = n,
                           ![SLL_FRAME_DATA_START + n] = low(sum),
                           ![SLL_FRAME_DATA_START + n + 1] = high(sum)]
  BY DEF Encoded, payload
<1> HIDE DEF sum, out
<1>7. /\ out \in [0 .. SLL_MAX_MSG_LEN - 1 -> Byte]
      /\ out[0] = SLL_SYNC_SEQ_1 /\ out[1] = SLL_SYNC_SEQ_2 /\ out[2] = n
      /\ \A i \in 1 .. n : out[i + 2] = buffer[i + 2]
      /\ out[n + 3] = low(sum) /\ out[n + 4] = high(sum)
  BY <1>1, <1>5, <1>6, SllAssumption
<1> QED
  BY <1>4, <1>7 DEF sum, out, payload

\* A reply that fits is framed byte for byte as HostFrame frames it.
LEMMA EncodeFrames ==
  ASSUME SllInv, NEW reply \in Payloads, sll_encode(reply), ret' > 0
  PROVE  /\ ret' = Len(reply) + 5 /\ Len(reply) \in 0 .. SLL_MAX_PAYLOD_LEN - 1
         /\ frame_buffer' \in [0 .. SLL_MAX_MSG_LEN - 1 -> Byte]
         /\ [i \in 1 .. ret' |-> frame_buffer'[i - 1]] = HostFrame(reply)
<1> DEFINE n == Len(reply)
           written == [i \in 0 .. SLL_MAX_MSG_LEN - 1 |->
                         IF i - 2 \in 1 .. n THEN reply[i - 2] ELSE frame_buffer[i]]
           payload == [i \in 1 .. n |-> written[SLL_FRAME_DATA_START + i - 1]]
           out == Encoded(written, n)
           sum == CrcOf(<<n>> \o reply)
<1>1. n \in Nat /\ n <= SLL_MAX_PAYLOD_LEN /\ reply \in Seq(Byte) /\ reply \in [1 .. n -> Byte]
      /\ SLL_MAX_PAYLOD_LEN \in Nat
  BY ByteType DEF Payloads
<1>2. n < SLL_MAX_PAYLOD_LEN /\ ret' = n + 5 /\ frame_buffer' = out
  BY <1>1 DEF sll_encode
<1>3. written \in [0 .. SLL_MAX_MSG_LEN - 1 -> Byte]
  BY <1>1 DEF SllInv, TypeOK
<1>4. \A i \in 1 .. n : written[i + 2] = reply[i]
  BY <1>1
<1>5. payload = reply
  <2>1. \A i \in 1 .. n : payload[i] = reply[i]
    BY <1>1, <1>4
  <2> QED
    BY <1>1, <2>1
<1>6. /\ sum \in Register
      /\ out \in [0 .. SLL_MAX_MSG_LEN - 1 -> Byte]
      /\ out[0] = SLL_SYNC_SEQ_1 /\ out[1] = SLL_SYNC_SEQ_2 /\ out[2] = n
      /\ \A i \in 1 .. n : out[i + 2] = written[i + 2]
      /\ out[n + 3] = low(sum) /\ out[n + 4] = high(sum)
  <2> DEFINE made == CrcOf(<<n>> \o payload)
  <2>1. n \in 0 .. SLL_MAX_PAYLOD_LEN
    BY <1>1
  <2> HIDE DEF written, n
  <2>2. /\ made \in Register
        /\ out \in [0 .. SLL_MAX_MSG_LEN - 1 -> Byte]
        /\ out[0] = SLL_SYNC_SEQ_1 /\ out[1] = SLL_SYNC_SEQ_2 /\ out[2] = n
        /\ \A i \in 1 .. n : out[i + 2] = written[i + 2]
        /\ out[n + 3] = low(made) /\ out[n + 4] = high(made)
    BY <1>3, <2>1, EncodedBytes
  <2>3. made = sum
    BY <1>5
  <2> HIDE DEF out, made, sum
  <2> QED
    BY <2>2, <2>3
<1> HIDE DEF written, out, payload, sum, n
<1>7. HostFrame(reply) = <<SLL_SYNC_SEQ_1, SLL_SYNC_SEQ_2>> \o (<<n>> \o reply) \o <<low(sum), high(sum)>>
  BY DEF HostFrame, n, sum
<1>8. [i \in 1 .. n + 5 |-> out[i - 1]]
        = <<SLL_SYNC_SEQ_1, SLL_SYNC_SEQ_2>> \o (<<n>> \o reply) \o <<low(sum), high(sum)>>
  <2> DEFINE l == [i \in 1 .. n + 5 |-> out[i - 1]]
             r == <<SLL_SYNC_SEQ_1, SLL_SYNC_SEQ_2>> \o (<<n>> \o reply) \o <<low(sum), high(sum)>>
  <2>1. Len(reply) = n
    BY DEF n
  <2>2. /\ r \in Seq(Int \cup Byte \cup {low(sum), high(sum)}) /\ Len(r) = n + 5
        /\ r[1] = SLL_SYNC_SEQ_1 /\ r[2] = SLL_SYNC_SEQ_2 /\ r[3] = n
        /\ (\A i \in 1 .. n : r[i + 3] = reply[i])
        /\ r[n + 4] = low(sum) /\ r[n + 5] = high(sum)
    BY <1>1, <2>1, SllAssumption DEF Byte
  <2>3. \A i \in 1 .. n + 5 : i \in {1, 2, 3, n + 4, n + 5} \/ (i - 3 \in 1 .. n /\ i = (i - 3) + 3)
    BY <1>1
  <2>4. ASSUME NEW i \in 1 .. n PROVE l[i + 3] = reply[i]
    <3>1. i + 3 \in 1 .. n + 5 /\ (i + 3) - 1 = i + 2
      BY <1>1
    <3>2. out[i + 2] = reply[i]
      BY <1>4, <1>6
    <3> QED
      BY <3>1, <3>2
  <2>5. /\ l[1] = SLL_SYNC_SEQ_1 /\ l[2] = SLL_SYNC_SEQ_2 /\ l[3] = n
        /\ l[n + 4] = low(sum) /\ l[n + 5] = high(sum)
    BY <1>1, <1>6
  <2>6. DOMAIN l = 1 .. n + 5 /\ l = [i \in 1 .. n + 5 |-> l[i]]
    OBVIOUS
  <2>7. r = [i \in 1 .. n + 5 |-> r[i]]
    BY <2>2
  <2> HIDE DEF l, r
  <2>8. \A i \in 1 .. n + 5 : l[i] = r[i]
    BY <2>2, <2>3, <2>4, <2>5
  <2>9. l = r
    BY <2>6, <2>7, <2>8
  <2> QED
    BY <2>9 DEF l, r
<1>9. [i \in 1 .. ret' |-> frame_buffer'[i - 1]] = HostFrame(reply)
  BY <1>2, <1>7, <1>8
<1> QED
  BY <1>1, <1>2, <1>6, <1>9 DEF n

\* The bytes of such a frame after the sync sequence are well formed.
LEMMA HostFrameBytes ==
  ASSUME NEW payload \in Seq(Byte), Len(payload) <= SLL_MAX_PAYLOD_LEN
  PROVE  LET n == Len(payload)
             f == HostFrame(payload)
         IN  /\ f \in Seq(Byte) /\ Len(f) = n + 5
             /\ f[1] = SLL_SYNC_SEQ_1 /\ f[2] = SLL_SYNC_SEQ_2
             /\ WellFormed([i \in 1 .. n + 3 |-> f[i + 2]])
<1> DEFINE n == Len(payload)
           body == <<n>> \o payload
           sum == CrcOf(body)
           f == HostFrame(payload)
           g == [i \in 1 .. n + 3 |-> f[i + 2]]
<1>1. n \in Nat /\ n \in Byte /\ n <= SLL_MAX_PAYLOD_LEN /\ payload \in [1 .. n -> Byte]
  BY SllAssumption, ByteType DEF Byte
<1>2. body \in Seq(Byte) /\ Len(body) = n + 1 /\ body[1] = n
  BY <1>1
<1>3. sum \in Register /\ low(sum) \in Byte /\ high(sum) \in Byte
  BY <1>2, CrcOfType, RegisterBytes
<1>4. f = <<SLL_SYNC_SEQ_1, SLL_SYNC_SEQ_2>> \o body \o <<low(sum), high(sum)>>
  BY DEF HostFrame
<1> HIDE DEF body, sum, f, n
<1>5. /\ f \in Seq(Byte) /\ Len(f) = n + 5
      /\ f[1] = SLL_SYNC_SEQ_1 /\ f[2] = SLL_SYNC_SEQ_2
      /\ \A i \in 1 .. n + 1 : f[i + 2] = body[i]
      /\ f[n + 4] = low(sum) /\ f[n + 5] = high(sum)
  BY <1>1, <1>2, <1>3, <1>4, SllAssumption
<1>6. /\ g \in Seq(Byte) /\ Len(g) = n + 3 /\ g[1] = n
      /\ g[n + 2] = low(sum) /\ g[n + 3] = high(sum)
      /\ \A i \in 1 .. n + 1 : g[i] = body[i]
  BY <1>1, <1>2, <1>5
<1> HIDE DEF g
<1>7. SubSeq(g, 1, n + 1) = body
  BY <1>1, <1>2, <1>6
<1>8. WellFormed(g)
  BY <1>1, <1>6, <1>7 DEF WellFormed, sum
<1> QED
  BY <1>5, <1>8 DEF g, f, n

LEMMA EncodeStep ==
  ASSUME SllInv, NEW reply \in Payloads, sll_encode(reply)
  PROVE  SllInv'
<1>1. /\ call = "decode" /\ ret = 1 /\ call' = "encode"
      /\ UNCHANGED <<length, state, idx, crc, rx>>
  BY DEF sll_encode
<1>2. state = "SYNC1"
  BY <1>1 DEF SllInv
<1>3. Progress' /\ KeepsFrame' /\ DecodesExactlyFrames'
  BY <1>1, <1>2 DEF SllInv, Progress, KeepsFrame, DecodesExactlyFrames
<1>4. TypeOK' /\ EncodesFrame'
  <2> DEFINE n == Len(reply)
             written == [i \in 0 .. SLL_MAX_MSG_LEN - 1 |->
                           IF i - 2 \in 1 .. n THEN reply[i - 2] ELSE frame_buffer[i]]
  <2>1. n \in Nat /\ reply \in [1 .. n -> Byte] /\ SLL_MAX_PAYLOD_LEN \in Nat
    BY ByteType DEF Payloads
  <2>2. written \in [0 .. SLL_MAX_MSG_LEN - 1 -> Byte]
    BY <2>1 DEF SllInv, TypeOK
  <2>3. CASE n >= SLL_MAX_PAYLOD_LEN
    <3>1. ret' = -1 /\ frame_buffer' = written
      BY <2>3 DEF sll_encode
    <3>2. TypeOK'
      BY <1>1, <2>1, <2>2, <3>1, ByteType DEF SllInv, TypeOK
    <3> QED
      BY <1>1, <3>1, <3>2 DEF EncodesFrame
  <2>4. CASE ~(n >= SLL_MAX_PAYLOD_LEN)
    <3>1. ret' > 0
      BY <2>1, <2>4 DEF sll_encode
    <3>2. /\ ret' = n + 5 /\ n \in 0 .. SLL_MAX_PAYLOD_LEN - 1
          /\ frame_buffer' \in [0 .. SLL_MAX_MSG_LEN - 1 -> Byte]
          /\ [i \in 1 .. ret' |-> frame_buffer'[i - 1]] = HostFrame(reply)
      BY <3>1, EncodeFrames
    <3>3. TypeOK'
      BY <1>1, <2>1, <3>2, ByteType DEF SllInv, TypeOK
    <3> DEFINE f == HostFrame(reply)
    <3>4. reply \in Seq(Byte)
      BY <2>1
    <3>5. /\ f[1] = SLL_SYNC_SEQ_1 /\ f[2] = SLL_SYNC_SEQ_2
          /\ WellFormed([i \in 1 .. n + 3 |-> f[i + 2]])
      BY <2>1, <3>2, <3>4, HostFrameBytes
    <3>6. \A i \in 1 .. n + 5 : f[i] = frame_buffer'[i - 1]
      BY <3>2
    <3> HIDE DEF f, n
    <3>7. /\ 1 \in 1 .. n + 5 /\ 2 \in 1 .. n + 5 /\ ret' - 2 = n + 3
          /\ \A i \in 1 .. n + 3 : i + 2 \in 1 .. n + 5 /\ (i + 2) - 1 = i + 1
      BY <2>1, <3>2
    <3>8. [i \in 1 .. ret' - 2 |-> frame_buffer'[i + 1]] = [i \in 1 .. n + 3 |-> f[i + 2]]
      BY <3>6, <3>7
    <3>9. frame_buffer'[0] = f[1] /\ frame_buffer'[1] = f[2]
      <4>1. f[1] = frame_buffer'[1 - 1] /\ f[2] = frame_buffer'[2 - 1] /\ 1 - 1 = 0 /\ 2 - 1 = 1
        BY <3>6, <3>7
      <4> QED
        BY <4>1
    <3> QED
      BY <3>3, <3>5, <3>8, <3>9 DEF EncodesFrame
  <2> QED
    BY <2>3, <2>4
<1> QED
  BY <1>1, <1>3, <1>4 DEF SllInv

\* Every byte decoded and every reply encoded preserves the invariant.
LEMMA StepInv == SllInv /\ [Next]_vars => SllInv'
<1> SUFFICES ASSUME SllInv, [Next]_vars PROVE SllInv'
  OBVIOUS
<1>1. ASSUME NEW c \in Byte, sll_decode(c) PROVE SllInv'
  BY <1>1, Sync1Step, Sync2Step, LenStep, DataStep, Crc1Step, Crc2Step DEF sll_decode
<1>2. ASSUME NEW reply \in Payloads, sll_encode(reply) PROVE SllInv'
  BY <1>2, EncodeStep
<1>3. CASE UNCHANGED vars
  BY <1>3 DEF vars, SllInv, TypeOK, Progress, KeepsFrame, DecodesExactlyFrames, EncodesFrame,
              Data, Payload
<1> QED
  BY <1>1, <1>2, <1>3 DEF Next

\* Whatever bytes are decoded and replies encoded, the decoder knows where in
\* the frame it is and keeps what it has seen.
THEOREM DecoderInvariant == Spec => []SllInv
  BY InitInv, StepInv, PTL DEF Spec

\* The index stays in the payload, the register within its width.
THEOREM SllTypeCorrect == Spec => []TypeOK
<1>1. SllInv => TypeOK
  BY DEF SllInv
<1> QED
  BY <1>1, DecoderInvariant, PTL

\* sll.c:112-127: a frame is reported exactly if it is one.
THEOREM FramesExactly == Spec => []DecodesExactlyFrames
<1>1. SllInv => DecodesExactlyFrames
  BY DEF SllInv
<1> QED
  BY <1>1, DecoderInvariant, PTL

\* sll.c:137: what goes out is a frame.
THEOREM EncoderMakesFrames == Spec => []EncodesFrame
<1>1. SllInv => EncodesFrame
  BY DEF SllInv
<1> QED
  BY <1>1, DecoderInvariant, PTL

\* A frame ends within a length byte, a full payload and two CRC bytes.
LEMMA InvBounds == SllInv => FrameBounded
<1> SUFFICES ASSUME SllInv PROVE FrameBounded
  OBVIOUS
<1>1. /\ Len(rx) \in Nat /\ length \in Nat /\ length <= SLL_MAX_PAYLOD_LEN
      /\ state \in {"SYNC1", "SYNC2", "LEN", "DATA", "CRC1", "CRC2"}
      /\ idx \in Nat
  BY ByteType DEF SllInv, TypeOK
<1> QED
  BY <1>1, ByteType DEF SllInv, Progress, FrameBounded

THEOREM FramesAreBounded == Spec => []FrameBounded
  BY InvBounds, DecoderInvariant, PTL

\* No byte sequence makes the decoder write outside the announced payload.
LEMMA StepStaysInPayload ==
  SllInv /\ [Next]_vars =>
    [call' = "decode" =>
       \A i \in 0 .. SLL_MAX_MSG_LEN - 1 : frame_buffer'[i] # frame_buffer[i] =>
         i \in SLL_FRAME_DATA_START .. SLL_FRAME_DATA_START + length - 1]_vars
<1> SUFFICES ASSUME SllInv, [Next]_vars, call' = "decode",
                    NEW i \in 0 .. SLL_MAX_MSG_LEN - 1, frame_buffer'[i] # frame_buffer[i]
             PROVE  i \in SLL_FRAME_DATA_START .. SLL_FRAME_DATA_START + length - 1
  OBVIOUS
<1>1. PICK c \in Byte : DecodeData(c)
  BY DEF Next, sll_decode, DecodeSync1, DecodeSync2, DecodeLen, DecodeCrc1, DecodeCrc2, sll_encode, vars
<1>2. i = SLL_FRAME_DATA_START + idx
  BY <1>1 DEF DecodeData, SllInv, TypeOK
<1>3. idx \in Nat /\ length \in Nat /\ idx < length
  BY <1>1, ByteType DEF SllInv, TypeOK, Progress, DecodeData, Decode
<1> QED
  BY <1>2, <1>3

THEOREM DecoderStaysInPayload == Spec => DecodeStaysInPayload
  BY StepStaysInPayload, DecoderInvariant, PTL DEF Spec, DecodeStaysInPayload

-----------------------------------------------------------------------------
(* Both ends *)

LEMMA LinkInitInv == LinkInit => LinkInv
<1> SUFFICES ASSUME LinkInit PROVE LinkInv
  OBVIOUS
<1>1. SllInv
  BY InitInv DEF LinkInit
<1>2. 0 \in Byte /\ 0 \in Register /\ SLL_MAX_PAYLOD_LEN \in Nat
  BY SllAssumption, ByteType DEF Byte
<1>3. LinkTypeOK
  <2>1. waiting \in BOOLEAN /\ answered \in BOOLEAN /\ TypeOK
    BY <1>1 DEF LinkInit, SllInv
  <2> QED
    BY <1>2, <2>1 DEF LinkInit, LinkTypeOK
<1>4. HostProgress /\ HostKeepsFrame /\ HostDecodesExactlyFrames
  BY DEF LinkInit, HostProgress, HostKeepsFrame, HostDecodesExactlyFrames
<1> QED
  BY <1>1, <1>3, <1>4 DEF LinkInv, HostInv, LinkTypeOK

\* Payloads are sequences of bytes whose length is a byte.
LEMMA PayloadType ==
  ASSUME NEW p \in Payloads
  PROVE  p \in Seq(Byte) /\ Len(p) \in 0 .. SLL_MAX_PAYLOD_LEN
  BY ByteType DEF Payloads

\* What the client's decoder keeps and reports follows every byte.
LEMMA HostDecodeStep ==
  ASSUME HostInv, NEW c \in Byte, HostDecode(c)
  PROVE  HostInv'
<1> USE ByteType DEF HostInv
<1>1. CASE HostSync1(c)
  <2>1. /\ UNCHANGED <<hlen, hdata, hcrc, hrx>> /\ outcome' = "none"
        /\ hstate' \in {"SYNC1", "SYNC2"}
    BY <1>1 DEF HostSync1
  <2>2. HostProgress' /\ HostKeepsFrame' /\ HostDecodesExactlyFrames'
    BY <2>1 DEF HostProgress, HostKeepsFrame, HostDecodesExactlyFrames
  <2> QED
    BY <2>1, <2>2
<1>2. CASE HostSync2(c)
  <2>1. /\ UNCHANGED <<hlen, hdata, hcrc>> /\ outcome' = "none" /\ hrx' = <<>>
        /\ hstate' \in {"LEN", "SYNC2"}
    BY <1>2 DEF HostSync2
  <2>2. HostProgress' /\ HostKeepsFrame' /\ HostDecodesExactlyFrames'
    BY <2>1 DEF HostProgress, HostKeepsFrame, HostDecodesExactlyFrames
  <2> QED
    BY <2>1, <2>2
<1>3. CASE HostLen(c)
  <2>1. hlen' = c /\ hrx' = <<c>> /\ hrx' \in Seq(Byte) /\ Len(hrx') = 1 /\ hrx'[1] = c /\ c \in Nat
    BY <1>3 DEF HostLen
  <2>2. CASE c > SLL_MAX_PAYLOD_LEN
    <3>1. hstate' = "SYNC1" /\ outcome' = "invalid" /\ UNCHANGED <<hdata, hcrc>>
      BY <1>3, <2>2 DEF HostLen, HostTooLong
    <3>2. ~WellFormed(hrx')
      BY <2>1, <2>2 DEF WellFormed
    <3>3. HostProgress' /\ HostKeepsFrame' /\ HostDecodesExactlyFrames'
      BY <3>1, <3>2 DEF HostProgress, HostKeepsFrame, HostDecodesExactlyFrames
    <3> QED
      BY <2>1, <3>1, <3>3
  <2>3. CASE ~(c > SLL_MAX_PAYLOD_LEN)
    <3>1. /\ hstate' = IF c = 0 THEN "CRC1" ELSE "DATA"
          /\ outcome' = "none" /\ hdata' = <<>>
          /\ hcrc' = crc_16ibm_update(CRC_16IBM_INIT_VALUE, c)
      BY <1>3, <2>3 DEF HostLen, HostTooLong
    <3>2. hcrc' = CrcOf(hrx') /\ hcrc' \in Register
      BY <2>1, <3>1, CrcOfFirst, CrcOfType
    <3>3. HostProgress'
      BY <2>1, <3>1 DEF HostProgress
    <3>4. HostKeepsFrame'
      BY <2>1, <2>3, <3>1, <3>2 DEF HostKeepsFrame
    <3>5. HostDecodesExactlyFrames'
      BY <3>1 DEF HostDecodesExactlyFrames
    <3>6. hstate' \in {"DATA", "CRC1"} /\ hdata' \in Seq(Byte) /\ Len(hdata') = 0
      BY <3>1
    <3> QED
      BY <2>1, <3>1, <3>2, <3>3, <3>4, <3>5, <3>6
  <2> QED
    BY <2>2, <2>3
<1>4. CASE HostData(c)
  <2>1. /\ hstate = "DATA" /\ hlen' = hlen /\ outcome' = "none"
        /\ hdata' = Append(hdata, c) /\ hrx' = Append(hrx, c)
        /\ hcrc' = crc_16ibm_update(hcrc, c)
        /\ hstate' = IF Len(hdata') = hlen THEN "CRC1" ELSE "DATA"
    BY <1>4 DEF HostData
  <2>2. /\ Len(hdata) < hlen /\ hlen <= SLL_MAX_PAYLOD_LEN /\ Len(hrx) = Len(hdata) + 1
        /\ hrx[1] = hlen /\ hcrc = CrcOf(hrx)
        /\ \A i \in 1 .. Len(hdata) : hdata[i] = hrx[i + 1]
    BY <2>1 DEF HostProgress, HostKeepsFrame
  <2>3. /\ hdata' \in Seq(Byte) /\ Len(hdata') = Len(hdata) + 1
        /\ hrx' \in Seq(Byte) /\ Len(hrx') = Len(hdata') + 1 /\ hrx'[1] = hlen
    BY <2>1, <2>2
  <2>4. ASSUME NEW i \in 1 .. Len(hdata') PROVE hdata'[i] = hrx'[i + 1]
    BY <2>1, <2>2, <2>3
  <2>5. hcrc' = CrcOf(hrx')
    BY <2>1, <2>2, CrcOfAppend
  <2>6. hcrc' \in Register
    BY <2>3, <2>5, CrcOfType
  <2>7. HostProgress'
    BY <2>1, <2>2, <2>3 DEF HostProgress
  <2>8. HostKeepsFrame'
    BY <2>1, <2>2, <2>3, <2>4, <2>5 DEF HostKeepsFrame
  <2>9. HostDecodesExactlyFrames'
    BY <2>1 DEF HostDecodesExactlyFrames
  <2>10. Len(hdata') <= SLL_MAX_PAYLOD_LEN /\ hstate' \in {"DATA", "CRC1"}
    BY <2>1, <2>2, <2>3
  <2> QED
    BY <2>1, <2>3, <2>6, <2>7, <2>8, <2>9, <2>10
<1>5. CASE HostCrc1(c)
  <2>1. /\ hstate = "CRC1" /\ hstate' = "CRC2" /\ outcome' = "none"
        /\ hrx' = Append(hrx, c) /\ UNCHANGED <<hlen, hdata>>
        /\ hcrc' = crc_16ibm_update(hcrc, c)
    BY <1>5 DEF HostCrc1
  <2>2. /\ Len(hdata) = hlen /\ hlen <= SLL_MAX_PAYLOD_LEN /\ Len(hrx) = hlen + 1
        /\ hrx[1] = hlen /\ hcrc = CrcOf(hrx)
        /\ \A i \in 1 .. Len(hdata) : hdata[i] = hrx[i + 1]
    BY <2>1 DEF HostProgress, HostKeepsFrame
  <2>3. /\ hrx' \in Seq(Byte) /\ Len(hrx') = hlen + 2 /\ hrx'[1] = hlen
        /\ \A i \in 1 .. Len(hdata) : hdata[i] = hrx'[i + 1]
    BY <2>1, <2>2
  <2>4. hcrc' = CrcOf(hrx')
    BY <2>1, <2>2, CrcOfAppend
  <2>5. hcrc' \in Register
    BY <2>3, <2>4, CrcOfType
  <2>6. HostProgress'
    BY <2>1, <2>2, <2>3 DEF HostProgress
  <2>7. HostKeepsFrame'
    BY <2>1, <2>2, <2>3, <2>4 DEF HostKeepsFrame
  <2>8. HostDecodesExactlyFrames'
    BY <2>1 DEF HostDecodesExactlyFrames
  <2> QED
    BY <2>1, <2>3, <2>5, <2>6, <2>7, <2>8
<1>6. CASE HostCrc2(c)
  <2>1. /\ hstate = "CRC2" /\ hstate' = "SYNC1"
        /\ outcome' = IF hcrc' = 0 THEN "data" ELSE "invalid"
        /\ hrx' = Append(hrx, c) /\ UNCHANGED <<hlen, hdata>>
        /\ hcrc' = crc_16ibm_update(hcrc, c)
    BY <1>6 DEF HostCrc2
  <2>2. /\ Len(hdata) = hlen /\ hlen <= SLL_MAX_PAYLOD_LEN /\ Len(hrx) = hlen + 2
        /\ hrx[1] = hlen /\ hcrc = CrcOf(hrx)
        /\ \A i \in 1 .. Len(hdata) : hdata[i] = hrx[i + 1]
    BY <2>1 DEF HostProgress, HostKeepsFrame
  <2>3. /\ hrx' \in Seq(Byte) /\ Len(hrx') = hlen + 3 /\ hrx'[1] = hlen
        /\ \A i \in 1 .. Len(hdata) : hdata[i] = hrx'[i + 1]
    BY <2>1, <2>2
  <2>4. hcrc' \in Register
    BY <2>1, RegisterType
  <2>5. hcrc' = 0 <=> WellFormed(hrx')
    <3>1. hlen \in 0 .. SLL_MAX_PAYLOD_LEN
      BY <2>2
    <3> QED
      BY <2>1, <2>2, <3>1, ZeroIffWellFormed
  <2>6. hdata = SubSeq(hrx', 2, hlen + 1)
    <3>1. SubSeq(hrx', 2, hlen + 1) = [i \in 1 .. hlen |-> hrx'[i + 1]]
      BY <2>2, <2>3
    <3>2. hdata = [i \in 1 .. hlen |-> hdata[i]]
      BY <2>2
    <3> QED
      BY <2>2, <2>3, <3>1, <3>2
  <2>7. HostDecodesExactlyFrames'
    BY <2>1, <2>3, <2>5, <2>6 DEF HostDecodesExactlyFrames
  <2>8. HostProgress' /\ HostKeepsFrame'
    BY <2>1 DEF HostProgress, HostKeepsFrame
  <2>9. outcome' \in {"none", "data", "invalid"}
    BY <2>1
  <2> QED
    BY <2>1, <2>3, <2>4, <2>7, <2>8, <2>9
<1> QED
  BY <1>1, <1>2, <1>3, <1>4, <1>5, <1>6 DEF HostDecode

\* The device's part of the line is the link layer on its own.
LEMMA LinkStepIsSll == LinkInv /\ [LinkNext]_linkVars => [Next]_vars
<1> SUFFICES ASSUME LinkInv, [LinkNext]_linkVars PROVE [Next]_vars
  OBVIOUS
<1>1. Payload(length) \in Payloads
  <2>1. /\ length \in 0 .. SLL_MAX_PAYLOD_LEN /\ SLL_MAX_PAYLOD_LEN \in Nat
        /\ frame_buffer \in [0 .. SLL_MAX_MSG_LEN - 1 -> Byte]
    BY ByteType DEF LinkInv, SllInv, TypeOK
  <2>2. Payload(length) \in [1 .. length -> Byte]
    BY <2>1 DEF Payload, Data
  <2> QED
    BY <2>1, <2>2 DEF Payloads
<1>2. AnswerTo(Payload(length)) \in Payloads
  BY <1>1, LinkAssumption
<1>3. CASE DeviceRead
  <2>1. rhr[1] \in Byte
    BY <1>3 DEF DeviceRead, LinkInv, LinkTypeOK
  <2> QED
    BY <1>3, <2>1 DEF DeviceRead, Next
<1>4. CASE DeviceReply
  BY <1>2, <1>4 DEF DeviceReply, Next
<1>5. CASE NoiseAtDevice
  BY <1>2, <1>5 DEF NoiseAtDevice, Next
<1>6. CASE HostStep \/ DeviceWrite \/ Deliver \/ NoiseAtHost \/ Quiet \/ UNCHANGED linkVars
  BY <1>6 DEF HostStep, HostSend, HostRead, HostTimeout, DeviceWrite, Deliver, NoiseAtHost, Quiet, linkVars
<1> QED
  BY <1>3, <1>4, <1>5, <1>6 DEF LinkNext, DeviceStep

LEMMA LinkStepHost == LinkInv /\ [LinkNext]_linkVars => HostInv'
<1> SUFFICES ASSUME LinkInv, [LinkNext]_linkVars PROVE HostInv'
  OBVIOUS
<1>1. HostInv
  BY DEF LinkInv
<1>2. CASE HostRead
  <2>1. Head(toHost) \in Byte
    BY <1>2 DEF HostRead, LinkInv, LinkTypeOK
  <2> QED
    BY <1>1, <1>2, <2>1, HostDecodeStep DEF HostRead
<1>3. CASE NoiseAtHost
  BY <1>1, <1>3, HostDecodeStep DEF NoiseAtHost
<1>4. ASSUME UNCHANGED decoder PROVE HostInv'
  BY <1>1, <1>4 DEF decoder, HostInv, HostProgress, HostKeepsFrame, HostDecodesExactlyFrames
<1>5. CASE HostSend \/ HostTimeout \/ DeviceStep \/ Deliver \/ NoiseAtDevice \/ Quiet \/ UNCHANGED linkVars
  <2>1. UNCHANGED decoder
    BY <1>5 DEF HostSend, HostTimeout, DeviceStep, DeviceRead, DeviceReply, DeviceWrite, Deliver,
                NoiseAtDevice, Quiet, linkVars, host
  <2> QED
    BY <1>4, <2>1
<1> QED
  BY <1>2, <1>3, <1>5 DEF LinkNext, HostStep

\* The step in which the device frames a reply.
LEMMA ReplyFramed ==
  ASSUME LinkInv, sll_encode(AnswerTo(Payload(length))), [Next]_vars, ret' > 0
  PROVE  /\ Outgoing' = HostFrame(AnswerTo(Payload(length)))
         /\ AnswerTo(Payload(length)) \in Seq(Byte)
         /\ Len(AnswerTo(Payload(length))) <= SLL_MAX_PAYLOD_LEN
<1> DEFINE reply == AnswerTo(Payload(length))
<1>1. reply \in Payloads
  <2>1. /\ length \in 0 .. SLL_MAX_PAYLOD_LEN /\ SLL_MAX_PAYLOD_LEN \in Nat
        /\ frame_buffer \in [0 .. SLL_MAX_MSG_LEN - 1 -> Byte]
    BY ByteType DEF LinkInv, SllInv, TypeOK
  <2>2. Payload(length) \in [1 .. length -> Byte]
    BY <2>1 DEF Payload, Data
  <2>3. Payload(length) \in Payloads
    BY <2>1, <2>2 DEF Payloads
  <2> QED
    BY <2>3, LinkAssumption
<1>2. sll_encode(reply) /\ SllInv
  BY DEF LinkInv
<1> HIDE DEF reply
<1>3. /\ ret' = Len(reply) + 5
      /\ [i \in 1 .. ret' |-> frame_buffer'[i - 1]] = HostFrame(reply)
  BY <1>1, <1>2, EncodeFrames
<1>4. Outgoing' = [i \in 1 .. ret' |-> frame_buffer'[i - 1]]
  BY DEF Outgoing
<1> QED
  BY <1>1, <1>3, <1>4, PayloadType, ByteType DEF reply

LEMMA LinkStepTypes == LinkInv /\ [LinkNext]_linkVars => LinkTypeOK'
<1> SUFFICES ASSUME LinkInv, [LinkNext]_linkVars PROVE LinkTypeOK'
  OBVIOUS
<1>1. TypeOK' /\ HostInv'
  BY LinkStepIsSll, LinkStepHost, StepInv DEF LinkInv, SllInv
<1> DEFINE Wire ==
      /\ noise \in {"device", "host", "none"}
      /\ message \in Messages \cup {<<>>}
      /\ toDevice \in Seq(Byte) /\ toHost \in Seq(Byte) /\ unsent \in Seq(Byte)
      /\ rhr \in Seq(Byte) /\ Len(rhr) <= 1
      /\ waiting \in BOOLEAN /\ answered \in BOOLEAN
<1>2. Wire
  BY DEF LinkInv, LinkTypeOK
<1>3. Wire' => LinkTypeOK'
  BY <1>1 DEF LinkTypeOK, HostInv
<1>4. CASE HostSend
  <2>1. message \in Payloads
    <3>1. <<>> \in Payloads
      BY ByteType DEF Payloads
    <3> QED
      BY <1>2, <3>1, LinkAssumption
  <2>2. HostFrame(message) \in Seq(Byte)
    <3>1. message \in Seq(Byte) /\ Len(message) <= SLL_MAX_PAYLOD_LEN
      BY <2>1, PayloadType, ByteType
    <3> QED
      BY <3>1, HostFrameBytes
  <2> QED
    BY <1>2, <1>3, <1>4, <2>2 DEF HostSend
<1>5. CASE HostRead
  BY <1>2, <1>3, <1>5 DEF HostRead
<1>6. CASE HostTimeout
  BY <1>2, <1>3, <1>6 DEF HostTimeout, wire
<1>7. CASE DeviceRead
  BY <1>2, <1>3, <1>7 DEF DeviceRead, host
<1>8. CASE DeviceReply
  <2>1. Outgoing' \in Seq(Byte)
    <3>1. CASE ret' > 0
      <4>1. sll_encode(AnswerTo(Payload(length)))
        BY <1>8 DEF DeviceReply
      <4> QED
        BY <3>1, <4>1, LinkStepIsSll, ReplyFramed, HostFrameBytes
    <3>2. CASE ~(ret' > 0)
      BY <3>2 DEF Outgoing
    <3> QED
      BY <3>1, <3>2
  <2> QED
    BY <1>2, <1>3, <1>8, <2>1 DEF DeviceReply, host
<1>9. CASE DeviceWrite
  BY <1>2, <1>3, <1>9 DEF DeviceWrite, host
<1>10. CASE Deliver
  <2>1. Head(toDevice) \in Byte /\ Tail(toDevice) \in Seq(Byte)
    BY <1>2, <1>10 DEF Deliver
  <2> QED
    BY <1>2, <1>3, <1>10, <2>1 DEF Deliver, host
<1>11. CASE NoiseAtDevice
  BY <1>2, <1>3, <1>11 DEF NoiseAtDevice, wire, host
<1>12. CASE NoiseAtHost
  BY <1>2, <1>3, <1>12 DEF NoiseAtHost, wire
<1>13. CASE Quiet
  BY <1>2, <1>3, <1>13 DEF Quiet, wire, host
<1>14. CASE UNCHANGED linkVars
  BY <1>2, <1>3, <1>14 DEF linkVars, wire, host
<1> QED
  BY <1>4, <1>5, <1>6, <1>7, <1>8, <1>9, <1>10, <1>11, <1>12, <1>13, <1>14
  DEF LinkNext, HostStep, DeviceStep

\* Whatever the line delivers, both decoders know where in a frame they are.
THEOREM LinkInvariant == LinkSpec => []LinkInv
<1>1. LinkInv /\ [LinkNext]_linkVars => LinkInv'
  BY LinkStepIsSll, LinkStepHost, LinkStepTypes, StepInv DEF LinkInv
<1> QED
  BY <1>1, LinkInitInv, PTL DEF LinkSpec

\* The device of Link behaves as Sll says, so what holds of Spec holds here.
THEOREM LinkImplementsSll == LinkSpec => Spec
<1>1. LinkInit => Init
  BY DEF LinkInit
<1> QED
  BY <1>1, LinkStepIsSll, LinkInvariant, PTL DEF LinkSpec, Spec

\* Neither decoder holds more than a payload, the receiver no more than a byte.
THEOREM LinkTypeCorrect == LinkSpec => []LinkTypeOK
<1>1. LinkInv => LinkTypeOK
  BY DEF LinkInv
<1> QED
  BY <1>1, LinkInvariant, PTL

\* moon_transport.py: the client reports a frame exactly if it is one, ...
THEOREM HostFramesExactly == LinkSpec => []HostDecodesExactlyFrames
<1>1. LinkInv => HostDecodesExactlyFrames
  BY DEF LinkInv, HostInv
<1> QED
  BY <1>1, LinkInvariant, PTL

\* ... and so does the device under it, whose replies are frames.
THEOREM DeviceFramesExactly == LinkSpec => [](DecodesExactlyFrames /\ EncodesFrame /\ FrameBounded)
<1>1. LinkInv => DecodesExactlyFrames /\ EncodesFrame /\ FrameBounded
  BY InvBounds DEF LinkInv, SllInv
<1> QED
  BY <1>1, LinkInvariant, PTL

\* Both encoders make the same frame of a reply.
THEOREM ReplyFramesAgree == LinkSpec => EncodersAgree
<1>1. LinkInv /\ [LinkNext]_linkVars =>
        [call = "decode" /\ call' = "encode" /\ ret' > 0 =>
           Outgoing' = HostFrame(AnswerTo(Payload(length)))]_linkVars
  <2> SUFFICES ASSUME LinkInv, [LinkNext]_linkVars, call = "decode", call' = "encode", ret' > 0
               PROVE  Outgoing' = HostFrame(AnswerTo(Payload(length)))
    OBVIOUS
  <2>1. sll_encode(AnswerTo(Payload(length)))
    <3>1. call' # call
      OBVIOUS
    <3>2. \A c : sll_decode(c) => call' = "decode"
      BY DEF sll_decode, DecodeSync1, DecodeSync2, DecodeLen, DecodeData, DecodeCrc1, DecodeCrc2, Decode
    <3> QED
      BY <3>1, <3>2 DEF LinkNext, HostStep, HostSend, HostRead, HostTimeout, DeviceStep, DeviceRead,
            DeviceReply, DeviceWrite, Deliver, NoiseAtDevice, NoiseAtHost, Quiet, linkVars, vars
  <2> QED
    BY <2>1, LinkStepIsSll, ReplyFramed
<1> QED
  BY <1>1, LinkInvariant, PTL DEF LinkSpec, EncodersAgree
=============================================================================
