----------------------------- MODULE CrcProofs -----------------------------
(***************************************************************************)
(* What the link layer and the page check need of the CRCs: the table does *)
(* what division by the polynomial does, a register clocked with its own   *)
(* bytes is zero and with no others, both ends compute the same, and a     *)
(* page damaged in a byte or a word has another CRC.                       *)
(***************************************************************************)
EXTENDS Crc, WellFoundedInduction, TLAPS

-----------------------------------------------------------------------------
(* Induction over the naturals, from the library's least elements *)

\* Sets of naturals have a least member ...
LEMMA LeastMember ==
  ASSUME NEW T, T \subseteq Nat, T # {}
  PROVE  \E x \in T : \A y \in T : ~(y < x)
<1>1. \A x, y \in Nat : <<y, x>> \in OpToRel(<, Nat) <=> y < x
  BY DEF OpToRel
<1>2. \E x \in T : \A y \in T : ~(<<y, x>> \in OpToRel(<, Nat))
  BY NatLessThanWellFounded, WFMin
<1> QED
  BY <1>1, <1>2

\* ... so a set with 0 and the successors of its members has them all.
LEMMA SetInduction ==
  ASSUME NEW S, 0 \in S, \A n \in Nat : n \in S => n + 1 \in S
  PROVE  Nat \subseteq S
<1> SUFFICES ASSUME Nat \ S # {} PROVE FALSE
  OBVIOUS
<1>1. PICK x \in Nat \ S : \A y \in Nat \ S : ~(y < x)
  <2>1. \E x \in Nat \ S : \A y \in Nat \ S : ~(y < x)
    <3>1. Nat \ S \subseteq Nat
      OBVIOUS
    <3> QED
      BY <3>1, LeastMember
  <2> QED
    BY <2>1
<1>2. x # 0 /\ x - 1 \in Nat /\ x - 1 < x /\ (x - 1) + 1 = x
  OBVIOUS
<1>3. x - 1 \in S
  BY <1>1, <1>2
<1> QED
  BY <1>2, <1>3

-----------------------------------------------------------------------------
(* Shifts and division *)

LEMMA ShrMembers ==
  ASSUME NEW r \in SUBSET Nat, NEW n \in Nat
  PROVE  /\ shr(r, n) \in SUBSET Nat
         /\ \A b \in Nat : b \in shr(r, n) <=> b + n \in r
<1>1. shr(r, n) \in SUBSET Nat
  BY DEF shr
<1>2. ASSUME NEW b \in Nat, b \in shr(r, n)
      PROVE  b + n \in r
  BY <1>2 DEF shr
<1>3. ASSUME NEW b \in Nat, b + n \in r
      PROVE  b \in shr(r, n)
  <2>1. b + n >= n /\ (b + n) - n = b
    OBVIOUS
  <2>2. QED
    BY <1>3, <2>1 DEF shr
<1>4. QED
  BY <1>1, <1>2, <1>3

LEMMA ShrShr ==
  ASSUME NEW r \in SUBSET Nat, NEW m \in Nat, NEW n \in Nat
  PROVE  shr(shr(r, m), n) = shr(r, m + n)
<1>1. /\ shr(r, m) \in SUBSET Nat
      /\ shr(shr(r, m), n) \in SUBSET Nat
      /\ shr(r, m + n) \in SUBSET Nat
  <2>1. shr(r, m) \in SUBSET Nat
    BY ShrMembers
  <2>2. shr(shr(r, m), n) \in SUBSET Nat
    BY <2>1, ShrMembers
  <2>3. m + n \in Nat
    OBVIOUS
  <2>4. shr(r, m + n) \in SUBSET Nat
    BY <2>3, ShrMembers
  <2>5. QED
    BY <2>1, <2>2, <2>4
<1>2. ASSUME NEW b \in Nat
      PROVE  b \in shr(shr(r, m), n) <=> b \in shr(r, m + n)
  <2>1. b + n \in Nat /\ m + n \in Nat /\ (b + n) + m = b + (m + n)
    OBVIOUS
  <2>2. b \in shr(shr(r, m), n) <=> b + n \in shr(r, m)
    BY <1>1, ShrMembers
  <2>3. b + n \in shr(r, m) <=> (b + n) + m \in r
    BY <2>1, ShrMembers
  <2>4. b \in shr(r, m + n) <=> b + (m + n) \in r
    BY <2>1, ShrMembers
  <2>5. QED
    BY <2>1, <2>2, <2>3, <2>4
<1>3. QED
  BY <1>1, <1>2

LEMMA ClockTypes ==
  ASSUME NEW P \in SUBSET Nat, NEW r \in SUBSET Nat
  PROVE  /\ Clock(P, r) \in SUBSET Nat
         /\ Clock2(P, r) \in SUBSET Nat
         /\ Clock4(P, r) \in SUBSET Nat
         /\ Clock8(P, r) \in SUBSET Nat
<1>1. ASSUME NEW s \in SUBSET Nat
      PROVE  Clock(P, s) \in SUBSET Nat
  <2>1. shr(s, 1) \in SUBSET Nat
    BY ShrMembers
  <2>2. QED
    BY <2>1 DEF Clock, SymDiff
<1>2. \A s \in SUBSET Nat : Clock2(P, s) \in SUBSET Nat
  BY <1>1 DEF Clock2
<1>3. \A s \in SUBSET Nat : Clock4(P, s) \in SUBSET Nat
  BY <1>2 DEF Clock4
<1>4. QED
  BY <1>1, <1>2, <1>3 DEF Clock8

\* Division leaves bits that stay clear of bit 0 alone but for the shift.
LEMMA ClockSplit ==
  ASSUME NEW P \in SUBSET Nat, NEW hi \in SUBSET Nat, NEW lo \in SUBSET Nat, 0 \notin hi
  PROVE  Clock(P, SymDiff(hi, lo)) = SymDiff(shr(hi, 1), Clock(P, lo))
<1>1. 0 \in SymDiff(hi, lo) <=> 0 \in lo
  BY DEF SymDiff
<1>2. shr(SymDiff(hi, lo), 1) = SymDiff(shr(hi, 1), shr(lo, 1))
  BY DEF shr, SymDiff
<1>3. QED
  BY <1>1, <1>2 DEF Clock, SymDiff

LEMMA Clock8Split ==
  ASSUME NEW P \in SUBSET Nat, NEW hi \in SUBSET Nat, NEW lo \in SUBSET Nat,
         \A b \in 0 .. 7 : b \notin hi
  PROVE  Clock8(P, SymDiff(hi, lo)) = SymDiff(shr(hi, 8), Clock8(P, lo))
<1>1. ASSUME NEW h \in SUBSET Nat, NEW l \in SUBSET Nat, 0 \notin h, 1 \notin h
      PROVE  Clock2(P, SymDiff(h, l)) = SymDiff(shr(h, 2), Clock2(P, l))
  <2>1. Clock(P, SymDiff(h, l)) = SymDiff(shr(h, 1), Clock(P, l))
    BY <1>1, ClockSplit
  <2>2. shr(h, 1) \in SUBSET Nat /\ 0 \notin shr(h, 1)
    BY <1>1, ShrMembers, 0 + 1 = 1
  <2>3. Clock(P, l) \in SUBSET Nat
    BY ClockTypes
  <2>4. Clock(P, SymDiff(shr(h, 1), Clock(P, l)))
          = SymDiff(shr(shr(h, 1), 1), Clock(P, Clock(P, l)))
    BY <2>2, <2>3, ClockSplit
  <2>5. shr(shr(h, 1), 1) = shr(h, 2)
    BY ShrShr, 1 + 1 = 2
  <2>6. QED
    BY <2>1, <2>4, <2>5 DEF Clock2
<1>2. ASSUME NEW h \in SUBSET Nat, NEW l \in SUBSET Nat, \A b \in 0 .. 3 : b \notin h
      PROVE  Clock4(P, SymDiff(h, l)) = SymDiff(shr(h, 4), Clock4(P, l))
  <2>1. Clock2(P, SymDiff(h, l)) = SymDiff(shr(h, 2), Clock2(P, l))
    BY <1>1, <1>2
  <2>2. shr(h, 2) \in SUBSET Nat /\ 0 \notin shr(h, 2) /\ 1 \notin shr(h, 2)
    <3>1. 0 + 2 \notin h /\ 1 + 2 \notin h
      BY <1>2
    <3>2. QED
      BY <3>1, ShrMembers
  <2>3. Clock2(P, SymDiff(shr(h, 2), Clock2(P, l)))
          = SymDiff(shr(shr(h, 2), 2), Clock2(P, Clock2(P, l)))
    BY <1>1, <2>2, ClockTypes
  <2>4. shr(shr(h, 2), 2) = shr(h, 4)
    BY ShrShr, 2 + 2 = 4
  <2>5. QED
    BY <2>1, <2>3, <2>4 DEF Clock4
<1>3. Clock4(P, SymDiff(hi, lo)) = SymDiff(shr(hi, 4), Clock4(P, lo))
  BY <1>2
<1>4. shr(hi, 4) \in SUBSET Nat /\ \A b \in 0 .. 3 : b \notin shr(hi, 4)
  <2>1. \A b \in 0 .. 3 : b \in Nat /\ b + 4 \notin hi
    OBVIOUS
  <2>2. QED
    BY <2>1, ShrMembers
<1>5. Clock4(P, SymDiff(shr(hi, 4), Clock4(P, lo)))
        = SymDiff(shr(shr(hi, 4), 4), Clock4(P, Clock4(P, lo)))
  BY <1>2, <1>4, ClockTypes
<1>6. shr(shr(hi, 4), 4) = shr(hi, 8)
  BY ShrShr, 4 + 4 = 8
<1>7. QED
  BY <1>3, <1>5, <1>6 DEF Clock8

\* crc.c:113, 119: the lookup gives what eight steps of division would.
THEOREM TableIsDivision ==
  ASSUME NEW P \in SUBSET Nat, NEW crc \in SUBSET Nat, NEW data \in uint8_t
  PROVE  Update(Table(P), crc, data) = Clock8(P, SymDiff(crc, data))
<1> DEFINE index == SymDiff(crc, data) \cap (0 .. 7)
           hi == {b \in crc : b >= 8}
<1>1. index \in uint8_t /\ index \in SUBSET Nat /\ hi \in SUBSET Nat
  <2>1. index \subseteq 0 .. 7 /\ hi \subseteq crc
    OBVIOUS
  <2>2. 0 .. 7 \subseteq Nat
    OBVIOUS
  <2>3. QED
    BY <2>1, <2>2 DEF uint8_t
<1>2. SymDiff(crc, data) = SymDiff(hi, index)
  <2>1. \A b \in Nat : b >= 8 <=> b \notin 0 .. 7
    OBVIOUS
  <2>2. data \subseteq 0 .. 7 /\ crc \subseteq Nat
    BY DEF uint8_t
  <2>3. QED
    BY <2>1, <2>2 DEF SymDiff
<1>3. Clock8(P, SymDiff(hi, index)) = SymDiff(shr(hi, 8), Clock8(P, index))
  BY <1>1, Clock8Split
<1>4. shr(hi, 8) = shr(crc, 8)
  BY DEF shr
<1>5. Table(P)[index] = Clock8(P, index)
  BY <1>1 DEF Table
<1>6. QED
  BY <1>2, <1>3, <1>4, <1>5 DEF Update

-----------------------------------------------------------------------------
(* Registers of T + 1 bits, and polynomials whose last coefficient is one *)

LEMMA ClockCloses ==
  ASSUME NEW T \in Nat, NEW P \in SUBSET (0 .. T), NEW r \in SUBSET (0 .. T)
  PROVE  /\ Clock(P, r) \in SUBSET (0 .. T)
         /\ Clock2(P, r) \in SUBSET (0 .. T)
         /\ Clock4(P, r) \in SUBSET (0 .. T)
         /\ Clock8(P, r) \in SUBSET (0 .. T)
<1>1. ASSUME NEW s \in SUBSET (0 .. T)
      PROVE  Clock(P, s) \in SUBSET (0 .. T)
  <2>1. shr(s, 1) \subseteq 0 .. T
    BY DEF shr
  <2>2. QED
    BY <2>1 DEF Clock, SymDiff
<1>2. \A s \in SUBSET (0 .. T) : Clock2(P, s) \in SUBSET (0 .. T)
  BY <1>1 DEF Clock2
<1>3. \A s \in SUBSET (0 .. T) : Clock4(P, s) \in SUBSET (0 .. T)
  BY <1>2 DEF Clock4
<1>4. QED
  BY <1>1, <1>2, <1>3 DEF Clock8

LEMMA RegisterBits ==
  ASSUME NEW T \in Nat, NEW r \in SUBSET (0 .. T)
  PROVE  r \in SUBSET Nat
  OBVIOUS

\* The last bit of the result tells whether the polynomial was subtracted.
LEMMA TopBit ==
  ASSUME NEW T \in Nat, NEW P \in SUBSET (0 .. T), T \in P, NEW r \in SUBSET (0 .. T)
  PROVE  T \in Clock(P, r) <=> 0 \in r
<1>1. T \notin shr(r, 1)
  BY DEF shr
<1>2. QED
  BY <1>1 DEF Clock, SymDiff

\* A result with k zeros at its end was shifted k times without a subtraction.
LEMMA ClockBack ==
  ASSUME NEW T \in Nat, NEW P \in SUBSET (0 .. T), T \in P, NEW r \in SUBSET (0 .. T),
         NEW k \in Nat, \A b \in Clock(P, r) : b + (k + 1) <= T
  PROVE  0 \notin r /\ Clock(P, r) = shr(r, 1) /\ \A b \in r : b + k <= T
<1>1. 0 \notin r
  BY TopBit
<1>2. Clock(P, r) = shr(r, 1)
  BY <1>1 DEF Clock
<1>3. ASSUME NEW b \in r
      PROVE  b + k <= T
  <2>1. b \in Nat /\ b >= 1 /\ b - 1 \in Nat /\ (b - 1) + 1 = b
    BY <1>1
  <2>2. b - 1 \in shr(r, 1)
    BY <2>1 DEF shr
  <2>3. QED
    BY <1>2, <2>1, <2>2
<1>4. QED
  BY <1>1, <1>2, <1>3

LEMMA Clock8Back ==
  ASSUME NEW T \in Nat, NEW P \in SUBSET (0 .. T), T \in P, NEW r \in SUBSET (0 .. T),
         \A b \in Clock8(P, r) : b + 8 <= T
  PROVE  (\A b \in 0 .. 7 : b \notin r) /\ Clock8(P, r) = shr(r, 8)
<1>1. ASSUME NEW s \in SUBSET (0 .. T), NEW k \in Nat, \A b \in Clock2(P, s) : b + (k + 2) <= T
      PROVE  /\ 0 \notin s /\ 1 \notin s
             /\ Clock2(P, s) = shr(s, 2)
             /\ \A b \in s : b + k <= T
  <2>1. Clock(P, s) \in SUBSET (0 .. T) /\ s \in SUBSET Nat
    BY ClockCloses, RegisterBits
  <2>2. k + 1 \in Nat /\ (k + 1) + 1 = k + 2
    OBVIOUS
  <2>3. \A b \in Clock(P, Clock(P, s)) : b + ((k + 1) + 1) <= T
    BY <1>1, <2>2 DEF Clock2
  <2>4. /\ 0 \notin Clock(P, s)
        /\ Clock(P, Clock(P, s)) = shr(Clock(P, s), 1)
        /\ \A b \in Clock(P, s) : b + (k + 1) <= T
    <3>1. ASSUME NEW j \in Nat, \A b \in Clock(P, Clock(P, s)) : b + (j + 1) <= T
          PROVE  /\ 0 \notin Clock(P, s)
                 /\ Clock(P, Clock(P, s)) = shr(Clock(P, s), 1)
                 /\ \A b \in Clock(P, s) : b + j <= T
      BY <2>1, <3>1, ClockBack
    <3>2. QED
      BY <2>2, <2>3, <3>1
  <2>5. 0 \notin s /\ Clock(P, s) = shr(s, 1) /\ \A b \in s : b + k <= T
    BY <2>4, ClockBack
  <2>6. 1 \notin s
    <3>1. 0 \in shr(s, 1) <=> 0 + 1 \in s
      BY <2>1, ShrMembers
    <3>2. QED
      BY <2>4, <2>5, <3>1
  <2>7. Clock2(P, s) = shr(s, 2)
    BY <2>1, <2>4, <2>5, ShrShr, 1 + 1 = 2 DEF Clock2
  <2>8. QED
    BY <2>5, <2>6, <2>7
<1>2. ASSUME NEW s \in SUBSET (0 .. T), NEW k \in Nat, \A b \in Clock4(P, s) : b + (k + 4) <= T
      PROVE  /\ \A b \in 0 .. 3 : b \notin s
             /\ Clock4(P, s) = shr(s, 4)
             /\ \A b \in s : b + k <= T
  <2>1. Clock2(P, s) \in SUBSET (0 .. T) /\ s \in SUBSET Nat
    BY ClockCloses, RegisterBits
  <2>2. k + 2 \in Nat /\ (k + 2) + 2 = k + 4
    OBVIOUS
  <2>3. \A b \in Clock2(P, Clock2(P, s)) : b + ((k + 2) + 2) <= T
    BY <1>2, <2>2 DEF Clock4
  <2>4. /\ 0 \notin Clock2(P, s) /\ 1 \notin Clock2(P, s)
        /\ Clock2(P, Clock2(P, s)) = shr(Clock2(P, s), 2)
        /\ \A b \in Clock2(P, s) : b + (k + 2) <= T
    BY <1>1, <2>1, <2>2, <2>3
  <2>5. 0 \notin s /\ 1 \notin s /\ Clock2(P, s) = shr(s, 2) /\ \A b \in s : b + k <= T
    BY <1>1, <2>4
  <2>6. 2 \notin s /\ 3 \notin s
    <3>1. (0 \in shr(s, 2) <=> 0 + 2 \in s) /\ (1 \in shr(s, 2) <=> 1 + 2 \in s)
      BY <2>1, ShrMembers
    <3>2. QED
      BY <2>4, <2>5, <3>1
  <2>7. Clock4(P, s) = shr(s, 4)
    BY <2>1, <2>4, <2>5, ShrShr, 2 + 2 = 4 DEF Clock4
  <2>8. \A b \in 0 .. 3 : b \in {0, 1, 2, 3}
    OBVIOUS
  <2>9. QED
    BY <2>5, <2>6, <2>7, <2>8
<1>3. Clock4(P, r) \in SUBSET (0 .. T) /\ r \in SUBSET Nat
  BY ClockCloses, RegisterBits
<1>4. \A b \in Clock4(P, Clock4(P, r)) : b + (4 + 4) <= T
  BY 4 + 4 = 8 DEF Clock8
<1>5. /\ \A b \in 0 .. 3 : b \notin Clock4(P, r)
      /\ Clock4(P, Clock4(P, r)) = shr(Clock4(P, r), 4)
      /\ \A b \in Clock4(P, r) : b + 4 <= T
  BY <1>2, <1>3, <1>4
<1>6. \A b \in Clock4(P, r) : b + (0 + 4) <= T
  BY <1>5, 0 + 4 = 4
<1>7. (\A b \in 0 .. 3 : b \notin r) /\ Clock4(P, r) = shr(r, 4)
  BY <1>2, <1>6
<1>8. ASSUME NEW b \in 4 .. 7
      PROVE  b \notin r
  <2>1. b - 4 \in 0 .. 3 /\ b - 4 \in Nat /\ (b - 4) + 4 = b
    OBVIOUS
  <2>2. b - 4 \in shr(r, 4) <=> (b - 4) + 4 \in r
    BY <1>3, <2>1, ShrMembers
  <2>3. QED
    BY <1>5, <1>7, <2>1, <2>2
<1>9. Clock8(P, r) = shr(r, 8)
  BY <1>3, <1>5, <1>7, ShrShr, 4 + 4 = 8 DEF Clock8
<1>10. \A b \in 0 .. 7 : b \in 0 .. 3 \/ b \in 4 .. 7
  OBVIOUS
<1>11. QED
  BY <1>7, <1>8, <1>9, <1>10

LEMMA ClockInjective ==
  ASSUME NEW T \in Nat, NEW P \in SUBSET (0 .. T), T \in P,
         NEW r \in SUBSET (0 .. T), NEW s \in SUBSET (0 .. T), Clock(P, r) = Clock(P, s)
  PROVE  r = s
<1>1. 0 \in r <=> 0 \in s
  BY TopBit
<1>2. shr(r, 1) = shr(s, 1)
  BY <1>1 DEF Clock, SymDiff
<1>3. ASSUME NEW b \in 0 .. T
      PROVE  b \in r <=> b \in s
  <2>1. CASE b = 0
    BY <1>1, <2>1
  <2>2. CASE b # 0
    <3>1. b - 1 \in Nat /\ (b - 1) + 1 = b
      BY <2>2
    <3>2. r \in SUBSET Nat /\ s \in SUBSET Nat
      BY RegisterBits
    <3>3. b - 1 \in shr(r, 1) <=> (b - 1) + 1 \in r
      BY <3>1, <3>2, ShrMembers
    <3>4. b - 1 \in shr(s, 1) <=> (b - 1) + 1 \in s
      BY <3>1, <3>2, ShrMembers
    <3>5. QED
      BY <1>2, <3>1, <3>3, <3>4
  <2>3. QED
    BY <2>1, <2>2
<1>4. QED
  BY <1>3

LEMMA Clock8Injective ==
  ASSUME NEW T \in Nat, NEW P \in SUBSET (0 .. T), T \in P,
         NEW r \in SUBSET (0 .. T), NEW s \in SUBSET (0 .. T), Clock8(P, r) = Clock8(P, s)
  PROVE  r = s
<1>1. \A x, y \in SUBSET (0 .. T) : Clock2(P, x) = Clock2(P, y) => x = y
  BY ClockInjective, ClockCloses DEF Clock2
<1>2. \A x, y \in SUBSET (0 .. T) : Clock4(P, x) = Clock4(P, y) => x = y
  BY <1>1, ClockCloses DEF Clock4
<1>3. QED
  BY <1>2, ClockCloses DEF Clock8

-----------------------------------------------------------------------------
(* The two CRCs *)

LEMMA Widths ==
  /\ ANSI \in SUBSET (0 .. 15) /\ 15 \in ANSI
  /\ CRC32 \in SUBSET (0 .. 31) /\ 31 \in CRC32
  /\ uint8_t \subseteq uint16_t /\ uint16_t \subseteq SUBSET Nat
  /\ uint8_t \subseteq uint32_t /\ uint32_t \subseteq SUBSET Nat
  BY DEF ANSI, CRC32, uint8_t, uint16_t, uint32_t

LEMMA Update16 ==
  ASSUME NEW crc \in uint16_t, NEW data \in uint8_t
  PROVE  /\ SymDiff(crc, data) \in SUBSET (0 .. 15)
         /\ crc_16ibm_update(crc, data) = Clock8(ANSI, SymDiff(crc, data))
         /\ crc_16ibm_update(crc, data) \in uint16_t
<1>1. SymDiff(crc, data) \in SUBSET (0 .. 15)
  BY DEF SymDiff, uint8_t, uint16_t
<1>2. ANSI \in SUBSET Nat /\ crc \in SUBSET Nat
  BY Widths DEF ANSI
<1>3. crc_16ibm_update(crc, data) = Clock8(ANSI, SymDiff(crc, data))
  BY <1>2, TableIsDivision DEF crc_16ibm_update, crc_16ansi_table_g
<1>4. Clock8(ANSI, SymDiff(crc, data)) \in SUBSET (0 .. 15)
  BY <1>1, Widths, ClockCloses, 15 \in Nat
<1>5. QED
  BY <1>1, <1>3, <1>4 DEF uint16_t

LEMMA Update32 ==
  ASSUME NEW crc \in uint32_t, NEW data \in uint8_t
  PROVE  /\ SymDiff(crc, data) \in SUBSET (0 .. 31)
         /\ crc_32_update(crc, data) = Clock8(CRC32, SymDiff(crc, data))
         /\ crc_32_update(crc, data) \in uint32_t
<1>1. SymDiff(crc, data) \in SUBSET (0 .. 31)
  BY DEF SymDiff, uint8_t, uint32_t
<1>2. CRC32 \in SUBSET Nat /\ crc \in SUBSET Nat
  BY Widths DEF CRC32
<1>3. crc_32_update(crc, data) = Clock8(CRC32, SymDiff(crc, data))
  BY <1>2, TableIsDivision DEF crc_32_update, crc_32_table_g
<1>4. Clock8(CRC32, SymDiff(crc, data)) \in SUBSET (0 .. 31)
  BY <1>1, Widths, ClockCloses, 31 \in Nat
<1>5. QED
  BY <1>1, <1>3, <1>4 DEF uint32_t

\* sll.c:117: the decoder clocks the received CRC into its register and looks
\* for zero.  It finds it exactly if the two bytes are the register's own, low
\* byte first: the residue property Sll takes as CrcAssumption.
THEOREM CrcResidue ==
  ASSUME NEW crc \in uint16_t, NEW c \in uint8_t, NEW d \in uint8_t
  PROVE  crc_16ibm_update(crc_16ibm_update(crc, c), d) = {}
           <=> c = crc \cap (0 .. 7) /\ d = shr(crc, 8)
<1> DEFINE once == SymDiff(crc, c)
           after == crc_16ibm_update(crc, c)
           twice == SymDiff(after, d)
<1>1. /\ once \in SUBSET (0 .. 15) /\ after = Clock8(ANSI, once)
      /\ after \in uint16_t /\ twice \in SUBSET (0 .. 15)
      /\ crc_16ibm_update(after, d) = Clock8(ANSI, twice)
  BY Update16
<1>2. ANSI \in SUBSET (0 .. 15) /\ 15 \in ANSI /\ 15 \in Nat
  BY Widths
<1>3. (\A b \in after : b + 8 <= 15) => (\A b \in 0 .. 7 : b \notin once) /\ after = shr(once, 8)
  <2> HIDE DEF once, after
  <2>1. ASSUME \A b \in after : b + 8 <= 15
        PROVE  (\A b \in 0 .. 7 : b \notin once) /\ Clock8(ANSI, once) = shr(once, 8)
    <3>1. 15 \in Nat /\ once \in SUBSET (0 .. 15) /\ \A b \in Clock8(ANSI, once) : b + 8 <= 15
      BY <1>1, <2>1
    <3>2. QED
      BY <1>2, <3>1, Clock8Back
  <2>2. QED
    BY <1>1, <2>1
<1>4. shr(once, 8) = shr(crc, 8)
  <2>1. \A b \in c : b \in 0 .. 7
    BY DEF uint8_t
  <2>2. \A b \in c : ~(b >= 8)
    BY <2>1
  <2>3. \A b : b \in once /\ b >= 8 <=> b \in crc /\ b >= 8
    BY <2>2 DEF SymDiff
  <2>4. {b \in once : b >= 8} = {b \in crc : b >= 8}
    <3> HIDE DEF once
    <3>1. QED
      BY <2>3
  <2>5. QED
    BY <2>4 DEF shr
<1>5. Clock8(ANSI, {}) = {}
  <2>1. Clock(ANSI, {}) = {}
    BY DEF Clock, shr
  <2>2. QED
    BY <2>1 DEF Clock8, Clock4, Clock2
<1>6. twice = {} <=> after = d
  BY DEF SymDiff
<1>7. Clock8(ANSI, twice) = {} <=> twice = {}
  <2>1. {} \in SUBSET (0 .. 15)
    OBVIOUS
  <2>2. Clock8(ANSI, twice) = Clock8(ANSI, {}) => twice = {}
    BY <1>1, <1>2, <2>1, Clock8Injective
  <2>3. QED
    BY <1>5, <2>2
<1>8. ASSUME after = d
      PROVE  c = crc \cap (0 .. 7) /\ d = shr(crc, 8)
  <2>1. \A b \in after : b + 8 <= 15
    <3> HIDE DEF after
    <3>1. \A b \in d : b \in 0 .. 7
      BY DEF uint8_t
    <3>2. \A b \in d : b + 8 <= 15
      BY <3>1
    <3>3. QED
      BY <1>8, <3>2
  <2>2. (\A b \in 0 .. 7 : b \notin once) /\ after = shr(once, 8)
    BY <1>3, <2>1
  <2>3. c = crc \cap (0 .. 7)
    BY <2>2 DEF SymDiff, uint8_t
  <2>4. QED
    BY <1>1, <1>4, <1>8, <2>2, <2>3
<1>9. ASSUME c = crc \cap (0 .. 7), d = shr(crc, 8)
      PROVE  after = d
  <2>1. once \in SUBSET Nat /\ {} \in SUBSET Nat /\ \A b \in 0 .. 7 : b \notin once
    BY <1>1, <1>9 DEF SymDiff
  <2>2. Clock8(ANSI, SymDiff(once, {})) = SymDiff(shr(once, 8), Clock8(ANSI, {}))
    BY <1>2, <2>1, Clock8Split, RegisterBits
  <2>3. QED
    BY <1>1, <1>4, <1>5, <1>9, <2>2 DEF SymDiff
<1>10. QED
  BY <1>1, <1>6, <1>7, <1>8, <1>9

\* An update tells both the bytes and the registers apart.
LEMMA UpdateInjective ==
  ASSUME NEW r \in uint32_t, NEW s \in uint32_t, NEW c \in uint8_t, NEW d \in uint8_t
  PROVE  /\ crc_32_update(r, c) = crc_32_update(r, d) => c = d
         /\ crc_32_update(r, c) = crc_32_update(s, c) => r = s
<1>1. CRC32 \in SUBSET (0 .. 31) /\ 31 \in CRC32 /\ 31 \in Nat
  BY Widths
<1>2. \A x, y \in SUBSET (0 .. 31) : Clock8(CRC32, x) = Clock8(CRC32, y) => x = y
  BY <1>1, Clock8Injective
<1>3. ASSUME crc_32_update(r, c) = crc_32_update(r, d)
      PROVE  c = d
  <2>1. SymDiff(r, c) \in SUBSET (0 .. 31) /\ crc_32_update(r, c) = Clock8(CRC32, SymDiff(r, c))
    BY Update32
  <2>2. SymDiff(r, d) \in SUBSET (0 .. 31) /\ crc_32_update(r, d) = Clock8(CRC32, SymDiff(r, d))
    BY Update32
  <2>3. SymDiff(r, c) = SymDiff(r, d)
    BY <1>2, <1>3, <2>1, <2>2
  <2>4. QED
    BY <2>3 DEF SymDiff
<1>4. ASSUME crc_32_update(r, c) = crc_32_update(s, c)
      PROVE  r = s
  <2>1. SymDiff(r, c) \in SUBSET (0 .. 31) /\ crc_32_update(r, c) = Clock8(CRC32, SymDiff(r, c))
    BY Update32
  <2>2. SymDiff(s, c) \in SUBSET (0 .. 31) /\ crc_32_update(s, c) = Clock8(CRC32, SymDiff(s, c))
    BY Update32
  <2>3. SymDiff(r, c) = SymDiff(s, c)
    BY <1>2, <1>4, <2>1, <2>2
  <2>4. QED
    BY <2>3 DEF SymDiff
<1>5. QED
  BY <1>3, <1>4

\* moon_transport.py:110, 119: the client's masked updates are the device's.
THEOREM EndsAgree ==
  ASSUME NEW d \in uint8_t
  PROVE  /\ \A crc \in uint16_t : host_crc_16ibm(crc, d) = crc_16ibm_update(crc, d)
         /\ \A crc \in uint32_t : host_crc_32_step(crc, d) = crc_32_update(crc, d)
<1>1. ASSUME NEW crc \in uint16_t
      PROVE  host_crc_16ibm(crc, d) = crc_16ibm_update(crc, d)
  <2>1. crc \cap (0 .. 15) = crc
    BY DEF uint16_t
  <2>2. crc_16ibm_update(crc, d) \cap (0 .. 15) = crc_16ibm_update(crc, d)
    BY Update16 DEF uint16_t
  <2>3. QED
    BY <2>1, <2>2 DEF host_crc_16ibm, crc_16ibm_update, CRC_16IBM_TAB, crc_16ansi_table_g
<1>2. ASSUME NEW crc \in uint32_t
      PROVE  host_crc_32_step(crc, d) = crc_32_update(crc, d)
  <2>1. crc_32_update(crc, d) \cap (0 .. 31) = crc_32_update(crc, d)
    BY Update32 DEF uint32_t
  <2>2. QED
    BY <2>1 DEF host_crc_32_step, crc_32_update, CRC_32_TAB, crc_32_table_g
<1>3. QED
  BY <1>1, <1>2
-----------------------------------------------------------------------------
(* The CRC of a page *)

\* h is the fold of crc_32 over each set of places of the first k bytes.
Folded(h, data, k) ==
  /\ h \in [SUBSET (1 .. k) -> uint32_t]
  /\ h[{}] = CRC_32_INIT_VALUE
  /\ \A s \in SUBSET (1 .. k) : s # {} =>
       Max(s) \in s /\ h[s] = crc_32_update(h[s \ {Max(s)}], data[Max(s)])

LEMMA InitialRegister == CRC_32_INIT_VALUE \in uint32_t
  BY DEF CRC_32_INIT_VALUE, uint32_t

\* The largest member is the one the fold takes.
LEMMA MaxIsLast ==
  ASSUME NEW n \in Nat, NEW s \in SUBSET (1 .. n), n \in s
  PROVE  Max(s) = n
<1>1. \A y \in s : y \in Nat /\ n >= y
  OBVIOUS
<1>2. \E x \in s : \A y \in s : x >= y
  BY <1>1
<1>3. Max(s) \in s /\ \A y \in s : Max(s) >= y
  BY <1>2 DEF Max
<1> HIDE DEF Max
<1>4. Max(s) \in Nat /\ n >= Max(s) /\ Max(s) >= n
  BY <1>1, <1>3
<1> QED
  BY <1>4

LEMMA FoldedExists ==
  ASSUME NEW data \in Seq(uint8_t), NEW k \in 0 .. Len(data)
  PROVE  \E h : Folded(h, data, k)
<1> DEFINE S == {n \in Nat : n <= Len(data) => \E h : Folded(h, data, n)}
<1>1. 0 \in S
  <2> DEFINE g == [s \in SUBSET (1 .. 0) |-> CRC_32_INIT_VALUE]
  <2>1. \A s \in SUBSET (1 .. 0) : s = {}
    OBVIOUS
  <2>2. g \in [SUBSET (1 .. 0) -> uint32_t] /\ g[{}] = CRC_32_INIT_VALUE
    BY InitialRegister
  <2> HIDE DEF g
  <2>3. Folded(g, data, 0)
    BY <2>1, <2>2 DEF Folded
  <2> QED
    BY <2>3
<1>2. ASSUME NEW n \in Nat, n \in S PROVE n + 1 \in S
  <2> SUFFICES ASSUME n + 1 <= Len(data) PROVE \E h : Folded(h, data, n + 1)
    BY DEF S
  <2>1. n <= Len(data) /\ data[n + 1] \in uint8_t
    OBVIOUS
  <2>2. PICK f : Folded(f, data, n)
    BY <1>2, <2>1
  <2> DEFINE g == [s \in SUBSET (1 .. n + 1) |->
                     IF n + 1 \in s THEN crc_32_update(f[s \ {n + 1}], data[n + 1]) ELSE f[s]]
  <2>3. ASSUME NEW s \in SUBSET (1 .. n + 1)
        PROVE  /\ s \ {n + 1} \in SUBSET (1 .. n)
               /\ n + 1 \notin s => s \in SUBSET (1 .. n)
    <3>1. (1 .. n + 1) \ {n + 1} = 1 .. n
      OBVIOUS
    <3> QED
      BY <3>1
  <2>4. ASSUME NEW s \in SUBSET (1 .. n + 1) PROVE g[s] \in uint32_t
    <3>1. f[s \ {n + 1}] \in uint32_t /\ (n + 1 \notin s => f[s] \in uint32_t)
      BY <2>2, <2>3 DEF Folded
    <3>2. crc_32_update(f[s \ {n + 1}], data[n + 1]) \in uint32_t
      BY <2>1, <3>1, Update32
    <3> QED
      BY <3>1, <3>2
  <2>5. g \in [SUBSET (1 .. n + 1) -> uint32_t]
    BY <2>4
  <2>6. g[{}] = CRC_32_INIT_VALUE
    BY <2>2 DEF Folded
  <2>7. ASSUME NEW s \in SUBSET (1 .. n + 1), s # {}
        PROVE  Max(s) \in s /\ g[s] = crc_32_update(g[s \ {Max(s)}], data[Max(s)])
    <3>1. CASE n + 1 \in s
      <4>1. Max(s) = n + 1
        BY <3>1, MaxIsLast
      <4>2. s \ {n + 1} \in SUBSET (1 .. n + 1) /\ n + 1 \notin s \ {n + 1}
        OBVIOUS
      <4>3. g[s \ {n + 1}] = f[s \ {n + 1}]
        BY <4>2
      <4> QED
        BY <3>1, <4>1, <4>3
    <3>2. CASE n + 1 \notin s
      <4>1. s \in SUBSET (1 .. n)
        BY <2>3, <3>2
      <4>2. Max(s) \in s /\ f[s] = crc_32_update(f[s \ {Max(s)}], data[Max(s)])
        BY <2>2, <2>7, <4>1 DEF Folded
      <4>3. g[s] = f[s] /\ g[s \ {Max(s)}] = f[s \ {Max(s)}]
        <5> HIDE DEF Max
        <5> QED
          BY <3>2
      <4> QED
        BY <4>2, <4>3
    <3> QED
      BY <3>1, <3>2
  <2> HIDE DEF g
  <2>8. Folded(g, data, n + 1)
    BY <2>5, <2>6, <2>7 DEF Folded
  <2> QED
    BY <2>8
<1> HIDE DEF S
<1>3. Nat \subseteq S
  BY <1>1, <1>2, SetInduction
<1> QED
  BY <1>3 DEF S
\* The registers along a page: f[n] is the one after n bytes.
Registers(f, data) ==
  /\ f \in [0 .. Len(data) -> uint32_t]
  /\ f[0] = CRC_32_INIT_VALUE
  /\ \A n \in 1 .. Len(data) : f[n] = crc_32_update(f[n - 1], data[n])

LEMMA LastOfSegment ==
  ASSUME NEW n \in Nat, n # 0
  PROVE  1 .. n # {} /\ Max(1 .. n) = n /\ (1 .. n) \ {Max(1 .. n)} = 1 .. n - 1
<1>1. n \in 1 .. n /\ (1 .. n) \ {n} = 1 .. n - 1
  OBVIOUS
<1>2. Max(1 .. n) = n
  BY <1>1, MaxIsLast
<1> QED
  BY <1>1, <1>2

LEMMA FoldIsLastRegister ==
  ASSUME NEW data \in Seq(uint8_t), NEW h, NEW k, k = Len(data), Folded(h, data, k)
  PROVE  \E f : Registers(f, data) /\ h[1 .. k] = f[k]
<1> DEFINE f == [n \in 0 .. k |-> h[1 .. n]]
<1>1. k \in Nat
  OBVIOUS
<1>2. \A n \in 0 .. k : 1 .. n \in SUBSET (1 .. k)
  BY <1>1
<1>3. f \in [0 .. k -> uint32_t]
  BY <1>2 DEF Folded
<1>4. f[0] = CRC_32_INIT_VALUE
  <2>1. 1 .. 0 = {} /\ 0 \in 0 .. k
    BY <1>1
  <2> QED
    BY <2>1 DEF Folded
<1>5. ASSUME NEW n \in 1 .. k PROVE f[n] = crc_32_update(f[n - 1], data[n])
  <2>1. n \in Nat /\ n # 0 /\ n \in 0 .. k /\ n - 1 \in 0 .. k
    BY <1>1
  <2>2. h[1 .. n] = crc_32_update(h[(1 .. n) \ {Max(1 .. n)}], data[Max(1 .. n)])
    BY <1>2, <2>1, LastOfSegment DEF Folded
  <2> QED
    BY <2>1, <2>2, LastOfSegment
<1>6. h[1 .. k] = f[k]
  BY <1>1
<1> HIDE DEF f
<1>7. Registers(f, data)
  BY <1>3, <1>4, <1>5 DEF Registers
<1> QED
  BY <1>6, <1>7

\* The folds of both ends go through these registers.
LEMMA CrcIsLastRegister ==
  ASSUME NEW data \in Seq(uint8_t)
  PROVE  \E f : /\ Registers(f, data)
                /\ crc_32(data) = crc_32_finalize(f[Len(data)])
                /\ host_crc_32(data) = crc_32_finalize(f[Len(data)])
<1> DEFINE k == Len(data)
           Device(f) == [s \in SUBSET DOMAIN data |->
                           IF s = {} THEN CRC_32_INIT_VALUE
                           ELSE crc_32_update(f[s \ {Max(s)}], data[Max(s)])]
           Host(f) == [s \in SUBSET DOMAIN data |->
                         IF s = {} THEN 0 .. 31
                         ELSE host_crc_32_step(f[s \ {Max(s)}], data[Max(s)])]
           device == CHOOSE f : f = Device(f)
           host == CHOOSE f : f = Host(f)
<1>1. k \in Nat /\ DOMAIN data = 1 .. k
  OBVIOUS
<1>2. PICK h : Folded(h, data, k)
  <2>1. k \in 0 .. Len(data)
    BY <1>1
  <2> QED
    BY <2>1, FoldedExists
<1>3. h = Device(h)
  BY <1>1, <1>2 DEF Folded
<1>4. h = Host(h)
  <2>1. ASSUME NEW s \in SUBSET (1 .. k), s # {}
        PROVE  h[s] = host_crc_32_step(h[s \ {Max(s)}], data[Max(s)])
    <3>1. h[s] = crc_32_update(h[s \ {Max(s)}], data[Max(s)]) /\ Max(s) \in s
      BY <2>1, <1>2 DEF Folded
    <3>2. h[s \ {Max(s)}] \in uint32_t
      <4>1. s \ {Max(s)} \in SUBSET (1 .. k)
        OBVIOUS
      <4> QED
        BY <1>2, <4>1 DEF Folded
    <3>3. data[Max(s)] \in uint8_t
      <4>1. Max(s) \in 1 .. Len(data)
        BY <3>1
      <4>2. \A i \in 1 .. Len(data) : data[i] \in uint8_t
        OBVIOUS
      <4> QED
        BY <4>1, <4>2
    <3> QED
      BY <3>1, <3>2, <3>3, EndsAgree
  <2>2. h \in [SUBSET (1 .. k) -> uint32_t] /\ h[{}] = 0 .. 31
    BY <1>2 DEF Folded, CRC_32_INIT_VALUE
  <2> QED
    BY <1>1, <2>1, <2>2
<1>5. device = Device(device) /\ host = Host(host)
  <2> HIDE DEF Device, Host
  <2> QED
    BY <1>3, <1>4
<1>6. crc_32(data) = crc_32_finalize(device[1 .. k])
  BY <1>1 DEF crc_32, FoldLeft, MapThenFoldSet
<1>7. host_crc_32(data) = crc_32_finalize(host[1 .. k])
  BY <1>1 DEF host_crc_32, FoldLeft, MapThenFoldSet, crc_32_finalize
<1>8. device[1 .. k] = h[1 .. k] /\ host[1 .. k] = h[1 .. k]
  <2> DEFINE S == {n \in Nat : n <= k => device[1 .. n] = h[1 .. n] /\ host[1 .. n] = h[1 .. n]}
  <2> HIDE DEF device, host
  <2>0. ASSUME NEW t \in SUBSET DOMAIN data, t # {}
        PROVE  /\ h[t] = crc_32_update(h[t \ {Max(t)}], data[Max(t)])
               /\ h[t] = host_crc_32_step(h[t \ {Max(t)}], data[Max(t)])
               /\ device[t] = crc_32_update(device[t \ {Max(t)}], data[Max(t)])
               /\ host[t] = host_crc_32_step(host[t \ {Max(t)}], data[Max(t)])
    <3>1. h[t] = crc_32_update(h[t \ {Max(t)}], data[Max(t)])
      BY <1>3, <2>0
    <3>2. h[t] = host_crc_32_step(h[t \ {Max(t)}], data[Max(t)])
      BY <1>4, <2>0
    <3>3. device[t] = crc_32_update(device[t \ {Max(t)}], data[Max(t)])
      BY <1>5, <2>0
    <3>4. host[t] = host_crc_32_step(host[t \ {Max(t)}], data[Max(t)])
      BY <1>5, <2>0
    <3> QED
      BY <3>1, <3>2, <3>3, <3>4
  <2>1. 0 \in S
    <3>1. 1 .. 0 = {} /\ {} \in SUBSET DOMAIN data
      OBVIOUS
    <3> QED
      BY <1>3, <1>4, <1>5, <3>1
  <2>2. ASSUME NEW n \in Nat, n \in S PROVE n + 1 \in S
    <3> SUFFICES ASSUME n + 1 <= k
                 PROVE  /\ device[1 .. n + 1] = h[1 .. n + 1]
                        /\ host[1 .. n + 1] = h[1 .. n + 1]
      BY DEF S
    <3>1. device[1 .. n] = h[1 .. n] /\ host[1 .. n] = h[1 .. n]
      BY <2>2, <1>1
    <3>2. 1 .. n + 1 \in SUBSET DOMAIN data
      BY <1>1
    <3>3. 1 .. n + 1 # {} /\ (1 .. n + 1) \ {Max(1 .. n + 1)} = 1 .. n
      <4>1. n + 1 \in Nat /\ n + 1 # 0 /\ (n + 1) - 1 = n
        OBVIOUS
      <4> QED
        BY <4>1, LastOfSegment
    <3> DEFINE t == 1 .. n + 1
    <3> HIDE DEF t
    <3>4. /\ h[t] = crc_32_update(h[t \ {Max(t)}], data[Max(t)])
          /\ h[t] = host_crc_32_step(h[t \ {Max(t)}], data[Max(t)])
          /\ device[t] = crc_32_update(device[t \ {Max(t)}], data[Max(t)])
          /\ host[t] = host_crc_32_step(host[t \ {Max(t)}], data[Max(t)])
      BY <2>0, <3>2, <3>3 DEF t
    <3>5. t \ {Max(t)} = 1 .. n
      BY <3>3 DEF t
    <3>6. device[t] = h[t] /\ host[t] = h[t]
      BY <3>1, <3>4, <3>5
    <3> QED
      BY <3>6 DEF t
  <2> HIDE DEF S
  <2>3. k \in S
    BY <1>1, <2>1, <2>2, SetInduction
  <2> QED
    BY <1>1, <2>3 DEF S
<1>9. PICK f : Registers(f, data) /\ h[1 .. k] = f[k]
  BY <1>2, FoldIsLastRegister
<1> HIDE DEF device, host
<1> QED
  BY <1>6, <1>7, <1>8, <1>9
\* moon_transport.py:119, bootloader.c:106: client and device compute the same
\* CRC for every page, so a refused commit means that the buffer is not the page.
THEOREM PageCrcsAgree ==
  ASSUME NEW data \in Seq(uint8_t)
  PROVE  host_crc_32(data) = crc_32(data)
  BY CrcIsLastRegister

-----------------------------------------------------------------------------
(* What the CRC of a page cannot miss *)

\* register << 8
byteUp(r) == {b + 8 : b \in r}

LEMMA ByteUpMembers ==
  ASSUME NEW r \in SUBSET Nat
  PROVE  /\ byteUp(r) \in SUBSET Nat
         /\ \A b \in Nat : b \in byteUp(r) <=> b - 8 \in r
         /\ \A b \in 0 .. 7 : b \notin byteUp(r)
         /\ shr(byteUp(r), 8) = r
<1>1. byteUp(r) \in SUBSET Nat
  BY DEF byteUp
<1>2. \A b \in Nat : b \in byteUp(r) <=> b - 8 \in r
  <2>1. ASSUME NEW b \in Nat, b \in byteUp(r) PROVE b - 8 \in r
    <3>1. PICK c \in r : b = c + 8
      BY <2>1 DEF byteUp
    <3> QED
      BY <3>1
  <2>2. ASSUME NEW b \in Nat, b - 8 \in r PROVE b \in byteUp(r)
    <3>1. b = (b - 8) + 8
      OBVIOUS
    <3> QED
      BY <2>2, <3>1 DEF byteUp
  <2> QED
    BY <2>1, <2>2
<1>3. \A b \in 0 .. 7 : b \notin byteUp(r)
  BY <1>2
<1>4. shr(byteUp(r), 8) = r
  <2>1. \A b \in Nat : b \in shr(byteUp(r), 8) <=> b + 8 \in byteUp(r)
    BY <1>1, ShrMembers
  <2>2. \A b \in Nat : b + 8 \in Nat /\ (b + 8) - 8 = b
    OBVIOUS
  <2>3. shr(byteUp(r), 8) \in SUBSET Nat
    BY <1>1, ShrMembers
  <2> QED
    BY <1>2, <2>1, <2>2, <2>3
<1> QED
  BY <1>1, <1>2, <1>3, <1>4

\* A byte that comes in after a step might have come in before it, one byte up.
LEMMA ByteBefore ==
  ASSUME NEW r \in SUBSET Nat, NEW d \in SUBSET Nat
  PROVE  SymDiff(Clock8(CRC32, r), d) = Clock8(CRC32, SymDiff(byteUp(d), r))
<1>1. CRC32 \in SUBSET Nat
  BY DEF CRC32
<1>2. Clock8(CRC32, SymDiff(byteUp(d), r)) = SymDiff(shr(byteUp(d), 8), Clock8(CRC32, r))
  BY <1>1, ByteUpMembers, Clock8Split
<1>3. shr(byteUp(d), 8) = d
  BY ByteUpMembers
<1> QED
  BY <1>2, <1>3 DEF SymDiff

LEMMA StepBefore ==
  ASSUME NEW r \in SUBSET Nat, NEW x \in SUBSET Nat, NEW y \in SUBSET Nat
  PROVE  SymDiff(Clock8(CRC32, SymDiff(r, x)), y)
           = Clock8(CRC32, SymDiff(r, SymDiff(byteUp(y), x)))
<1>1. SymDiff(r, x) \in SUBSET Nat
  BY DEF SymDiff
<1>2. SymDiff(byteUp(y), SymDiff(r, x)) = SymDiff(r, SymDiff(byteUp(y), x))
  BY DEF SymDiff
<1> QED
  BY <1>1, <1>2, ByteBefore

\* Four bytes as one word, the first in the low byte.
Word(a, b, c, d) == SymDiff(byteUp(SymDiff(byteUp(SymDiff(byteUp(d), c)), b)), a)

Clock32(r) == Clock8(CRC32, Clock8(CRC32, Clock8(CRC32, Clock8(CRC32, r))))

LEMMA Clock32Injective ==
  ASSUME NEW r \in SUBSET (0 .. 31), NEW s \in SUBSET (0 .. 31), Clock32(r) = Clock32(s)
  PROVE  r = s
<1>1. CRC32 \in SUBSET (0 .. 31) /\ 31 \in CRC32 /\ 31 \in Nat
  BY Widths
<1>2. \A x \in SUBSET (0 .. 31) : Clock8(CRC32, x) \in SUBSET (0 .. 31)
  BY <1>1, ClockCloses
<1>3. \A x, y \in SUBSET (0 .. 31) : Clock8(CRC32, x) = Clock8(CRC32, y) => x = y
  BY <1>1, Clock8Injective
<1> QED
  BY <1>2, <1>3 DEF Clock32

LEMMA FourUpdates ==
  ASSUME NEW r0 \in uint32_t, NEW a \in uint8_t, NEW b \in uint8_t, NEW c \in uint8_t,
         NEW d \in uint8_t
  PROVE  crc_32_update(crc_32_update(crc_32_update(crc_32_update(r0, a), b), c), d)
           = Clock32(SymDiff(r0, Word(a, b, c, d)))
<1> DEFINE r1 == crc_32_update(r0, a)
           r2 == crc_32_update(r1, b)
           r3 == crc_32_update(r2, c)
           e == SymDiff(byteUp(d), c)
           f == SymDiff(byteUp(e), b)
<1>1. r1 \in uint32_t /\ r2 \in uint32_t /\ r3 \in uint32_t
  BY Update32
<1>2. /\ r0 \in SUBSET Nat /\ r1 \in SUBSET Nat /\ r2 \in SUBSET Nat
      /\ a \in SUBSET Nat /\ b \in SUBSET Nat /\ c \in SUBSET Nat /\ d \in SUBSET Nat
  BY <1>1, Widths
<1>3. e \in SUBSET Nat /\ f \in SUBSET Nat
  <2>1. e \in SUBSET Nat
    BY <1>2, ByteUpMembers DEF SymDiff
  <2> HIDE DEF e
  <2>2. f \in SUBSET Nat
    BY <1>2, <2>1, ByteUpMembers DEF SymDiff
  <2> QED
    BY <2>1, <2>2
<1>4. SymDiff(r3, d) = Clock8(CRC32, SymDiff(r2, e))
  BY <1>1, <1>2, Update32, StepBefore
<1>5. SymDiff(r2, e) = Clock8(CRC32, SymDiff(r1, f))
  <2> HIDE DEF e
  <2> QED
    BY <1>1, <1>2, <1>3, Update32, StepBefore
<1>6. SymDiff(r1, f) = Clock8(CRC32, SymDiff(r0, SymDiff(byteUp(f), a)))
  <2> HIDE DEF f
  <2> QED
    BY <1>1, <1>2, <1>3, Update32, StepBefore
<1>7. crc_32_update(r3, d) = Clock8(CRC32, SymDiff(r3, d))
  BY <1>1, Update32
<1> QED
  BY <1>4, <1>5, <1>6, <1>7 DEF Clock32, Word

LEMMA JoinedWidth ==
  ASSUME NEW T \in Nat, NEW x \in SUBSET (0 .. T), NEW c \in uint8_t
  PROVE  SymDiff(byteUp(x), c) \in SUBSET (0 .. T + 8)
<1>1. \A i \in byteUp(x) : i \in 0 .. T + 8
  <2> TAKE i \in byteUp(x)
  <2>1. PICK b \in x : i = b + 8
    BY DEF byteUp
  <2>2. b \in 0 .. T
    BY <2>1
  <2> QED
    BY <2>1, <2>2
<1>2. \A i \in c : i \in 0 .. 7
  BY DEF uint8_t
<1>3. \A i \in c : i \in 0 .. T + 8
  BY <1>2
<1> QED
  BY <1>1, <1>3 DEF SymDiff

LEMMA JoinedBytes ==
  ASSUME NEW x \in SUBSET Nat, NEW c \in uint8_t
  PROVE  /\ SymDiff(byteUp(x), c) \cap (0 .. 7) = c
         /\ shr(SymDiff(byteUp(x), c), 8) = x
<1>1. c \subseteq 0 .. 7
  BY DEF uint8_t
<1>2. SymDiff(byteUp(x), c) \cap (0 .. 7) = c
  BY <1>1, ByteUpMembers DEF SymDiff
<1>3. \A i \in c : ~(i >= 8)
  BY <1>1
<1>4. shr(SymDiff(byteUp(x), c), 8) = shr(byteUp(x), 8)
  <2>1. \A i : i \in SymDiff(byteUp(x), c) /\ i >= 8 <=> i \in byteUp(x) /\ i >= 8
    BY <1>3 DEF SymDiff
  <2> DEFINE y == SymDiff(byteUp(x), c)
  <2>2. {i \in y : i >= 8} = {i \in byteUp(x) : i >= 8}
    <3> HIDE DEF y
    <3>1. \A i : i \in y /\ i >= 8 <=> i \in byteUp(x) /\ i >= 8
      BY <2>1 DEF y
    <3> QED
      BY <3>1
  <2> QED
    BY <2>2 DEF shr
<1> QED
  BY <1>2, <1>4, ByteUpMembers

\* A word has 32 bits, and determines its bytes.
LEMMA WordWidth ==
  ASSUME NEW a \in uint8_t, NEW b \in uint8_t, NEW c \in uint8_t, NEW d \in uint8_t
  PROVE  Word(a, b, c, d) \in uint32_t
<1> DEFINE e == SymDiff(byteUp(d), c)
           f == SymDiff(byteUp(e), b)
<1>1. d \in SUBSET (0 .. 7)
  BY DEF uint8_t
<1>2. e \in SUBSET (0 .. 7 + 8)
  BY <1>1, JoinedWidth
<1> HIDE DEF e
<1>3. f \in SUBSET (0 .. 15 + 8)
  BY <1>2, JoinedWidth, 7 + 8 = 15
<1> HIDE DEF f
<1>4. SymDiff(byteUp(f), a) \in SUBSET (0 .. 23 + 8)
  BY <1>3, JoinedWidth, 15 + 8 = 23
<1> QED
  BY <1>4, 23 + 8 = 31 DEF Word, e, f, uint32_t

LEMMA WordBytes ==
  ASSUME NEW a \in uint8_t, NEW b \in uint8_t, NEW c \in uint8_t, NEW d \in uint8_t
  PROVE  /\ a = Word(a, b, c, d) \cap (0 .. 7)
         /\ b = shr(Word(a, b, c, d), 8) \cap (0 .. 7)
         /\ c = shr(shr(Word(a, b, c, d), 8), 8) \cap (0 .. 7)
         /\ d = shr(shr(shr(Word(a, b, c, d), 8), 8), 8)
<1> DEFINE w == Word(a, b, c, d)
           e == SymDiff(byteUp(d), c)
           f == SymDiff(byteUp(e), b)
<1>1. d \in SUBSET Nat /\ c \in SUBSET Nat /\ b \in SUBSET Nat
  BY Widths
<1>2. e \in SUBSET Nat /\ e \cap (0 .. 7) = c /\ shr(e, 8) = d
  BY <1>1, ByteUpMembers, JoinedBytes DEF SymDiff
<1> HIDE DEF e
<1>3. f \in SUBSET Nat /\ f \cap (0 .. 7) = b /\ shr(f, 8) = e
  BY <1>1, <1>2, ByteUpMembers, JoinedBytes DEF SymDiff
<1> HIDE DEF f
<1>4. w = SymDiff(byteUp(f), a)
  BY DEF Word, e, f
<1>5. w \cap (0 .. 7) = a /\ shr(w, 8) = f
  BY <1>3, <1>4, JoinedBytes
<1> QED
  BY <1>2, <1>3, <1>5

LEMMA WindowBytes ==
  ASSUME NEW h \in [1 .. 4 -> uint8_t], NEW w, w = Word(h[1], h[2], h[3], h[4])
  PROVE  /\ h[1] = w \cap (0 .. 7)
         /\ h[2] = shr(w, 8) \cap (0 .. 7)
         /\ h[3] = shr(shr(w, 8), 8) \cap (0 .. 7)
         /\ h[4] = shr(shr(shr(w, 8), 8), 8)
<1>1. PICK a, b, c, d \in uint8_t : h[1] = a /\ h[2] = b /\ h[3] = c /\ h[4] = d
  OBVIOUS
<1>2. w = Word(a, b, c, d)
  BY <1>1
<1>3. /\ a = w \cap (0 .. 7)
      /\ b = shr(w, 8) \cap (0 .. 7)
      /\ c = shr(shr(w, 8), 8) \cap (0 .. 7)
      /\ d = shr(shr(shr(w, 8), 8), 8)
  BY <1>2, WordBytes
<1> QED
  BY <1>1, <1>3

LEMMA SameWindow ==
  ASSUME NEW f \in [1 .. 4 -> uint8_t], NEW g \in [1 .. 4 -> uint8_t],
         Word(f[1], f[2], f[3], f[4]) = Word(g[1], g[2], g[3], g[4])
  PROVE  f = g
<1>1. f[1] = g[1] /\ f[2] = g[2] /\ f[3] = g[3] /\ f[4] = g[4]
  BY WindowBytes
<1>2. \A j \in 1 .. 4 : j = 1 \/ j = 2 \/ j = 3 \/ j = 4
  OBVIOUS
<1> QED
  BY <1>1, <1>2

\* Registers that agree at one place of two pages with the same bytes behind it
\* agree at the end, and the other way round.
LEMMA SameBytesSameRegisters ==
  ASSUME NEW s \in Seq(uint8_t), NEW t \in Seq(uint8_t), Len(s) = Len(t),
         NEW f, NEW g, Registers(f, s), Registers(g, t),
         NEW m \in Nat, NEW n \in Nat, m <= n, n <= Len(s),
         \A j \in m + 1 .. n : s[j] = t[j]
  PROVE  f[m] = g[m] <=> f[n] = g[n]
<1> DEFINE S == {k \in Nat : m + k <= n => (f[m] = g[m] <=> f[m + k] = g[m + k])}
<1>1. 0 \in S
  OBVIOUS
<1>2. ASSUME NEW k \in Nat, k \in S PROVE k + 1 \in S
  <2> SUFFICES ASSUME m + (k + 1) <= n
               PROVE  f[m] = g[m] <=> f[m + (k + 1)] = g[m + (k + 1)]
    BY DEF S
  <2> DEFINE j == m + k
  <2>1. /\ j \in 0 .. Len(s) /\ j + 1 \in 1 .. Len(s) /\ j + 1 \in m + 1 .. n
        /\ (j + 1) - 1 = j /\ j + 1 = m + (k + 1)
    OBVIOUS
  <2>2. f[m] = g[m] <=> f[j] = g[j]
    BY <1>2
  <2> HIDE DEF j
  <2>3. f[j] \in uint32_t /\ g[j] \in uint32_t /\ s[j + 1] \in uint8_t /\ s[j + 1] = t[j + 1]
    <3>1. f[j] \in uint32_t /\ g[j] \in uint32_t
      BY <2>1 DEF Registers
    <3>2. s[j + 1] \in uint8_t
      BY <2>1
    <3>3. s[j + 1] = t[j + 1]
      BY <2>1
    <3> QED
      BY <3>1, <3>2, <3>3
  <2>4. f[j + 1] = crc_32_update(f[j], s[j + 1]) /\ g[j + 1] = crc_32_update(g[j], t[j + 1])
    BY <2>1 DEF Registers
  <2>5. f[j] = g[j] <=> f[j + 1] = g[j + 1]
    BY <2>3, <2>4, UpdateInjective
  <2> QED
    BY <2>1, <2>2, <2>5
<1> HIDE DEF S
<1>3. n - m \in S /\ m + (n - m) = n
  BY <1>1, <1>2, SetInduction
<1> QED
  BY <1>3 DEF S

\* bootloader.c:106: pages that differ, but in no more than four bytes in a row,
\* have different CRCs, whatever is before and behind them: a damaged byte or
\* word of a page in the buffer is never committed.
THEOREM PageCrcTellsApart ==
  ASSUME NEW s \in Seq(uint8_t), NEW t \in Seq(uint8_t), Len(s) = Len(t), s # t,
         NEW i \in Nat, i + 4 <= Len(s),
         \A j \in 1 .. Len(s) : j \notin i + 1 .. i + 4 => s[j] = t[j]
  PROVE  crc_32(s) # crc_32(t)
<1> SUFFICES ASSUME crc_32(s) = crc_32(t) PROVE FALSE
  OBVIOUS
<1> DEFINE k == Len(s)
<1>1. k \in Nat /\ i <= k
  OBVIOUS
<1>2. PICK f : Registers(f, s) /\ crc_32(s) = crc_32_finalize(f[k])
  BY CrcIsLastRegister
<1>3. PICK g : Registers(g, t) /\ crc_32(t) = crc_32_finalize(g[k])
  BY CrcIsLastRegister
<1>4. f[k] = g[k]
  <2>1. crc_32_finalize(f[k]) = crc_32_finalize(g[k])
    BY <1>2, <1>3
  <2>2. f[k] = g[k]
    BY <2>1 DEF crc_32_finalize, SymDiff
  <2> QED
    BY <2>2
<1>5. f[i] = g[i]
  <2>1. f[0] = g[0]
    BY <1>2, <1>3 DEF Registers
  <2>2. \A j \in 0 + 1 .. i : s[j] = t[j]
    OBVIOUS
  <2> QED
    BY <1>1, <1>2, <1>3, <2>1, <2>2, SameBytesSameRegisters
<1>6. f[i + 4] = g[i + 4]
  <2>1. \A j \in (i + 4) + 1 .. k : s[j] = t[j]
    OBVIOUS
  <2> DEFINE m == i + 4
  <2>2. m \in Nat /\ m <= k /\ k <= Len(s) /\ \A j \in m + 1 .. k : s[j] = t[j]
    BY <2>1
  <2> HIDE DEF m, k
  <2>3. f[m] = g[m] <=> f[k] = g[k]
    BY <1>1, <1>2, <1>3, <2>2, SameBytesSameRegisters
  <2> QED
    BY <1>4, <2>3 DEF m
<1>7. /\ s[i + 1] \in uint8_t /\ s[i + 2] \in uint8_t /\ s[i + 3] \in uint8_t /\ s[i + 4] \in uint8_t
      /\ t[i + 1] \in uint8_t /\ t[i + 2] \in uint8_t /\ t[i + 3] \in uint8_t /\ t[i + 4] \in uint8_t
  OBVIOUS
<1> DEFINE v == Word(s[i + 1], s[i + 2], s[i + 3], s[i + 4])
           w == Word(t[i + 1], t[i + 2], t[i + 3], t[i + 4])
<1>8. ASSUME NEW d \in Seq(uint8_t), NEW h, Registers(h, d), Len(d) = k
      PROVE  /\ h[i] \in uint32_t
             /\ h[i + 4] = Clock32(SymDiff(h[i], Word(d[i + 1], d[i + 2], d[i + 3], d[i + 4])))
  <2>1. /\ i \in 0 .. k /\ i + 1 \in 1 .. k /\ i + 2 \in 1 .. k /\ i + 3 \in 1 .. k /\ i + 4 \in 1 .. k
        /\ (i + 1) - 1 = i /\ (i + 2) - 1 = i + 1 /\ (i + 3) - 1 = i + 2 /\ (i + 4) - 1 = i + 3
    OBVIOUS
  <2>2. /\ h[i + 1] = crc_32_update(h[i], d[i + 1])
        /\ h[i + 2] = crc_32_update(h[i + 1], d[i + 2])
        /\ h[i + 3] = crc_32_update(h[i + 2], d[i + 3])
        /\ h[i + 4] = crc_32_update(h[i + 3], d[i + 4])
    BY <1>8, <2>1 DEF Registers
  <2>3. h[i] \in uint32_t
    BY <1>8, <2>1 DEF Registers
  <2>4. /\ d[i + 1] \in uint8_t /\ d[i + 2] \in uint8_t /\ d[i + 3] \in uint8_t /\ d[i + 4] \in uint8_t
    BY <1>8, <2>1
  <2> DEFINE r == h[i]
             d1 == d[i + 1]
             d2 == d[i + 2]
             d3 == d[i + 3]
             d4 == d[i + 4]
  <2>5. h[i + 4] = crc_32_update(crc_32_update(crc_32_update(crc_32_update(r, d1), d2), d3), d4)
    BY <2>2
  <2>6. r \in uint32_t /\ d1 \in uint8_t /\ d2 \in uint8_t /\ d3 \in uint8_t /\ d4 \in uint8_t
    BY <2>3, <2>4
  <2>7. crc_32_update(crc_32_update(crc_32_update(crc_32_update(r, d1), d2), d3), d4)
          = Clock32(SymDiff(r, Word(d1, d2, d3, d4)))
    <3> HIDE DEF r, d1, d2, d3, d4
    <3> QED
      BY <2>6, FourUpdates
  <2> QED
    BY <2>3, <2>5, <2>7
<1>9. Clock32(SymDiff(f[i], v)) = Clock32(SymDiff(f[i], w)) /\ f[i] \in uint32_t
  BY <1>2, <1>3, <1>5, <1>6, <1>8
<1>10. v \in uint32_t /\ w \in uint32_t
  <2>1. \A a, b, c, d \in uint8_t : Word(a, b, c, d) \in uint32_t
    BY WordWidth
  <2> QED
    BY <1>7, <2>1
<1>11. v = w
  <2> HIDE DEF v, w
  <2>1. SymDiff(f[i], v) \in SUBSET (0 .. 31) /\ SymDiff(f[i], w) \in SUBSET (0 .. 31)
    BY <1>9, <1>10 DEF SymDiff, uint32_t
  <2>2. SymDiff(f[i], v) = SymDiff(f[i], w)
    BY <1>9, <2>1, Clock32Injective
  <2> QED
    BY <2>2 DEF SymDiff
<1>12. s[i + 1] = t[i + 1] /\ s[i + 2] = t[i + 2] /\ s[i + 3] = t[i + 3] /\ s[i + 4] = t[i + 4]
  <2> DEFINE d == [j \in 1 .. 4 |-> s[i + j]]
             e == [j \in 1 .. 4 |-> t[i + j]]
  <2>1. \A j \in 1 .. 4 : s[i + j] \in uint8_t /\ t[i + j] \in uint8_t
    OBVIOUS
  <2>2. d \in [1 .. 4 -> uint8_t] /\ e \in [1 .. 4 -> uint8_t]
    BY <2>1
  <2>3. /\ d[1] = s[i + 1] /\ d[2] = s[i + 2] /\ d[3] = s[i + 3] /\ d[4] = s[i + 4]
        /\ e[1] = t[i + 1] /\ e[2] = t[i + 2] /\ e[3] = t[i + 3] /\ e[4] = t[i + 4]
    OBVIOUS
  <2> HIDE DEF d, e
  <2>4. Word(d[1], d[2], d[3], d[4]) = Word(e[1], e[2], e[3], e[4])
    BY <1>11, <2>3
  <2>5. d = e
    BY <2>2, <2>4, SameWindow
  <2> QED
    BY <2>3, <2>5
<1>13. \A j \in 1 .. k : s[j] = t[j]
  <2>1. \A j \in i + 1 .. i + 4 : j = i + 1 \/ j = i + 2 \/ j = i + 3 \/ j = i + 4
    OBVIOUS
  <2> QED
    BY <1>12, <2>1
<1> QED
  BY <1>13
=============================================================================
