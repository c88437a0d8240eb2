-------------------------------- MODULE Crc --------------------------------
(***************************************************************************)
(* The CRCs of both ends at their full width: crc.c of the device, and the *)
(* first half of moon_transport.py.  A byte or a register is the set of    *)
(* its bits that are one, so an exclusive or is the symmetric difference   *)
(* and a mask an intersection.                                             *)
(***************************************************************************)
EXTENDS Naturals, SequencesExt

uint8_t == SUBSET (0 .. 7)
uint16_t == SUBSET (0 .. 15)
uint32_t == SUBSET (0 .. 31)

\* register >> n
shr(register, n) == {b - n : b \in {c \in register : c >= n}}

\* Division by a polynomial, least significant bit first: its highest
\* coefficient is bit 0's, and is left out.
Clock(polynomial, register) ==
  IF 0 \in register THEN SymDiff(shr(register, 1), polynomial) ELSE shr(register, 1)

Clock2(polynomial, register) == Clock(polynomial, Clock(polynomial, register))
Clock4(polynomial, register) == Clock2(polynomial, Clock2(polynomial, register))
Clock8(polynomial, register) == Clock4(polynomial, Clock4(polynomial, register))

ANSI == {0, 13, 15}                                                \* 0xA001
CRC32 == {5, 8, 9, 15, 19, 20, 21, 23, 24, 26, 27, 29, 30, 31}     \* 0xEDB88320

Table(polynomial) == [i \in uint8_t |-> Clock8(polynomial, i)]

\* (crc >> 8) ^ table[(crc ^ data) & 0xFF]
Update(table, crc, data) == SymDiff(shr(crc, 8), table[SymDiff(crc, data) \cap (0 .. 7)])

-----------------------------------------------------------------------------
(* crc.c *)

crc_16ansi_table_g == Table(ANSI)
crc_32_table_g == Table(CRC32)

crc_16ibm_update(crc, data) == Update(crc_16ansi_table_g, crc, data)

CRC_32_INIT_VALUE == 0 .. 31
crc_32_update(crc, data) == Update(crc_32_table_g, crc, data)
crc_32_finalize(crc) == SymDiff(crc, 0 .. 31)

\* No caller passes NULL.
crc_32(data) == crc_32_finalize(FoldLeft(crc_32_update, CRC_32_INIT_VALUE, data))

-----------------------------------------------------------------------------
(* moon_transport.py *)

CRC_16IBM_TAB == Table(ANSI)
CRC_32_TAB == Table(CRC32)

\* crc_16ibm and crc_32 for one byte: Python's integers have no width, so the
\* result is masked.
host_crc_16ibm(crc, d) == Update(CRC_16IBM_TAB, crc \cap (0 .. 15), d) \cap (0 .. 15)
host_crc_32_step(crc, d) == Update(CRC_32_TAB, crc, d) \cap (0 .. 31)

host_crc_32(data) == SymDiff(FoldLeft(host_crc_32_step, 0 .. 31, data), 0 .. 31)
=============================================================================
