------------------------------- MODULE MCLink -------------------------------
(***************************************************************************)
(* Bytes of two bits and a CRC register of four, clocked two bits at a     *)
(* time through a table, as crc.c clocks its register eight at a time.     *)
(***************************************************************************)
EXTENDS Link, Bitwise

\* x^4 + x + 1, least significant bit first.
POLYNOMIAL == 12

Shift(r) == IF r % 2 = 1 THEN (r \div 2) ^^ POLYNOMIAL ELSE r \div 2
Table == [i \in 0 .. RADIX - 1 |-> Shift(Shift(i))]

\* (crc >> 8) ^ table[(crc ^ data) & 0xFF]
Clocked == [r \in Register, c \in Byte |-> (r \div RADIX) ^^ Table[(r ^^ c) % RADIX]]
MCcrc_update(r, c) == Clocked[r, c]

\* The encoder takes no more than one byte here; an empty frame is answered
\* with one byte more than that, which it refuses.
MCAnswerTo(p) == IF p = <<>> THEN <<1, 3>> ELSE <<p[Len(p)]>>

\* Two requests whose frames end in the first sync byte.
MCMessages == {<<0, 2>>, <<2, 2>>}
=============================================================================
