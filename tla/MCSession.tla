----------------------------- MODULE MCSession -----------------------------
(***************************************************************************)
(* An image of two pages, the second one short, sent in one-byte chunks to *)
(* a device with two-byte pages that holds an old image, under the CRC of  *)
(* crc.c.                                                                  *)
(***************************************************************************)
EXTENDS Session, SequencesExt

MCBasePage == 1048576
MCCell == 0 .. CONFIG_PAGE_SIZE - 1
MCContent == SUBSET MCCell
MCInitialFlashes == {[p \in 0 .. DEVICE_PAGES - 1 |-> {0}]}
MCImage == <<[size |-> 2, data |-> {1}], [size |-> 1, data |-> {0}]>>

Crc == INSTANCE Crc

\* The bytes of a page: a blank cell is FF, a programmed one 00.
Bytes(content) == [i \in 1 .. CONFIG_PAGE_SIZE |-> IF i - 1 \in content THEN {} ELSE 0 .. 7]

\* A register as an integer: TLC's are 32 bits wide, and signed.
Signed(register) ==
  LET value == SumSet({2 ^ b : b \in register \ {31}})
  IN  IF 31 \in register THEN (value - 2147483647) - 1 ELSE value

\* Extended by nothing, so that TLC computes the function once and for all.
MCCrcs == [content \in MCContent |-> Signed(Crc!crc_32(Bytes(content)))] @@ <<>>
MCcrc_32_page(content) == MCCrcs[content]
MCAskedCrcs == {MCCrcs[content] : content \in MCContent}

\* The check values of the two CRCs, of the ASCII digits from 1 to 9; and both
\* ends compute the same CRC of every page.
Digit(d) == {4, 5} \cup {b \in 0 .. 3 : (d \div 2 ^ b) % 2 = 1}

ASSUME CheckValues ==
  LET digits == [d \in 1 .. 9 |-> Digit(d)]
  IN  /\ FoldLeft(Crc!crc_16ibm_update, {}, digits)
           = {0, 2, 3, 4, 5, 8, 9, 11, 12, 13, 15}                               \* 0xBB3D
      /\ Crc!crc_32(digits)
           = {1, 2, 5, 8, 11, 12, 13, 18, 20, 21, 22, 23, 24, 25, 27, 30, 31}    \* 0xCBF43926
ASSUME EndsAgreeOnPages ==
  \A content \in MCContent : Crc!host_crc_32(Bytes(content)) = Crc!crc_32(Bytes(content))

MCAskedChunks ==
  {[offset |-> o, data_len |-> 1, data |-> d] : o \in {0}, d \in {{}, {0}}}
    \cup {[offset |-> 1, data_len |-> 1, data |-> {1}]}
=============================================================================
