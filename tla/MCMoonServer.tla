---------------------------- MODULE MCMoonServer ----------------------------
(***************************************************************************)
(* Requests of every shape: complete, cut short at each boundary, of an    *)
(* unknown service, method or version; and calls of every method with      *)
(* arguments whose bytes all differ.                                       *)
(***************************************************************************)
EXTENDS Rpc, TLC

HeaderBytes(service, method, seq, type, protocol) ==
  LET h == [service |-> service, method |-> method, sequence |-> seq,
            type |-> type, protocol |-> protocol]
  IN  <<HeaderByte(h, 0), HeaderByte(h, 1), HeaderByte(h, 2)>>

WithVersion(bytes, version) == [bytes EXCEPT ![1] = @ + version]

MCFrames ==
  {HeaderBytes(1, ping, 31, 0, 0),
   HeaderBytes(1, writePageBuffer, 1, 0, 0) \o <<2, 5, 1, 170, 187>>,
   HeaderBytes(1, eraseApp, 30, 0, 0) \o <<1>>,
   HeaderBytes(1, writePage, 2, 0, 0) \o <<0, 1, 2, 3, 4, 223, 0>>,
   HeaderBytes(1, setBootAction, 3, 1, 15) \o <<255>>,
   HeaderBytes(1, boot, 31, 3, 9),
   HeaderBytes(31, writePage, 4, 0, 0),
   HeaderBytes(1, 63, 31, 2, 0),
   \* cut short
   <<>>,
   <<132>>,
   HeaderBytes(1, eraseApp, 5, 0, 0),
   HeaderBytes(1, writePage, 6, 0, 0) \o <<0, 1, 2, 3>>,
   HeaderBytes(1, writePageBuffer, 7, 0, 0) \o <<200, 0, 0, 9>>,
   \* another version
   WithVersion(HeaderBytes(1, boot, 8, 0, 0), 1)}

\* An erase of APP_2 and a frame with nothing in it, not even a header.
MCShortFrames == {HeaderBytes(1, eraseApp, 30, 0, 0) \o <<1>>, <<>>}

\* What a spoiled writePageBuffer leaves behind.
MCBrokenFrames == {HeaderBytes(1, writePageBuffer, 9, 0, 0) \o <<3, 9, 9, 9, 9, 9, 9>>}

\* Calls of all methods; the largest CRC has TLC's largest high byte.
MCCalls ==
  {[method |-> ping],
   [method |-> erasePageBuffer],
   [method |-> eraseApp, app_id |-> 1],
   [method |-> setBootAction, action |-> 255],
   [method |-> writePage, app_id |-> 2, page_no |-> 1027, crc |-> 84281096],
   [method |-> writePage, app_id |-> 1, page_no |-> 65535, crc |-> 2147418367],
   [method |-> writePageBuffer, offset |-> 511, data |-> <<>>],
   [method |-> writePageBuffer, offset |-> 258, data |-> <<3, 4, 5>>],
   [method |-> boot]}

MCAnswers == {0, 254}
MCFrameCrcs == {<<129, 2>>}
=============================================================================
