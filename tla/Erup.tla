-------------------------------- MODULE Erup --------------------------------
(***************************************************************************)
(* The frame of inc/rader.h, over byte sequences: element k + 1 is the      *)
(* code's buf[k].                                                           *)
(*                                                                         *)
(*     FB | length, high byte first | flag | data | crc8(data) | FE         *)
(*                                                                         *)
(* The receive buffer is cleared before every read, so a byte beyond those  *)
(* read is 0.  (A read that fills the whole buffer leaves nothing cleared   *)
(* behind it, but rader_cmd then looks at such bytes only to compute a      *)
(* packet length that exceeds what is left whatever they hold.)             *)
(***************************************************************************)
EXTENDS Integers, Sequences

CONSTANT Crc8(_)      \* crc8() of a byte sequence

ERUP_BEGIN == 251
ERUP_END == 254

ByteAt(p, k) == IF k + 1 \in DOMAIN p THEN p[k + 1] ELSE 0

ERUP_GET_LEN(p) == ByteAt(p, 1) * 256 + ByteAt(p, 2)
ERUP_GET_PACKET_LEN(p) == ERUP_GET_LEN(p) + 6
ERUP_GET_FLAG(p) == ByteAt(p, 3)
ERUP_GET_DATA(p) == SubSeq(p, 5, 4 + ERUP_GET_LEN(p))
ERUP_GET_CRC(p) == ByteAt(p, ERUP_GET_LEN(p) + 4)
ERUP_GET_END(p) == ByteAt(p, ERUP_GET_LEN(p) + 5)

(* rader_cmd's loop: what is left from the first ERUP_BEGIN on *)
FromBegin(buf) ==
  LET begins == {i \in DOMAIN buf : buf[i] = ERUP_BEGIN}
  IN IF begins = {} THEN << >>
     ELSE LET first == CHOOSE i \in begins : \A j \in begins : i <= j
          IN SubSeq(buf, first, Len(buf))

(* the three checks a command packet passes before it is acted on *)
Complete(p) == Len(p) >= ERUP_GET_PACKET_LEN(p)
Intact_NoCrc(p) == ERUP_GET_END(p) = ERUP_END
Intact(p) ==
  /\ ERUP_GET_END(p) = ERUP_END
  /\ ERUP_GET_CRC(p) = Crc8(ERUP_GET_DATA(p))

Accepts(buf) == LET p == FromBegin(buf) IN Complete(p) /\ Intact(p)

(* rader_recv and rader_heart fill a frame field by field.  Their buf is an *)
(* array of plain char: where that is signed, ERUP_GET_LEN(buf) is negative *)
(* for a length whose low byte is 128 or more and they cannot frame it.     *)
Frameable(len) == len \in Nat /\ len < 65536 /\ len % 256 < 128

Packet_LowFirst(flag, data) ==
  <<ERUP_BEGIN, Len(data) % 256, Len(data) \div 256, flag>>
     \o data \o <<Crc8(data), ERUP_END>>
Packet(flag, data) ==
  <<ERUP_BEGIN, Len(data) \div 256, Len(data) % 256, flag>>
     \o data \o <<Crc8(data), ERUP_END>>

rader_heart(data) == Packet(0, data)
=============================================================================
