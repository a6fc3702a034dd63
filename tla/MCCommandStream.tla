-------------------------- MODULE MCCommandStream ---------------------------
(***************************************************************************)
(* CommandStream with commands S and M and a payload that begins like the   *)
(* packet of S, crc8 as it is computed, and bursts that try it.             *)
(***************************************************************************)
EXTENDS CommandStream, FiniteSetsExt

MCWord == 256
MCWild == -1
MCDataLen == [flag \in DataFlags |-> 2]
MCUartReads == {<<0, 0>>}
MCPayloads == {<<83>>, <<77>>, <<251, 0, 1, 0, 83>>}

(* A single bit at either end of a byte, a byte, the longest bursts within  *)
(* and across two bytes, and the polynomial itself but for its ninth bit.   *)
MCBursts == {{0}, {7}, 0 .. 7, {7, 8, 14}, {4, 7, 8, 11}, {0, 3, 4}}
MCNoBursts == {}

(* crc8 is the CRC-8 with polynomial x^8 + x^5 + x^4 + 1, low bit first:    *)
(* the value published for the digits 1 to 9, and the remainder of the long *)
(* division by the nine bits {0, 3, 4, 8} for every message of two bytes    *)
(* from a sample.                                                           *)
ASSUME CheckValue == crc8(<<49, 50, 51, 52, 53, 54, 55, 56, 57>>) = 161

Remainder(message, n) ==      \* message: its one bits, in the order sent
  LET rest[i \in 0 .. n] ==
        IF i = 0 THEN message
        ELSE IF i - 1 \in rest[i - 1]
               THEN Xor(rest[i - 1], {i - 1 + b : b \in {0, 3, 4, 8}})
               ELSE rest[i - 1]
  IN {b - n : b \in rest[n]}
ASSUME LongDivision ==
  \A m, n \in {0, 1, 2, 3, 83, 127, 128, 140, 170, 251, 254, 255} :
     crc8(<<m, n>>) =
       NumberOf[Remainder(BitsOf[m] \cup {8 + b : b \in BitsOf[n]}, 16)]

(* PacketAssumption for the commands the radar knows (its letters, and      *)
(* "close socket!"), reads of 4096 bytes and every burst of up to eight     *)
(* bits: no damage to a command makes a packet inside its packet.           *)
AllBursts ==
  {burst \in SUBSET (0 .. 14) : burst # {} /\ Max(burst) - Min(burst) < 8}
RealCommands ==
  {<<letter>> : letter \in Letters}
    \cup {<<99, 108, 111, 115, 101, 32, 115, 111, 99, 107, 101, 116, 33>>}
ASSUME RealPackets ==
  \A data \in RealCommands :
     /\ NoneInside(Packet(0, data), 4096)
     /\ \A k \in 5 .. 5 + Len(data), burst \in AllBursts :
           Covered(data, k, burst) =>
             NoneInside(Damaged(Packet(0, data), k, burst), 4096)
=============================================================================
