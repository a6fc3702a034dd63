--------------------------------- MODULE Crc8 -------------------------------
(***************************************************************************)
(* crc8 of src/rader.c.  An unsigned char is the set of its one bits, so    *)
(* that ^ is the symmetric difference and >> moves every bit down; byte     *)
(* sequences hold numbers, as everywhere else.                              *)
(***************************************************************************)
EXTENDS Integers, Sequences

Bits == 0 .. 7
Polynomial == {2, 3, 7}                     \* 0x8c

BitsOf == [n \in 0 .. 255 |-> {b \in Bits : (n \div 2^b) % 2 = 1}]
NumberOf == [c \in SUBSET Bits |-> CHOOSE n \in 0 .. 255 : BitsOf[n] = c]

Xor(c, d) == (c \ d) \cup (d \ c)
ShiftRight(c) == {b - 1 : b \in c \ {0}}

(* one turn of the inner loop *)
Turn(c) == IF 0 \in c THEN Xor(ShiftRight(c), Polynomial) ELSE ShiftRight(c)

EightTurns ==
  [c \in SUBSET Bits |-> Turn(Turn(Turn(Turn(Turn(Turn(Turn(Turn(c))))))))]

(* one turn of the outer loop *)
Feed(crc, byte) == EightTurns[Xor(crc, byte)]

crc8(buffer) ==
  LET crc[len \in 0 .. Len(buffer)] ==
        IF len = 0 THEN {} ELSE Feed(crc[len - 1], BitsOf[buffer[len]])
  IN NumberOf[crc[Len(buffer)]]
=============================================================================
