----------------------------- MODULE Crc8Proofs ----------------------------
(***************************************************************************)
(* What crc8 catches, in a message of any length: two runs of its loop over *)
(* the same bytes, but for a burst of up to eight bits in a row, never end  *)
(* in the same checksum.  The register is linear (a turn moves the          *)
(* differences there are and adds none) and reversible (they never die      *)
(* out), so all that could go wrong is that the second byte of the burst    *)
(* undoes what eight turns have made of the first; BurstNotUndone is why it *)
(* does not.                                                                *)
(***************************************************************************)
EXTENDS Crc8, Induction, SequenceTheorems

(* The lowest bit of a number, and the others. *)
LEMMA LowestBit ==
  ASSUME NEW bit \in {0, 1}, NEW limit \in Nat, NEW a \in 0 .. limit
  PROVE  /\ bit + 2 * a \in 0 .. 2 * limit + 1
         /\ (bit + 2 * a) % 2 = bit /\ (bit + 2 * a) \div 2 = a
  OBVIOUS

(* Any eight bits make a byte. *)
LEMMA BitsMakeByte ==
  ASSUME NEW x \in [Bits -> {0, 1}]
  PROVE  \E n \in 0 .. 255 : \A b \in Bits : (n \div 2^b) % 2 = x[b]
<1>0. \A b \in 0 .. 7 : x[b] \in {0, 1}
  BY DEF Bits
<1>7. PICK a7 \in 0 .. 1 : a7 % 2 = x[7]
  BY <1>0
<1>6. PICK a6 \in 0 .. 3 : a6 % 2 = x[6] /\ a6 \div 2 = a7
  BY <1>0, LowestBit
<1>5. PICK a5 \in 0 .. 7 : a5 % 2 = x[5] /\ a5 \div 2 = a6
  BY <1>0, LowestBit
<1>4. PICK a4 \in 0 .. 15 : a4 % 2 = x[4] /\ a4 \div 2 = a5
  BY <1>0, LowestBit
<1>3. PICK a3 \in 0 .. 31 : a3 % 2 = x[3] /\ a3 \div 2 = a4
  BY <1>0, LowestBit
<1>2. PICK a2 \in 0 .. 63 : a2 % 2 = x[2] /\ a2 \div 2 = a3
  BY <1>0, LowestBit
<1>1. PICK a1 \in 0 .. 127 : a1 % 2 = x[1] /\ a1 \div 2 = a2
  BY <1>0, LowestBit
<1>8. PICK a0 \in 0 .. 255 : a0 % 2 = x[0] /\ a0 \div 2 = a1
  BY <1>0, LowestBit
<1>9. /\ a0 \div 2^0 = a0 /\ a0 \div 2^1 = a1 /\ a0 \div 2^2 = a2
      /\ a0 \div 2^3 = a3
  <2>1. 2^0 = 1 /\ 2^1 = 2 /\ 2^2 = 4 /\ 2^3 = 8
    OBVIOUS
  <2> QED
    BY <1>1, <1>2, <1>8, <2>1
<1>10. /\ a0 \div 2^4 = a4 /\ a0 \div 2^5 = a5 /\ a0 \div 2^6 = a6
       /\ a0 \div 2^7 = a7
  <2>1. 2^4 = 16 /\ 2^5 = 32 /\ 2^6 = 64 /\ 2^7 = 128
    OBVIOUS
  <2>2. a0 \div 8 = a3
    BY <1>1, <1>2, <1>8
  <2>3. a0 \div 16 = a4 /\ a0 \div 32 = a5 
    BY <1>3, <1>4, <2>2
  <2>4. a0 \div 64 = a6 /\ a0 \div 128 = a7
    BY <1>5, <1>6, <2>3
  <2> QED
    BY <2>1, <2>3, <2>4
<1>11. \A b \in Bits : b \in {0, 1, 2, 3, 4, 5, 6, 7}
  BY DEF Bits
<1> QED
  BY <1>1, <1>2, <1>3, <1>4, <1>5, <1>6, <1>7, <1>8, <1>9, <1>10, <1>11

(* ... and only one. *)
LEMMA HalvesDetermine ==
  ASSUME NEW m \in Nat, NEW n \in Nat, m \div 2 = n \div 2,
         m % 2 = 1 <=> n % 2 = 1
  PROVE  m = n
  OBVIOUS

LEMMA BitsDetermine ==
  ASSUME NEW m \in 0 .. 255, NEW n \in 0 .. 255, BitsOf[m] = BitsOf[n]
  PROVE  m = n
<1>1. \A b \in Bits : (m \div 2^b) % 2 = 1 <=> (n \div 2^b) % 2 = 1
  BY DEF BitsOf
<1>2. /\ 2^0 = 1 /\ 2^1 = 2 /\ 2^2 = 4 /\ 2^3 = 8
      /\ 2^4 = 16 /\ 2^5 = 32 /\ 2^6 = 64 /\ 2^7 = 128
  OBVIOUS
<1> DEFINE Agree(v) == (m \div v) % 2 = 1 <=> (n \div v) % 2 = 1
<1>3. \A b \in Bits : Agree(2^b)
  BY <1>1
<1> HIDE DEF Agree
<1>4. /\ 0 \in Bits /\ 1 \in Bits /\ 2 \in Bits /\ 3 \in Bits
      /\ 4 \in Bits /\ 5 \in Bits /\ 6 \in Bits /\ 7 \in Bits
  BY DEF Bits
<1>5. /\ Agree(1) /\ Agree(2) /\ Agree(4) /\ Agree(8)
      /\ Agree(16) /\ Agree(32) /\ Agree(64) /\ Agree(128)
  BY <1>2, <1>3, <1>4
<1>6. m \div 128 = n \div 128
  BY <1>5 DEF Agree
<1>7. m \div 64 = n \div 64
  <2>1. /\ m \div 64 \in Nat /\ (m \div 64) \div 2 = m \div 128
        /\ n \div 64 \in Nat /\ (n \div 64) \div 2 = n \div 128
    OBVIOUS
  <2> QED
    BY <1>5, <1>6, <2>1, HalvesDetermine DEF Agree
<1>8. m \div 32 = n \div 32
  <2>1. /\ m \div 32 \in Nat /\ (m \div 32) \div 2 = m \div 64
        /\ n \div 32 \in Nat /\ (n \div 32) \div 2 = n \div 64
    OBVIOUS
  <2> QED
    BY <1>5, <1>7, <2>1, HalvesDetermine DEF Agree
<1>9. m \div 16 = n \div 16
  <2>1. /\ m \div 16 \in Nat /\ (m \div 16) \div 2 = m \div 32
        /\ n \div 16 \in Nat /\ (n \div 16) \div 2 = n \div 32
    OBVIOUS
  <2> QED
    BY <1>5, <1>8, <2>1, HalvesDetermine DEF Agree
<1>10. m \div 8 = n \div 8
  <2>1. /\ m \div 8 \in Nat /\ (m \div 8) \div 2 = m \div 16
        /\ n \div 8 \in Nat /\ (n \div 8) \div 2 = n \div 16
    OBVIOUS
  <2> QED
    BY <1>5, <1>9, <2>1, HalvesDetermine DEF Agree
<1>11. m \div 4 = n \div 4
  <2>1. /\ m \div 4 \in Nat /\ (m \div 4) \div 2 = m \div 8
        /\ n \div 4 \in Nat /\ (n \div 4) \div 2 = n \div 8
    OBVIOUS
  <2> QED
    BY <1>5, <1>10, <2>1, HalvesDetermine DEF Agree
<1>12. m \div 2 = n \div 2
  <2>1. /\ m \div 2 \in Nat /\ (m \div 2) \div 2 = m \div 4
        /\ n \div 2 \in Nat /\ (n \div 2) \div 2 = n \div 4
    OBVIOUS
  <2> QED
    BY <1>5, <1>11, <2>1, HalvesDetermine DEF Agree
<1>13. m \div 1 = n \div 1
  <2>1. /\ m \div 1 \in Nat /\ (m \div 1) \div 2 = m \div 2
        /\ n \div 1 \in Nat /\ (n \div 1) \div 2 = n \div 2
    OBVIOUS
  <2> QED
    BY <1>5, <1>12, <2>1, HalvesDetermine DEF Agree
<1> QED
  BY <1>13

(* NumberOf and BitsOf are inverse to each other. *)
LEMMA NumberOfBits ==
  /\ \A c \in SUBSET Bits : NumberOf[c] \in 0 .. 255 /\ BitsOf[NumberOf[c]] = c
  /\ \A n \in 0 .. 255 : BitsOf[n] \in SUBSET Bits /\ NumberOf[BitsOf[n]] = n
<1>1. ASSUME NEW c \in SUBSET Bits
      PROVE  NumberOf[c] \in 0 .. 255 /\ BitsOf[NumberOf[c]] = c
  <2> DEFINE x == [b \in Bits |-> IF b \in c THEN 1 ELSE 0]
  <2>1. x \in [Bits -> {0, 1}]
    OBVIOUS
  <2>2. PICK n \in 0 .. 255 : \A b \in Bits : (n \div 2^b) % 2 = x[b]
    BY <2>1, BitsMakeByte
  <2>3. \A b \in Bits : x[b] = 1 <=> b \in c
    OBVIOUS
  <2> HIDE DEF x
  <2>4. BitsOf[n] = {b \in Bits : (n \div 2^b) % 2 = 1}
    BY DEF BitsOf
  <2>5. BitsOf[n] = c
    BY <2>2, <2>3, <2>4
  <2> QED
    BY <2>5 DEF NumberOf
<1>2. ASSUME NEW n \in 0 .. 255
      PROVE  BitsOf[n] \in SUBSET Bits
  BY DEF BitsOf
<1> QED
  BY <1>1, <1>2, BitsDetermine

-----------------------------------------------------------------------------
(* The register *)

LEMMA XorBits ==
  ASSUME NEW c \in SUBSET Bits, NEW d \in SUBSET Bits
  PROVE  /\ Xor(c, d) \in SUBSET Bits
         /\ \A b \in Bits : b \in Xor(c, d) <=> ((b \in c) # (b \in d))
  BY DEF Xor

(* Where >> and the polynomial put each bit.  Bit 7 is set exactly when     *)
(* bit 0 was: that is what makes a turn reversible.                         *)
LEMMA TurnBits ==
  ASSUME NEW c \in SUBSET Bits
  PROVE  /\ Turn(c) \in SUBSET Bits
         /\ 7 \in Turn(c) <=> 0 \in c
         /\ \A b \in 0 .. 6 :
              b \in Turn(c) <=> ((b + 1 \in c) # (0 \in c /\ b \in {2, 3}))
<1>1. ShiftRight(c) \in SUBSET (0 .. 6)
  BY DEF ShiftRight, Bits
<1>2. \A b \in 0 .. 6 : b \in ShiftRight(c) <=> b + 1 \in c
  <2> SUFFICES ASSUME NEW b \in 0 .. 6
               PROVE  b \in ShiftRight(c) <=> b + 1 \in c
    OBVIOUS
  <2>1. ASSUME b + 1 \in c PROVE b \in ShiftRight(c)
    <3>1. b + 1 \in c \ {0} /\ b = (b + 1) - 1
      BY <2>1
    <3> QED
      BY <3>1 DEF ShiftRight
  <2>2. ASSUME b \in ShiftRight(c) PROVE b + 1 \in c
    <3>1. PICK d \in c \ {0} : b = d - 1
      BY <2>2 DEF ShiftRight
    <3>2. d \in Int
      BY DEF Bits
    <3> QED
      BY <3>1, <3>2
  <2> QED
    BY <2>1, <2>2
<1>3. CASE 0 \in c
  <2>1. Turn(c) = Xor(ShiftRight(c), {2, 3, 7})
    BY <1>3 DEF Turn, Polynomial
  <2>2. Turn(c) \in SUBSET Bits
    BY <1>1, <2>1 DEF Xor, Bits
  <2>3. 7 \in Turn(c)
    BY <1>1, <2>1 DEF Xor
  <2>4. \A b \in 0 .. 6 : b \in Turn(c) <=> ((b + 1 \in c) # (b \in {2, 3}))
    BY <1>2, <2>1 DEF Xor
  <2> QED
    BY <1>3, <2>2, <2>3, <2>4
<1>4. CASE 0 \notin c
  <2>1. Turn(c) = ShiftRight(c)
    BY <1>4 DEF Turn
  <2> QED
    BY <1>1, <1>2, <1>4, <2>1 DEF Bits
<1> QED
  BY <1>3, <1>4

(* Different values stay different over a turn of the inner loop. *)
LEMMA TurnInjective ==
  ASSUME NEW c \in SUBSET Bits, NEW d \in SUBSET Bits, Turn(c) = Turn(d)
  PROVE  c = d
<1>1. 0 \in c <=> 0 \in d
  BY TurnBits
<1>2. \A b \in 0 .. 6 : b + 1 \in c <=> b + 1 \in d
  BY <1>1, TurnBits
<1>3. \A b \in Bits : b \in c <=> b \in d
  <2> TAKE b \in Bits
  <2>1. b = 0 \/ (b - 1 \in 0 .. 6 /\ (b - 1) + 1 = b)
    BY DEF Bits
  <2> QED
    BY <1>1, <1>2, <2>1
<1> QED
  BY <1>3

(* ... and so over the eight turns a byte takes. *)
LEMMA EightTurnsInjective ==
  ASSUME NEW c \in SUBSET Bits, NEW d \in SUBSET Bits
  PROVE  /\ EightTurns[c] \in SUBSET Bits
         /\ EightTurns[c] = EightTurns[d] => c = d
<1> DEFINE T2(x) == Turn(Turn(x))
           T4(x) == T2(T2(x))
<1>1. ASSUME NEW x \in SUBSET Bits, NEW y \in SUBSET Bits
      PROVE  T2(x) \in SUBSET Bits /\ (T2(x) = T2(y) => x = y)
  <2>1. Turn(x) \in SUBSET Bits /\ Turn(y) \in SUBSET Bits
    BY TurnBits
  <2> QED
    BY <2>1, TurnBits, TurnInjective
<1> HIDE DEF T2
<1>2. ASSUME NEW x \in SUBSET Bits, NEW y \in SUBSET Bits
      PROVE  T4(x) \in SUBSET Bits /\ (T4(x) = T4(y) => x = y)
  <2>1. T2(x) \in SUBSET Bits /\ T2(y) \in SUBSET Bits
    BY <1>1
  <2> QED
    BY <2>1, <1>1
<1>3. EightTurns[c] = T4(T4(c)) /\ EightTurns[d] = T4(T4(d))
  BY DEF EightTurns, T2
<1> HIDE DEF T4
<1>4. T4(c) \in SUBSET Bits /\ T4(d) \in SUBSET Bits
  BY <1>2
<1> QED
  BY <1>2, <1>3, <1>4


(* A turn adds no error of its own: it moves those there are. *)
LEMMA TurnLinear ==
  ASSUME NEW c \in SUBSET Bits, NEW d \in SUBSET Bits
  PROVE  Turn(Xor(c, d)) = Xor(Turn(c), Turn(d))
<1>1. /\ Xor(c, d) \in SUBSET Bits /\ Turn(c) \in SUBSET Bits
      /\ Turn(d) \in SUBSET Bits
  BY XorBits, TurnBits
<1>2. /\ Turn(Xor(c, d)) \in SUBSET Bits
      /\ Xor(Turn(c), Turn(d)) \in SUBSET Bits
  BY <1>1, XorBits, TurnBits
<1>3. 7 \in Turn(Xor(c, d)) <=> 7 \in Xor(Turn(c), Turn(d))
  <2>1. 7 \in Bits /\ 0 \in Bits
    BY DEF Bits
  <2> QED
    BY <1>1, <2>1, XorBits, TurnBits
<1>4. ASSUME NEW b \in 0 .. 6
      PROVE  b \in Turn(Xor(c, d)) <=> b \in Xor(Turn(c), Turn(d))
  <2>1. b \in Bits /\ b + 1 \in Bits /\ 0 \in Bits
    BY DEF Bits
  <2> QED
    BY <1>1, <2>1, XorBits, TurnBits
<1>5. \A b \in Bits : b = 7 \/ b \in 0 .. 6
  BY DEF Bits
<1> QED
  BY <1>2, <1>3, <1>4, <1>5

LEMMA EightTurnsLinear ==
  ASSUME NEW c \in SUBSET Bits, NEW d \in SUBSET Bits
  PROVE  EightTurns[Xor(c, d)] = Xor(EightTurns[c], EightTurns[d])
<1> DEFINE T2(x) == Turn(Turn(x))
           T4(x) == T2(T2(x))
<1>1. ASSUME NEW x \in SUBSET Bits, NEW y \in SUBSET Bits
      PROVE  T2(x) \in SUBSET Bits /\ T2(Xor(x, y)) = Xor(T2(x), T2(y))
  <2>1. Turn(x) \in SUBSET Bits /\ Turn(y) \in SUBSET Bits
    BY TurnBits
  <2> QED
    BY <2>1, TurnBits, TurnLinear
<1> HIDE DEF T2
<1>2. ASSUME NEW x \in SUBSET Bits, NEW y \in SUBSET Bits
      PROVE  T4(x) \in SUBSET Bits /\ T4(Xor(x, y)) = Xor(T4(x), T4(y))
  <2>1. T2(x) \in SUBSET Bits /\ T2(y) \in SUBSET Bits
    BY <1>1
  <2> QED
    BY <2>1, <1>1
<1>3. \A x \in SUBSET Bits : EightTurns[x] = T4(T4(x))
  BY DEF EightTurns, T2
<1> HIDE DEF T4
<1>4. /\ T4(c) \in SUBSET Bits /\ T4(d) \in SUBSET Bits
      /\ Xor(c, d) \in SUBSET Bits
  BY <1>2, XorBits
<1> QED
  BY <1>2, <1>3, <1>4

LEMMA NoError == EightTurns[{}] = {}
<1>1. Turn({}) = {}
  <2>1. ShiftRight({}) = {}
    BY DEF ShiftRight
  <2> QED
    BY <2>1 DEF Turn
<1> QED
  BY <1>1 DEF EightTurns

Lowest(c, b) == b \in c /\ \A a \in c : b <= a

(* A turn moves the lowest bit down. *)
LEMMA LowestFalls ==
  ASSUME NEW c \in SUBSET Bits, NEW b \in 1 .. 7, Lowest(c, b)
  PROVE  Lowest(Turn(c), b - 1)
<1>1. 0 \notin c
  BY DEF Lowest
<1>2. /\ Turn(c) \in SUBSET Bits /\ 7 \notin Turn(c)
      /\ \A a \in 0 .. 6 : a \in Turn(c) <=> a + 1 \in c
  BY <1>1, TurnBits
<1>3. b - 1 \in 0 .. 6 /\ (b - 1) + 1 = b
  OBVIOUS
<1>4. \A a \in Turn(c) : a \in 0 .. 6
  BY <1>2 DEF Bits
<1> QED
  BY <1>2, <1>3, <1>4 DEF Lowest

(* What a turn has left below some bit was one higher before it. *)
LEMMA HighestRose ==
  ASSUME NEW c \in SUBSET Bits, NEW h \in -1 .. 6, Turn(c) \subseteq 0 .. h
  PROVE  0 \notin c /\ c \subseteq 0 .. h + 1
<1>1. 7 \notin Turn(c)
  OBVIOUS
<1>2. 0 \notin c
  BY <1>1, TurnBits
<1>3. \A a \in 0 .. 6 : a \in Turn(c) <=> a + 1 \in c
  BY <1>2, TurnBits
<1>4. ASSUME NEW b \in c
      PROVE  b \in 0 .. h + 1
  <2>1. b - 1 \in 0 .. 6 /\ (b - 1) + 1 = b /\ b \in Int
    BY <1>2 DEF Bits
  <2>2. b - 1 \in 0 .. h
    BY <1>3, <2>1
  <2> QED
    BY <2>1, <2>2
<1> QED
  BY <1>2, <1>4

(* The part of a burst that lies in its first byte never turns into the     *)
(* part in its second.  If d has bits only below b, the turns that led to   *)
(* it moved them down to there and no bit came in at the top; but the       *)
(* lowest bit of the first byte, at b or above, fell out on the way.        *)
LEMMA BurstNotUndone ==
  ASSUME NEW c \in SUBSET Bits, c # {}, NEW d \in SUBSET Bits,
         \A a \in c, e \in d : e < a
  PROVE  EightTurns[c] # d
<1> SUFFICES ASSUME EightTurns[c] = d
             PROVE  FALSE
  OBVIOUS
<1>1. PICK b \in 0 .. 7 : Lowest(c, b)
  <2>1. c \in SUBSET Nat
    BY DEF Bits
  <2> QED
    BY <2>1, Least DEF Lowest, Bits
<1>2. PICK t \in [0 .. 8 -> SUBSET Bits] :
        t[0] = c /\ t[8] = d /\ \A k \in 1 .. 8 : t[k] = Turn(t[k - 1])
  <2> DEFINE t1 == Turn(c)
             t2 == Turn(t1)
             t3 == Turn(t2)
             t4 == Turn(t3)
             t5 == Turn(t4)
             t6 == Turn(t5)
             t7 == Turn(t6)
             t8 == Turn(t7)
             s == <<c, t1, t2, t3, t4, t5, t6, t7, t8>>
             t == [k \in 0 .. 8 |-> s[k + 1]]
  <2>1. d = t8
    BY DEF EightTurns
  <2> HIDE DEF t8
  <2>2. t8 = Turn(t7)
    BY DEF t8
  <2> HIDE DEF t7
  <2>3. t7 = Turn(t6)
    BY DEF t7
  <2> HIDE DEF t6
  <2>4. t6 = Turn(t5)
    BY DEF t6
  <2> HIDE DEF t5
  <2>5. t5 = Turn(t4)
    BY DEF t5
  <2> HIDE DEF t4
  <2>6. t4 = Turn(t3)
    BY DEF t4
  <2> HIDE DEF t3
  <2>7. t3 = Turn(t2)
    BY DEF t3
  <2> HIDE DEF t2
  <2>8. t2 = Turn(t1)
    BY DEF t2
  <2> HIDE DEF t1
  <2>9. t1 = Turn(c)
    BY DEF t1
  <2>10. /\ t1 \in SUBSET Bits /\ t2 \in SUBSET Bits /\ t3 \in SUBSET Bits
         /\ t4 \in SUBSET Bits /\ t5 \in SUBSET Bits /\ t6 \in SUBSET Bits
         /\ t7 \in SUBSET Bits /\ t8 \in SUBSET Bits
    BY <2>2, <2>3, <2>4, <2>5, <2>6, <2>7, <2>8, <2>9, TurnBits
  <2>11. /\ t[0] = c /\ t[1] = t1 /\ t[2] = t2 /\ t[3] = t3 /\ t[4] = t4
         /\ t[5] = t5 /\ t[6] = t6 /\ t[7] = t7 /\ t[8] = t8
    OBVIOUS
  <2>12. DOMAIN t = 0 .. 8 /\ t = [k \in 0 .. 8 |-> t[k]]
    OBVIOUS
  <2> HIDE DEF t
  <2>13. \A k \in 0 .. 8 : t[k] \in SUBSET Bits
    BY <2>10, <2>11
  <2>14. \A k \in 1 .. 8 : t[k] = Turn(t[k - 1])
    BY <2>2, <2>3, <2>4, <2>5, <2>6, <2>7, <2>8, <2>9, <2>11
  <2>15. t \in [0 .. 8 -> SUBSET Bits]
    BY <2>12, <2>13
  <2> QED
    BY <2>1, <2>11, <2>14, <2>15
<1>3. Lowest(t[b], 0)
  <2> DEFINE S == {k \in 0 .. b : Lowest(t[k], b - k)}
  <2>1. 0 \in S
    BY <1>1, <1>2
  <2>2. ASSUME NEW k \in 1 .. b, k - 1 \in S
        PROVE  k \in S
    <3>1. /\ Lowest(t[k - 1], b - (k - 1)) /\ b - (k - 1) \in 1 .. 7
          /\ (b - (k - 1)) - 1 = b - k
      BY <2>2
    <3>2. t[k] = Turn(t[k - 1]) /\ t[k - 1] \in SUBSET Bits
      BY <1>2
    <3> QED
      BY <3>1, <3>2, LowestFalls
  <2> HIDE DEF S
  <2>3. b \in S
    BY <2>1, <2>2, LoopInduction
  <2> QED
    BY <2>3 DEF S
<1>4. t[b + 1] \subseteq 0 .. 6
  <2> DEFINE S == {j \in 0 .. 7 - b : t[8 - j] \subseteq 0 .. b - 1 + j}
  <2>1. 0 \in S
    <3>1. \A e \in d : e \in 0 .. b - 1
      BY <1>1 DEF Lowest, Bits
    <3> QED
      BY <1>2, <3>1
  <2>2. ASSUME NEW j \in 1 .. 7 - b, j - 1 \in S
        PROVE  j \in S
    <3>1. t[8 - (j - 1)] \subseteq 0 .. b - 1 + (j - 1)
      BY <2>2
    <3>2. 8 - (j - 1) \in 1 .. 8 /\ (8 - (j - 1)) - 1 = 8 - j
      OBVIOUS
    <3>3. t[8 - (j - 1)] = Turn(t[8 - j]) /\ t[8 - j] \in SUBSET Bits
      BY <1>2, <3>2
    <3>4. b - 1 + (j - 1) \in -1 .. 6 /\ b - 1 + (j - 1) + 1 = b - 1 + j
      OBVIOUS
    <3> QED
      BY <3>1, <3>3, <3>4, HighestRose
  <2> HIDE DEF S
  <2>3. 7 - b \in S
    BY <2>1, <2>2, LoopInduction
  <2> QED
    BY <2>3 DEF S
<1>5. t[b + 1] = Turn(t[b]) /\ t[b] \in SUBSET Bits
  BY <1>2
<1> QED
  BY <1>3, <1>4, <1>5, HighestRose DEF Lowest

-----------------------------------------------------------------------------
(* The loop over the bytes *)

(* The values of crc in crc8, when it is given these bytes. *)
Fed(crc, bytes, L) ==
  /\ crc \in [0 .. L -> SUBSET Bits] /\ bytes \in [1 .. L -> SUBSET Bits]
  /\ crc[0] = {}
  /\ \A len \in 1 .. L : crc[len] = Feed(crc[len - 1], bytes[len])

BytesOf(buffer) == [len \in 1 .. Len(buffer) |-> BitsOf[buffer[len]]]

LEMMA Crc8Loop ==
  ASSUME NEW buffer \in Seq(0 .. 255)
  PROVE  \E crc : /\ Fed(crc, BytesOf(buffer), Len(buffer))
                  /\ crc8(buffer) = NumberOf[crc[Len(buffer)]]
<1> DEFINE L == Len(buffer)
           bytes == BytesOf(buffer)
           Values == SUBSET Bits
           step == [len \in 1 .. L |-> [c \in Values |-> Feed(c, bytes[len])]]
           Is(f) == f = [len \in 0 .. L |->
                           IF len = 0 THEN {}
                           ELSE Feed(f[len - 1], BitsOf[buffer[len]])]
           crc == CHOOSE f : Is(f)
<1>1. L \in Nat
  OBVIOUS
<1>2. /\ bytes \in [1 .. L -> SUBSET Bits]
      /\ \A len \in 1 .. L : bytes[len] = BitsOf[buffer[len]]
  <2>1. \A len \in 1 .. L : buffer[len] \in 0 .. 255
    BY ElementOfSeq
  <2> QED
    BY <2>1, NumberOfBits DEF BytesOf
<1>3. crc8(buffer) = NumberOf[crc[L]]
  BY DEF crc8
<1> HIDE DEF L, bytes
<1>4. ASSUME NEW c \in SUBSET Bits, NEW len \in 1 .. L
      PROVE  Feed(c, bytes[len]) \in SUBSET Bits
  <2>1. Xor(c, bytes[len]) \in SUBSET Bits
    BY <1>2, XorBits
  <2> QED
    BY <2>1, EightTurnsInjective DEF Feed
<1>5. step \in [1 .. L -> [Values -> Values]] /\ {} \in Values
  BY <1>4
<1>6. \A c \in SUBSET Bits, len \in 1 .. L : step[len][c] = Feed(c, bytes[len])
  BY <1>4
<1> HIDE DEF step
<1>7. PICK run : Runs(run, L, Values, {}, step)
  <2> HIDE DEF Values, crc, Is
  <2> QED
    BY <1>1, <1>5, LoopRuns
<1>8. /\ run \in [0 .. L -> SUBSET Bits] /\ run[0] = {}
      /\ \A len \in 1 .. L : run[len] = step[len][run[len - 1]]
  BY <1>7 DEF Runs
<1>9. \A len \in 0 .. L :
        run[len] = IF len = 0 THEN {}
                   ELSE Feed(run[len - 1], BitsOf[buffer[len]])
  <2> TAKE len \in 0 .. L
  <2>1. CASE len = 0
    BY <1>8, <2>1
  <2>2. CASE len # 0
    <3>1. len \in 1 .. L /\ run[len - 1] \in SUBSET Bits
      BY <1>1, <1>8, <2>2
    <3> QED
      BY <1>2, <1>6, <1>8, <2>2, <3>1
  <2> QED
    BY <2>1, <2>2
<1>10. Is(run)
  BY <1>8, <1>9
<1>11. Is(crc)
  BY <1>10
<1>12. crc = [len \in 0 .. L |->
                IF len = 0 THEN {} ELSE Feed(crc[len - 1], BitsOf[buffer[len]])]
  BY <1>11
<1> HIDE DEF crc, Is
<1>13. crc[0] = {} /\ \A len \in 1 .. L : crc[len] = Feed(crc[len - 1], bytes[len])
  <2>1. \A len \in 0 .. L :
          crc[len] = IF len = 0 THEN {}
                     ELSE Feed(crc[len - 1], BitsOf[buffer[len]])
    BY <1>12
  <2>5. 0 \in 0 .. L
    BY <1>1
  <2>2. crc[0] = IF 0 = 0 THEN {} ELSE Feed(crc[0 - 1], BitsOf[buffer[0]])
    BY <2>1, <2>5, Zenon
  <2>3. \A len \in 1 .. L : len \in 0 .. L /\ len # 0
    BY <1>1
  <2>4. \A len \in 1 .. L : crc[len] = Feed(crc[len - 1], bytes[len])
    BY <1>2, <2>1, <2>3
  <2> QED
    BY <2>2, <2>4
<1>14. \A len \in 0 .. L : crc[len] \in SUBSET Bits
  <2> DEFINE T == {len \in 0 .. L : crc[len] \in SUBSET Bits}
  <2>1. 0 \in T
    BY <1>1, <1>13
  <2>2. ASSUME NEW len \in 1 .. L, len - 1 \in T
        PROVE  len \in T
    <3>1. len \in 0 .. L /\ crc[len - 1] \in SUBSET Bits
      BY <1>1, <2>2
    <3>2. crc[len] = Feed(crc[len - 1], bytes[len])
      BY <1>13
    <3>3. crc[len] \in SUBSET Bits
      BY <1>4, <3>1, <3>2
    <3> QED
      BY <3>1, <3>3
  <2> HIDE DEF T
  <2>3. \A len \in 0 .. L : len \in T
    BY <1>1, <2>1, <2>2, LoopInduction
  <2> QED
    BY <2>3 DEF T
<1>15. crc \in [0 .. L -> SUBSET Bits]
  <2>1. crc = [len \in 0 .. L |-> crc[len]]
    BY <1>12
  <2> QED
    BY <1>14, <2>1
<1>16. Fed(crc, bytes, L)
  BY <1>2, <1>13, <1>15 DEF Fed
<1> QED
  BY <1>3, <1>16 DEF L, bytes

LEMMA XorLaws ==
  ASSUME NEW a, NEW b, NEW x, NEW h
  PROVE  /\ Xor(a, {}) = a /\ Xor({}, a) = a /\ Xor(a, a) = {}
         /\ Xor(Xor(a, x), Xor(b, Xor(x, h))) = Xor(Xor(a, b), h)
         /\ Xor(Xor(a, Xor(a, h)), h) = {}
  BY DEF Xor

LEMMA XorDiffers ==
  ASSUME NEW a, NEW b, a # b
  PROVE  Xor(a, b) # {}
  BY DEF Xor

BurstAt(hit, f, L) ==
  /\ hit \in [1 .. L + 1 -> SUBSET Bits] /\ f \in 1 .. L + 1 /\ hit[f] # {}
  /\ \A i \in 1 .. L + 1 : i < f \/ i > f + 1 => hit[i] = {}
  /\ f <= L => \A a \in hit[f], e \in hit[f + 1] : e < a

Struck(bytes, hit, L) == [i \in 1 .. L |-> Xor(bytes[i], hit[i])]

(* Registers c of the sender and r of the receiver, over bytes of which the *)
(* receiver gets those of hit inverted; the checksum is byte L + 1 of what  *)
(* is hit.  A burst that covers less than eight bits from the first on does *)
(* not cancel out.                                                          *)
LEMMA BurstCaught ==
  ASSUME NEW L \in Nat, NEW c, NEW r, NEW byte, NEW hit, NEW f,
         Fed(c, byte, L), Fed(r, Struck(byte, hit, L), L), BurstAt(hit, f, L)
  PROVE  r[L] # Xor(c[L], hit[L + 1])
<1>0. /\ c \in [0 .. L -> SUBSET Bits] /\ r \in [0 .. L -> SUBSET Bits]
      /\ byte \in [1 .. L -> SUBSET Bits]
      /\ hit \in [1 .. L + 1 -> SUBSET Bits]
      /\ c[0] = {} /\ r[0] = {} /\ f \in 1 .. L + 1 /\ hit[f] # {}
  BY DEF Fed, BurstAt
<1>10. \A i \in 1 .. L : c[i] = Feed(c[i - 1], byte[i])
  BY DEF Fed
<1>11. \A i \in 1 .. L : r[i] = Feed(r[i - 1], Xor(byte[i], hit[i]))
  BY DEF Fed, Struck
<1>12. \A i \in 1 .. L + 1 : i < f \/ i > f + 1 => hit[i] = {}
  BY DEF BurstAt
<1>13. f <= L => \A a \in hit[f], e \in hit[f + 1] : e < a
  BY DEF BurstAt
<1>14. f \in Int /\ f - 1 \in Nat /\ f - 1 \in 0 .. f - 1
  BY <1>0
<1> USE <1>0, <1>10, <1>11, <1>12, <1>13
<1> DEFINE D(i) == Xor(c[i], r[i])
           X(i) == Xor(D(i - 1), hit[i])
<1>1. \A i \in 0 .. L : D(i) \in SUBSET Bits
  BY XorBits
<1>2. \A i \in 1 .. L + 1 : X(i) \in SUBSET Bits
  <2> TAKE i \in 1 .. L + 1
  <2>1. D(i - 1) \in SUBSET Bits /\ hit[i] \in SUBSET Bits
    BY <1>1
  <2> HIDE DEF D
  <2> QED
    BY <2>1, XorBits
<1>3. \A i \in 1 .. L : D(i) = EightTurns[X(i)]
  <2> TAKE i \in 1 .. L
  <2>1. /\ c[i - 1] \in SUBSET Bits /\ r[i - 1] \in SUBSET Bits
        /\ byte[i] \in SUBSET Bits /\ hit[i] \in SUBSET Bits
    OBVIOUS
  <2>2. Xor(c[i - 1], byte[i]) \in SUBSET Bits
    BY <2>1, XorBits
  <2>4. Xor(byte[i], hit[i]) \in SUBSET Bits
    BY <2>1, XorBits
  <2>5. Xor(r[i - 1], Xor(byte[i], hit[i])) \in SUBSET Bits
    BY <2>1, <2>4, XorBits
  <2>3. D(i) = EightTurns[Xor(Xor(c[i - 1], byte[i]),
                              Xor(r[i - 1], Xor(byte[i], hit[i])))]
    BY <2>2, <2>5, EightTurnsLinear DEF Feed
  <2> QED
    BY <2>3, XorLaws
<1>4. \A i \in 0 .. f - 1 : D(i) = {}
  <2> DEFINE S == {i \in 0 .. f - 1 : D(i) = {}}
  <2>1. 0 \in S
    <3>1. D(0) = Xor({}, {}) /\ 0 \in 0 .. f - 1
      OBVIOUS
    <3>2. D(0) = {}
      BY <3>1, XorLaws
    <3> QED
      BY <3>1, <3>2
  <2>2. ASSUME NEW i \in 1 .. f - 1, i - 1 \in S
        PROVE  i \in S
    <3>1. hit[i] = {} /\ D(i - 1) = {}
      BY <2>2
    <3>2. X(i) = {}
      BY <3>1, XorLaws
    <3>3. i \in 1 .. L
      OBVIOUS
    <3>4. D(i) = EightTurns[{}]
      BY <1>3, <3>2, <3>3
    <3> QED
      BY <3>4, NoError
  <2> HIDE DEF S, D
  <2>3. \A i \in 1 .. f - 1 : i - 1 \in S => i \in S
    BY <2>2
  <2>4. \A i \in 0 .. f - 1 : i \in S
    BY <1>14, <2>1, <2>3, LoopInduction
  <2> QED
    BY <2>4 DEF S
<1>5. X(f) = hit[f]
  <2>1. D(f - 1) = {}
    BY <1>4, <1>14
  <2> HIDE DEF D
  <2> QED
    BY <2>1, XorLaws
<1> HIDE DEF D
<1>6. ASSUME f <= L
      PROVE  X(f + 1) # {}
  <2>1. D(f) = EightTurns[hit[f]]
    BY <1>3, <1>5, <1>6
  <2>2. hit[f] \in SUBSET Bits /\ hit[f + 1] \in SUBSET Bits
    BY <1>6
  <2>3. D(f) # hit[f + 1]
    BY <1>6, <2>1, <2>2, BurstNotUndone
  <2>4. X(f + 1) = Xor(D(f), hit[f + 1])
    OBVIOUS
  <2> HIDE DEF X
  <2>5. Xor(D(f), hit[f + 1]) # {}
    BY <2>3, XorDiffers
  <2> QED
    BY <2>4, <2>5
<1>7. ASSUME f <= L
      PROVE  X(L + 1) # {}
  <2> DEFINE S == {i \in 0 .. L - f : X(f + 1 + i) # {}}
  <2>1. 0 \in S
    BY <1>6, <1>7
  <2>2. ASSUME NEW i \in 1 .. L - f, i - 1 \in S
        PROVE  i \in S
    <3> DEFINE k == f + i
    <3>1. /\ X(k) # {} /\ k \in 1 .. L /\ k \in 1 .. L + 1
          /\ k + 1 \in 1 .. L + 1 /\ k + 1 > f + 1
          /\ f + 1 + (i - 1) = k /\ f + 1 + i = k + 1
      BY <2>2
    <3> HIDE DEF k
    <3>2. D(k) = EightTurns[X(k)] /\ X(k) \in SUBSET Bits /\ hit[k + 1] = {}
      BY <1>2, <1>3, <3>1
    <3>3. X(k + 1) = D(k)
      <4>1. X(k + 1) = Xor(D(k), hit[k + 1])
        BY <3>1
      <4> QED
        BY <4>1, <3>2, XorLaws
    <3> HIDE DEF X
    <3>4. EightTurns[X(k)] # {}
      BY <3>1, <3>2, EightTurnsInjective, NoError
    <3>5. X(k + 1) # {}
      BY <3>2, <3>3, <3>4
    <3>6. X(f + 1 + i) # {}
      BY <3>1, <3>5
    <3> QED
      BY <3>6
  <2> HIDE DEF S
  <2>3. L - f \in Nat /\ \A i \in 1 .. L - f : i - 1 \in S => i \in S
    BY <1>7, <2>2
  <2>6. \A i \in 0 .. L - f : i \in S
    BY <2>1, <2>3, LoopInduction
  <2>4. L - f \in S
    BY <2>3, <2>6
  <2>5. f + 1 + (L - f) = L + 1
    OBVIOUS
  <2> QED
    BY <2>4, <2>5 DEF S
<1>8. X(L + 1) # {}
  <2>1. CASE f <= L
    BY <1>7, <2>1
  <2>2. CASE f = L + 1
    BY <1>5, <2>2
  <2> QED
    BY <2>1, <2>2
<1>9. X(L + 1) = Xor(Xor(c[L], r[L]), hit[L + 1])
  BY DEF D
<1> HIDE DEF X
<1> QED
  BY <1>8, <1>9, XorLaws
=============================================================================
