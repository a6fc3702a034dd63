------------------------ MODULE CommandStreamProofs -------------------------
(***************************************************************************)
(* TakenInOrder, for any payloads, any reads and any bursts, when Crc8 is   *)
(* the crc8 of Crc8.tla.  The stream is laid out with packets whose         *)
(* beginnings may be gone already (LaidOut); what rader_cmd finds in a read *)
(* is one of them from its first byte on or from a later one (Taken), and   *)
(* those still on the stream were sent after all that were taken (Ordered). *)
(***************************************************************************)
EXTENDS CommandStream, Crc8Proofs

-----------------------------------------------------------------------------
(* A damaged packet *)

LEMMA PacketBytes ==
  ASSUME NEW flag, NEW data \in Seq(0 .. 255)
  PROVE  LET p == Packet(flag, data)
             L == Len(data)
         IN /\ Len(p) = L + 6 /\ DOMAIN p = 1 .. L + 6
            /\ p[1] = ERUP_BEGIN /\ p[2] = L \div 256 /\ p[3] = L % 256
            /\ p[4] = flag /\ p[L + 5] = Crc8(data) /\ p[L + 6] = ERUP_END
            /\ \A i \in 1 .. L : p[i + 4] = data[i]
  BY DEF Packet
LEMMA FunctionIsSeq ==
  ASSUME NEW S, NEW n \in Nat, NEW f \in [1 .. n -> S]
  PROVE  f \in Seq(S) /\ Len(f) = n
<1>1. f \in Seq(S)
  BY SeqDef
<1> QED
  BY <1>1, LenProperties

(* Crc8 is the crc8 of Crc8.tla, as in the instances TLC runs. *)
Crc8IsComputed == \A data \in Seq(0 .. 255) : Crc8(data) = crc8(data)

LEMMA Crc8IsByte ==
  ASSUME NEW data \in Seq(0 .. 255), Crc8IsComputed
  PROVE  Crc8(data) \in 0 .. 255
<1>1. PICK crc : /\ Fed(crc, BytesOf(data), Len(data))
                 /\ crc8(data) = NumberOf[crc[Len(data)]]
  BY Crc8Loop
<1> DEFINE last == crc[Len(data)]
<1>2. last \in SUBSET Bits
  BY <1>1 DEF Fed
<1>3. Crc8(data) = NumberOf[last]
  BY <1>1 DEF Crc8IsComputed
<1> HIDE DEF last
<1> QED
  BY <1>2, <1>3, NumberOfBits

LEMMA LengthBytes ==
  ASSUME NEW L \in Nat, L < 65536
  PROVE  /\ L \div 256 \in 0 .. 255 /\ L % 256 \in 0 .. 255
         /\ (L \div 256) * 256 + (L % 256) = L
  OBVIOUS

LEMMA HitBits ==
  ASSUME NEW burst \in Bursts, NEW k \in Int, NEW i \in Int
  PROVE  /\ Hit(k, burst, i) \in SUBSET Bits
         /\ i \notin {k, k + 1} => Hit(k, burst, i) = {}
<1>1. burst \subseteq 0 .. 14
  BY StreamAssumption
<1> QED
  BY <1>1 DEF Hit, Bits

LEMMA HitSomewhere ==
  ASSUME NEW burst \in Bursts, NEW k \in Int
  PROVE  /\ Hit(k, burst, k) # {} \/ Hit(k, burst, k + 1) # {}
         /\ \A a \in Hit(k, burst, k), e \in Hit(k, burst, k + 1) : e < a
<1>1. burst \subseteq 0 .. 14 /\ burst # {} /\ \A a, b \in burst : a - b < 8
  BY StreamAssumption
<1>2. \A b \in Bits : /\ b \in Hit(k, burst, k) <=> b \in burst
                      /\ b \in Hit(k, burst, k + 1) <=> 8 + b \in burst
  BY DEF Hit, Bits
<1>3. Hit(k, burst, k) \subseteq Bits /\ Hit(k, burst, k + 1) \subseteq Bits
  BY DEF Hit
<1>4. PICK b \in burst : b \in 0 .. 14
  BY <1>1
<1>5. b \in Bits \/ (b - 8 \in Bits /\ 8 + (b - 8) = b)
  BY <1>4 DEF Bits
<1>6. Hit(k, burst, k) # {} \/ Hit(k, burst, k + 1) # {}
  BY <1>2, <1>4, <1>5
<1>7. ASSUME NEW a \in Hit(k, burst, k), NEW e \in Hit(k, burst, k + 1)
      PROVE  e < a
  <2>1. a \in burst /\ 8 + e \in burst /\ a \in Int /\ e \in Int
    BY <1>2, <1>3 DEF Bits
  <2>2. (8 + e) - a < 8
    BY <1>1, <2>1
  <2> QED
    BY <2>1, <2>2
<1> QED
  BY <1>6, <1>7

(* A burst lies where the packet is covered. *)
LEMMA HitCovered ==
  ASSUME NEW burst \in Bursts, NEW k \in Nat, NEW data \in Seq(0 .. 255),
         Covered(data, k, burst), NEW i \in Int, i \notin 5 .. 5 + Len(data)
  PROVE  Hit(k, burst, i) = {}
<1>1. burst \subseteq 0 .. 14
  BY StreamAssumption
<1>2. ASSUME NEW b \in Hit(k, burst, i)
      PROVE  FALSE
  <2>1. b \in 0 .. 7 /\ 8 * (i - k) + b \in burst
    BY <1>2 DEF Hit, Bits
  <2>2. 8 * (i - k) + b \in 0 .. 14
    BY <1>1, <2>1
  <2>3. k + ((8 * (i - k) + b) \div 8) \in 5 .. 5 + Len(data)
    BY <2>1 DEF Covered
  <2>4. (8 * (i - k) + b) \div 8 = i - k
    BY <2>1, <2>2
  <2> QED
    BY <2>3, <2>4
<1> QED
  BY <1>2

LEMMA DamagedBytes ==
  ASSUME NEW data \in Payloads, NEW k \in Nat, NEW burst \in Bursts,
         Covered(data, k, burst), Crc8IsComputed
  PROVE  LET p == Packet(0, data)
             q == Damaged(p, k, burst)
             L == Len(data)
         IN /\ q \in Seq(0 .. 255) /\ Len(q) = L + 6
            /\ \A i \in 1 .. L + 6 : p[i] \in 0 .. 255
            /\ q[1] = ERUP_BEGIN /\ q[2] = L \div 256 /\ q[3] = L % 256
            /\ q[4] = 0 /\ q[L + 6] = ERUP_END
            /\ \A i \in 5 .. L + 5 :
                  q[i] = NumberOf[Xor(BitsOf[p[i]], Hit(k, burst, i))]
<1> DEFINE p == Packet(0, data)
           q == Damaged(p, k, burst)
           L == Len(data)
<1>1. data \in Seq(0 .. 255) /\ L \in Nat /\ L < 65536
  BY StreamAssumption
<1>2. /\ Len(p) = L + 6 /\ DOMAIN p = 1 .. L + 6
      /\ p[1] = ERUP_BEGIN /\ p[2] = L \div 256 /\ p[3] = L % 256
      /\ p[4] = 0 /\ p[L + 5] = Crc8(data) /\ p[L + 6] = ERUP_END
      /\ \A i \in 1 .. L : p[i + 4] = data[i]
  BY <1>1, PacketBytes
<1> HIDE DEF p
<1>3. Crc8(data) \in 0 .. 255
  BY <1>1, Crc8IsByte
<1>4. \A i \in 1 .. L + 6 : p[i] \in 0 .. 255
  <2> TAKE i \in 1 .. L + 6
  <2>1. \A j \in 1 .. L : data[j] \in 0 .. 255
    BY <1>1, ElementOfSeq
  <2>2. CASE i \in 5 .. L + 4
    <3>1. i - 4 \in 1 .. L /\ (i - 4) + 4 = i
      BY <1>1, <2>2
    <3> QED
      BY <1>2, <2>1, <3>1
  <2>3. L \div 256 \in 0 .. 255 /\ L % 256 \in 0 .. 255
    <3> HIDE DEF L
    <3> QED
      BY <1>1, LengthBytes
  <2>5. /\ p[1] \in 0 .. 255 /\ p[2] \in 0 .. 255 /\ p[3] \in 0 .. 255
        /\ p[4] \in 0 .. 255
    BY <1>2, <2>3 DEF ERUP_BEGIN
  <2>6. p[L + 5] \in 0 .. 255 /\ p[L + 6] \in 0 .. 255
    BY <1>2, <1>3 DEF ERUP_END
  <2>4. CASE i \in {1, 2, 3, 4, L + 5, L + 6}
    BY <2>4, <2>5, <2>6
  <2> HIDE DEF L
  <2> QED
    BY <1>1, <2>2, <2>4
<1> DEFINE h(i) == Hit(k, burst, i)
<1>5. \A i \in 1 .. L + 6 : q[i] = NumberOf[Xor(BitsOf[p[i]], h(i))]
  BY <1>2 DEF Damaged
<1>6. \A i \in 1 .. L + 6 : h(i) \in SUBSET Bits
  BY HitBits
<1>7. q = [i \in 1 .. L + 6 |-> q[i]]
  BY <1>2 DEF Damaged
<1> HIDE DEF q, h
<1>8. \A i \in 1 .. L + 6 : q[i] \in 0 .. 255
  <2> TAKE i \in 1 .. L + 6
  <2>1. BitsOf[p[i]] \in SUBSET Bits
    BY <1>4, NumberOfBits
  <2>2. Xor(BitsOf[p[i]], h(i)) \in SUBSET Bits
    BY <1>6, <2>1, XorBits
  <2> QED
    BY <1>5, <2>2, NumberOfBits
<1>9. q \in Seq(0 .. 255) /\ Len(q) = L + 6
  <2> DEFINE N == L + 6
  <2>2. N \in Nat
    BY <1>1
  <2>1. q \in [1 .. N -> 0 .. 255]
    BY <1>7, <1>8
  <2> HIDE DEF N
  <2>3. q \in Seq(0 .. 255) /\ Len(q) = N
    BY <2>1, <2>2, FunctionIsSeq
  <2> QED
    BY <2>3 DEF N
<1>10. \A i \in {1, 2, 3, 4, L + 6} : q[i] = p[i]
  <2> TAKE i \in {1, 2, 3, 4, L + 6}
  <2>1. i \in 1 .. L + 6 /\ i \notin 5 .. 5 + L
    BY <1>1
  <2>2. h(i) = {}
    BY <1>1, <2>1, HitCovered DEF h
  <2>3. q[i] = NumberOf[BitsOf[p[i]]]
    BY <1>5, <2>1, <2>2, XorLaws
  <2> QED
    BY <1>4, <2>1, <2>3, NumberOfBits
<1>11. \A i \in 5 .. L + 5 : q[i] = NumberOf[Xor(BitsOf[p[i]], Hit(k, burst, i))]
  BY <1>1, <1>5 DEF h
<1> QED
  BY <1>2, <1>4, <1>9, <1>10, <1>11 DEF p, q
(* The first byte a burst inverts anything of, counted from the data on. *)
LEMMA FirstHit ==
  ASSUME NEW data \in Seq(0 .. 255), NEW k \in Nat, NEW burst \in Bursts,
         Covered(data, k, burst)
  PROVE  \E f \in 1 .. Len(data) + 1 :
            /\ Hit(k, burst, 4 + f) # {}
            /\ \A i \in Int : i < f \/ i > f + 1 => Hit(k, burst, 4 + i) = {}
            /\ \A a \in Hit(k, burst, 4 + f), e \in Hit(k, burst, 4 + (f + 1)) :
                  e < a
<1> DEFINE L == Len(data)
           h(i) == Hit(k, burst, i)
<1>1. L \in Nat
  OBVIOUS
<1>2. \A i \in Int : h(i) # {} => i \in {k, k + 1} /\ i \in 5 .. 5 + L
  BY HitBits, HitCovered
<1>3. h(k) # {} \/ h(k + 1) # {}
  BY HitSomewhere
<1>4. \A a \in h(k), e \in h(k + 1) : e < a
  BY HitSomewhere
<1> HIDE DEF h, L
<1>5. CASE h(k) # {}
  <2>1. k \in 5 .. 5 + L
    BY <1>2, <1>5
  <2> DEFINE f == k - 4
  <2>2. f \in 1 .. L + 1 /\ 4 + f = k /\ 4 + (f + 1) = k + 1
    BY <1>1, <2>1
  <2>3. ASSUME NEW i \in Int, i < f \/ i > f + 1
        PROVE  h(4 + i) = {}
    <3>1. 4 + i \in Int /\ 4 + i \notin {k, k + 1}
      BY <2>3
    <3> QED
      BY <1>2, <3>1
  <2> HIDE DEF f
  <2>4. h(4 + f) # {} /\ \A a \in h(4 + f), e \in h(4 + (f + 1)) : e < a
    BY <1>4, <1>5, <2>2
  <2> QED
    BY <2>2, <2>3, <2>4 DEF h, L
<1>6. CASE h(k) = {}
  <2>1. k + 1 \in 5 .. 5 + L /\ h(k + 1) # {}
    BY <1>2, <1>3, <1>6
  <2> DEFINE f == k - 3
  <2>2. f \in 1 .. L + 1 /\ 4 + f = k + 1 /\ 4 + (f + 1) = k + 2
    BY <1>1, <2>1
  <2>3. ASSUME NEW i \in Int, i < f \/ i > f + 1
        PROVE  h(4 + i) = {}
    <3>1. 4 + i \in Int /\ 4 + i # k + 1
      BY <2>3
    <3> QED
      BY <1>2, <1>6, <3>1
  <2> HIDE DEF f
  <2>4. h(k + 2) = {}
    BY <1>2
  <2>5. h(4 + f) # {} /\ \A a \in h(4 + f), e \in h(4 + (f + 1)) : e < a
    BY <2>1, <2>2, <2>4
  <2> QED
    BY <2>2, <2>3, <2>5 DEF h, L
<1> QED
  BY <1>5, <1>6

(* crc8 catches every burst it promises to: a packet damaged where it is    *)
(* covered, by a burst of up to eight bits in a row, fails the check of     *)
(* rader_cmd, whatever its data.                                            *)
THEOREM DamagedCaught ==
  ASSUME NEW data \in Payloads, NEW k \in Nat, NEW burst \in Bursts,
         Covered(data, k, burst), Crc8IsComputed
  PROVE  ~Intact(Damaged(Packet(0, data), k, burst))
<1> DEFINE p == Packet(0, data)
           q == Damaged(p, k, burst)
           L == Len(data)
           other == ERUP_GET_DATA(q)
           byte == [i \in 1 .. L |-> BitsOf[data[i]]]
           hit == [i \in 1 .. L + 1 |-> Hit(k, burst, 4 + i)]
<1>1. data \in Seq(0 .. 255) /\ L \in Nat /\ L < 65536
  BY StreamAssumption
<1>2. /\ p[L + 5] = Crc8(data) /\ \A i \in 1 .. L : p[i + 4] = data[i]
  BY <1>1, PacketBytes
<1>3. /\ q \in Seq(0 .. 255) /\ Len(q) = L + 6
      /\ q[2] = L \div 256 /\ q[3] = L % 256
      /\ \A i \in 5 .. L + 5 :
            q[i] = NumberOf[Xor(BitsOf[p[i]], Hit(k, burst, i))]
  BY DamagedBytes
<1> HIDE DEF p, q
<1>4. DOMAIN q = 1 .. L + 6
  BY <1>3
<1>5. ERUP_GET_LEN(q) = L
  <2>1. 1 + 1 \in DOMAIN q /\ 2 + 1 \in DOMAIN q
    BY <1>1, <1>4
  <2>2. ERUP_GET_LEN(q) = (L \div 256) * 256 + (L % 256)
    BY <1>3, <2>1 DEF ERUP_GET_LEN, ByteAt
  <2> HIDE DEF L
  <2> QED
    BY <1>1, <2>2, LengthBytes
<1>6. /\ other \in Seq(0 .. 255) /\ Len(other) = L
      /\ \A i \in 1 .. L : other[i] = q[4 + i]
  <2>1. \A i \in 5 .. 4 + L : q[i] \in 0 .. 255
    BY <1>1, <1>3, ElementOfSeq
  <2>2. other = SubSeq(q, 5, 4 + L)
    BY <1>5 DEF ERUP_GET_DATA
  <2> HIDE DEF other, L
  <2>3. 4 + L \in Int /\ 5 \in Int
    BY <1>1
  <2>4. /\ other \in Seq(0 .. 255)
        /\ Len(other) = IF 5 <= 4 + L THEN (4 + L) - 5 + 1 ELSE 0
        /\ \A i \in 1 .. (4 + L) - 5 + 1 : other[i] = q[5 + i - 1]
    BY <2>1, <2>2, <2>3, SubSeqProperties
  <2>5. \A i \in 1 .. L : i \in 1 .. (4 + L) - 5 + 1 /\ 5 + i - 1 = 4 + i
    BY <1>1
  <2> QED
    BY <1>1, <2>4, <2>5
<1> HIDE DEF other
<1>7. \A i \in 1 .. L : byte[i] \in SUBSET Bits
  <2>1. \A i \in 1 .. L : data[i] \in 0 .. 255
    BY <1>1, ElementOfSeq
  <2> QED
    BY <2>1, NumberOfBits
<1>8. \A i \in 1 .. L + 1 : hit[i] \in SUBSET Bits
  BY <1>1, HitBits
<1>9. byte \in [1 .. L -> SUBSET Bits] /\ hit \in [1 .. L + 1 -> SUBSET Bits]
  BY <1>7, <1>8
<1>10. \A i \in 1 .. L : BitsOf[other[i]] = Xor(byte[i], hit[i])
  <2> TAKE i \in 1 .. L
  <2>1. Xor(byte[i], hit[i]) \in SUBSET Bits
    <3>1. byte[i] \in SUBSET Bits /\ hit[i] \in SUBSET Bits
      BY <1>1, <1>7, <1>8
    <3> HIDE DEF byte, hit
    <3> QED
      BY <3>1, XorBits
  <2>2. 4 + i \in 5 .. L + 5 /\ 4 + i = i + 4
    BY <1>1
  <2>3. q[4 + i] = NumberOf[Xor(BitsOf[p[4 + i]], Hit(k, burst, 4 + i))]
    BY <1>3, <2>2
  <2>4. p[4 + i] = data[i]
    BY <1>2, <2>2
  <2>5. other[i] = NumberOf[Xor(byte[i], hit[i])]
    BY <1>1, <1>6, <2>3, <2>4
  <2> HIDE DEF byte, hit
  <2> QED
    BY <2>1, <2>5, NumberOfBits
<1>11. PICK c : Fed(c, BytesOf(data), L) /\ crc8(data) = NumberOf[c[L]]
  BY <1>1, Crc8Loop
<1>12. PICK r : Fed(r, BytesOf(other), L) /\ crc8(other) = NumberOf[r[L]]
  BY <1>6, Crc8Loop
<1>13. PICK f \in 1 .. L + 1 :
         /\ Hit(k, burst, 4 + f) # {}
         /\ \A i \in Int : i < f \/ i > f + 1 => Hit(k, burst, 4 + i) = {}
         /\ \A a \in Hit(k, burst, 4 + f), e \in Hit(k, burst, 4 + (f + 1)) :
               e < a
  BY <1>1, FirstHit
<1>14. BurstAt(hit, f, L)
  <2>1. hit[f] # {}
    BY <1>13
  <2>2. \A i \in 1 .. L + 1 : i < f \/ i > f + 1 => hit[i] = {}
    BY <1>1, <1>13
  <2>3. f <= L => \A a \in hit[f], e \in hit[f + 1] : e < a
    <3>1. f <= L => f + 1 \in 1 .. L + 1
      BY <1>1
    <3> QED
      BY <1>13, <3>1
  <2> HIDE DEF hit
  <2> QED
    BY <1>9, <2>1, <2>2, <2>3 DEF BurstAt
<1>15. BytesOf(data) = byte /\ BytesOf(other) = Struck(byte, hit, L)
  <2>1. BytesOf(data) = byte
    BY DEF BytesOf
  <2> HIDE DEF byte, hit
  <2>2. BytesOf(other) = Struck(byte, hit, L)
    BY <1>6, <1>10 DEF BytesOf, Struck
  <2> QED
    BY <2>1, <2>2
<1>16. hit[L + 1] = Hit(k, burst, L + 5)
  BY <1>1
<1> HIDE DEF byte, hit, L
<1>17. r[L] # Xor(c[L], hit[L + 1])
  BY <1>1, <1>11, <1>12, <1>14, <1>15, BurstCaught
<1> DEFINE sum == c[L]
           otherSum == r[L]
           damagedSum == Xor(sum, hit[L + 1])
<1>18. sum \in SUBSET Bits /\ otherSum \in SUBSET Bits
  BY <1>1, <1>11, <1>12 DEF Fed
<1>19. Crc8(data) = NumberOf[sum] /\ Crc8(other) = NumberOf[otherSum]
  BY <1>1, <1>6, <1>11, <1>12 DEF Crc8IsComputed
<1>20. ERUP_GET_CRC(q) = NumberOf[damagedSum]
  <2>1. L + 5 \in 5 .. L + 5 /\ L + 4 + 1 = L + 5 /\ L + 5 \in DOMAIN q
    BY <1>1, <1>4
  <2>2. BitsOf[p[L + 5]] = sum
    <3> HIDE DEF sum
    <3> QED
      BY <1>2, <1>18, <1>19, NumberOfBits
  <2>3. q[L + 5] = NumberOf[damagedSum]
    BY <1>3, <1>16, <2>1, <2>2
  <2> QED
    BY <1>5, <2>1, <2>3 DEF ERUP_GET_CRC, ByteAt
<1>21. damagedSum \in SUBSET Bits
  <2>1. hit[L + 1] \in SUBSET Bits
    BY <1>1, <1>9
  <2> HIDE DEF sum
  <2> QED
    BY <1>18, <2>1, XorBits
<1>22. damagedSum # otherSum
  BY <1>17
<1> HIDE DEF sum, otherSum, damagedSum
<1>23. BitsOf[NumberOf[damagedSum]] # BitsOf[NumberOf[otherSum]]
  BY <1>18, <1>21, <1>22, NumberOfBits
<1>24. ERUP_GET_CRC(q) # Crc8(other)
  BY <1>19, <1>20, <1>23
<1> QED
  BY <1>24 DEF Intact, other, q, p
-----------------------------------------------------------------------------
(* What a read makes of the packets on the stream *)

LEMMA Cut ==
  ASSUME NEW S, NEW s \in Seq(S), NEW m \in 1 .. Len(s), NEW n \in 1 .. Len(s),
         m <= n + 1
  PROVE  /\ SubSeq(s, m, n) \in Seq(S) /\ Len(SubSeq(s, m, n)) = n - m + 1
         /\ \A i \in 1 .. n - m + 1 : SubSeq(s, m, n)[i] = s[m + i - 1]
<1>1. \A i \in m .. n : s[i] \in S
  BY ElementOfSeq
<1> QED
  BY <1>1, SubSeqProperties

(* Two buffers that hold the same as far as they go *)
Agree(p, q) == \A i \in 1 .. Len(p) : i <= Len(q) => p[i] = q[i]

LEMMA ByteAtIs ==
  ASSUME NEW p \in Seq(0 .. 255), NEW k \in Nat
  PROVE  /\ ByteAt(p, k) \in Nat
         /\ k + 1 <= Len(p) => ByteAt(p, k) = p[k + 1]
         /\ k + 1 > Len(p) => ByteAt(p, k) = 0
<1>1. DOMAIN p = 1 .. Len(p) /\ Len(p) \in Nat
  OBVIOUS
<1>2. CASE k + 1 <= Len(p)
  <2>1. k + 1 \in 1 .. Len(p)
    BY <1>1, <1>2
  <2>2. p[k + 1] \in 0 .. 255
    BY <2>1, ElementOfSeq
  <2>3. ByteAt(p, k) = p[k + 1]
    BY <1>1, <2>1 DEF ByteAt
  <2>4. ByteAt(p, k) \in 0 .. 255
    BY <2>2, <2>3
  <2>5. ByteAt(p, k) \in Nat
    <3>1. 0 .. 255 \subseteq Nat
      OBVIOUS
    <3> QED
      BY <2>4, <3>1, Zenon
  <2>6. ~(k + 1 > Len(p))
    BY <1>1, <1>2
  <2> QED
    BY <2>3, <2>5, <2>6
<1>3. CASE k + 1 > Len(p)
  BY <1>1, <1>3 DEF ByteAt
<1> QED
  BY <1>1, <1>2, <1>3

LEMMA PacketLen ==
  ASSUME NEW p \in Seq(0 .. 255)
  PROVE  /\ ERUP_GET_LEN(p) \in Nat
         /\ ERUP_GET_PACKET_LEN(p) = ERUP_GET_LEN(p) + 6
         /\ Len(p) >= 3 => ERUP_GET_LEN(p) = 256 * p[2] + p[3]
<1>1. ByteAt(p, 1) \in Nat /\ ByteAt(p, 2) \in Nat
  BY ByteAtIs
<1>2. Len(p) >= 3 => ByteAt(p, 1) = p[2] /\ ByteAt(p, 2) = p[3]
  <2>1. Len(p) >= 3 => 1 + 1 <= Len(p) /\ 2 + 1 <= Len(p)
    OBVIOUS
  <2> QED
    BY <2>1, ByteAtIs
<1> QED
  BY <1>1, <1>2 DEF ERUP_GET_LEN, ERUP_GET_PACKET_LEN

LEMMA CompleteIs ==
  ASSUME NEW p \in Seq(0 .. 255), Complete(p)
  PROVE  ERUP_GET_LEN(p) \in Nat /\ ERUP_GET_LEN(p) + 6 <= Len(p)
  BY PacketLen DEF Complete

(* The length a cut packet seems to have is at most what it had. *)
LEMMA SeemsShorter ==
  ASSUME NEW p \in Seq(0 .. 255), NEW q \in Seq(0 .. 255), Agree(p, q),
         Complete(p)
  PROVE  ERUP_GET_PACKET_LEN(q) <= Len(p)
<1>1. /\ Len(p) \in Nat /\ Len(q) \in Nat /\ Len(p) >= 6
      /\ ERUP_GET_LEN(p) + 6 <= Len(p)
  BY CompleteIs
<1>2. /\ ByteAt(p, 1) \in Nat /\ ByteAt(p, 2) \in Nat
      /\ ByteAt(p, 1) = p[2] /\ ByteAt(p, 2) = p[3]
  <2>1. 1 + 1 <= Len(p) /\ 2 + 1 <= Len(p)
    BY <1>1
  <2> QED
    BY <2>1, ByteAtIs
<1>3. ByteAt(q, 1) = 0 \/ ByteAt(q, 1) = ByteAt(p, 1)
  <2>1. 2 <= Len(q) => p[2] = q[2]
    BY <1>1 DEF Agree
  <2>2. /\ 1 + 1 <= Len(q) => ByteAt(q, 1) = q[1 + 1]
        /\ 1 + 1 > Len(q) => ByteAt(q, 1) = 0
    BY ByteAtIs
  <2> QED
    BY <1>1, <1>2, <2>1, <2>2
<1>4. ByteAt(q, 2) = 0 \/ ByteAt(q, 2) = ByteAt(p, 2)
  <2>1. 3 <= Len(q) => p[3] = q[3]
    BY <1>1 DEF Agree
  <2>2. /\ 2 + 1 <= Len(q) => ByteAt(q, 2) = q[2 + 1]
        /\ 2 + 1 > Len(q) => ByteAt(q, 2) = 0
    BY ByteAtIs
  <2> QED
    BY <1>1, <1>2, <2>1, <2>2
<1>5. /\ ERUP_GET_LEN(q) <= ERUP_GET_LEN(p)
      /\ ERUP_GET_LEN(q) \in Nat /\ ERUP_GET_LEN(p) \in Nat
  BY <1>2, <1>3, <1>4 DEF ERUP_GET_LEN
<1> QED
  BY <1>1, <1>5 DEF ERUP_GET_PACKET_LEN

(* What is complete is the same packet. *)
LEMMA SamePacket ==
  ASSUME NEW p \in Seq(0 .. 255), NEW q \in Seq(0 .. 255), Agree(p, q),
         Complete(p), Complete(q)
  PROVE  /\ ERUP_GET_DATA(p) = ERUP_GET_DATA(q)
         /\ ERUP_GET_CRC(p) = ERUP_GET_CRC(q)
         /\ ERUP_GET_END(p) = ERUP_GET_END(q)
<1> DEFINE L == ERUP_GET_LEN(p)
<1>1. /\ L \in Nat /\ L + 6 <= Len(p)
      /\ ERUP_GET_LEN(q) \in Nat /\ ERUP_GET_LEN(q) + 6 <= Len(q)
  BY CompleteIs
<1>2. /\ DOMAIN p = 1 .. Len(p) /\ DOMAIN q = 1 .. Len(q)
      /\ Len(p) \in Nat /\ Len(q) \in Nat
  OBVIOUS
<1>3. ERUP_GET_LEN(q) = L
  <2>1. p[2] = q[2] /\ p[3] = q[3] /\ Len(p) >= 3 /\ Len(q) >= 3
    BY <1>1, <1>2 DEF Agree
  <2>2. L = 256 * p[2] + p[3] /\ ERUP_GET_LEN(q) = 256 * q[2] + q[3]
    BY <2>1, PacketLen
  <2> QED
    BY <2>1, <2>2
<1> HIDE DEF L
<1>4. \A i \in 1 .. L + 6 : i \in DOMAIN p /\ i \in DOMAIN q /\ p[i] = q[i]
  BY <1>1, <1>2, <1>3 DEF Agree
<1>5. L + 5 \in 1 .. L + 6 /\ L + 6 \in 1 .. L + 6
  BY <1>1
<1>6. ERUP_GET_CRC(p) = p[L + 5] /\ ERUP_GET_CRC(q) = q[L + 5]
  BY <1>1, <1>3, <1>4, <1>5 DEF ERUP_GET_CRC, ByteAt, L
<1>7. ERUP_GET_END(p) = p[L + 6] /\ ERUP_GET_END(q) = q[L + 6]
  BY <1>1, <1>3, <1>4, <1>5 DEF ERUP_GET_END, ByteAt, L
<1>8. ERUP_GET_DATA(p) = ERUP_GET_DATA(q)
  <2> DEFINE x == SubSeq(p, 5, 4 + L)
             y == SubSeq(q, 5, 4 + L)
  <2>1. /\ 5 \in 1 .. Len(p) /\ 4 + L \in 1 .. Len(p)
        /\ 5 \in 1 .. Len(q) /\ 4 + L \in 1 .. Len(q) /\ 5 <= (4 + L) + 1
    BY <1>1, <1>2, <1>3
  <2>2. /\ x \in Seq(0 .. 255) /\ Len(x) = (4 + L) - 5 + 1
        /\ \A i \in 1 .. (4 + L) - 5 + 1 : x[i] = p[5 + i - 1]
    BY <2>1, Cut
  <2>3. /\ y \in Seq(0 .. 255) /\ Len(y) = (4 + L) - 5 + 1
        /\ \A i \in 1 .. (4 + L) - 5 + 1 : y[i] = q[5 + i - 1]
    BY <2>1, Cut
  <2>4. \A i \in 1 .. (4 + L) - 5 + 1 : p[5 + i - 1] = q[5 + i - 1]
    BY <1>1, <1>4
  <2> HIDE DEF x, y
  <2>5. Len(x) = Len(y) /\ \A i \in 1 .. Len(x) : x[i] = y[i]
    BY <2>2, <2>3, <2>4
  <2>6. x = y
    BY <2>2, <2>3, <2>5, SeqEqual
  <2> QED
    BY <1>3, <2>6 DEF ERUP_GET_DATA, x, y, L
<1> QED
  BY <1>4, <1>5, <1>6, <1>7, <1>8

(* rader_cmd looks at what follows the first ERUP_BEGIN. *)
LEMMA FromBeginIs ==
  ASSUME NEW buf \in Seq(0 .. 255), Complete(FromBegin(buf))
  PROVE  \E f \in 1 .. Len(buf) : /\ buf[f] = ERUP_BEGIN
                                  /\ FromBegin(buf) = SubSeq(buf, f, Len(buf))
<1> DEFINE begins == {i \in DOMAIN buf : buf[i] = ERUP_BEGIN}
<1>1. begins # {}
  <2> SUFFICES ASSUME begins = {} PROVE FALSE
    OBVIOUS
  <2>1. FromBegin(buf) = << >>
    BY DEF FromBegin
  <2> DEFINE e == << >>
  <2>2. e \in Seq(0 .. 255) /\ Len(e) = 0
    OBVIOUS
  <2>3. Complete(e)
    BY <2>1
  <2> HIDE DEF e
  <2>4. ERUP_GET_LEN(e) \in Nat /\ ERUP_GET_LEN(e) + 6 <= Len(e)
    BY <2>2, <2>3, CompleteIs
  <2> QED
    BY <2>2, <2>4
<1>2. DOMAIN buf = 1 .. Len(buf)
  OBVIOUS
<1>3. begins \in SUBSET Nat
  BY <1>2
<1> HIDE DEF begins
<1>4. \E i \in begins : \A j \in begins : i <= j
  BY <1>1, <1>3, Least
<1> DEFINE first == CHOOSE i \in begins : \A j \in begins : i <= j
<1>5. first \in begins
  BY <1>4
<1>6. FromBegin(buf) = SubSeq(buf, first, Len(buf))
  BY <1>1 DEF FromBegin, begins
<1> QED
  BY <1>2, <1>5, <1>6 DEF begins
(* The packets whose bytes are on the stream: u.at is where packet u begins *)
(* (before the stream when a part of it has been read), u.number which of   *)
(* the commands sent it holds, 0 when it was damaged.                       *)
Units == [at : Int, packet : Seq(0 .. 255), number : Nat]

IsSent(u, cmds) ==
  u.number \in 1 .. Len(cmds) /\ u.packet = Packet(0, cmds[u.number])

IsDamaged(u) ==
  /\ u.number = 0
  /\ \E data \in Payloads, k \in 5 .. MaxRead, burst \in Bursts :
        Covered(data, k, burst) /\ u.packet = Damaged(Packet(0, data), k, burst)

LiesOn(u, bytes) ==
  \A k \in 1 .. Len(u.packet) :
     /\ u.at + k - 1 <= Len(bytes)
     /\ u.at + k - 1 >= 1 => bytes[u.at + k - 1] = u.packet[k]

LaidOut(U, bytes, cmds) ==
  /\ U \in SUBSET Units
  /\ \A u \in U : LiesOn(u, bytes) /\ (IsSent(u, cmds) \/ IsDamaged(u))
  /\ \A i \in 1 .. Len(bytes) :
        \E u \in U : (i - u.at) + 1 \in 1 .. Len(u.packet)
  /\ \A u, v \in U : u.at < v.at /\ v.number # 0 => u.number < v.number

(* A packet as it is sent is complete, and so is one that is damaged. *)
LEMMA SentPacket ==
  ASSUME NEW data \in Payloads, Crc8IsComputed
  PROVE  LET p == Packet(0, data)
         IN /\ p \in Seq(0 .. 255) /\ Len(p) = Len(data) + 6 /\ Complete(p)
            /\ ERUP_GET_DATA(p) = data
<1> DEFINE p == Packet(0, data)
           L == Len(data)
<1>1. data \in Seq(0 .. 255) /\ L \in Nat /\ L < 65536
  BY StreamAssumption
<1>2. /\ Len(p) = L + 6 /\ DOMAIN p = 1 .. L + 6
      /\ p[1] = ERUP_BEGIN /\ p[2] = L \div 256 /\ p[3] = L % 256
      /\ \A i \in 1 .. L : p[i + 4] = data[i]
  BY <1>1, PacketBytes
<1>3. p \in Seq(0 .. 255)
  <2>1. Crc8(data) \in 0 .. 255
    BY <1>1, Crc8IsByte
  <2>2. L \div 256 \in 0 .. 255 /\ L % 256 \in 0 .. 255
    <3> HIDE DEF L
    <3> QED
      BY <1>1, LengthBytes
  <2>3. <<ERUP_BEGIN, L \div 256, L % 256, 0>> \in Seq(0 .. 255)
    BY <2>2 DEF ERUP_BEGIN
  <2>4. <<Crc8(data), ERUP_END>> \in Seq(0 .. 255)
    BY <2>1 DEF ERUP_END
  <2>5. p = <<ERUP_BEGIN, L \div 256, L % 256, 0>> \o data \o <<Crc8(data), ERUP_END>>
    BY DEF Packet
  <2> HIDE DEF p
  <2> QED
    BY <1>1, <2>3, <2>4, <2>5
<1> HIDE DEF p
<1>4. ERUP_GET_LEN(p) = L
  <2>1. Len(p) >= 3
    BY <1>1, <1>2
  <2>2. ERUP_GET_LEN(p) = 256 * p[2] + p[3]
    BY <1>3, <2>1, PacketLen
  <2>3. (L \div 256) * 256 + (L % 256) = L /\ L \div 256 \in Nat
    <3> HIDE DEF L
    <3> QED
      BY <1>1, LengthBytes
  <2>4. 256 * (L \div 256) = (L \div 256) * 256
    BY <2>3
  <2> QED
    BY <1>2, <2>2, <2>3, <2>4
<1>5. Complete(p)
  BY <1>1, <1>2, <1>4 DEF Complete, ERUP_GET_PACKET_LEN
<1>6. ERUP_GET_DATA(p) = data
  <2> DEFINE x == SubSeq(p, 5, 4 + L)
  <2>1. 5 \in 1 .. Len(p) /\ 4 + L \in 1 .. Len(p) /\ 5 <= (4 + L) + 1
    BY <1>1, <1>2
  <2>2. /\ x \in Seq(0 .. 255) /\ Len(x) = (4 + L) - 5 + 1
        /\ \A i \in 1 .. (4 + L) - 5 + 1 : x[i] = p[5 + i - 1]
    BY <1>3, <2>1, Cut
  <2> HIDE DEF x
  <2>3. Len(x) = L
    BY <1>1, <2>2
  <2>4. \A i \in 1 .. Len(x) : x[i] = data[i]
    <3> TAKE i \in 1 .. Len(x)
    <3>1. i \in 1 .. L /\ i \in 1 .. (4 + L) - 5 + 1 /\ 5 + i - 1 = i + 4
      BY <1>1, <2>3
    <3> QED
      BY <1>2, <2>2, <3>1
  <2>5. x = data
    BY <1>1, <2>2, <2>3, <2>4, SeqEqual
  <2> QED
    BY <1>4, <2>5 DEF ERUP_GET_DATA, x
<1> QED
  BY <1>2, <1>3, <1>5, <1>6 DEF p

LEMMA DamagedComplete ==
  ASSUME NEW data \in Payloads, NEW k \in Nat, NEW burst \in Bursts,
         Covered(data, k, burst), Crc8IsComputed
  PROVE  LET q == Damaged(Packet(0, data), k, burst)
         IN q \in Seq(0 .. 255) /\ Len(q) = Len(data) + 6 /\ Complete(q)
<1> DEFINE q == Damaged(Packet(0, data), k, burst)
           L == Len(data)
<1>1. L \in Nat /\ L < 65536
  BY StreamAssumption
<1>2. /\ q \in Seq(0 .. 255) /\ Len(q) = L + 6
      /\ q[2] = L \div 256 /\ q[3] = L % 256
  BY DamagedBytes
<1> HIDE DEF q
<1>3. ERUP_GET_LEN(q) = 256 * (L \div 256) + (L % 256)
  <2>1. Len(q) >= 3
    BY <1>1, <1>2
  <2> QED
    BY <1>2, <2>1, PacketLen
<1>4. (L \div 256) * 256 + (L % 256) = L /\ L \div 256 \in Nat
  <2> HIDE DEF L
  <2> QED
    BY <1>1, LengthBytes
<1>5. ERUP_GET_LEN(q) = L
  BY <1>3, <1>4
<1> QED
  BY <1>1, <1>2, <1>5 DEF Complete, ERUP_GET_PACKET_LEN, q
(* Where a packet is looked for, one begins or its rest does; the rest is   *)
(* never taken for a packet.                                                *)
LEMMA Taken ==
  ASSUME NEW cmds \in Seq(Payloads), NEW bytes \in Seq(0 .. 255), NEW U,
         LaidOut(U, bytes, cmds), Crc8IsComputed,
         NEW n \in 1 .. Len(bytes), n <= MaxRead,
         Accepts(SubSeq(bytes, 1, n))
  PROVE  \E u \in U :
            /\ u.at \in 1 .. n /\ u.number \in 1 .. Len(cmds)
            /\ ERUP_GET_DATA(FromBegin(SubSeq(bytes, 1, n))) = cmds[u.number]
<1> DEFINE buf == SubSeq(bytes, 1, n)
           p == FromBegin(buf)
<1>0. n \in Nat /\ n >= 1 /\ MaxRead \in Nat
  BY RaderAssumption
<1>1. /\ buf \in Seq(0 .. 255) /\ Len(buf) = n
      /\ \A i \in 1 .. n : buf[i] = bytes[i]
  <2>1. 1 \in 1 .. Len(bytes) /\ 1 <= n + 1
    OBVIOUS
  <2>2. /\ buf \in Seq(0 .. 255) /\ Len(buf) = n - 1 + 1
        /\ \A i \in 1 .. n - 1 + 1 : buf[i] = bytes[1 + i - 1]
    BY <2>1, Cut
  <2> HIDE DEF buf
  <2> QED
    BY <2>2
<1>2. Complete(p) /\ Intact(p)
  BY DEF Accepts
<1> HIDE DEF buf
<1>3. PICK f \in 1 .. n : buf[f] = ERUP_BEGIN /\ p = SubSeq(buf, f, n)
  BY <1>1, <1>2, FromBeginIs
<1> HIDE DEF p
<1>4. /\ p \in Seq(0 .. 255) /\ Len(p) = n - f + 1
      /\ \A m \in 1 .. n - f + 1 : p[m] = bytes[f + m - 1]
  <2>1. f \in 1 .. Len(buf) /\ n \in 1 .. Len(buf) /\ f <= n + 1
    BY <1>1
  <2> DEFINE x == SubSeq(buf, f, n)
  <2>2. /\ x \in Seq(0 .. 255) /\ Len(x) = n - f + 1
        /\ \A m \in 1 .. n - f + 1 : x[m] = buf[f + m - 1]
    <3>1. buf \in Seq(0 .. 255)
      BY <1>1
    <3> QED
      BY <3>1, <2>1, Cut
  <2> HIDE DEF x
  <2>3. \A m \in 1 .. n - f + 1 : f + m - 1 \in 1 .. n
    OBVIOUS
  <2>4. p = x
    BY <1>3 DEF x
  <2> QED
    BY <1>1, <2>2, <2>3, <2>4
<1>5. PICK u \in U : (f - u.at) + 1 \in 1 .. Len(u.packet)
  <2>1. f \in 1 .. Len(bytes)
    OBVIOUS
  <2> QED
    BY <2>1 DEF LaidOut
<1> DEFINE i == (f - u.at) + 1
           L == Len(u.packet)
           q == SubSeq(u.packet, i, L)
<1>6. /\ u.at \in Int /\ u.packet \in Seq(0 .. 255) /\ u.number \in Nat
      /\ LiesOn(u, bytes) /\ (IsSent(u, cmds) \/ IsDamaged(u))
  BY <1>5 DEF LaidOut, Units
<1>7. L \in Nat /\ i \in 1 .. L
  BY <1>5, <1>6
<1>8. /\ q \in Seq(0 .. 255) /\ Len(q) = L - i + 1
      /\ \A m \in 1 .. L - i + 1 : q[m] = u.packet[i + m - 1]
  <2>1. L \in 1 .. Len(u.packet) /\ i \in 1 .. Len(u.packet) /\ i <= L + 1
    BY <1>7
  <2> HIDE DEF i, L
  <2> QED
    BY <1>6, <2>1, Cut
<1>9. Agree(p, q)
  <2> SUFFICES ASSUME NEW m \in 1 .. Len(p), m <= Len(q)
               PROVE  p[m] = q[m]
    BY DEF Agree
  <2>1. m \in 1 .. n - f + 1 /\ m \in 1 .. L - i + 1
    BY <1>4, <1>7, <1>8
  <2>2. /\ i + m - 1 \in 1 .. L /\ u.at + (i + m - 1) - 1 = f + m - 1
        /\ f + m - 1 >= 1
    <3>1. u.at + i = f + 1 /\ i \in 1 .. L /\ u.at \in Int /\ L \in Nat
      BY <1>6, <1>7
    <3>2. f \in Int /\ f >= 1 /\ m \in Int /\ m >= 1 /\ m <= L - i + 1
      BY <2>1
    <3> HIDE DEF i, L
    <3> QED
      BY <3>1, <3>2
  <2>3. bytes[f + m - 1] = u.packet[i + m - 1]
    BY <1>6, <2>2 DEF LiesOn
  <2> HIDE DEF i, L, q
  <2> QED
    BY <1>4, <1>8, <2>1, <2>3
<1>10. PICK data \in Payloads :
         /\ Len(u.packet) = Len(data) + 6 /\ Complete(u.packet)
         /\ NoneInside(u.packet, MaxRead)
         /\ \/ /\ u.number \in 1 .. Len(cmds) /\ data = cmds[u.number]
               /\ ERUP_GET_DATA(u.packet) = data
            \/ ~Intact(u.packet)
  <2>1. CASE IsSent(u, cmds)
    <3>1. cmds[u.number] \in Payloads
      BY <2>1, ElementOfSeq DEF IsSent
    <3>2. NoneInside(u.packet, MaxRead)
      BY <2>1, <3>1, PacketAssumption DEF IsSent
    <3> QED
      BY <2>1, <3>1, <3>2, SentPacket DEF IsSent
  <2>2. CASE IsDamaged(u)
    <3>1. PICK data \in Payloads, k \in 5 .. MaxRead, burst \in Bursts :
            /\ Covered(data, k, burst)
            /\ u.packet = Damaged(Packet(0, data), k, burst)
      BY <2>2 DEF IsDamaged
    <3>2. k \in Nat
      OBVIOUS
    <3>3. ~Intact(u.packet)
      BY <3>1, <3>2, DamagedCaught
    <3>4. Len(u.packet) = Len(data) + 6 /\ Complete(u.packet)
      BY <3>1, <3>2, DamagedComplete
    <3>5. NoneInside(u.packet, MaxRead)
      BY <3>1, PacketAssumption
    <3> QED
      BY <3>3, <3>4, <3>5
  <2> QED
    BY <1>6, <2>1, <2>2
<1>11. CASE i = 1
  <2>1. q = u.packet
    <3>1. Len(q) = Len(u.packet) /\ \A m \in 1 .. Len(q) : q[m] = u.packet[m]
      BY <1>7, <1>8, <1>11
    <3> HIDE DEF q
    <3> QED
      BY <1>6, <1>8, <3>1, SeqEqual
  <2>2. /\ ERUP_GET_DATA(p) = ERUP_GET_DATA(q)
        /\ ERUP_GET_CRC(p) = ERUP_GET_CRC(q)
        /\ ERUP_GET_END(p) = ERUP_GET_END(q)
    <3> HIDE DEF q
    <3> QED
      BY <1>2, <1>4, <1>8, <1>9, <1>10, <2>1, SamePacket
  <2>3. Intact(u.packet)
    BY <1>2, <2>1, <2>2 DEF Intact
  <2>4. u.at = f
    BY <1>6, <1>11
  <2> QED
    BY <1>5, <1>10, <2>1, <2>2, <2>3, <2>4 DEF p, buf
<1>12. CASE i # 1
  <2>1. i \in 2 .. Len(u.packet)
    BY <1>7, <1>12
  <2>2. u.packet[i] = ERUP_BEGIN
    <3>1. /\ u.at + i - 1 = f /\ f >= 1 /\ i \in 1 .. Len(u.packet)
          /\ f \in 1 .. n
      BY <1>6, <2>1
    <3> HIDE DEF i
    <3>2. bytes[f] = u.packet[i]
      BY <1>6, <3>1 DEF LiesOn
    <3> QED
      BY <1>1, <1>3, <3>1, <3>2
  <2> HIDE DEF i
  <2>3. \/ ERUP_GET_PACKET_LEN(q) > MaxRead
        \/ Complete(q) /\ ERUP_GET_CRC(q) # Crc8(ERUP_GET_DATA(q))
    BY <1>10, <2>1, <2>2 DEF NoneInside
  <2> HIDE DEF q
  <2>4. ERUP_GET_PACKET_LEN(q) <= Len(p)
    BY <1>2, <1>4, <1>8, <1>9, SeemsShorter
  <2>5. Len(p) <= MaxRead /\ Len(p) \in Nat
    <3>1. f \in Int /\ f >= 1 /\ f <= n
      OBVIOUS
    <3>2. Len(p) = n - f + 1
      BY <1>4
    <3> QED
      BY <1>0, <3>1, <3>2
  <2>6. ERUP_GET_PACKET_LEN(q) \in Nat /\ MaxRead \in Nat
    BY <1>8, PacketLen, RaderAssumption
  <2>7. Complete(q) /\ ERUP_GET_CRC(q) # Crc8(ERUP_GET_DATA(q))
    BY <2>3, <2>4, <2>5, <2>6
  <2>8. /\ ERUP_GET_DATA(p) = ERUP_GET_DATA(q)
        /\ ERUP_GET_CRC(p) = ERUP_GET_CRC(q)
    BY <1>2, <1>4, <1>8, <1>9, <2>7, SamePacket
  <2> QED
    BY <1>2, <2>7, <2>8 DEF Intact
<1> QED
  BY <1>11, <1>12
-----------------------------------------------------------------------------
(* Sending and reading keep the packets in order *)

(* order[i] is which of the commands sent the i-th command taken is; those  *)
(* still to be read were sent later.                                        *)
Ordered(U, order, radar, cmds) ==
  /\ order \in [1 .. Len(radar) -> 1 .. Len(cmds)]
  /\ \A i, j \in 1 .. Len(radar) : i < j => order[i] < order[j]
  /\ \A i \in 1 .. Len(radar) : radar[i] = cmds[order[i]]
  /\ \A u \in U, i \in 1 .. Len(radar) :
        u.at >= 1 /\ u.number # 0 => order[i] < u.number

LEMMA SendingKeeps ==
  ASSUME NEW cmds \in Seq(Payloads), NEW bytes \in Seq(0 .. 255), NEW U,
         NEW order, NEW radar \in Seq(Payloads),
         LaidOut(U, bytes, cmds), Ordered(U, order, radar, cmds),
         NEW later \in Seq(Payloads), Len(cmds) <= Len(later),
         \A i \in 1 .. Len(cmds) : later[i] = cmds[i],
         NEW new \in Units, new.at = Len(bytes) + 1,
         \/ IsSent(new, later) /\ new.number > Len(cmds)
         \/ IsDamaged(new)
  PROVE  /\ LaidOut(U \cup {new}, bytes \o new.packet, later)
         /\ Ordered(U \cup {new}, order, radar, later)
<1> DEFINE p == new.packet
           more == bytes \o p
           V == U \cup {new}
           N == Len(bytes)
           M == Len(p)
<1>1. p \in Seq(0 .. 255) /\ new.number \in Nat /\ N \in Nat /\ M \in Nat
  BY DEF Units
<1>2. /\ more \in Seq(0 .. 255) /\ Len(more) = N + M
      /\ \A i \in 1 .. N : more[i] = bytes[i]
      /\ \A i \in 1 .. M : more[N + i] = p[i]
  <2>1. /\ more \in Seq(0 .. 255) /\ Len(more) = Len(bytes) + Len(p)
        /\ \A i \in 1 .. Len(bytes) + Len(p) :
              more[i] = IF i <= Len(bytes) THEN bytes[i] ELSE p[i - Len(bytes)]
    BY <1>1, ConcatProperties
  <2>2. \A i \in 1 .. N : more[i] = bytes[i]
    BY <1>1, <2>1
  <2>3. \A i \in 1 .. M : more[N + i] = p[i]
    <3> TAKE i \in 1 .. M
    <3>1. N + i \in 1 .. N + M /\ ~(N + i <= N) /\ (N + i) - N = i
      BY <1>1
    <3> QED
      BY <2>1, <3>1
  <2> QED
    BY <2>1, <2>2, <2>3
<1>3. /\ U \in SUBSET Units
      /\ \A u \in U : LiesOn(u, bytes) /\ (IsSent(u, cmds) \/ IsDamaged(u))
      /\ \A i \in 1 .. N : \E u \in U : (i - u.at) + 1 \in 1 .. Len(u.packet)
      /\ \A u, v \in U : u.at < v.at /\ v.number # 0 => u.number < v.number
  BY DEF LaidOut
<1> HIDE DEF p, more, N, M
<1>4. Len(cmds) \in Nat /\ Len(later) \in Nat
  OBVIOUS
<1>5. \A u \in U : /\ u.at \in Int /\ u.packet \in Seq(0 .. 255)
                   /\ u.number \in Nat /\ u.number <= Len(cmds)
  BY <1>3, <1>4 DEF Units, IsSent, IsDamaged
<1>6. V \in SUBSET Units
  BY <1>3
<1>7. ASSUME NEW u \in V
      PROVE  LiesOn(u, more)
  <2>1. CASE u \in U
    <3> SUFFICES ASSUME NEW k \in 1 .. Len(u.packet)
                 PROVE  /\ u.at + k - 1 <= Len(more)
                        /\ u.at + k - 1 >= 1 => more[u.at + k - 1] = u.packet[k]
      BY DEF LiesOn
    <3>1. /\ u.at + k - 1 <= N
          /\ u.at + k - 1 >= 1 => bytes[u.at + k - 1] = u.packet[k]
      BY <1>3, <2>1 DEF LiesOn, N
    <3>2. u.at + k - 1 \in Int
      BY <1>5, <2>1
    <3> QED
      BY <1>1, <1>2, <3>1, <3>2
  <2>2. CASE u = new
    <3> SUFFICES ASSUME NEW k \in 1 .. M
                 PROVE  /\ new.at + k - 1 <= Len(more)
                        /\ more[new.at + k - 1] = p[k]
      BY <2>2 DEF LiesOn, M, p
    <3>1. new.at + k - 1 = N + k /\ N + k <= N + M
      BY <1>1 DEF N
    <3> QED
      BY <1>2, <3>1
  <2> QED
    BY <2>1, <2>2
<1>8. ASSUME NEW u \in V
      PROVE  IsSent(u, later) \/ IsDamaged(u)
  <2>1. CASE u \in U /\ IsSent(u, cmds)
    <3>1. u.number \in 1 .. Len(cmds) /\ u.number \in 1 .. Len(later)
      BY <1>4, <2>1 DEF IsSent
    <3> QED
      BY <2>1, <3>1 DEF IsSent
  <2> QED
    BY <1>3, <2>1
<1>9. ASSUME NEW i \in 1 .. Len(more)
      PROVE  \E u \in V : (i - u.at) + 1 \in 1 .. Len(u.packet)
  <2>1. CASE i <= N
    <3>1. i \in 1 .. N
      BY <1>1, <1>2, <2>1
    <3> QED
      BY <1>3, <3>1
  <2>2. CASE i > N
    <3>1. (i - new.at) + 1 \in 1 .. M
      BY <1>1, <1>2, <2>2 DEF N
    <3> QED
      BY <3>1 DEF M, p
  <2> QED
    BY <1>1, <1>2, <2>1, <2>2
<1>10. \A u \in U : u.at <= N
  <2> TAKE u \in U
  <2>1. Len(u.packet) >= 1
    <3>1. CASE IsSent(u, cmds)
      <4>1. cmds[u.number] \in Payloads
        BY <3>1, ElementOfSeq DEF IsSent
      <4>2. cmds[u.number] \in Seq(0 .. 255)
        BY <4>1, StreamAssumption
      <4>3. Len(u.packet) = Len(cmds[u.number]) + 6
        BY <3>1, <4>2, PacketBytes DEF IsSent
      <4> QED
        BY <4>2, <4>3
    <3>2. CASE IsDamaged(u)
      <4>1. PICK data \in Payloads, k \in 5 .. MaxRead, burst \in Bursts :
              u.packet = Damaged(Packet(0, data), k, burst)
        BY <3>2 DEF IsDamaged
      <4>2. data \in Seq(0 .. 255)
        BY StreamAssumption
      <4>3. DOMAIN u.packet = 1 .. Len(data) + 6
        BY <4>1, <4>2, PacketBytes DEF Damaged
      <4>4. DOMAIN u.packet = 1 .. Len(u.packet) /\ Len(u.packet) \in Nat
        BY <1>5
      <4>5. 1 \in 1 .. Len(data) + 6
        BY <4>2
      <4> QED
        BY <4>3, <4>4, <4>5
    <3> QED
      BY <1>3, <3>1, <3>2
  <2>2. 1 \in 1 .. Len(u.packet)
    BY <1>5, <2>1
  <2>3. u.at + 1 - 1 <= N
    BY <1>3, <2>2 DEF LiesOn, N
  <2> QED
    BY <1>5, <2>3
<1>11. new.at = N + 1 /\ (new.number # 0 => new.number > Len(cmds))
  BY DEF N, IsDamaged
<1>12. \A u, v \in V : u.at < v.at /\ v.number # 0 => u.number < v.number
  <2> SUFFICES ASSUME NEW u \in V, NEW v \in V, u.at < v.at, v.number # 0
               PROVE  u.number < v.number
    OBVIOUS
  <2>1. CASE u \in U /\ v \in U
    BY <1>3, <2>1
  <2>2. CASE u \in U /\ v = new
    BY <1>1, <1>4, <1>5, <1>11, <2>2
  <2>3. CASE u = new
    <3>1. v.at <= N + 1
      BY <1>1, <1>5, <1>10, <1>11
    <3>2. v.at \in Int
      BY <1>1, <1>5, <1>11
    <3> QED
      BY <1>1, <1>11, <2>3, <3>1, <3>2
  <2> QED
    BY <2>1, <2>2, <2>3
<1>13. LaidOut(V, more, later)
  BY <1>6, <1>7, <1>8, <1>9, <1>12 DEF LaidOut
<1>14. Ordered(V, order, radar, later)
  <2>1. /\ order \in [1 .. Len(radar) -> 1 .. Len(cmds)]
        /\ \A i, j \in 1 .. Len(radar) : i < j => order[i] < order[j]
        /\ \A i \in 1 .. Len(radar) : radar[i] = cmds[order[i]]
        /\ \A u \in U, i \in 1 .. Len(radar) :
              u.at >= 1 /\ u.number # 0 => order[i] < u.number
    BY DEF Ordered
  <2>2. \A i \in 1 .. Len(radar) : order[i] \in 1 .. Len(cmds) /\ order[i] \in 1 .. Len(later)
    BY <1>4, <2>1
  <2>3. order \in [1 .. Len(radar) -> 1 .. Len(later)]
    BY <2>1, <2>2
  <2>4. \A i \in 1 .. Len(radar) : radar[i] = later[order[i]]
    BY <2>1, <2>2
  <2>5. \A u \in V, i \in 1 .. Len(radar) :
          u.at >= 1 /\ u.number # 0 => order[i] < u.number
    BY <1>1, <1>4, <1>11, <2>1, <2>2
  <2> QED
    BY <2>1, <2>3, <2>4, <2>5 DEF Ordered
<1> QED
  BY <1>13, <1>14 DEF more, p
LEMMA Rest ==
  ASSUME NEW S, NEW s \in Seq(S), NEW n \in 1 .. Len(s)
  PROVE  LET rest == SubSeq(s, n + 1, Len(s))
         IN /\ rest \in Seq(S) /\ Len(rest) = Len(s) - n
            /\ \A i \in 1 .. Len(s) - n : rest[i] = s[n + i]
<1> DEFINE rest == SubSeq(s, n + 1, Len(s))
           N == Len(s)
<1>1. n \in Nat /\ n >= 1 /\ N \in Nat /\ n <= N
  OBVIOUS
<1>2. \A i \in n + 1 .. N : s[i] \in S
  <2> TAKE i \in n + 1 .. N
  <2>1. i \in 1 .. Len(s)
    BY <1>1
  <2> QED
    BY <2>1, ElementOfSeq
<1>3. /\ rest \in Seq(S)
      /\ Len(rest) = IF n + 1 <= N THEN N - (n + 1) + 1 ELSE 0
      /\ \A i \in 1 .. N - (n + 1) + 1 : rest[i] = s[(n + 1) + i - 1]
  BY <1>1, <1>2, SubSeqProperties
<1>4. \A i \in 1 .. N - n : i \in 1 .. N - (n + 1) + 1 /\ (n + 1) + i - 1 = n + i
  BY <1>1
<1> HIDE DEF rest, N
<1>6. Len(rest) = N - n
  <2>1. CASE n + 1 <= N
    <3>1. Len(rest) = N - (n + 1) + 1
      BY <1>3, <2>1
    <3>2. N - (n + 1) + 1 = N - n
      BY <1>1
    <3> QED
      BY <3>1, <3>2
  <2>2. CASE ~(n + 1 <= N)
    <3>1. Len(rest) = 0
      BY <1>3, <2>2
    <3>2. N - n = 0
      BY <1>1, <2>2
    <3> QED
      BY <3>1, <3>2
  <2> QED
    BY <2>1, <2>2
<1> QED
  BY <1>3, <1>4, <1>6 DEF rest, N

(* The packets as seen n bytes further on *)
Onwards(u, n) == [at |-> u.at - n, packet |-> u.packet, number |-> u.number]
Left(U, n) == {Onwards(u, n) : u \in U}

LEMMA ReadingKeeps ==
  ASSUME NEW cmds \in Seq(Payloads), NEW bytes \in Seq(0 .. 255), NEW U,
         LaidOut(U, bytes, cmds), NEW n \in 1 .. Len(bytes)
  PROVE  LaidOut(Left(U, n), SubSeq(bytes, n + 1, Len(bytes)), cmds)
<1> DEFINE rest == SubSeq(bytes, n + 1, Len(bytes))
           N == Len(bytes)
           V == Left(U, n)
<1>1. n \in Nat /\ n >= 1 /\ N \in Nat /\ n <= N
  OBVIOUS
<1>2. /\ rest \in Seq(0 .. 255) /\ Len(rest) = N - n
      /\ \A i \in 1 .. N - n : rest[i] = bytes[n + i]
  BY Rest
<1>3. /\ U \in SUBSET Units
      /\ \A u \in U : LiesOn(u, bytes) /\ (IsSent(u, cmds) \/ IsDamaged(u))
      /\ \A i \in 1 .. N : \E u \in U : (i - u.at) + 1 \in 1 .. Len(u.packet)
      /\ \A u, v \in U : u.at < v.at /\ v.number # 0 => u.number < v.number
  BY DEF LaidOut
<1> HIDE DEF rest
<1>4. \A u \in U : /\ u.at \in Int /\ u.packet \in Seq(0 .. 255)
                   /\ u.number \in Nat
  BY <1>3 DEF Units
<1>5. \A u \in U : /\ Onwards(u, n).at = u.at - n
                   /\ Onwards(u, n).packet = u.packet
                   /\ Onwards(u, n).number = u.number
  BY DEF Onwards
<1>6. V \in SUBSET Units
  <2>1. \A u \in U : Onwards(u, n) \in Units
    BY <1>1, <1>4 DEF Onwards, Units
  <2> QED
    BY <2>1 DEF Left
<1>7. ASSUME NEW v \in V
      PROVE  LiesOn(v, rest) /\ (IsSent(v, cmds) \/ IsDamaged(v))
  <2>1. PICK u \in U : v = Onwards(u, n)
    BY DEF Left
  <2>2. v.at = u.at - n /\ v.packet = u.packet /\ v.number = u.number
    BY <1>5, <2>1
  <2>3. ASSUME NEW k \in 1 .. Len(v.packet)
        PROVE  /\ v.at + k - 1 <= Len(rest)
               /\ v.at + k - 1 >= 1 => rest[v.at + k - 1] = v.packet[k]
    <3> DEFINE i == v.at + k - 1
    <3>1. u.at + k - 1 = n + i /\ i \in Int
      BY <1>1, <1>4, <2>2
    <3>2. /\ u.at + k - 1 <= N
          /\ u.at + k - 1 >= 1 => bytes[u.at + k - 1] = u.packet[k]
      BY <1>3, <2>2, <2>3 DEF LiesOn
    <3> HIDE DEF i
    <3>3. n + i <= N /\ (i >= 1 => bytes[n + i] = v.packet[k])
      BY <1>1, <2>2, <3>1, <3>2
    <3>4. i <= Len(rest)
      BY <1>1, <1>2, <3>1, <3>3
    <3>5. i >= 1 => i \in 1 .. N - n
      BY <1>1, <3>1, <3>3
    <3>6. i >= 1 => rest[i] = v.packet[k]
      BY <1>2, <3>3, <3>5
    <3> QED
      BY <3>4, <3>6 DEF i
  <2>4. LiesOn(v, rest)
    BY <2>3 DEF LiesOn
  <2>5. IsSent(v, cmds) \/ IsDamaged(v)
    BY <1>3, <2>2 DEF IsSent, IsDamaged
  <2> QED
    BY <2>4, <2>5
<1>8. ASSUME NEW i \in 1 .. Len(rest)
      PROVE  \E v \in V : (i - v.at) + 1 \in 1 .. Len(v.packet)
  <2>1. n + i \in 1 .. N /\ i \in Int
    BY <1>1, <1>2
  <2>2. PICK u \in U : ((n + i) - u.at) + 1 \in 1 .. Len(u.packet)
    BY <1>3, <2>1
  <2> DEFINE v == Onwards(u, n)
  <2>3. v \in V
    BY DEF Left
  <2>4. v.at = u.at - n /\ v.packet = u.packet
    BY <1>5
  <2> HIDE DEF v
  <2>5. (i - v.at) + 1 = ((n + i) - u.at) + 1
    BY <1>1, <1>4, <2>1, <2>4
  <2> QED
    BY <2>2, <2>3, <2>4, <2>5
<1>9. \A v, w \in V : v.at < w.at /\ w.number # 0 => v.number < w.number
  <2> SUFFICES ASSUME NEW v \in V, NEW w \in V, v.at < w.at, w.number # 0
               PROVE  v.number < w.number
    OBVIOUS
  <2>1. PICK u \in U : v = Onwards(u, n)
    BY DEF Left
  <2>2. PICK x \in U : w = Onwards(x, n)
    BY DEF Left
  <2>3. /\ v.at = u.at - n /\ v.number = u.number
        /\ w.at = x.at - n /\ w.number = x.number
    BY <1>5, <2>1, <2>2
  <2>4. u.at < x.at
    BY <1>1, <1>4, <2>3
  <2> QED
    BY <1>3, <2>3, <2>4
<1> HIDE DEF V
<1> QED
  BY <1>6, <1>7, <1>8, <1>9 DEF LaidOut, V, rest

LEMMA DroppingKeeps ==
  ASSUME NEW U \in SUBSET Units, NEW order, NEW radar, NEW cmds,
         Ordered(U, order, radar, cmds), NEW n \in Nat
  PROVE  Ordered(Left(U, n), order, radar, cmds)
<1>1. \A i \in 1 .. Len(radar), u \in U :
        u.at >= 1 /\ u.number # 0 => order[i] < u.number
  BY DEF Ordered
<1>2. ASSUME NEW v \in Left(U, n), NEW i \in 1 .. Len(radar),
             v.at >= 1, v.number # 0
      PROVE  order[i] < v.number
  <2>1. PICK u \in U : v = Onwards(u, n)
    BY DEF Left
  <2>2. v.at = u.at - n /\ v.number = u.number /\ u.at \in Int
    BY <2>1 DEF Onwards, Units
  <2>3. u.at >= 1
    BY <1>2, <2>2
  <2> QED
    BY <1>1, <1>2, <2>2, <2>3
<1> QED
  BY <1>2 DEF Ordered

LEMMA TakingKeeps ==
  ASSUME NEW U \in SUBSET Units, NEW cmds \in Seq(Payloads),
         NEW radar \in Seq(Payloads), NEW order,
         Ordered(U, order, radar, cmds),
         \A u, v \in U : u.at < v.at /\ v.number # 0 => u.number < v.number,
         NEW n \in Nat, NEW u \in U, u.at \in 1 .. n,
         u.number \in 1 .. Len(cmds)
  PROVE  \E longer : Ordered(Left(U, n), longer, Append(radar, cmds[u.number]), cmds)
<1> DEFINE m == Len(radar)
           more == Append(radar, cmds[u.number])
           longer == [i \in 1 .. m + 1 |-> IF i = m + 1 THEN u.number ELSE order[i]]
<1>1. m \in Nat /\ Len(cmds) \in Nat /\ u.number # 0
  OBVIOUS
<1>2. /\ order \in [1 .. m -> 1 .. Len(cmds)]
      /\ \A i, j \in 1 .. m : i < j => order[i] < order[j]
      /\ \A i \in 1 .. m : radar[i] = cmds[order[i]]
      /\ \A v \in U, i \in 1 .. m : v.at >= 1 /\ v.number # 0 => order[i] < v.number
  BY DEF Ordered
<1>3. cmds[u.number] \in Payloads
  BY ElementOfSeq
<1>4. /\ more \in Seq(Payloads) /\ Len(more) = m + 1
      /\ \A i \in 1 .. m : more[i] = radar[i]
      /\ more[m + 1] = cmds[u.number]
  BY <1>3
<1> HIDE DEF m, more
<1>5. /\ longer[m + 1] = u.number
      /\ \A i \in 1 .. m : longer[i] = order[i] /\ i # m + 1
  BY <1>1
<1>6. \A i \in 1 .. m + 1 : i \in 1 .. m \/ i = m + 1
  BY <1>1
<1>7. \A i \in 1 .. m : order[i] \in 1 .. Len(cmds) /\ order[i] < u.number
  <2>1. u.at >= 1
    OBVIOUS
  <2> QED
    BY <1>1, <1>2, <2>1
<1>8. longer \in [1 .. m + 1 -> 1 .. Len(cmds)]
  <2>1. \A i \in 1 .. m + 1 : longer[i] \in 1 .. Len(cmds)
    BY <1>5, <1>6, <1>7
  <2>2. longer = [i \in 1 .. m + 1 |-> longer[i]]
    OBVIOUS
  <2> HIDE DEF longer
  <2> QED
    BY <2>1, <2>2
<1> HIDE DEF longer
<1>9. \A i, j \in 1 .. m + 1 : i < j => longer[i] < longer[j]
  <2> SUFFICES ASSUME NEW i \in 1 .. m + 1, NEW j \in 1 .. m + 1, i < j
               PROVE  longer[i] < longer[j]
    OBVIOUS
  <2>1. i \in 1 .. m
    BY <1>1
  <2> QED
    BY <1>2, <1>5, <1>6, <1>7, <2>1
<1>10. \A i \in 1 .. m + 1 : more[i] = cmds[longer[i]]
  <2> TAKE i \in 1 .. m + 1
  <2>1. CASE i \in 1 .. m
    BY <1>2, <1>4, <1>5, <2>1
  <2>2. CASE i = m + 1
    BY <1>4, <1>5, <2>2
  <2> QED
    BY <1>6, <2>1, <2>2
<1>11. ASSUME NEW w \in Left(U, n), NEW i \in 1 .. m + 1, w.at >= 1, w.number # 0
       PROVE  longer[i] < w.number
  <2>1. PICK v \in U : w = Onwards(v, n)
    BY DEF Left
  <2>2. /\ w.at = v.at - n /\ w.number = v.number
        /\ v.at \in Int /\ u.at \in Int
    BY <2>1 DEF Onwards, Units
  <2>3. v.at >= 1 /\ u.at < v.at
    BY <1>11, <2>2
  <2>4. CASE i \in 1 .. m
    BY <1>2, <1>5, <1>11, <2>2, <2>3, <2>4
  <2>5. CASE i = m + 1
    BY <1>5, <1>11, <2>2, <2>3, <2>5
  <2> QED
    BY <1>6, <2>4, <2>5
<1>12. Ordered(Left(U, n), longer, more, cmds)
  BY <1>4, <1>8, <1>9, <1>10, <1>11 DEF Ordered
<1> QED
  BY <1>12 DEF more

-----------------------------------------------------------------------------

StreamInv ==
  /\ sent \in Seq(Payloads) /\ stream \in Seq(0 .. 255)
  /\ taken \in Seq(Payloads)
  /\ \E U, order : LaidOut(U, stream, sent) /\ Ordered(U, order, taken, sent)

LEMMA StreamInit == Init => StreamInv
<1> SUFFICES ASSUME Init PROVE StreamInv
  OBVIOUS
<1>1. stream = << >> /\ sent = << >> /\ taken = << >>
  BY DEF Init
<1>2. LaidOut({}, << >>, << >>)
  BY DEF LaidOut
<1>3. Ordered({}, << >>, << >>, << >>)
  BY DEF Ordered
<1> QED
  BY <1>1, <1>2, <1>3 DEF StreamInv

LEMMA SendStep ==
  ASSUME StreamInv, NEW data \in Payloads, Send(data), Crc8IsComputed
  PROVE  StreamInv'
<1>1. PICK U, order : LaidOut(U, stream, sent) /\ Ordered(U, order, taken, sent)
  BY DEF StreamInv
<1> DEFINE p == Packet(0, data)
           new == [at |-> Len(stream) + 1, packet |-> p, number |-> Len(sent) + 1]
<1>2. /\ sent \in Seq(Payloads) /\ stream \in Seq(0 .. 255)
      /\ taken \in Seq(Payloads)
  BY DEF StreamInv
<1>3. sent' = Append(sent, data) /\ stream' = stream \o p /\ taken' = taken
  BY DEF Send
<1>4. p \in Seq(0 .. 255)
  BY SentPacket
<1> HIDE DEF p
<1>5. /\ sent' \in Seq(Payloads) /\ Len(sent') = Len(sent) + 1
      /\ \A i \in 1 .. Len(sent) : sent'[i] = sent[i]
      /\ sent'[Len(sent) + 1] = data
  BY <1>2, <1>3
<1>6. stream' \in Seq(0 .. 255)
  BY <1>2, <1>3, <1>4, ConcatProperties
<1>7. /\ new \in Units /\ new.at = Len(stream) + 1 /\ new.packet = p
      /\ new.number = Len(sent) + 1
  BY <1>2, <1>4 DEF Units
<1> HIDE DEF new
<1>8. IsSent(new, sent') /\ new.number > Len(sent)
  BY <1>2, <1>5, <1>7 DEF IsSent, p
<1>9. Len(sent) <= Len(sent')
  BY <1>2, <1>5
<1>10. /\ LaidOut(U \cup {new}, stream \o new.packet, sent')
       /\ Ordered(U \cup {new}, order, taken, sent')
  BY <1>1, <1>2, <1>5, <1>7, <1>8, <1>9, SendingKeeps
<1> QED
  BY <1>2, <1>3, <1>5, <1>6, <1>7, <1>10 DEF StreamInv

LEMMA DamagedStep ==
  ASSUME StreamInv, NEW data \in Payloads, NEW k \in 5 .. MaxRead,
         NEW burst \in Bursts, SendDamaged(data, k, burst), Crc8IsComputed
  PROVE  StreamInv'
<1>1. PICK U, order : LaidOut(U, stream, sent) /\ Ordered(U, order, taken, sent)
  BY DEF StreamInv
<1> DEFINE p == Damaged(Packet(0, data), k, burst)
           new == [at |-> Len(stream) + 1, packet |-> p, number |-> 0]
<1>2. /\ sent \in Seq(Payloads) /\ stream \in Seq(0 .. 255)
      /\ taken \in Seq(Payloads)
  BY DEF StreamInv
<1>3. /\ sent' = sent /\ stream' = stream \o p /\ taken' = taken
      /\ Covered(data, k, burst)
  BY DEF SendDamaged
<1>4. p \in Seq(0 .. 255)
  <2>1. k \in Nat
    OBVIOUS
  <2> QED
    BY <1>3, <2>1, DamagedComplete
<1> HIDE DEF p
<1>6. stream' \in Seq(0 .. 255)
  BY <1>2, <1>3, <1>4, ConcatProperties
<1>7. /\ new \in Units /\ new.at = Len(stream) + 1 /\ new.packet = p
      /\ new.number = 0
  BY <1>2, <1>4 DEF Units
<1> HIDE DEF new
<1>8. IsDamaged(new)
  BY <1>3, <1>7 DEF IsDamaged, p
<1>9. Len(sent) <= Len(sent)
  BY <1>2
<1>10. /\ LaidOut(U \cup {new}, stream \o new.packet, sent)
       /\ Ordered(U \cup {new}, order, taken, sent)
  BY <1>1, <1>2, <1>7, <1>8, <1>9, SendingKeeps
<1> QED
  BY <1>2, <1>3, <1>6, <1>7, <1>10 DEF StreamInv

LEMMA ReadStep ==
  ASSUME StreamInv, NEW n \in 1 .. MaxRead, Read(n), Crc8IsComputed
  PROVE  StreamInv'
<1>1. PICK U, order : LaidOut(U, stream, sent) /\ Ordered(U, order, taken, sent)
  BY DEF StreamInv
<1> DEFINE buf == SubSeq(stream, 1, n)
           rest == SubSeq(stream, n + 1, Len(stream))
<1>2. /\ sent \in Seq(Payloads) /\ stream \in Seq(0 .. 255)
      /\ taken \in Seq(Payloads)
  BY DEF StreamInv
<1>3. /\ n \in 1 .. Len(stream) /\ n <= MaxRead /\ n \in Nat
      /\ rader_cmd(buf) /\ stream' = rest /\ sent' = sent
      /\ taken' = IF uartTx' # << >> THEN Append(taken, uartTx') ELSE taken
  <2>1. n \in 1 .. min(MaxRead, Len(stream))
    BY DEF Read
  <2>2. MaxRead \in Nat /\ Len(stream) \in Nat
    BY <1>2, RaderAssumption
  <2>3. n \in 1 .. Len(stream) /\ n <= MaxRead /\ n \in Nat
    BY <2>1, <2>2 DEF min
  <2> QED
    BY <2>3 DEF Read
<1>4. LaidOut(Left(U, n), rest, sent)
  BY <1>1, <1>2, <1>3, ReadingKeeps
<1>5. /\ U \in SUBSET Units
      /\ \A u, v \in U : u.at < v.at /\ v.number # 0 => u.number < v.number
  BY <1>1 DEF LaidOut
<1>6. rest \in Seq(0 .. 255)
  BY <1>2, <1>3, Rest
<1>7. CASE Takes(buf)
  <2>1. uartTx' = ERUP_GET_DATA(FromBegin(buf))
    BY <1>3, <1>7 DEF rader_cmd, Begin
  <2>2. Accepts(buf)
    BY <1>7 DEF Takes
  <2>3. PICK u \in U :
          /\ u.at \in 1 .. n /\ u.number \in 1 .. Len(sent)
          /\ ERUP_GET_DATA(FromBegin(buf)) = sent[u.number]
    BY <1>1, <1>2, <1>3, <2>2, Taken
  <2>4. CASE uartTx' = << >>
    <3>1. taken' = taken
      BY <1>3, <2>4
    <3>2. Ordered(Left(U, n), order, taken, sent)
      BY <1>1, <1>3, <1>5, DroppingKeeps
    <3> QED
      BY <1>2, <1>3, <1>4, <1>6, <3>1, <3>2 DEF StreamInv
  <2>5. CASE uartTx' # << >>
    <3>1. taken' = Append(taken, sent[u.number])
      BY <1>3, <2>1, <2>3, <2>5
    <3>2. \E longer : Ordered(Left(U, n), longer, Append(taken, sent[u.number]), sent)
      BY <1>1, <1>2, <1>3, <1>5, <2>3, TakingKeeps
    <3>3. taken' \in Seq(Payloads)
      <4>1. sent[u.number] \in Payloads
        BY <1>2, <2>3, ElementOfSeq
      <4> QED
        BY <1>2, <3>1, <4>1
    <3> QED
      BY <1>2, <1>3, <1>4, <1>6, <3>1, <3>2, <3>3 DEF StreamInv
  <2> QED
    BY <2>4, <2>5
<1>8. CASE ~Takes(buf)
  <2>1. taken' = taken
    BY <1>3, <1>8 DEF rader_cmd, Refuse
  <2>2. Ordered(Left(U, n), order, taken, sent)
    BY <1>1, <1>3, <1>5, DroppingKeeps
  <2> QED
    BY <1>2, <1>3, <1>4, <1>6, <2>1, <2>2 DEF StreamInv
<1> QED
  BY <1>7, <1>8

LEMMA StreamStep ==
  ASSUME StreamInv, [Next]_streamVars, Crc8IsComputed
  PROVE  StreamInv'
<1>1. ASSUME NEW data \in Payloads, Send(data)
      PROVE  StreamInv'
  BY <1>1, SendStep
<1>2. ASSUME NEW data \in Payloads, NEW k \in 5 .. MaxRead, NEW burst \in Bursts,
             SendDamaged(data, k, burst)
      PROVE  StreamInv'
  BY <1>2, DamagedStep
<1>3. ASSUME NEW n \in 1 .. MaxRead, Read(n)
      PROVE  StreamInv'
  BY <1>3, ReadStep
<1>4. ASSUME NEW data \in UartReads, Answered(data)
      PROVE  StreamInv'
  BY <1>4 DEF Answered, StreamInv
<1>5. CASE UNCHANGED streamVars
  BY <1>5 DEF streamVars, StreamInv
<1> QED
  BY <1>1, <1>2, <1>3, <1>4, <1>5 DEF Next

LEMMA StreamInvImplies == StreamInv => TakenInOrder
<1> SUFFICES ASSUME StreamInv PROVE TakenInOrder
  OBVIOUS
<1>1. PICK U, order : Ordered(U, order, taken, sent)
  BY DEF StreamInv
<1> DEFINE places == 1 .. Len(sent)
<1>2. places \in SUBSET (1 .. Len(sent)) /\ order \in [1 .. Len(taken) -> places]
  BY <1>1 DEF Ordered
<1>3. /\ \A i, j \in 1 .. Len(taken) : i < j => order[i] < order[j]
      /\ \A i \in 1 .. Len(taken) : taken[i] = sent[order[i]]
  BY <1>1 DEF Ordered
<1> QED
  BY <1>2, <1>3 DEF TakenInOrder

(* However the stream of packets is cut into reads, and whatever bursts hit *)
(* them on the way, the radar is given commands the server sent, whole,     *)
(* once and in the order sent.                                              *)
THEOREM CommandsTakenInOrder ==
  ASSUME Crc8IsComputed
  PROVE  Spec => []TakenInOrder
<1>1. Init => StreamInv
  BY StreamInit
<1>2. StreamInv /\ [Next]_streamVars => StreamInv'
  BY StreamStep
<1>3. StreamInv => TakenInOrder
  BY StreamInvImplies
<1> QED
  BY <1>1, <1>2, <1>3, PTL DEF Spec
=============================================================================
