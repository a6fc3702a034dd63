-------------------------- MODULE RingBufferProofs --------------------------
(***************************************************************************)
(* What callers of src/ringBuffer.c can rely on, for rings of every size:   *)
(* one that leaves ringbuffer_skip alone never reaches outside rdata, and   *)
(* to one that keeps to the room there is the ring is ByteQueue's queue.    *)
(***************************************************************************)
EXTENDS RingBufferUse, RingBufferLemmas, SequenceTheorems

(* got is kept in the invariant for NoWildRead, count for TypeOK *)
UseInv == Sound(fifo) /\ got \in Seq(Byte) /\ count \in 0 .. Word - 1

(* A byte read at a position inside rdata is one of the ring's. *)
LEMMA ReadInside ==
  ASSUME NEW f, Sound(f), NEW i \in Slots
  PROVE  ReadAt(f, i) \in Byte
BY DEF ReadAt, Sound, Rings

(* ringbuffer_out_peek hands over bytes of rdata only. *)
LEMMA PeekBytes ==
  ASSUME NEW f, Sound(f), NEW n \in Nat
  PROVE  ringbuffer_out_peek(f, n) \in Seq(Byte)
<1> DEFINE len == min(n, ringbuffer_len(f))
           slen == min(len, UnsignedSub(Size, f.out))
<1>1. f.out \in 0 .. Size - 1
  BY DEF Sound, Slots
<1>2. len \in 0 .. Size - 1
  BY LenBound, RingAssumption DEF min
<1>3. UnsignedSub(Size, f.out) = Size - f.out
  BY <1>1, RingAssumption DEF UnsignedSub
<1> HIDE DEF len
<1>4. /\ slen \in 0 .. len /\ f.out + slen <= Size
      /\ len - slen <= Size
  BY <1>1, <1>2, <1>3, RingAssumption DEF min
<1> HIDE DEF slen
<1>5. ASSUME NEW k \in 1 .. len
      PROVE  ReadAt(f, IF k <= slen THEN f.out + k - 1 ELSE k - slen - 1)
               \in Byte
  <2>1. (IF k <= slen THEN f.out + k - 1 ELSE k - slen - 1) \in Slots
    BY <1>1, <1>2, <1>4, RingAssumption DEF Slots
  <2> QED
    BY <2>1, ReadInside
<1>6. ringbuffer_out_peek(f, n) =
        [k \in 1 .. len |-> ReadAt(f, IF k <= slen THEN f.out + k - 1
                                                   ELSE k - slen - 1)]
  BY DEF ringbuffer_out_peek, ringbuffer_copy_out, len, slen
<1>7. len \in Nat
  BY <1>2
<1> QED
  BY <1>5, <1>6, <1>7

(* ringbuffer_peek_byte reads inside rdata even when the ring is empty. *)
LEMMA PeekByteInside ==
  ASSUME NEW f, Sound(f)
  PROVE  ringbuffer_peek_byte(f) \in Byte
<1>1. f.out \in Slots /\ 0 \in Slots
  BY RingAssumption DEF Sound, Slots
<1> QED
  BY <1>1, ReadInside DEF ringbuffer_peek_byte

(* ringbuffer_in_byte and ringbuffer_out_byte move one position, with wrap. *)
LEMMA ByteCallsSound ==
  ASSUME NEW f, Sound(f), NEW b \in Byte
  PROVE  Sound(ringbuffer_in_byte(f, b)) /\ Sound(ringbuffer_out_byte(f))
<1>1. /\ f \in Rings /\ f.in \in Slots /\ f.out \in Slots
      /\ 0 \in Slots /\ Slots \subseteq Nat
  BY RingAssumption DEF Sound, Slots
<1>2. Wrap(f.in + 1) \in Slots /\ Wrap(f.out + 1) \in Slots
  BY <1>1, WrapInSlots, RingAssumption DEF Slots
<1>3. Sound(ringbuffer_out_byte(f))
  BY <1>1, <1>2 DEF ringbuffer_out_byte, Sound, Rings
<1>4. Sound(ringbuffer_in_byte(f, b))
  <2> DEFINE p == IF min(1, Size - f.in) > 0 THEN f.in ELSE 0
             data == IF ringbuffer_unused(f) > 0
                       THEN [f.rdata EXCEPT ![p] = b] ELSE f.rdata
  <2>1. p \in Slots
    BY <1>1
  <2> HIDE DEF p
  <2>2. data \in [Slots -> Byte]
    BY <1>1, <2>1 DEF Rings
  <2>3. ringbuffer_in_byte(f, b) =
          [f EXCEPT !.in = Wrap(f.in + 1), !.rdata = data]
    BY DEF ringbuffer_in_byte, p
  <2> HIDE DEF data
  <2> QED
    BY <1>1, <1>2, <2>2, <2>3 DEF Sound, Rings
<1> QED
  BY <1>3, <1>4

(* A length, and what it limits, is a number that fits into rbUint. *)
LEMMA LengthFits ==
  ASSUME NEW f, Sound(f)
  PROVE  /\ ringbuffer_len(f) \in 0 .. Word - 1
         /\ \A n \in Nat : min(n, ringbuffer_len(f)) \in 0 .. Word - 1
<1>1. ringbuffer_len(f) \in 0 .. Word - 1
  BY LenBound, RingAssumption
<1> QED
  BY <1>1, RingAssumption DEF min

(* Every call preserves the invariant. *)
LEMMA UseStep == UseInv /\ [AnyNext]_vars => UseInv'
<1> SUFFICES ASSUME UseInv, [AnyNext]_vars PROVE UseInv'
  OBVIOUS
<1>0. Sound(fifo) /\ << >> \in Seq(Byte) /\ fifo \in Rings
  BY DEF UseInv, Sound
<1>0a. 0 \in 0 .. Word - 1 /\ 1 \in 0 .. Word - 1
  BY RingAssumption
<1>1. ASSUME NEW buf \in Buffers, In(buf) PROVE UseInv'
  <2>1. buf \in Seq(Byte)
    BY UseAssumption DEF Buffers
  <2>2. Sound(ringbuffer_in(fifo, buf))
    BY <1>0, <2>1, InSound
  <2>3. ringbuffer_in_ret(fifo, buf) \in 0 .. Word - 1
    BY <2>2, LengthFits DEF ringbuffer_in_ret
  <2> QED
    BY <1>0, <1>1, <2>2, <2>3 DEF In, Returns, UseInv
<1>2. ASSUME NEW b \in Byte, InByte(b) PROVE UseInv'
  <2>1. Sound(fifo')
    BY <1>0, <1>2, ByteCallsSound DEF InByte
  <2>2. ringbuffer_len(fifo') \in 0 .. Word - 1
    BY <2>1, LengthFits
  <2> QED
    BY <1>0, <1>2, <2>1, <2>2 DEF InByte, Returns, UseInv
<1>3. ASSUME NEW n \in 0 .. MaxOut, Out(n) \/ OutPeek(n) PROVE UseInv'
  <2>1. n \in Nat
    BY UseAssumption
  <2>2. min(n, ringbuffer_len(fifo)) \in 0 .. Word - 1
    BY <1>0, <2>1, LengthFits
  <2> QED
    BY <1>0, <1>3, <2>1, <2>2, OutSound, PeekBytes
       DEF Out, OutPeek, Returns, UseInv, Sound
<1>4. ASSUME OutByte \/ PeekByte PROVE UseInv'
  <2>1. <<ringbuffer_peek_byte(fifo)>> \in Seq(Byte)
    BY <1>0, PeekByteInside
  <2>2. Sound(ringbuffer_out_byte(fifo))
    BY <1>0, ByteCallsSound, RingAssumption
  <2> QED
    BY <1>0, <1>0a, <1>4, <2>1, <2>2
       DEF OutByte, PeekByte, Returns, UseInv, Sound
<1>5. CASE PeekLen \/ Reset
  BY <1>0, <1>0a, <1>5, ResetSound, LengthFits
     DEF PeekLen, ringbuffer_peek_len, Reset, Returns, UseInv, Sound
<1>6. CASE UNCHANGED vars
  BY <1>6 DEF vars, UseInv, Sound
<1> QED
  BY <1>1, <1>2, <1>3, <1>4, <1>5, <1>6 DEF AnyNext

(* The inductive invariant of an arbitrary caller. *)
THEOREM UseInvariance == AnySpec => []UseInv
<1>1. Init => UseInv
  BY InitSound, RingAssumption DEF Init, UseInv
<1> QED
  BY <1>1, UseStep, PTL DEF AnySpec

(* The ring, what is handed over and what is returned keep their types,     *)
(* unsigned width included, for every caller.                               *)
THEOREM UseTypes == AnySpec => []TypeOK
<1>1. UseInv => TypeOK
  <2> SUFFICES ASSUME UseInv PROVE TypeOK
    OBVIOUS
  <2>1. got \in Seq(Byte) /\ fifo \in Rings /\ count \in 0 .. Word - 1
    BY DEF UseInv, Sound
  <2>2. got \in Seq(Byte \cup {Wild})
    BY <2>1
  <2> QED
    BY <2>1, <2>2 DEF TypeOK
<1> QED
  BY <1>1, UseInvariance, PTL

(* Between calls both positions are inside rdata, for every caller.         *)
THEOREM PositionsStayInside == AnySpec => []IndicesInBounds
<1>1. UseInv => IndicesInBounds
  BY DEF UseInv, Sound, IndicesInBounds
<1> QED
  BY <1>1, UseInvariance, PTL

(* Neither memcpy of the next ringbuffer_in leaves rdata, although the room *)
(* it is held to is wrong on a wrapped ring.                                *)
THEOREM CopiesStayInside == AnySpec => []CopiesInBounds
<1>1. ASSUME UseInv, NEW n \in 0 .. 2 * Size + 1
      PROVE  CopyFits(min(n, ringbuffer_unused(fifo)))
  <2> DEFINE len == min(n, ringbuffer_unused(fifo))
  <2>1. /\ fifo.in \in 0 .. Size - 1 /\ fifo.out \in 0 .. Size - 1
        /\ ringbuffer_unused(fifo) \in Nat
        /\ fifo.in + ringbuffer_unused(fifo) <= Size + fifo.out
    BY <1>1, UnusedBound, RingAssumption DEF UseInv, Sound, Slots
  <2>2. len \in Nat /\ fifo.in + len <= Size + fifo.out
    <3> DEFINE room == ringbuffer_unused(fifo)
    <3>1. n \in Nat /\ Size \in Nat
      BY RingAssumption
    <3>2. room \in Nat /\ fifo.in + room <= Size + fifo.out
      BY <2>1
    <3> HIDE DEF room
    <3>3. min(n, room) \in Nat /\ fifo.in + min(n, room) <= Size + fifo.out
      BY <2>1, <3>1, <3>2 DEF min
    <3> QED
      BY <3>3 DEF room
  <2> HIDE DEF len
  <2>3. CopyFits(len)
    BY <2>1, <2>2, RingAssumption DEF CopyFits, min
  <2> QED
    BY <2>3 DEF len
<1>2. UseInv => CopiesInBounds
  BY <1>1 DEF CopiesInBounds
<1> QED
  BY <1>2, UseInvariance, PTL

(* No caller is handed a byte from outside rdata. *)
THEOREM NoByteFromOutside == AnySpec => []NoWildRead
<1>1. UseInv => NoWildRead
  <2> SUFFICES ASSUME UseInv PROVE NoWildRead
    OBVIOUS
  <2>1. \A i \in 1 .. Len(got) : got[i] \in Byte
    BY DEF UseInv
  <2> QED
    BY <2>1, RingAssumption DEF NoWildRead
<1> QED
  BY <1>1, UseInvariance, PTL

-----------------------------------------------------------------------------
(* The counter must tell a full turn from none: with Word = 2 * Size a skip *)
(* at the last slot of a ring of one byte would leave no room.              *)
Wide == 2 * Size < Word

(* a ring such a caller holds: ringbuffer_skip may leave `out' at Size      *)
Held(f) == f \in Rings /\ f.in \in Slots /\ f.out <= Size

(* where the k-th oldest byte lies *)
Place(f, k) ==
  IF f.out + k - 1 < Size THEN f.out + k - 1 ELSE f.out + k - 1 - Size

LEMMA HeldType ==
  ASSUME NEW f, Held(f)
  PROVE  /\ f.in \in Nat /\ f.out \in Nat /\ f.in < Size /\ f.out <= Size
         /\ f.rdata \in [Slots -> Byte] /\ Size \in Nat /\ 2 <= Size
         /\ Word \in Nat /\ 2 * Size <= Word
BY RingAssumption DEF Held, Rings, Slots

(* The length tells how far `in' is ahead. *)
LEMMA HeldLen ==
  ASSUME NEW f, Held(f)
  PROVE  /\ ringbuffer_len(f) \in Nat /\ ringbuffer_len(f) < Size
         /\ ringbuffer_len(f) = IF f.in >= f.out THEN f.in - f.out
                                                 ELSE f.in + Size - f.out
BY HeldType DEF ringbuffer_len, mask

(* A peek copies the oldest bytes, across the end of the memory. *)
LEMMA HeldPeek ==
  ASSUME NEW f, Held(f), NEW n \in Nat
  PROVE  LET p == ringbuffer_out_peek(f, n)
             m == min(n, ringbuffer_len(f))
         IN /\ m \in Nat /\ m <= ringbuffer_len(f)
            /\ p \in Seq(Byte) /\ Len(p) = m
            /\ \A k \in 1 .. m : Place(f, k) \in Slots
                                 /\ p[k] = f.rdata[Place(f, k)]
<1> DEFINE m == min(n, ringbuffer_len(f))
           slen == min(m, UnsignedSub(Size, f.out))
           p == ringbuffer_out_peek(f, n)
<1>1. /\ f.in \in Nat /\ f.out \in Nat /\ f.in < Size /\ f.out <= Size
      /\ f.rdata \in [Slots -> Byte] /\ Size \in Nat /\ 2 <= Size
  BY HeldType
<1>2. ringbuffer_len(f) \in Nat /\ ringbuffer_len(f) < Size
  BY HeldLen
<1>3. m \in Nat /\ m <= ringbuffer_len(f) /\ m < Size
  BY <1>1, <1>2 DEF min
<1>4. slen = IF m > Size - f.out THEN Size - f.out ELSE m
  BY <1>1 DEF UnsignedSub, min
<1>5. p = [k \in 1 .. m |-> ReadAt(f, IF k <= slen THEN f.out + k - 1
                                                   ELSE k - slen - 1)]
  BY DEF ringbuffer_out_peek, ringbuffer_copy_out
<1> HIDE DEF m, slen, p
<1>6. ASSUME NEW k \in 1 .. m
      PROVE  /\ (IF k <= slen THEN f.out + k - 1 ELSE k - slen - 1)
                  = Place(f, k)
             /\ Place(f, k) \in Slots
  <2>1. k \in Nat /\ 1 <= k /\ k <= m
    BY <1>3
  <2>2. (IF k <= slen THEN f.out + k - 1 ELSE k - slen - 1)
          = IF f.out + k - 1 < Size THEN f.out + k - 1
                                    ELSE f.out + k - 1 - Size
    BY <1>1, <1>3, <1>4, <2>1
  <2>3. Place(f, k) \in Nat /\ Place(f, k) < Size
    BY <1>1, <1>3, <2>1 DEF Place
  <2> QED
    BY <1>1, <2>2, <2>3 DEF Place, Slots
<1>7. ASSUME NEW k \in 1 .. m
      PROVE  p[k] = f.rdata[Place(f, k)] /\ p[k] \in Byte
  <2>1. p[k] = ReadAt(f, Place(f, k))
    BY <1>5, <1>6
  <2> QED
    BY <1>1, <1>6, <2>1 DEF ReadAt
<1>8. p \in Seq(Byte) /\ Len(p) = m
  <2>1. p \in [1 .. m -> Byte]
    BY <1>5, <1>7
  <2> QED
    BY <1>3, <2>1
<1> QED
  BY <1>3, <1>6, <1>7, <1>8 DEF m, p

(* The ring holds the bytes at Place, oldest first. *)
LEMMA HeldContents ==
  ASSUME NEW f, Held(f)
  PROVE  /\ Contents(f) \in Seq(Byte)
         /\ Len(Contents(f)) = ringbuffer_len(f)
         /\ \A k \in 1 .. ringbuffer_len(f) :
              Place(f, k) \in Slots /\ Contents(f)[k] = f.rdata[Place(f, k)]
<1>1. ringbuffer_len(f) \in Nat
  BY HeldLen
<1>2. min(ringbuffer_len(f), ringbuffer_len(f)) = ringbuffer_len(f)
  BY DEF min
<1> QED
  BY <1>1, <1>2, HeldPeek DEF Contents

(* So a peek shows the first of them. *)
LEMMA PeekIsPrefix ==
  ASSUME NEW f, Held(f), NEW n \in Nat
  PROVE  ringbuffer_out_peek(f, n) =
           SubSeq(Contents(f), 1, min(n, ringbuffer_len(f)))
<1> DEFINE m == min(n, ringbuffer_len(f))
           p == ringbuffer_out_peek(f, n)
           c == Contents(f)
<1>1. /\ m \in Nat /\ m <= ringbuffer_len(f) /\ p \in Seq(Byte) /\ Len(p) = m
      /\ \A k \in 1 .. m : p[k] = f.rdata[Place(f, k)]
  BY HeldPeek
<1>2. /\ c \in Seq(Byte) /\ Len(c) = ringbuffer_len(f)
      /\ ringbuffer_len(f) \in Nat
      /\ \A k \in 1 .. ringbuffer_len(f) : c[k] = f.rdata[Place(f, k)]
  BY HeldContents, HeldLen
<1> HIDE DEF m, p, c
<1>3. ASSUME NEW k \in 1 .. m PROVE c[k] \in Byte /\ p[k] = c[k]
  <2>1. k \in 1 .. ringbuffer_len(f)
    BY <1>1, <1>2
  <2> QED
    BY <1>1, <1>2, <2>1, ElementOfSeq
<1>4. /\ SubSeq(c, 1, m) \in Seq(Byte)
      /\ Len(SubSeq(c, 1, m)) = m
      /\ \A k \in 1 .. m : SubSeq(c, 1, m)[k] = c[k]
  BY <1>1, <1>3, SubSeqProperties
<1>5. p = SubSeq(c, 1, m)
  BY <1>1, <1>3, <1>4, SeqEqual
<1> QED
  BY <1>5 DEF m, p, c

-----------------------------------------------------------------------------

(* A call that moves `out' past k bytes drops the k oldest, whether or not  *)
(* it goes round the end.                                                   *)
LEMMA DropsFirst ==
  ASSUME NEW f, Held(f), NEW g, Held(g), NEW k \in Nat,
         k <= ringbuffer_len(f), g.rdata = f.rdata, g.in = f.in,
         g.out = f.out + k \/ g.out = f.out + k - Size
  PROVE  /\ ringbuffer_len(g) = ringbuffer_len(f) - k
         /\ Contents(g) = SubSeq(Contents(f), k + 1, Len(Contents(f)))
<1> DEFINE len == ringbuffer_len(f)
           c == Contents(f)
           d == Contents(g)
<1>1. /\ f.in \in Nat /\ f.out \in Nat /\ f.in < Size /\ f.out <= Size
      /\ g.out \in Nat /\ g.out <= Size /\ Size \in Nat /\ 2 <= Size
  BY HeldType
<1>2. /\ len \in Nat /\ len < Size
      /\ len = IF f.in >= f.out THEN f.in - f.out ELSE f.in + Size - f.out
  BY HeldLen
<1>3. /\ ringbuffer_len(g) \in Nat
      /\ ringbuffer_len(g) = IF f.in >= g.out THEN f.in - g.out
                                              ELSE f.in + Size - g.out
  BY HeldLen
<1>4. /\ c \in Seq(Byte) /\ Len(c) = len
      /\ \A i \in 1 .. len : c[i] = f.rdata[Place(f, i)]
  BY HeldContents
<1>5. /\ d \in Seq(Byte) /\ Len(d) = ringbuffer_len(g)
      /\ \A i \in 1 .. ringbuffer_len(g) : d[i] = f.rdata[Place(g, i)]
  BY HeldContents
<1>6. k <= len
  OBVIOUS
<1> HIDE DEF len, c, d
<1>7. ringbuffer_len(g) = len - k
  BY <1>1, <1>2, <1>3, <1>6
<1>8. \A i \in k + 1 .. len : c[i] \in Byte
  BY <1>2, <1>4, ElementOfSeq
<1>9. /\ SubSeq(c, k + 1, len) \in Seq(Byte)
      /\ Len(SubSeq(c, k + 1, len)) = IF k + 1 <= len THEN len - (k + 1) + 1
                                                      ELSE 0
      /\ \A i \in 1 .. len - (k + 1) + 1 :
           SubSeq(c, k + 1, len)[i] = c[k + 1 + i - 1]
  BY <1>2, <1>8, SubSeqProperties
<1>10. Len(SubSeq(c, k + 1, len)) = len - k
  BY <1>2, <1>6, <1>9
<1>11. ASSUME NEW i \in 1 .. len - k
       PROVE  d[i] = SubSeq(c, k + 1, len)[i]
  <2>1. /\ i \in Nat /\ 1 <= i /\ k + i \in 1 .. len /\ k + 1 + i - 1 = k + i
        /\ i \in 1 .. len - (k + 1) + 1
    BY <1>2, <1>6
  <2>2. Place(g, i) = Place(f, k + i)
    <3>1. f.out + (k + i) - 1 < 2 * Size
      BY <1>1, <1>2, <2>1
    <3> QED
      BY <1>1, <1>2, <1>6, <2>1, <3>1 DEF Place
  <2> QED
    BY <1>4, <1>5, <1>7, <1>9, <2>1, <2>2
<1>12. d = SubSeq(c, k + 1, len)
  BY <1>5, <1>7, <1>9, <1>10, <1>11, SeqEqual
<1> QED
  BY <1>4, <1>7, <1>12 DEF len, c, d

(* ringbuffer_in does not clamp what there is room for ... *)
LEMMA RoomIsFree ==
  ASSUME Wide, NEW f, Held(f), NEW n \in Nat, ringbuffer_len(f) + n < Size
  PROVE  /\ ringbuffer_unused(f) \in Nat /\ n < ringbuffer_unused(f)
         /\ min(n, ringbuffer_unused(f)) = n
<1>1. /\ f.in \in Nat /\ f.out \in Nat /\ f.in < Size /\ f.out <= Size
      /\ Size \in Nat /\ 2 <= Size /\ Word \in Nat
  BY HeldType
<1>2. ringbuffer_len(f) = IF f.in >= f.out THEN f.in - f.out
                                           ELSE f.in + Size - f.out
  BY HeldLen
<1>3. ringbuffer_unused(f) \in Nat /\ n < ringbuffer_unused(f)
  BY <1>1, <1>2 DEF Wide, ringbuffer_unused, UnsignedSub
<1> QED
  BY <1>3 DEF min

(* ... and appends it. *)
LEMMA InAdds ==
  ASSUME Wide, NEW f, Held(f), NEW buf \in Seq(Byte),
         ringbuffer_len(f) + Len(buf) < Size
  PROVE  LET g == ringbuffer_in(f, buf)
         IN /\ Held(g)
            /\ ringbuffer_len(g) = ringbuffer_len(f) + Len(buf)
            /\ Contents(g) = Contents(f) \o buf
<1> DEFINE g == ringbuffer_in(f, buf)
           n == Len(buf)
           len == ringbuffer_len(f)
           slen == min(n, Size - f.in)
           c == Contents(f)
           d == Contents(g)
<1>1. /\ f.in \in Nat /\ f.out \in Nat /\ f.in < Size /\ f.out <= Size
      /\ f.rdata \in [Slots -> Byte] /\ Size \in Nat /\ 2 <= Size
      /\ f \in Rings
  BY HeldType DEF Held
<1>2. n \in Nat /\ len + n < Size /\ \A i \in 1 .. n : buf[i] \in Byte
  OBVIOUS
<1>3. /\ len \in Nat
      /\ len = IF f.in >= f.out THEN f.in - f.out ELSE f.in + Size - f.out
  BY HeldLen
<1>4. min(n, ringbuffer_unused(f)) = n
  BY <1>2, RoomIsFree
<1>5. g = [f EXCEPT !.in = Wrap(f.in + n),
                    !.rdata = ringbuffer_copy_in(f, buf, n, f.in)]
  BY <1>4 DEF ringbuffer_in
<1>6. /\ g.in = Wrap(f.in + n) /\ g.out = f.out
      /\ g.rdata = ringbuffer_copy_in(f, buf, n, f.in)
  BY <1>1, <1>5 DEF Rings
<1>7. slen = IF n > Size - f.in THEN Size - f.in ELSE n
  BY DEF min
<1>8. g.rdata = [i \in Slots |->
                   IF i < n - slen THEN buf[slen + i + 1]
                   ELSE IF f.in <= i /\ i < f.in + slen THEN buf[i - f.in + 1]
                   ELSE f.rdata[i]]
  BY <1>6 DEF ringbuffer_copy_in
<1>9. /\ g.in = IF f.in + n < Size THEN f.in + n ELSE f.in + n - Size
      /\ g.in \in Nat /\ g.in < Size
  BY <1>1, <1>2, <1>3, <1>6 DEF Wrap, mask
<1> HIDE DEF g, n, len, slen, c, d
<1>10. g.rdata \in [Slots -> Byte]
  <2>1. ASSUME NEW i \in Slots PROVE g.rdata[i] \in Byte
    <3>1. i \in Nat /\ i < Size
      BY <1>1, <2>1 DEF Slots
    <3>2. CASE i < n - slen
      <4>1. slen + i + 1 \in 1 .. n
        BY <1>1, <1>2, <1>7, <3>1, <3>2
      <4> QED
        BY <1>2, <1>8, <3>2, <4>1
    <3>3. CASE ~(i < n - slen) /\ f.in <= i /\ i < f.in + slen
      <4>1. i - f.in + 1 \in 1 .. n
        BY <1>1, <1>2, <1>7, <3>1, <3>3
      <4> QED
        BY <1>2, <1>8, <3>3, <4>1
    <3>4. CASE ~(i < n - slen) /\ ~(f.in <= i /\ i < f.in + slen)
      BY <1>1, <1>8, <3>4
    <3> QED
      BY <3>2, <3>3, <3>4
  <2> QED
    BY <1>8, <2>1
<1>11. Held(g)
  <2>1. g \in Rings
    <3>1. g = [f EXCEPT !.in = g.in, !.rdata = g.rdata]
      BY <1>5, <1>6
    <3> QED
      BY <1>1, <1>9, <1>10, <3>1 DEF Rings
  <2> QED
    BY <1>1, <1>6, <1>9, <2>1 DEF Held, Slots
<1>12. ringbuffer_len(g) = len + n
  <2>1. ringbuffer_len(g) = IF g.in >= g.out THEN g.in - g.out
                                             ELSE g.in + Size - g.out
    BY <1>11, HeldLen
  <2>2. g.out = f.out
    BY <1>6
  <2>3. CASE f.in >= f.out
    BY <1>1, <1>2, <1>3, <1>9, <2>1, <2>2, <2>3
  <2>4. CASE f.in < f.out
    BY <1>1, <1>2, <1>3, <1>9, <2>1, <2>2, <2>4
  <2> QED
    BY <1>1, <2>3, <2>4
<1>13. /\ c \in Seq(Byte) /\ Len(c) = len
       /\ \A k \in 1 .. len : /\ Place(f, k) \in Slots
                             /\ c[k] = f.rdata[Place(f, k)]
  BY HeldContents DEF c, len
<1>14. /\ d \in Seq(Byte) /\ Len(d) = len + n
       /\ \A k \in 1 .. len + n : /\ Place(g, k) \in Slots
                                 /\ d[k] = g.rdata[Place(g, k)]
  BY <1>11, <1>12, HeldContents DEF d
<1>15. /\ c \o buf \in Seq(Byte) /\ Len(c \o buf) = len + n
       /\ \A k \in 1 .. len + n :
            (c \o buf)[k] = IF k <= len THEN c[k] ELSE buf[k - len]
  BY <1>13, ConcatProperties DEF n
<1>16. ASSUME NEW k \in 1 .. len + n PROVE d[k] = (c \o buf)[k]
  <2> DEFINE q == Place(g, k)
  <2>1. /\ k \in Nat /\ 1 <= k /\ k <= len + n
        /\ q = IF f.out + k - 1 < Size THEN f.out + k - 1
                                       ELSE f.out + k - 1 - Size
        /\ q \in Slots
    BY <1>2, <1>3, <1>6, <1>14 DEF Place
  <2>7. q \in Nat /\ q < Size
    BY <1>1, <2>1 DEF Slots
  <2>2. d[k] = g.rdata[q]
    BY <1>14
  <2>3. q = Place(f, k)
    BY <1>6 DEF Place
  <2>8. /\ k <= len => q >= n - slen /\ ~(f.in <= q /\ q < f.in + slen)
        /\ k > len /\ q < n - slen => slen + q + 1 = k - len
        /\ k > len /\ q >= n - slen =>
             f.in <= q /\ q < f.in + slen /\ q - f.in + 1 = k - len
    <3> DEFINE i == f.in
               o == f.out
               s == Size
    <3>1. slen \in Nat
      BY <1>1, <1>2, <1>7
    <3> HIDE DEF q
    <3>2. /\ i < s /\ o <= s /\ len + n < s /\ 1 <= k /\ k <= len + n
      BY <1>1, <1>2, <2>1
    <3>3. /\ s \in Nat /\ i \in Nat /\ o \in Nat /\ n \in Nat
          /\ len \in Nat /\ slen \in Nat /\ k \in Nat /\ q \in Nat
      BY <1>1, <1>2, <1>3, <2>1, <2>7, <3>1
    <3>4. /\ len = IF i >= o THEN i - o ELSE i + s - o
          /\ slen = IF n > s - i THEN s - i ELSE n
          /\ q = IF o + k - 1 < s THEN o + k - 1 ELSE o + k - 1 - s
      BY <1>3, <1>7, <2>1
    <3> HIDE DEF i, o, s, Place
    <3>5. ASSUME i >= o
          PROVE  /\ k <= len => q >= n - slen /\ ~(i <= q /\ q < i + slen)
                 /\ k > len /\ q < n - slen => slen + q + 1 = k - len
                 /\ k > len /\ q >= n - slen =>
                      i <= q /\ q < i + slen /\ q - i + 1 = k - len
      BY <3>2, <3>3, <3>4, <3>5
    <3>6. ASSUME i < o
          PROVE  /\ k <= len => q >= n - slen /\ ~(i <= q /\ q < i + slen)
                 /\ k > len /\ q < n - slen => slen + q + 1 = k - len
                 /\ k > len /\ q >= n - slen =>
                      i <= q /\ q < i + slen /\ q - i + 1 = k - len
      BY <3>2, <3>3, <3>4, <3>6
    <3>7. /\ k <= len => q >= n - slen /\ ~(i <= q /\ q < i + slen)
          /\ k > len /\ q < n - slen => slen + q + 1 = k - len
          /\ k > len /\ q >= n - slen =>
               i <= q /\ q < i + slen /\ q - i + 1 = k - len
      <4>1. i >= o \/ i < o
        BY <3>3
      <4> QED
        BY <3>5, <3>6, <4>1
    <3> QED
      BY <3>7 DEF i
  <2>9. n - slen \in Int /\ len \in Nat
    BY <1>1, <1>2, <1>3, <1>7
  <2> HIDE DEF q
  <2>4. CASE k <= len
    <3>1. ~(q < n - slen) /\ ~(f.in <= q /\ q < f.in + slen)
      BY <2>4, <2>7, <2>8, <2>9
    <3>2. g.rdata[q] = f.rdata[q]
      BY <1>8, <2>1, <3>1
    <3> QED
      BY <1>2, <1>3, <1>13, <1>15, <2>1, <2>2, <2>3, <2>4, <3>2
  <2>5. CASE k > len /\ q < n - slen
    <3>1. slen + q + 1 = k - len
      BY <2>5, <2>7, <2>8, <2>9
    <3>2. ~(k <= len)
      BY <1>2, <1>3, <2>1, <2>5
    <3>3. g.rdata[q] = buf[slen + q + 1]
      BY <1>8, <2>1, <2>5
    <3> QED
      BY <1>15, <2>2, <3>1, <3>2, <3>3
  <2>6. CASE k > len /\ ~(q < n - slen)
    <3>1. f.in <= q /\ q < f.in + slen /\ q - f.in + 1 = k - len
      BY <2>6, <2>7, <2>8, <2>9
    <3>2. ~(k <= len)
      BY <1>2, <1>3, <2>1, <2>6
    <3>3. g.rdata[q] = buf[q - f.in + 1]
      BY <1>8, <2>1, <2>6, <3>1
    <3> QED
      BY <1>15, <2>2, <3>1, <3>2, <3>3
  <2>10. \/ k <= len
         \/ k > len /\ q < n - slen
         \/ k > len /\ ~(q < n - slen)
    BY <2>1, <2>9
  <2> QED
    BY <2>4, <2>5, <2>6, <2>10
<1>17. d = c \o buf
  BY <1>14, <1>15, <1>16, SeqEqual
<1> QED
  BY <1>11, <1>12, <1>17 DEF g, n, len, c, d

(* One byte at a time is a buffer of one. *)
LEMMA InByteIsIn ==
  ASSUME Wide, NEW f, Held(f), NEW b \in Byte, ringbuffer_len(f) + 1 < Size
  PROVE  ringbuffer_in_byte(f, b) = ringbuffer_in(f, <<b>>)
<1>1. /\ f.in \in Nat /\ f.in < Size /\ Size \in Nat
      /\ f.rdata \in [Slots -> Byte] /\ f \in Rings
  BY HeldType DEF Held
<1>2. min(1, ringbuffer_unused(f)) = 1 /\ ringbuffer_unused(f) > 0
  BY RoomIsFree DEF min
<1>3. min(1, Size - f.in) = 1
  BY <1>1 DEF min
<1>4. Len(<<b>>) = 1 /\ <<b>>[1] = b
  OBVIOUS
<1>5. ringbuffer_in_byte(f, b) =
        [f EXCEPT !.in = Wrap(f.in + 1), !.rdata = [f.rdata EXCEPT ![f.in] = b]]
  <2> DEFINE p == IF min(1, Size - f.in) > 0 THEN f.in ELSE 0
             d == IF ringbuffer_unused(f) > 0 THEN [f.rdata EXCEPT ![p] = b]
                                              ELSE f.rdata
  <2>1. ringbuffer_in_byte(f, b) =
          [f EXCEPT !.in = Wrap(f.in + 1), !.rdata = d]
    BY <1>1 DEF ringbuffer_in_byte, Rings
  <2>2. p = f.in
    BY <1>3
  <2>3. d = [f.rdata EXCEPT ![f.in] = b]
    BY <1>2, <2>2
  <2> QED
    BY <2>1, <2>3
<1>6. ringbuffer_in(f, <<b>>) =
        [f EXCEPT !.in = Wrap(f.in + 1),
                  !.rdata = ringbuffer_copy_in(f, <<b>>, 1, f.in)]
  BY <1>2, <1>4 DEF ringbuffer_in
<1>7. ringbuffer_copy_in(f, <<b>>, 1, f.in) = [f.rdata EXCEPT ![f.in] = b]
  <2>1. ringbuffer_copy_in(f, <<b>>, 1, f.in) =
          [i \in Slots |-> IF i < 1 - 1 THEN <<b>>[1 + i + 1]
                           ELSE IF f.in <= i /\ i < f.in + 1
                                  THEN <<b>>[i - f.in + 1]
                           ELSE f.rdata[i]]
    BY <1>3 DEF ringbuffer_copy_in
  <2>2. ASSUME NEW i \in Slots
        PROVE  (IF i < 1 - 1 THEN <<b>>[1 + i + 1]
                ELSE IF f.in <= i /\ i < f.in + 1 THEN <<b>>[i - f.in + 1]
                ELSE f.rdata[i]) = [f.rdata EXCEPT ![f.in] = b][i]
    <3>1. i \in Nat
      BY <1>1 DEF Slots
    <3>2. CASE i = f.in
      BY <1>1, <1>4, <3>1, <3>2
    <3>3. CASE i # f.in
      BY <1>1, <3>1, <3>3
    <3> QED
      BY <3>2, <3>3
  <2>3. [f.rdata EXCEPT ![f.in] = b] \in [Slots -> Byte]
    BY <1>1
  <2> QED
    BY <2>1, <2>2, <2>3
<1> QED
  BY <1>5, <1>6, <1>7

(* The byte ringbuffer_peek_byte shows is the oldest. *)
LEMMA PeekByteIsFirst ==
  ASSUME NEW f, Held(f), ringbuffer_len(f) > 0
  PROVE  <<ringbuffer_peek_byte(f)>> = SubSeq(Contents(f), 1, 1)
<1>1. /\ f.out \in Nat /\ f.out <= Size /\ Size \in Nat /\ 2 <= Size
      /\ ringbuffer_len(f) \in Nat
  BY HeldType, HeldLen
<1>2. /\ Contents(f) \in Seq(Byte) /\ Len(Contents(f)) = ringbuffer_len(f)
      /\ Place(f, 1) \in Slots /\ Contents(f)[1] = f.rdata[Place(f, 1)]
  BY <1>1, HeldContents
<1>3. (IF min(1, UnsignedSub(Size, f.out)) > 0 THEN f.out ELSE 0) = Place(f, 1)
  BY <1>1 DEF min, UnsignedSub, Place
<1>4. ringbuffer_peek_byte(f) = Contents(f)[1]
  BY <1>2, <1>3 DEF ringbuffer_peek_byte, ReadAt
<1>5. SubSeq(Contents(f), 1, 1) = <<Contents(f)[1]>>
  <2> DEFINE c == Contents(f)
  <2>1. 1 \in 1 .. Len(c) /\ c \in Seq(Byte)
    BY <1>1, <1>2
  <2> HIDE DEF c
  <2>2. c[1] \in Byte
    BY <2>1, ElementOfSeq
  <2>3. \A i \in 1 .. 1 : c[i] \in Byte
    BY <2>2
  <2>4. /\ SubSeq(c, 1, 1) \in Seq(Byte) /\ Len(SubSeq(c, 1, 1)) = 1
        /\ SubSeq(c, 1, 1)[1] = c[1]
    BY <2>3, SubSeqProperties
  <2>5. /\ <<c[1]>> \in Seq(Byte) /\ Len(<<c[1]>>) = 1 /\ <<c[1]>>[1] = c[1]
    BY <2>2
  <2>6. \A i \in 1 .. 1 : SubSeq(c, 1, 1)[i] = <<c[1]>>[i]
    BY <2>4, <2>5
  <2>7. SubSeq(c, 1, 1) = <<c[1]>>
    BY <2>4, <2>5, <2>6, SeqEqual
  <2> QED
    BY <2>7 DEF c
<1> QED
  BY <1>4, <1>5

-----------------------------------------------------------------------------
(* What one call does to the queue, from a ring such a caller holds *)

(* Two lengths, one smaller: ringbuffer_out and BQ agree on it. *)
LEMMA SameLeast == ASSUME NEW x \in Nat, NEW y \in Nat
                   PROVE  BQ!Least(x, y) = min(x, y)
BY DEF BQ!Least, min

(* A ring that went through ringbuffer_init or _reset is the empty queue. *)
LEMMA EmptyRing ==
  ASSUME NEW f, Held(f), f.in = f.out
  PROVE  Contents(f) = << >>
<1>1. ringbuffer_len(f) = 0
  BY HeldType, HeldLen
<1> QED
  BY <1>1, HeldContents, EmptySeq

(* ringbuffer_in appends. *)
LEMMA InPuts ==
  ASSUME Wide, Held(fifo), NEW buf \in Seq(Byte), HasRoom(Len(buf)),
         fifo' = ringbuffer_in(fifo, buf),
         got' = << >>, count' = ringbuffer_len(fifo')
  PROVE  Held(fifo') /\ BQ!Next
<1> DEFINE n == Len(buf)
           c == Contents(fifo)
<1>1. /\ n \in Nat /\ ringbuffer_len(fifo) \in Nat /\ Size \in Nat
      /\ ringbuffer_len(fifo) + n < Size
  BY HeldLen, HeldType DEF HasRoom
<1>2. /\ Held(fifo') /\ ringbuffer_len(fifo') = ringbuffer_len(fifo) + n
      /\ Contents(fifo') = c \o buf
  BY <1>1, InAdds
<1>3. /\ c \in Seq(Byte) /\ Len(c) = ringbuffer_len(fifo)
      /\ Len(Contents(fifo')) = ringbuffer_len(fifo')
  BY <1>2, HeldContents
<1>4. BQ!Put(buf)
  BY <1>1, <1>2, <1>3 DEF BQ!Put, BQ!Returns
<1>5. n \in 0 .. Size - 1 /\ buf \in [1 .. n -> Byte]
  BY <1>1
<1> QED
  BY <1>2, <1>4, <1>5 DEF BQ!Next

(* Moving `out' on drops the oldest bytes. *)
LEMMA OutMoves ==
  ASSUME NEW f, Held(f), NEW k \in Nat, k <= ringbuffer_len(f),
         NEW x \in Nat, x <= Size, x = f.out + k \/ x = f.out + k - Size
  PROVE  /\ Held([f EXCEPT !.out = x])
         /\ Contents([f EXCEPT !.out = x]) =
              SubSeq(Contents(f), k + 1, Len(Contents(f)))
<1> DEFINE g == [f EXCEPT !.out = x]
<1>1. /\ g.in = f.in /\ g.rdata = f.rdata /\ g.out = x /\ g \in Rings
      /\ f.in \in Slots
  BY DEF Held, Rings
<1>2. Held(g)
  BY <1>1 DEF Held
<1> HIDE DEF g
<1>3. Contents(g) = SubSeq(Contents(f), k + 1, Len(Contents(f)))
  BY <1>1, <1>2, DropsFirst
<1> QED
  BY <1>2, <1>3 DEF g

(* ringbuffer_out takes the oldest bytes. *)
LEMMA OutTakes ==
  ASSUME Held(fifo), NEW n \in 0 .. MaxOut, Out(n)
  PROVE  Held(fifo') /\ BQ!Next
<1> DEFINE m == min(n, ringbuffer_len(fifo))
           x == Wrap(fifo.out + m)
           c == Contents(fifo)
<1>1. n \in Nat /\ n \in 0 .. Size + 1
  BY UseAssumption, HeldType
<1>2. /\ ringbuffer_len(fifo) \in Nat /\ ringbuffer_len(fifo) < Size
      /\ fifo.out \in Nat /\ fifo.out <= Size /\ Size \in Nat /\ 2 <= Size
  BY HeldLen, HeldType
<1>3. m \in Nat /\ m <= ringbuffer_len(fifo) /\ m < Size
  BY <1>1, <1>2 DEF min
<1>4. Len(c) = ringbuffer_len(fifo) /\ ringbuffer_out_peek(fifo, n) = SubSeq(c, 1, m)
  BY <1>1, HeldContents, PeekIsPrefix
<1>5. fifo' = [fifo EXCEPT !.out = x]
  BY DEF Out, ringbuffer_out
<1>6. got' = SubSeq(c, 1, m) /\ count' = m
  BY <1>4 DEF Out, Returns
<1> HIDE DEF m, c
<1>7. /\ x \in Nat /\ x <= Size
      /\ x = fifo.out + m \/ x = fifo.out + m - Size
  BY <1>2, <1>3 DEF Wrap, mask
<1> HIDE DEF x
<1>8. Held(fifo') /\ Contents(fifo') = SubSeq(c, m + 1, Len(c))
  BY <1>3, <1>5, <1>7, OutMoves DEF c
<1>9. BQ!Least(n, Len(c)) = m
  BY <1>1, <1>2, <1>4, SameLeast DEF m
<1>10. BQ!Take(n)
  BY <1>6, <1>8, <1>9 DEF BQ!Take, BQ!Returns, c
<1> QED
  BY <1>1, <1>8, <1>10 DEF BQ!Next

(* ringbuffer_out_peek, ringbuffer_peek_byte and ringbuffer_peek_len only look. *)
LEMMA LooksOnly ==
  ASSUME Held(fifo), NEW n \in 0 .. MaxOut,
         \/ OutPeek(n)
         \/ ringbuffer_len(fifo) > 0 /\ PeekByte
         \/ PeekLen
  PROVE  Held(fifo') /\ BQ!Next
<1> DEFINE c == Contents(fifo)
<1>1. /\ n \in Nat /\ n \in 0 .. Size + 1 /\ 1 \in 0 .. Size + 1
      /\ ringbuffer_len(fifo) \in Nat /\ Len(c) = ringbuffer_len(fifo)
  BY UseAssumption, HeldType, HeldLen, HeldContents
<1>2. UNCHANGED fifo /\ Held(fifo') /\ UNCHANGED c
  BY DEF OutPeek, PeekByte, PeekLen
<1>3. CASE OutPeek(n)
  <2>1. BQ!Least(n, Len(c)) = min(n, ringbuffer_len(fifo))
    BY <1>1, SameLeast
  <2>2. got' = SubSeq(c, 1, min(n, ringbuffer_len(fifo)))
        /\ count' = min(n, ringbuffer_len(fifo))
    BY <1>1, <1>3, PeekIsPrefix DEF OutPeek, Returns
  <2>3. BQ!Peek(n)
    BY <1>2, <2>1, <2>2 DEF BQ!Peek, BQ!Returns
  <2> QED
    BY <1>1, <1>2, <2>3 DEF BQ!Next
<1>4. CASE ringbuffer_len(fifo) > 0 /\ PeekByte
  <2>1. BQ!Least(1, Len(c)) = 1
    BY <1>1, <1>4 DEF BQ!Least
  <2>2. got' = SubSeq(c, 1, 1) /\ count' = 1
    BY <1>4, PeekByteIsFirst DEF PeekByte, Returns
  <2>3. BQ!Peek(1)
    BY <1>2, <2>1, <2>2 DEF BQ!Peek, BQ!Returns
  <2> QED
    BY <1>1, <1>2, <2>3 DEF BQ!Next
<1>5. CASE PeekLen
  <2>1. got' = << >> /\ count' = Len(c)
    BY <1>1, <1>5 DEF PeekLen, Returns, ringbuffer_peek_len
  <2> QED
    BY <1>2, <2>1 DEF BQ!Next, BQ!Length, BQ!Returns
<1> QED
  BY <1>3, <1>4, <1>5

(* ringbuffer_out_byte takes the oldest byte of a ring that has one. *)
LEMMA OutByteTakes ==
  ASSUME Held(fifo), ringbuffer_len(fifo) > 0, OutByte
  PROVE  Held(fifo') /\ BQ!Next
<1> DEFINE x == Wrap(fifo.out + 1)
           c == Contents(fifo)
<1>1. /\ ringbuffer_len(fifo) \in Nat /\ 1 <= ringbuffer_len(fifo)
      /\ fifo.out \in Nat /\ fifo.out <= Size /\ Size \in Nat /\ 2 <= Size
      /\ Len(c) = ringbuffer_len(fifo)
  BY HeldLen, HeldType, HeldContents
<1>2. fifo' = [fifo EXCEPT !.out = x]
  BY DEF OutByte, ringbuffer_out_byte
<1>3. got' = SubSeq(c, 1, 1) /\ count' = 1
  BY PeekByteIsFirst DEF OutByte, Returns
<1> HIDE DEF c
<1>4. /\ x \in Nat /\ x <= Size
      /\ x = fifo.out + 1 \/ x = fifo.out + 1 - Size
  BY <1>1 DEF Wrap, mask
<1> HIDE DEF x
<1>5. Held(fifo') /\ Contents(fifo') = SubSeq(c, 1 + 1, Len(c))
  BY <1>1, <1>2, <1>4, OutMoves DEF c
<1>6. BQ!Least(1, Len(c)) = 1 /\ 1 \in 0 .. Size + 1
  BY <1>1 DEF BQ!Least
<1>7. BQ!Take(1)
  BY <1>3, <1>5, <1>6 DEF BQ!Take, BQ!Returns, c
<1> QED
  BY <1>5, <1>6, <1>7 DEF BQ!Next

(* ringbuffer_skip drops the oldest byte, if there is one. *)
LEMMA SkipDrops ==
  ASSUME Held(fifo), fifo.out \in Slots, Skip
  PROVE  Held(fifo') /\ BQ!Next
<1> DEFINE c == Contents(fifo)
<1>1. /\ ringbuffer_len(fifo) \in Nat /\ fifo.out \in Nat /\ fifo.out < Size
      /\ Size \in Nat
      /\ c \in Seq(Byte) /\ Len(c) = ringbuffer_len(fifo)
  BY HeldLen, HeldType, HeldContents DEF Slots
<1>2. got' = << >> /\ count' = 0
  BY DEF Skip, Returns
<1>3. CASE ringbuffer_len(fifo) > 0
  <2>1. fifo' = [fifo EXCEPT !.out = fifo.out + 1]
    BY <1>3 DEF Skip, ringbuffer_skip, Held, Rings
  <2>2. 1 <= ringbuffer_len(fifo) /\ fifo.out + 1 \in Nat /\ fifo.out + 1 <= Size
    BY <1>1, <1>3
  <2>3. /\ Held([fifo EXCEPT !.out = fifo.out + 1])
        /\ Contents([fifo EXCEPT !.out = fifo.out + 1]) =
             SubSeq(Contents(fifo), 1 + 1, Len(Contents(fifo)))
    BY <2>2, OutMoves
  <2>4. c # << >>
    BY <1>1, <1>3, EmptySeq
  <2>5. Tail(c) = SubSeq(c, 1 + 1, Len(c))
    BY <1>1, <2>4
  <2>6. Contents(fifo') = Tail(c)
    BY <2>1, <2>3, <2>5
  <2> QED
    BY <1>2, <2>1, <2>3, <2>4, <2>6 DEF BQ!Next, BQ!Drop, BQ!Returns
<1>4. CASE ~(ringbuffer_len(fifo) > 0)
  <2>1. fifo' = fifo
    BY <1>4 DEF Skip, ringbuffer_skip
  <2>2. Len(c) = 0
    BY <1>1, <1>4
  <2>3. c = << >>
    BY <1>1, <2>2, EmptySeq
  <2> QED
    BY <1>2, <2>1, <2>3 DEF BQ!Next, BQ!Drop, BQ!Returns
<1> QED
  BY <1>3, <1>4

(* ringbuffer_init and ringbuffer_reset give the empty queue. *)
LEMMA FreshIsEmpty ==
  /\ Held(ringbuffer_init) /\ Contents(ringbuffer_init) = << >>
  /\ \A f : Held(f) => /\ Held(ringbuffer_reset(f))
                       /\ Contents(ringbuffer_reset(f)) = << >>
<1>1. 0 \in Slots /\ 0 \in Nat /\ 0 <= Size
  BY RingAssumption DEF Slots
<1>2. /\ Held(ringbuffer_init)
      /\ ringbuffer_init.in = 0 /\ ringbuffer_init.out = 0
  BY <1>1, RingAssumption DEF Held, Rings, ringbuffer_init
<1>3. ASSUME NEW f, Held(f)
      PROVE  /\ Held(ringbuffer_reset(f))
             /\ ringbuffer_reset(f).in = 0 /\ ringbuffer_reset(f).out = 0
  BY <1>1, <1>3 DEF Held, Rings, ringbuffer_reset
<1>4. Contents(ringbuffer_init) = << >>
  BY <1>2, EmptyRing
<1>5. ASSUME NEW f, Held(f) PROVE Contents(ringbuffer_reset(f)) = << >>
  BY <1>3, <1>5, EmptyRing
<1> QED
  BY <1>2, <1>3, <1>4, <1>5

(* Every call of the disciplined caller keeps the ring one it may hold, and *)
(* is a call of the queue.                                                  *)
LEMMA RoomStep ==
  ASSUME Wide, Held(fifo), RoomNext
  PROVE  Held(fifo') /\ BQ!Next
<1>1. ASSUME NEW buf \in Buffers, HasRoom(Len(buf)), In(buf)
      PROVE  Held(fifo') /\ BQ!Next
  <2>1. buf \in Seq(Byte)
    BY UseAssumption DEF Buffers
  <2>2. /\ fifo' = ringbuffer_in(fifo, buf)
        /\ got' = << >> /\ count' = ringbuffer_len(fifo')
    BY <1>1 DEF In, Returns, ringbuffer_in_ret
  <2> QED
    BY <1>1, <2>1, <2>2, InPuts
<1>2. ASSUME NEW b \in Byte, HasRoom(1), InByte(b)
      PROVE  Held(fifo') /\ BQ!Next
  <2>1. <<b>> \in Seq(Byte) /\ Len(<<b>>) = 1
    OBVIOUS
  <2>2. ringbuffer_len(fifo) + 1 < Size
    BY <1>2, HeldLen, HeldType DEF HasRoom
  <2>3. /\ fifo' = ringbuffer_in(fifo, <<b>>)
        /\ got' = << >> /\ count' = ringbuffer_len(fifo')
    BY <1>2, <2>2, InByteIsIn DEF InByte, Returns
  <2> QED
    BY <1>2, <2>1, <2>3, InPuts
<1>3. ASSUME NEW n \in 0 .. MaxOut, Out(n) \/ OutPeek(n)
      PROVE  Held(fifo') /\ BQ!Next
  BY <1>3, OutTakes, LooksOnly
<1>4. CASE ringbuffer_len(fifo) > 0 /\ (OutByte \/ PeekByte)
  <2>1. 0 \in 0 .. MaxOut
    BY UseAssumption
  <2> QED
    BY <1>4, <2>1, OutByteTakes, LooksOnly
<1>5. CASE PeekLen
  <2>1. 0 \in 0 .. MaxOut
    BY UseAssumption
  <2> QED
    BY <1>5, <2>1, LooksOnly
<1>6. CASE Reset
  <2>1. Held(fifo') /\ Contents(fifo') = << >>
    BY <1>6, FreshIsEmpty DEF Reset
  <2>2. got' = << >> /\ count' = 0
    BY <1>6 DEF Reset, Returns
  <2> QED
    BY <2>1, <2>2 DEF BQ!Next, BQ!Clear, BQ!Returns
<1>7. CASE fifo.out \in Slots /\ Skip
  BY <1>7, SkipDrops
<1> QED
  BY <1>1, <1>2, <1>3, <1>4, <1>5, <1>6, <1>7 DEF RoomNext

(* A caller that keeps to the room there is, and reads only what there is,  *)
(* gets from src/ringBuffer.c the queue inc/ringBuffer.h promises: whatever *)
(* the size of the ring, every byte comes out once, in the order it was put *)
(* in, and every call returns the number the queue's call returns.          *)
THEOREM RoomIsQueue ==
  ASSUME Wide
  PROVE  RoomSpec => ImplementsByteQueue
<1>1. Init => Held(fifo) /\ BQ!Init
  BY FreshIsEmpty DEF Init, BQ!Init
<1>2. Held(fifo) /\ [RoomNext]_vars => Held(fifo)' /\ [BQ!Next]_(BQ!vars)
  <2> SUFFICES ASSUME Held(fifo), [RoomNext]_vars
               PROVE  Held(fifo)' /\ [BQ!Next]_(BQ!vars)
    OBVIOUS
  <2>1. CASE RoomNext
    BY <2>1, RoomStep DEF Held
  <2>2. CASE UNCHANGED vars
    BY <2>2 DEF vars, BQ!vars, Held
  <2> QED
    BY <2>1, <2>2
<1> QED
  BY <1>1, <1>2, PTL DEF RoomSpec, ImplementsByteQueue, BQ!Spec
=============================================================================
