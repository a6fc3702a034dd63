-------------------------- MODULE RingBufferLemmas --------------------------
(***************************************************************************)
(* Facts about the operators of RingBuffer, for rings of every size.        *)
(***************************************************************************)
EXTENDS RingBuffer, TLAPS

(* a ring between two calls of a caller that does not use ringbuffer_skip   *)
Sound(fifo) == fifo \in Rings /\ fifo.in \in Slots /\ fifo.out \in Slots

(* ringbuffer_init yields an empty ring. *)
LEMMA InitSound == Sound(ringbuffer_init) /\ ringbuffer_len(ringbuffer_init) = 0
BY RingAssumption DEF Sound, ringbuffer_init, ringbuffer_len, Rings, Slots

(* ringbuffer_reset too, whatever the ring was. *)
LEMMA ResetSound ==
  ASSUME NEW fifo \in Rings
  PROVE  /\ Sound(ringbuffer_reset(fifo))
         /\ ringbuffer_reset(fifo).in = 0 /\ ringbuffer_reset(fifo).out = 0
<1>1. 0 \in Slots
  BY RingAssumption DEF Slots
<1>2. ringbuffer_reset(fifo) = [fifo EXCEPT !.in = 0, !.out = 0]
  BY DEF ringbuffer_reset
<1>3. [fifo EXCEPT !.in = 0, !.out = 0] \in Rings
  BY DEF Rings
<1> QED
  BY <1>1, <1>2, <1>3 DEF Sound, Rings

(* A ring never reports more than Size - 1 used bytes. *)
LEMMA LenBound ==
  ASSUME NEW fifo, Sound(fifo)
  PROVE  ringbuffer_len(fifo) \in 0 .. Size - 1
BY RingAssumption DEF Sound, ringbuffer_len, Slots, mask, Rings

(* What ringbuffer_unused returns: the free bytes while in >= out, and Size *)
(* bytes too many once the ring has wrapped.                                *)
LEMMA UnusedValue ==
  ASSUME NEW fifo, Sound(fifo)
  PROVE  ringbuffer_unused(fifo) =
           IF fifo.in >= fifo.out THEN Size - (fifo.in - fifo.out)
                                  ELSE Size + (fifo.out - fifo.in)
BY RingAssumption DEF Sound, ringbuffer_unused, UnsignedSub, Slots, Rings

(* The room ringbuffer_in is held to never carries `in' past Size + out. *)
LEMMA UnusedBound ==
  ASSUME NEW fifo, Sound(fifo)
  PROVE  /\ ringbuffer_unused(fifo) \in 1 .. 2 * Size - 1
         /\ fifo.in + ringbuffer_unused(fifo) <= Size + fifo.out
<1>1. fifo.in \in Slots /\ fifo.out \in Slots
  BY DEF Sound
<1> QED
  BY <1>1, UnusedValue, RingAssumption DEF Slots

(* Wrap brings a position less than two turns on back into rdata. *)
LEMMA WrapInSlots ==
  ASSUME NEW x \in Nat, x < 2 * Size
  PROVE  Wrap(x) \in Slots
BY RingAssumption DEF Wrap, Slots, mask

(* ringbuffer_copy_in reads only the len bytes it was given. *)
LEMMA CopyInType ==
  ASSUME NEW fifo, Sound(fifo),
         NEW src \in Seq(Byte), NEW len \in 0 .. Len(src)
  PROVE  ringbuffer_copy_in(fifo, src, len, fifo.in) \in [Slots -> Byte]
<1> DEFINE slen == min(len, Size - fifo.in)
<1>1. fifo.in \in 0 .. Size - 1 /\ fifo.rdata \in [Slots -> Byte]
      /\ Len(src) \in Nat
  BY DEF Sound, Rings, Slots
<1>2. slen \in 0 .. len
  BY <1>1, RingAssumption DEF min
<1> SUFFICES ASSUME NEW i \in Slots
             PROVE  (IF i < len - slen THEN src[slen + i + 1]
                     ELSE IF fifo.in <= i /\ i < fifo.in + slen
                            THEN src[i - fifo.in + 1]
                     ELSE fifo.rdata[i]) \in Byte
  BY DEF ringbuffer_copy_in
<1>3. i \in Nat
  BY RingAssumption DEF Slots
<1>4. i < len - slen => slen + i + 1 \in 1 .. Len(src)
  BY <1>1, <1>2, <1>3
<1>5. fifo.in <= i /\ i < fifo.in + slen => i - fifo.in + 1 \in 1 .. Len(src)
  BY <1>1, <1>2, <1>3
<1>6. \A k \in 1 .. Len(src) : src[k] \in Byte
  OBVIOUS
<1> HIDE DEF slen
<1> QED
  BY <1>1, <1>4, <1>5, <1>6

(* ringbuffer_in leaves a sound ring, whatever it is asked to store. *)
LEMMA InSound ==
  ASSUME NEW fifo, Sound(fifo), NEW buf \in Seq(Byte)
  PROVE  /\ Sound(ringbuffer_in(fifo, buf))
         /\ ringbuffer_in(fifo, buf).out = fifo.out
<1> DEFINE len == min(Len(buf), ringbuffer_unused(fifo))
<1>1. /\ ringbuffer_unused(fifo) \in Nat
      /\ fifo.in + ringbuffer_unused(fifo) <= Size + fifo.out
  BY UnusedBound, RingAssumption
<1>2. len \in 0 .. Len(buf) /\ len <= ringbuffer_unused(fifo)
  BY <1>1 DEF min
<1>3. fifo.in \in Slots /\ fifo.out \in Slots /\ fifo \in Rings
  BY DEF Sound
<1> HIDE DEF len
<1>4. Wrap(fifo.in + len) \in Slots
  <2>1. fifo.in + len \in Nat /\ fifo.in + len < 2 * Size
    BY <1>1, <1>2, <1>3, RingAssumption DEF Slots
  <2> QED
    BY <2>1, WrapInSlots
<1>5. ringbuffer_copy_in(fifo, buf, len, fifo.in) \in [Slots -> Byte]
  BY <1>2, CopyInType
<1>6. ringbuffer_in(fifo, buf) =
        [fifo EXCEPT !.in = Wrap(fifo.in + len),
                     !.rdata = ringbuffer_copy_in(fifo, buf, len, fifo.in)]
  BY DEF ringbuffer_in, len
<1>7. Slots \subseteq Nat
  BY RingAssumption DEF Slots
<1> QED
  BY <1>3, <1>4, <1>5, <1>6, <1>7 DEF Sound, Rings

(* What does not reach the end of the array is stored completely and in one *)
(* piece: ringbuffer_in then returns the length it promises.                *)
LEMMA InWithoutWrap ==
  ASSUME NEW fifo, Sound(fifo), fifo.out = 0,
         NEW buf \in Seq(Byte), fifo.in + Len(buf) <= mask
  PROVE  /\ ringbuffer_in(fifo, buf).in = fifo.in + Len(buf)
         /\ ringbuffer_in_ret(fifo, buf) = fifo.in + Len(buf)
<1>1. fifo.in \in Nat /\ fifo \in Rings /\ Len(buf) \in Nat
  BY RingAssumption DEF Sound, Rings
<1>2. ringbuffer_unused(fifo) = Size - fifo.in
  BY <1>1, UnusedValue
<1>3. min(Len(buf), ringbuffer_unused(fifo)) = Len(buf)
  BY <1>1, <1>2, RingAssumption DEF min, mask
<1>4. Wrap(fifo.in + Len(buf)) = fifo.in + Len(buf)
  BY <1>1, RingAssumption DEF Wrap, mask
<1>5. ringbuffer_in(fifo, buf).in = fifo.in + Len(buf)
  BY <1>1, <1>3, <1>4 DEF ringbuffer_in, Rings
<1>6. ringbuffer_in(fifo, buf).out = 0
  BY InSound
<1> QED
  BY <1>1, <1>5, <1>6 DEF ringbuffer_in_ret, ringbuffer_len

(* ringbuffer_out takes no more than there is. *)
LEMMA OutSound ==
  ASSUME NEW fifo, Sound(fifo), NEW len \in Nat
  PROVE  Sound(ringbuffer_out(fifo, len))
<1>1. fifo.in \in Slots /\ fifo.out \in Slots /\ fifo \in Rings
  BY DEF Sound
<1>2. min(len, ringbuffer_len(fifo)) \in 0 .. Size - 1
  BY LenBound, RingAssumption DEF min
<1>3. Wrap(fifo.out + min(len, ringbuffer_len(fifo))) \in Slots
  BY <1>1, <1>2, WrapInSlots, RingAssumption DEF Slots
<1>4. Slots \subseteq Nat
  BY RingAssumption DEF Slots
<1> QED
  BY <1>1, <1>3, <1>4 DEF Sound, Rings, ringbuffer_out
=============================================================================
