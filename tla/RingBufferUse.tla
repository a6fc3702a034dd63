--------------------------- MODULE RingBufferUse ----------------------------
(***************************************************************************)
(* Programs that call the ring of src/ringBuffer.c, one call per step.      *)
(*                                                                         *)
(*   AnySpec   any sequence of calls whatever (ringbuffer_skip excepted):   *)
(*             requests longer than the ring, byte reads of an empty ring   *)
(*   RoomSpec  a caller that never asks for more room than Size - 1 -       *)
(*             ringbuffer_len, never takes a byte from an empty ring and    *)
(*             skips only while `out' is a slot.  For it the ring is the    *)
(*             queue of module ByteQueue.                                   *)
(***************************************************************************)
EXTENDS RingBuffer

CONSTANTS
  MaxIn,   \* longest buffer given to ringbuffer_in
  MaxOut   \* longest read asked of ringbuffer_out and ringbuffer_out_peek

ASSUME UseAssumption == MaxIn \in Nat /\ MaxOut \in 0 .. Size + 1

VARIABLES
  fifo,    \* the struct ringbuffer
  got,     \* the bytes the last call handed over
  count    \* the number the last call returned

vars == <<fifo, got, count>>

Buffers == UNION {[1 .. n -> Byte] : n \in 0 .. MaxIn}

Init == fifo = ringbuffer_init /\ got = << >> /\ count = 0

Returns(bytes, n) == got' = bytes /\ count' = n

In(buf) ==
  /\ fifo' = ringbuffer_in(fifo, buf)
  /\ Returns(<< >>, ringbuffer_in_ret(fifo, buf))

InByte(b) ==
  /\ fifo' = ringbuffer_in_byte(fifo, b)
  /\ Returns(<< >>, ringbuffer_len(fifo'))

Out(n) ==
  /\ fifo' = ringbuffer_out(fifo, n)
  /\ Returns(ringbuffer_out_peek(fifo, n), min(n, ringbuffer_len(fifo)))

OutPeek(n) ==
  /\ UNCHANGED fifo
  /\ Returns(ringbuffer_out_peek(fifo, n), min(n, ringbuffer_len(fifo)))

OutByte ==
  /\ fifo' = ringbuffer_out_byte(fifo)
  /\ Returns(<<ringbuffer_peek_byte(fifo)>>, 1)

PeekByte ==
  /\ UNCHANGED fifo
  /\ Returns(<<ringbuffer_peek_byte(fifo)>>, 1)

PeekLen == UNCHANGED fifo /\ Returns(<< >>, ringbuffer_peek_len(fifo))

Skip == fifo' = ringbuffer_skip(fifo) /\ Returns(<< >>, 0)

Reset == fifo' = ringbuffer_reset(fifo) /\ Returns(<< >>, 0)

AnyNext ==
  \/ \E buf \in Buffers : In(buf)
  \/ \E b \in Byte : InByte(b)
  \/ \E n \in 0 .. MaxOut : Out(n) \/ OutPeek(n)
  \/ OutByte \/ PeekByte \/ PeekLen \/ Reset

AnySpec == Init /\ [][AnyNext]_vars

HasRoom(n) == n < Size - ringbuffer_len(fifo)

RoomNext ==
  \/ \E buf \in Buffers : HasRoom(Len(buf)) /\ In(buf)
  \/ \E b \in Byte : HasRoom(1) /\ InByte(b)
  \/ \E n \in 0 .. MaxOut : Out(n) \/ OutPeek(n)
  \/ ringbuffer_len(fifo) > 0 /\ (OutByte \/ PeekByte)
  \/ PeekLen \/ Reset
  \/ fifo.out \in Slots /\ Skip

RoomSpec == Init /\ [][RoomNext]_vars

(* the same caller, except that it skips whenever it likes *)
SkipSpec == Init /\ [][RoomNext \/ Skip]_vars

-----------------------------------------------------------------------------

TypeOK ==
  /\ fifo \in Rings
  /\ got \in Seq(Byte \cup {Wild})
  /\ count \in 0 .. Word - 1

(* Whatever the caller asks for, both positions stay inside rdata between   *)
(* calls: the wrap by subtraction at the end of ringbuffer_in, _out and the *)
(* byte calls is enough although `unused' is wrong once in < out.           *)
IndicesInBounds == fifo.in \in Slots /\ fifo.out \in Slots

(* The two memcpy of ringbuffer_copy_in for the next ringbuffer_in: neither *)
(* runs past the end of rdata, for a request of any length.                 *)
CopyFits(len) ==
  LET slen == min(len, Size - fifo.in)
  IN fifo.in + slen <= Size /\ len - slen <= Size
CopiesInBounds ==
  \A n \in 0 .. 2 * Size + 1 : CopyFits(min(n, ringbuffer_unused(fifo)))

(* No call hands the caller a byte from outside rdata, whatever it asked    *)
(* for before.                                                              *)
NoWildRead == Wild \notin {got[i] : i \in 1 .. Len(got)}

(* The disciplined caller gets the queue of ByteQueue: bytes come out once, *)
(* in the order they were put in, whatever wraps around in between.         *)
BQ == INSTANCE ByteQueue WITH q <- Contents(fifo)
ImplementsByteQueue == BQ!Spec

-----------------------------------------------------------------------------
(* What a comment of src/ringBuffer.c says, on every ring a caller can hold *)

(* ringBuffer.c:79 "skip output data": a skip removes the oldest byte of a  *)
(* non-empty ring and nothing else.  (The skip at the last slot still does, *)
(* `out' is then Size; the one after it takes `out' out of reach.)          *)
SkipDropsOne ==
  ringbuffer_len(fifo) > 0 =>
     Contents(ringbuffer_skip(fifo)) = Tail(Contents(fifo))
=============================================================================
