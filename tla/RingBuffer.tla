----------------------------- MODULE RingBuffer -----------------------------
(***************************************************************************)
(* The byte ring of src/ringBuffer.c.  A `struct ringbuffer` is a record    *)
(* [in, out, rdata]; its mask is Size - 1 from ringbuffer_init on.  Every   *)
(* operator below is one C function: it takes the ring and returns the new  *)
(* ring, and an operator named ..._ret returns what the function returns.   *)
(*                                                                         *)
(* `in' and `out' are positions, not running counters: an operation that   *)
(* moves one past the mask subtracts Size again.  A ring is therefore empty *)
(* exactly when in = out, and it cannot hold Size bytes.                    *)
(***************************************************************************)
EXTENDS Integers, Sequences

CONSTANTS
  Size,    \* bytes in rdata: mask + 1
  Word,    \* 2^w, w the width of rbUint (unsigned int)
  Byte,    \* the byte values that are told apart
  Nul,     \* the byte a zero-initialised rdata is full of
  Wild     \* what a read outside rdata yields

ASSUME RingAssumption ==
  /\ Size \in Nat /\ Size >= 2
  /\ Word \in Nat /\ 2 * Size <= Word
  /\ Nul \in Byte
  /\ Wild \notin Byte

Slots == 0 .. Size - 1
mask == Size - 1

(* The rings an API caller can hold; `out' may reach Size, and go past it,  *)
(* through ringbuffer_skip, which does not wrap it.                         *)
Rings == [in : Nat, out : Nat, rdata : [Slots -> Byte]]

min(x, y) == IF x > y THEN y ELSE x

(* x - y in rbUint arithmetic, for x, y \in 0 .. Word - 1 *)
UnsignedSub(x, y) == IF x >= y THEN x - y ELSE x - y + Word

(* if(fifo->in > fifo->mask) fifo->in -= fifo->mask+1; the same for out *)
Wrap_None(x) == x
Wrap(x) == IF x > mask THEN x - Size ELSE x

ReadAt(fifo, i) == IF i \in Slots THEN fifo.rdata[i] ELSE Wild

-----------------------------------------------------------------------------

ringbuffer_init == [in |-> 0, out |-> 0, rdata |-> [i \in Slots |-> Nul]]

ringbuffer_reset(fifo) == [fifo EXCEPT !.in = 0, !.out = 0]

ringbuffer_unused_Swapped(fifo) ==
  UnsignedSub(Size, UnsignedSub(fifo.out, fifo.in))
ringbuffer_unused(fifo) ==
  UnsignedSub(Size, UnsignedSub(fifo.in, fifo.out))

ringbuffer_len_NoWrap(fifo) == fifo.in - fifo.out
ringbuffer_len(fifo) ==
  IF fifo.in >= fifo.out THEN fifo.in - fifo.out
                         ELSE fifo.in + mask + 1 - fifo.out

ringbuffer_peek_len(fifo) == ringbuffer_len(fifo)

(* The two memcpy of ringbuffer_copy_in put src[1 .. len] at off and, past  *)
(* the end, at 0; the second is the later one, so it wins an overlap.       *)
ringbuffer_copy_in(fifo, src, len, off) ==
  LET slen == min(len, Size - off)
  IN [i \in Slots |->
        IF i < len - slen THEN src[slen + i + 1]
        ELSE IF off <= i /\ i < off + slen THEN src[i - off + 1]
        ELSE fifo.rdata[i]]

ringbuffer_copy_out_NoSplit(fifo, len, off) ==
  [k \in 1 .. len |-> ReadAt(fifo, off + k - 1)]
ringbuffer_copy_out(fifo, len, off) ==
  LET slen == min(len, UnsignedSub(Size, off))
  IN [k \in 1 .. len |-> ReadAt(fifo, IF k <= slen THEN off + k - 1
                                                   ELSE k - slen - 1)]

(* ringbuffer_in clamps the length to `unused' and returns ringbuffer_len,  *)
(* not the number of bytes it copied.                                       *)
ringbuffer_in_FromStart(fifo, buf) ==
  LET len == min(Len(buf), ringbuffer_unused(fifo))
  IN [fifo EXCEPT !.in = Wrap(fifo.in + len),
                  !.rdata = ringbuffer_copy_in(fifo, buf, len, 0)]
ringbuffer_in(fifo, buf) ==
  LET len == min(Len(buf), ringbuffer_unused(fifo))
  IN [fifo EXCEPT !.in = Wrap(fifo.in + len),
                  !.rdata = ringbuffer_copy_in(fifo, buf, len, fifo.in)]

ringbuffer_in_ret(fifo, buf) == ringbuffer_len(ringbuffer_in(fifo, buf))

ringbuffer_in_byte(fifo, dbyte) ==
  LET p == IF min(1, Size - fifo.in) > 0 THEN fifo.in ELSE 0
  IN [fifo EXCEPT !.in = Wrap(fifo.in + 1),
                  !.rdata = IF ringbuffer_unused(fifo) > 0
                              THEN [@ EXCEPT ![p] = dbyte] ELSE @]

(* the bytes ringbuffer_out_peek copies; it returns their number *)
ringbuffer_out_peek(fifo, len) ==
  ringbuffer_copy_out(fifo, min(len, ringbuffer_len(fifo)), fifo.out)

ringbuffer_out(fifo, len) ==
  [fifo EXCEPT !.out = Wrap(fifo.out + min(len, ringbuffer_len(fifo)))]

ringbuffer_peek_byte(fifo) ==
  ReadAt(fifo, IF min(1, UnsignedSub(Size, fifo.out)) > 0 THEN fifo.out ELSE 0)

ringbuffer_out_byte(fifo) == [fifo EXCEPT !.out = Wrap(fifo.out + 1)]

ringbuffer_skip(fifo) ==
  IF ringbuffer_len(fifo) > 0 THEN [fifo EXCEPT !.out = @ + 1] ELSE fifo

(* what the ring holds, oldest byte first *)
Contents(fifo) == ringbuffer_out_peek(fifo, ringbuffer_len(fifo))
=============================================================================
