----------------------------- MODULE ByteQueue ------------------------------
(***************************************************************************)
(* What inc/ringBuffer.h promises its caller: a first-in first-out queue of *)
(* bytes that holds fewer than Size of them.  `got' is what the last call   *)
(* handed to its caller and `count' the number it returned.                 *)
(***************************************************************************)
EXTENDS Integers, Sequences

CONSTANTS
  Size,    \* one more than the bytes the queue can hold
  Byte     \* the bytes

VARIABLES q, got, count

vars == <<q, got, count>>

Init == q = << >> /\ got = << >> /\ count = 0

Returns(bytes, n) == got' = bytes /\ count' = n

Least(x, y) == IF x < y THEN x ELSE y

(* ringbuffer_in, ringbuffer_in_byte: append all of s; the return value is  *)
(* the new length                                                           *)
Put(s) ==
  /\ Len(q) + Len(s) < Size
  /\ q' = q \o s
  /\ Returns(<< >>, Len(q'))

(* ringbuffer_out, ringbuffer_out_byte, ringbuffer_skip *)
Take(n) ==
  LET k == Least(n, Len(q))
  IN /\ q' = SubSeq(q, k + 1, Len(q))
     /\ Returns(SubSeq(q, 1, k), k)

Drop ==
  /\ q' = IF q = << >> THEN q ELSE Tail(q)
  /\ Returns(<< >>, 0)

(* ringbuffer_out_peek, ringbuffer_peek_byte, ringbuffer_len *)
Peek(n) ==
  LET k == Least(n, Len(q))
  IN UNCHANGED q /\ Returns(SubSeq(q, 1, k), k)

Length == UNCHANGED q /\ Returns(<< >>, Len(q))

Clear == q' = << >> /\ Returns(<< >>, 0)

Next ==
  \/ \E n \in 0 .. Size - 1 : \E s \in [1 .. n -> Byte] : Put(s)
  \/ \E n \in 0 .. Size + 1 : Take(n) \/ Peek(n)
  \/ Drop \/ Length \/ Clear

Spec == Init /\ [][Next]_vars
=============================================================================
