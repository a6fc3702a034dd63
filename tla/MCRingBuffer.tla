---------------------------- MODULE MCRingBuffer ----------------------------
(* Small instances of RingBufferUse: an 8-bit rbUint, bytes 0 and 1. *)
EXTENDS RingBufferUse

MCWord == 256
MCByte == {0, 1}
MCWild == -1
=============================================================================
