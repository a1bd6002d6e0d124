---------------------------- MODULE MCByteQueue ----------------------------
(* ByteQueue for TLC: two byte values and a ring of a few slots, small enough *)
(* for every position of the head, with writes longer than the ring.          *)
EXTENDS ByteQueue
=============================================================================
