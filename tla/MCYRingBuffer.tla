--------------------------- MODULE MCYRingBuffer ----------------------------
(* A ring buffer of a few bytes and calls longer than it, for TLC. *)
EXTENDS YRingBuffer
=============================================================================
