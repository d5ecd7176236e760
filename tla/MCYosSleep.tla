----------------------------- MODULE MCYosSleep -----------------------------
(* Sleeping tasks of a small table and ticks of two milliseconds, for TLC. *)
EXTENDS YosSleep
=============================================================================
