------------------------------ MODULE MCYTimer ------------------------------
(* Two timers and a few calls, for TLC. *)
EXTENDS YTimer
=============================================================================
