------------------------------ MODULE MCYUsart ------------------------------
(* Two tasks and a small receive buffer, for TLC. *)
EXTENDS YUsart
=============================================================================
