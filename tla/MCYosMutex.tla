----------------------------- MODULE MCYosMutex -----------------------------
(* One mutex and the tasks of a small table, for TLC. *)
EXTENDS YosMutex
=============================================================================
