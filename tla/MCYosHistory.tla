---------------------------- MODULE MCYosHistory ----------------------------
(* The observed kernel on a table of four tasks, for TLC. *)
EXTENDS YosHistory
=============================================================================
