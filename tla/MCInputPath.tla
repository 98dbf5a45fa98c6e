---------------------------- MODULE MCInputPath ----------------------------
(* Small instances of InputPath for TLC. *)
EXTENDS InputPath
=============================================================================
