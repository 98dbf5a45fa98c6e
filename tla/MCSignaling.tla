---------------------------- MODULE MCSignaling ----------------------------
(* Small instances of Signaling for TLC. *)
EXTENDS Signaling, TLC

ViewerSymmetry == Permutations(Viewer)
=============================================================================
