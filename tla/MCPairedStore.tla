---------------------------- MODULE MCPairedStore ----------------------------
(* Small instances of PairedStore for TLC. *)
EXTENDS PairedStore, TLC

StoreSymmetry == Permutations(Process) \cup Permutations(Device) \cup Permutations(Name)
=============================================================================
