---------------------------- MODULE MCMemorySync ----------------------------
(* Model-checking instance of MemorySync. *)
EXTENDS MemorySync
=============================================================================
