---------------------------- MODULE MCCompaction ----------------------------
(* Instances of Compaction for TLC: one conversation of a few rows, small   *)
(* head, tail and budget.                                                   *)
EXTENDS Compaction
=============================================================================
