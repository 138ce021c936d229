-------------------------- MODULE MCSequentialTool --------------------------
(* Instances of SequentialTool for TLC. *)
EXTENDS SequentialTool

\* Every way to dispatch a call.
EveryKind == AllKinds

=============================================================================
