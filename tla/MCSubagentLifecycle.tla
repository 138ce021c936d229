----------------------- MODULE MCSubagentLifecycle -----------------------
(* Model-checking instance of SubagentLifecycle. *)
EXTENDS SubagentLifecycle
=============================================================================
