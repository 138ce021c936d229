------------------------ MODULE MCCompressionGuards ------------------------
(* Instances of CompressionGuards for TLC. *)
EXTENDS CompressionGuards
=============================================================================
