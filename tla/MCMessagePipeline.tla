-------------------------- MODULE MCMessagePipeline --------------------------
(* MessagePipeline on small instances, for TLC. *)
EXTENDS MessagePipeline
==============================================================================
