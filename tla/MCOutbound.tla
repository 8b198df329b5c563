------------------------------ MODULE MCOutbound ------------------------------
(* Outbound on small instances, for TLC. *)
EXTENDS Outbound
==============================================================================
