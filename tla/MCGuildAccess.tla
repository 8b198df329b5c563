---------------------------- MODULE MCGuildAccess ----------------------------
(* GuildAccess on small instances, for TLC. *)
EXTENDS GuildAccess
==============================================================================
