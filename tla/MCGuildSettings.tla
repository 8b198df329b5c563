--------------------------- MODULE MCGuildSettings ---------------------------
(* GuildSettings on small instances, for TLC. *)
EXTENDS GuildSettings
==============================================================================
