------------------------ MODULE MCLazySubscriptions ------------------------
(* Instances of LazySubscriptions for TLC: one big guild, as the requests of *)
(* different guilds do not affect each other.                                *)
EXTENDS LazySubscriptions

CONSTANT big

OneGuild == {big}
==============================================================================
