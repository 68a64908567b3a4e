--------------------------- MODULE MCRateLimiter ---------------------------
(* Instances of RateLimiter for TLC: three calls for messages of a channel. *)
EXTENDS RateLimiter

CONSTANTS channels, guilds, one, two, me, messages, a, b, c

MessagesOfOneChannel ==
    [k \in {a, b, c} |-> <<channels, one, messages, IF k = c THEN two ELSE one>>]
==============================================================================
