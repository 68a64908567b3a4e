----------------------------- MODULE RouteKeys -----------------------------
(***************************************************************************)
(* How the limiter groups requests into routes: collapse_major_params      *)
(* (core/src/ratelimit.rs) reduces a path, split at its slashes, to the    *)
(* key its bucket is filed under.                                          *)
(*                                                                         *)
(* A path is a sequence of segments, each a major family, a snowflake (all *)
(* digits) or another literal.  MaxLen bounds the paths the properties are *)
(* checked for.                                                            *)
(***************************************************************************)
EXTENDS Naturals, Sequences

CONSTANTS
    Major,        \* "channels", "guilds", "webhooks"
    Snowflakes,   \* segments of digits only
    Literals,     \* any other segment, "@me" or "messages"
    Id,           \* the ":id" a snowflake collapses to
    MaxLen        \* bound: the length of a path

ASSUME SegmentKinds ==
    /\ Major \cap Snowflakes = {} /\ Major \cap Literals = {} /\ Snowflakes \cap Literals = {}
    /\ Id \notin Major \union Snowflakes \union Literals
    /\ MaxLen \in Nat

Segments == Major \union Snowflakes \union Literals
Paths == UNION {[1..n -> Segments] : n \in 1..MaxLen}

\* A plausible bug: the segment after a major one is collapsed like any other.
BadCollapse(p) ==
    [k \in DOMAIN p |-> IF p[k] \in Snowflakes THEN Id ELSE p[k]]

\* The loop over the segments: a major family keeps the next segment, whatever
\* it is, and the loop skips it; elsewhere a snowflake becomes ":id".
Collapse(p) ==
    LET kept[k \in 0..Len(p)] ==   \* is segment k kept as the id of a major family?
            k > 1 /\ p[k - 1] \in Major /\ ~kept[k - 1]
    IN  [k \in DOMAIN p |-> IF p[k] \in Snowflakes /\ ~kept[k] THEN Id ELSE p[k]]

-----------------------------------------------------------------------------
(* For the properties of RateLimiter.                                      *)

\* p with other snowflakes in the places that are not right behind a major family.
Renamings(p) ==
    {q \in [DOMAIN p -> Segments] : \A k \in DOMAIN p :
        \/ q[k] = p[k]
        \/ {p[k], q[k]} \subseteq Snowflakes /\ (k = 1 \/ p[k - 1] \notin Major)}
=============================================================================
