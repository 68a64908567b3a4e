-------------------------- MODULE LazySubscriptions --------------------------
(***************************************************************************)
(* Guild and member-list subscriptions (op 14 LAZY_REQUEST), from the      *)
(* frontend to the server: GuildsStore.subscribeMemberRanges, the member   *)
(* list's onScroll and the places that call subscribeGuild (web/src); the  *)
(* commands on their way (CommandPump); Subscriptions and its replay in    *)
(* core/src/gateway.rs; and the server, external, which may or may not     *)
(* restore subscriptions when a session resumes.                           *)
(*                                                                         *)
(* A range is the set of the member indices in it.  The merged ranges of   *)
(* mergeRanges are disjoint and not adjacent, so that a new range lies in  *)
(* one of them exactly when it is a subset of their union.                 *)
(***************************************************************************)
EXTENDS Naturals, Sequences, FiniteSets

CONSTANTS
  Guilds,
  BigGuilds,    \* those with BIG_GUILD_THRESHOLD members or more
  MemberCount,  \* members of a big guild
  Page,         \* indices of one range (100 in the code)
  ServerAdds,   \* whether ranges add to the earlier ones or take their place
  MaxSelects,   \* bound: calls of selectGuild for each guild
  MaxDrops      \* bound: lost connections

ASSUME SubscriptionConstants ==
  /\ IsFiniteSet(Guilds) /\ BigGuilds \subseteq Guilds
  /\ Page \in Nat \ {0} /\ MemberCount \in Nat /\ MemberCount > Page
  /\ ServerAdds \in BOOLEAN
  /\ MaxSelects \in Nat /\ MaxDrops \in Nat

VARIABLES
  \* the frontend
  covered,   \* subscribedRangesByGuild
  members,   \* guilds in membersByGuild
  asked,     \* observer: guilds subscribeGuild was called for
  selects,
  \* on the way
  flight,    \* commands invoked and not yet in a channel, in no order
  queue,     \* the command channels
  \* the core
  guilds, ranges,   \* Subscriptions
  conn,      \* "down", "up", or "half": the other end is gone
  wire,      \* messages on their way to the server
  drops,
  \* the server
  view       \* view[g]: what it serves of guild g

frontVars == <<covered, members, asked, selects>>
coreVars  == <<guilds, ranges>>
vars == <<frontVars, flight, queue, coreVars, conn, wire, drops, view>>

Indices == 0..(MemberCount - 1)
Full(g)      == [guild |-> g, ranges |-> {}]     \* SubscribeGuild
Ranged(g, r) == [guild |-> g, ranges |-> r]      \* SubscribeRanges
Requests == [guild : Guilds, ranges : SUBSET Indices]
Unserved == [active |-> FALSE, full |-> FALSE, ranges |-> {}]

-----------------------------------------------------------------------------
(* The frontend. *)

\* Bad definitions are slips the code could have, each beside what it would replace.
BadMemberRanges(g, r) ==   \* the end of a range taken for exclusive
  IF r \subseteq covered[g] THEN {}
  ELSE {Ranged(g, {i \in r : \E j \in r : i < j})} \cap {Ranged(g, s) : s \in SUBSET r \ {{}}}

\* subscribeMemberRanges sends the range unless it is covered already.
MemberRanges(g, r) == IF r \subseteq covered[g] THEN {} ELSE {Ranged(g, r)}

Cover(g, r) == covered' = [covered EXCEPT ![g] = @ \cup r]

\* loadMembers of a big guild whose members were not loaded asks for the
\* first range.
SelectGuild(g) ==
  /\ selects[g] < MaxSelects
  /\ selects' = [selects EXCEPT ![g] = @ + 1]
  /\ asked' = asked \cup {g}
  /\ IF g \in BigGuilds /\ g \notin members
     THEN /\ flight' = flight \cup {Full(g)} \cup MemberRanges(g, 0..(Page - 1))
          /\ Cover(g, 0..(Page - 1))
     ELSE flight' = flight \cup {Full(g)} /\ UNCHANGED covered
  /\ UNCHANGED <<members, queue, coreVars, conn, wire, drops, view>>

\* GUILD_CREATE subscribes and may bring members; so may a chunk.
GuildCreate(g) ==
  /\ g \notin members
  /\ members' = members \cup {g}
  /\ asked' = asked \cup {g}
  /\ flight' = flight \cup {Full(g)}
  /\ UNCHANGED <<covered, selects, queue, coreVars, conn, wire, drops, view>>

MembersArrive(g) ==
  /\ g \in BigGuilds /\ g \notin members /\ covered[g] # {}
  /\ members' = members \cup {g}
  /\ UNCHANGED <<covered, asked, selects, flight, queue, coreVars, conn, wire, drops, view>>

\* onScroll asks for the page behind the highest index covered, taken as 0
\* when nothing is.
MaxCovered(g) == CHOOSE m \in covered[g] \cup {0} : \A i \in covered[g] : i <= m
BadNextPage(g) ==   \* past the last member
  (MaxCovered(g) + 1)..(MaxCovered(g) + Page)

NextPage(g) == {i \in Indices : i > MaxCovered(g) /\ i <= MaxCovered(g) + Page}

Scroll(g) ==
  /\ g \in BigGuilds /\ selects[g] > 0
  /\ MaxCovered(g) < MemberCount - 1
  /\ flight' = flight \cup MemberRanges(g, NextPage(g))
  /\ Cover(g, NextPage(g))
  /\ UNCHANGED <<members, asked, selects, queue, coreVars, conn, wire, drops, view>>

\* The tasks of the Tauri commands reach the mutex in any order.
Enqueue(c) ==
  /\ c \in flight
  /\ flight' = flight \ {c}
  /\ queue' = Append(queue, c)
  /\ UNCHANGED <<frontVars, coreVars, conn, wire, drops, view>>

-----------------------------------------------------------------------------
(* The core task. *)

BadTrack(c) ==   \* only member ranges are tracked
  IF c.ranges = {} THEN UNCHANGED coreVars
  ELSE ranges' = [ranges EXCEPT ![c.guild] = c.ranges] /\ UNCHANGED guilds

\* guilds keeps no duplicates; insert replaces the guild's earlier ranges.
Track(c) ==
  IF c.ranges = {}
  THEN guilds' = guilds \cup {c.guild} /\ UNCHANGED ranges
  ELSE ranges' = [ranges EXCEPT ![c.guild] = c.ranges] /\ UNCHANGED guilds

\* A send that fails is only logged; the command stays tracked.
RunCommand ==
  /\ conn # "down" /\ queue # <<>>
  /\ Track(Head(queue))
  /\ queue' = Tail(queue)
  /\ wire' = IF conn = "up" THEN Append(wire, Head(queue)) ELSE wire
  /\ UNCHANGED <<frontVars, flight, conn, drops, view>>

BadReplay(w) ==   \* member ranges only
  LET r == {Ranged(g, ranges[g]) : g \in {h \in Guilds : ranges[h] # {}}}
  IN  w \in [1..Cardinality(r) -> r] /\ \A c \in r : \E i \in 1..Len(w) : w[i] = c

\* The replay of a new connection: every tracked guild in the order of the
\* vector, then every guild's ranges in the order of the hash map.  Requests
\* of different guilds do not affect each other, so any order stands for it.
Replay(w) ==
  LET r == {Ranged(g, ranges[g]) : g \in {h \in Guilds : ranges[h] # {}}}
      n == Cardinality(guilds)
  IN  /\ w \in [1..(n + Cardinality(r)) -> {Full(g) : g \in guilds} \cup r]
      /\ \A g \in guilds : \E i \in 1..n : w[i] = Full(g)
      /\ \A c \in r : \E i \in (n + 1)..Len(w) : w[i] = c

\* connect, HELLO, IDENTIFY or RESUME.  A new session starts unserved, and a
\* resumed one may.
Connect ==
  /\ conn = "down"
  /\ conn' = "up"
  /\ Replay(wire')
  /\ \/ view' = [g \in Guilds |-> Unserved]
     \/ UNCHANGED view
  /\ UNCHANGED <<frontVars, flight, queue, coreVars, drops>>

\* The connection is gone; the task notices later.
Break ==
  /\ conn = "up" /\ drops < MaxDrops
  /\ drops' = drops + 1
  /\ conn' = "half" /\ wire' = <<>>
  /\ UNCHANGED <<frontVars, flight, queue, coreVars, view>>

Notice ==
  /\ conn = "half"
  /\ conn' = "down"
  /\ UNCHANGED <<frontVars, flight, queue, coreVars, wire, drops, view>>

-----------------------------------------------------------------------------
(* The server (external). *)

Serve ==
  /\ conn = "up" /\ wire # <<>>
  /\ LET c == Head(wire)
     IN  view' = [view EXCEPT ![c.guild] =
           [active |-> TRUE, full |-> c.ranges = {},
            ranges |-> IF c.ranges = {} \/ ServerAdds THEN @.ranges \cup c.ranges
                       ELSE c.ranges]]
  /\ wire' = Tail(wire)
  /\ UNCHANGED <<frontVars, flight, queue, coreVars, conn, drops>>

-----------------------------------------------------------------------------
\* applyLoginResult has subscribed to every guild the account is in.
Init ==
  /\ covered = [g \in Guilds |-> {}] /\ members = {} /\ asked = Guilds
  /\ selects = [g \in Guilds |-> 0]
  /\ flight = {Full(g) : g \in Guilds} /\ queue = <<>>
  /\ guilds = {} /\ ranges = [g \in Guilds |-> {}]
  /\ conn = "down" /\ wire = <<>> /\ drops = 0
  /\ view = [g \in Guilds |-> Unserved]

Next ==
  \/ \E g \in Guilds : SelectGuild(g) \/ GuildCreate(g) \/ MembersArrive(g) \/ Scroll(g)
  \/ \E c \in flight : Enqueue(c)
  \/ RunCommand \/ Connect \/ Break \/ Notice \/ Serve

Spec == Init /\ [][Next]_vars

-----------------------------------------------------------------------------
(* Properties. *)

\* Every variable has its type; the one type invariant of this module.
TypeOK ==
  /\ covered \in [Guilds -> SUBSET Indices]
  /\ members \subseteq Guilds /\ asked \subseteq Guilds
  /\ selects \in [Guilds -> 0..MaxSelects]
  /\ flight \subseteq Requests /\ queue \in Seq(Requests)
  /\ guilds \subseteq Guilds /\ ranges \in [Guilds -> SUBSET Indices]
  /\ conn \in {"down", "up", "half"} /\ wire \in Seq(Requests) /\ drops \in 0..MaxDrops
  /\ view \in [Guilds -> [active : BOOLEAN, full : BOOLEAN, ranges : SUBSET Indices]]

Settled == conn = "up" /\ flight = {} /\ queue = <<>> /\ wire = <<>>
Served(g) == IF view[g].full THEN Indices ELSE view[g].ranges

\* Once everything has arrived, every guild the frontend subscribed to is
\* served, whatever connections were lost on the way.
GuildsStaySubscribed == Settled => \A g \in asked : view[g].active

\* What the core has tracked is what the server serves, or is about to: the
\* replay keeps the two together across reconnects.
TrackedIsServed ==
  conn = "up" /\ wire = <<>> =>
    \A g \in Guilds : (g \in guilds => view[g].active) /\ ranges[g] \subseteq Served(g)

\* As long as no connection was lost, all that the frontend takes for covered
\* is served (by a server that adds ranges up).
CoveredIsServedAtFirst ==
  Settled /\ drops = 0 => \A g \in Guilds : covered[g] \subseteq Served(g)

-----------------------------------------------------------------------------
(* Sentences of the code's docs and comments that this model refutes.  No    *)
(* run checks them; README.md says what the code does instead.              *)

\* "tracked so we can re-send them on resume": what the frontend takes for
\* covered, and will not ask for again, is served after a reconnect too.
CoveredIsServed == Settled => \A g \in Guilds : covered[g] \subseteq Served(g)

\* "Big guilds (large member count) use this instead of the full `members:
\* true` subscription": the server never serves all members of one.
BigGuildsAreRanged == \A g \in BigGuilds : ~view[g].full
==============================================================================
