---------------------- MODULE LazySubscriptionsProofs ----------------------
(***************************************************************************)
(* Theorems about LazySubscriptions, for any finite set of guilds, any     *)
(* page size, number of members, selections and lost connections, and for  *)
(* servers that add ranges up as for those that replace them.              *)
(*                                                                         *)
(* What the server serves of a guild is decided by the last request for it *)
(* on the wire.  WireFits says that this request is one the core tracks,   *)
(* or that there is none and the server serves what is tracked; a replay   *)
(* establishes it, whatever the order of its requests.                     *)
(***************************************************************************)
EXTENDS LazySubscriptions, Integers, FiniteSetTheorems, SequenceTheorems, TLAPS

\* The i-th request on the wire is the last one for g.
IsLast(g, i) ==
  /\ i \in 1..Len(wire) /\ wire[i].guild = g
  /\ \A j \in 1..Len(wire) : wire[j].guild = g => j <= i

Absent(g) == \A i \in 1..Len(wire) : wire[i].guild # g

WireFits == conn = "up" => \A g \in Guilds :
  /\ \A i \in 1..Len(wire) : IsLast(g, i) => wire[i].ranges \in {{}, ranges[g]}
  /\ Absent(g) => (g \in guilds => view[g].active) /\ ranges[g] \subseteq Served(g)

\* A guild that was subscribed to is on its way to the core or tracked there.
Queued(g) == \E i \in 1..Len(queue) : queue[i] = Full(g)
AskedIsKept == \A g \in asked : Full(g) \in flight \/ Queued(g) \/ g \in guilds

IndInv == TypeOK /\ WireFits /\ AskedIsKept

-----------------------------------------------------------------------------
LEMMA RequestTypes ==
  /\ \A g \in Guilds : Full(g) \in Requests /\ Full(g).guild = g /\ Full(g).ranges = {}
  /\ \A g \in Guilds, r \in SUBSET Indices :
       Ranged(g, r) \in Requests /\ Ranged(g, r).guild = g /\ Ranged(g, r).ranges = r
  BY DEF Full, Ranged, Requests

LEMMA PageTypes ==
  /\ 0..(Page - 1) \in SUBSET Indices
  /\ \A g \in Guilds : NextPage(g) \in SUBSET Indices
  BY SubscriptionConstants DEF Indices, NextPage

LEMMA InitEstablishes == Init => IndInv
<1> SUFFICES ASSUME Init PROVE IndInv
  OBVIOUS
<1> USE DEF Init
<1>1. queue \in Seq(Requests) /\ wire \in Seq(Requests) /\ flight \subseteq Requests
  BY RequestTypes
<1>2. view \in [Guilds -> [active : BOOLEAN, full : BOOLEAN, ranges : SUBSET Indices]]
  BY DEF Unserved
<1>3. TypeOK
  BY <1>1, <1>2, SubscriptionConstants DEF TypeOK
<1>4. WireFits /\ AskedIsKept
  BY DEF WireFits, AskedIsKept
<1> QED BY <1>3, <1>4 DEF IndInv

-----------------------------------------------------------------------------
\* The frontend only adds to what it has asked for and what is on its way.
LEMMA FrontendKeeps ==
  ASSUME IndInv, NEW g \in Guilds,
         SelectGuild(g) \/ GuildCreate(g) \/ MembersArrive(g) \/ Scroll(g)
  PROVE  IndInv'
<1> USE DEF IndInv
<1>1. /\ UNCHANGED <<queue, guilds, ranges, conn, wire, drops, view>>
      /\ flight \subseteq flight'
      /\ asked' \subseteq asked \cup {g} /\ (asked' = asked \/ Full(g) \in flight')
  BY DEF SelectGuild, GuildCreate, MembersArrive, Scroll, coreVars
<1>2. TypeOK'
  <2>1. \A r \in SUBSET Indices : MemberRanges(g, r) \subseteq Requests
    BY RequestTypes DEF MemberRanges
  <2>2. flight' \subseteq Requests
    <3>1. flight' \subseteq flight \cup {Full(g)} \cup MemberRanges(g, 0..(Page - 1))
                               \cup MemberRanges(g, NextPage(g))
      BY DEF SelectGuild, GuildCreate, MembersArrive, Scroll
    <3> QED BY <2>1, <3>1, RequestTypes, PageTypes DEF TypeOK
  <2>3. covered' \in [Guilds -> SUBSET Indices]
    BY PageTypes DEF SelectGuild, GuildCreate, MembersArrive, Scroll, TypeOK, Cover
  <2>4. selects' \in [Guilds -> 0..MaxSelects]
    <3>1. CASE SelectGuild(g)
      <4>1. selects[g] + 1 \in 0..MaxSelects /\ selects' = [selects EXCEPT ![g] = @ + 1]
        BY <3>1, SubscriptionConstants DEF SelectGuild, TypeOK
      <4> QED BY <4>1 DEF TypeOK
    <3>2. CASE ~SelectGuild(g)
      BY <3>2 DEF GuildCreate, MembersArrive, Scroll, TypeOK
    <3> QED BY <3>1, <3>2
  <2>5. members' \subseteq Guilds /\ asked' \subseteq Guilds
    BY DEF SelectGuild, GuildCreate, MembersArrive, Scroll, TypeOK
  <2> QED BY <1>1, <2>2, <2>3, <2>4, <2>5 DEF TypeOK
<1>3. WireFits'
  BY <1>1 DEF WireFits, IsLast, Absent, Served
<1>4. AskedIsKept'
  BY <1>1 DEF AskedIsKept, Queued
<1> QED BY <1>2, <1>3, <1>4

\* A command goes from the way to the mutex into the channel.
LEMMA EnqueueKeeps ==
  ASSUME IndInv, NEW c \in flight, Enqueue(c)
  PROVE  IndInv'
<1> USE DEF IndInv
<1>1. /\ UNCHANGED <<covered, members, asked, selects, guilds, ranges, conn, wire, drops, view>>
      /\ flight' = flight \ {c} /\ queue' = Append(queue, c)
  BY DEF Enqueue, frontVars, coreVars
<1>2. c \in Requests /\ queue \in Seq(Requests)
  BY DEF TypeOK
<1>3. /\ queue' \in Seq(Requests) /\ Len(queue) \in Nat /\ Len(queue') = Len(queue) + 1
      /\ \A i \in 1..Len(queue) : queue'[i] = queue[i]
      /\ queue'[Len(queue) + 1] = c
  BY <1>1, <1>2, AppendProperties, LenProperties
<1>4. TypeOK'
  BY <1>1, <1>3 DEF TypeOK
<1>5. WireFits'
  BY <1>1 DEF WireFits, IsLast, Absent, Served
<1>6. AskedIsKept'
  <2> SUFFICES ASSUME NEW g \in asked
               PROVE  Full(g) \in flight' \/ Queued(g)' \/ g \in guilds
    BY <1>1 DEF AskedIsKept
  <2>1. CASE Full(g) \in flight /\ Full(g) # c
    BY <1>1, <2>1
  <2>2. CASE Full(g) = c
    <3>1. Len(queue) + 1 \in 1..Len(queue')
      BY <1>3
    <3> QED BY <1>3, <2>2, <3>1 DEF Queued, Full
  <2>3. CASE Queued(g)
    <3>1. PICK i \in 1..Len(queue) : queue[i] = Full(g)
      BY <2>3 DEF Queued
    <3>2. i \in 1..Len(queue') /\ queue'[i] = Full(g)
      BY <1>3, <3>1
    <3> QED BY <3>2 DEF Queued, Full
  <2> QED BY <2>1, <2>2, <2>3 DEF AskedIsKept
<1> QED BY <1>4, <1>5, <1>6

-----------------------------------------------------------------------------
\* A command that is tracked becomes the last request for its guild.
LEMMA RunCommandKeeps ==
  ASSUME IndInv, RunCommand
  PROVE  IndInv'
<1> USE DEF IndInv
<1> DEFINE c == Head(queue)
<1>1. /\ conn # "down" /\ queue # <<>> /\ Track(c) /\ queue' = Tail(queue)
      /\ wire' = IF conn = "up" THEN Append(wire, c) ELSE wire
      /\ UNCHANGED <<covered, members, asked, selects, flight, conn, view, drops>>
  BY DEF RunCommand, frontVars
<1>2. /\ c \in Requests /\ c = queue[1] /\ queue' \in Seq(Requests)
      /\ Len(queue) \in Nat \ {0} /\ Len(queue') = Len(queue) - 1
      /\ \A i \in 1..Len(queue') : queue'[i] = queue[i + 1]
  BY <1>1, HeadTailProperties, EmptySeq DEF TypeOK
<1>3. /\ Append(wire, c) \in Seq(Requests) /\ Len(wire) \in Nat
      /\ Len(Append(wire, c)) = Len(wire) + 1
      /\ \A i \in 1..Len(wire) : Append(wire, c)[i] = wire[i]
      /\ Append(wire, c)[Len(wire) + 1] = c
  BY <1>2, AppendProperties, LenProperties DEF TypeOK
<1>4. c.guild \in Guilds /\ c.ranges \in SUBSET Indices
  BY <1>2 DEF Requests
<1>5. /\ guilds' = IF c.ranges = {} THEN guilds \cup {c.guild} ELSE guilds
      /\ ranges' = IF c.ranges = {} THEN ranges ELSE [ranges EXCEPT ![c.guild] = c.ranges]
  BY <1>1 DEF Track
<1> HIDE DEF c
<1>6. TypeOK'
  <2>1. guilds' \subseteq Guilds /\ ranges' \in [Guilds -> SUBSET Indices]
    BY <1>4, <1>5 DEF TypeOK
  <2>2. wire' \in Seq(Requests)
    BY <1>1, <1>3 DEF TypeOK
  <2> QED BY <1>1, <1>2, <2>1, <2>2 DEF TypeOK
<1>7. WireFits'
  <2> SUFFICES ASSUME conn = "up", NEW g \in Guilds
               PROVE  /\ \A i \in 1..Len(wire') : IsLast(g, i)' => wire'[i].ranges \in {{}, ranges'[g]}
                      /\ Absent(g)' => (g \in guilds' => view'[g].active) /\ ranges'[g] \subseteq Served(g)'
    BY <1>1 DEF WireFits
  <2>1. wire' = Append(wire, c)
    BY <1>1
  <2>2. CASE g = c.guild
    <3>1. Len(wire) + 1 \in 1..Len(wire') /\ wire'[Len(wire) + 1].guild = g
      BY <1>3, <2>1, <2>2
    <3>2. c.ranges \in {{}, ranges'[g]}
      BY <1>4, <1>5, <2>2 DEF TypeOK
    <3>3. ASSUME NEW i \in 1..Len(wire'), IsLast(g, i)'
          PROVE  wire'[i].ranges \in {{}, ranges'[g]}
      <4>1. i = Len(wire) + 1
        BY <1>3, <2>1, <3>1, <3>3 DEF IsLast
      <4> QED BY <1>3, <2>1, <3>2, <4>1
    <3> QED BY <3>1, <3>3 DEF Absent
  <2>3. CASE g # c.guild
    <3>1. (g \in guilds' <=> g \in guilds) /\ ranges'[g] = ranges[g] /\ Served(g)' = Served(g)
      BY <1>1, <1>4, <1>5, <2>3 DEF TypeOK, Served
    <3>2. ASSUME NEW i \in 1..Len(wire'), IsLast(g, i)'
          PROVE  wire'[i].ranges \in {{}, ranges'[g]}
      <4>1. i \in 1..Len(wire) /\ wire'[i] = wire[i]
        BY <1>3, <2>1, <2>3, <3>2 DEF IsLast
      <4>2. IsLast(g, i)
        BY <1>3, <2>1, <3>2, <4>1 DEF IsLast
      <4> QED BY <3>1, <4>1, <4>2 DEF WireFits
    <3>3. Absent(g)' => Absent(g)
      BY <1>3, <2>1 DEF Absent
    <3> QED BY <1>1, <3>1, <3>2, <3>3 DEF WireFits
  <2> QED BY <2>2, <2>3
<1>8. AskedIsKept'
  <2> SUFFICES ASSUME NEW g \in asked
               PROVE  Full(g) \in flight \/ Queued(g)' \/ g \in guilds'
    BY <1>1 DEF AskedIsKept
  <2>1. CASE Queued(g)
    <3>1. PICK i \in 1..Len(queue) : queue[i] = Full(g)
      BY <2>1 DEF Queued
    <3>2. CASE i = 1
      BY <1>2, <1>5, <3>1, <3>2 DEF Full
    <3>3. CASE i # 1
      <4>1. i - 1 \in 1..Len(queue') /\ queue'[i - 1] = Full(g)
        BY <1>2, <3>1, <3>3
      <4> QED BY <4>1 DEF Queued, Full
    <3> QED BY <3>2, <3>3
  <2>2. CASE Full(g) \in flight \/ g \in guilds
    BY <1>5, <2>2
  <2> QED BY <2>1, <2>2 DEF AskedIsKept
<1> QED BY <1>6, <1>7, <1>8

-----------------------------------------------------------------------------
\* A replay holds a request for every guild the core tracks, and only such as it
\* tracks.
LEMMA ReplayTells ==
  ASSUME TypeOK, NEW w, Replay(w)
  PROVE  /\ w \in Seq(Requests)
         /\ \A i \in 1..Len(w) : w[i].guild \in Guilds /\ w[i].ranges \in {{}, ranges[w[i].guild]}
         /\ \A g \in Guilds : g \in guilds \/ ranges[g] # {} =>
              \E i \in 1..Len(w) : w[i].guild = g
<1> DEFINE tracked == {h \in Guilds : ranges[h] # {}}
           r == {Ranged(g, ranges[g]) : g \in tracked}
           n == Cardinality(guilds)
           m == n + Cardinality(r)
<1>1. n \in Nat
  <2>1. IsFiniteSet(guilds)
    BY FS_Subset, SubscriptionConstants DEF TypeOK
  <2> QED BY <2>1, FS_CardinalityType
<1>2. Cardinality(r) \in Nat
  <2> DEFINE f == [c \in r |-> c.guild]
  <2>1. \A c \in r : c.guild \in Guilds /\ c = Ranged(c.guild, ranges[c.guild])
    BY DEF Ranged
  <2>2. f \in [r -> Guilds] /\ IsInjective(f)
    BY <2>1 DEF IsInjective
  <2>3. f \in Injection(r, Guilds)
    BY <2>2 DEF Injection
  <2> HIDE DEF f, r
  <2>4. IsFiniteSet(r)
    BY <2>3, FS_Injection, SubscriptionConstants
  <2> QED BY <2>4, FS_CardinalityType
<1>3. /\ w \in [1..m -> {Full(g) : g \in guilds} \cup r]
      /\ \A g \in guilds : \E i \in 1..n : w[i] = Full(g)
      /\ \A c \in r : \E i \in (n + 1)..Len(w) : w[i] = c
  BY DEF Replay
<1>4. \A c \in {Full(g) : g \in guilds} \cup r :
        c \in Requests /\ c.guild \in Guilds /\ c.ranges \in {{}, ranges[c.guild]}
  BY RequestTypes DEF TypeOK
<1>5. m \in Nat /\ n <= m
  BY <1>1, <1>2
<1>6. \A g \in tracked : Ranged(g, ranges[g]) \in r /\ Ranged(g, ranges[g]).guild = g
  BY DEF Ranged
<1> HIDE DEF n, m, r
<1>7. w \in [1..m -> Requests]
  BY <1>3, <1>4
<1>8. w \in Seq(Requests) /\ Len(w) = m
  <2>1. w \in Seq(Requests)
    BY <1>5, <1>7, SeqDef
  <2>2. DOMAIN w = 1..m /\ DOMAIN w = 1..Len(w) /\ Len(w) \in Nat
    BY <1>7, <2>1, LenProperties
  <2> QED BY <1>5, <2>1, <2>2
<1>9. \A i \in 1..Len(w) : w[i].guild \in Guilds /\ w[i].ranges \in {{}, ranges[w[i].guild]}
  BY <1>3, <1>4, <1>8
<1>10. ASSUME NEW g \in Guilds, g \in guilds \/ ranges[g] # {}
       PROVE  \E i \in 1..Len(w) : w[i].guild = g
  <2>1. CASE g \in guilds
    <3>1. PICK i \in 1..n : w[i] = Full(g)
      BY <1>3, <2>1
    <3>2. i \in 1..Len(w) /\ w[i].guild = g
      BY <1>1, <1>5, <1>8, <3>1, RequestTypes
    <3> QED BY <3>2
  <2>2. CASE ranges[g] # {}
    <3>1. PICK i \in (n + 1)..Len(w) : w[i] = Ranged(g, ranges[g])
      BY <1>3, <1>6, <2>2
    <3>2. i \in 1..Len(w) /\ w[i].guild = g
      BY <1>1, <1>5, <1>6, <1>8, <2>2, <3>1
    <3> QED BY <3>2
  <2> QED BY <1>10, <2>1, <2>2
<1> QED BY <1>8, <1>9, <1>10

\* A new connection begins with the replay; one that is gone has none on the wire.
LEMMA ConnectionKeeps ==
  ASSUME IndInv, Connect \/ Break \/ Notice
  PROVE  IndInv'
<1> USE DEF IndInv
<1>1. UNCHANGED <<covered, members, asked, selects, flight, queue, guilds, ranges>>
  BY DEF Connect, Break, Notice, frontVars, coreVars
<1>2. AskedIsKept'
  BY <1>1 DEF AskedIsKept, Queued
<1>3. CASE Connect
  <2>1. /\ wire' \in Seq(Requests)
        /\ \A i \in 1..Len(wire') : wire'[i].guild \in Guilds /\ wire'[i].ranges \in {{}, ranges[wire'[i].guild]}
        /\ \A g \in Guilds : g \in guilds \/ ranges[g] # {} =>
             \E i \in 1..Len(wire') : wire'[i].guild = g
    BY <1>3, ReplayTells DEF Connect
  <2>2. conn' = "up" /\ drops' = drops /\ (view' = [g \in Guilds |-> Unserved] \/ view' = view)
    BY <1>3 DEF Connect
  <2>3. TypeOK'
    <3>1. view' \in [Guilds -> [active : BOOLEAN, full : BOOLEAN, ranges : SUBSET Indices]]
      <4>1. Unserved \in [active : BOOLEAN, full : BOOLEAN, ranges : SUBSET Indices]
        BY DEF Unserved
      <4> QED BY <2>2, <4>1 DEF TypeOK
    <3> QED BY <1>1, <2>1, <2>2, <3>1 DEF TypeOK
  <2>4. WireFits'
    BY <1>1, <2>1 DEF WireFits, IsLast, Absent
  <2> QED BY <1>2, <2>3, <2>4
<1>4. CASE Break \/ Notice
  <2>1. conn' \in {"half", "down"} /\ view' = view /\ wire' \in {<<>>, wire} /\ drops' \in 0..MaxDrops
    BY <1>4, SubscriptionConstants DEF Break, Notice, TypeOK
  <2>2. TypeOK'
    BY <1>1, <2>1, EmptySeq DEF TypeOK
  <2>3. WireFits'
    BY <2>1 DEF WireFits
  <2> QED BY <1>2, <2>2, <2>3
<1> QED BY <1>3, <1>4

\* The server serves what the request at the head asks for; when it was the last one
\* for its guild, that is what is tracked.
LEMMA ServeKeeps ==
  ASSUME IndInv, Serve
  PROVE  IndInv'
<1> USE DEF IndInv
<1> DEFINE c == Head(wire)
           served == [active |-> TRUE, full |-> c.ranges = {},
                      ranges |-> IF c.ranges = {} \/ ServerAdds THEN view[c.guild].ranges \cup c.ranges
                                 ELSE c.ranges]
<1>1. /\ conn = "up" /\ wire # <<>> /\ wire' = Tail(wire)
      /\ view' = [view EXCEPT ![c.guild] = served]
      /\ UNCHANGED <<covered, members, asked, selects, flight, queue, guilds, ranges, conn, drops>>
  BY DEF Serve, frontVars, coreVars
<1>2. /\ c \in Requests /\ c = wire[1] /\ wire' \in Seq(Requests)
      /\ Len(wire) \in Nat \ {0} /\ Len(wire') = Len(wire) - 1
      /\ \A i \in 1..Len(wire') : wire'[i] = wire[i + 1]
  BY <1>1, HeadTailProperties, EmptySeq DEF TypeOK
<1>3. c.guild \in Guilds /\ c.ranges \in SUBSET Indices
  BY <1>2 DEF Requests
<1>4. /\ view[c.guild].ranges \in SUBSET Indices
      /\ served \in [active : BOOLEAN, full : BOOLEAN, ranges : SUBSET Indices]
      /\ served.active /\ (served.full <=> c.ranges = {}) /\ c.ranges \subseteq served.ranges
  BY <1>3 DEF TypeOK
<1> HIDE DEF c, served
<1>5. TypeOK'
  BY <1>1, <1>2, <1>3, <1>4 DEF TypeOK
<1>6. AskedIsKept'
  BY <1>1 DEF AskedIsKept, Queued
<1>7. WireFits'
  <2> SUFFICES ASSUME NEW g \in Guilds
               PROVE  /\ \A i \in 1..Len(wire') : IsLast(g, i)' => wire'[i].ranges \in {{}, ranges[g]}
                      /\ Absent(g)' => (g \in guilds => view'[g].active) /\ ranges[g] \subseteq Served(g)'
    BY <1>1 DEF WireFits
  <2>1. ASSUME NEW i \in 1..Len(wire'), IsLast(g, i)'
        PROVE  wire'[i].ranges \in {{}, ranges[g]}
    <3>1. i + 1 \in 1..Len(wire) /\ wire'[i] = wire[i + 1]
      BY <1>2
    <3>2. ASSUME NEW j \in 1..Len(wire), wire[j].guild = g
          PROVE  j <= i + 1
      <4>1. CASE j = 1
        BY <3>1, <4>1
      <4>2. CASE j # 1
        <5>1. j - 1 \in 1..Len(wire') /\ wire'[j - 1] = wire[j]
          BY <1>2, <4>2
        <5> QED BY <2>1, <3>2, <5>1 DEF IsLast
      <4> QED BY <4>1, <4>2
    <3>3. IsLast(g, i + 1)
      BY <2>1, <3>1, <3>2 DEF IsLast
    <3> QED BY <1>1, <3>1, <3>3 DEF WireFits
  <2>2. ASSUME Absent(g)'
        PROVE  (g \in guilds => view'[g].active) /\ ranges[g] \subseteq Served(g)'
    <3>1. \A j \in 1..Len(wire) : wire[j].guild = g => j = 1
      <4> SUFFICES ASSUME NEW j \in 1..Len(wire), wire[j].guild = g, j # 1
                   PROVE  FALSE
        OBVIOUS
      <4>1. j - 1 \in 1..Len(wire') /\ wire'[j - 1] = wire[j]
        BY <1>2
      <4> QED BY <2>2, <4>1 DEF Absent
    <3>2. CASE c.guild = g
      <4>1. IsLast(g, 1) /\ 1 \in 1..Len(wire)
        BY <1>2, <3>1, <3>2 DEF IsLast
      <4>2. c.ranges \in {{}, ranges[g]}
        BY <1>1, <1>2, <4>1 DEF WireFits
      <4>3. view'[g] = served
        BY <1>1, <3>2 DEF TypeOK
      <4> QED BY <1>4, <4>2, <4>3 DEF Served, TypeOK
    <3>3. CASE c.guild # g
      <4>1. Absent(g)
        BY <1>2, <3>1, <3>3 DEF Absent
      <4>2. view'[g] = view[g]
        BY <1>1, <3>3 DEF TypeOK
      <4> QED BY <1>1, <4>1, <4>2 DEF WireFits, Served
    <3> QED BY <3>2, <3>3
  <2> QED BY <2>1, <2>2
<1> QED BY <1>5, <1>6, <1>7

-----------------------------------------------------------------------------
LEMMA StepKeeps ==
  ASSUME IndInv, [Next]_vars
  PROVE  IndInv'
<1>1. CASE UNCHANGED vars
  BY <1>1 DEF vars, frontVars, coreVars, IndInv, TypeOK, WireFits, AskedIsKept, Queued, IsLast,
     Absent, Served
<1>2. CASE Next
  BY <1>2, FrontendKeeps, EnqueueKeeps, RunCommandKeeps, ConnectionKeeps, ServeKeeps DEF Next
<1> QED BY <1>1, <1>2

LEMMA Invariance == Spec => []IndInv
<1>1. IndInv /\ [Next]_vars => IndInv'
  BY StepKeeps
<1> QED BY <1>1, InitEstablishes, PTL DEF Spec

\* Every variable keeps its type.
THEOREM TypeCorrect == Spec => []TypeOK
<1>1. IndInv => TypeOK
  BY DEF IndInv
<1> QED BY <1>1, Invariance, PTL

\* Whatever the core tracks is served once the wire is empty, over lost connections
\* and resumed or new sessions (gateway.rs 456-470, 508-530).
THEOREM TrackedStaysServed == Spec => []TrackedIsServed
<1>1. IndInv => TrackedIsServed
  BY EmptySeq DEF IndInv, WireFits, Absent, TrackedIsServed
<1> QED BY <1>1, Invariance, PTL

\* Once everything has arrived every guild the frontend subscribed to is served
\* (stores.ts 3268, 2701, 3687).
THEOREM SubscribedStaysServed == Spec => []GuildsStaySubscribed
<1>1. IndInv => GuildsStaySubscribed
  <2> SUFFICES ASSUME IndInv, Settled, NEW g \in asked
               PROVE  view[g].active
    BY DEF GuildsStaySubscribed
  <2>1. g \in Guilds /\ g \in guilds
    BY EmptySeq DEF Settled, IndInv, TypeOK, AskedIsKept, Queued
  <2>2. Absent(g)
    BY EmptySeq DEF Settled, Absent
  <2> QED BY <2>1, <2>2 DEF Settled, IndInv, WireFits
<1> QED BY <1>1, Invariance, PTL

-----------------------------------------------------------------------------
(* Before the first connection is lost nothing the frontend takes for      *)
(* covered gets lost: each index is in a request on its way to the server, *)
(* or served already.  Nothing is served or on the wire before there is a  *)
(* connection.                                                             *)

Brings(c, g, i) == c.guild = g /\ i \in c.ranges
Coming(g, i) == \/ \E c \in flight : Brings(c, g, i)
                \/ \E k \in 1..Len(queue) : Brings(queue[k], g, i)
                \/ \E k \in 1..Len(wire) : Brings(wire[k], g, i)
                \/ i \in view[g].ranges

FirstInv == drops = 0 =>
  /\ conn # "half"
  /\ conn = "down" => wire = <<>> /\ \A g \in Guilds : view[g].ranges = {}
  /\ \A g \in Guilds : \A i \in covered[g] : Coming(g, i)

LEMMA FrontendBrings ==
  ASSUME IndInv, FirstInv, NEW g \in Guilds,
         SelectGuild(g) \/ GuildCreate(g) \/ MembersArrive(g) \/ Scroll(g)
  PROVE  FirstInv'
<1>1. UNCHANGED <<queue, conn, wire, drops, view>> /\ flight \subseteq flight'
  BY DEF SelectGuild, GuildCreate, MembersArrive, Scroll, coreVars
<1>2. ASSUME NEW h \in Guilds, NEW i \in covered'[h]
      PROVE  i \in covered[h] \/ \E c \in flight' : Brings(c, h, i)
  <2>1. CASE covered' = covered
    BY <1>2, <2>1
  <2>2. ASSUME NEW r \in SUBSET Indices, Cover(g, r), MemberRanges(g, r) \subseteq flight'
        PROVE  i \in covered[h] \/ \E c \in flight' : Brings(c, h, i)
    <3> SUFFICES ASSUME i \notin covered[h] PROVE \E c \in flight' : Brings(c, h, i)
      OBVIOUS
    <3>1. h = g /\ i \in r
      BY <1>2, <2>2 DEF Cover, IndInv, TypeOK
    <3>2. Ranged(g, r) \in flight'
      BY <2>2, <3>1 DEF MemberRanges
    <3>3. Brings(Ranged(g, r), h, i)
      BY <2>2, <3>1, RequestTypes DEF Brings
    <3> QED BY <3>2, <3>3
  <2>3. \/ covered' = covered
        \/ \E r \in SUBSET Indices : Cover(g, r) /\ MemberRanges(g, r) \subseteq flight'
    BY PageTypes DEF SelectGuild, GuildCreate, MembersArrive, Scroll
  <2> QED BY <2>1, <2>2, <2>3
<1>3. ASSUME drops = 0, NEW h \in Guilds, NEW i \in covered'[h] PROVE Coming(h, i)'
  <2>1. CASE i \in covered[h]
    <3>1. Coming(h, i)
      BY <1>3, <2>1 DEF FirstInv
    <3> QED BY <1>1, <3>1 DEF Coming
  <2> QED BY <1>2, <1>3, <2>1 DEF Coming
<1> QED BY <1>1, <1>3 DEF FirstInv

\* A request is handed on: what was coming is coming still.
LEMMA HandOn ==
  ASSUME FirstInv, UNCHANGED <<covered, conn, drops>>,
         conn = "down" => UNCHANGED <<wire, view>>,
         \A g \in Guilds, i \in Indices : drops = 0 /\ Coming(g, i) => Coming(g, i)',
         TypeOK
  PROVE  FirstInv'
<1>1. ASSUME drops = 0, NEW g \in Guilds, NEW i \in covered[g] PROVE Coming(g, i)'
  <2>1. Coming(g, i) /\ i \in Indices
    BY <1>1 DEF FirstInv, TypeOK
  <2> QED BY <1>1, <2>1
<1> QED BY <1>1 DEF FirstInv

LEMMA EnqueueBrings ==
  ASSUME IndInv, FirstInv, NEW c \in flight, Enqueue(c)
  PROVE  FirstInv'
<1>1. /\ UNCHANGED <<covered, conn, wire, drops, view>>
      /\ flight' = flight \ {c} /\ queue' = Append(queue, c)
  BY DEF Enqueue, frontVars, coreVars
<1>2. queue \in Seq(Requests) /\ c \in Requests
  BY DEF IndInv, TypeOK
<1>3. /\ Len(queue) \in Nat /\ Len(queue') = Len(queue) + 1
      /\ \A k \in 1..Len(queue) : queue'[k] = queue[k]
      /\ queue'[Len(queue) + 1] = c
  BY <1>1, <1>2, AppendProperties, LenProperties
<1>4. ASSUME NEW g \in Guilds, NEW i \in Indices, Coming(g, i) PROVE Coming(g, i)'
  <2>1. CASE \E k \in 1..Len(queue) : Brings(queue[k], g, i)
    <3>1. PICK k \in 1..Len(queue) : Brings(queue[k], g, i)
      BY <2>1
    <3>2. k \in 1..Len(queue') /\ Brings(queue'[k], g, i)
      BY <1>3, <3>1
    <3> QED BY <3>2 DEF Coming, Brings
  <2>2. CASE Brings(c, g, i)
    <3>1. Len(queue) + 1 \in 1..Len(queue') /\ Brings(queue'[Len(queue) + 1], g, i)
      BY <1>3, <2>2
    <3> QED BY <3>1 DEF Coming, Brings
  <2> QED BY <1>1, <1>4, <2>1, <2>2 DEF Coming, Brings
<1> QED BY <1>1, <1>4, HandOn DEF IndInv

LEMMA RunCommandBrings ==
  ASSUME IndInv, FirstInv, RunCommand
  PROVE  FirstInv'
<1> DEFINE c == Head(queue)
<1>1. /\ conn # "down" /\ queue # <<>> /\ queue' = Tail(queue)
      /\ wire' = IF conn = "up" THEN Append(wire, c) ELSE wire
      /\ UNCHANGED <<covered, flight, conn, view, drops>>
  BY DEF RunCommand, frontVars
<1>2. /\ c \in Requests /\ c = queue[1] /\ Len(queue) \in Nat \ {0} /\ Len(queue') = Len(queue) - 1
      /\ \A k \in 1..Len(queue') : queue'[k] = queue[k + 1]
  BY <1>1, HeadTailProperties, EmptySeq DEF IndInv, TypeOK
<1>3. /\ Len(wire) \in Nat /\ Len(Append(wire, c)) = Len(wire) + 1
      /\ \A k \in 1..Len(wire) : Append(wire, c)[k] = wire[k]
      /\ Append(wire, c)[Len(wire) + 1] = c
  BY <1>2, AppendProperties, LenProperties DEF IndInv, TypeOK
<1> HIDE DEF c
<1>4. ASSUME drops = 0, NEW g \in Guilds, NEW i \in Indices, Coming(g, i) PROVE Coming(g, i)'
  <2>1. wire' = Append(wire, c)
    BY <1>1, <1>4 DEF FirstInv, IndInv, TypeOK
  <2>2. CASE \E k \in 1..Len(queue) : Brings(queue[k], g, i)
    <3>1. PICK k \in 1..Len(queue) : Brings(queue[k], g, i)
      BY <2>2
    <3>2. CASE k = 1
      <4>1. Len(wire) + 1 \in 1..Len(wire') /\ Brings(wire'[Len(wire) + 1], g, i)
        BY <1>2, <1>3, <2>1, <3>1, <3>2
      <4> QED BY <4>1 DEF Coming, Brings
    <3>3. CASE k # 1
      <4>1. k - 1 \in 1..Len(queue') /\ queue'[k - 1] = queue[k]
        BY <1>2, <3>3
      <4> QED BY <3>1, <4>1 DEF Coming, Brings
    <3> QED BY <3>2, <3>3
  <2>3. CASE \E k \in 1..Len(wire) : Brings(wire[k], g, i)
    <3>1. PICK k \in 1..Len(wire) : Brings(wire[k], g, i)
      BY <2>3
    <3>2. k \in 1..Len(wire') /\ wire'[k] = wire[k]
      BY <1>3, <2>1
    <3> QED BY <3>1, <3>2 DEF Coming, Brings
  <2> QED BY <1>1, <1>4, <2>2, <2>3 DEF Coming, Brings
<1> QED BY <1>1, <1>4, HandOn DEF IndInv

LEMMA ConnectionBrings ==
  ASSUME IndInv, FirstInv, Connect \/ Break \/ Notice
  PROVE  FirstInv'
<1>1. CASE Connect
  <2>1. /\ UNCHANGED <<covered, flight, queue, drops>> /\ conn = "down" /\ conn' = "up"
    BY <1>1 DEF Connect, frontVars
  <2>2. ASSUME drops = 0, NEW g \in Guilds, NEW i \in covered[g] PROVE Coming(g, i)'
    <3>1. Coming(g, i) /\ wire = <<>> /\ view[g].ranges = {}
      BY <2>1, <2>2 DEF FirstInv
    <3>2. ~\E k \in 1..Len(wire) : Brings(wire[k], g, i)
      BY <3>1, EmptySeq
    <3> QED BY <2>1, <3>1, <3>2 DEF Coming, Brings
  <2> QED BY <2>1, <2>2 DEF FirstInv
<1>2. CASE Break
  BY <1>2 DEF Break, FirstInv, IndInv, TypeOK
<1>3. CASE Notice
  BY <1>3 DEF Notice, FirstInv
<1> QED BY <1>1, <1>2, <1>3

LEMMA ServeBrings ==
  ASSUME ServerAdds, IndInv, FirstInv, Serve
  PROVE  FirstInv'
<1> DEFINE c == Head(wire)
<1>1. /\ conn = "up" /\ wire # <<>> /\ wire' = Tail(wire)
      /\ view' = [view EXCEPT ![c.guild] = [active |-> TRUE, full |-> c.ranges = {},
                                            ranges |-> view[c.guild].ranges \cup c.ranges]]
      /\ UNCHANGED <<covered, flight, queue, conn, drops>>
  BY DEF Serve, frontVars
<1>2. /\ c \in Requests /\ c = wire[1] /\ Len(wire) \in Nat \ {0} /\ Len(wire') = Len(wire) - 1
      /\ \A k \in 1..Len(wire') : wire'[k] = wire[k + 1]
  BY <1>1, HeadTailProperties, EmptySeq DEF IndInv, TypeOK
<1> HIDE DEF c
<1>3. ASSUME NEW g \in Guilds
      PROVE  view[g].ranges \subseteq view'[g].ranges /\ (c.guild = g => c.ranges \subseteq view'[g].ranges)
  BY <1>1 DEF IndInv, TypeOK
<1>4. ASSUME NEW g \in Guilds, NEW i \in Indices, Coming(g, i) PROVE Coming(g, i)'
  <2>1. CASE \E k \in 1..Len(wire) : Brings(wire[k], g, i)
    <3>1. PICK k \in 1..Len(wire) : Brings(wire[k], g, i)
      BY <2>1
    <3>2. CASE k = 1
      BY <1>2, <1>3, <3>1, <3>2 DEF Coming, Brings
    <3>3. CASE k # 1
      <4>1. k - 1 \in 1..Len(wire') /\ wire'[k - 1] = wire[k]
        BY <1>2, <3>3
      <4> QED BY <3>1, <4>1 DEF Coming, Brings
    <3> QED BY <3>2, <3>3
  <2> QED BY <1>1, <1>3, <1>4, <2>1 DEF Coming, Brings
<1> QED BY <1>1, <1>4, HandOn DEF IndInv

\* With a server that adds ranges up, all the frontend takes for covered is served as
\* long as no connection was lost, whatever the order in which its requests reach the
\* channel (stores.ts, subscribeMemberRanges; gateway.rs 456-470).
THEOREM CoveredStaysServedAtFirst == ServerAdds => (Spec => []CoveredIsServedAtFirst)
<1> SUFFICES ASSUME ServerAdds PROVE Spec => []CoveredIsServedAtFirst
  OBVIOUS
<1>1. Init => FirstInv
  BY DEF Init, FirstInv, Unserved
<1>2. IndInv /\ FirstInv /\ [Next]_vars => FirstInv'
  <2> SUFFICES ASSUME IndInv, FirstInv, [Next]_vars PROVE FirstInv'
    OBVIOUS
  <2>1. CASE UNCHANGED vars
    BY <2>1 DEF vars, frontVars, coreVars, FirstInv, Coming, Brings
  <2>2. CASE Next
    BY <2>2, FrontendBrings, EnqueueBrings, RunCommandBrings, ConnectionBrings, ServeBrings DEF Next
  <2> QED BY <2>1, <2>2
<1>3. IndInv /\ FirstInv => CoveredIsServedAtFirst
  <2> SUFFICES ASSUME IndInv, FirstInv, Settled, drops = 0, NEW g \in Guilds, NEW i \in covered[g]
               PROVE  i \in Served(g)
    BY DEF CoveredIsServedAtFirst
  <2>1. Coming(g, i) /\ i \in Indices
    BY DEF FirstInv, IndInv, TypeOK
  <2>2. i \in view[g].ranges
    BY <2>1, EmptySeq DEF Settled, Coming
  <2> QED BY <2>1, <2>2 DEF Served
<1> QED BY <1>1, <1>2, <1>3, Invariance, PTL DEF Spec
=============================================================================
