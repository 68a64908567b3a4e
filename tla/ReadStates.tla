----------------------------- MODULE ReadStates -----------------------------
(***************************************************************************)
(* Mention badges: ReadStateStore, the mention part of applyMessageCreate  *)
(* and the places that clear and acknowledge (web/src/stores.ts,           *)
(* GuildsRail.tsx).  Every message of the model mentions the user; the     *)
(* messages of a channel are numbered in the order of their ids.  The      *)
(* server answers an ack with MESSAGE_ACK, which no handler of the store   *)
(* looks at.  No MESSAGE_CREATE is lost with a session of the gateway.     *)
(***************************************************************************)
EXTENDS Naturals, Sequences, FiniteSets, Fetch

CONSTANTS
  Channels,
  NoChannel,     \* no channel of Channels is open
  Loads,         \* loads that can be in flight at one time
  MaxMentions,   \* bound: messages of a channel
  MaxLogins      \* bound: logins

VARIABLES
  \* the stores
  count,      \* mention_count of byChannel
  known,      \* loaded
  loads,      \* loads[l]: a listReadState on its way
  opened,     \* ui.selectedChannelId
  latest,     \* latest[c]: the last row of c in MessagesStore, 0 for none
  acks,       \* acks on their way
  logins,
  \* the server
  sent,       \* sent[c]: messages of c
  before,     \* before[c]: how many of them when the channel list was loaded
  acked,      \* acked[c]: the last of them the server takes for read
  mentions,   \* MESSAGE_CREATE events on their way: channels
  \* observers
  covers,     \* covers[c]: the newest message that count[c] takes into account
  cleared,    \* cleared[c]: the last message the user was shown as read
  outdated    \* a page that was older than the counts took their place

badgeVars  == <<count, known, loads, opened, latest, acks, logins>>
serverVars == <<sent, before, acked, mentions>>
obsVars    == <<covers, cleared, outdated>>
vars == <<badgeVars, serverVars, obsVars>>

Maximum(a, b) == IF a > b THEN a ELSE b
Ack(c, m) == IF m = 0 THEN {} ELSE {[channel |-> c, upto |-> m]}

-----------------------------------------------------------------------------
(* applyLoginResult, load and clear. *)

AskReadState(l) ==
  /\ loads[l].step = "idle" /\ logins < MaxLogins
  /\ logins' = logins + 1
  /\ loads' = [loads EXCEPT ![l] = Asked]
  /\ UNCHANGED <<count, known, opened, latest, acks, serverVars, obsVars>>

ServeReadState(l) ==
  /\ loads[l].step = "asked"
  /\ loads' = [loads EXCEPT ![l] = Answered({[c |-> c, n |-> sent[c] - acked[c], upto |-> sent[c]] : c \in Channels})]
  /\ UNCHANGED <<count, known, opened, latest, acks, logins, serverVars, obsVars>>

Entry(page, c) == CHOOSE e \in page : e.c = c

ApplyReadState(l) ==
  /\ loads[l].step = "answered"
  /\ count' = [c \in Channels |-> Entry(loads[l].page, c).n]
  /\ covers' = [c \in Channels |-> Entry(loads[l].page, c).upto]
  /\ known' = TRUE
  /\ loads' = [loads EXCEPT ![l] = Idle]
  /\ outdated' = loads[l].stale
  /\ UNCHANGED <<opened, latest, acks, logins, serverVars, cleared>>

\* Only a warning; nothing asks again.
FailReadState(l) ==
  /\ loads[l].step # "idle"
  /\ loads' = [loads EXCEPT ![l] = Idle]
  /\ UNCHANGED <<count, known, opened, latest, acks, logins, serverVars, obsVars>>

\* logout: clearStores; no channel stays open.
Clear ==
  /\ known
  /\ count' = [c \in Channels |-> 0] /\ known' = FALSE
  /\ opened' = NoChannel /\ latest' = [c \in Channels |-> 0]
  /\ UNCHANGED <<loads, acks, logins, serverVars, obsVars>>

-----------------------------------------------------------------------------
(* Events, and what the user opens and marks as read. *)

BadBump(c) == count' = [count EXCEPT ![c] = 1]   \* whatever was there

Bump(c) == count' = [count EXCEPT ![c] = @ + 1]

\* A message of the open channel is acknowledged, and counted as well.
ApplyMention ==
  /\ mentions # <<>>
  /\ LET c == Head(mentions).channel
         m == Head(mentions).upto
     IN  /\ Bump(c)
         /\ latest' = [latest EXCEPT ![c] = m]
         /\ acks' = IF opened = c THEN acks \cup Ack(c, m) ELSE acks
         /\ covers' = [covers EXCEPT ![c] = Maximum(@, m)]
         /\ cleared' = IF opened = c THEN [cleared EXCEPT ![c] = Maximum(@, m)] ELSE cleared
  /\ mentions' = Tail(mentions)
  /\ loads' = AllAged(loads)
  /\ UNCHANGED <<known, opened, logins, sent, before, acked, outdated>>

BadClearMentions(c, m) ==   \* one mention at a time
  /\ count' = [count EXCEPT ![c] = @ - 1]
  /\ acks' = acks \cup Ack(c, m)
  /\ cleared' = [cleared EXCEPT ![c] = Maximum(@, covers[c])]
  /\ UNCHANGED <<known, loads, latest, logins, serverVars, covers, outdated>>

\* clearMentions, and an ack up to message m.
ClearMentions(c, m) ==
  /\ count' = [count EXCEPT ![c] = 0]
  /\ acks' = acks \cup Ack(c, m)
  /\ cleared' = [cleared EXCEPT ![c] = Maximum(@, covers[c])]
  /\ UNCHANGED <<known, loads, latest, logins, serverVars, covers, outdated>>

OpenChannel(c) ==
  /\ opened # c /\ opened' = c
  /\ IF c = NoChannel THEN UNCHANGED <<count, known, loads, latest, acks, logins, serverVars, obsVars>>
     ELSE ClearMentions(c, latest[c])

\* "Mark as Read" of a guild clears the channels that count, and acknowledges
\* each up to the last_message_id of its channel object, which no message moves.
MarkAsRead(c) ==
  /\ count[c] > 0
  /\ ClearMentions(c, before[c])
  /\ UNCHANGED opened

-----------------------------------------------------------------------------
(* The server (external). *)

Mention(c) ==
  /\ sent[c] < MaxMentions
  /\ sent' = [sent EXCEPT ![c] = @ + 1]
  /\ mentions' = Append(mentions, [channel |-> c, upto |-> sent[c] + 1])
  /\ UNCHANGED <<badgeVars, before, acked, obsVars>>

\* Acks arrive in any order; one that is lost is one that never arrives.
TakeAck(a) ==
  /\ a \in acks
  /\ acks' = acks \ {a}
  /\ acked' = [acked EXCEPT ![a.channel] = Maximum(@, a.upto)]
  /\ UNCHANGED <<count, known, loads, opened, latest, logins, sent, before, mentions, obsVars>>

Init ==
  /\ count = [c \in Channels |-> 0] /\ known = FALSE
  /\ loads = [l \in Loads |-> Idle] /\ opened = NoChannel
  /\ latest = [c \in Channels |-> 0] /\ acks = {} /\ logins = 0
  /\ sent \in [Channels -> 0..1] /\ before = sent /\ acked = [c \in Channels |-> 0] /\ mentions = <<>>
  /\ covers = [c \in Channels |-> 0] /\ cleared = [c \in Channels |-> 0] /\ outdated = FALSE

Next ==
  \/ \E l \in Loads : \/ AskReadState(l) \/ ServeReadState(l)
                      \/ ApplyReadState(l) \/ FailReadState(l)
  \/ \E c \in Channels : MarkAsRead(c) \/ Mention(c)
  \/ \E c \in Channels \cup {NoChannel} : OpenChannel(c)
  \/ \E a \in acks : TakeAck(a)
  \/ Clear \/ ApplyMention

Spec == Init /\ [][Next]_vars

-----------------------------------------------------------------------------
(* Properties. *)

Positions == [channel : Channels, upto : 1..MaxMentions]

\* Every variable has its type; the one type invariant of this module.
TypeOK ==
  /\ count \in [Channels -> 0..(2 * MaxMentions)] /\ known \in BOOLEAN
  /\ loads \in [Loads -> Slot(SUBSET [c : Channels, n : 0..MaxMentions, upto : 0..MaxMentions])]
  /\ opened \in Channels \cup {NoChannel}
  /\ latest \in [Channels -> 0..MaxMentions] /\ acks \subseteq Positions
  /\ logins \in 0..MaxLogins
  /\ sent \in [Channels -> 0..MaxMentions] /\ before \in [Channels -> 0..MaxMentions]
  /\ acked \in [Channels -> 0..MaxMentions]
  /\ mentions \in Seq(Positions)
  /\ covers \in [Channels -> 0..MaxMentions] /\ cleared \in [Channels -> 0..MaxMentions]
  /\ outdated \in BOOLEAN

Read(c) == Maximum(cleared[c], acked[c])

\* Once the read state is loaded and all events are in, a badge counts every
\* mention the user has not been shown as read, on this device or, as far as
\* the load knew, on another: across loads and events in any order, unless the
\* page of a load was older than the counts it replaced.
NoMentionMissedUnlessRaced ==
  known /\ mentions = <<>> /\ ~outdated => \A c \in Channels : count[c] >= sent[c] - Read(c)

-----------------------------------------------------------------------------
(* Sentences of the code's docs and comments that this model refutes.  No    *)
(* run checks them; README.md says what the code does instead.              *)

\* "fetch the server-side read state so mention badges are accurate from the
\* start": a badge counts no mention twice, and none that was read.
BadgesAreAccurate ==
  known /\ mentions = <<>> /\ ~outdated => \A c \in Channels : count[c] <= sent[c] - cleared[c]

\* "Server-side bulk ack (clears unread/mentions across devices)".
ClearedEverywhere ==
  known /\ mentions = <<>> /\ acks = {} => \A c \in Channels : acked[c] >= cleared[c]
==============================================================================
