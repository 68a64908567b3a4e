------------------------------- MODULE Gateway -------------------------------
(***************************************************************************)
(* The gateway task of the core crate (core/src/gateway.rs): one task that *)
(* connects, waits for HELLO, IDENTIFYs or RESUMEs, reads DISPATCHes into  *)
(* a bounded channel, and reconnects after a backoff.  The server and the  *)
(* network between them are external: the server numbers each session's    *)
(* dispatches, replays on RESUME and may turn a RESUME down; a connection  *)
(* may break at any time and loses what is in flight on it.                *)
(*                                                                         *)
(* Left to other modules: who reads the channel and sends commands, and    *)
(* several gateway tasks at once (CommandPump, AppSession); subscriptions  *)
(* (LazySubscriptions).  Heartbeats and pings only send, and their failure *)
(* is that of the connection, so they are part of ConnectionEnds.          *)
(***************************************************************************)
EXTENDS Naturals, Sequences

CONSTANTS
  EventsCap,     \* capacity of the events channel (64 in the code)
  MaxBackoff,    \* longest reconnect delay (30 in the code)
  RejectWays,    \* how the server may turn down a RESUME: see Rejection
  MaxSessions,   \* bound: sessions the server opens
  MaxEvents,     \* bound: dispatches of one session
  MaxWire,       \* bound: messages in flight towards the client
  MaxFaults,     \* bound: breaks, closes, lost and invalidated sessions
  MaxShutdowns   \* bound: calls of GatewayHandle::shutdown

ASSUME GatewayConstants ==
  /\ EventsCap \in Nat \ {0}
  /\ MaxBackoff \in Nat \ {0}
  /\ RejectWays \subseteq {"op9", "op9_close", "close"}
  /\ MaxSessions \in Nat
  /\ MaxEvents \in Nat \ {0}
  /\ MaxWire \in Nat
  /\ MaxFaults \in Nat
  /\ MaxShutdowns \in Nat

VARIABLES
  \* the task
  pc,          \* where the task is
  session,     \* SessionState: session_id and seq, 0 for None
  pending,     \* the event whose tx.send has not returned yet
  backoff,     \* the delay the next sleep will take
  events,      \* the events channel
  got,         \* what the receiver has taken: count, latest session and seq
  \* the connection
  conn,        \* "none", "open", or "half": the other end is gone
  down,        \* server -> client, in flight
  hand,        \* the handshake message in flight to the server
  \* the server
  att,         \* the session this connection is attached to, 0 for none
  cur,         \* the last dispatch of att sent on this connection
  made,        \* made[i]: dispatches of session i so far
  live,        \* sessions the server would resume
  opened,      \* number of sessions opened so far
  \* environment and observers
  faults, shutdowns,
  told,        \* observer: sessions an INVALID_SESSION was read for
  slept,       \* observer: the last delay slept, 0 before the first
  since        \* observer: "failed", "closed" or "flowed" since that sleep

taskVars   == <<pc, session, pending, backoff>>
chanVars   == <<events, got>>
connVars   == <<conn, down, hand>>
serverVars == <<att, cur, made, live, opened>>
envVars    == <<faults, shutdowns>>
obsVars    == <<told, slept, since>>
vars == <<taskVars, chanVars, connVars, serverVars, envVars, obsVars>>

SessionIds == 1..MaxSessions
NoSession  == [id |-> 0, seq |-> 0]
NoHand     == [op |-> "none", sid |-> 0, seq |-> 0]

\* READY is the first dispatch of its session.  RESUMED carries no number on
\* the wire: its s here is the position of the session it confirms.
Dispatch(i, k) == [op |-> IF k = 1 THEN "READY" ELSE "DISPATCH", sid |-> i, s |-> k]
Resumed(i, k)  == [op |-> "RESUMED", sid |-> i, s |-> k]
Signal(o)      == [op |-> o, sid |-> 0, s |-> 0]
Dispatches == {Dispatch(i, k) : i \in SessionIds, k \in 1..MaxEvents}
              \cup {Resumed(i, k) : i \in SessionIds, k \in 1..MaxEvents}
Messages   == Dispatches \cup {Signal(o) : o \in {"HELLO", "INVALID_SESSION", "CLOSE"}}
NoEvent    == Signal("none")

Identify == [op |-> "IDENTIFY", sid |-> 0, seq |-> 0]
Resume(i, k) == [op |-> "RESUME", sid |-> i, seq |-> k]
Hands == {NoHand, Identify} \cup [op : {"RESUME"}, sid : SessionIds, seq : 1..MaxEvents]

Double(b) == IF 2 * b <= MaxBackoff THEN 2 * b ELSE MaxBackoff

-----------------------------------------------------------------------------
(* The reconnect loop and the handshake.                                     *)

\* Slips this code could have: each Bad definition stands beside the one it would
\* replace, and some property has to notice.

BadLeave(ok) ==   \* the delay is reset after an error too
  /\ pc' = "backoff" /\ backoff' = 1
  /\ conn' = "none" /\ down' = <<>> /\ hand' = NoHand
  /\ att' = 0 /\ cur' = 0

\* run_gateway returns: the socket is dropped, the loop is about to wait.
\* Only Ok(()) resets the delay.
Leave(ok) ==
  /\ pc' = "backoff"
  /\ backoff' = IF ok THEN 1 ELSE backoff
  /\ conn' = "none" /\ down' = <<>> /\ hand' = NoHand
  /\ att' = 0 /\ cur' = 0

ConnectOk ==
  /\ pc = "connect"
  /\ pc' = "hello"
  /\ conn' = "open" /\ down' = <<Signal("HELLO")>> /\ hand' = NoHand
  /\ UNCHANGED <<session, pending, backoff, chanVars, serverVars, envVars, obsVars>>

\* A connect error or the 15 s timeout.
ConnectFails ==
  /\ pc = "connect" /\ faults < MaxFaults
  /\ faults' = faults + 1
  /\ Leave(FALSE)
  /\ UNCHANGED <<session, pending, chanVars, made, live, opened, shutdowns, obsVars>>

\* Closed before HELLO, or the 10 s timeout.
HelloFails ==
  /\ pc = "hello" /\ conn = "half" /\ down = <<>>
  /\ Leave(FALSE)
  /\ UNCHANGED <<session, pending, chanVars, made, live, opened, envVars, obsVars>>

CanResume == session.id # 0 /\ session.seq # 0

Handshake ==
  /\ pc = "hello" /\ down # <<>> /\ Head(down).op = "HELLO"
  /\ pc' = "read"
  /\ down' = Tail(down)
  /\ hand' = IF conn # "open" THEN NoHand
             ELSE IF CanResume THEN Resume(session.id, session.seq) ELSE Identify
  /\ since' = IF since = "failed" THEN "closed" ELSE since
  /\ UNCHANGED <<session, pending, backoff, chanVars, conn, serverVars, envVars,
                 told, slept>>

HandshakeSendFails ==
  /\ pc = "hello" /\ down # <<>> /\ conn = "half"
  /\ Leave(FALSE)
  /\ UNCHANGED <<session, pending, chanVars, made, live, opened, envVars, obsVars>>

Sleep ==
  /\ pc = "backoff"
  /\ pc' = "connect"
  /\ backoff' = Double(backoff)
  /\ slept' = backoff
  /\ since' = "failed"
  /\ UNCHANGED <<session, pending, chanVars, connVars, serverVars, envVars, told>>

-----------------------------------------------------------------------------
(* The read loop. *)

\* track_session on a dispatch, then handle_text starts tx.send.
TrackDispatch(m) ==
  session' = [id  |-> IF m.op = "READY" THEN m.sid ELSE session.id,
              seq |-> IF m.op = "RESUMED" THEN session.seq ELSE m.s]

ReadDispatch ==
  /\ pc = "read" /\ down # <<>>
  /\ LET m == Head(down)
     IN  /\ m \in Dispatches
         /\ TrackDispatch(m)
         /\ pending' = m
         /\ since' = IF m.op \in {"READY", "RESUMED"} THEN "flowed" ELSE since
  /\ pc' = "push"
  /\ down' = Tail(down)
  /\ UNCHANGED <<backoff, chanVars, conn, hand, serverVars, envVars, told, slept>>

BadPush ==   \* try_send: a full channel drops the event
  /\ pc = "push"
  /\ events' = IF Len(events) < EventsCap THEN Append(events, pending) ELSE events
  /\ pending' = NoEvent
  /\ pc' = "read"
  /\ UNCHANGED <<session, backoff, got, connVars, serverVars, envVars, obsVars>>

\* tx.send(event).await returns once the channel has room.
Push ==
  /\ pc = "push" /\ Len(events) < EventsCap
  /\ events' = Append(events, pending)
  /\ pending' = NoEvent
  /\ pc' = "read"
  /\ UNCHANGED <<session, backoff, got, connVars, serverVars, envVars, obsVars>>

BadReadInvalidSession ==   \* the session is kept
  /\ pc = "read" /\ down # <<>> /\ Head(down).op = "INVALID_SESSION"
  /\ told' = told \cup ({session.id} \ {0})
  /\ down' = Tail(down)
  /\ UNCHANGED <<taskVars, chanVars, conn, hand, serverVars, envVars, slept, since>>

\* SessionState::reset; the loop goes on reading the same connection.
ReadInvalidSession ==
  /\ pc = "read" /\ down # <<>> /\ Head(down).op = "INVALID_SESSION"
  /\ session' = NoSession
  /\ told' = told \cup ({session.id} \ {0})
  /\ down' = Tail(down)
  /\ UNCHANGED <<pc, pending, backoff, chanVars, conn, hand, serverVars, envVars,
                 slept, since>>

ReadClose ==
  /\ pc = "read" /\ down # <<>> /\ Head(down).op = "CLOSE"
  /\ Leave(TRUE)
  /\ UNCHANGED <<session, pending, chanVars, made, live, opened, envVars, obsVars>>

\* A read error, the end of the stream, or a heartbeat that cannot be sent.
ConnectionEnds ==
  /\ pc = "read" /\ conn = "half" /\ down = <<>>
  /\ Leave(TRUE)
  /\ UNCHANGED <<session, pending, chanVars, made, live, opened, envVars, obsVars>>

-----------------------------------------------------------------------------
(* The handle: recv and shutdown. *)

Recv ==
  /\ events # <<>>
  /\ LET m == Head(events)
     IN  got' = IF m.op = "RESUMED" THEN got
                   ELSE [n |-> got.n + 1, sid |-> m.sid, s |-> m.s]
  /\ events' = Tail(events)
  /\ UNCHANGED <<taskVars, connVars, serverVars, envVars, obsVars>>

\* notify_waiters wakes the waiting select only.  In the read loop another
\* ready branch may win, and the notification goes with the dropped future;
\* while the task is anywhere else nobody is waiting and it is lost.
Shutdown ==
  /\ shutdowns < MaxShutdowns /\ pc # "stopped"
  /\ shutdowns' = shutdowns + 1
  /\ \/ /\ pc = "read"
        /\ Leave(TRUE)
     \/ /\ pc = "backoff"
        /\ pc' = "stopped"
        /\ UNCHANGED <<backoff, connVars, att, cur>>
     \/ /\ pc \notin {"read", "backoff"} \/ (pc = "read" /\ down # <<>>)
        /\ UNCHANGED <<pc, backoff, connVars, att, cur>>
  /\ UNCHANGED <<session, pending, chanVars, made, live, opened, faults, obsVars>>

-----------------------------------------------------------------------------
(* The server and the network (external). *)

SrvIdentify ==
  /\ conn = "open" /\ hand = Identify /\ opened < MaxSessions
  /\ opened' = opened + 1
  /\ live' = live \cup {opened + 1}
  /\ made' = [made EXCEPT ![opened + 1] = 1]
  /\ att' = opened + 1 /\ cur' = 0
  /\ hand' = NoHand
  /\ UNCHANGED <<taskVars, chanVars, conn, down, envVars, obsVars>>

SrvResume ==
  /\ conn = "open" /\ hand.op = "RESUME" /\ hand.sid \in live
  /\ Len(down) < MaxWire
  /\ att' = hand.sid /\ cur' = hand.seq
  /\ down' = Append(down, Resumed(hand.sid, hand.seq))
  /\ hand' = NoHand
  /\ UNCHANGED <<taskVars, chanVars, conn, made, live, opened, envVars, obsVars>>

\* The server ends a session: op 9, op 9 and a close, or only a close code.
Rejection(w) ==
  /\ down' = down \o (IF w = "close" THEN <<>> ELSE <<Signal("INVALID_SESSION")>>)
                  \o (IF w = "op9" THEN <<>> ELSE <<Signal("CLOSE")>>)
  /\ conn' = IF w = "op9" THEN "open" ELSE "half"
  /\ hand' = NoHand
  /\ att' = 0 /\ cur' = 0

SrvReject ==
  /\ conn = "open" /\ hand.op = "RESUME" /\ hand.sid \notin live
  /\ \E w \in RejectWays : Rejection(w)
  /\ UNCHANGED <<taskVars, chanVars, made, live, opened, envVars, obsVars>>

SrvSend ==
  /\ conn = "open" /\ att # 0 /\ cur < made[att] /\ Len(down) < MaxWire
  /\ down' = Append(down, Dispatch(att, cur + 1))
  /\ cur' = cur + 1
  /\ UNCHANGED <<taskVars, chanVars, conn, hand, att, made, live, opened, envVars, obsVars>>

SrvProduce(i) ==
  /\ i \in live /\ made[i] < MaxEvents
  /\ made' = [made EXCEPT ![i] = @ + 1]
  /\ UNCHANGED <<taskVars, chanVars, connVars, att, cur, live, opened, envVars, obsVars>>

\* A detached session times out, or a restart forgets it.
SrvForget(i) ==
  /\ i \in live /\ i # att /\ faults < MaxFaults
  /\ faults' = faults + 1
  /\ live' = live \ {i}
  /\ UNCHANGED <<taskVars, chanVars, connVars, att, cur, made, opened, shutdowns, obsVars>>

SrvInvalidate ==
  /\ conn = "open" /\ att # 0 /\ faults < MaxFaults
  /\ faults' = faults + 1
  /\ live' = live \ {att}
  /\ \E w \in RejectWays : Rejection(w)
  /\ UNCHANGED <<taskVars, chanVars, made, opened, shutdowns, obsVars>>

SrvClose ==
  /\ conn = "open" /\ faults < MaxFaults
  /\ faults' = faults + 1
  /\ Rejection("close")
  /\ UNCHANGED <<taskVars, chanVars, made, live, opened, shutdowns, obsVars>>

\* The connection breaks; what is in flight in either direction is lost.
Break ==
  /\ conn = "open" /\ faults < MaxFaults
  /\ faults' = faults + 1
  /\ conn' = "half" /\ down' = <<>> /\ hand' = NoHand
  /\ att' = 0 /\ cur' = 0
  /\ UNCHANGED <<taskVars, chanVars, made, live, opened, shutdowns, obsVars>>

-----------------------------------------------------------------------------
Init ==
  /\ pc = "connect" /\ session = NoSession /\ pending = NoEvent /\ backoff = 1
  /\ events = <<>> /\ got = [n |-> 0, sid |-> 0, s |-> 0]
  /\ conn = "none" /\ down = <<>> /\ hand = NoHand
  /\ att = 0 /\ cur = 0 /\ made = [i \in SessionIds |-> 0] /\ live = {} /\ opened = 0
  /\ faults = 0 /\ shutdowns = 0
  /\ told = {} /\ slept = 0 /\ since = "failed"

TaskStep ==
  \/ ConnectOk \/ HelloFails \/ Handshake \/ HandshakeSendFails \/ Sleep
  \/ ReadDispatch \/ Push \/ ReadInvalidSession \/ ReadClose \/ ConnectionEnds

ServerStep == SrvIdentify \/ SrvResume \/ SrvReject \/ SrvSend

Environment ==
  \/ ConnectFails \/ Shutdown
  \/ SrvInvalidate \/ SrvClose \/ Break
  \/ \E i \in SessionIds : SrvProduce(i) \/ SrvForget(i)

Next == TaskStep \/ Recv \/ ServerStep \/ Environment

Spec == Init /\ [][Next]_vars

\* The runtime polls a ready task, the caller keeps receiving, and the server
\* answers what it has been sent; nothing is assumed of the faults.
FairSpec == Spec /\ WF_vars(TaskStep) /\ WF_vars(Recv) /\ WF_vars(ServerStep)

-----------------------------------------------------------------------------
(* Properties. *)

\* Every variable has its type; the one type invariant of this module.
TypeOK ==
  /\ pc \in {"connect", "hello", "read", "push", "backoff", "stopped"}
  /\ session \in [id : 0..MaxSessions, seq : 0..MaxEvents]
  /\ IF pc = "push" THEN pending \in Dispatches ELSE pending = NoEvent
  /\ backoff \in 1..MaxBackoff
  /\ events \in Seq(Dispatches)
  /\ got \in [n : Nat, sid : 0..MaxSessions, s : 0..MaxEvents]
  /\ conn \in {"none", "open", "half"}
  /\ down \in Seq(Messages)
  /\ hand \in Hands
  /\ att \in 0..MaxSessions /\ cur \in 0..MaxEvents
  /\ made \in [SessionIds -> 0..MaxEvents]
  /\ live \subseteq SessionIds
  /\ opened \in 0..MaxSessions
  /\ faults \in 0..MaxFaults /\ shutdowns \in 0..MaxShutdowns
  /\ told \subseteq SessionIds
  /\ slept \in 0..MaxBackoff
  /\ since \in {"failed", "closed", "flowed"}

\* Across drops, RESUMEs and new sessions the caller of recv sees each
\* session's dispatches in order, without a gap or a repeat, and never an
\* older session after a newer one: the task implements EventStream.
Stream == INSTANCE EventStream WITH MaxSessions <- MaxSessions, MaxEvents <- MaxEvents,
                                    made <- made, got <- got
DeliversTheStream == Stream!StreamSpec

\* Where the events handed to the caller have got to: the last of them that is
\* still on its way through the task and the channel, or got when none is.
End == IF pc = "push" THEN pending
       ELSE IF events # <<>> THEN events[Len(events)] ELSE got

\* m is what may come right behind position p: RESUMED confirms p, another
\* dispatch is the next of p's session or the READY of a newer one.
Behind(p, m) ==
  IF m.op = "RESUMED" THEN m.sid = p.sid /\ m.s = p.s
  ELSE \/ m.sid = p.sid /\ m.s = p.s + 1
       \/ m.sid > p.sid /\ m.s = 1

Known(m) == m \in Dispatches => m.sid <= opened /\ m.s <= made[m.sid]

\* The inductive invariant behind DeliversTheStream: from what the caller has
\* received, through channel, task and wire, to the server's own cursor, every
\* dispatch comes right behind the one before it, and the session to RESUME is
\* exactly the end of what the task has taken off the wire.
ChannelChain ==
  /\ events # <<>> => Behind(got, events[1])
  /\ \A i \in 1..Len(events) - 1 : Behind(events[i], events[i + 1])
  /\ pc = "push" => Behind(IF events # <<>> THEN events[Len(events)] ELSE got, pending)

SessionAtEnd ==
  \/ session = NoSession
  \/ session.id = End.sid /\ session.seq = End.s /\ session.id # 0 /\ session.seq # 0

WireChain ==
  /\ down # <<>> /\ down[1] \in Dispatches =>
       /\ Behind(End, down[1])
       /\ session = NoSession => down[1].sid > End.sid
  /\ \A i \in 1..Len(down) - 1 : down[i + 1] \in Dispatches =>
       down[i] \in Dispatches /\ Behind(down[i], down[i + 1])

ServerChain ==
  /\ att # 0 =>
       /\ conn = "open" /\ pc \in {"read", "push"} /\ hand = NoHand
       /\ att <= opened /\ cur <= made[att]
       /\ \A i \in 1..Len(down) : down[i] \in Dispatches
       /\ Behind(IF down # <<>> THEN down[Len(down)] ELSE End, Dispatch(att, cur + 1))
       /\ down = <<>> /\ session = NoSession => att > End.sid
  /\ hand # NoHand =>
       /\ conn = "open" /\ pc = "read" /\ down = <<>>
       /\ hand = (IF session = NoSession THEN Identify ELSE Resume(session.id, session.seq))

Bounded ==
  /\ got.sid <= opened /\ (got.sid # 0 => got.s <= made[got.sid])
  /\ \A i \in 1..Len(events) : Known(events[i])
  /\ \A i \in 1..Len(down) : Known(down[i])
  /\ pc = "push" => Known(pending)
  /\ \A i \in SessionIds : i > opened => made[i] = 0
  /\ live \subseteq 1..opened

Phase ==
  /\ pc \in {"connect", "backoff", "stopped"} => conn = "none" /\ down = <<>>
  /\ pc = "hello" => /\ Len(down) <= 2
                     /\ Len(down) >= 1 => down[1] = Signal("HELLO")
                     /\ Len(down) = 2 => down[2] = Signal("CLOSE")
                     /\ conn = "open" => Len(down) = 1
  /\ pc \in {"read", "push"} => \A i \in 1..Len(down) : down[i].op # "HELLO"

StreamInv ==
  ChannelChain /\ SessionAtEnd /\ WireChain /\ ServerChain /\ Bounded /\ Phase

\* Once INVALID_SESSION was read for a session, no later connection tries to
\* RESUME it (SessionState::reset, and can_resume of run_gateway).
NoDeadResume ==
  [][hand'.op = "RESUME" /\ hand' # hand => hand'.sid \notin told]_vars

\* While no connection gets past its handshake, each wait is twice the one
\* before, up to MaxBackoff: failing connects are spread out.
HandshakeFailuresBackOff ==
  [][pc = "backoff" /\ pc' = "connect" /\ since = "failed" /\ slept # 0
       => slept' = Double(slept)]_vars

\* Whatever a session the server still keeps has dispatched reaches the caller,
\* however many connections it takes, unless the task was stopped.
Reached(i, k) == got.sid > i \/ (got.sid = i /\ got.s >= k)
EventuallyDelivered ==
  \A i \in SessionIds, k \in 1..MaxEvents :
    (i \in live /\ made[i] >= k) ~> (Reached(i, k) \/ i \notin live \/ pc = "stopped")

\* The connection "automatically reconnects on close or error ... so real-time
\* updates keep flowing even after a network blip or a server-side restart".
UpdatesKeepFlowing == []<>(att # 0 \/ pc = "stopped")

-----------------------------------------------------------------------------
(* Sentences of the code's docs and comments that this model refutes.  No    *)
(* run checks them; README.md says what the code does instead.              *)

\* "Returns None when the gateway task has exited (e.g. after shutdown ...)":
\* a call of shutdown is followed by the task's exit.
ShutdownStops == (shutdowns > 0) ~> (pc = "stopped")

\* "gateway session invalid; will re-IDENTIFY": after INVALID_SESSION the task
\* identifies anew.
ReIdentifies ==
  (told # {} /\ session = NoSession) ~> (hand = Identify \/ session # NoSession
                                          \/ pc = "stopped")

\* "automatically reconnects on close or error with an exponential backoff":
\* with no READY or RESUMED in between, each wait is longer than the last.
CloseBacksOff ==
  [][pc = "backoff" /\ pc' = "connect" /\ since # "flowed" /\ slept # 0
       => slept' = Double(slept)]_vars
==============================================================================
