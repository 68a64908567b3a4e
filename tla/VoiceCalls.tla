----------------------------- MODULE VoiceCalls -----------------------------
(***************************************************************************)
(* One voice call of the user: VoiceStore (web/src/stores.ts) sends op 4   *)
(* through the backend and connects a LiveKit room when the server answers *)
(* with VOICE_SERVER_UPDATE; LiveKitRoom (web/src/voice/LiveKitRoom.ts)    *)
(* wraps livekit-client, whose connect and disconnect take turns at a      *)
(* lock.  The voice server, moderators and livekit-client are external.    *)
(* Every op 4 and every VOICE_SERVER_UPDATE arrives (the core only logs a  *)
(* send that fails), and moderators move the user but do not disconnect    *)
(* him.                                                                    *)
(***************************************************************************)
EXTENDS Naturals, Sequences, SequencesExt

CONSTANTS
  Channels,    \* voice channels
  NoChannel,   \* null
  MaxClicks,   \* bound: joins, leaves and toggles of the user
  MaxMoves,    \* bound: moves of the user by a moderator
  MaxLosses    \* bound: connections the room loses by itself

ASSUME VoiceConstants ==
  NoChannel \notin Channels /\ {MaxClicks, MaxMoves, MaxLosses} \subseteq Nat

VARIABLES
  \* the store
  pending,     \* pendingChannelId
  mirror,      \* connectionState
  lastError,   \* is there one?
  \* the backend and the server
  ops,         \* voice_state_update calls on their way, in the order of the clicks
  voiceOf,     \* the channel the server has the user in
  updates,     \* VOICE_SERVER_UPDATE events on their way
  \* the room
  room,        \* room.state, "none" while the store has no room
  at,          \* the channel of the connection or the attempt
  waiting,     \* connect and disconnect calls at the lock, first come first
  closing,     \* the first of them is a disconnect that closes the connection
  \* bounds and observers
  clicks, moves, losses,
  excuses      \* what happened since the room was last as it should be

storeVars  == <<pending, mirror, lastError>>
serverVars == <<voiceOf, updates>>
roomVars   == <<room, at, waiting, closing>>
boundVars  == <<clicks, moves, losses>>
vars == <<storeVars, ops, serverVars, roomVars, boundVars, excuses>>

\* A disconnect is followed by a connect to `then', unless it is NoChannel.
Connect(c) == [call |-> "connect", then |-> c]
Disconnect(c) == [call |-> "disconnect", then |-> c]

Init ==
  /\ pending = NoChannel /\ mirror = "disconnected" /\ lastError = FALSE
  /\ ops = <<>> /\ voiceOf = NoChannel /\ updates = <<>>
  /\ room = "none" /\ at = NoChannel /\ waiting = <<>> /\ closing = FALSE
  /\ clicks = 0 /\ moves = 0 /\ losses = 0
  /\ excuses = {}

Excuse(what, when) == excuses' = IF when THEN excuses \union {what} ELSE excuses

-----------------------------------------------------------------------------
(* The user.                                                               *)

Op(c, leave) ==
  /\ clicks < MaxClicks /\ clicks' = clicks + 1
  /\ ops' = Append(ops, [channel |-> c, leave |-> leave])
  /\ UNCHANGED <<serverVars, roomVars, moves, losses, excuses>>

\* joinChannel.  The header of the channel one is connected to offers to leave.
Join(c) ==
  /\ ~(mirror = "connected" /\ pending = c)
  /\ pending' = c /\ lastError' = FALSE
  /\ Op(c, FALSE)
  /\ UNCHANGED mirror

InVoice == pending # NoChannel \/ mirror = "connected"

\* leaveChannel up to the call of the backend.
Leave ==
  /\ InVoice
  /\ pending' = NoChannel
  /\ Op(NoChannel, TRUE)
  /\ UNCHANGED <<mirror, lastError>>

\* The mute and deafen buttons tell the server, with the channel of the last click.
Reflect ==
  /\ InVoice /\ room # "none"
  /\ Op(pending, FALSE)
  /\ UNCHANGED storeVars

-----------------------------------------------------------------------------
(* The backend and the server.                                             *)

\* The server has the user join, leave or change channel; it need not tell the
\* voice server again when the channel is the one he is in.
Handle(c) ==
  /\ voiceOf' = c
  /\ \/ c # NoChannel /\ updates' = Append(updates, c)
     \/ c \in {NoChannel, voiceOf} /\ UNCHANGED updates

\* A plausible bug: leaving tells the server and forgets the room.
BadDisconnectRoom == UNCHANGED <<waiting, mirror>>

\* disconnectRoom: LiveKitRoom.disconnect goes to the lock.
DisconnectRoom ==
  IF room = "none" THEN mirror' = "disconnected" /\ UNCHANGED waiting
  ELSE waiting' = Append(waiting, Disconnect(NoChannel)) /\ UNCHANGED mirror

\* Nothing is on its way that would connect the room.
Still == updates = <<>> /\ waiting = <<>> /\ room \in {"none", "disconnected"}

\* The calls run side by side in the backend, any of them reaches the command
\* channel next and returns; leaveChannel goes on to disconnect the room.
SendOp(i) == LET op == ops[i] IN
  /\ ops' = RemoveAt(ops, i)
  /\ Handle(op.channel)
  /\ IF op.leave THEN DisconnectRoom ELSE UNCHANGED <<waiting, mirror>>
  /\ excuses' = excuses
       \union (IF i # 1 THEN {"crossed"} ELSE {})
       \union (IF op.channel # NoChannel /\ updates' = updates /\ Still THEN {"silent"} ELSE {})
  /\ UNCHANGED <<pending, lastError, room, at, closing, boundVars>>

\* A moderator moves the user.
Move(c) ==
  /\ moves < MaxMoves /\ moves' = moves + 1
  /\ voiceOf \notin {NoChannel, c}
  /\ voiceOf' = c /\ updates' = Append(updates, c)
  /\ UNCHANGED <<storeVars, ops, roomVars, clicks, losses, excuses>>

-----------------------------------------------------------------------------
(* connectRoom and LiveKitRoom.                                            *)

\* A plausible bug: a room that is still connecting is not disconnected first.
BadConnectRoom(c) ==
  IF room = "connected"
  THEN waiting' = Append(waiting, Disconnect(c)) /\ UNCHANGED mirror
  ELSE waiting' = Append(waiting, Connect(c)) /\ mirror' = "connecting"

ConnectRoom(c) ==
  IF room \in {"connecting", "connected"}
  THEN waiting' = Append(waiting, Disconnect(c)) /\ UNCHANGED mirror
  ELSE waiting' = Append(waiting, Connect(c)) /\ mirror' = "connecting"

\* applyVoiceServerUpdate: whatever the user has asked for since.
ApplyServerUpdate ==
  /\ updates # <<>> /\ updates' = Tail(updates)
  /\ room' = IF room = "none" THEN "disconnected" ELSE room
  /\ ConnectRoom(Head(updates))
  /\ excuses' = excuses
       \union (IF pending = NoChannel THEN {"late"} ELSE {})
       \union (IF waiting # <<>> THEN {"overlap"} ELSE {})
  /\ UNCHANGED <<pending, lastError, ops, voiceOf, at, closing, boundVars>>

Free == ~closing /\ waiting # <<>>

\* Room.connect has the lock: it opens a connection, or joins in the one there
\* is, whatever channel that is of.
LockConnect == LET c == Head(waiting).then IN
  /\ Free /\ Head(waiting).call = "connect"
  /\ waiting' = Tail(waiting)
  /\ room' = IF room = "connected" THEN room ELSE "connecting"
  /\ at' = IF room = "disconnected" THEN c ELSE at
  /\ mirror' = room'
  /\ lastError' = (lastError /\ room # "connected")
  /\ Excuse("late", pending = NoChannel)
  /\ UNCHANGED <<pending, ops, serverVars, closing, boundVars>>

\* Room.disconnect has the lock and a connection to close; an attempt is given
\* up, which those who wait for it report.
StartClose ==
  /\ Free /\ Head(waiting).call = "disconnect" /\ room # "disconnected"
  /\ closing' = TRUE
  /\ IF room = "connecting" THEN mirror' = "disconnected" /\ lastError' = TRUE
     ELSE UNCHANGED <<mirror, lastError>>
  /\ UNCHANGED <<pending, ops, serverVars, room, at, waiting, boundVars, excuses>>

\* It is closed, or there was none.  LiveKitRoom says so, and a caller that
\* wants to connect goes back to the lock.
EndClose == LET c == Head(waiting).then IN
  /\ closing \/ (Free /\ Head(waiting).call = "disconnect" /\ room = "disconnected")
  /\ closing' = FALSE
  /\ room' = "disconnected" /\ at' = NoChannel
  /\ IF c = NoChannel THEN waiting' = Tail(waiting) /\ mirror' = "disconnected"
     ELSE waiting' = Append(Tail(waiting), Connect(c)) /\ mirror' = "connecting"
  /\ UNCHANGED <<pending, lastError, ops, serverVars, boundVars, excuses>>

Connected ==
  /\ room = "connecting" /\ ~closing
  /\ room' = "connected" /\ mirror' = "connected"
  /\ lastError' \in BOOLEAN   \* the microphone may not be published
  /\ UNCHANGED <<pending, ops, serverVars, at, waiting, closing, boundVars, excuses>>

\* A plausible bug: the failure is reported and the state left as it was.
BadConnectFails ==
  /\ room = "connecting" /\ ~closing
  /\ room' = "disconnected" /\ at' = NoChannel
  /\ lastError' = TRUE
  /\ UNCHANGED <<pending, mirror, ops, serverVars, waiting, closing, boundVars, excuses>>

ConnectFails ==
  /\ room = "connecting" /\ ~closing
  /\ room' = "disconnected" /\ at' = NoChannel
  /\ mirror' = "disconnected" /\ lastError' = TRUE
  /\ UNCHANGED <<pending, ops, serverVars, waiting, closing, boundVars, excuses>>

\* The connection is lost, and livekit-client has given up getting it back.
Lose ==
  /\ room = "connected" /\ ~closing
  /\ losses < MaxLosses /\ losses' = losses + 1
  /\ room' = "disconnected" /\ at' = NoChannel /\ mirror' = "disconnected"
  /\ Excuse("lost", TRUE)
  /\ UNCHANGED <<pending, lastError, ops, serverVars, waiting, closing, clicks, moves>>

-----------------------------------------------------------------------------
User == Leave \/ Reflect \/ \E c \in Channels : Join(c)
Server == \E c \in Channels : Move(c)
Room == LockConnect \/ StartClose \/ EndClose \/ Connected \/ ConnectFails

Next ==
  \/ User \/ Server \/ Room \/ Lose
  \/ ApplyServerUpdate
  \/ \E i \in DOMAIN ops : SendOp(i)

Spec == Init /\ [][Next]_vars

\* livekit-client hands the lock on, ends a close, and a connection attempt
\* succeeds or fails (it has a timeout).
FairSpec == Spec /\ WF_vars(Room)

-----------------------------------------------------------------------------
(* Properties.                                                             *)

Calls == [call : {"connect"}, then : Channels]
           \cup [call : {"disconnect"}, then : Channels \cup {NoChannel}]

\* Types; a room is of a channel exactly while there is a connection or an
\* attempt, and only a disconnect closes one.
TypeOK ==
  /\ pending \in Channels \cup {NoChannel}
  /\ mirror \in {"disconnected", "connecting", "connected"}
  /\ lastError \in BOOLEAN
  /\ ops \in Seq([channel : Channels \cup {NoChannel}, leave : BOOLEAN])
  /\ voiceOf \in Channels \cup {NoChannel}
  /\ updates \in Seq(Channels)
  /\ room \in {"none", "disconnected", "connecting", "connected"}
  /\ at \in Channels \cup {NoChannel}
  /\ (at # NoChannel) = (room \in {"connecting", "connected"})
  /\ waiting \in Seq(Calls)
  /\ closing \in BOOLEAN
  /\ closing => waiting # <<>> /\ Head(waiting).call = "disconnect"
  /\ clicks \in 0..MaxClicks /\ moves \in 0..MaxMoves /\ losses \in 0..MaxLosses
  /\ excuses \subseteq {"crossed", "silent", "late", "overlap", "lost"}

Settled == ops = <<>> /\ updates = <<>> /\ waiting = <<>> /\ room # "connecting"

\* Where the call belongs: where the user asked for last, or, once a moderator has
\* moved him, where the server has him.
Wanted == IF moves = 0 THEN pending ELSE voiceOf

\* When everything has arrived, the room is connected to the channel the call
\* belongs to or an error says why there is no connection, and after the user
\* left there is none; what is shown agrees (stores.ts 1812-1832).  Excused: an
\* update applied, or a connect that got the lock, after he left (late); an update
\* applied while the room was still busy with the one before it (overlap); two
\* calls of the backend that overtook each other (crossed); a lost connection;
\* and a server that says nothing to a repeated join while nothing else is on its
\* way (silent).
CallFollowsTheUser ==
  Settled /\ excuses = {} =>
    /\ mirror = (IF room = "none" THEN "disconnected" ELSE room)
    /\ IF Wanted = NoChannel THEN room # "connected"
       ELSE IF room = "connected" THEN at = Wanted
       ELSE lastError

\* "Connecting" is not shown for ever: whoever overtakes whom at the lock, every
\* attempt is seen to end (LiveKitRoom.ts 162-233).
ConnectingEnds == mirror = "connecting" ~> mirror # "connecting"

-----------------------------------------------------------------------------
(* Sentences of the code's docs that this model refutes.  No run checks    *)
(* them; README.md says what the code does instead.                        *)

\* What the doc of leaveChannel says, stores.ts 1822-1823: it "disconnects the
\* LiveKit room".
LeaveEndsTheCall == Settled /\ pending = NoChannel /\ voiceOf = NoChannel => room # "connected"

\* What the doc of connectRoom says, stores.ts 1835-1836: "if a room is already
\* connected it's disconnected first".
ConnectsAfresh == [][LockConnect => room # "connected"]_vars
=============================================================================
