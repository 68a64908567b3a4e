-------------------------- MODULE VoiceCallsProofs --------------------------
(***************************************************************************)
(* Theorems about VoiceCalls, for every value of its constants.            *)
(***************************************************************************)
EXTENDS VoiceCalls, Integers, TLAPS

-----------------------------------------------------------------------------
(* Types. *)

Places == Channels \cup {NoChannel}
Ops == [channel : Places, leave : BOOLEAN]

LEMMA RemovedFrom ==
  ASSUME NEW S, NEW s \in Seq(S), NEW i \in DOMAIN s
  PROVE  /\ RemoveAt(s, i) \in Seq(S)
         /\ i = 1 => /\ Len(RemoveAt(s, i)) = Len(s) - 1
                     /\ \A k \in 1..(Len(s) - 1) : RemoveAt(s, i)[k] = s[k + 1]
  BY DEF RemoveAt

\* The only one of a sequence is its last.
LEMMA LastLeft ==
  ASSUME NEW S, NEW s \in Seq(S), s # <<>>, Tail(s) = <<>>
  PROVE  Head(s) = s[Len(s)]
<1>1. \A t \in Seq(S) : t = <<>> => Len(t) = 0
  OBVIOUS
<1>2. Tail(s) \in Seq(S) /\ Len(Tail(s)) = Len(s) - 1 /\ Len(s) \in Nat
  OBVIOUS
<1>3. Len(s) = 1
  BY <1>1, <1>2
<1> QED BY <1>3

LEMMA CallFacts ==
  /\ Connect(NoChannel).then = NoChannel
  /\ \A c \in Channels : Connect(c) \in Calls /\ Connect(c).call = "connect" /\ Connect(c).then = c
  /\ \A c \in Places : Disconnect(c) \in Calls /\ Disconnect(c).call = "disconnect" /\ Disconnect(c).then = c
  /\ \A x \in Calls : /\ x.call \in {"connect", "disconnect"} /\ x.then \in Places
                      /\ x.call = "connect" => x.then \in Channels
                      /\ x = [call |-> x.call, then |-> x.then]
  BY DEF Connect, Disconnect, Calls, Places

\* The lock's queue, by its head and its rest.
LEMMA QueueFacts ==
  ASSUME waiting \in Seq(Calls), waiting # <<>>
  PROVE  /\ Head(waiting) \in Calls /\ Head(waiting) = waiting[1] /\ Len(waiting) \in Nat /\ Len(waiting) >= 1
         /\ Tail(waiting) \in Seq(Calls) /\ Len(Tail(waiting)) = Len(waiting) - 1
         /\ \A k \in 1..(Len(waiting) - 1) : Tail(waiting)[k] = waiting[k + 1]
  OBVIOUS

\* A call that goes to the lock's queue leaves its head as it was.
LEMMA QueueGrows ==
  ASSUME waiting \in Seq(Calls), NEW x \in Calls
  PROVE  /\ Append(waiting, x) \in Seq(Calls) /\ Append(waiting, x) # <<>>
         /\ waiting # <<>> => Head(Append(waiting, x)) = Head(waiting)
         /\ waiting = <<>> => Append(waiting, x) = <<x>>
<1>1. Append(<<>>, x) = <<x>>
  OBVIOUS
<1>2. Append(waiting, x) \in Seq(Calls) /\ Append(waiting, x) # <<>>
  <2>1. Len(Append(waiting, x)) = Len(waiting) + 1 /\ Len(waiting) \in Nat
    OBVIOUS
  <2>2. Append(waiting, x) \in Seq(Calls)
    OBVIOUS
  <2> QED BY <2>1, <2>2
<1>3. waiting # <<>> => Head(Append(waiting, x)) = Head(waiting)
  OBVIOUS
<1> QED BY <1>1, <1>2, <1>3

RoomTypes == /\ room \in {"none", "disconnected", "connecting", "connected"} /\ at \in Places
             /\ (at # NoChannel) = (room \in {"connecting", "connected"})
QueueTypes == /\ waiting \in Seq(Calls) /\ closing \in BOOLEAN
              /\ closing => waiting # <<>> /\ Head(waiting).call = "disconnect"
              /\ waiting # <<>> => room # "none"
StoreTypes == /\ pending \in Places /\ mirror \in {"disconnected", "connecting", "connected"}
              /\ lastError \in BOOLEAN
ServerTypes == ops \in Seq(Ops) /\ voiceOf \in Places /\ updates \in Seq(Channels)
BoundTypes == clicks \in 0..MaxClicks /\ moves \in 0..MaxMoves /\ losses \in 0..MaxLosses
ExcuseTypes == excuses \subseteq {"crossed", "silent", "late", "overlap", "lost"}

CallTypes == RoomTypes /\ QueueTypes /\ StoreTypes /\ ServerTypes /\ BoundTypes /\ ExcuseTypes

LEMMA TypesFollow == CallTypes => TypeOK
  BY DEF CallTypes, TypeOK, RoomTypes, QueueTypes, StoreTypes, ServerTypes, BoundTypes, ExcuseTypes, Places, Ops

LEMMA TypesKeep ==
  ASSUME CallTypes, Next
  PROVE  CallTypes'
<1>1. /\ RoomTypes /\ QueueTypes /\ StoreTypes /\ ServerTypes /\ BoundTypes /\ ExcuseTypes
      /\ NoChannel \notin Channels /\ MaxClicks \in Nat /\ MaxMoves \in Nat /\ MaxLosses \in Nat
  BY VoiceConstants DEF CallTypes
<1>2. ASSUME NEW c \in Places, NEW b \in BOOLEAN, Op(c, b)
      PROVE  RoomTypes' /\ QueueTypes' /\ ServerTypes' /\ BoundTypes' /\ ExcuseTypes'
  <2>1. [channel |-> c, leave |-> b] \in Ops
    BY DEF Ops
  <2>2. ServerTypes'
    BY <1>1, <1>2, <2>1 DEF Op, serverVars, ServerTypes
  <2>3. RoomTypes' /\ QueueTypes' /\ ExcuseTypes'
    BY <1>1, <1>2 DEF Op, roomVars, RoomTypes, QueueTypes, ExcuseTypes
  <2>4. BoundTypes'
    BY <1>1, <1>2 DEF Op, BoundTypes
  <2> QED BY <2>2, <2>3, <2>4
<1>3. CASE Leave
  <2>1. Op(NoChannel, TRUE) /\ NoChannel \in Places /\ StoreTypes'
    BY <1>1, <1>3 DEF Leave, StoreTypes, Places
  <2> QED BY <1>2, <2>1 DEF CallTypes
<1>4. CASE Reflect
  <2>1. Op(pending, FALSE) /\ pending \in Places /\ StoreTypes'
    BY <1>1, <1>4 DEF Reflect, StoreTypes, storeVars
  <2> QED BY <1>2, <2>1 DEF CallTypes
<1>5. ASSUME NEW c \in Channels, Join(c) PROVE CallTypes'
  <2>1. Op(c, FALSE) /\ c \in Places /\ StoreTypes'
    BY <1>1, <1>5 DEF Join, StoreTypes, Places
  <2> QED BY <1>2, <2>1 DEF CallTypes
<1>6. ASSUME NEW c \in Channels, Move(c) PROVE CallTypes'
  <2>1. ServerTypes' /\ BoundTypes'
    BY <1>1, <1>6 DEF Move, ServerTypes, BoundTypes, Places
  <2>2. RoomTypes' /\ QueueTypes' /\ StoreTypes' /\ ExcuseTypes'
    BY <1>1, <1>6 DEF Move, storeVars, roomVars, RoomTypes, QueueTypes, StoreTypes, ExcuseTypes
  <2> QED BY <2>1, <2>2 DEF CallTypes
<1>7. CASE ApplyServerUpdate
  <2>1. updates' \in Seq(Channels) /\ Head(updates) \in Channels /\ updates # <<>>
    BY <1>1, <1>7 DEF ApplyServerUpdate, ServerTypes
  <2>2. ServerTypes' /\ BoundTypes' /\ ExcuseTypes'
    BY <1>1, <1>7, <2>1 DEF ApplyServerUpdate, ServerTypes, BoundTypes, boundVars, ExcuseTypes
  <2>3. RoomTypes'
    BY <1>1, <1>7 DEF ApplyServerUpdate, RoomTypes
  <2>4. StoreTypes'
    BY <1>1, <1>7 DEF ApplyServerUpdate, ConnectRoom, StoreTypes
  <2>5. QueueTypes'
    <3>1. PICK x \in Calls : waiting' = Append(waiting, x)
      BY <1>7, <2>1, CallFacts DEF ApplyServerUpdate, ConnectRoom, Places
    <3> QED BY <1>1, <1>7, <3>1, QueueGrows DEF ApplyServerUpdate, QueueTypes
  <2> QED BY <2>2, <2>3, <2>4, <2>5 DEF CallTypes
<1>8. ASSUME NEW i \in DOMAIN ops, SendOp(i) PROVE CallTypes'
  <2>1. ops' \in Seq(Ops) /\ ops[i].channel \in Places
    <3>1. ops \in Seq(Ops) /\ ops[i] \in Ops /\ ops' = RemoveAt(ops, i)
      BY <1>1, <1>8 DEF SendOp, ServerTypes
    <3>2. RemoveAt(ops, i) \in Seq(Ops)
      BY <3>1, RemovedFrom
    <3> QED BY <3>1, <3>2 DEF Ops
  <2>2. ServerTypes'
    <3>1. Handle(ops[i].channel) /\ updates \in Seq(Channels)
      BY <1>1, <1>8 DEF SendOp, ServerTypes
    <3>2. voiceOf' = ops[i].channel /\ updates' \in Seq(Channels)
      BY <2>1, <3>1 DEF Handle, Places
    <3> QED BY <2>1, <3>2 DEF ServerTypes
  <2>3. RoomTypes' /\ BoundTypes' /\ ExcuseTypes'
    BY <1>1, <1>8 DEF SendOp, RoomTypes, BoundTypes, boundVars, ExcuseTypes
  <2>4. StoreTypes'
    BY <1>1, <1>8 DEF SendOp, DisconnectRoom, StoreTypes
  <2>5. waiting' = waiting \/ (room # "none" /\ waiting' = Append(waiting, Disconnect(NoChannel)))
    BY <1>8 DEF SendOp, DisconnectRoom
  <2>6. Disconnect(NoChannel) \in Calls
    BY CallFacts DEF Places
  <2>7. QueueTypes'
    <3>1. closing' = closing /\ room' = room
      BY <1>8 DEF SendOp
    <3> QED BY <1>1, <2>5, <2>6, <3>1, QueueGrows DEF QueueTypes
  <2> QED BY <2>2, <2>3, <2>4, <2>7 DEF CallTypes
<1>9. CASE LockConnect
  <2>1. waiting # <<>> /\ ~closing /\ waiting \in Seq(Calls)
    BY <1>1, <1>9 DEF LockConnect, Free, QueueTypes
  <2>2. Head(waiting).then \in Channels /\ Tail(waiting) \in Seq(Calls)
    BY <1>9, <2>1, QueueFacts, CallFacts DEF LockConnect
  <2>3. room # "none"
    BY <1>1, <2>1 DEF QueueTypes
  <2>4. RoomTypes'
    BY <1>1, <1>9, <2>2, <2>3 DEF LockConnect, RoomTypes, Places
  <2>5. QueueTypes'
    <3>1. waiting' = Tail(waiting) /\ closing' = closing /\ room' # "none"
      BY <1>9, <2>3 DEF LockConnect
    <3> QED BY <1>1, <2>1, <2>2, <3>1 DEF QueueTypes
  <2>6. StoreTypes' /\ ServerTypes' /\ BoundTypes' /\ ExcuseTypes'
    BY <1>1, <1>9 DEF LockConnect, Excuse, StoreTypes, ServerTypes, BoundTypes, ExcuseTypes, serverVars, boundVars
  <2> QED BY <2>4, <2>5, <2>6 DEF CallTypes
<1>10. CASE StartClose
  <2>1. RoomTypes' /\ QueueTypes'
    BY <1>1, <1>10 DEF StartClose, Free, RoomTypes, QueueTypes
  <2>2. StoreTypes' /\ ServerTypes' /\ BoundTypes' /\ ExcuseTypes'
    BY <1>1, <1>10 DEF StartClose, StoreTypes, ServerTypes, BoundTypes, ExcuseTypes, serverVars, boundVars
  <2> QED BY <2>1, <2>2 DEF CallTypes
<1>11. CASE EndClose
  <2>1. waiting # <<>> /\ waiting \in Seq(Calls)
    BY <1>1, <1>11 DEF EndClose, Free, QueueTypes
  <2>2. Head(waiting).then \in Places /\ Tail(waiting) \in Seq(Calls)
    BY <2>1, QueueFacts, CallFacts
  <2>3. QueueTypes'
    <3>1. CASE Head(waiting).then = NoChannel
      BY <1>11, <2>2, <3>1 DEF EndClose, QueueTypes
    <3>2. CASE Head(waiting).then # NoChannel
      <4>1. Connect(Head(waiting).then) \in Calls
        BY <2>2, <3>2, CallFacts DEF Places
      <4>2. /\ waiting' = Append(Tail(waiting), Connect(Head(waiting).then))
            /\ closing' = FALSE /\ room' = "disconnected"
        BY <1>11, <3>2 DEF EndClose
      <4>3. Append(Tail(waiting), Connect(Head(waiting).then)) \in Seq(Calls)
        BY <2>2, <4>1
      <4> QED BY <4>2, <4>3 DEF QueueTypes
    <3> QED BY <3>1, <3>2
  <2>4. RoomTypes' /\ StoreTypes'
    BY <1>1, <1>11 DEF EndClose, RoomTypes, StoreTypes, Places
  <2>5. ServerTypes' /\ BoundTypes' /\ ExcuseTypes'
    BY <1>1, <1>11 DEF EndClose, ServerTypes, BoundTypes, ExcuseTypes, serverVars, boundVars
  <2> QED BY <2>3, <2>4, <2>5 DEF CallTypes
<1>12. CASE Connected \/ ConnectFails
  <2>1. RoomTypes' /\ QueueTypes'
    BY <1>1, <1>12 DEF Connected, ConnectFails, RoomTypes, QueueTypes, Places
  <2>3. StoreTypes'
    BY <1>1, <1>12 DEF Connected, ConnectFails, StoreTypes
  <2>2. ServerTypes' /\ BoundTypes' /\ ExcuseTypes'
    BY <1>1, <1>12 DEF Connected, ConnectFails, ServerTypes, BoundTypes, ExcuseTypes, serverVars, boundVars
  <2> QED BY <2>1, <2>2, <2>3 DEF CallTypes
<1>13. CASE Lose
  <2>1. RoomTypes' /\ QueueTypes' /\ StoreTypes'
    BY <1>1, <1>13 DEF Lose, RoomTypes, QueueTypes, StoreTypes, Places
  <2>2. ServerTypes' /\ BoundTypes' /\ ExcuseTypes'
    BY <1>1, <1>13 DEF Lose, Excuse, ServerTypes, BoundTypes, ExcuseTypes, serverVars
  <2> QED BY <2>1, <2>2 DEF CallTypes
<1> QED
  BY <1>3, <1>4, <1>5, <1>6, <1>7, <1>8, <1>9, <1>10, <1>11, <1>12, <1>13 DEF Next, User, Server, Room

-----------------------------------------------------------------------------
(* The call follows the user.  Calls of the backend are handled in the     *)
(* order of the clicks, an update finds the lock free and the user not     *)
(* gone, or there is an excuse; so the last call on its way, or else the   *)
(* server, is where the user asked to be, and the last update, the queue   *)
(* or the room leads where the server has him.                             *)

\* What is shown is the state of the room, once the lock is free.
Mirrored == waiting = <<>> => mirror = (IF room = "none" THEN "disconnected" ELSE room)

\* Where the server will have the user, moderators aside.
Target == IF ops = <<>> THEN voiceOf ELSE ops[Len(ops)].channel

LastClick == (pending = NoChannel <=> Target = NoChannel) /\ (moves = 0 => pending = Target)

\* Leaving is to no channel; only who has left mutes himself in no channel.
LeftFirst == \A i \in DOMAIN ops :
  /\ ops[i].leave => ops[i].channel = NoChannel
  /\ ops[i].channel = NoChannel /\ ~ops[i].leave =>
       IF i = 1 THEN voiceOf = NoChannel ELSE ops[i - 1].channel = NoChannel

Away == voiceOf = NoChannel /\ \A i \in DOMAIN ops : ops[i].channel = NoChannel

\* Once he is gone for good a connection is closed, or one is that waits for the lock.
HangsUp == Away => \/ room \in {"none", "disconnected"}
                   \/ \E k \in DOMAIN waiting : waiting[k].call = "disconnect"

\* What follows the last update.
Underway == \/ waiting = <<Connect(voiceOf)>> /\ room = "disconnected"
            \/ waiting = <<Disconnect(voiceOf)>> /\ room # "none"
            \/ waiting = <<>> /\ room \in {"connecting", "connected"} /\ at = voiceOf
            \/ waiting = <<>> /\ room = "disconnected" /\ (lastError \/ ops # <<>>)

Reaches == voiceOf # NoChannel =>
  /\ updates # <<>> => updates[Len(updates)] = voiceOf
  /\ updates = <<>> => Underway

Right == Mirrored /\ LastClick /\ LeftFirst /\ HangsUp /\ Reaches
CallInv == excuses = {} => Right

\* A click of a user who has left, or has joined none, is to no channel.
LEMMA AwayIsNoChannel ==
  ASSUME CallTypes, LastClick, Away
  PROVE  pending = NoChannel
  BY DEF LastClick, Target, Away, CallTypes, ServerTypes

LEMMA ClickKeeps ==
  ASSUME CallTypes, Right, NEW c \in Places, NEW b \in BOOLEAN, Op(c, b),
         pending' = c, mirror' = mirror, b => c = NoChannel, c = NoChannel /\ ~b => pending = NoChannel
  PROVE  Right'
<1> DEFINE op == [channel |-> c, leave |-> b]
           n == Len(ops)
<1>1. /\ ops \in Seq(Ops) /\ ops' = Append(ops, op) /\ op \in Ops /\ op.channel = c /\ op.leave = b
      /\ UNCHANGED <<voiceOf, updates, room, at, waiting, closing, moves>>
  BY DEF CallTypes, ServerTypes, Op, Ops, serverVars, roomVars
<1>2. /\ n \in Nat /\ DOMAIN ops = 1..n /\ DOMAIN ops' = 1..(n + 1) /\ Len(ops') = n + 1 /\ ops' # <<>>
      /\ ops'[n + 1] = op /\ \A i \in 1..n : ops'[i] = ops[i]
  BY <1>1
<1>3. ops = <<>> <=> n = 0
  BY <1>1
<1> HIDE DEF op, n
<1>4. Mirrored'
  BY <1>1 DEF Right, Mirrored
<1>5. LastClick'
  BY <1>1, <1>2 DEF Right, LastClick, Target
<1>6. LeftFirst'
  <2> SUFFICES ASSUME NEW i \in DOMAIN ops'
               PROVE  /\ ops'[i].leave => ops'[i].channel = NoChannel
                      /\ ops'[i].channel = NoChannel /\ ~ops'[i].leave =>
                           IF i = 1 THEN voiceOf' = NoChannel ELSE ops'[i - 1].channel = NoChannel
    BY DEF LeftFirst
  <2>1. CASE i \in 1..n
    <3>1. ops'[i] = ops[i] /\ (i # 1 => ops'[i - 1] = ops[i - 1])
      BY <1>2, <2>1
    <3> QED BY <1>1, <1>2, <2>1, <3>1 DEF Right, LeftFirst
  <2>2. CASE i = n + 1
    <3>1. pending = NoChannel => IF n = 0 THEN voiceOf = NoChannel ELSE ops[n].channel = NoChannel
      BY <1>2, <1>3 DEF Right, LastClick, Target, n
    <3>2. i # 1 => n # 0 /\ ops'[i - 1] = ops[n]
      BY <1>2, <2>2
    <3> QED BY <1>1, <1>2, <2>2, <3>1, <3>2
  <2> QED BY <1>2, <2>1, <2>2
<1>7. HangsUp'
  <2>1. Away' => Away
    BY <1>1, <1>2 DEF Away
  <2> QED BY <1>1, <2>1 DEF Right, HangsUp
<1>8. Reaches'
  BY <1>1, <1>2 DEF Right, Reaches, Underway
<1> QED BY <1>4, <1>5, <1>6, <1>7, <1>8 DEF Right

LEMMA MoveKeeps ==
  ASSUME CallTypes, Right, NEW c \in Channels, Move(c)
  PROVE  Right'
<1>1. /\ UNCHANGED <<pending, mirror, lastError, ops, room, at, waiting>>
      /\ moves' = moves + 1 /\ voiceOf' = c /\ voiceOf # NoChannel /\ c # NoChannel
      /\ updates' = Append(updates, c) /\ moves \in Nat /\ updates \in Seq(Channels)
  BY VoiceConstants DEF Move, storeVars, roomVars, CallTypes, BoundTypes, ServerTypes
<1>2. Mirrored' /\ LastClick' /\ HangsUp'
  BY <1>1 DEF Right, Mirrored, LastClick, Target, HangsUp, Away
<1>3. LeftFirst'
  BY <1>1 DEF Right, LeftFirst
<1>4. updates' # <<>> /\ updates'[Len(updates')] = c
  BY <1>1
<1>5. Reaches'
  BY <1>1, <1>4 DEF Reaches
<1> QED BY <1>2, <1>3, <1>5 DEF Right

LEMMA SendKeeps ==
  ASSUME CallTypes, Right, NEW i \in DOMAIN ops, SendOp(i), excuses' = {}
  PROVE  Right'
<1> DEFINE op == ops[1]
           n == Len(ops)
<1>1. i = 1 /\ ~(op.channel # NoChannel /\ updates' = updates /\ Still)
  <2>1. i = 1
    BY DEF SendOp
  <2> QED BY <2>1 DEF SendOp
<1>2. /\ ops \in Seq(Ops) /\ n \in Nat /\ n >= 1 /\ DOMAIN ops = 1..n /\ updates \in Seq(Channels)
      /\ op \in Ops /\ waiting \in Seq(Calls) /\ (waiting # <<>> => room # "none")
  BY <1>1 DEF CallTypes, ServerTypes, QueueTypes
<1>3. /\ ops' \in Seq(Ops) /\ Len(ops') = n - 1 /\ DOMAIN ops' = 1..(n - 1)
      /\ \A k \in 1..(n - 1) : ops'[k] = ops[k + 1]
  <2>1. ops' = RemoveAt(ops, 1)
    BY <1>1 DEF SendOp
  <2>2. ops' \in Seq(Ops) /\ Len(ops') = n - 1 /\ \A k \in 1..(n - 1) : ops'[k] = ops[k + 1]
    BY <1>1, <1>2, <2>1, RemovedFrom
  <2> QED BY <2>2
<1>4. /\ voiceOf' = op.channel /\ UNCHANGED <<pending, lastError, room, at, closing, moves>>
      /\ \/ op.channel # NoChannel /\ updates' = Append(updates, op.channel)
         \/ op.channel \in {NoChannel, voiceOf} /\ updates' = updates
      /\ IF op.leave THEN DisconnectRoom ELSE UNCHANGED <<waiting, mirror>>
  <2>1. Handle(op.channel) /\ IF op.leave THEN DisconnectRoom ELSE UNCHANGED <<waiting, mirror>>
    BY <1>1 DEF SendOp
  <2>2. UNCHANGED <<pending, lastError, room, at, closing, moves>>
    BY DEF SendOp, boundVars
  <2>3. /\ voiceOf' = op.channel
        /\ \/ op.channel # NoChannel /\ updates' = Append(updates, op.channel)
           \/ op.channel \in {NoChannel, voiceOf} /\ updates' = updates
    BY <2>1 DEF Handle
  <2> QED BY <2>1, <2>2, <2>3
<1>5. ops' = <<>> <=> n = 1
  BY <1>2, <1>3
<1> HIDE DEF n
<1>6. Mirrored'
  <2>1. CASE op.leave
    <3>1. room # "none" => waiting' # <<>>
      BY <1>2, <1>4, <2>1, CallFacts, QueueGrows DEF DisconnectRoom, Places
    <3> QED BY <1>2, <1>4, <2>1, <3>1 DEF DisconnectRoom, Mirrored
  <2> QED BY <1>4, <2>1 DEF Right, Mirrored
<1>7. LastClick'
  <2>1. Target' = Target
    <3>1. CASE n = 1
      <4>1. ops # <<>> /\ Len(ops) = 1 /\ ops' = <<>>
        <5>1. Len(ops) = 1 /\ ops' = <<>>
          BY <1>5, <3>1 DEF n
        <5> QED BY <1>2, <5>1
      <4> QED BY <1>4, <4>1 DEF Target
    <3>2. CASE n # 1
      <4>1. ops'[n - 1] = ops[n] /\ ops # <<>>
        BY <1>2, <1>3, <3>2
      <4> QED BY <1>3, <1>5, <3>2, <4>1 DEF Target, n
    <3> QED BY <3>1, <3>2
  <2> QED BY <1>4, <2>1 DEF Right, LastClick
<1>8. LeftFirst'
  <2> SUFFICES ASSUME NEW k \in 1..(n - 1)
               PROVE  /\ ops'[k].leave => ops'[k].channel = NoChannel
                      /\ ops'[k].channel = NoChannel /\ ~ops'[k].leave =>
                           IF k = 1 THEN voiceOf' = NoChannel ELSE ops'[k - 1].channel = NoChannel
    BY <1>3 DEF LeftFirst
  <2>1. ops'[k] = ops[k + 1] /\ k + 1 \in DOMAIN ops /\ k + 1 # 1 /\ (k + 1) - 1 = k
    BY <1>2, <1>3
  <2>2. /\ ops[k + 1].leave => ops[k + 1].channel = NoChannel
        /\ ops[k + 1].channel = NoChannel /\ ~ops[k + 1].leave => ops[k].channel = NoChannel
    BY <2>1 DEF Right, LeftFirst
  <2>3. k # 1 => k - 1 \in 1..(n - 1) /\ (k - 1) + 1 = k
    BY <1>2
  <2>4. IF k = 1 THEN voiceOf' = ops[k].channel ELSE ops'[k - 1] = ops[k]
    BY <1>3, <1>4, <2>3
  <2> QED BY <2>1, <2>2, <2>4
<1>9. HangsUp'
  <2> SUFFICES ASSUME Away'
               PROVE  \/ room' \in {"none", "disconnected"}
                      \/ \E k \in DOMAIN waiting' : waiting'[k].call = "disconnect"
    BY DEF HangsUp
  <2>1. op.channel = NoChannel
    BY <1>4 DEF Away
  <2>2. CASE op.leave
    <3>1. room = "none" \/ waiting' = Append(waiting, Disconnect(NoChannel))
      BY <1>4, <2>2 DEF DisconnectRoom
    <3>2. waiting' = Append(waiting, Disconnect(NoChannel)) =>
            /\ Len(waiting) + 1 \in DOMAIN waiting'
            /\ waiting'[Len(waiting) + 1].call = "disconnect"
      BY <1>2, CallFacts DEF Places
    <3> QED BY <1>4, <3>1, <3>2
  <2>3. CASE ~op.leave
    <3>1. voiceOf = NoChannel
      BY <1>2, <2>1, <2>3 DEF Right, LeftFirst
    <3>2. ASSUME NEW k \in 1..n PROVE ops[k].channel = NoChannel
      <4>1. CASE k = 1
        BY <2>1, <4>1
      <4>2. CASE k # 1
        <5>1. k - 1 \in 1..(n - 1) /\ (k - 1) + 1 = k
          BY <1>2, <4>2
        <5>2. ops'[k - 1] = ops[k]
          BY <1>3, <5>1
        <5> QED BY <1>3, <5>1, <5>2 DEF Away
      <4> QED BY <4>1, <4>2
    <3>3. Away
      BY <1>2, <3>1, <3>2 DEF Away
    <3> QED BY <1>4, <2>3, <3>3 DEF Right, HangsUp
  <2> QED BY <2>2, <2>3
<1>10. Reaches'
  <2> SUFFICES ASSUME voiceOf' # NoChannel
               PROVE  /\ updates' # <<>> => updates'[Len(updates')] = voiceOf'
                      /\ updates' = <<>> => Underway'
    BY DEF Reaches
  <2>1. ~op.leave /\ UNCHANGED <<waiting, mirror>>
    BY <1>2, <1>4 DEF Right, LeftFirst
  <2>2. CASE updates' = Append(updates, op.channel)
    BY <1>2, <1>4, <2>2
  <2>3. CASE updates' # Append(updates, op.channel)
    <3>1. updates' = updates /\ voiceOf' = voiceOf /\ ~Still /\ voiceOf # NoChannel
      BY <1>1, <1>4, <2>3
    <3>2. updates = <<>> => Underway
      BY <3>1 DEF Right, Reaches
    <3>3. updates = <<>> => ~(waiting = <<>> /\ room = "disconnected")
      BY <3>1 DEF Still
    <3>4. updates = <<>> => Underway'
      BY <1>4, <2>1, <3>1, <3>2, <3>3 DEF Underway
    <3> QED BY <3>1, <3>4 DEF Right, Reaches
  <2> QED BY <2>2, <2>3
<1> QED BY <1>6, <1>7, <1>8, <1>9, <1>10 DEF Right

LEMMA UpdateKeeps ==
  ASSUME CallTypes, Right, ApplyServerUpdate, excuses' = {}
  PROVE  Right'
<1> DEFINE c == Head(updates)
<1>1. /\ waiting = <<>> /\ pending # NoChannel /\ updates \in Seq(Channels) /\ updates # <<>>
      /\ updates' = Tail(updates) /\ c \in Channels
      /\ UNCHANGED <<pending, ops, voiceOf, moves, lastError>>
  <2>1. waiting = <<>> /\ pending # NoChannel
    BY DEF ApplyServerUpdate
  <2>2. updates \in Seq(Channels) /\ updates # <<>> /\ updates' = Tail(updates)
    BY DEF ApplyServerUpdate, CallTypes, ServerTypes
  <2>3. UNCHANGED <<pending, ops, voiceOf, moves, lastError>>
    BY DEF ApplyServerUpdate, boundVars
  <2> QED BY <2>1, <2>2, <2>3
<1>2. ~Away
  BY <1>1, AwayIsNoChannel DEF Right
<1>3. IF room \in {"connecting", "connected"}
      THEN waiting' = <<Disconnect(c)>> /\ room' = room
      ELSE waiting' = <<Connect(c)>> /\ room' = "disconnected"
  <2>1. \A x : Append(<<>>, x) = <<x>>
    OBVIOUS
  <2> QED BY <1>1, <2>1 DEF ApplyServerUpdate, ConnectRoom, CallTypes, RoomTypes
<1>4. waiting' # <<>>
  BY <1>3
<1>5. Mirrored' /\ LastClick' /\ LeftFirst' /\ HangsUp'
  BY <1>1, <1>2, <1>4 DEF Right, Mirrored, LastClick, Target, LeftFirst, HangsUp, Away
<1>6. Reaches'
  <2> SUFFICES ASSUME voiceOf # NoChannel
               PROVE  /\ updates' # <<>> => updates'[Len(updates')] = voiceOf
                      /\ updates' = <<>> => Underway'
    BY <1>1 DEF Reaches
  <2>1. updates[Len(updates)] = voiceOf
    BY <1>1 DEF Right, Reaches
  <2>2. updates' # <<>> => updates'[Len(updates')] = updates[Len(updates)]
    BY <1>1
  <2>3. updates' = <<>> => c = updates[Len(updates)]
    BY <1>1, LastLeft
  <2>4. updates' = <<>> => Underway'
    BY <1>1, <1>3, <2>1, <2>3 DEF Underway
  <2> QED BY <2>1, <2>2, <2>4
<1> QED BY <1>5, <1>6 DEF Right

LEMMA LockKeeps ==
  ASSUME CallTypes, Right, LockConnect, excuses' = {}
  PROVE  Right'
<1>1. /\ waiting # <<>> /\ waiting' = Tail(waiting) /\ Head(waiting).call = "connect" /\ mirror' = room'
      /\ UNCHANGED <<pending, ops, voiceOf, updates, moves>> /\ room' \in {"connecting", "connected"}
  BY DEF LockConnect, Free, serverVars, boundVars
<1>2. ~Away
  <2>1. pending # NoChannel
    BY DEF LockConnect, Excuse
  <2> QED BY <2>1, AwayIsNoChannel DEF Right
<1>3. Mirrored' /\ LastClick' /\ LeftFirst' /\ HangsUp'
  BY <1>1, <1>2 DEF Right, Mirrored, LastClick, Target, LeftFirst, HangsUp, Away
<1>4. Reaches'
  <2> SUFFICES ASSUME voiceOf # NoChannel, updates = <<>>
               PROVE  Underway'
    BY <1>1 DEF Right, Reaches
  <2>1. Underway
    BY DEF Right, Reaches
  <2>2. Disconnect(voiceOf).call # "connect" /\ Connect(voiceOf).then = voiceOf
    BY DEF Disconnect, Connect
  <2>3. \A x : Head(<<x>>) = x /\ Tail(<<x>>) = <<>>
    OBVIOUS
  <2>4. waiting = <<Connect(voiceOf)>> /\ room = "disconnected"
    BY <1>1, <2>1, <2>2, <2>3 DEF Underway
  <2>5. at' = voiceOf /\ waiting' = <<>>
    BY <1>1, <2>2, <2>3, <2>4 DEF LockConnect
  <2> QED BY <1>1, <2>5 DEF Underway
<1> QED BY <1>3, <1>4 DEF Right

LEMMA CloseKeeps ==
  ASSUME CallTypes, Right, StartClose \/ EndClose
  PROVE  Right'
<1>1. CASE StartClose
  <2>1. UNCHANGED <<pending, ops, voiceOf, updates, room, at, waiting, moves>> /\ waiting # <<>>
    BY <1>1 DEF StartClose, Free, serverVars, boundVars
  <2>2. Mirrored' /\ LastClick' /\ LeftFirst' /\ HangsUp'
    BY <2>1 DEF Right, Mirrored, LastClick, Target, LeftFirst, HangsUp, Away
  <2>3. Reaches'
    BY <2>1 DEF Right, Reaches, Underway
  <2> QED BY <2>2, <2>3 DEF Right
<1>2. CASE EndClose
  <2>1. /\ UNCHANGED <<pending, ops, voiceOf, updates, moves>> /\ waiting # <<>>
        /\ Head(waiting).call = "disconnect" /\ room' = "disconnected" /\ waiting \in Seq(Calls)
    BY <1>2 DEF EndClose, Free, serverVars, boundVars, CallTypes, QueueTypes
  <2>2. Mirrored'
    <3>1. Head(waiting).then # NoChannel => waiting' # <<>>
      <4>1. Append(Tail(waiting), Connect(Head(waiting).then)) # <<>>
        BY <2>1, QueueFacts
      <4> QED BY <1>2, <4>1 DEF EndClose
    <3> QED BY <1>2, <2>1, <3>1 DEF EndClose, Mirrored
  <2>3. LastClick' /\ LeftFirst' /\ HangsUp'
    BY <2>1 DEF Right, LastClick, Target, LeftFirst, HangsUp, Away
  <2>4. Reaches'
    <3> SUFFICES ASSUME voiceOf # NoChannel, updates = <<>>
                 PROVE  Underway'
      BY <2>1 DEF Right, Reaches
    <3>1. Underway
      BY DEF Right, Reaches
    <3>2. \A x : Head(<<x>>) = x /\ Tail(<<x>>) = <<>> /\ Append(<<>>, x) = <<x>>
      OBVIOUS
    <3>3. Connect(voiceOf).call # "disconnect" /\ Disconnect(voiceOf).then = voiceOf
      BY DEF Disconnect, Connect
    <3>4. waiting = <<Disconnect(voiceOf)>>
      BY <2>1, <3>1, <3>2, <3>3 DEF Underway
    <3>5. waiting' = <<Connect(voiceOf)>>
      BY <1>2, <3>2, <3>3, <3>4 DEF EndClose
    <3> QED BY <2>1, <3>5 DEF Underway
  <2> QED BY <2>2, <2>3, <2>4 DEF Right
<1> QED BY <1>1, <1>2

LEMMA AttemptKeeps ==
  ASSUME CallTypes, Right, Connected \/ ConnectFails
  PROVE  Right'
<1>1. /\ UNCHANGED <<pending, ops, voiceOf, updates, waiting, moves>> /\ room = "connecting"
      /\ mirror' = room'
      /\ \/ room' = "connected" /\ at' = at
         \/ room' = "disconnected" /\ lastError' = TRUE
  <2>1. CASE Connected
    BY <2>1 DEF Connected, serverVars, boundVars
  <2>2. CASE ConnectFails
    BY <2>2 DEF ConnectFails, serverVars, boundVars
  <2> QED BY <2>1, <2>2
<1>2. Mirrored' /\ LastClick' /\ LeftFirst' /\ HangsUp'
  BY <1>1 DEF Right, Mirrored, LastClick, Target, LeftFirst, HangsUp, Away
<1>3. Reaches'
  <2> SUFFICES ASSUME voiceOf # NoChannel, updates = <<>>
               PROVE  Underway'
    BY <1>1 DEF Right, Reaches
  <2>1. Underway
    BY DEF Right, Reaches
  <2> QED BY <1>1, <2>1 DEF Underway
<1> QED BY <1>2, <1>3 DEF Right

\* What is excused once is excused for good.
LEMMA Excused ==
  ASSUME CallTypes, Next
  PROVE  excuses \subseteq excuses'
<1>1. ASSUME NEW c, NEW b, Op(c, b) PROVE excuses' = excuses
  BY <1>1 DEF Op
<1>2. User \/ Server => excuses' = excuses
  BY <1>1 DEF User, Server, Leave, Reflect, Join, Move
<1>3. Room \/ Lose => excuses \subseteq excuses'
  BY DEF Room, Lose, Excuse, LockConnect, StartClose, EndClose, Connected, ConnectFails
<1>4. ApplyServerUpdate \/ (\E i \in DOMAIN ops : SendOp(i)) => excuses \subseteq excuses'
  BY DEF ApplyServerUpdate, SendOp
<1> QED BY <1>2, <1>3, <1>4 DEF Next

LEMMA CallKeeps ==
  ASSUME CallTypes, CallInv, Next
  PROVE  CallInv'
<1> SUFFICES ASSUME excuses' = {} PROVE Right'
  BY DEF CallInv
<1>1. Right /\ pending \in Places /\ NoChannel \notin Channels /\ NoChannel \in Places
  BY Excused, VoiceConstants DEF CallInv, CallTypes, StoreTypes, Places
<1>2. CASE Leave
  <2>1. Op(NoChannel, TRUE) /\ pending' = NoChannel /\ mirror' = mirror
    BY <1>2 DEF Leave
  <2> QED BY <1>1, <2>1, ClickKeeps
<1>3. CASE Reflect
  <2>1. Op(pending, FALSE) /\ pending' = pending /\ mirror' = mirror
    BY <1>3 DEF Reflect, storeVars
  <2> QED BY <1>1, <2>1, ClickKeeps
<1>4. ASSUME NEW c \in Channels, Join(c) PROVE Right'
  <2>1. Op(c, FALSE) /\ pending' = c /\ mirror' = mirror /\ c \in Places /\ c # NoChannel
    BY <1>1, <1>4 DEF Join, Places
  <2> QED BY <1>1, <2>1, ClickKeeps
<1>5. Server => Right'
  BY <1>1, MoveKeeps DEF Server
<1>6. Room => Right'
  BY <1>1, LockKeeps, CloseKeeps, AttemptKeeps DEF Room
<1>7. ~Lose
  BY DEF Lose, Excuse
<1>8. ApplyServerUpdate => Right'
  BY <1>1, UpdateKeeps
<1>9. (\E i \in DOMAIN ops : SendOp(i)) => Right'
  BY <1>1, SendKeeps
<1> QED BY <1>2, <1>3, <1>4, <1>5, <1>6, <1>7, <1>8, <1>9 DEF Next, User

\* Under way when everything has arrived: nothing, or an error, or a connection.
LEMMA CallFollows ==
  ASSUME CallTypes, CallInv
  PROVE  CallFollowsTheUser
<1> SUFFICES ASSUME Settled, excuses = {}
             PROVE  /\ mirror = (IF room = "none" THEN "disconnected" ELSE room)
                    /\ IF Wanted = NoChannel THEN room # "connected"
                       ELSE IF room = "connected" THEN at = Wanted
                       ELSE lastError
  BY DEF CallFollowsTheUser
<1>1. Right /\ ops = <<>> /\ updates = <<>> /\ waiting = <<>> /\ room # "connecting"
  BY DEF CallInv, Settled
<1>2. mirror = (IF room = "none" THEN "disconnected" ELSE room)
  BY <1>1 DEF Right, Mirrored
<1>3. (Wanted = NoChannel <=> voiceOf = NoChannel) /\ Wanted = voiceOf
  BY <1>1 DEF Right, LastClick, Target, Wanted
<1>4. voiceOf = NoChannel => room # "connected"
  BY <1>1 DEF Right, HangsUp, Away
<1>5. voiceOf # NoChannel => IF room = "connected" THEN at = voiceOf ELSE lastError
  BY <1>1 DEF Right, Reaches, Underway
<1> QED BY <1>2, <1>3, <1>4, <1>5

-----------------------------------------------------------------------------
LEMMA CallStart == Init => CallTypes /\ CallInv
<1> SUFFICES ASSUME Init PROVE CallTypes /\ CallInv
  OBVIOUS
<1>1. RoomTypes /\ QueueTypes /\ StoreTypes
  <2>1. <<>> \in Seq(Calls)
    OBVIOUS
  <2>2. RoomTypes /\ StoreTypes
    <3>1. (at # NoChannel) = (room \in {"connecting", "connected"})
      BY DEF Init
    <3> QED BY <3>1 DEF Init, RoomTypes, StoreTypes, Places
  <2>3. QueueTypes
    BY <2>1 DEF Init, QueueTypes
  <2> QED BY <2>2, <2>3
<1>2. ServerTypes /\ BoundTypes /\ ExcuseTypes
  BY VoiceConstants DEF Init, ServerTypes, BoundTypes, ExcuseTypes, Places
<1>3. Mirrored /\ LastClick /\ LeftFirst /\ HangsUp /\ Reaches
  BY DEF Init, Mirrored, LastClick, Target, LeftFirst, HangsUp, Away, Reaches
<1> QED BY <1>1, <1>2, <1>3 DEF CallTypes, CallInv, Right

LEMMA CallStutters ==
  ASSUME CallTypes, CallInv, UNCHANGED vars
  PROVE  CallTypes' /\ CallInv'
<1> USE DEF vars, storeVars, serverVars, roomVars, boundVars
<1>1. RoomTypes' /\ QueueTypes' /\ StoreTypes' /\ ServerTypes' /\ BoundTypes' /\ ExcuseTypes'
  BY DEF CallTypes, RoomTypes, QueueTypes, StoreTypes, ServerTypes, BoundTypes, ExcuseTypes
<1>2. Right => Right'
  BY DEF Right, Mirrored, LastClick, Target, LeftFirst, HangsUp, Away, Reaches, Underway
<1> QED BY <1>1, <1>2 DEF CallTypes, CallInv

\* The types of VoiceCalls hold: a room has a channel exactly while there is a
\* connection or an attempt, and the lock is closing only under a disconnect.
THEOREM CallTypeCorrect == Spec => []TypeOK
<1>1. Init => CallTypes /\ CallInv
  BY CallStart
<1>2. CallTypes /\ CallInv /\ [Next]_vars => (CallTypes /\ CallInv)'
  BY TypesKeep, CallKeeps, CallStutters
<1>3. CallTypes => TypeOK
  BY TypesFollow
<1> QED BY <1>1, <1>2, <1>3, PTL DEF Spec

\* When everything has arrived and nothing is excused, the room is where the user,
\* or the moderator who moved him, wants the call, and the store shows its state.
THEOREM CallsFollowTheUser == Spec => []CallFollowsTheUser
<1>1. Init => CallTypes /\ CallInv
  BY CallStart
<1>2. CallTypes /\ CallInv /\ [Next]_vars => (CallTypes /\ CallInv)'
  BY TypesKeep, CallKeeps, CallStutters
<1>3. CallTypes /\ CallInv => CallFollowsTheUser
  BY CallFollows
<1> QED BY <1>1, <1>2, <1>3, PTL DEF Spec
=============================================================================
