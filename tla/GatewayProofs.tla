---------------------------- MODULE GatewayProofs ----------------------------
(* Theorems about the gateway task, for every value of the constants. *)
EXTENDS Gateway, TLAPS

-----------------------------------------------------------------------------
(* The messages. *)

\* What a dispatch is made of: READY is number 1, DISPATCH a later one.
LEMMA DispatchFields ==
  ASSUME NEW m \in Dispatches
  PROVE  /\ m.op \in {"READY", "DISPATCH", "RESUMED"}
         /\ m.sid \in SessionIds /\ m.s \in 1..MaxEvents
         /\ m.op # "RESUMED" => (m.op = "READY" <=> m.s = 1)
  BY DEF Dispatches, Dispatch, Resumed

\* The server's next dispatch and a RESUMED are dispatches; signals are not.
LEMMA DispatchIn ==
  ASSUME NEW i \in SessionIds, NEW k \in 1..MaxEvents
  PROVE  /\ Dispatch(i, k) \in Dispatches /\ Resumed(i, k) \in Dispatches
         /\ Dispatch(i, k).sid = i /\ Dispatch(i, k).s = k /\ Dispatch(i, k).op # "RESUMED"
         /\ Resumed(i, k).sid = i /\ Resumed(i, k).s = k /\ Resumed(i, k).op = "RESUMED"
  BY DEF Dispatches, Dispatch, Resumed

LEMMA SignalNotDispatch ==
  ASSUME NEW o \in {"HELLO", "INVALID_SESSION", "CLOSE", "none"}
  PROVE  /\ Signal(o) \notin Dispatches
         /\ o # "none" => Signal(o) \in Messages
         /\ Signal(o).op = o
  <1>1. Signal(o).op = o
    BY DEF Signal
  <1>2. Signal(o) \notin Dispatches
    BY <1>1, DispatchFields
  <1>3. o # "none" => Signal(o) \in Messages
    BY DEF Messages
  <1> QED BY <1>1, <1>2, <1>3

-----------------------------------------------------------------------------
(* Type correctness. *)

LEMMA TypeInit == Init => TypeOK
  <1> USE GatewayConstants
  <1> QED BY DEF Init, TypeOK, NoSession, NoEvent, NoHand, Hands, SessionIds

LEMMA LeaveType ==
  ASSUME TypeOK, NEW ok \in BOOLEAN, Leave(ok)
  PROVE  /\ pc' = "backoff" /\ backoff' \in 1..MaxBackoff
         /\ conn' = "none" /\ down' = <<>> /\ down' \in Seq(Messages)
         /\ hand' = NoHand /\ hand' \in Hands
         /\ att' = 0 /\ cur' = 0 /\ att' \in 0..MaxSessions /\ cur' \in 0..MaxEvents
  BY GatewayConstants DEF TypeOK, Leave, Hands

LEMMA RejectionType ==
  ASSUME TypeOK, NEW w \in {"op9", "op9_close", "close"}, Rejection(w)
  PROVE  /\ down' \in Seq(Messages) /\ conn' \in {"open", "half"}
         /\ hand' = NoHand /\ hand' \in Hands
         /\ att' = 0 /\ cur' = 0 /\ att' \in 0..MaxSessions /\ cur' \in 0..MaxEvents
  <1>1. Signal("INVALID_SESSION") \in Messages /\ Signal("CLOSE") \in Messages
    BY SignalNotDispatch
  <1>2. down \in Seq(Messages)
    BY DEF TypeOK
  <1>3. down' \in Seq(Messages)
    BY <1>1, <1>2 DEF Rejection
  <1> QED BY <1>3, GatewayConstants DEF Rejection, Hands, TypeOK

LEMMA DoubleType ==
  ASSUME NEW b \in 1..MaxBackoff
  PROVE  Double(b) \in 1..MaxBackoff
  BY GatewayConstants DEF Double

\* Every step keeps every variable in its type.
LEMMA TypeNext == TypeOK /\ [Next]_vars => TypeOK'
  <1> SUFFICES ASSUME TypeOK, [Next]_vars PROVE TypeOK'
    OBVIOUS
  <1> USE GatewayConstants
          DEF TypeOK, taskVars, chanVars, connVars, serverVars, envVars, obsVars
  <1>a. NoSession \in [id : 0..MaxSessions, seq : 0..MaxEvents] /\ NoHand \in Hands
    BY DEF NoSession, Hands
  <1>b. ASSUME ConnectOk PROVE TypeOK'
    BY <1>a, <1>b, SignalNotDispatch DEF ConnectOk
  <1>c. ASSUME ConnectFails PROVE TypeOK'
    <2>1. Leave(FALSE) /\ faults < MaxFaults /\ faults' = faults + 1
      BY <1>c DEF ConnectFails
    <2>2. faults' \in 0..MaxFaults
      BY <2>1
    <2> QED BY <1>c, <2>1, <2>2, LeaveType DEF ConnectFails
  <1>d. ASSUME HelloFails PROVE TypeOK'
    BY <1>d, LeaveType DEF HelloFails
  <1>e. ASSUME Handshake PROVE TypeOK'
    <2>1. hand' \in Hands
      BY <1>a, <1>e DEF Handshake, Hands, Identify, Resume, CanResume, SessionIds
    <2> QED BY <1>e, <2>1 DEF Handshake
  <1>f. ASSUME HandshakeSendFails PROVE TypeOK'
    BY <1>f, LeaveType DEF HandshakeSendFails
  <1>g. ASSUME Sleep PROVE TypeOK'
    <2>1. backoff' \in 1..MaxBackoff /\ slept' \in 0..MaxBackoff
      BY <1>g, DoubleType DEF Sleep
    <2> QED BY <1>g, <2>1 DEF Sleep
  <1>h. ASSUME ReadDispatch PROVE TypeOK'
    <2>1. Head(down) \in Dispatches
      BY <1>h DEF ReadDispatch
    <2>2. session' \in [id : 0..MaxSessions, seq : 0..MaxEvents]
      BY SMTT(30), <1>h, <2>1, DispatchFields DEF ReadDispatch, TrackDispatch, SessionIds
    <2> QED BY <1>h, <2>1, <2>2 DEF ReadDispatch
  <1>i. ASSUME Push PROVE TypeOK'
    <2>1. pending \in Dispatches
      BY <1>i DEF Push
    <2> QED BY <1>i, <2>1 DEF Push
  <1>j. ASSUME ReadInvalidSession PROVE TypeOK'
    <2>1. told' \subseteq SessionIds
      <3>1. session.id \in 0..MaxSessions
        OBVIOUS
      <3>2. told' = told \cup ({session.id} \ {0})
        BY <1>j DEF ReadInvalidSession
      <3>3. told \subseteq SessionIds /\ {session.id} \ {0} \subseteq SessionIds
        BY <3>1 DEF SessionIds
      <3> HIDE DEF TypeOK
      <3> QED BY <3>2, <3>3
    <2> QED BY <1>a, <1>j, <2>1 DEF ReadInvalidSession
  <1>k. ASSUME ReadClose PROVE TypeOK'
    BY <1>k, LeaveType DEF ReadClose
  <1>l. ASSUME ConnectionEnds PROVE TypeOK'
    BY <1>l, LeaveType DEF ConnectionEnds
  <1>m. ASSUME Recv PROVE TypeOK'
    <2>1. Head(events) \in Dispatches /\ events' \in Seq(Dispatches)
      BY <1>m DEF Recv
    <2>2. Head(events).sid \in 0..MaxSessions /\ Head(events).s \in 0..MaxEvents
      BY SMTT(30), <2>1, DispatchFields DEF SessionIds
    <2>3. got' \in [n : Nat, sid : 0..MaxSessions, s : 0..MaxEvents]
      BY <1>m, <2>2 DEF Recv
    <2> QED BY <1>m, <2>1, <2>3 DEF Recv
  <1>n. ASSUME Shutdown PROVE TypeOK'
    <2>1. shutdowns' \in 0..MaxShutdowns
      BY <1>n DEF Shutdown
    <2>2. CASE pc = "read" /\ Leave(TRUE)
      BY <1>n, <2>1, <2>2, LeaveType DEF Shutdown
    <2>3. CASE pc = "backoff" /\ pc' = "stopped" /\ UNCHANGED <<backoff, connVars, att, cur>>
      BY <1>n, <2>1, <2>3 DEF Shutdown
    <2>4. CASE UNCHANGED <<pc, backoff, connVars, att, cur>>
      BY <1>n, <2>1, <2>4 DEF Shutdown
    <2> QED BY <1>n, <2>2, <2>3, <2>4 DEF Shutdown
  <1>o. ASSUME SrvIdentify PROVE TypeOK'
    BY SMTT(30), <1>a, <1>o DEF SrvIdentify, SessionIds
  <1>p. ASSUME SrvResume PROVE TypeOK'
    <2>1. hand \in [op : {"RESUME"}, sid : SessionIds, seq : 1..MaxEvents]
      BY <1>p DEF SrvResume, Hands, NoHand, Identify
    <2>2. down' \in Seq(Messages)
      BY <1>p, <2>1, DispatchIn DEF SrvResume, Messages
    <2>3. att' \in 0..MaxSessions /\ cur' \in 0..MaxEvents
      BY SMTT(30), <1>p, <2>1 DEF SrvResume, SessionIds
    <2> QED BY <1>a, <1>p, <2>2, <2>3 DEF SrvResume
  <1>q. ASSUME SrvReject PROVE TypeOK'
    BY <1>q, RejectionType DEF SrvReject
  <1>r. ASSUME SrvSend PROVE TypeOK'
    <2>1. att \in SessionIds /\ cur + 1 \in 1..MaxEvents
      BY <1>r DEF SrvSend, SessionIds
    <2>2. down' \in Seq(Messages)
      BY <1>r, <2>1, DispatchIn DEF SrvSend, Messages
    <2> QED BY <1>r, <2>1, <2>2 DEF SrvSend
  <1>s. ASSUME NEW i \in SessionIds, SrvProduce(i) PROVE TypeOK'
    BY <1>s DEF SrvProduce
  <1>t. ASSUME NEW i \in SessionIds, SrvForget(i) PROVE TypeOK'
    BY <1>t DEF SrvForget
  <1>u. ASSUME SrvInvalidate PROVE TypeOK'
    BY SMTT(30), <1>u, RejectionType DEF SrvInvalidate
  <1>v. ASSUME SrvClose PROVE TypeOK'
    BY <1>v, RejectionType DEF SrvClose
  <1>w. ASSUME Break PROVE TypeOK'
    BY <1>a, <1>w DEF Break
  <1>x. CASE UNCHANGED vars
    BY <1>x DEF vars
  <1> QED
    BY <1>b, <1>c, <1>d, <1>e, <1>f, <1>g, <1>h, <1>i, <1>j, <1>k, <1>l, <1>m, <1>n,
       <1>o, <1>p, <1>q, <1>r, <1>s, <1>t, <1>u, <1>v, <1>w, <1>x
       DEF Next, TaskStep, ServerStep, Environment

\* Every reachable state of the gateway task is well typed.
THEOREM TypeCorrect == Spec => []TypeOK
  <1>1. Init => TypeOK
    BY TypeInit
  <1>2. TypeOK /\ [Next]_vars => TypeOK'
    BY TypeNext
  <1> QED BY <1>1, <1>2, PTL DEF Spec

-----------------------------------------------------------------------------
(* The stream invariant. *)

LEMMA StreamInvInit == Init => StreamInv
  <1> SUFFICES ASSUME Init PROVE StreamInv
    OBVIOUS
  <1> USE GatewayConstants DEF Init
  <1>1. ChannelChain
    BY DEF ChannelChain
  <1>2. SessionAtEnd /\ WireChain
    BY DEF SessionAtEnd, WireChain
  <1>3. ServerChain
    BY DEF ServerChain
  <1>4. Bounded /\ Phase
    BY DEF Bounded, Phase
  <1> QED BY <1>1, <1>2, <1>3, <1>4 DEF StreamInv

\* The end of what the task has read is a position: numbers, within bounds.
LEMMA EndType ==
  ASSUME TypeOK PROVE End.sid \in 0..MaxSessions /\ End.s \in 0..MaxEvents
  <1>1. CASE pc = "push"
    BY SMTT(30), <1>1, DispatchFields DEF TypeOK, End, SessionIds
  <1>2. CASE pc # "push" /\ events # <<>>
    <2>1. events[Len(events)] \in Dispatches
      BY <1>2 DEF TypeOK
    <2> QED BY <1>2, <2>1, DispatchFields DEF End, SessionIds
  <1>3. CASE pc # "push" /\ events = <<>>
    BY <1>3 DEF TypeOK, End
  <1> QED BY <1>1, <1>2, <1>3

\* The channel, the task's end of it and the session are left alone.
LEMMA ChannelKept ==
  ASSUME StreamInv, pc' = "push" <=> pc = "push", UNCHANGED <<session, pending, events, got>>
  PROVE  ChannelChain' /\ SessionAtEnd' /\ End' = End
  <1>1. End' = End
    BY DEF End
  <1>2. ChannelChain'
    BY DEF StreamInv, ChannelChain, Behind
  <1>3. SessionAtEnd'
    BY <1>1 DEF StreamInv, SessionAtEnd
  <1> QED BY <1>1, <1>2, <1>3

\* A connection that ends takes nothing off the channel.
LEMMA LeaveStream ==
  ASSUME TypeOK, StreamInv, NEW ok \in BOOLEAN, Leave(ok), pc # "push",
         UNCHANGED <<session, pending, events, got, made, live, opened>>
  PROVE  StreamInv'
  <1> USE DEF Leave
  <1>1. ChannelChain' /\ SessionAtEnd'
    BY ChannelKept
  <1>2. WireChain' /\ Phase'
    BY DEF WireChain, Phase
  <1>3. ServerChain'
    BY DEF ServerChain
  <1>4. Bounded'
    BY DEF StreamInv, Bounded, Known
  <1> QED BY <1>1, <1>2, <1>3, <1>4 DEF StreamInv

\* The server detaches; what it adds to the wire are signals only.
LEMMA CutStream ==
  ASSUME TypeOK, StreamInv, conn = "open",
         att' = 0, hand' = NoHand, conn' \in {"open", "half"},
         \/ down' = <<>>
         \/ down' = Append(down, Signal("INVALID_SESSION")) /\ pc # "hello"
         \/ down' = Append(down, Signal("CLOSE")) /\ conn' = "half"
         \/ /\ down' = Append(Append(down, Signal("INVALID_SESSION")), Signal("CLOSE"))
            /\ pc # "hello",
         conn' = "open" => pc # "hello",
         live' \subseteq live,
         UNCHANGED <<pc, session, pending, events, got, made, opened>>
  PROVE  StreamInv'
  <1>1. ChannelChain' /\ SessionAtEnd' /\ End' = End
    BY ChannelKept
  <1>2. down \in Seq(Messages) /\ down' \in Seq(Messages)
    <2>1. Signal("INVALID_SESSION") \in Messages /\ Signal("CLOSE") \in Messages
      BY SignalNotDispatch
    <2>2. down \in Seq(Messages)
      BY DEF TypeOK
    <2>3. \A s \in Seq(Messages), x \in Messages : Append(s, x) \in Seq(Messages)
      OBVIOUS
    <2>4. Append(down, Signal("INVALID_SESSION")) \in Seq(Messages)
      BY <2>1, <2>2, <2>3
    <2>5. Append(Append(down, Signal("INVALID_SESSION")), Signal("CLOSE")) \in Seq(Messages)
      BY <2>1, <2>3, <2>4
    <2>6. Append(down, Signal("CLOSE")) \in Seq(Messages) /\ <<>> \in Seq(Messages)
      BY <2>1, <2>2, <2>3
    <2> QED BY <2>2, <2>4, <2>5, <2>6
  <1>3. /\ Len(down') >= Len(down) \/ down' = <<>>
        /\ \A i \in 1..Len(down') :
             \/ i <= Len(down) /\ down'[i] = down[i]
             \/ i > Len(down) /\ down'[i] \in {Signal("INVALID_SESSION"), Signal("CLOSE")}
    BY <1>2
  <1>4. \A o \in {"INVALID_SESSION", "CLOSE"} :
           Signal(o) \notin Dispatches /\ Signal(o).op # "HELLO"
    BY SignalNotDispatch
  <1>5. WireChain'
    <2>1. WireChain
      BY DEF StreamInv
    <2>2. ASSUME down' # <<>>, down'[1] \in Dispatches
          PROVE  down # <<>> /\ down[1] \in Dispatches /\ down'[1] = down[1]
      BY <1>2, <1>3, <1>4, <2>2
    <2>3. ASSUME NEW i \in 1..Len(down') - 1, down'[i + 1] \in Dispatches
          PROVE  down'[i] \in Dispatches /\ Behind(down'[i], down'[i + 1])
      <3>1. i \in 1..Len(down) - 1 /\ down'[i + 1] = down[i + 1] /\ down'[i] = down[i]
        BY <1>2, <1>3, <1>4, <2>3
      <3> QED BY <2>1, <2>3, <3>1 DEF WireChain
    <2> QED BY <1>1, <2>1, <2>2, <2>3 DEF WireChain, Behind
  <1>6. ServerChain'
    BY DEF ServerChain
  <1>7. Bounded'
    <2>1. \A i \in 1..Len(down') : Known(down'[i])
      BY <1>2, <1>3, <1>4 DEF StreamInv, Bounded, Known
    <2> QED BY <2>1 DEF StreamInv, Bounded, Known
  <1>8. Phase'
    <2>1. pc \notin {"connect", "backoff", "stopped"}
      BY DEF StreamInv, Phase
    <2>2. pc = "hello" => Len(down) = 1 /\ down[1] = Signal("HELLO")
      BY DEF StreamInv, Phase
    <2>3. ASSUME pc = "hello"
          PROVE  \/ Len(down') = 0
                 \/ Len(down') = 2 /\ down'[1] = Signal("HELLO") /\ down'[2] = Signal("CLOSE")
      <3>1. CASE down' = <<>>
        BY <1>2, <3>1
      <3>2. CASE down' = Append(down, Signal("CLOSE"))
        <4>1. down \in Seq(Messages) /\ Signal("CLOSE") \in Messages
          BY <1>2, SignalNotDispatch
        <4>2. Len(down') = Len(down) + 1 /\ down'[Len(down) + 1] = Signal("CLOSE")
              /\ \A i \in 1..Len(down) : down'[i] = down[i]
          BY <3>2, <4>1
        <4>3. Len(down) = 1
          BY <2>2, <2>3
        <4>4. 1 \in 1..Len(down) /\ Len(down) + 1 = 2
          BY <4>3
        <4> QED BY <2>2, <2>3, <4>2, <4>4
      <3> QED BY <2>3, <3>1, <3>2
    <2>4. pc = "hello" => conn' # "open"
      OBVIOUS
    <2>5. pc \in {"read", "push"} => \A i \in 1..Len(down') : down'[i].op # "HELLO"
      BY <1>2, <1>3, <1>4 DEF StreamInv, Phase
    <2> QED BY <2>1, <2>3, <2>4, <2>5 DEF Phase
  <1> QED BY <1>1, <1>5, <1>6, <1>7, <1>8 DEF StreamInv

LEMMA ConnectStream ==
  ASSUME TypeOK, StreamInv, ConnectOk PROVE StreamInv'
  <1> USE DEF ConnectOk, chanVars, serverVars
  <1>1. ChannelChain' /\ SessionAtEnd' /\ End' = End
    BY ChannelKept
  <1>2. att = 0
    BY DEF StreamInv, ServerChain
  <1>3. WireChain' /\ ServerChain'
    BY <1>2, SignalNotDispatch DEF WireChain, ServerChain
  <1>4. Bounded'
    BY SignalNotDispatch DEF StreamInv, Bounded, Known
  <1>5. Phase'
    BY DEF Phase
  <1> QED BY <1>1, <1>3, <1>4, <1>5 DEF StreamInv

LEMMA HandshakeStream ==
  ASSUME TypeOK, StreamInv, Handshake PROVE StreamInv'
  <1> USE DEF Handshake, chanVars, serverVars
  <1>1. ChannelChain' /\ SessionAtEnd' /\ End' = End
    BY ChannelKept
  <1>2. att = 0 /\ hand = NoHand
    BY DEF StreamInv, ServerChain
  <1>3. down \in Seq(Messages) /\ Len(down) >= 1 /\ Len(down) <= 2
        /\ (Len(down) = 2 => down[2] = Signal("CLOSE")) /\ (conn = "open" => Len(down) = 1)
    <2>1. down \in Seq(Messages) /\ down # <<>>
      BY DEF TypeOK
    <2>2. Phase /\ pc = "hello"
      BY DEF StreamInv
    <2>3. Len(down) \in Nat /\ Len(down) # 0
      BY <2>1
    <2>4. /\ Len(down) <= 2
          /\ Len(down) = 2 => down[2] = Signal("CLOSE")
          /\ conn = "open" => Len(down) = 1
      BY <2>2 DEF Phase
    <2> QED BY <2>1, <2>3, <2>4
  <1>4. /\ down' \in Seq(Messages) /\ Len(down') <= 1
        /\ Len(down') = 1 => down'[1] = Signal("CLOSE")
        /\ conn = "open" => down' = <<>>
    BY <1>3
  <1>4a. \A i \in 1..Len(down') : down'[i] = Signal("CLOSE")
    <2> HIDE DEF Handshake
    <2>1. ASSUME NEW i \in 1..Len(down') PROVE i = 1 /\ Len(down') = 1
      <3>1. \A n \in Nat : n <= 1 => \A k \in 1..n : k = 1 /\ n = 1
        OBVIOUS
      <3>2. Len(down') \in Nat /\ Len(down') <= 1
        BY <1>4
      <3> QED BY <3>1, <3>2
    <2> QED BY <1>4, <2>1
  <1>5. WireChain'
    <2> HIDE DEF Handshake
    <2>2. down' # <<>> => down'[1] = Signal("CLOSE")
      BY <1>4, <1>4a
    <2>3. ~ \E i \in 1..Len(down') - 1 : TRUE
      BY <1>4
    <2> QED BY <2>2, <2>3, SignalNotDispatch DEF WireChain
  <1>6. CanResume <=> session # NoSession
    <2>1. CASE session = NoSession
      BY <2>1 DEF CanResume, NoSession
    <2>2. CASE session # NoSession
      <3>1. session.id # 0 /\ session.seq # 0
        BY <2>2 DEF StreamInv, SessionAtEnd
      <3> QED BY <2>2, <3>1 DEF CanResume
    <2> QED BY <2>1, <2>2
  <1>7. ServerChain'
    BY <1>2, <1>4, <1>6 DEF ServerChain
  <1>8. Bounded'
    BY <1>4, SignalNotDispatch DEF StreamInv, Bounded, Known
  <1>9. Phase'
    <2> QED BY <1>4a, SignalNotDispatch DEF Phase
  <1> QED BY <1>1, <1>5, <1>7, <1>8, <1>9 DEF StreamInv

LEMMA SleepStream ==
  ASSUME TypeOK, StreamInv, Sleep PROVE StreamInv'
  <1> USE DEF Sleep, chanVars, serverVars, connVars
  <1>1. ChannelChain' /\ SessionAtEnd' /\ End' = End
    BY ChannelKept
  <1>2. WireChain' /\ ServerChain' /\ Bounded' /\ Phase'
    BY DEF StreamInv, WireChain, ServerChain, Bounded, Phase, Known
  <1> QED BY <1>1, <1>2 DEF StreamInv

\* A dispatch read off the wire leaves a session that is its own, with READY
\* or without.
LEMMA ReadDispatchSession ==
  ASSUME TypeOK, StreamInv, ReadDispatch
  PROVE  /\ session' # NoSession
         /\ session'.id = Head(down).sid /\ session'.seq = Head(down).s
  <1> USE DEF ReadDispatch
  <1> DEFINE m == Head(down)
  <1>1. down \in Seq(Messages) /\ m \in Dispatches /\ m = down[1] /\ pc = "read"
    BY DEF TypeOK
  <1>2. Behind(End, m) /\ (session = NoSession => m.sid > End.sid)
    BY <1>1 DEF StreamInv, WireChain
  <1>4. m.sid \in SessionIds /\ m.s \in 1..MaxEvents
        /\ m.op \in {"READY", "DISPATCH", "RESUMED"}
    BY <1>1, DispatchFields
  <1>5. session'.id = (IF m.op = "READY" THEN m.sid ELSE session.id)
        /\ session'.seq = (IF m.op = "RESUMED" THEN session.seq ELSE m.s)
    BY DEF TrackDispatch
  <1>h. m.op # "RESUMED" => (m.op = "READY" <=> m.s = 1)
    BY <1>1, DispatchFields
  <1> HIDE DEF m
  <1>6. CASE m.op = "READY"
    BY <1>h, <1>4, <1>5, <1>6 DEF m, NoSession, SessionIds
  <1>7. CASE m.op # "READY"
    <2>1. session # NoSession
      BY <1>2, <1>h, <1>4, <1>7, EndType, GatewayConstants DEF Behind, SessionIds
    <2>2. session.id = End.sid /\ session.seq = End.s
      BY <2>1 DEF StreamInv, SessionAtEnd
    <2>3. m.sid = End.sid
      BY <1>2, <1>h, <1>4, <1>7 DEF Behind
    <2>4. m.op = "RESUMED" => m.s = End.s
      BY <1>2 DEF Behind
    <2> QED BY <1>4, <1>5, <1>7, <2>2, <2>3, <2>4 DEF m, NoSession, SessionIds
  <1> QED BY <1>6, <1>7 DEF m

LEMMA ReadDispatchStream ==
  ASSUME TypeOK, StreamInv, ReadDispatch PROVE StreamInv'
  <1> USE DEF ReadDispatch, chanVars, serverVars
  <1> DEFINE m == Head(down)
  <1>1. /\ down \in Seq(Messages) /\ m \in Dispatches /\ m = down[1]
        /\ pending' = m /\ pc = "read" /\ pc' = "push"
        /\ down' = Tail(down)
        /\ Len(down') = Len(down) - 1 /\ \A i \in 1..Len(down') : down'[i] = down[i + 1]
    BY DEF TypeOK
  <1>2. Behind(End, m) /\ (session = NoSession => m.sid > End.sid)
    BY <1>1 DEF StreamInv, WireChain
  <1>3. End' = m
    BY <1>1 DEF End
  <1>4. m.sid \in SessionIds /\ m.s \in 1..MaxEvents
        /\ m.op \in {"READY", "DISPATCH", "RESUMED"}
        /\ (m.op # "RESUMED" => (m.op = "READY" <=> m.s = 1))
    BY <1>1, DispatchFields
  <1> HIDE DEF m
  <1>5. ChannelChain'
    BY <1>1, <1>2 DEF StreamInv, ChannelChain, Behind, End
  <1>6. session' # NoSession /\ session'.id = m.sid /\ session'.seq = m.s
    BY ReadDispatchSession DEF m
  <1>7. SessionAtEnd'
    BY <1>3, <1>4, <1>6 DEF SessionAtEnd, SessionIds
  <1>8. WireChain'
    <2>1. ASSUME down' # <<>>, down'[1] \in Dispatches PROVE Behind(m, down'[1])
      BY <1>1, <2>1 DEF StreamInv, WireChain
    <2>2. ASSUME NEW i \in 1..Len(down') - 1, down'[i + 1] \in Dispatches
          PROVE  down'[i] \in Dispatches /\ Behind(down'[i], down'[i + 1])
      <3>1. i + 1 \in 1..Len(down) - 1 /\ down'[i + 1] = down[i + 2] /\ down'[i] = down[i + 1]
        BY <1>1, <2>2
      <3>2. WireChain
        BY DEF StreamInv
      <3> QED BY <2>2, <3>1, <3>2 DEF WireChain
    <2> QED BY <1>3, <1>6, <2>1, <2>2 DEF WireChain, Behind
  <1>9. ServerChain'
    <2>1. ServerChain /\ hand = NoHand
      BY <1>1 DEF StreamInv, ServerChain
    <2>2. SUFFICES ASSUME att # 0
          PROVE  /\ \A i \in 1..Len(down') : down'[i] \in Dispatches
                 /\ Behind(IF down' # <<>> THEN down'[Len(down')] ELSE m, Dispatch(att, cur + 1))
      BY <1>1, <1>3, <1>6, <2>1 DEF ServerChain
    <2>3. \A i \in 1..Len(down') : down'[i] \in Dispatches
      BY <1>1, <2>1, <2>2 DEF ServerChain
    <2>4. Behind(down[Len(down)], Dispatch(att, cur + 1))
      BY <1>1, <2>1, <2>2 DEF ServerChain
    <2>5. (IF down' # <<>> THEN down'[Len(down')] ELSE m) = down[Len(down)]
      <3>1. CASE down' = <<>>
        <4>1. Len(down) \in Nat /\ Len(down') = Len(down) - 1
          BY <1>1
        <4>2. Len(down') = 0
          BY <1>1, <3>1
        <4>3. Len(down) = 1
          BY <1>1, <4>1, <4>2
        <4> QED BY <1>1, <3>1, <4>3
      <3>2. CASE down' # <<>>
        <4>1. Len(down') \in 1..Len(down') /\ Len(down') + 1 = Len(down)
          BY <1>1, <3>2
        <4> QED BY <1>1, <3>2, <4>1
      <3> QED BY <3>1, <3>2
    <2> QED BY <2>3, <2>4, <2>5
  <1>10. Bounded'
    BY <1>1 DEF StreamInv, Bounded, Known
  <1>11. Phase'
    BY <1>1 DEF StreamInv, Phase
  <1> QED BY <1>5, <1>7, <1>8, <1>9, <1>10, <1>11 DEF StreamInv

\* tx.send and recv move the events along without moving their end.
LEMMA PushEnd == ASSUME TypeOK, Push PROVE End' = End
  <1>1. /\ events' = Append(events, pending) /\ pc = "push" /\ pc' = "read"
        /\ events \in Seq(Dispatches) /\ pending \in Dispatches
        /\ Len(events') = Len(events) + 1 /\ events'[Len(events')] = pending
    BY DEF TypeOK, Push
  <1>2. events' # <<>>
    BY <1>1
  <1> QED BY <1>1, <1>2 DEF End

LEMMA PushStream ==
  ASSUME TypeOK, StreamInv, Push PROVE StreamInv'
  <1> USE DEF Push, connVars, serverVars
  <1>1. /\ events \in Seq(Dispatches) /\ pending \in Dispatches /\ pc = "push" /\ pc' = "read"
        /\ events' = Append(events, pending)
        /\ Len(events') = Len(events) + 1 /\ events'[Len(events')] = pending
        /\ \A i \in 1..Len(events) : events'[i] = events[i]
    BY DEF TypeOK
  <1>2. End' = pending /\ End = pending
    BY <1>1 DEF End
  <1>3. ChannelChain
    BY DEF StreamInv
  <1>4. ChannelChain'
    <2>1. Behind(got, events'[1])
      <3>1. CASE events = <<>>
        BY <1>1, <1>3, <3>1 DEF ChannelChain
      <3>2. CASE events # <<>>
        BY <1>1, <1>3, <3>2 DEF ChannelChain
      <3> QED BY <3>1, <3>2
    <2>2. ASSUME NEW i \in 1..Len(events') - 1 PROVE Behind(events'[i], events'[i + 1])
      <3>1. CASE i = Len(events)
        BY <1>1, <1>3, <2>2, <3>1 DEF ChannelChain
      <3>2. CASE i # Len(events)
        <4>1. i \in 1..Len(events) - 1 /\ i \in 1..Len(events) /\ i + 1 \in 1..Len(events)
          BY <1>1, <2>2, <3>2
        <4> QED BY <1>1, <1>3, <4>1 DEF ChannelChain
      <3> QED BY <3>1, <3>2
    <2> QED BY <1>1, <2>1, <2>2 DEF ChannelChain, Behind
  <1>5. SessionAtEnd'
    BY <1>2 DEF StreamInv, SessionAtEnd
  <1>6. WireChain' /\ ServerChain'
    BY <1>1, <1>2 DEF StreamInv, WireChain, ServerChain, Behind
  <1>7. Bounded'
    BY <1>1 DEF StreamInv, Bounded, Known
  <1>8. Phase'
    BY <1>1 DEF StreamInv, Phase
  <1> QED BY <1>4, <1>5, <1>6, <1>7, <1>8 DEF StreamInv

LEMMA InvalidStream ==
  ASSUME TypeOK, StreamInv, ReadInvalidSession PROVE StreamInv'
  <1> USE DEF ReadInvalidSession, chanVars, serverVars
  <1>1. /\ down \in Seq(Messages) /\ down' = Tail(down) /\ pc = "read" /\ down # <<>>
        /\ down[1].op = "INVALID_SESSION"
        /\ Len(down') = Len(down) - 1 /\ \A i \in 1..Len(down') : down'[i] = down[i + 1]
    BY DEF TypeOK
  <1>2. down[1] \notin Dispatches
    BY <1>1, DispatchFields
  <1>3. End' = End
    BY DEF End
  <1>4. ChannelChain' /\ SessionAtEnd'
    BY DEF StreamInv, ChannelChain, SessionAtEnd, Behind
  <1>5. ServerChain
    BY DEF StreamInv
  <1>6. att = 0 /\ hand = NoHand
    BY <1>1, <1>2, <1>5 DEF ServerChain
  <1>7. WireChain
    BY DEF StreamInv
  <1>8. ASSUME down' # <<>>, down'[1] \in Dispatches PROVE FALSE
    <2>1. 1 \in 1..Len(down) - 1 /\ down[1 + 1] \in Dispatches
      BY <1>1, <1>8
    <2> QED BY <1>2, <1>7, <2>1 DEF WireChain
  <1>9. ASSUME NEW i \in 1..Len(down') - 1, down'[i + 1] \in Dispatches
        PROVE  down'[i] \in Dispatches /\ Behind(down'[i], down'[i + 1])
    <2>1. i + 1 \in 1..Len(down) - 1 /\ down'[i + 1] = down[i + 2] /\ down'[i] = down[i + 1]
      BY <1>1, <1>9
    <2> QED BY <1>7, <1>9, <2>1 DEF WireChain
  <1>10. WireChain' /\ ServerChain'
    BY <1>6, <1>8, <1>9 DEF WireChain, ServerChain, Behind
  <1>11. Bounded' /\ Phase'
    BY <1>1 DEF StreamInv, Bounded, Known, Phase
  <1> QED BY <1>4, <1>10, <1>11 DEF StreamInv

LEMMA RecvEnd ==
  ASSUME TypeOK, StreamInv, Recv PROVE End'.sid = End.sid /\ End'.s = End.s
  <1> USE DEF Recv, taskVars
  <1>1. /\ events \in Seq(Dispatches) /\ events # <<>>
        /\ events' = Tail(events) /\ Len(events') = Len(events) - 1
        /\ \A i \in 1..Len(events') : events'[i] = events[i + 1]
    BY DEF TypeOK
  <1>2. Behind(got, events[1])
    BY <1>1 DEF StreamInv, ChannelChain
  <1>3. got'.sid = events[1].sid /\ got'.s = events[1].s
    BY <1>1, <1>2 DEF Behind
  <1>4. CASE events' = <<>>
    <2>1. Len(events') = 0
      BY <1>1, <1>4
    <2>2. Len(events) = 1 /\ events[Len(events)] = events[1]
      BY <1>1, <2>1
    <2> QED BY <1>1, <1>3, <1>4, <2>2 DEF End
  <1>5. CASE events' # <<>>
    <2>1. Len(events') \in 1..Len(events') /\ Len(events') + 1 = Len(events)
      BY <1>1, <1>5
    <2>2. events'[Len(events')] = events[Len(events)]
      BY <1>1, <2>1
    <2> QED BY <1>1, <1>5, <2>2 DEF End
  <1> QED BY <1>4, <1>5

LEMMA RecvStream ==
  ASSUME TypeOK, StreamInv, Recv PROVE StreamInv'
  <1> USE DEF Recv, taskVars, connVars, serverVars
  <1> DEFINE m == Head(events)
  <1>1. /\ events \in Seq(Dispatches) /\ events # <<>> /\ m = events[1] /\ m \in Dispatches
        /\ events' = Tail(events) /\ Len(events') = Len(events) - 1
        /\ \A i \in 1..Len(events') : events'[i] = events[i + 1]
    BY DEF TypeOK
  <1>2. ChannelChain /\ Behind(got, m)
    BY <1>1 DEF StreamInv, ChannelChain
  <1>3. got'.sid = m.sid /\ got'.s = m.s
    BY <1>2 DEF Behind
  <1> HIDE DEF m
  <1>4. CASE events' = <<>>
    <2>a. Len(events') = 0
      BY <1>1, <1>4
    <2>1. Len(events') = 0 /\ Len(events) = 1
      BY <1>1, <2>a
    <2>2. events[Len(events)] = m
      BY <1>1, <2>1
    <2>3. End'.sid = End.sid /\ End'.s = End.s
      BY <1>1, <1>3, <1>4, <2>2 DEF End
    <2>4. ChannelChain'
      <3>1. pc = "push" => Behind(m, pending)
        BY <1>1, <1>2, <2>2 DEF ChannelChain
      <3>2. pc' = "push" => Behind(got', pending')
        BY <1>3, <3>1 DEF Behind
      <3>3. Len(events') - 1 = 0 - 1 /\ 1..(0 - 1) = {}
        <4>1. Len(events') = 0
          BY <2>1
        <4> QED BY <4>1
      <3> QED BY <1>4, <3>2, <3>3 DEF ChannelChain
    <2>5. SessionAtEnd' /\ WireChain' /\ ServerChain'
      BY <2>3 DEF StreamInv, SessionAtEnd, WireChain, ServerChain, Behind
    <2>6. Known(m)
      BY <1>1 DEF StreamInv, Bounded
    <2>7. Bounded' /\ Phase'
      BY <1>1, <1>3, <1>4, <2>6 DEF StreamInv, Bounded, Known, Phase
    <2> QED BY <2>4, <2>5, <2>7 DEF StreamInv
  <1>5. CASE events' # <<>>
    <2>1. Len(events') >= 1 /\ events'[Len(events')] = events[Len(events)]
      <3>1. Len(events') \in 1..Len(events') /\ Len(events') + 1 = Len(events)
        BY <1>1, <1>5
      <3> QED BY <1>1, <3>1
    <2>2. End' = End
      BY <1>1, <1>5, <2>1 DEF End
    <2>3. ChannelChain'
      <3>1. Behind(got', events'[1])
        <4>1. 1 \in 1..Len(events) - 1 /\ events'[1] = events[1 + 1]
          BY <1>1, <2>1
        <4> QED BY <1>1, <1>2, <1>3, <4>1 DEF ChannelChain, Behind
      <3>2. ASSUME NEW i \in 1..Len(events') - 1 PROVE Behind(events'[i], events'[i + 1])
        <4>1. i + 1 \in 1..Len(events) - 1 /\ events'[i + 1] = events[i + 2]
              /\ events'[i] = events[i + 1]
          BY <1>1, <3>2
        <4> QED BY <1>2, <4>1 DEF ChannelChain
      <3>3. pc = "push" => Behind(events'[Len(events')], pending)
        BY <1>1, <1>2, <2>1 DEF ChannelChain
      <3> QED BY <1>5, <3>1, <3>2, <3>3 DEF ChannelChain, Behind
    <2>5. SessionAtEnd' /\ WireChain' /\ ServerChain'
      BY <2>2 DEF StreamInv, SessionAtEnd, WireChain, ServerChain, Behind
    <2>6. Known(m)
      BY <1>1 DEF StreamInv, Bounded
    <2>7. Bounded' /\ Phase'
      BY <1>1, <1>3, <2>6 DEF StreamInv, Bounded, Known, Phase
    <2> QED BY <2>3, <2>5, <2>7 DEF StreamInv
  <1> QED BY <1>4, <1>5

LEMMA ShutdownStream ==
  ASSUME TypeOK, StreamInv, Shutdown PROVE StreamInv'
  <1> USE DEF Shutdown, chanVars
  <1>1. CASE pc = "read" /\ Leave(TRUE)
    BY <1>1, LeaveStream
  <1>2. CASE pc # "push" /\ UNCHANGED <<backoff, connVars, att, cur>> /\ pc = "backoff" /\ pc' = "stopped"
    <2>1. ChannelChain' /\ SessionAtEnd' /\ End' = End
      BY <1>2, ChannelKept
    <2>2. WireChain' /\ ServerChain' /\ Bounded' /\ Phase'
      BY <1>2, <2>1 DEF StreamInv, WireChain, ServerChain, Bounded, Phase, Known, Behind, connVars
    <2> QED BY <2>1, <2>2 DEF StreamInv
  <1>3. CASE UNCHANGED <<pc, backoff, connVars, att, cur>>
    <2>1. ChannelChain' /\ SessionAtEnd' /\ End' = End
      BY <1>3, ChannelKept
    <2>2. WireChain' /\ ServerChain' /\ Bounded' /\ Phase'
      BY <1>3, <2>1 DEF StreamInv, WireChain, ServerChain, Bounded, Phase, Known, Behind, connVars
    <2> QED BY <2>1, <2>2 DEF StreamInv
  <1> QED BY <1>1, <1>2, <1>3

\* The end of what the task has read is a dispatch the server has made.
LEMMA EndKnown ==
  ASSUME TypeOK, StreamInv
  PROVE  End.sid <= opened /\ (End.sid # 0 => End.s <= made[End.sid])
  <1> USE DEF StreamInv, Bounded, Known
  <1>1. CASE pc = "push"
    BY <1>1 DEF TypeOK, End
  <1>2. CASE pc # "push" /\ events # <<>>
    <2>1. Len(events) \in 1..Len(events) /\ events[Len(events)] \in Dispatches
      BY <1>2 DEF TypeOK
    <2> QED BY <1>2, <2>1 DEF End
  <1>3. CASE pc # "push" /\ events = <<>>
    BY <1>3 DEF End
  <1> QED BY <1>1, <1>2, <1>3

LEMMA IdentifyStream ==
  ASSUME TypeOK, StreamInv, SrvIdentify PROVE StreamInv'
  <1> USE DEF SrvIdentify, taskVars, chanVars
  <1>1. ChannelChain' /\ SessionAtEnd' /\ End' = End
    BY ChannelKept
  <1>2. opened \in 0..MaxSessions /\ opened + 1 \in SessionIds /\ made[opened + 1] = 0
        /\ opened' = opened + 1 /\ att' = opened + 1 /\ cur' = 0 /\ hand' = NoHand
    BY GatewayConstants DEF TypeOK, StreamInv, Bounded, SessionIds
  <1>3. /\ made \in [SessionIds -> 0..MaxEvents] /\ made'[opened + 1] = 1
        /\ \A i \in SessionIds : i # opened + 1 => made'[i] = made[i]
    BY <1>2 DEF TypeOK
  <1>4. down = <<>> /\ down' = <<>> /\ pc = "read" /\ conn = "open" /\ att = 0
    BY DEF StreamInv, ServerChain, Identify, NoHand
  <1>5. session = NoSession
    <2>1. hand # Resume(session.id, session.seq)
      BY DEF Identify, Resume
    <2> QED BY <2>1 DEF StreamInv, ServerChain, Identify, NoHand
  <1>6. WireChain'
    BY <1>4 DEF WireChain
  <1>7. End.sid < opened + 1 /\ End.sid \in 0..MaxSessions
    BY <1>2, EndKnown, EndType, GatewayConstants
  <1>8. Behind(End, Dispatch(opened + 1, 0 + 1))
    BY <1>7, <1>2 DEF Behind, Dispatch
  <1>9. ServerChain'
    BY <1>1, <1>2, <1>3, <1>4, <1>7, <1>8 DEF ServerChain, Behind
  <1>10. Bounded'
    <2>1. ASSUME NEW m, Known(m) PROVE Known(m)'
      BY <1>2, <1>3, <2>1, DispatchFields DEF Known, SessionIds
    <2>2. got.sid # 0 => got.sid # opened + 1 /\ got.sid \in SessionIds
      BY <1>2, GatewayConstants DEF TypeOK, StreamInv, Bounded, SessionIds
    <2>3. live' \subseteq 1..opened'
      BY <1>2 DEF StreamInv, Bounded
    <2>4. \A i \in SessionIds : i > opened' => made'[i] = 0
      BY <1>2, <1>3 DEF StreamInv, Bounded, SessionIds
    <2>5. /\ \A i \in 1..Len(events) : Known(events[i])'
          /\ pc = "push" => Known(pending)'
      BY <2>1 DEF StreamInv, Bounded
    <2>6. got'.sid <= opened' /\ (got'.sid # 0 => got'.s <= made'[got'.sid])
      BY <1>2, <1>3, <2>2 DEF StreamInv, Bounded, TypeOK
    <2> QED BY <1>4, <2>3, <2>4, <2>5, <2>6 DEF Bounded, Known
  <1>11. Phase'
    BY DEF StreamInv, Phase
  <1> QED BY <1>1, <1>6, <1>9, <1>10, <1>11 DEF StreamInv

LEMMA ResumeStream ==
  ASSUME TypeOK, StreamInv, SrvResume PROVE StreamInv'
  <1> USE DEF SrvResume, taskVars, chanVars
  <1>1. ChannelChain' /\ SessionAtEnd' /\ End' = End
    BY ChannelKept
  <1>2. down = <<>> /\ pc = "read" /\ conn = "open" /\ session # NoSession
        /\ hand = Resume(session.id, session.seq)
    BY DEF StreamInv, ServerChain, Identify, NoHand
  <1>3. hand.sid = session.id /\ hand.seq = session.seq
    BY <1>2 DEF Resume
  <1>4. session.id = End.sid /\ session.seq = End.s /\ session.id # 0 /\ session.seq # 0
    BY <1>2 DEF StreamInv, SessionAtEnd
  <1>5. End.sid \in SessionIds /\ End.s \in 1..MaxEvents
        /\ End.sid <= opened /\ End.s <= made[End.sid]
    BY <1>4, EndType, EndKnown, GatewayConstants DEF SessionIds
  <1> DEFINE r == Resumed(End.sid, End.s)
  <1>6. r \in Dispatches /\ r.sid = End.sid /\ r.s = End.s /\ r.op = "RESUMED"
    BY <1>5, DispatchIn
  <1>7. att' = End.sid /\ cur' = End.s /\ hand' = NoHand /\ down' = Append(<<>>, r)
    BY <1>2, <1>3, <1>4
  <1> HIDE DEF r
  <1>8. Len(down') = 1 /\ down'[1] = r /\ down' # <<>>
    BY SMTT(30), <1>7
  <1>9. WireChain'
    <2>1. Behind(End, r)
      BY <1>6 DEF Behind
    <2>2. ~ \E i \in 1..Len(down') - 1 : TRUE
      BY <1>8
    <2> QED BY <1>1, <1>2, <1>8, <2>1, <2>2 DEF WireChain, Behind
  <1>10. ServerChain'
    <2>1. Behind(r, Dispatch(End.sid, End.s + 1))
      BY <1>5, <1>6 DEF Behind, Dispatch
    <2>2. \A i \in 1..Len(down') : down'[i] \in Dispatches
      BY <1>6, <1>8
    <2>3. down'[Len(down')] = r
      BY <1>8
    <2> QED BY <1>2, <1>5, <1>7, <1>8, <2>1, <2>2, <2>3 DEF ServerChain, Behind
  <1>11. Bounded'
    <2>1. Known(r)
      BY <1>5, <1>6 DEF Known
    <2> QED BY <1>8, <2>1 DEF StreamInv, Bounded, Known
  <1>12. Phase'
    BY <1>2, <1>6, <1>8 DEF StreamInv, Phase
  <1> QED BY <1>1, <1>9, <1>10, <1>11, <1>12 DEF StreamInv

LEMMA SendStream ==
  ASSUME TypeOK, StreamInv, SrvSend PROVE StreamInv'
  <1> USE DEF SrvSend, taskVars, chanVars
  <1>1. ChannelChain' /\ SessionAtEnd' /\ End' = End
    BY ChannelKept
  <1> DEFINE d == Dispatch(att, cur + 1)
  <1>2. att \in SessionIds /\ cur \in 0..MaxEvents /\ cur + 1 \in 1..MaxEvents
        /\ made \in [SessionIds -> 0..MaxEvents]
    BY SMTT(30), GatewayConstants DEF TypeOK, SessionIds
  <1>3. d \in Dispatches /\ d.sid = att /\ d.s = cur + 1 /\ d.op # "RESUMED"
    BY <1>2, DispatchIn
  <1>4. /\ down \in Seq(Messages) /\ down' = Append(down, d) /\ d \in Messages
        /\ Len(down') = Len(down) + 1 /\ down'[Len(down')] = d
        /\ \A i \in 1..Len(down) : down'[i] = down[i]
        /\ down' # <<>>
    BY SMTT(30), <1>3 DEF TypeOK, Messages
  <1>5. /\ pc \in {"read", "push"} /\ hand = NoHand
        /\ \A i \in 1..Len(down) : down[i] \in Dispatches
        /\ Behind(IF down # <<>> THEN down[Len(down)] ELSE End, d)
        /\ down = <<>> /\ session = NoSession => att > End.sid
    BY DEF StreamInv, ServerChain
  <1>5a. att <= opened /\ cur + 1 <= made[att]
    BY <1>2 DEF StreamInv, ServerChain
  <1> HIDE DEF d
  <1>6. \A i \in 1..Len(down') : down'[i] \in Dispatches
    <2>1. ASSUME NEW i \in 1..Len(down') PROVE i \in 1..Len(down) \/ i = Len(down')
      BY <1>4, <2>1
    <2> QED BY <1>3, <1>4, <1>5, <2>1
  <1>7. WireChain
    BY DEF StreamInv
  <1>10. WireChain'
    <2>1. CASE down = <<>>
      <3>1. Len(down') = 1 /\ down'[1] = d
        BY <1>4, <2>1
      <3>2. ~ \E i \in 1..Len(down') - 1 : TRUE
        BY <3>1
      <3> QED BY <1>1, <1>3, <1>4, <1>5, <2>1, <3>1, <3>2 DEF WireChain, Behind
    <2>2. CASE down # <<>>
      <3>1. 1 \in 1..Len(down) /\ down'[1] = down[1]
        BY <1>4, <2>2
      <3>2. ASSUME NEW i \in 1..Len(down') - 1 PROVE Behind(down'[i], down'[i + 1])
        <4>1. CASE i = Len(down)
          BY <1>4, <1>5, <2>2, <3>2, <4>1
        <4>2. CASE i # Len(down)
          <5>1. i \in 1..Len(down) - 1 /\ i \in 1..Len(down) /\ i + 1 \in 1..Len(down)
            BY <1>4, <3>2, <4>2
          <5> QED BY <1>4, <1>5, <1>7, <5>1 DEF WireChain
        <4> QED BY <4>1, <4>2
      <3>3. \A i \in 1..Len(down') - 1 : i \in 1..Len(down')
        BY <1>4
      <3> QED BY <1>1, <1>6, <1>7, <2>2, <3>1, <3>2, <3>3 DEF WireChain, Behind
    <2> QED BY <2>1, <2>2
  <1>11. ServerChain'
    <2>1. Behind(d, Dispatch(att, cur + 1 + 1))
      BY <1>2, <1>3, GatewayConstants DEF Behind, Dispatch
    <2> QED BY <1>2, <1>4, <1>5, <1>5a, <1>6, <2>1 DEF ServerChain, Behind
  <1>12. Bounded'
    <2>1. Known(d)
      BY <1>3, <1>5a DEF Known
    <2>2. ASSUME NEW i \in 1..Len(down') PROVE Known(down'[i])
      <3>1. i \in 1..Len(down) \/ i = Len(down')
        BY <1>4, <2>2
      <3> QED BY <1>4, <2>1, <3>1 DEF StreamInv, Bounded
    <2> QED BY <2>2 DEF StreamInv, Bounded, Known
  <1>13. Phase'
    <2>1. \A i \in 1..Len(down') : down'[i].op # "HELLO"
      BY <1>6, DispatchFields
    <2> QED BY <1>5, <2>1 DEF Phase
  <1> QED BY <1>1, <1>10, <1>11, <1>12, <1>13 DEF StreamInv

LEMMA ProduceStream ==
  ASSUME TypeOK, StreamInv, NEW i \in SessionIds, SrvProduce(i) PROVE StreamInv'
  <1> USE DEF SrvProduce, taskVars, chanVars, connVars
  <1>1. ChannelChain' /\ SessionAtEnd' /\ End' = End
    BY ChannelKept
  <1>2. /\ made \in [SessionIds -> 0..MaxEvents] /\ i <= opened
        /\ \A j \in SessionIds : made'[j] >= made[j] /\ made[j] \in Nat /\ made'[j] \in Nat
        /\ \A j \in SessionIds : j # i => made'[j] = made[j]
    <2>1. made \in [SessionIds -> 0..MaxEvents] /\ made' = [made EXCEPT ![i] = @ + 1]
      BY DEF TypeOK
    <2>2. live \subseteq 1..opened /\ i \in live
      BY DEF StreamInv, Bounded
    <2>3. i <= opened
      BY <2>2
    <2>4. \A j \in SessionIds : j # i => made'[j] = made[j]
      BY <2>1
    <2>5. \A j \in SessionIds : made[j] \in Nat
      BY <2>1
    <2>6. made'[i] = made[i] + 1
      BY <2>1
    <2>7. \A j \in SessionIds : made'[j] >= made[j] /\ made'[j] \in Nat
      BY <2>4, <2>5, <2>6
    <2> QED BY <2>1, <2>3, <2>4, <2>5, <2>7
  <1>3. WireChain' /\ Phase'
    BY <1>1 DEF StreamInv, WireChain, Phase, Behind
  <1>4. att # 0 => att \in SessionIds /\ cur \in Nat
    BY GatewayConstants DEF TypeOK, SessionIds
  <1>5. ServerChain'
    <2>1. att # 0 /\ cur <= made[att] => cur <= made'[att]
      BY <1>2, <1>4
    <2> QED BY <1>1, <2>1 DEF StreamInv, ServerChain, Behind
  <1>6. Bounded'
    <2>1. ASSUME NEW m, Known(m) PROVE Known(m)'
      BY <1>2, <2>1, DispatchFields DEF Known, SessionIds
    <2>2. got.sid # 0 => got.s <= made'[got.sid]
      <3>1. got.sid # 0 => got.sid \in SessionIds /\ got.s \in Nat /\ got.s <= made[got.sid]
        BY GatewayConstants DEF TypeOK, StreamInv, Bounded, SessionIds
      <3> QED BY <1>2, <3>1
    <2>3. \A j \in SessionIds : j > opened => made'[j] = 0
      <3>1. opened \in 0..MaxSessions
        BY DEF TypeOK
      <3>2. \A j \in SessionIds : j > opened => made[j] = 0
        BY DEF StreamInv, Bounded
      <3>3. \A j \in SessionIds : j > opened => j # i
        BY <1>2, <3>1 DEF SessionIds
      <3> QED BY <1>2, <3>2, <3>3
    <2>4. /\ \A j \in 1..Len(events) : Known(events[j])'
          /\ \A j \in 1..Len(down) : Known(down[j])'
          /\ pc = "push" => Known(pending)'
      BY <2>1 DEF StreamInv, Bounded
    <2> QED BY <2>2, <2>3, <2>4 DEF StreamInv, Bounded, Known
  <1> QED BY <1>1, <1>3, <1>5, <1>6 DEF StreamInv

\* Every step of the task, its caller, the server and the network keeps it.
LEMMA StreamInvNext == TypeOK /\ StreamInv /\ [Next]_vars => StreamInv'
  <1> SUFFICES ASSUME TypeOK, StreamInv, [Next]_vars PROVE StreamInv'
    OBVIOUS
  <1> USE DEF taskVars, chanVars, connVars, serverVars
  <1>a. ASSUME ConnectFails PROVE StreamInv'
    BY <1>a, LeaveStream DEF ConnectFails
  <1>b. ASSUME HelloFails PROVE StreamInv'
    BY <1>b, LeaveStream DEF HelloFails
  <1>c. ASSUME HandshakeSendFails PROVE StreamInv'
    BY <1>c, LeaveStream DEF HandshakeSendFails
  <1>d. ASSUME ReadClose PROVE StreamInv'
    BY <1>d, LeaveStream DEF ReadClose
  <1>e. ASSUME ConnectionEnds PROVE StreamInv'
    BY <1>e, LeaveStream DEF ConnectionEnds
  <1>f. ASSUME conn = "open", NEW w \in {"op9", "op9_close", "close"}, Rejection(w),
               w # "close" => pc # "hello",
               live' \subseteq live, UNCHANGED <<taskVars, chanVars, made, opened>>
        PROVE  StreamInv'
    <2>1. down \in Seq(Messages)
      BY DEF TypeOK
    <2>2. CASE w = "op9"
      <3>1. down' = Append(down, Signal("INVALID_SESSION")) /\ conn' = "open"
        BY <1>f, <2>1, <2>2, SignalNotDispatch DEF Rejection
      <3> QED BY <1>f, <2>2, <3>1, CutStream DEF Rejection
    <2>3. CASE w = "op9_close"
      <3>1. down' = Append(Append(down, Signal("INVALID_SESSION")), Signal("CLOSE")) /\ conn' = "half"
        BY <1>f, <2>1, <2>3, SignalNotDispatch DEF Rejection
      <3> QED BY <1>f, <2>3, <3>1, CutStream DEF Rejection
    <2>4. CASE w = "close"
      <3>1. down' = Append(down, Signal("CLOSE")) /\ conn' = "half"
        BY <1>f, <2>1, <2>4, SignalNotDispatch DEF Rejection
      <3> QED BY <1>f, <2>4, <3>1, CutStream DEF Rejection
    <2> QED BY <2>2, <2>3, <2>4
  <1>g. ASSUME SrvReject PROVE StreamInv'
    <2>1. hand # NoHand /\ pc # "hello"
      BY <1>g DEF SrvReject, NoHand, StreamInv, ServerChain
    <2> QED BY <1>f, <1>g, <2>1, GatewayConstants DEF SrvReject
  <1>h. ASSUME SrvInvalidate PROVE StreamInv'
    <2>1. pc # "hello"
      BY <1>h DEF SrvInvalidate, StreamInv, ServerChain
    <2> QED BY <1>f, <1>h, <2>1, GatewayConstants DEF SrvInvalidate
  <1>i. ASSUME SrvClose PROVE StreamInv'
    BY <1>f, <1>i DEF SrvClose
  <1>j. ASSUME Break PROVE StreamInv'
    BY <1>j, CutStream DEF Break
  <1>k. ASSUME NEW i \in SessionIds, SrvForget(i) PROVE StreamInv'
    <2>1. ChannelChain' /\ SessionAtEnd' /\ End' = End
      BY <1>k, ChannelKept DEF SrvForget
    <2>2. WireChain' /\ ServerChain' /\ Bounded' /\ Phase'
      BY <1>k, <2>1 DEF SrvForget, StreamInv, WireChain, ServerChain, Bounded, Phase, Known, Behind
    <2> QED BY <2>1, <2>2 DEF StreamInv
  <1>l. CASE UNCHANGED vars
    <2>1. ChannelChain' /\ SessionAtEnd' /\ End' = End
      BY <1>l, ChannelKept DEF vars
    <2>2. WireChain' /\ ServerChain' /\ Bounded' /\ Phase'
      BY <1>l, <2>1 DEF vars, StreamInv, WireChain, ServerChain, Bounded, Phase, Known, Behind
    <2> QED BY <2>1, <2>2 DEF StreamInv
  <1> QED
    BY <1>a, <1>b, <1>c, <1>d, <1>e, <1>g, <1>h, <1>i, <1>j, <1>k, <1>l,
       ConnectStream, HandshakeStream, SleepStream, ReadDispatchStream, PushStream,
       InvalidStream, RecvStream, ShutdownStream, IdentifyStream, ResumeStream,
       SendStream, ProduceStream
       DEF Next, TaskStep, ServerStep, Environment

\* From what the caller has received to the server's cursor, the dispatches on
\* their way form one unbroken chain, in every reachable state.
THEOREM StreamInvariant == Spec => []StreamInv
  <1>1. Init => StreamInv
    BY StreamInvInit
  <1>2. TypeOK /\ StreamInv /\ [Next]_vars => StreamInv'
    BY StreamInvNext
  <1> QED BY <1>1, <1>2, TypeCorrect, PTL DEF Spec

-----------------------------------------------------------------------------
(* The task implements the event stream. *)

\* A step is a production, the receipt of the next dispatch, or a stutter.
LEMMA StreamStep ==
  ASSUME TypeOK, StreamInv, [Next]_vars
  PROVE  [Stream!StreamNext]_(Stream!streamVars)
  <1> USE DEF Stream!StreamNext, Stream!streamVars, Stream!SessionIds, SessionIds
  <1>1. CASE Recv
    <2> DEFINE m == Head(events)
    <2>1. events \in Seq(Dispatches) /\ events # <<>> /\ m = events[1] /\ m \in Dispatches
          /\ Len(events) >= 1
      BY <1>1 DEF Recv, TypeOK
    <2>2. Behind(got, m) /\ Known(m)
      BY <2>1 DEF StreamInv, ChannelChain, Bounded
    <2>3. got \in [n : Nat, sid : 0..MaxSessions, s : 0..MaxEvents]
      BY DEF TypeOK
    <2>4. m.sid \in SessionIds /\ m.s \in 1..MaxEvents /\ made' = made
      BY <1>1, <2>1, DispatchFields DEF Recv, serverVars
    <2>5. got' = IF m.op = "RESUMED" THEN got
                 ELSE [n |-> got.n + 1, sid |-> m.sid, s |-> m.s]
      BY <1>1 DEF Recv
    <2>6. m.s <= made[m.sid]
      BY <2>1, <2>2 DEF Known
    <2> HIDE DEF m
    <2>7. CASE m.op = "RESUMED"
      BY <2>4, <2>5, <2>7
    <2>8. CASE m.op # "RESUMED"
      <3>1. \/ m.sid = got.sid /\ m.s = got.s + 1
            \/ m.sid > got.sid /\ m.s = 1
        BY <2>2, <2>8 DEF Behind
      <3>2. Stream!Receive(m.sid)
        BY <2>3, <2>4, <2>5, <2>6, <2>8, <3>1 DEF Stream!Receive
      <3> QED BY <2>4, <3>2
    <2> QED BY <2>7, <2>8
  <1>2. CASE SrvIdentify
    <2>1. opened + 1 \in SessionIds /\ made[opened + 1] = 0
      BY <1>2, GatewayConstants DEF SrvIdentify, TypeOK, StreamInv, Bounded
    <2>2. made' = [made EXCEPT ![opened + 1] = @ + 1] /\ got' = got
      BY <1>2, <2>1 DEF SrvIdentify, chanVars, TypeOK
    <2>3. Stream!Produce(opened + 1)
      BY <2>1, <2>2, GatewayConstants DEF Stream!Produce
    <2> QED BY <2>1, <2>3
  <1>3. ASSUME NEW i \in SessionIds, SrvProduce(i) PROVE Stream!Produce(i)
    BY <1>3 DEF SrvProduce, chanVars, Stream!Produce
  <1>4. CASE Next /\ ~Recv /\ ~SrvIdentify /\ \A i \in SessionIds : ~SrvProduce(i)
    <2>1. UNCHANGED <<made, got>>
      BY <1>4 DEF Next, TaskStep, ServerStep, Environment, chanVars, serverVars,
         ConnectOk, ConnectFails, HelloFails, Handshake, HandshakeSendFails, Sleep,
         ReadDispatch, Push, ReadInvalidSession, ReadClose, ConnectionEnds, Shutdown,
         SrvResume, SrvReject, SrvSend, SrvForget, SrvInvalidate, SrvClose, Break
    <2> QED BY <2>1
  <1>5. CASE UNCHANGED vars
    BY <1>5 DEF vars, chanVars, serverVars
  <1> QED BY <1>1, <1>2, <1>3, <1>4, <1>5 DEF Next, Environment

\* Whatever the network and the server do, the caller of recv sees every
\* session's dispatches in order, without a gap and without a repeat.
THEOREM InOrderDelivery == Spec => DeliversTheStream
  <1>1. Init => Stream!StreamInit
    BY DEF Init, Stream!StreamInit, SessionIds, Stream!SessionIds
  <1>2. TypeOK /\ StreamInv /\ [Next]_vars => [Stream!StreamNext]_(Stream!streamVars)
    BY StreamStep
  <1> QED BY <1>1, <1>2, TypeCorrect, StreamInvariant, PTL
          DEF Spec, DeliversTheStream, Stream!StreamSpec

-----------------------------------------------------------------------------
(* A session the server has given up is never resumed. *)

\* Sessions told invalid lie behind the session and behind what was read.
ToldBehind ==
  \A i \in told : i <= End.sid /\ (session # NoSession => i < session.id)

LEMMA ToldNext == TypeOK /\ StreamInv /\ ToldBehind /\ [Next]_vars => ToldBehind'
  <1> SUFFICES ASSUME TypeOK, StreamInv, ToldBehind, [Next]_vars PROVE ToldBehind'
    OBVIOUS
  <1> USE DEF ToldBehind
  <1>0. told \subseteq Nat /\ End.sid \in Nat /\ session.id \in Nat
    BY SMTT(30), EndType, GatewayConstants DEF TypeOK, SessionIds
  <1>1. CASE ReadDispatch
    <2> DEFINE m == Head(down)
    <2>1. m = down[1] /\ m \in Dispatches /\ down # <<>> /\ told' = told /\ pc' = "push" /\ pending' = m
      BY <1>1 DEF ReadDispatch, TypeOK
    <2>2. Behind(End, m) /\ (session = NoSession => m.sid > End.sid)
      BY <2>1 DEF StreamInv, WireChain
    <2>3. End' = m /\ m.sid \in Nat
      BY <2>1, DispatchFields, GatewayConstants DEF End, SessionIds
    <2>4. m.sid >= End.sid
      BY <1>0, <2>2, <2>3 DEF Behind
    <2>5. StreamInv' /\ session' # NoSession
      BY <1>1, ReadDispatchStream, ReadDispatchSession
    <2>6. session'.id = m.sid
      BY <2>3, <2>5 DEF StreamInv, SessionAtEnd
    <2>7. session # NoSession => session.id = End.sid
      BY DEF StreamInv, SessionAtEnd
    <2> HIDE DEF m
    <2> QED BY <1>0, <2>1, <2>2, <2>3, <2>4, <2>6, <2>7
  <1>2. CASE ReadInvalidSession
    <2>1. End' = End /\ session' = NoSession /\ told' = told \cup ({session.id} \ {0})
      BY <1>2 DEF ReadInvalidSession, End, chanVars
    <2>2. session.id # 0 => session.id = End.sid
      BY DEF StreamInv, SessionAtEnd, NoSession
    <2> QED BY <1>0, <2>1, <2>2
  <1>3. CASE Push
    <2>1. StreamInv' /\ End' = End
      BY <1>3, PushStream, PushEnd
    <2> QED BY <1>3, <2>1 DEF Push, obsVars
  <1>4. CASE Recv
    <2>1. End'.sid = End.sid
      BY <1>4, RecvEnd
    <2> QED BY <1>4, <2>1 DEF Recv, obsVars, taskVars
  <1>5. CASE UNCHANGED <<told, session, pending, events, got>> /\ (pc' = "push" <=> pc = "push")
    <2>1. End' = End
      BY <1>5 DEF End
    <2> QED BY <1>5, <2>1
  <1>6. Next /\ ~ReadDispatch /\ ~ReadInvalidSession /\ ~Push /\ ~Recv
          => UNCHANGED <<told, session, pending, events, got>> /\ (pc' = "push" <=> pc = "push")
    BY DEF Next, TaskStep, ServerStep, Environment, taskVars, chanVars, obsVars, Leave,
       ConnectOk, ConnectFails, HelloFails, Handshake, HandshakeSendFails, Sleep,
       ReadClose, ConnectionEnds, Shutdown, SrvIdentify, SrvProduce,
       SrvResume, SrvReject, SrvSend, SrvForget, SrvInvalidate, SrvClose, Break
  <1>7. UNCHANGED vars
          => UNCHANGED <<told, session, pending, events, got>> /\ (pc' = "push" <=> pc = "push")
    BY DEF vars, taskVars, chanVars, obsVars
  <1> QED BY <1>1, <1>2, <1>3, <1>4, <1>5, <1>6, <1>7

\* Only the handshake sends a RESUME, and it names the session at hand.
LEMMA ResumeOnlyLive ==
  ASSUME TypeOK, StreamInv, ToldBehind, [Next]_vars, hand'.op = "RESUME", hand' # hand
  PROVE  hand'.sid \notin told
  <1>1. Handshake /\ CanResume /\ hand' = Resume(session.id, session.seq)
    <2>1. Handshake \/ hand' = hand \/ hand' = NoHand
      BY DEF Next, TaskStep, ServerStep, Environment, vars, connVars, Leave, Rejection,
         ConnectOk, ConnectFails, HelloFails, HandshakeSendFails, Sleep,
         ReadDispatch, ReadInvalidSession, Push, Recv,
         ReadClose, ConnectionEnds, Shutdown, SrvIdentify, SrvProduce,
         SrvResume, SrvReject, SrvSend, SrvForget, SrvInvalidate, SrvClose, Break
    <2>2. NoHand.op # "RESUME" /\ Identify.op # "RESUME"
      BY DEF NoHand, Identify
    <2>3. Handshake
      BY <2>1, <2>2
    <2>4. hand' = NoHand \/ hand' = Identify \/ (CanResume /\ hand' = Resume(session.id, session.seq))
      BY <2>3 DEF Handshake
    <2> QED BY <2>2, <2>3, <2>4
  <1>2. session # NoSession
    BY <1>1 DEF CanResume, NoSession
  <1>3. hand'.sid = session.id
    BY <1>1 DEF Resume
  <1>4. session.id \in Nat
    BY GatewayConstants DEF TypeOK
  <1> QED BY <1>2, <1>3, <1>4 DEF ToldBehind

\* After INVALID_SESSION was read for a session, no connection RESUMEs it.
THEOREM DeadSessionsStayDead == Spec => NoDeadResume
  <1>1. Init => ToldBehind
    BY DEF Init, ToldBehind
  <1>2. TypeOK /\ StreamInv /\ ToldBehind /\ [Next]_vars => ToldBehind'
    BY ToldNext
  <1>3. TypeOK /\ StreamInv /\ ToldBehind /\ [Next]_vars
          => [hand'.op = "RESUME" /\ hand' # hand => hand'.sid \notin told]_vars
    BY ResumeOnlyLive
  <1> QED BY <1>1, <1>2, <1>3, TypeCorrect, StreamInvariant, PTL DEF Spec, NoDeadResume

-----------------------------------------------------------------------------
(* Failing handshakes back off. *)

\* As long as no handshake succeeded since the last sleep, the next delay is
\* twice the last one; and whoever reads got past a handshake.
BackoffInv ==
  /\ pc \in {"read", "push"} => since # "failed"
  /\ since = "failed" /\ slept # 0 => backoff = Double(slept)

LEMMA BackoffNext == BackoffInv /\ [Next]_vars => BackoffInv'
  <1> SUFFICES ASSUME BackoffInv, [Next]_vars PROVE BackoffInv'
    OBVIOUS
  <1> USE DEF BackoffInv
  <1>1. CASE Sleep
    BY <1>1 DEF Sleep, Double
  <1>2. CASE Handshake
    BY <1>2 DEF Handshake
  <1>3. CASE ReadDispatch
    BY <1>3 DEF ReadDispatch
  \* Ok(()) resets the delay, but it comes from the read loop only.
  <1>4. CASE ReadClose \/ ConnectionEnds \/ (Shutdown /\ pc = "read")
    BY <1>4 DEF ReadClose, ConnectionEnds, Shutdown, Leave, obsVars
  <1>5. CASE UNCHANGED <<slept, since, backoff>>
             /\ (pc' \in {"read", "push"} => pc \in {"read", "push"})
    <2>1. Double(slept)' = Double(slept)
      BY <1>5 DEF Double
    <2> QED BY <1>5, <2>1
  <1>6. Next /\ ~Sleep /\ ~Handshake /\ ~ReadDispatch /\ ~ReadClose /\ ~ConnectionEnds
          /\ ~(Shutdown /\ pc = "read")
          => UNCHANGED <<slept, since, backoff>>
             /\ (pc' \in {"read", "push"} => pc \in {"read", "push"})
    BY DEF Next, TaskStep, ServerStep, Environment, taskVars, obsVars, Leave,
       ConnectOk, ConnectFails, HelloFails, HandshakeSendFails, Push,
       ReadInvalidSession, Recv, Shutdown, SrvIdentify, SrvProduce,
       SrvResume, SrvReject, SrvSend, SrvForget, SrvInvalidate, SrvClose, Break
  <1>7. UNCHANGED vars => UNCHANGED <<slept, since, backoff>>
             /\ (pc' \in {"read", "push"} => pc \in {"read", "push"})
    BY DEF vars, taskVars, obsVars
  <1> QED BY <1>1, <1>2, <1>3, <1>4, <1>5, <1>6, <1>7

\* Only Sleep leads from waiting to connecting, and it takes the delay as it is.
LEMMA OnlySleepConnects ==
  ASSUME Next, pc = "backoff", pc' = "connect"
  PROVE  Sleep
  BY DEF Next, TaskStep, ServerStep, Environment, taskVars, Leave,
     ConnectOk, ConnectFails, HelloFails, Handshake, HandshakeSendFails,
     ReadDispatch, Push, ReadInvalidSession, ReadClose, ConnectionEnds, Recv, Shutdown,
     SrvIdentify, SrvProduce, SrvResume, SrvReject, SrvSend, SrvForget, SrvInvalidate,
     SrvClose, Break

\* While no connection gets past its handshake, each wait is twice the one before.
THEOREM FailuresAreSpreadOut == Spec => HandshakeFailuresBackOff
  <1>1. Init => BackoffInv
    BY DEF Init, BackoffInv
  <1>2. BackoffInv /\ [Next]_vars
          => [pc = "backoff" /\ pc' = "connect" /\ since = "failed" /\ slept # 0
                => slept' = Double(slept)]_vars
    BY OnlySleepConnects DEF BackoffInv, Sleep
  <1> QED BY <1>1, <1>2, BackoffNext, PTL DEF Spec, HandshakeFailuresBackOff
==============================================================================
