-------------------------- MODULE CommandPumpProofs --------------------------
(***************************************************************************)
(* Theorems about CommandPump, for every capacity and every bound.         *)
(*                                                                         *)
(* The circular wait is excluded by counting the commands on their way: a  *)
(* full channel to the core and a command in the supervisor's hand are one *)
(* more than one channel holds.  With the channel to the supervisor full   *)
(* as well they are one more than two channels hold, so that nobody is     *)
(* left to wait at the mutex for room.                                     *)
(***************************************************************************)
EXTENDS CommandPump, SequenceTheorems, TLAPS

\* The events in the channel and in the core's hand are taken and not shown.
EventsCounted == shown + unseen + evq + InHand <= taken

\* The logout command is among the waiters exactly while logout waits, and once.
OneLogout ==
  /\ logout = "waiting" =>
       \E i \in 1..Len(waiters) :
         waiters[i] = Logout /\ \A j \in 1..Len(waiters) : waiters[j] = Logout => j = i
  /\ logout # "waiting" => \A j \in 1..Len(waiters) : waiters[j] # Logout

\* The frontend keeps to its pace.
Paced == Outstanding <= MaxOutstanding

IndInv == TypeOK /\ EventsCounted /\ OneLogout /\ Paced

-----------------------------------------------------------------------------
\* Taking the first of a sequence leaves the others, each one place further on.
LEMMA TailFacts ==
  ASSUME NEW S, NEW s \in Seq(S), s # <<>>
  PROVE  /\ Head(s) \in S /\ Head(s) = s[1]
         /\ Tail(s) \in Seq(S) /\ Len(Tail(s)) = Len(s) - 1
         /\ Len(s) \in Nat /\ Len(s) > 0
         /\ \A i \in 1..Len(Tail(s)) : Tail(s)[i] = s[i + 1]
  OBVIOUS

\* Appending leaves what is there and adds one at the end.
LEMMA AppendFacts ==
  ASSUME NEW S, NEW s \in Seq(S), NEW e \in S
  PROVE  /\ Append(s, e) \in Seq(S) /\ Len(Append(s, e)) = Len(s) + 1
         /\ Len(s) \in Nat
         /\ Append(s, e)[Len(s) + 1] = e
         /\ \A i \in 1..Len(s) : Append(s, e)[i] = s[i]
  OBVIOUS

\* Before anything happened nothing is counted.
LEMMA InitEstablishes == Init => IndInv
<1> SUFFICES ASSUME Init PROVE IndInv OBVIOUS
<1>1. TypeOK
  <2>1. gone \in SUBSET Commands /\ told \in BOOLEAN /\ cmds \in BOOLEAN BY DEF Init
  <2> QED BY <2>1, PumpConstants DEF Init, TypeOK, Commands, Logout
<1>2. EventsCounted /\ OneLogout BY DEF Init, EventsCounted, InHand, OneLogout
<1>3. Paced BY PumpConstants DEF Init, Paced, Outstanding, Waiting
<1> QED BY <1>1, <1>2, <1>3 DEF IndInv

\* A command that leaves the mutex's queue leaves the logout in it, if it is there.
LEMMA OtherThanLogoutLeaves ==
  ASSUME OneLogout, Len(waiters) \in Nat, Len(waiters) > 0, waiters[1] # Logout,
         Len(waiters') = Len(waiters) - 1,
         \A i \in 1..Len(waiters') : waiters'[i] = waiters[i + 1],
         logout' = logout
  PROVE  OneLogout'
<1>1. ASSUME logout = "waiting" PROVE OneLogout'
  <2>1. PICK i \in 1..Len(waiters) :
          waiters[i] = Logout /\ \A j \in 1..Len(waiters) : waiters[j] = Logout => j = i
    BY <1>1 DEF OneLogout
  <2>2. i - 1 \in 1..Len(waiters') /\ waiters'[i - 1] = Logout BY <2>1
  <2>3. ASSUME NEW j \in 1..Len(waiters'), waiters'[j] = Logout PROVE j = i - 1
    <3>1. j + 1 \in 1..Len(waiters) /\ waiters[j + 1] = Logout BY <2>3
    <3>2. j + 1 = i BY <2>1, <3>1
    <3> QED BY <3>2
  <2> QED BY <1>1, <2>2, <2>3 DEF OneLogout
<1>2. ASSUME logout # "waiting" PROVE OneLogout'
  <2>1. \A j \in 1..Len(waiters) : waiters[j] # Logout BY <1>2 DEF OneLogout
  <2>2. \A j \in 1..Len(waiters') : waiters'[j] # Logout BY <2>1
  <2> QED BY <1>2, <2>2 DEF OneLogout
<1> QED BY <1>1, <1>2

\* The supervisor's hand holds one command at most.
LEMMA HoldsOne ==
  ASSUME NEW S, NEW s \in Seq(S), Len(s) <= 1, s # <<>>
  PROVE  Len(s) = 1 /\ s[1] \in S
  OBVIOUS

\* A logout that joins or leaves the mutex's queue, or a command that does.
LEMMA MutexPreserves ==
  ASSUME IndInv, Issue \/ StartLogout \/ MutexStep
  PROVE  IndInv'
<1> USE PumpConstants DEF Logout, Commands
<1>0. /\ waiters \in Seq(Commands \cup {Logout}) /\ front \in Seq(Commands)
      /\ hold \in Seq(Commands) /\ coreq \in Seq(Commands) /\ out \in Seq(Commands)
      /\ issued \in 0..MaxCommands /\ Len(front) \in Nat /\ Len(hold) \in Nat
      /\ Len(coreq) \in Nat /\ Len(out) \in Nat /\ Len(waiters) \in Nat
  BY DEF IndInv, TypeOK
<1>1. CASE Issue
  <2>1. /\ waiters' \in Seq(Commands \cup {Logout}) /\ Len(waiters') = Len(waiters) + 1
        /\ waiters'[Len(waiters) + 1] # Logout
        /\ \A i \in 1..Len(waiters) : waiters'[i] = waiters[i]
    BY <1>0, <1>1, AppendFacts, issued + 1 \in Commands DEF Issue
  <2>2. TypeOK' BY <1>0, <1>1, <2>1 DEF Issue, IndInv, TypeOK, pumpVars
  <2>3. EventsCounted' BY <1>1 DEF Issue, IndInv, EventsCounted, InHand, pumpVars
  <2>4. OneLogout'
    <3>1. logout' = logout BY <1>1 DEF Issue
    <3>2. ASSUME logout = "waiting" PROVE OneLogout'
      <4>1. PICK i \in 1..Len(waiters) :
              waiters[i] = Logout /\ \A j \in 1..Len(waiters) : waiters[j] = Logout => j = i
        BY <3>2 DEF IndInv, OneLogout
      <4>2. i \in 1..Len(waiters') /\ waiters'[i] = Logout BY <1>0, <2>1, <4>1
      <4>3. ASSUME NEW j \in 1..Len(waiters'), waiters'[j] = Logout PROVE j = i
        <5>1. j # Len(waiters) + 1 BY <2>1, <4>3
        <5>2. Len(waiters') = Len(waiters) + 1 /\ Len(waiters) \in Nat BY <1>0, <2>1
        <5>3. j \in 1..Len(waiters) BY <5>1, <5>2
        <5> QED BY <2>1, <4>1, <4>3, <5>3
      <4> QED BY <3>1, <3>2, <4>2, <4>3 DEF OneLogout
    <3>3. ASSUME logout # "waiting" PROVE OneLogout'
      <4>1. \A j \in 1..Len(waiters) : waiters[j] # Logout
        BY <3>3 DEF IndInv, OneLogout
      <4>2. ASSUME NEW j \in 1..Len(waiters') PROVE waiters'[j] # Logout
        <5>1. CASE j = Len(waiters) + 1 BY <2>1, <5>1
        <5>2. CASE j \in 1..Len(waiters) BY <2>1, <4>1, <5>2
        <5> QED BY <1>0, <2>1, <5>1, <5>2
      <4> QED BY <3>1, <3>3, <4>2 DEF OneLogout
    <3> QED BY <3>2, <3>3
  <2>5. Paced'
    BY <1>0, <1>1, <2>1 DEF Issue, IndInv, Paced, Outstanding, Waiting, Blocked, pumpVars,
      frontVars
  <2> QED BY <2>2, <2>3, <2>4, <2>5 DEF IndInv
<1>2. CASE StartLogout
  <2>1. /\ waiters' \in Seq(Commands \cup {Logout}) /\ Len(waiters') = Len(waiters) + 1
        /\ waiters'[Len(waiters) + 1] = Logout
        /\ \A i \in 1..Len(waiters) : waiters'[i] = waiters[i]
    BY <1>0, <1>2, AppendFacts DEF StartLogout
  <2>2. TypeOK' BY <1>0, <1>2, <2>1 DEF StartLogout, IndInv, TypeOK, pumpVars
  <2>3. EventsCounted' BY <1>2 DEF StartLogout, IndInv, EventsCounted, InHand, pumpVars
  <2>4. OneLogout'
    <3>1. logout' = "waiting" /\ logout # "waiting" BY <1>2 DEF StartLogout
    <3>2. \A j \in 1..Len(waiters) : waiters[j] # Logout BY <3>1 DEF IndInv, OneLogout
    <3>3. ASSUME NEW j \in 1..Len(waiters'), waiters'[j] = Logout
          PROVE  j = Len(waiters) + 1
      <4>1. j \notin 1..Len(waiters) BY <2>1, <3>2, <3>3
      <4> QED BY <1>0, <2>1, <4>1
    <3>4. Len(waiters) + 1 \in 1..Len(waiters') BY <1>0, <2>1
    <3> QED BY <2>1, <3>1, <3>3, <3>4 DEF OneLogout
  <2>5. Paced'
    BY <1>0, <1>2, <2>1 DEF StartLogout, IndInv, Paced, Outstanding, Waiting, Blocked, pumpVars,
      frontVars
  <2> QED BY <2>2, <2>3, <2>4, <2>5 DEF IndInv
<1>3. CASE MutexStep
  <2>0. waiters # <<>> /\ waiters' = Tail(waiters)
    BY <1>3 DEF MutexStep, Accept, Ignore, FinishLogout
  <2>1. /\ Head(waiters) \in Commands \cup {Logout} /\ Head(waiters) = waiters[1]
        /\ waiters' \in Seq(Commands \cup {Logout}) /\ Len(waiters') = Len(waiters) - 1
        /\ Len(waiters) > 0
        /\ \A i \in 1..Len(waiters') : waiters'[i] = waiters[i + 1]
    BY <1>0, <2>0, TailFacts
  <2>2. CASE Accept
    <3>1. front' \in Seq(Commands) /\ Len(front') = Len(front) + 1
      BY <1>0, <2>1, <2>2, AppendFacts DEF Accept
    <3>2. TypeOK' BY <1>0, <2>1, <2>2, <3>1 DEF Accept, IndInv, TypeOK, pumpVars
    <3>3. EventsCounted' BY <2>2 DEF Accept, IndInv, EventsCounted, InHand, pumpVars
    <3>4. OneLogout'
      BY <1>0, <2>1, <2>2, OtherThanLogoutLeaves DEF Accept, IndInv
    <3>5. Paced'
      BY <1>0, <2>1, <2>2, <3>1
      DEF Accept, IndInv, Paced, Outstanding, Waiting, Blocked, pumpVars,
      frontVars
    <3> QED BY <3>2, <3>3, <3>4, <3>5 DEF IndInv
  <2>3. CASE Ignore
    <3>2. TypeOK' BY <1>0, <2>1, <2>3 DEF Ignore, IndInv, TypeOK, pumpVars
    <3>3. EventsCounted' BY <2>3 DEF Ignore, IndInv, EventsCounted, InHand, pumpVars
    <3>4. OneLogout'
      BY <1>0, <2>1, <2>3, OtherThanLogoutLeaves DEF Ignore, IndInv
    <3>5. Paced'
      BY <1>0, <2>1, <2>3
      DEF Ignore, IndInv, Paced, Outstanding, Waiting, Blocked, pumpVars,
      frontVars
    <3> QED BY <3>2, <3>3, <3>4, <3>5 DEF IndInv
  <2>4. CASE FinishLogout
    <3>1. logout = "waiting" BY <2>1, <2>4 DEF FinishLogout, IndInv, OneLogout
    <3>2. TypeOK' BY <1>0, <2>1, <2>4 DEF FinishLogout, IndInv, TypeOK, pumpVars
    <3>3. EventsCounted' BY <2>4 DEF FinishLogout, IndInv, EventsCounted, InHand, pumpVars
    <3>4. OneLogout' BY <1>0, <2>1, <2>4, <3>1 DEF FinishLogout, IndInv, OneLogout
    <3>5. Paced'
      BY <1>0, <2>1, <2>4, <3>1
      DEF FinishLogout, IndInv, Paced, Outstanding, Waiting, Blocked, pumpVars,
      frontVars
    <3> QED BY <3>2, <3>3, <3>4, <3>5 DEF IndInv
  <2> QED BY <1>3, <2>2, <2>3, <2>4 DEF MutexStep
<1> QED BY <1>1, <1>2, <1>3

\* Supervisor and core move commands and events on, and lose none.
LEMMA PumpPreserves ==
  ASSUME IndInv, SupervisorStep \/ CoreStep \/ Connected \/ Dropped
  PROVE  IndInv'
<1> USE PumpConstants DEF Commands
<1>0. /\ front \in Seq(Commands) /\ hold \in Seq(Commands)
      /\ coreq \in Seq(Commands) /\ out \in Seq(Commands)
      /\ Len(front) \in Nat /\ Len(hold) \in Nat /\ Len(coreq) \in Nat /\ Len(out) \in Nat
      /\ issued \in 0..MaxCommands /\ Len(hold) <= 1 /\ Len(waiters) \in Nat
  BY DEF IndInv, TypeOK
<1>1. UNCHANGED frontVars
  BY DEF SupervisorStep, CoreStep, TakeEvent, TakeCommand, ReadClosed, SendCommand, Shutdown,
         Reconnect, RunCommand, ReadEvent, PushEvent, Connected, Dropped
<1>2. OneLogout' BY <1>1 DEF IndInv, OneLogout, frontVars
<1>3. CASE TakeEvent \/ ReadClosed \/ Reconnect \/ ReadEvent \/ PushEvent \/ Connected \/ Dropped
  <2>1. UNCHANGED <<front, hold, coreq, out, gone>>
    BY <1>3 DEF TakeEvent, ReadClosed, Reconnect, ReadEvent, PushEvent, Connected, Dropped,
                pumpVars
  <2>2. Paced'
    BY <1>1, <2>1
    DEF IndInv, Paced, Outstanding, Waiting, Blocked, frontVars
  <2>3. TypeOK' /\ EventsCounted'
    <3> USE <1>1, <2>1 DEF IndInv, TypeOK, EventsCounted, InHand, frontVars
    <3>1. CASE TakeEvent
      <4>1. told' \in BOOLEAN BY <3>1 DEF TakeEvent
      <4> QED BY <3>1, <4>1 DEF TakeEvent
    <3>2. CASE ReadClosed BY <3>2 DEF ReadClosed, pumpVars
    <3>3. CASE Reconnect BY <3>3 DEF Reconnect
    <3>4. CASE ReadEvent BY <3>4 DEF ReadEvent
    <3>5. CASE PushEvent BY <3>5 DEF PushEvent
    <3>6. CASE Connected BY <3>6 DEF Connected
    <3>7. CASE Dropped BY <3>7 DEF Dropped
    <3> QED BY <1>3, <3>1, <3>2, <3>3, <3>4, <3>5, <3>6, <3>7
  <2> QED BY <1>2, <2>2, <2>3 DEF IndInv
<1>4. CASE TakeCommand
  <2>1. /\ hold' \in Seq(Commands) /\ Len(hold') = 1 /\ hold = <<>> /\ Len(hold) = 0
        /\ front' \in Seq(Commands) /\ Len(front') = Len(front) - 1
    BY <1>0, <1>4, TailFacts DEF TakeCommand, Blocked
  <2>2. TypeOK' /\ EventsCounted'
    <3>1. told' \in BOOLEAN BY <1>4 DEF TakeCommand
    <3> QED BY <1>0, <1>1, <1>4, <2>1, <3>1
           DEF TakeCommand, IndInv, TypeOK, EventsCounted, InHand, frontVars
  <2>3. Paced'
    BY <1>0, <1>1, <1>4, <2>1
    DEF TakeCommand, IndInv, Paced, Outstanding, Waiting, Blocked, pumpVars,
      frontVars
  <2> QED BY <1>2, <2>2, <2>3 DEF IndInv
<1>5. CASE SendCommand
  <2>0. Len(hold) = 1 /\ hold[1] \in Commands
    BY <1>0, <1>5, HoldsOne DEF SendCommand, Blocked
  <2>1. /\ hold' = <<>> /\ Len(hold') = 0
        /\ coreq' \in Seq(Commands) /\ Len(coreq') = Len(coreq) + 1
    BY <1>0, <1>5, <2>0, AppendFacts DEF SendCommand
  <2>2. TypeOK' /\ EventsCounted'
    BY <1>0, <1>1, <1>5, <2>1 DEF SendCommand, IndInv, TypeOK, EventsCounted, InHand, frontVars
  <2>3. Paced'
    BY <1>0, <1>1, <1>5, <2>0, <2>1
    DEF SendCommand, IndInv, Paced, Outstanding, Waiting, Blocked, pumpVars,
      frontVars
  <2> QED BY <1>2, <2>2, <2>3 DEF IndInv
<1>6. CASE RunCommand
  <2>1. /\ coreq' \in Seq(Commands) /\ Len(coreq') = Len(coreq) - 1
        /\ Head(coreq) \in Commands
    BY <1>0, <1>6, TailFacts DEF RunCommand
  <2>2. out' \in Seq(Commands) /\ Len(out') = Len(out) + 1
    BY <1>0, <1>6, <2>1, AppendFacts DEF RunCommand
  <2>3. TypeOK' /\ EventsCounted'
    BY <1>0, <1>1, <1>6, <2>1, <2>2 DEF RunCommand, IndInv, TypeOK, EventsCounted, InHand, frontVars
  <2>4. Paced'
    BY SMTT(30), <1>0, <1>1, <1>6, <2>1, <2>2
    DEF RunCommand, IndInv, Paced, Outstanding, Waiting, Blocked, pumpVars,
      frontVars
  <2> QED BY <1>2, <2>3, <2>4 DEF IndInv
<1>7. CASE Shutdown
  <2>1. /\ coreq' = <<>> /\ Len(coreq') = 0 /\ UNCHANGED <<front, hold>>
        /\ Len(out \o coreq) = Len(out) + Len(coreq) /\ out' \in Seq(Commands)
    BY <1>0, <1>7, ConcatProperties DEF Shutdown
  <2>2. gone' \in SUBSET Commands
    <3>1. Range(coreq) \subseteq Commands BY <1>0 DEF Range
    <3> QED BY <1>7, <3>1 DEF Shutdown, IndInv, TypeOK
  <2>3. TypeOK' /\ EventsCounted'
    <3>1. told' \in BOOLEAN BY <1>7 DEF Shutdown
    <3>2. evq' = 0 /\ core' = "none" /\ unseen' = unseen + evq + InHand /\ InHand \in {0, 1}
          /\ UNCHANGED <<taken, shown, drops>>
      BY <1>7 DEF Shutdown, InHand
    <3>3. EventsCounted' /\ unseen' \in 0..MaxEvents
      BY <3>2 DEF IndInv, TypeOK, EventsCounted, InHand
    <3> QED BY <1>0, <1>1, <2>1, <2>2, <3>1, <3>2, <3>3 DEF IndInv, TypeOK, frontVars
  <2>4. Paced'
    BY <1>0, <1>1, <2>1
    DEF IndInv, Paced, Outstanding, Waiting, frontVars
  <2> QED BY <1>2, <2>3, <2>4 DEF IndInv
<1> QED BY <1>3, <1>4, <1>5, <1>6, <1>7 DEF SupervisorStep, CoreStep

\* Every behaviour keeps the inductive invariant.
LEMMA Invariance == Spec => []IndInv
<1>1. IndInv /\ [Next]_vars => IndInv'
  <2>1. ASSUME IndInv, Next PROVE IndInv'
    BY <2>1, MutexPreserves, PumpPreserves DEF Next
  <2>2. ASSUME IndInv, UNCHANGED vars PROVE IndInv'
    BY <2>2 DEF vars, IndInv, TypeOK, EventsCounted, InHand, OneLogout, Waiting,
                Paced, Outstanding, Blocked
  <2> QED BY <2>1, <2>2
<1> QED BY <1>1, InitEstablishes, PTL DEF Spec

\* The types of the pump's variables, and that no channel exceeds its capacity.
THEOREM TypeCorrect == Spec => []TypeOK
<1>1. IndInv => TypeOK BY DEF IndInv
<1> QED BY <1>1, Invariance, PTL

\* What is on its way, place by place.
LEMMA PlacesCounted ==
  ASSUME IndInv
  PROVE  /\ Len(front) \in Nat /\ Len(coreq) \in Nat /\ Waiting \in Nat
         /\ Blocked => Waiting + Len(front) + 1 + Len(coreq) <= MaxOutstanding
<1>1. Len(waiters) \in Nat BY DEF IndInv, TypeOK
<1>2. logout = "waiting" => Len(waiters) > 0 BY <1>1 DEF IndInv, OneLogout
<1>3. Waiting \in Nat BY <1>1, <1>2 DEF Waiting
<1>4. ASSUME Blocked PROVE Len(hold) = 1
  <2>1. hold \in Seq(Commands) /\ Len(hold) <= 1 BY DEF IndInv, TypeOK
  <2> QED BY <1>4, <2>1, HoldsOne DEF Blocked
<1>5. Len(front) \in Nat /\ Len(coreq) \in Nat /\ Len(hold) \in Nat BY DEF IndInv, TypeOK
<1>6. Waiting + Len(front) + Len(hold) + Len(coreq) <= MaxOutstanding
  BY DEF IndInv, Paced, Outstanding
<1> QED BY <1>3, <1>4, <1>5, <1>6

\* As long as the frontend has no more commands outstanding than one channel
\* holds, supervisor and core are never both stuck in a send to each other.
THEOREM LightLoadNeverDeadlocks ==
  ASSUME MaxOutstanding <= CmdCap
  PROVE  Spec => []NoCircularWait
<1>1. ASSUME IndInv PROVE NoCircularWait
  <2>1. SUFFICES ASSUME Blocked, Len(coreq) = CmdCap PROVE FALSE
    BY DEF NoCircularWait
  <2> QED BY <1>1, <2>1, PlacesCounted, PumpConstants
<1> QED BY <1>1, Invariance, PTL

\* A command that waits for room with the mutex in its hand, and a logout behind
\* it, wait for a step the supervisor can take, as long as the frontend has no
\* more commands on their way than both channels and the supervisor hold.
THEOREM RoomForTheHolder ==
  ASSUME MaxOutstanding <= 2 * CmdCap + 1
  PROVE  Spec => []RoomIsMade
<1>1. ASSUME IndInv PROVE RoomIsMade
  <2>1. SUFFICES ASSUME Len(front) = CmdCap, Waiting > 0, Blocked, Len(coreq) >= CmdCap
                 PROVE  FALSE
    <3>1. Len(coreq) \in Nat /\ CmdCap \in Nat BY <1>1, PumpConstants DEF IndInv, TypeOK
    <3> QED BY <3>1 DEF RoomIsMade
  <2> QED BY <1>1, <2>1, PlacesCounted, PumpConstants
<1> QED BY <1>1, Invariance, PTL

-----------------------------------------------------------------------------
(* The order of the commands.  Each of the four places holds consecutive    *)
(* numbers that go on where the place before it ends, and so does the queue *)
(* of the mutex, with the logout somewhere in it or not at all.             *)

Passed == Len(out) + Len(coreq) + Len(hold) + Len(front)

PlacesInOrder ==
  /\ \A i \in 1..Len(out) : out[i] = i
  /\ \A i \in 1..Len(coreq) : coreq[i] = Len(out) + i
  /\ \A i \in 1..Len(hold) : hold[i] = Len(out) + Len(coreq) + i
  /\ \A i \in 1..Len(front) : front[i] = Len(out) + Len(coreq) + Len(hold) + i

\* The queue of the mutex, with the logout at place p, or behind its end.
QueueInOrder(p) ==
  /\ logout = "waiting" <=> p <= Len(waiters)
  /\ \A i \in 1..Len(waiters) :
       waiters[i] = IF i < p THEN Passed + i ELSE IF i = p THEN Logout ELSE Passed + i - 1

\* Nothing that was issued is missing, until the logout has taken the sender.
AllThere == issued = Passed + Waiting

OrderInv ==
  /\ PlacesInOrder
  /\ cmds => AllThere /\ \E p \in 1..(Len(waiters) + 1) : QueueInOrder(p)

\* Numbers that go on where others end make one row.
LEMMA NumbersGoOn ==
  ASSUME NEW S, NEW s \in Seq(S), NEW t \in Seq(S),
         \A k \in 1..Len(s) : s[k] = k,
         \A k \in 1..Len(t) : t[k] = Len(s) + k
  PROVE  /\ s \o t \in Seq(S) /\ Len(s \o t) = Len(s) + Len(t)
         /\ \A k \in 1..Len(s \o t) : (s \o t)[k] = k
<1>1. /\ s \o t \in Seq(S) /\ Len(s \o t) = Len(s) + Len(t)
      /\ Len(s) \in Nat /\ Len(t) \in Nat
      /\ \A k \in 1..Len(s) + Len(t) :
           (s \o t)[k] = IF k <= Len(s) THEN s[k] ELSE t[k - Len(s)]
  BY ConcatProperties
<1>2. ASSUME NEW k \in 1..Len(s \o t) PROVE (s \o t)[k] = k
  <2>1. CASE k <= Len(s) BY <1>1, <2>1
  <2>2. CASE k > Len(s)
    <3>1. k - Len(s) \in 1..Len(t) BY <1>1, <2>2
    <3>2. t[k - Len(s)] = k BY <1>1, <3>1
    <3> QED BY <1>1, <2>2, <3>2
  <2> QED BY <1>1, <2>1, <2>2
<1> QED BY <1>1, <1>2

\* The four places, laid end to end, are the accepted commands.
LEMMA PlacesMakeAccepted == IndInv /\ PlacesInOrder => CommandsInOrder /\ Len(Accepted) = Passed
<1> SUFFICES ASSUME IndInv, PlacesInOrder
             PROVE  CommandsInOrder /\ Len(Accepted) = Passed
  OBVIOUS
<1>0. /\ front \in Seq(Commands) /\ hold \in Seq(Commands)
      /\ coreq \in Seq(Commands) /\ out \in Seq(Commands)
      /\ Len(front) \in Nat /\ Len(hold) \in Nat /\ Len(coreq) \in Nat /\ Len(out) \in Nat
  BY DEF IndInv, TypeOK
<1> DEFINE a == out \o coreq
           b == a \o hold
<1>1. /\ a \in Seq(Commands) /\ Len(a) = Len(out) + Len(coreq)
      /\ \A k \in 1..Len(a) : a[k] = k
  BY ZenonT(40), <1>0, NumbersGoOn DEF PlacesInOrder
<1>2. /\ b \in Seq(Commands) /\ Len(b) = Len(a) + Len(hold)
      /\ \A k \in 1..Len(b) : b[k] = k
  <2> HIDE DEF a
  <2>1. \A k \in 1..Len(hold) : hold[k] = Len(a) + k BY <1>1 DEF PlacesInOrder
  <2> QED BY <1>0, <1>1, <2>1, NumbersGoOn
<1>3. /\ Len(b \o front) = Len(b) + Len(front)
      /\ \A k \in 1..Len(b \o front) : (b \o front)[k] = k
  <2>1. Len(b) = Len(out) + Len(coreq) + Len(hold) BY <1>0, <1>1, <1>2
  <2> HIDE DEF b
  <2>2. \A k \in 1..Len(front) : front[k] = Len(b) + k BY <2>1 DEF PlacesInOrder
  <2> QED BY <1>0, <1>2, <2>2, NumbersGoOn
<1> QED BY <1>0, <1>1, <1>2, <1>3 DEF CommandsInOrder, Accepted, Passed

LEMMA InitOrdered == Init => OrderInv
  BY DEF Init, OrderInv, PlacesInOrder, AllThere, QueueInOrder, Passed, Waiting

\* A command that joins the mutex's queue has the number after the last one there.
LEMMA IssueOrdered == ASSUME IndInv, OrderInv, Issue PROVE OrderInv'
<1> USE DEF Logout
<1>0. waiters \in Seq(Commands \cup {Logout}) /\ issued \in Nat /\ Len(waiters) \in Nat
  BY PumpConstants DEF IndInv, TypeOK
<1>1. /\ Len(waiters') = Len(waiters) + 1
      /\ waiters'[Len(waiters) + 1] = issued + 1
      /\ \A i \in 1..Len(waiters) : waiters'[i] = waiters[i]
      /\ issued' = issued + 1
  BY <1>0, PumpConstants, AppendFacts, issued + 1 \in Commands DEF Issue, Commands
<1>2. /\ UNCHANGED <<front, hold, coreq, out, cmds, logout>>
      /\ Passed' = Passed /\ Passed \in Nat
  BY DEF Issue, Passed, IndInv, TypeOK, pumpVars
<1>3. PlacesInOrder' BY <1>2 DEF OrderInv, PlacesInOrder
<1>4. ASSUME cmds PROVE AllThere' /\ \E p \in 1..(Len(waiters') + 1) : QueueInOrder(p)'
  <2>1. AllThere BY <1>4 DEF OrderInv
  <2>2. PICK p \in 1..(Len(waiters) + 1) : QueueInOrder(p) BY <1>4 DEF OrderInv
  <2>3. AllThere' BY <1>0, <1>1, <1>2, <2>1 DEF AllThere, Waiting
  <2>4. CASE p <= Len(waiters)
    <3>1. logout = "waiting" BY <2>2, <2>4 DEF QueueInOrder
    <3>2. issued + 1 = Passed + (Len(waiters) + 1) - 1
      BY <1>0, <1>2, <2>1, <3>1 DEF AllThere, Waiting
    <3>3. ASSUME NEW i \in 1..Len(waiters')
          PROVE  waiters'[i] = IF i < p THEN Passed + i
                               ELSE IF i = p THEN Logout ELSE Passed + i - 1
      <4>1. CASE i \in 1..Len(waiters) BY <1>1, <2>2, <4>1 DEF QueueInOrder
      <4>2. CASE i = Len(waiters) + 1 BY <1>0, <1>1, <2>4, <3>2, <4>2
      <4>3. i \in 1..Len(waiters) \/ i = Len(waiters) + 1
        <5>1. Len(waiters') = Len(waiters) + 1 /\ Len(waiters) \in Nat BY <1>0, <1>1
        <5> QED BY <5>1
      <4> QED BY <4>1, <4>2, <4>3
    <3>4. logout' = "waiting" /\ p <= Len(waiters') BY <1>0, <1>1, <1>2, <2>4, <3>1
    <3>5. QueueInOrder(p)' BY <1>2, <3>3, <3>4 DEF QueueInOrder
    <3> QED BY <1>0, <1>1, <2>3, <2>4, <3>5
  <2>5. CASE p = Len(waiters) + 1
    <3>1. logout # "waiting" BY <1>0, <2>2, <2>5 DEF QueueInOrder
    <3>2. issued + 1 = Passed + (Len(waiters) + 1)
      BY <1>0, <1>2, <2>1, <3>1 DEF AllThere, Waiting
    <3>3. QueueInOrder(p + 1)'
      BY <1>0, <1>1, <1>2, <2>2, <2>5, <3>1, <3>2 DEF QueueInOrder
    <3>4. p + 1 \in 1..(Len(waiters') + 1) BY <1>0, <1>1, <2>5
    <3> QED BY <2>3, <3>3, <3>4
  <2> QED BY <1>0, <2>4, <2>5
<1> QED BY <1>2, <1>3, <1>4 DEF OrderInv

\* The logout joins the queue at its end.
LEMMA StartLogoutOrdered == ASSUME IndInv, OrderInv, StartLogout PROVE OrderInv'
<1> USE DEF Logout
<1>0. waiters \in Seq(Commands \cup {Logout}) /\ Len(waiters) \in Nat
  BY DEF IndInv, TypeOK
<1>1. /\ Len(waiters') = Len(waiters) + 1
      /\ waiters'[Len(waiters) + 1] = Logout
      /\ \A i \in 1..Len(waiters) : waiters'[i] = waiters[i]
  BY <1>0, AppendFacts DEF StartLogout
<1>2. /\ UNCHANGED <<front, hold, coreq, out, cmds, issued>>
      /\ logout # "waiting" /\ logout' = "waiting"
      /\ Passed' = Passed /\ Passed \in Nat
  BY DEF StartLogout, Passed, IndInv, TypeOK, pumpVars
<1>3. PlacesInOrder' BY <1>2 DEF OrderInv, PlacesInOrder
<1>4. ASSUME cmds PROVE AllThere' /\ \E p \in 1..(Len(waiters') + 1) : QueueInOrder(p)'
  <2>1. PICK p \in 1..(Len(waiters) + 1) : QueueInOrder(p) BY <1>4 DEF OrderInv
  <2>2. p = Len(waiters) + 1 BY <1>0, <1>2, <2>1 DEF QueueInOrder
  <2>3. AllThere' BY <1>0, <1>1, <1>2, <1>4 DEF OrderInv, AllThere, Waiting
  <2>4. QueueInOrder(p)' BY <1>0, <1>1, <1>2, <2>1, <2>2 DEF QueueInOrder
  <2>5. p \in 1..(Len(waiters') + 1) BY <1>0, <1>1, <2>2
  <2> QED BY <2>3, <2>4, <2>5
<1> QED BY <1>2, <1>3, <1>4 DEF OrderInv

\* The holder's command is the next one, behind all that were accepted.
LEMMA AcceptOrdered == ASSUME IndInv, OrderInv, Accept PROVE OrderInv'
<1> USE DEF Logout
<1>0. /\ waiters \in Seq(Commands \cup {Logout}) /\ front \in Seq(Commands)
      /\ Len(waiters) \in Nat /\ Len(front) \in Nat /\ Len(hold) \in Nat
      /\ Len(coreq) \in Nat /\ Len(out) \in Nat /\ issued \in Nat
  BY DEF IndInv, TypeOK
<1>1. /\ Head(waiters) = waiters[1] /\ waiters[1] # Logout /\ Len(waiters) > 0
      /\ waiters[1] \in Commands
      /\ Len(waiters') = Len(waiters) - 1
      /\ \A i \in 1..Len(waiters') : waiters'[i] = waiters[i + 1]
  BY <1>0, TailFacts DEF Accept
<1>2. /\ Len(front') = Len(front) + 1
      /\ front'[Len(front) + 1] = waiters[1]
      /\ \A i \in 1..Len(front) : front'[i] = front[i]
  BY <1>0, <1>1, AppendFacts DEF Accept
<1>3. /\ UNCHANGED <<hold, coreq, out, cmds, issued, logout>> /\ cmds
      /\ Passed' = Passed + 1 /\ Passed \in Nat
  BY <1>0, <1>2 DEF Accept, Passed, pumpVars
<1>4. AllThere BY <1>3 DEF OrderInv
<1>5. PICK p \in 1..(Len(waiters) + 1) : QueueInOrder(p) BY <1>3 DEF OrderInv
<1>6. p > 1 /\ waiters[1] = Passed + 1
  BY <1>0, <1>1, <1>5 DEF QueueInOrder
<1>7. PlacesInOrder'
  <2>1. PlacesInOrder BY DEF OrderInv
  <2>2. ASSUME NEW i \in 1..Len(front') PROVE front'[i] = Len(out) + Len(coreq) + Len(hold) + i
    <3>1. CASE i \in 1..Len(front) BY <1>2, <2>1, <3>1 DEF PlacesInOrder
    <3>2. CASE i = Len(front) + 1 BY <1>0, <1>2, <1>6, <3>2 DEF Passed
    <3>3. i \in 1..Len(front) \/ i = Len(front) + 1
      <4>1. Len(front') = Len(front) + 1 /\ Len(front) \in Nat BY <1>0, <1>2
      <4> QED BY <4>1
    <3> QED BY <3>1, <3>2, <3>3
  <2> QED BY <1>3, <2>1, <2>2 DEF PlacesInOrder
<1>8. AllThere' BY <1>0, <1>1, <1>3, <1>4 DEF AllThere, Waiting
<1>9. QueueInOrder(p - 1)'
  <2>1. logout' = "waiting" <=> p - 1 <= Len(waiters')
    BY <1>0, <1>1, <1>3, <1>5 DEF QueueInOrder
  <2>2. ASSUME NEW i \in 1..Len(waiters')
        PROVE  waiters'[i] = IF i < p - 1 THEN Passed' + i
                             ELSE IF i = p - 1 THEN Logout ELSE Passed' + i - 1
    <3>1. i + 1 \in 1..Len(waiters) /\ waiters'[i] = waiters[i + 1] BY <1>0, <1>1
    <3>2. waiters[i + 1] = IF i + 1 < p THEN Passed + (i + 1)
                           ELSE IF i + 1 = p THEN Logout ELSE Passed + (i + 1) - 1
      BY <1>5, <3>1 DEF QueueInOrder
    <3> QED BY <1>3, <3>1, <3>2
  <2> QED BY <2>1, <2>2 DEF QueueInOrder
<1>10. p - 1 \in 1..(Len(waiters') + 1) BY <1>0, <1>1, <1>5, <1>6
<1> QED BY <1>7, <1>8, <1>9, <1>10 DEF OrderInv

\* Once the sender is gone the accepted commands stay as they are.
LEMMA DroppingOrdered ==
  ASSUME IndInv, OrderInv, Ignore \/ FinishLogout
  PROVE  OrderInv'
<1>1. UNCHANGED <<front, hold, coreq, out>> BY DEF Ignore, FinishLogout, pumpVars
<1>2. cmds' = FALSE
  <2>1. CASE Ignore BY <2>1 DEF Ignore, IndInv, TypeOK
  <2>2. CASE FinishLogout BY <2>2 DEF FinishLogout
  <2> QED BY <2>1, <2>2
<1> QED BY <1>1, <1>2 DEF OrderInv, PlacesInOrder

\* Supervisor and core move the first command of a place to the end of the next.
LEMMA PumpOrdered ==
  ASSUME IndInv, OrderInv, SupervisorStep \/ CoreStep \/ Connected \/ Dropped
  PROVE  OrderInv'
<1>0. /\ front \in Seq(Commands) /\ hold \in Seq(Commands)
      /\ coreq \in Seq(Commands) /\ out \in Seq(Commands)
      /\ Len(front) \in Nat /\ Len(hold) \in Nat /\ Len(coreq) \in Nat /\ Len(out) \in Nat
      /\ Len(hold) <= 1
  BY DEF IndInv, TypeOK
<1>1. UNCHANGED <<waiters, logout, issued, cmds>>
  BY DEF SupervisorStep, CoreStep, TakeEvent, TakeCommand, ReadClosed, SendCommand, Shutdown,
         Reconnect, RunCommand, ReadEvent, PushEvent, Connected, Dropped, frontVars
<1>2. PlacesInOrder BY DEF OrderInv
<1>3. SUFFICES PlacesInOrder' /\ Passed' = Passed
  BY <1>1 DEF OrderInv, AllThere, Waiting, QueueInOrder
<1>4. CASE TakeEvent \/ ReadClosed \/ Reconnect \/ ReadEvent \/ PushEvent \/ Connected \/ Dropped
  BY <1>2, <1>4
  DEF TakeEvent, ReadClosed, Reconnect, ReadEvent, PushEvent, Connected, Dropped, pumpVars,
      PlacesInOrder, Passed
<1>5. CASE TakeCommand
  <2>1. hold = <<>> /\ hold' = <<Head(front)>> /\ front' = Tail(front) /\ front # <<>>
        /\ UNCHANGED <<coreq, out>>
    BY <1>5 DEF TakeCommand, Blocked
  <2>2. /\ Len(hold) = 0 /\ Len(hold') = 1 /\ hold'[1] = front[1]
        /\ Len(front') = Len(front) - 1 /\ Len(front) > 0
        /\ \A i \in 1..Len(front') : front'[i] = front[i + 1]
    BY <1>0, <2>1, TailFacts
  <2>3. Passed' = Passed BY <1>0, <2>1, <2>2 DEF Passed
  <2>4. \A i \in 1..Len(hold') : hold'[i] = Len(out) + Len(coreq) + i
    BY <1>0, <1>2, <2>2 DEF PlacesInOrder
  <2>5. \A i \in 1..Len(front') : front'[i] = Len(out) + Len(coreq) + Len(hold') + i
    BY <1>0, <1>2, <2>2 DEF PlacesInOrder
  <2> QED BY <1>2, <2>1, <2>3, <2>4, <2>5 DEF PlacesInOrder
<1>6. CASE SendCommand
  <2>1. Len(hold) = 1 /\ hold[1] \in Commands BY <1>0, <1>6, HoldsOne DEF SendCommand, Blocked
  <2>2. /\ hold' = <<>> /\ Len(hold') = 0 /\ UNCHANGED <<front, out>>
        /\ Len(coreq') = Len(coreq) + 1 /\ coreq'[Len(coreq) + 1] = hold[1]
        /\ \A i \in 1..Len(coreq) : coreq'[i] = coreq[i]
    BY <1>0, <1>6, <2>1, AppendFacts DEF SendCommand
  <2>3. Passed' = Passed BY <1>0, <2>1, <2>2 DEF Passed
  <2>4. ASSUME NEW i \in 1..Len(coreq') PROVE coreq'[i] = Len(out) + i
    <3>1. CASE i \in 1..Len(coreq) BY <1>2, <2>2, <3>1 DEF PlacesInOrder
    <3>2. CASE i = Len(coreq) + 1 BY <1>0, <1>2, <2>1, <2>2, <3>2 DEF PlacesInOrder
    <3>3. i \in 1..Len(coreq) \/ i = Len(coreq) + 1
      <4>1. Len(coreq') = Len(coreq) + 1 /\ Len(coreq) \in Nat BY <1>0, <2>2
      <4> QED BY <4>1
    <3> QED BY <3>1, <3>2, <3>3
  <2>5. \A i \in 1..Len(front') : front'[i] = Len(out) + Len(coreq') + Len(hold') + i
    BY <1>0, <1>2, <2>1, <2>2 DEF PlacesInOrder
  <2> QED BY <1>2, <2>2, <2>3, <2>4, <2>5 DEF PlacesInOrder
<1>7. CASE RunCommand
  <2>1. /\ coreq # <<>> /\ coreq' = Tail(coreq) /\ out' = Append(out, Head(coreq))
        /\ UNCHANGED <<front, hold>>
    BY <1>7 DEF RunCommand
  <2>2. /\ Head(coreq) \in Commands /\ Head(coreq) = coreq[1] /\ Len(coreq) > 0
        /\ Len(coreq') = Len(coreq) - 1
        /\ \A i \in 1..Len(coreq') : coreq'[i] = coreq[i + 1]
    BY <1>0, <2>1, TailFacts
  <2>3. /\ Len(out') = Len(out) + 1 /\ out'[Len(out) + 1] = coreq[1]
        /\ \A i \in 1..Len(out) : out'[i] = out[i]
    BY <1>0, <2>1, <2>2, AppendFacts
  <2>4. Passed' = Passed BY <1>0, <2>1, <2>2, <2>3 DEF Passed
  <2>5. ASSUME NEW i \in 1..Len(out') PROVE out'[i] = i
    <3>1. CASE i \in 1..Len(out) BY <1>2, <2>3, <3>1 DEF PlacesInOrder
    <3>2. CASE i = Len(out) + 1 BY <1>0, <1>2, <2>2, <2>3, <3>2 DEF PlacesInOrder
    <3>3. i \in 1..Len(out) \/ i = Len(out) + 1
      <4>1. Len(out') = Len(out) + 1 /\ Len(out) \in Nat BY <1>0, <2>3
      <4> QED BY <4>1
    <3> QED BY <3>1, <3>2, <3>3
  <2>6. \A i \in 1..Len(coreq') : coreq'[i] = Len(out') + i
    BY <1>0, <1>2, <2>2, <2>3 DEF PlacesInOrder
  <2>7. /\ \A i \in 1..Len(hold') : hold'[i] = Len(out') + Len(coreq') + i
        /\ \A i \in 1..Len(front') : front'[i] = Len(out') + Len(coreq') + Len(hold') + i
    BY <1>0, <1>2, <2>1, <2>2, <2>3 DEF PlacesInOrder
  <2> QED BY <2>4, <2>5, <2>6, <2>7 DEF PlacesInOrder
<1>8. CASE Shutdown
  <2>1. /\ out' = out \o coreq /\ coreq' = <<>> /\ Len(coreq') = 0
        /\ UNCHANGED <<front, hold>>
        /\ Len(out') = Len(out) + Len(coreq)
        /\ \A k \in 1..Len(out') : out'[k] = k
    BY <1>0, <1>2, <1>8, NumbersGoOn DEF Shutdown, PlacesInOrder
  <2>2. Passed' = Passed BY <1>0, <2>1 DEF Passed
  <2>3. /\ \A i \in 1..Len(coreq') : coreq'[i] = Len(out') + i
        /\ \A i \in 1..Len(hold') : hold'[i] = Len(out') + Len(coreq') + i
        /\ \A i \in 1..Len(front') : front'[i] = Len(out') + Len(coreq') + Len(hold') + i
    BY <1>0, <1>2, <2>1 DEF PlacesInOrder
  <2> QED BY <2>1, <2>2, <2>3 DEF PlacesInOrder
<1> QED BY <1>4, <1>5, <1>6, <1>7, <1>8 DEF SupervisorStep, CoreStep

\* Every behaviour keeps the order.
LEMMA OrderInvariance == Spec => []OrderInv
<1>1. IndInv /\ OrderInv /\ [Next]_vars => OrderInv'
  <2>1. ASSUME IndInv, OrderInv, Next PROVE OrderInv'
    BY <2>1, IssueOrdered, StartLogoutOrdered, AcceptOrdered, DroppingOrdered, PumpOrdered
    DEF Next, MutexStep
  <2>2. ASSUME OrderInv, UNCHANGED vars PROVE OrderInv'
    BY <2>2 DEF vars, OrderInv, PlacesInOrder, AllThere, QueueInOrder, Passed, Waiting
  <2> QED BY <2>1, <2>2
<1> QED BY <1>1, Invariance, InitOrdered, PTL DEF Spec

\* Commands run in the order they were issued, each once, and none is lost in
\* a reconnect, whatever the capacities and the load.
THEOREM CommandsRunInOrder == Spec => []CommandsInOrder
  BY Invariance, OrderInvariance, PlacesMakeAccepted, PTL DEF OrderInv

\* Until a logout has taken the sender, whatever was issued is accepted or at
\* the mutex.
THEOREM NothingIssuedIsMissing == Spec => []Accounted
<1>1. IndInv /\ OrderInv => Accounted
  BY PlacesMakeAccepted DEF OrderInv, AllThere, Accounted
<1> QED BY <1>1, Invariance, OrderInvariance, PTL
=============================================================================
