----------------------------- MODULE CommandPump -----------------------------
(***************************************************************************)
(* How gateway commands and events pass each other between the frontend    *)
(* and the core gateway task: the subscribe_* commands of                  *)
(* src-tauri/src/lib.rs take the gateway_cmds mutex and send into the      *)
(* supervisor's channel; the supervisor (run in src-tauri/src/gateway.rs)  *)
(* moves commands on into the core's channel and events on to the          *)
(* frontend, one at a time; the core's read loop (core/src/gateway.rs)     *)
(* runs commands and pushes events.  Both channels between supervisor and  *)
(* core are bounded and both sides block on a full one.                    *)
(*                                                                         *)
(* Of the core only what this depends on is kept: whether it is in its     *)
(* read loop, pushing an event, or elsewhere (connecting, waiting).        *)
(* Gateway.tla has the rest of it.                                         *)
(***************************************************************************)
EXTENDS Naturals, Sequences, Functions

CONSTANTS
  CmdCap,          \* capacity of each command channel (64 in the code)
  EventsCap,       \* capacity of the events channel (64 in the code)
  MaxOutstanding,  \* most commands the frontend keeps on their way to the core
  MaxCommands,     \* bound: commands issued
  MaxEvents,       \* bound: dispatches the server sends
  MaxDrops         \* bound: times the connection is lost

ASSUME PumpConstants ==
  /\ CmdCap \in Nat \ {0} /\ EventsCap \in Nat \ {0}
  /\ MaxOutstanding \in Nat \ {0}
  /\ MaxCommands \in Nat /\ MaxEvents \in Nat /\ MaxDrops \in Nat

VARIABLES
  issued,    \* commands issued by the frontend, numbered in this order
  waiters,   \* tasks at the gateway_cmds mutex, its holder first
  cmds,      \* whether gateway_cmds holds a sender
  front,     \* the channel from the commands to the supervisor
  hold,      \* the command the supervisor is sending on, none or one
  coreq,     \* the channel from the supervisor to the core
  out,       \* the commands that left it, taken by the core or gone with the handle
  gone,      \* those of them that went with the handle
  core,      \* "away", "read", "push"; "none" between two handles
  evq,       \* number of events in the events channel
  taken,     \* dispatches the core has taken off the wire
  shown,     \* events the supervisor has forwarded to the frontend
  unseen,    \* events that went with the handle
  drops,
  logout,    \* "no", "waiting" for the mutex, "cleared"
  told       \* the logout's notification is one of the select's ready arms

vars == <<issued, waiters, cmds, front, hold, coreq, out, gone, core, evq, taken, shown,
          unseen, drops, logout, told>>

\* What the commands, and what supervisor and core, leave alone.
pumpVars == <<hold, coreq, out, gone, core, evq, taken, shown, unseen, drops>>
frontVars == <<issued, waiters, cmds, logout>>

Commands == 1..MaxCommands
Logout == 0   \* the logout command among the waiters of the mutex

Waiting == Len(waiters) - (IF logout = "waiting" THEN 1 ELSE 0)
Outstanding == Waiting + Len(front) + Len(hold) + Len(coreq)
Blocked == hold # <<>>   \* the supervisor is inside send_command
InHand == IF core = "push" THEN 1 ELSE 0   \* the event the core is pushing

-----------------------------------------------------------------------------
(* The Tauri commands. *)

\* Bad definitions are slips the code could have, each beside what it would replace.
BadIssue ==   \* nothing bounds what the frontend issues
  /\ issued < MaxCommands
  /\ issued' = issued + 1
  /\ waiters' = Append(waiters, issued + 1)
  /\ UNCHANGED <<cmds, front, logout, told, pumpVars>>

\* subscribe_guild and its like reach gateway_cmds.lock(); the mutex is fair.
Issue ==
  /\ issued < MaxCommands /\ Outstanding < MaxOutstanding
  /\ issued' = issued + 1
  /\ waiters' = Append(waiters, issued + 1)
  /\ UNCHANGED <<cmds, front, logout, told, pumpVars>>

\* The holder sends while it holds the mutex, and waits there for room.
Accept ==
  /\ waiters # <<>> /\ Head(waiters) # Logout
  /\ cmds /\ Len(front) < CmdCap
  /\ front' = Append(front, Head(waiters))
  /\ waiters' = Tail(waiters)
  /\ UNCHANGED <<issued, cmds, logout, told, pumpVars>>

\* With no sender the command is dropped and still returns Ok.
Ignore ==
  /\ waiters # <<>> /\ Head(waiters) # Logout /\ ~cmds
  /\ waiters' = Tail(waiters)
  /\ UNCHANGED <<issued, cmds, front, logout, told, pumpVars>>

\* logout has taken client and notifier and waits for the mutex (take_client).
StartLogout ==
  /\ logout = "no"
  /\ logout' = "waiting"
  /\ waiters' = Append(waiters, Logout)
  /\ UNCHANGED <<issued, cmds, front, told, pumpVars>>

\* The rest of logout: the sender is dropped, and notify_waiters reaches the
\* supervisor if it is at its select, which it is not inside send_command.
FinishLogout ==
  /\ waiters # <<>> /\ Head(waiters) = Logout
  /\ waiters' = Tail(waiters)
  /\ cmds' = FALSE
  /\ logout' = "cleared"
  /\ told' \in {FALSE, ~Blocked}
  /\ UNCHANGED <<issued, front, pumpVars>>

-----------------------------------------------------------------------------
(* The supervisor: one select over the notification, events and commands.  A *)
(* notification is gone when another ready arm is picked before it.          *)

TakeEvent ==
  /\ ~Blocked /\ evq > 0
  /\ evq' = evq - 1
  /\ shown' = shown + 1
  /\ told' = FALSE
  /\ UNCHANGED <<frontVars, front, hold, coreq, out, gone, core, taken, unseen, drops>>

TakeCommand ==
  /\ ~Blocked /\ core # "none" /\ front # <<>>
  /\ hold' = <<Head(front)>>
  /\ front' = Tail(front)
  /\ told' = FALSE
  /\ UNCHANGED <<frontVars, coreq, out, gone, core, evq, taken, shown, unseen, drops>>

\* Without a sender and with nothing queued recv() is ready with None.
ReadClosed ==
  /\ ~Blocked /\ ~cmds /\ front = <<>> /\ told
  /\ told' = FALSE
  /\ UNCHANGED <<frontVars, front, pumpVars>>

\* handle.send_command(cmd).await inside the branch: no event is taken meanwhile.
SendCommand ==
  /\ Blocked /\ Len(coreq) < CmdCap
  /\ coreq' = Append(coreq, hold[1])
  /\ hold' = <<>>
  /\ UNCHANGED <<frontVars, front, out, gone, core, evq, taken, shown, unseen, drops, told>>

\* The shutdown arm: the core is told to end and the handle is dropped, with the
\* events queued in it and the commands the core has not taken.  (What a core
\* that misses being told still does is in Gateway.)
Shutdown ==
  /\ ~Blocked /\ told
  /\ told' = FALSE
  /\ core' = "none"
  /\ out' = out \o coreq
  /\ gone' = gone \cup Range(coreq)
  /\ coreq' = <<>>
  /\ unseen' = unseen + evq + InHand
  /\ evq' = 0
  /\ UNCHANGED <<frontVars, front, hold, taken, shown, drops>>

\* The loop of spawn goes on after run has returned; what is still in the
\* channel of the commands goes to the next core.
Reconnect ==
  /\ core = "none"
  /\ core' = "away"
  /\ UNCHANGED <<frontVars, front, hold, coreq, out, gone, evq, taken, shown, unseen, drops,
                 told>>

-----------------------------------------------------------------------------
(* The core task: one select over commands and messages. *)

RunCommand ==
  /\ core = "read" /\ coreq # <<>>
  /\ out' = Append(out, Head(coreq))
  /\ coreq' = Tail(coreq)
  /\ UNCHANGED <<frontVars, front, hold, gone, core, evq, taken, shown, unseen, drops, told>>

ReadEvent ==
  /\ core = "read" /\ taken < MaxEvents
  /\ taken' = taken + 1
  /\ core' = "push"
  /\ UNCHANGED <<frontVars, front, hold, coreq, out, gone, evq, shown, unseen, drops, told>>

BadPushEvent ==   \* try_send: a full channel drops the event
  /\ core = "push"
  /\ evq' = IF evq < EventsCap THEN evq + 1 ELSE evq
  /\ core' = "read"
  /\ UNCHANGED <<frontVars, front, hold, coreq, out, gone, taken, shown, unseen, drops, told>>

\* tx.send(event).await inside the branch: no command is run meanwhile.
PushEvent ==
  /\ core = "push" /\ evq < EventsCap
  /\ evq' = evq + 1
  /\ core' = "read"
  /\ UNCHANGED <<frontVars, front, hold, coreq, out, gone, taken, shown, unseen, drops, told>>

BadConnected ==   \* the commands queued meanwhile are thrown away
  /\ core = "away"
  /\ core' = "read"
  /\ coreq' = <<>>
  /\ UNCHANGED <<frontVars, front, hold, out, gone, evq, taken, shown, unseen, drops, told>>

\* Commands wait in the channel while the core is away from its read loop.
Connected ==
  /\ core = "away"
  /\ core' = "read"
  /\ UNCHANGED <<frontVars, front, hold, coreq, out, gone, evq, taken, shown, unseen, drops,
                 told>>

Dropped ==
  /\ core = "read" /\ drops < MaxDrops
  /\ drops' = drops + 1
  /\ core' = "away"
  /\ UNCHANGED <<frontVars, front, hold, coreq, out, gone, evq, taken, shown, unseen, told>>

-----------------------------------------------------------------------------
Init ==
  /\ issued = 0 /\ waiters = <<>> /\ cmds = TRUE
  /\ front = <<>> /\ hold = <<>> /\ coreq = <<>> /\ out = <<>> /\ gone = {}
  /\ core = "away" /\ evq = 0 /\ taken = 0 /\ shown = 0 /\ unseen = 0
  /\ drops = 0 /\ logout = "no" /\ told = FALSE

MutexStep == Accept \/ Ignore \/ FinishLogout
SupervisorStep ==
  TakeEvent \/ TakeCommand \/ ReadClosed \/ SendCommand \/ Shutdown \/ Reconnect
CoreStep == RunCommand \/ ReadEvent \/ PushEvent

Next ==
  \/ Issue \/ StartLogout
  \/ MutexStep \/ SupervisorStep \/ CoreStep
  \/ Connected \/ Dropped

Spec == Init /\ [][Next]_vars

\* The runtime polls a task that can go on, and a select that is polled again
\* and again takes each of its ready branches at some time, since it picks one
\* at random.  Whether the network comes back is the business of OnlineSpec.
FairSpec ==
  /\ Spec
  /\ WF_vars(MutexStep)
  /\ SF_vars(TakeEvent) /\ SF_vars(TakeCommand) /\ WF_vars(SendCommand)
  /\ WF_vars(Reconnect) /\ SF_vars(RunCommand) /\ WF_vars(PushEvent)

OnlineSpec == FairSpec /\ WF_vars(Connected)

-----------------------------------------------------------------------------
(* Properties. *)

\* Every variable has its type; the one type invariant of this module.
TypeOK ==
  /\ issued \in 0..MaxCommands
  /\ waiters \in Seq(Commands \cup {Logout})
  /\ cmds \in BOOLEAN
  /\ front \in Seq(Commands) /\ Len(front) <= CmdCap
  /\ hold \in Seq(Commands) /\ Len(hold) <= 1
  /\ coreq \in Seq(Commands) /\ Len(coreq) <= CmdCap
  /\ out \in Seq(Commands) /\ gone \in SUBSET Commands
  /\ core \in {"away", "read", "push", "none"}
  /\ evq \in 0..EventsCap
  /\ taken \in 0..MaxEvents /\ shown \in 0..MaxEvents /\ unseen \in 0..MaxEvents
  /\ drops \in 0..MaxDrops
  /\ logout \in {"no", "waiting", "cleared"} /\ told \in BOOLEAN

\* Commands that were accepted reach the core in the order they were issued, each
\* once, and none is lost while the core reconnects.
Accepted == out \o coreq \o hold \o front
CommandsInOrder == \A k \in 1..Len(Accepted) : Accepted[k] = k

\* What the frontend has issued is either accepted, waiting for the mutex, or
\* (after logout) dropped.
Accounted == cmds => issued = Len(Accepted) + Waiting

\* The supervisor and the core never wait for each other: not both channels
\* between them are full with a sender on each side.
NoCircularWait ==
  ~(Blocked /\ Len(coreq) = CmdCap /\ core = "push" /\ evq = EventsCap)

\* Room is made for a command that waits with the mutex in its hand, even when
\* the core is away for good: the supervisor can take a command or send the one
\* it holds.
RoomIsMade ==
  Len(front) = CmdCap /\ Waiting > 0 => ~Blocked \/ Len(coreq) < CmdCap

\* "so real-time updates keep flowing after transient failures": every event
\* the core takes off the wire is forwarded to the frontend, unless a logout
\* has dropped the handle with it.
UpdatesFlow ==
  \A n \in 1..MaxEvents : (taken >= n) ~> (shown + unseen >= n /\ (unseen > 0 => ~cmds))

\* Every command that was accepted is taken by the core, unless a logout has
\* dropped the handle with it.  (What the core takes it sends; a failed send is
\* only logged.)
CommandsRun ==
  \A n \in Commands : (Len(Accepted) >= n) ~> (Len(out) >= n /\ (n \in gone => ~cmds))

\* "Logout: stop the gateway and drop the client.  Clears the stored session":
\* a logout gets past the mutex and does so, even when the core is away for good.
LogoutClears == (logout = "waiting") ~> (logout = "cleared")
==============================================================================
