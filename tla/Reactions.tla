------------------------------ MODULE Reactions ------------------------------
(***************************************************************************)
(* The chip of one emoji under one message: MessagesStore counts the       *)
(* user's own reactions at once (toggleReaction, the reactions modal), and *)
(* counts the gateway's events, of which some echo what it has counted     *)
(* (web/src/stores.ts, web/src/components/MessageReactionsModal.tsx).  The *)
(* chip is part of the message's row: what replaces the row, the answer to *)
(* an edit or a page that is loaded, or is merged into it, MESSAGE_UPDATE, *)
(* replaces the chip.                                                      *)
(*                                                                         *)
(* A chip whose count is zero is removed, so that none and a count of zero *)
(* are the same here.  The message stays in the list, and no event is lost *)
(* with a session of the gateway.  The server is external.                 *)
(***************************************************************************)
EXTENDS Naturals, Sequences, FiniteSets

CONSTANTS
  Users, Me,
  MaxRequests,  \* bound: requests the user makes
  MaxEvents,    \* bound: events on their way
  MaxCopies     \* bound: copies of the message on their way

VARIABLES
  chip,      \* count and me
  requests,  \* requests made, in order
  reactors,  \* server: who reacted
  events,    \* gateway events on their way
  copies,    \* copies of the message on their way, in answers to an edit or a
             \* load: who had reacted when each was made
  counted,   \* who had reacted when the server sent the last event handled
  before,    \* observer: the chip before the latest toggle, while nothing else changed it
  unsure     \* observer: something happened that may leave `me' wrong

vars == <<chip, requests, reactors, events, copies, counted, before, unsure>>
serverVars == <<reactors, events, copies, counted>>

Kinds == {"add", "remove", "clear"}
Request(kind, user, toggle) ==
  [kind |-> kind, user |-> user, toggle |-> toggle, waiting |-> TRUE, served |-> FALSE]
None == [count |-> 0, me |-> FALSE]
NoToggle == [request |-> 0, chip |-> None]

\* The chip of a message to which they have reacted.
Of(users) == [count |-> Cardinality(users), me |-> Me \in users]

After(users, kind, user) ==
  CASE kind = "add" -> users \cup {user}
    [] kind = "remove" -> users \ {user}
    [] kind = "clear" -> {}
    [] kind = "update" -> users

-----------------------------------------------------------------------------
(* How the store changes a chip. *)

Less(c, mine) == IF c.count <= 1 THEN None ELSE [count |-> c.count - 1, me |-> mine]

\* applyReaction: the user's own, on a click.
Own(c, kind) ==
  CASE kind = "add" -> [count |-> c.count + 1, me |-> TRUE]
    [] kind = "remove" -> Less(c, FALSE)

\* applyReactionAdd, applyReactionRemove and applyReactionEmojiRemoved.
Applied(c, kind, user) ==
  CASE kind = "add" -> [count |-> c.count + 1, me |-> c.me \/ user = Me]
    [] kind = "remove" -> Less(c, c.me /\ user # Me)
    [] kind = "clear" -> None

-----------------------------------------------------------------------------
(* The user. *)

Ask(kind, user, toggle) ==
  /\ Len(requests) < MaxRequests
  /\ requests' = Append(requests, Request(kind, user, toggle))
  /\ UNCHANGED serverVars

Waiting == \E k \in DOMAIN requests : requests[k].waiting

Echoing == \E k \in DOMAIN events : events[k].user = Me /\ events[k].kind \in {"add", "remove"}

\* The chip toggles `me'; a quick reaction and the picker always add.
Toggle(kind) ==
  /\ kind = "add" \/ (kind = "remove" /\ chip.me)
  /\ Ask(kind, Me, TRUE)
  /\ chip' = Own(chip, kind)
  /\ before' = [request |-> Len(requests) + 1, chip |-> chip]
  /\ unsure' = (unsure \/ Waiting \/ Echoing \/ (kind = "add" /\ chip.me))

\* Removals from the modal; nothing takes them back when they fail.
ModalRemove(user) ==
  /\ chip.count > 0
  /\ Ask("remove", user, FALSE)
  /\ chip' = Applied(chip, "remove", user)
  /\ before' = NoToggle
  /\ unsure' = TRUE

ModalClear ==
  /\ chip.count > 0
  /\ Ask("clear", Me, FALSE)
  /\ chip' = None
  /\ before' = NoToggle
  /\ unsure' = TRUE

Answer(k) ==
  /\ requests[k].waiting /\ requests[k].served
  /\ requests' = [requests EXCEPT ![k].waiting = FALSE]
  /\ UNCHANGED <<chip, serverVars, before, unsure>>

\* Bad definitions are slips the code could have, each beside what it would replace.
BadFail(k) ==   \* no revert
  /\ requests[k].waiting
  /\ requests' = [requests EXCEPT ![k].waiting = FALSE]
  /\ UNCHANGED chip
  /\ before' = NoToggle
  /\ unsure' = (unsure \/ requests[k].served)
  /\ UNCHANGED serverVars

\* An error or a timeout: a toggle is reverted by the opposite one.
Fail(k) ==
  /\ requests[k].waiting
  /\ requests' = [requests EXCEPT ![k].waiting = FALSE]
  /\ chip' = CASE ~requests[k].toggle -> chip
               [] requests[k].toggle /\ requests[k].kind = "add" -> Own(chip, "remove")
               [] requests[k].toggle /\ requests[k].kind = "remove" -> Own(chip, "add")
  /\ before' = NoToggle
  /\ unsure' = (unsure \/ requests[k].served)
  /\ UNCHANGED serverVars

\* MESSAGE_REACTION_ADD, _REMOVE, _REMOVE_EMOJI and _REMOVE_ALL, and
\* MESSAGE_UPDATE: one that brings no reactions empties them.
ApplyEvent ==
  /\ events # <<>>
  /\ LET e == Head(events)
     IN  /\ counted' = After(counted, e.kind, e.user)
         /\ \/ /\ e.kind \in Kinds
               /\ chip' = Applied(chip, e.kind, e.user)
               /\ unsure' = (unsure \/ (Waiting /\ e.kind = "clear"))
            \/ /\ e.kind = "update"
               /\ chip' \in {Of(counted), None}
               /\ unsure' = (unsure \/ chip' # Of(counted))
  /\ events' = Tail(events)
  /\ before' = NoToggle
  /\ UNCHANGED <<requests, reactors, copies>>

\* An answer: edit replaces the row, load and jumpTo the whole list.
Replace(users) ==
  /\ users \in copies
  /\ chip' = Of(users)
  /\ copies' = copies \ {users}
  /\ before' = NoToggle
  /\ unsure' = (unsure \/ users # counted)
  /\ UNCHANGED <<requests, reactors, events, counted>>

-----------------------------------------------------------------------------
(* The server (external): an event for each change there really is. *)

Change(kind, user) ==
  /\ reactors' = After(reactors, kind, user)
  /\ events' = IF reactors' = reactors THEN events
               ELSE Append(events, [kind |-> kind, user |-> user])
  /\ Len(events') <= MaxEvents
  /\ UNCHANGED <<copies, counted>>

\* A request may arrive after the client gave up on it.
Serve(k) ==
  /\ ~requests[k].served
  /\ Change(requests[k].kind, requests[k].user)
  /\ requests' = [requests EXCEPT ![k].served = TRUE]
  /\ unsure' = (unsure \/ ~requests[k].waiting)
  /\ UNCHANGED <<chip, before>>

\* Someone else; the user has no other device here.
Other(kind, user) ==
  /\ kind # "clear" => user # Me
  /\ Change(kind, user) /\ reactors' # reactors
  /\ UNCHANGED <<chip, requests, before, unsure>>

\* The message is edited, pinned or gets its embeds: all are told, whoever did it.
Update ==
  /\ Len(events) < MaxEvents
  /\ events' = Append(events, [kind |-> "update", user |-> Me])
  /\ UNCHANGED <<chip, requests, reactors, copies, counted, before, unsure>>

\* An edit or a load is answered.
Copy ==
  /\ Cardinality(copies) < MaxCopies
  /\ copies' = copies \cup {reactors}
  /\ UNCHANGED <<chip, requests, reactors, events, counted, before, unsure>>

-----------------------------------------------------------------------------
\* The message was loaded from history, with the reactions it had.
Init ==
  /\ reactors \in SUBSET Users /\ counted = reactors
  /\ chip = Of(reactors)
  /\ requests = <<>> /\ events = <<>> /\ copies = {} /\ before = NoToggle /\ unsure = FALSE

Next ==
  \/ \E kind \in {"add", "remove"} : Toggle(kind)
  \/ \E user \in Users : ModalRemove(user)
  \/ ModalClear
  \/ \E k \in DOMAIN requests : Answer(k) \/ Fail(k) \/ Serve(k)
  \/ ApplyEvent \/ Update \/ Copy
  \/ \E users \in SUBSET Users : Replace(users)
  \/ \E kind \in Kinds, user \in Users : Other(kind, user)

Spec == Init /\ [][Next]_vars

-----------------------------------------------------------------------------
(* Properties. *)

\* Types; a chip that is the user's counts him, and a click asks to add or remove.
TypeOK ==
  /\ chip \in [count : Nat, me : BOOLEAN]
  /\ chip.me => chip.count > 0
  /\ requests \in Seq([kind : Kinds, user : Users, toggle : BOOLEAN, waiting : BOOLEAN,
                       served : BOOLEAN])
  /\ \A k \in DOMAIN requests : requests[k].toggle => requests[k].kind # "clear"
  /\ reactors \subseteq Users /\ counted \subseteq Users /\ copies \subseteq SUBSET Users
  /\ events \in Seq([kind : Kinds \cup {"update"}, user : Users]) /\ Len(events) <= MaxEvents
  /\ before.request \in 0..MaxRequests /\ before.chip.me \in BOOLEAN
  /\ unsure \in BOOLEAN

Quiet == events = <<>> /\ ~Waiting

\* Once everything has arrived the chip tells rightly whether the user reacted,
\* however clicks, answers, failures, events and copies of the message were
\* interleaved, as long as the user waits for a toggle's answer and echo before
\* the next and takes nothing back in the modal, no request outlives its failure,
\* no moderator clears the emoji meanwhile, an update brings the reactions there
\* are, and a copy counts what the events handled before it have told.
MineIsRight == Quiet /\ ~unsure => chip.me = (Me \in reactors)

-----------------------------------------------------------------------------
(* Sentences of the code's docs and comments that this model refutes.  No    *)
(* run checks them; README.md says what the code does instead.              *)

\* "the gateway echo confirms": once everything has arrived the chip counts
\* those who reacted, the user included once.
EchoConfirms == Quiet /\ ~unsure => chip.count = Cardinality(reactors)

\* "Revert on failure": a toggle that fails before anything else changed the
\* chip leaves it as it was.
RevertRestores ==
  [][\A k \in DOMAIN requests :
       Fail(k) /\ before.request = k => chip' = before.chip]_vars
==============================================================================
