--------------------------- MODULE MessageCopies ---------------------------
(***************************************************************************)
(* One message of a loaded channel and the channel's cached pins:          *)
(* MessagesStore.edit, pin, loadPins, applyMessageUpdate, applyPinsChanged *)
(* (web/src/stores.ts) and the pane that shows the pins.  A content is a   *)
(* version.  The server numbers its changes of the message, and no event   *)
(* about them is lost with a session of the gateway.                       *)
(***************************************************************************)
EXTENDS Naturals, Sequences, FiniteSets, Fetch

CONSTANTS
  PinLoads,      \* loads of the pins that can be in flight at one time
  MaxRevisions   \* bound: changes of the message

VARIABLES
  \* the store
  row,        \* the message's row: content and pinned
  cache,      \* pinsByChannel: "none", or whether the message is "in" or "out"
  pinLoads,   \* pinLoads[f]: a listPins on its way, its page what cache will be
  replies,    \* answers of the user's edits and pins on their way
  \* the server
  now,        \* the message, and the number of its last change
  notices,    \* gateway events on their way
  \* observers
  heard,      \* the number of the last change the store heard of by an event
  overtaken,  \* an answer older than that changed the row, and no event since
  late        \* the cache was filled by an answer older than an invalidation

copyVars == <<row, cache, pinLoads, replies>>
vars == <<copyVars, now, notices, heard, overtaken, late>>

Orders == {"edit", "pin", "unpin"}
States == [text : 0..MaxRevisions, pinned : BOOLEAN, rev : 0..MaxRevisions]
Content(s) == [text |-> s.text, pinned |-> s.pinned]

-----------------------------------------------------------------------------
(* loadPins. *)

\* The pane is opened, or shows another channel and then this one again.
OpenPins(f) ==
  /\ cache = "none" /\ pinLoads[f].step = "idle"
  /\ pinLoads' = [pinLoads EXCEPT ![f] = Asked]
  /\ UNCHANGED <<row, cache, replies, now, notices, heard, overtaken, late>>

ServePins(f) ==
  /\ pinLoads[f].step = "asked"
  /\ pinLoads' = [pinLoads EXCEPT ![f] = Answered({IF now.pinned THEN "in" ELSE "out"})]
  /\ UNCHANGED <<row, cache, replies, now, notices, heard, overtaken, late>>

ApplyPins(f) ==
  /\ pinLoads[f].step = "answered"
  /\ cache' \in pinLoads[f].page
  /\ late' = pinLoads[f].stale
  /\ pinLoads' = [pinLoads EXCEPT ![f] = Idle]
  /\ UNCHANGED <<row, replies, now, notices, heard, overtaken>>

FailPins(f) ==
  /\ pinLoads[f].step # "idle"
  /\ pinLoads' = [pinLoads EXCEPT ![f] = Idle]
  /\ UNCHANGED <<row, cache, replies, now, notices, heard, overtaken, late>>

BadInvalidate == UNCHANGED cache /\ pinLoads' = AllAged(pinLoads)   \* forgotten

\* A load that is on its way is not told.
Invalidate == cache' = "none" /\ pinLoads' = AllAged(pinLoads)

-----------------------------------------------------------------------------
(* edit and pin. *)

\* The row becomes the answer of an edit; a pin sets the flag and invalidates.
ApplyReply(a) ==
  /\ a \in replies
  /\ replies' = replies \ {a}
  /\ \/ /\ a.order = "edit"
        /\ row' = Content(a)
        /\ overtaken' = (a.rev < heard)
        /\ UNCHANGED <<cache, pinLoads>>
     \/ /\ a.order # "edit"
        /\ row' = [row EXCEPT !.pinned = (a.order = "pin")]
        /\ overtaken' = (overtaken \/ a.rev < heard)
        /\ Invalidate
  /\ UNCHANGED <<now, notices, heard, late>>

-----------------------------------------------------------------------------
(* Events. *)

ApplyUpdate(s) == row' = Content(s)

\* MESSAGE_UPDATE, or CHANNEL_PINS_UPDATE.
HandleNotice ==
  /\ notices # <<>>
  /\ notices' = Tail(notices)
  /\ LET n == Head(notices)
     IN  \/ /\ n.event = "update"
            /\ ApplyUpdate(n.state)
            /\ heard' = n.state.rev /\ overtaken' = FALSE
            /\ UNCHANGED <<cache, pinLoads>>
         \/ /\ n.event = "pins"
            /\ Invalidate
            /\ UNCHANGED <<row, heard, overtaken>>
  /\ UNCHANGED <<replies, now, late>>

-----------------------------------------------------------------------------
(* The server (external): a change is told by MESSAGE_UPDATE, a pin by       *)
(* CHANNEL_PINS_UPDATE as well.                                              *)

Notice(e) == [event |-> e, state |-> now']

Change(o) ==
  /\ now.rev < MaxRevisions
  /\ \/ /\ o = "edit"
        /\ now' = [now EXCEPT !.text = now.rev + 1, !.rev = @ + 1]
        /\ notices' = Append(notices, Notice("update"))
     \/ /\ o # "edit"
        /\ now' = [now EXCEPT !.pinned = (o = "pin"), !.rev = @ + 1]
        /\ notices' = notices \o <<Notice("update"), Notice("pins")>>

\* The user edits or pins: nothing changes here before the answer comes, so
\* that asking and carrying out are one step.
Carry(o) ==
  /\ Change(o)
  /\ replies' = replies \cup {[order |-> o, text |-> now'.text, pinned |-> now'.pinned, rev |-> now'.rev]}
  /\ UNCHANGED <<row, cache, pinLoads, heard, overtaken, late>>

\* Another user, or another device, edits or pins.
Other(o) ==
  /\ Change(o)
  /\ UNCHANGED <<copyVars, heard, overtaken, late>>

Init ==
  /\ now \in {s \in States : s.text = 0 /\ s.rev = 0} /\ row = Content(now)
  /\ cache = "none" /\ pinLoads = [f \in PinLoads |-> Idle]
  /\ replies = {} /\ notices = <<>>
  /\ heard = 0 /\ overtaken = FALSE /\ late = FALSE

Next ==
  \/ \E f \in PinLoads : OpenPins(f) \/ ServePins(f) \/ ApplyPins(f) \/ FailPins(f)
  \/ \E o \in Orders : Carry(o) \/ Other(o)
  \/ \E a \in replies : ApplyReply(a)
  \/ HandleNotice

Spec == Init /\ [][Next]_vars

-----------------------------------------------------------------------------
(* Properties. *)

\* Every variable has its type; the one type invariant of this module.
TypeOK ==
  /\ row \in [text : 0..MaxRevisions, pinned : BOOLEAN]
  /\ cache \in {"none", "in", "out"}
  /\ pinLoads \in [PinLoads -> Slot(SUBSET {"in", "out"})]
  /\ replies \subseteq [order : Orders, text : 0..MaxRevisions, pinned : BOOLEAN,
                        rev : 1..MaxRevisions]
  /\ now \in States
  /\ notices \in Seq([event : {"update", "pins"}, state : States])
  /\ heard \in 0..MaxRevisions /\ overtaken \in BOOLEAN /\ late \in BOOLEAN

\* Once all answers and events are in, the row is the message as the server
\* has it, and pins that are cached are the channel's pins: unless an answer
\* that an event had overtaken was the last to change the row, or one older
\* than an invalidation filled the cache.
CopiesAgreeUnlessRaced ==
  replies = {} /\ notices = <<>> =>
    /\ ~overtaken => row = Content(now)
    /\ ~late /\ cache # "none" => (cache = "in" <=> now.pinned)

-----------------------------------------------------------------------------
(* Sentences of the code's docs and comments that this model refutes.  No    *)
(* run checks them; README.md says what the code does instead.              *)

\* "Invalidate pin cache so a reopen refetches".
CacheIsFresh ==
  replies = {} /\ notices = <<>> /\ cache # "none" => (cache = "in" <=> now.pinned)
==============================================================================
