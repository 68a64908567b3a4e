--------------------------- MODULE SavedMessages ---------------------------
(***************************************************************************)
(* The bookmarks of the user: SavedMessagesStore (web/src/stores.ts), the  *)
(* popout that fetches them, the gateway events that keep them, and the    *)
(* reset when the gateway is connected again.  Messages are numbered by    *)
(* their ids, the newest highest.                                          *)
(***************************************************************************)
EXTENDS Naturals, Sequences, FiniteSets, Functions, Fetch, Lists

CONSTANTS
  Marks,        \* the messages: their ids, natural numbers
  Fetches,      \* fetches that can be in flight at one time
  MaxChanges    \* bound: saves, unsaves and changes made elsewhere

VARIABLES
  \* the store
  saved,      \* savedMessages: ids, the newest first
  missing,    \* missing: ids of messages the user cannot see any more
  fetched,
  fetch,      \* fetch[f]: a listSavedMessages on its way, its answer the bookmarks
  requests,   \* messages whose unsave is on its way
  \* the server and the gateway
  marked,     \* the bookmarks as the server has them
  alive,      \* messages that exist
  hidden,     \* messages the user has no access to
  feed,       \* gateway: "up", "down", or "new": up again, the status not yet handled
  events,     \* gateway events on their way
  changes,
  \* observers
  undone,     \* unsaves that failed since the list was fetched
  bulk,       \* messages deleted in bulk since the list was fetched
  raced       \* the list was replaced by a page older than it

storeVars  == <<saved, missing, fetched, fetch, requests>>
serverVars == <<marked, alive, hidden, feed, events, changes>>
obsVars    == <<undone, bulk, raced>>
vars == <<storeVars, serverVars, obsVars>>

Shown == Range(saved) \cup missing
Event(op, ms) == [op |-> op, ms |-> ms]

\* An event of the server reaches the client, or is lost with the connection;
\* an answer made before it is older than the change then.
Emit(e) ==
  IF feed = "down" THEN events' = events /\ fetch' = AllAged(fetch)
  ELSE events' = Append(events, e) /\ UNCHANGED fetch

Change == changes < MaxChanges /\ changes' = changes + 1

-----------------------------------------------------------------------------
(* fetch. *)

\* The popout opens and the list is not fetched; a second popout may open
\* while the first one's fetch is on its way.
Open(f) ==
  /\ ~fetched /\ fetch[f].step = "idle"
  /\ fetch' = [fetch EXCEPT ![f] = Asked]
  /\ UNCHANGED <<saved, missing, fetched, requests, serverVars, obsVars>>

Serve(f) ==
  /\ fetch[f].step = "asked"
  /\ fetch' = [fetch EXCEPT ![f] = Answered({[m |-> m, seen |-> m \notin hidden] : m \in marked})]
  /\ UNCHANGED <<saved, missing, fetched, requests, serverVars, obsVars>>

Apply(f) ==
  /\ fetch[f].step = "answered"
  /\ saved' = Descending({e.m : e \in {d \in fetch[f].page : d.seen}})
  /\ missing' = {e.m : e \in {d \in fetch[f].page : ~d.seen}}
  /\ fetched' = TRUE
  /\ fetch' = [fetch EXCEPT ![f] = Idle]
  /\ raced' = fetch[f].stale
  /\ undone' = {} /\ bulk' = {}
  /\ UNCHANGED <<requests, serverVars>>

Fail(f) ==
  /\ fetch[f].step # "idle"
  /\ saved' = <<>> /\ missing' = {} /\ fetched' = FALSE
  /\ fetch' = [fetch EXCEPT ![f] = Idle]
  /\ UNCHANGED <<requests, serverVars, obsVars>>

-----------------------------------------------------------------------------
(* toggle: unsave and save. *)

Without(ms) ==
  /\ saved' = Kept(saved, Marks \ ms)
  /\ missing' = missing \ ms

\* The list changes at once, and stays changed when the request fails.
Unsave(m) ==
  /\ m \in Shown /\ Change
  /\ Without({m})
  /\ fetch' = AllAged(fetch)
  /\ requests' = requests \cup {m}
  /\ UNCHANGED <<fetched, marked, alive, hidden, feed, events, obsVars>>

Mark(m) ==
  /\ m \in alive \ hidden
  /\ marked' = marked \cup {m}
  /\ Emit(Event("saved", {m}))

Unmark(m) ==
  /\ marked' = marked \ {m}
  /\ Emit(Event("unsaved", {m}))

\* The user saves, here or on another device: no list changes before the echo
\* of the gateway arrives, so that asking and saving are one step.
Save(m) ==
  /\ Change /\ Mark(m)
  /\ UNCHANGED <<saved, missing, fetched, requests, alive, hidden, feed, obsVars>>

ObeyUnsave(m) ==
  /\ m \in requests
  /\ requests' = requests \ {m}
  /\ Unmark(m)
  /\ UNCHANGED <<saved, missing, fetched, alive, hidden, feed, changes, obsVars>>

FailUnsave(m) ==
  /\ m \in requests
  /\ requests' = requests \ {m}
  /\ undone' = undone \cup {m}
  /\ UNCHANGED <<saved, missing, fetched, fetch, serverVars, bulk, raced>>

-----------------------------------------------------------------------------
(* Events of the gateway. *)

Insert(m) ==
  /\ saved' = IF m \in Range(saved) THEN saved ELSE <<m>> \o saved
  /\ missing' = missing \ {m}

\* SAVED_MESSAGE_CREATE inserts; SAVED_MESSAGE_DELETE, MESSAGE_DELETE and
\* CHANNEL_DELETE remove; MESSAGE_DELETE_BULK leaves the bookmarks alone.
Take ==
  /\ events # <<>>
  /\ LET e == Head(events)
     IN  \/ /\ e.op = "saved"
            /\ \E m \in e.ms : Insert(m)
            /\ UNCHANGED bulk
         \/ /\ e.op \in {"unsaved", "gone"}
            /\ Without(e.ms)
            /\ UNCHANGED bulk
         \/ /\ e.op = "bulk"
            /\ bulk' = bulk \cup e.ms
            /\ UNCHANGED <<saved, missing>>
  /\ events' = Tail(events)
  /\ fetch' = AllAged(fetch)
  /\ UNCHANGED <<fetched, requests, marked, alive, hidden, feed, changes, undone, raced>>

BadReset ==   \* the entries go, the mark that they were fetched stays
  /\ saved' = <<>> /\ missing' = {} /\ UNCHANGED fetched

Reset == saved' = <<>> /\ missing' = {} /\ fetched' = FALSE

\* The status "connected" after another one.
Connected ==
  /\ feed = "new" /\ feed' = "up"
  /\ Reset
  /\ UNCHANGED <<fetch, requests, marked, alive, hidden, events, changes, obsVars>>

-----------------------------------------------------------------------------
(* The server and the network (external). *)

\* Another device of the user unsaves.
UnsaveElsewhere(m) ==
  /\ m \in marked /\ Change /\ Unmark(m)
  /\ UNCHANGED <<saved, missing, fetched, requests, alive, hidden, feed, obsVars>>

\* A message is deleted, or a channel with all of its messages; or several
\* messages in bulk.  Their bookmarks go with them.
Delete(ms, op) ==
  /\ Change
  /\ alive' = alive \ ms /\ marked' = marked \ ms
  /\ Emit(Event(op, ms))
  /\ UNCHANGED <<saved, missing, fetched, requests, hidden, feed, obsVars>>

\* A channel is closed to the user, or opened.
Access(m) ==
  /\ Change
  /\ hidden' = IF m \in hidden THEN hidden \ {m} ELSE hidden \cup {m}
  /\ UNCHANGED <<storeVars, marked, alive, feed, events, obsVars>>

\* Of the events on their way some are lost.
Break ==
  /\ feed # "down" /\ feed' = "down"
  /\ \E k \in 0..Len(events) :
       /\ events' = SubSeq(events, 1, k)
       /\ fetch' = IF k = Len(events) THEN fetch ELSE AllAged(fetch)
  /\ UNCHANGED <<saved, missing, fetched, requests, marked, alive, hidden, changes, obsVars>>

\* The next connection comes a second later at the earliest: what had reached
\* the client of the last one is handled by then.
Reconnect ==
  /\ feed = "down" /\ events = <<>> /\ feed' = "new"
  /\ UNCHANGED <<storeVars, marked, alive, hidden, events, changes, obsVars>>

-----------------------------------------------------------------------------
Init ==
  /\ saved = <<>> /\ missing = {} /\ fetched = FALSE
  /\ fetch = [f \in Fetches |-> Idle] /\ requests = {}
  /\ marked \in SUBSET Marks /\ alive = Marks /\ hidden \in SUBSET Marks
  /\ feed = "up" /\ events = <<>> /\ changes = 0
  /\ undone = {} /\ bulk = {} /\ raced = FALSE

Next ==
  \/ \E f \in Fetches : Open(f) \/ Serve(f) \/ Apply(f) \/ Fail(f)
  \/ \E m \in Marks : Save(m) \/ Unsave(m) \/ UnsaveElsewhere(m) \/ Access(m)
  \/ \E m \in requests : ObeyUnsave(m) \/ FailUnsave(m)
  \/ \E m \in alive : Delete({m}, "gone")
  \/ Delete(Marks, "gone") \/ Delete(alive, "bulk")
  \/ Take \/ Connected \/ Break \/ Reconnect

Spec == Init /\ [][Next]_vars

-----------------------------------------------------------------------------
(* Properties. *)

\* Every variable has its type; the one type invariant of this module.
TypeOK ==
  /\ saved \in Seq(Marks) /\ missing \subseteq Marks /\ fetched \in BOOLEAN
  /\ fetch \in [Fetches -> Slot(SUBSET [m : Marks, seen : BOOLEAN])]
  /\ requests \subseteq Marks
  /\ marked \subseteq Marks /\ alive \subseteq Marks /\ hidden \subseteq Marks
  /\ feed \in {"up", "down", "new"}
  /\ events \in Seq([op : {"saved", "unsaved", "gone", "bulk"}, ms : SUBSET Marks])
  /\ changes \in 0..MaxChanges
  /\ undone \subseteq Marks /\ bulk \subseteq Marks /\ raced \in BOOLEAN

Quiet == feed = "up" /\ events = <<>> /\ requests = {}

\* No message stands in the list twice, or both as saved and as missing.
ListedOnce ==
  /\ \A i, j \in DOMAIN saved : saved[i] = saved[j] => i = j
  /\ Range(saved) \cap missing = {}

\* Once all events and answers are in, the fetched list holds exactly the
\* user's bookmarks, across unsaves applied at once, echoes, changes made
\* elsewhere and lost connections: but for unsaves that failed and messages
\* deleted in bulk since the fetch, and unless a page older than the list took
\* its place.
BookmarksAgreeUnlessRaced ==
  Quiet /\ fetched /\ ~raced =>
    ListedOnce /\ marked \ undone \subseteq Shown /\ Shown \ bulk \subseteq marked

-----------------------------------------------------------------------------
(* Sentences of the code's docs and comments that this model refutes.  No    *)
(* run checks them; README.md says what the code does instead.              *)

\* "Saved messages, newest-first (snowflake id descending)".
NewestFirst == \A i, j \in DOMAIN saved : i < j => saved[i] > saved[j]

\* "A (re)connect invalidates the bookmark + scheduled lists ... so drop them
\* and refetch on next open": the list that is shown was fetched after it.
BookmarksAgree ==
  Quiet /\ fetched => marked \ undone \subseteq Shown /\ Shown \ bulk \subseteq marked
==============================================================================
