--------------------------- MODULE ReactionsModal ---------------------------
(***************************************************************************)
(* The list of those who reacted, UiStore.reactionsModal in                *)
(* web/src/stores.ts: it is opened for a message and an emoji, its tabs    *)
(* choose another emoji, it is closed and opened again, and its rows have  *)
(* a button that takes the reaction away                                   *)
(* (web/src/components/MessageReactionsModal.tsx); meanwhile the pages it  *)
(* asked for arrive in any order, and the gateway tells who reacts, who    *)
(* takes a reaction back, and that reactions were cleared, which the list  *)
(* does not follow.  Users are numbered by their ids, and no event is lost *)
(* with a session of the gateway.                                          *)
(***************************************************************************)
EXTENDS Naturals, Sequences, FiniteSets, FiniteSetsExt, Fetch

CONSTANTS
  Messages, Emojis,
  Reactors,      \* the users: their ids, positive numbers
  PageSize,      \* users of a page
  Slots,         \* requests that can be on their way at one time
  MaxReactions   \* bound: reactions added, taken back or cleared

VARIABLES
  \* the store
  open,      \* whether reactionsModal is there
  message, emoji, users, loading,   \* its fields; users: rows
  next,      \* nextAfter when hasMore, otherwise 0
  flight,    \* flight[s]: a request, what it is for, the users of its answer
  \* the server
  reacted,   \* reacted[m][e]: who reacted to m with e
  reactions,
  told,      \* MESSAGE_REACTION_ADD, _REMOVE and _REMOVE_EMOJI on their way
  \* observers, since the list was opened or its tab chosen
  failed,    \* a request failed
  mixed,     \* a page was applied that was asked for before, or was made before
             \* an event that had been handled
  strangers, \* users who were not added, as nothing was known of them
  ghosts,    \* users who were in the list when their reactions were cleared
  dropped    \* users whose row was taken away here, and of whom nothing was told since

fieldVars  == <<open, message, emoji, users, loading, next>>
serverVars == <<reacted, reactions, told>>
watchVars  == <<failed, mixed, strangers, ghosts, dropped>>
vars == <<fieldVars, flight, serverVars, watchVars>>

Row(m, e, u) == [message |-> m, emoji |-> e, user |-> u]
Names == {r.user : r \in users}

Busy(s) == flight[s].step # "idle"

-----------------------------------------------------------------------------
(* Requests. *)

Ask(s, requests, m, e, after) ==
  /\ requests[s].step = "idle"
  /\ flight' = [requests EXCEPT ![s] =
       [step |-> "asked", page |-> {}, stale |-> FALSE,
        for |-> [message |-> m, emoji |-> e, after |-> after]]]

\* The list begins anew; the requests on their way were made for another.
Orphans == [s \in Slots |-> [flight[s] EXCEPT !.stale = Busy(s)]]
Renew(asks) ==
  /\ users' = {} /\ loading' = asks /\ next' = 0
  /\ failed' = FALSE /\ mixed' = FALSE /\ strangers' = {} /\ ghosts' = {} /\ dropped' = {}

\* openReactionsModal: fields afresh, and the first page.
Open(m, e, s) ==
  /\ ~open
  /\ open' = TRUE /\ message' = m /\ emoji' = e
  /\ Renew(TRUE)
  /\ Ask(s, Orphans, m, e, 0)
  /\ UNCHANGED serverVars

Close ==
  /\ open /\ open' = FALSE
  /\ Renew(FALSE)
  /\ UNCHANGED <<message, emoji, flight, serverVars>>

\* selectReactionTab; fetchReactionUsers does nothing while a page is loading.
Select(e, s) ==
  /\ open /\ e # emoji /\ emoji' = e
  /\ Renew(TRUE)
  /\ IF loading THEN flight' = Orphans
     ELSE Ask(s, Orphans, message, e, 0)
  /\ UNCHANGED <<open, message, serverVars>>

LoadMore(s) ==
  /\ open /\ ~loading /\ next # 0
  /\ loading' = TRUE
  /\ Ask(s, flight, message, emoji, next)
  /\ UNCHANGED <<open, message, emoji, users, next, serverVars, watchVars>>

-----------------------------------------------------------------------------
(* Answers. *)

\* Bad definitions are slips the code could have, each beside what it would replace.
BadCurrent(s) == open   \* no check for stale answers

\* The test an answer passes: it compares the emoji, not the message.
Current(s) == open /\ flight[s].for.emoji = emoji

BadPut(a, page) ==   \* a later page replaces the list as well
  users' = {Row(a.message, a.emoji, u) : u \in page}

\* The first page replaces the list, of a later one those are appended who are
\* not in it.
Put(a, page) ==
  users' = IF a.after = 0 THEN {Row(a.message, a.emoji, u) : u \in page}
           ELSE users \cup {Row(a.message, a.emoji, u) : u \in page \ Names}

\* A stale answer is ignored, and loading stays as it is.  A full page has
\* has_more set.
Answer(s) ==
  /\ flight[s].step = "answered"
  /\ IF Current(s)
     THEN /\ Put(flight[s].for, flight[s].page)
          /\ next' = IF Cardinality(flight[s].page) = PageSize THEN Max(flight[s].page) ELSE 0
          /\ loading' = FALSE
          /\ mixed' = (mixed \/ flight[s].stale)
     ELSE UNCHANGED <<users, next, loading, mixed>>
  /\ flight' = [flight EXCEPT ![s] = Idle]
  /\ UNCHANGED <<open, message, emoji, serverVars, failed, strangers, ghosts, dropped>>

\* Whatever the list shows by now.
Fail(s) ==
  /\ Busy(s)
  /\ loading' = FALSE
  /\ failed' = open
  /\ flight' = [flight EXCEPT ![s] = Idle]
  /\ UNCHANGED <<open, message, emoji, users, next, serverVars, mixed, strangers, ghosts, dropped>>

-----------------------------------------------------------------------------
(* Events. *)

\* reactionsModalApplyAdd appends a user the client has met, in whatever list
\* or message.
Add(r) ==
  IF r.user \in Names THEN UNCHANGED <<users, strangers>>
  ELSE \/ users' = users \cup {r} /\ UNCHANGED strangers
       \/ strangers' = strangers \cup {r.user} /\ UNCHANGED users

\* reactionsModalApplyRemove.
Remove(u) == users' = {r \in users : r.user # u}

\* What is told of a user settles what was wrong about him.
Settled(u) == ghosts' = ghosts \ {u} /\ dropped' = dropped \ {u}

\* A row's button takes the row away at once, and nothing brings it back when the
\* request fails.  The server handles the request as any reaction taken back.
Drop(u) ==
  /\ open /\ u \in Names
  /\ Remove(u)
  /\ ghosts' = ghosts \ {u} /\ dropped' = dropped \cup {u}
  /\ UNCHANGED <<open, message, emoji, loading, next, flight, serverVars, failed, mixed, strangers>>

\* _REMOVE_EMOJI leaves the list; when the chip is gone with it the component
\* chooses another tab or closes the list, which may happen at any time here.
Tell ==
  /\ told # <<>>
  /\ told' = Tail(told)
  /\ LET r == Head(told).row
     IN  /\ flight' = [s \in Slots |->
                IF Busy(s) /\ flight[s].for.message = r.message /\ flight[s].for.emoji = r.emoji
                THEN Aged(flight[s]) ELSE flight[s]]
         /\ IF open /\ message = r.message /\ emoji = r.emoji
            THEN \/ Head(told).op = "add" /\ Add(r) /\ Settled(r.user)
                 \/ Head(told).op = "remove" /\ Remove(r.user) /\ Settled(r.user) /\ UNCHANGED strangers
                 \/ /\ Head(told).op = "clear" /\ ghosts' = ghosts \cup Names
                    /\ UNCHANGED <<users, strangers, dropped>>
            ELSE UNCHANGED <<users, strangers, ghosts, dropped>>
  /\ UNCHANGED <<open, message, emoji, loading, next, reacted, reactions, failed, mixed>>

-----------------------------------------------------------------------------
(* The server (external). *)

\* The users after a given one, in the order of their ids.
Page(a) ==
  LET later == {u \in reacted[a.message][a.emoji] : u > a.after}
  IN  {u \in later : Cardinality({w \in later : w < u}) < PageSize}

Serve(s) ==
  /\ flight[s].step = "asked"
  /\ flight' = [flight EXCEPT ![s] = [@ EXCEPT !.step = "answered", !.page = Page(flight[s].for)]]
  /\ UNCHANGED <<fieldVars, serverVars, watchVars>>

React(m, e, u) ==
  /\ reactions < MaxReactions
  /\ reactions' = reactions + 1
  /\ \/ /\ u \notin reacted[m][e]
        /\ reacted' = [reacted EXCEPT ![m][e] = @ \cup {u}]
        /\ told' = Append(told, [op |-> "add", row |-> Row(m, e, u)])
     \/ /\ u \in reacted[m][e]
        /\ reacted' = [reacted EXCEPT ![m][e] = @ \ {u}]
        /\ told' = Append(told, [op |-> "remove", row |-> Row(m, e, u)])
  /\ UNCHANGED <<fieldVars, flight, watchVars>>

\* A moderator clears an emoji.  MESSAGE_REACTION_REMOVE_ALL does it to each: the
\* list follows neither.
Clear(m, e) ==
  /\ reactions < MaxReactions
  /\ reactions' = reactions + 1
  /\ reacted[m][e] # {}
  /\ reacted' = [reacted EXCEPT ![m][e] = {}]
  /\ told' = Append(told, [op |-> "clear", row |-> Row(m, e, 0)])
  /\ UNCHANGED <<fieldVars, flight, watchVars>>

-----------------------------------------------------------------------------
Init ==
  /\ open = FALSE /\ message \in Messages /\ emoji \in Emojis
  /\ users = {} /\ loading = FALSE /\ next = 0
  /\ flight = [s \in Slots |-> Idle]
  /\ reacted \in [Messages -> [Emojis -> SUBSET Reactors]] /\ reactions = 0 /\ told = <<>>
  /\ failed = FALSE /\ mixed = FALSE /\ strangers = {} /\ ghosts = {} /\ dropped = {}

Next ==
  \/ \E s \in Slots :
       \/ \E m \in Messages, e \in Emojis : Open(m, e, s)
       \/ \E e \in Emojis : Select(e, s)
       \/ LoadMore(s) \/ Serve(s) \/ Answer(s) \/ Fail(s)
  \/ \E m \in Messages, e \in Emojis, u \in Reactors : React(m, e, u)
  \/ \E m \in Messages, e \in Emojis : Clear(m, e)
  \/ \E u \in Reactors : Drop(u)
  \/ Close \/ Tell

Spec == Init /\ [][Next]_vars

-----------------------------------------------------------------------------
(* Properties. *)

Rows == [message : Messages, emoji : Emojis, user : Reactors]
Requested ==
  [step : {"asked", "answered"}, page : SUBSET Reactors, stale : BOOLEAN,
   for : [message : Messages, emoji : Emojis, after : Reactors \cup {0}]]
Told == [op : {"add", "remove"}, row : Rows]
        \cup [op : {"clear"}, row : [message : Messages, emoji : Emojis, user : {0}]]

\* Every variable has its type; the one type invariant of this module.
TypeOK ==
  /\ open \in BOOLEAN /\ message \in Messages /\ emoji \in Emojis
  /\ users \subseteq Rows /\ loading \in BOOLEAN /\ next \in Reactors \cup {0}
  /\ flight \in [Slots -> {Idle} \cup Requested]
  /\ reacted \in [Messages -> [Emojis -> SUBSET Reactors]] /\ reactions \in 0..MaxReactions
  /\ told \in Seq(Told)
  /\ failed \in BOOLEAN /\ mixed \in BOOLEAN /\ {strangers, ghosts, dropped} \subseteq SUBSET Reactors

\* Whatever tabs were chosen while pages were on their way, the list holds only
\* those who reacted with the emoji chosen now.
OfThisEmoji == open => \A r \in users : r.emoji = emoji

\* Once the last page, and all answers and events are in, the list names those
\* who reacted and nobody else: over pages and events in any order, unless a
\* request failed, or a page was applied that was asked for by an earlier list or
\* was older than an event.  But for users of whom nothing was known, for those
\* in the list when their reactions were cleared, and for those whose row was
\* taken away here while the server has told nothing of it.
ReactorsAgreeUnlessRaced ==
  /\ open /\ ~loading /\ next = 0 /\ told = <<>> /\ ~failed /\ ~mixed
  /\ \A s \in Slots : ~Busy(s)
  => /\ Names \ ghosts \subseteq reacted[message][emoji]
     /\ reacted[message][emoji] \ (strangers \cup dropped) \subseteq Names

-----------------------------------------------------------------------------
(* Sentences of the code's docs and comments that this model refutes.  No    *)
(* run checks them; README.md says what the code does instead.              *)

\* "Ignore stale responses after tab switch / close": the list holds only those
\* who reacted to the message it is open for.
OfThisMessage == open => \A r \in users : r.message = message

\* "Switch the selected emoji tab: reset the list and fetch its first page":
\* when nothing is on its way and nothing failed, the list is not loading.
FirstPageIsFetched ==
  open /\ ~failed /\ (\A s \in Slots : ~Busy(s)) => ~loading
=============================================================================
