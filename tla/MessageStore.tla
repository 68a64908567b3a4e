---------------------------- MODULE MessageStore ----------------------------
(***************************************************************************)
(* The rows of one channel in MessagesStore (web/src/stores.ts): the       *)
(* optimistic send and its placeholder, the answers of REST requests and   *)
(* the events of the gateway, which come in any order relative to each     *)
(* other, and the pages of history that replace or extend the rows.        *)
(*                                                                         *)
(* A message's id is its place in the server's log, so ids grow with time; *)
(* id 0 is a placeholder's.  A nonce is the number of the send it belongs  *)
(* to, 0 for a message with none.  Edits, pins and read states are left    *)
(* out; Reactions has the reactions.                                       *)
(***************************************************************************)
EXTENDS Naturals, Sequences, FiniteSets, SequencesExt, FiniteSetsExt, Lists

CONSTANTS
  Loads,        \* loads of the channel that can be in flight at one time
  Old,          \* messages in the channel when it is opened
  Limit,        \* messages in a page of history (50 in the code)
  MaxMessages,  \* bound: messages in the channel
  MaxSends      \* bound: sends, retries included, and messages deleted, together

VARIABLES
  \* the store
  rows,      \* byChannel
  loaded,    \* whether the channel is in `loaded'
  load,      \* load[l]: a load on its way
  more,      \* the loadMore on its way
  sends,     \* sends[n]: "unused", "waiting", "ok", "failed", "dropped"
  deletes,   \* messages whose own delete is on its way
  \* the server
  log,       \* log[id]: the nonce message id was sent with
  gone,      \* deleted messages
  events,    \* gateway events on their way
  \* observers
  hidden,    \* messages the user took out of the rows that the server still has
  raced,     \* events were lost, a page replaced rows that were newer than it, or
             \* an answer appended a message older than the rows
  overlap    \* an older page brought a message whose placeholder was in the rows

storeVars == <<rows, loaded, load, more, sends, deletes>>
serverVars == <<log, gone, events>>
vars == <<storeVars, serverVars, hidden, raced, overlap>>

Sends == 1..MaxSends
Ids == 1..MaxMessages
Row(id, nonce, state) == [id |-> id, nonce |-> nonce, state |-> state]
RowType == [id : 0..MaxMessages, nonce : 0..MaxSends, state : {"none", "sending", "failed"}]

Idle == [step |-> "idle", before |-> 0, page |-> <<>>, stale |-> FALSE]
Shown == {rows[i].id : i \in DOMAIN rows} \ {0}
Live == (1..Len(log)) \ gone
Removed == gone \cup deletes \cup hidden

\* Whether messages ids may be deleted.
Allowed(ids) ==
  Cardinality({n \in Sends : sends[n] # "unused"}) + Cardinality(Removed \cup ids) <= MaxSends

\* findIndex: the first row that passes the test, 0 when none does.
First(Test(_)) ==
  LET found == {i \in DOMAIN rows : Test(rows[i])}
  IN  IF found = {} THEN 0 ELSE Min(found)

Unsent(n) == First(LAMBDA r : r.nonce = n /\ r.state # "none")
Real(id) == First(LAMBDA r : r.id = id /\ r.state = "none")

\* A page: the newest messages below `before', oldest first.
Page(before) ==
  LET below == {id \in Live : id < before}
      newest == {id \in below : Cardinality({j \in below : j > id}) < Limit}
  IN  Ascending(newest)

\* The rows of a page: history carries no nonces.
Listed(page) == [i \in DOMAIN page |-> Row(page[i], 0, "none")]

-----------------------------------------------------------------------------
(* load and loadMore. *)

\* openChannel, or loadMore of an empty list, while the channel is not loaded.
AskLoad(l) ==
  /\ ~loaded /\ load[l].step = "idle"
  /\ load' = [load EXCEPT ![l] = [Idle EXCEPT !.step = "asked"]]
  /\ UNCHANGED <<rows, loaded, more, sends, deletes, serverVars, hidden, raced, overlap>>

\* The answer replaces the rows, whatever has come into them since.
ApplyLoad(l) ==
  /\ load[l].step = "answered"
  /\ rows' = Listed(load[l].page)
  /\ loaded' = TRUE
  /\ raced' = (raced \/ load[l].stale)
  /\ load' = [load EXCEPT ![l] = Idle]
  /\ more' = [more EXCEPT !.stale = more.step # "idle"]
  /\ UNCHANGED <<sends, deletes, serverVars, hidden, overlap>>

FailLoad(l) ==
  /\ load[l].step # "idle"
  /\ load' = [load EXCEPT ![l] = Idle]
  /\ UNCHANGED <<rows, loaded, more, sends, deletes, serverVars, hidden, raced, overlap>>

\* The first row is the cursor, be it a placeholder.
AskMore ==
  /\ more.step = "idle" /\ rows # <<>>
  /\ more' = [Idle EXCEPT !.step = "asked", !.before = rows[1].id]
  /\ UNCHANGED <<rows, loaded, load, sends, deletes, serverVars, hidden, raced, overlap>>

Overlaps(page) == \E id \in Range(page) : log[id] # 0 /\ Unsent(log[id]) # 0

\* Bad definitions are slips the code could have, each beside what it would replace.
BadApplyOlder ==   \* the rows there are forgotten
  /\ more.step = "answered"
  /\ rows' = Listed(more.page)
  /\ raced' = (raced \/ more.stale)
  /\ more' = Idle
  /\ overlap' = (overlap \/ Overlaps(more.page))
  /\ UNCHANGED <<loaded, load, sends, deletes, serverVars, hidden>>

\* Messages that are there already are not prepended again.
ApplyMore ==
  /\ more.step = "answered"
  /\ rows' = Listed(Kept(more.page, Ids \ Shown)) \o rows
  /\ raced' = (raced \/ more.stale)
  /\ more' = Idle
  /\ overlap' = (overlap \/ Overlaps(more.page))
  /\ UNCHANGED <<loaded, load, sends, deletes, serverVars, hidden>>

\* The request fails, as one whose cursor is a placeholder's id does.
FailMore ==
  /\ more.step # "idle"
  /\ more' = Idle
  /\ UNCHANGED <<rows, loaded, load, sends, deletes, serverVars, hidden, raced, overlap>>

-----------------------------------------------------------------------------
(* send, reconcilePending, retry, dropPending, delete. *)

Place(n, list) ==
  /\ sends[n] = "unused" /\ \A k \in 1..(n - 1) : sends[k] # "unused"
  /\ n + Cardinality(Removed) <= MaxSends
  /\ rows' = Append(list, Row(0, n, "sending"))

Send(n) ==
  /\ Place(n, rows)
  /\ sends' = [sends EXCEPT ![n] = "waiting"]
  /\ UNCHANGED <<loaded, load, more, deletes, serverVars, hidden, raced, overlap>>

\* reconcilePending with the answer: the placeholder becomes the message, or
\* goes when the message is there; without one the message is appended.
Reconcile(n, id) ==
  LET p == Unsent(n) IN
  CASE p # 0 /\ Real(id) \notin {0, p} -> rows' = RemoveAt(rows, p)
    [] p # 0 /\ Real(id) \in {0, p} -> rows' = [rows EXCEPT ![p] = Row(id, n, "none")]
    [] p = 0 /\ Real(id) = 0 -> rows' = Append(rows, Row(id, n, "none"))
    [] OTHER -> UNCHANGED rows

\* The answer is for a message that neither placeholder nor row is left of,
\* and that is older than what is shown, or was before it was deleted.
Belated(n, id) ==
  /\ Unsent(n) = 0 /\ Real(id) = 0
  /\ \E other \in Shown \cup Removed : other > id

Confirm(n) ==
  /\ sends[n] = "waiting"
  /\ \E id \in DOMAIN log :
       log[id] = n /\ Reconcile(n, id) /\ raced' = (raced \/ Belated(n, id))
  /\ sends' = [sends EXCEPT ![n] = "ok"]
  /\ UNCHANGED <<loaded, load, more, deletes, serverVars, hidden, overlap>>

\* An error or a timeout, though the server may have the message or yet get
\* it: the first row with the nonce is marked.
Fail(n) ==
  LET i == First(LAMBDA r : r.nonce = n) IN
  /\ sends[n] = "waiting"
  /\ sends' = [sends EXCEPT ![n] = "failed"]
  /\ IF i = 0 THEN UNCHANGED rows ELSE rows' = [rows EXCEPT ![i].state = "failed"]
  /\ UNCHANGED <<loaded, load, more, deletes, serverVars, hidden, raced, overlap>>

Without(n) == Kept(rows, {r \in Range(rows) : r.nonce # n})

\* Retry of a failed row: only a placeholder keeps what is needed for it.
Retry(n, again) ==
  /\ \E i \in DOMAIN rows : rows[i] = Row(0, n, "failed")
  /\ Place(again, Without(n))
  /\ sends' = [sends EXCEPT ![n] = "dropped", ![again] = "waiting"]
  /\ UNCHANGED <<loaded, load, more, deletes, serverVars, hidden, raced, overlap>>

\* Delete of a failed row.
DropPending(n) ==
  /\ \E i \in DOMAIN rows : rows[i].nonce = n /\ rows[i].state = "failed"
  /\ rows' = Without(n)
  /\ sends' = [sends EXCEPT ![n] = "dropped"]
  /\ hidden' = hidden \cup ({rows[i].id : i \in {j \in DOMAIN rows : rows[j].nonce = n}} \ {0})
  /\ UNCHANGED <<loaded, load, more, deletes, serverVars, raced, overlap>>

Delete(id) ==
  /\ Real(id) # 0 /\ Allowed({id})
  /\ rows' = Kept(rows, {r \in Range(rows) : r.id # id})
  /\ deletes' = deletes \cup {id}
  /\ UNCHANGED <<loaded, load, more, sends, serverVars, hidden, raced, overlap>>

\* The row does not come back when the request fails.
FailDelete(id) ==
  /\ id \in deletes
  /\ deletes' = deletes \ {id}
  /\ hidden' = hidden \cup {id}
  /\ UNCHANGED <<rows, loaded, load, more, sends, serverVars, raced, overlap>>

-----------------------------------------------------------------------------
(* Gateway events. *)

\* A page on its way becomes older than the rows.
Outdate ==
  /\ load' = [l \in Loads |-> [load[l] EXCEPT !.stale = @ \/ load[l].step = "answered"]]
  /\ more' = [more EXCEPT !.stale = @ \/ more.step = "answered"]

IsNext(kind) == events # <<>> /\ Head(events).kind = kind

BadApplyCreate ==   \* the nonce is not looked at
  /\ IsNext("create")
  /\ LET id == Head(events).id
     IN  rows' = IF id \in Shown THEN rows ELSE Append(rows, Row(id, log[id], "none"))
  /\ events' = Tail(events)
  /\ Outdate
  /\ UNCHANGED <<loaded, sends, deletes, log, gone, hidden, raced, overlap>>

\* applyMessageCreate: the placeholder with the nonce becomes the message,
\* which otherwise is appended unless it is there.
ApplyCreate ==
  /\ IsNext("create")
  /\ LET id == Head(events).id
         p == IF log[id] = 0 THEN 0 ELSE Unsent(log[id])
         row == Row(id, log[id], "none")
     IN  rows' = CASE p # 0 -> [rows EXCEPT ![p] = row]
                   [] p = 0 /\ id \notin Shown -> Append(rows, row)
                   [] OTHER -> rows
  /\ events' = Tail(events)
  /\ Outdate
  /\ UNCHANGED <<loaded, sends, deletes, log, gone, hidden, raced, overlap>>

ApplyDelete ==
  /\ IsNext("delete")
  /\ rows' = Kept(rows, {r \in Range(rows) : r.id # Head(events).id})
  /\ events' = Tail(events)
  /\ Outdate
  /\ UNCHANGED <<loaded, sends, deletes, log, gone, hidden, raced, overlap>>

-----------------------------------------------------------------------------
(* The server (external). *)

\* A request that was sent may arrive, even after the client gave up on it.
Accept(n) ==
  /\ Len(log) < MaxMessages
  /\ n # 0 => sends[n] \notin {"unused", "ok"} /\ n \notin Range(log)
  /\ log' = Append(log, n)
  /\ events' = Append(events, [kind |-> "create", id |-> Len(log) + 1])
  /\ UNCHANGED <<storeVars, gone, hidden, raced, overlap>>

\* Someone deletes a message, or the user's own delete arrives.
SrvDelete(id) ==
  /\ id \in Live /\ Allowed({id})
  /\ gone' = gone \cup {id}
  /\ deletes' = deletes \ {id}
  /\ events' = Append(events, [kind |-> "delete", id |-> id])
  /\ UNCHANGED <<rows, loaded, load, more, sends, log, hidden, raced, overlap>>

ServeLoad(l) ==
  /\ load[l].step = "asked"
  /\ load' = [load EXCEPT ![l] = [Idle EXCEPT !.step = "answered", !.page = Page(Len(log) + 1)]]
  /\ UNCHANGED <<rows, loaded, more, sends, deletes, serverVars, hidden, raced, overlap>>

ServeMore ==
  /\ more.step = "asked" /\ more.before # 0
  /\ more' = [more EXCEPT !.step = "answered", !.page = Page(more.before)]
  /\ UNCHANGED <<rows, loaded, load, sends, deletes, serverVars, hidden, raced, overlap>>

\* The gateway starts a new session; what was on its way is not sent again.
LoseEvents ==
  /\ events # <<>>
  /\ events' = <<>>
  /\ raced' = TRUE
  /\ UNCHANGED <<storeVars, log, gone, hidden, overlap>>

-----------------------------------------------------------------------------
\* The user has just opened the channel.
Init ==
  /\ rows = <<>> /\ loaded = FALSE
  /\ load \in {[l \in Loads |-> IF l = k THEN [Idle EXCEPT !.step = "asked"] ELSE Idle] :
                 k \in Loads}
  /\ more = Idle /\ sends = [n \in Sends |-> "unused"] /\ deletes = {}
  /\ log = [id \in 1..Old |-> 0] /\ gone = {} /\ events = <<>>
  /\ hidden = {} /\ raced = FALSE /\ overlap = FALSE

Next ==
  \/ \E l \in Loads : AskLoad(l) \/ ServeLoad(l) \/ ApplyLoad(l) \/ FailLoad(l)
  \/ AskMore \/ ServeMore \/ ApplyMore \/ FailMore
  \/ \E n \in Sends : Send(n) \/ Confirm(n) \/ Fail(n) \/ DropPending(n)
  \/ \E n, again \in Sends : Retry(n, again)
  \/ \E n \in {0} \cup Sends : Accept(n)
  \/ \E id \in Ids : Delete(id) \/ FailDelete(id) \/ SrvDelete(id)
  \/ ApplyCreate \/ ApplyDelete \/ LoseEvents

Spec == Init /\ [][Next]_vars

-----------------------------------------------------------------------------
(* Properties. *)

\* Types, and a row is shown as being sent only while its request is on its way.
TypeOK ==
  /\ rows \in Seq(RowType)
  /\ \A r \in Range(rows) : r.state = "sending" => sends[r.nonce] = "waiting"
  /\ loaded \in BOOLEAN
  /\ \A r \in Range(load) \cup {more} :
       /\ r.step \in {"idle", "asked", "answered"}
       /\ r.before \in 0..MaxMessages /\ r.page \in Seq(Ids) /\ r.stale \in BOOLEAN
  /\ sends \in [Sends -> {"unused", "waiting", "ok", "failed", "dropped"}]
  /\ log \in Seq(0..MaxSends) /\ Len(log) <= MaxMessages
  /\ gone \subseteq Ids /\ deletes \subseteq Ids
  /\ events \in Seq([kind : {"create", "delete"}, id : Ids])
  /\ hidden \subseteq Ids
  /\ raced \in BOOLEAN /\ overlap \in BOOLEAN

\* The send a row stands for, by its nonce or by its message.
SendOf(r) == IF r.id = 0 THEN r.nonce ELSE log[r.id]

\* "whichever arrives first can replace the placeholder without double-
\* inserting": no message has two rows, nor has a send.
NoDoubleInsert ==
  \A i, j \in DOMAIN rows : i # j =>
    /\ rows[i].id = rows[j].id => rows[i].id = 0
    /\ SendOf(rows[i]) = SendOf(rows[j]) => SendOf(rows[i]) = 0

\* Whichever of answer, echo and page comes first, however a send is retried
\* and whatever is lost, no message and no send has two rows, unless a page of
\* older messages brought one that was still being sent (stores.ts, 686-690).
NoDoubleInsertUnlessOverlap == ~overlap => NoDoubleInsert

Quiet == events = <<>> /\ more = Idle /\ (\A l \in Loads : load[l] = Idle) /\ deletes = {}

\* When nothing is on its way, the rows of a loaded channel have no gap: from
\* the oldest on every message is there that the user did not take out, unless
\* events were lost, a page was outdated when it was applied, or the answer of a
\* send whose placeholder a page had replaced came behind newer messages.
NoGapUnlessRaced ==
  loaded /\ Quiet /\ ~raced =>
    \A id \in Live : (\E old \in Shown : old < id) => id \in Shown \cup hidden

-----------------------------------------------------------------------------
(* Sentences of the code's docs and comments that this model refutes.  No    *)
(* run checks them; README.md says what the code does instead.              *)

\* What types.ts 361-362 says of _state: "Absent on confirmed (server) messages".
ConfirmedHaveNoState == \A i \in DOMAIN rows : rows[i].id # 0 => rows[i].state = "none"

\* "If the gateway already reconciled it, this is a no-op": the answer of a send
\* whose echo was applied leaves the rows alone.
Echoed(id) == ~raced /\ \A k \in DOMAIN events : events[k].kind = "create" => events[k].id > id
AnswerAfterEchoIsNoOp ==
  [][\A n \in Sends : Confirm(n) /\ (\E id \in DOMAIN log : log[id] = n /\ Echoed(id))
       => UNCHANGED rows]_vars

\* "oldest-first": the messages of the rows are in the order of their ids.
OldestFirst ==
  \A i, j \in DOMAIN rows : i < j /\ rows[i].id # 0 /\ rows[j].id # 0 => rows[i].id < rows[j].id

\* "Mark the placeholder FAILED so the row shows a retry affordance": a send that
\* failed has a row until the user retries or discards it.
FailedIsOffered ==
  \A n \in Sends : sends[n] = "failed" /\ n \notin Range(log) =>
    \E i \in DOMAIN rows : rows[i].nonce = n /\ rows[i].state = "failed"
==============================================================================
