------------------------- MODULE ScheduledMessages -------------------------
(***************************************************************************)
(* The messages the user scheduled: ScheduledMessagesStore                 *)
(* (web/src/stores.ts), the pane that fetches and cancels them and the     *)
(* composer that schedules and edits them.  No gateway event speaks of     *)
(* them: the store learns of a change from the answer of its own request   *)
(* or from a fetch.  The order of the list, by delivery time, is left out. *)
(***************************************************************************)
EXTENDS Naturals, FiniteSets, Fetch

CONSTANTS
  Drafts,       \* the messages that may be scheduled
  PaneFetches,  \* fetches that can be in flight at one time
  MaxVersion    \* bound: changes of one message

VARIABLES
  \* the store
  list,       \* list[d]: the version of d in the list, 0 when it is not there
  listed,     \* fetched
  fetching,
  pages,      \* pages[f]: a listScheduledMessages on its way
  answers,    \* answers of schedule, edit and cancel requests on their way
  \* the server
  queue,      \* queue[d]: its version, 0 when it is not queued
  clock,      \* clock[d]: changes of d so far
  \* observers
  delivered,  \* messages the server has sent
  doubtful    \* messages whose answer was lost or came after a later one's, and
              \* all of them when the list was replaced by a page older than it

listVars  == <<list, listed, fetching, pages, answers>>
queueVars == <<queue, clock>>
vars == <<listVars, queueVars, delivered, doubtful>>

Answers  == [op : {"put", "cancel"}, d : Drafts, v : 1..MaxVersion]

-----------------------------------------------------------------------------
(* fetch. *)

MayFetch == ~listed /\ ~fetching

\* The pane is opened.
OpenPane(f) ==
  /\ MayFetch /\ pages[f].step = "idle"
  /\ fetching' = TRUE
  /\ pages' = [pages EXCEPT ![f] = Asked]
  /\ UNCHANGED <<list, listed, answers, queueVars, delivered, doubtful>>

ServePage(f) ==
  /\ pages[f].step = "asked"
  /\ pages' = [pages EXCEPT ![f] = Answered({[d |-> d, v |-> queue[d]] : d \in {e \in Drafts : queue[e] # 0}})]
  /\ UNCHANGED <<list, listed, fetching, answers, queueVars, delivered, doubtful>>

ApplyPage(f) ==
  /\ pages[f].step = "answered"
  /\ list' = [d \in Drafts |-> IF \E e \in pages[f].page : e.d = d
                               THEN (CHOOSE e \in pages[f].page : e.d = d).v ELSE 0]
  /\ listed' = TRUE /\ fetching' = FALSE
  /\ pages' = [pages EXCEPT ![f] = Idle]
  /\ doubtful' = IF pages[f].stale THEN Drafts ELSE {}
  /\ UNCHANGED <<answers, queueVars, delivered>>

FailPage(f) ==
  /\ pages[f].step # "idle"
  /\ list' = [d \in Drafts |-> 0]
  /\ listed' = FALSE /\ fetching' = FALSE
  /\ pages' = [pages EXCEPT ![f] = Idle]
  /\ UNCHANGED <<answers, queueVars, delivered, doubtful>>

-----------------------------------------------------------------------------
(* submitSchedule of the composer and cancel of a card. *)

\* The server carries out a request; its answer is on the way, or lost.  Nothing
\* changes here before the answer, so that asking and carrying out are one
\* step, and a refused request is none.
Reply(op, d) ==
  \/ /\ answers' = answers \cup {[op |-> op, d |-> d, v |-> clock'[d]]}
     /\ UNCHANGED <<pages, doubtful>>
  \/ /\ doubtful' = doubtful \cup {d}
     /\ pages' = AllAged(pages)
     /\ UNCHANGED answers

\* A new message, or the edit of one that is queued.
Submit(d) ==
  /\ clock[d] = 0 \/ (queue[d] # 0 /\ clock[d] < MaxVersion)
  /\ clock' = [clock EXCEPT ![d] = @ + 1]
  /\ queue' = [queue EXCEPT ![d] = clock'[d]]
  /\ Reply("put", d)
  /\ UNCHANGED <<list, listed, fetching, delivered>>

Cancel(d) ==
  /\ queue[d] # 0 /\ clock[d] < MaxVersion
  /\ clock' = [clock EXCEPT ![d] = @ + 1]
  /\ queue' = [queue EXCEPT ![d] = 0]
  /\ Reply("cancel", d)
  /\ UNCHANGED <<list, listed, fetching, delivered>>

BadUpsert(a) ==   \* an entry that is there already is left as it is
  list' = [list EXCEPT ![a.d] = IF a.op = "cancel" THEN 0 ELSE IF @ # 0 THEN @ ELSE a.v]

\* upsert, or remove.
Upsert(a) == list' = [list EXCEPT ![a.d] = IF a.op = "cancel" THEN 0 ELSE a.v]

\* A later change of d has been answered already.
Overtaken(a) == clock[a.d] > a.v /\ ~\E b \in answers : b.d = a.d /\ b.v > a.v

Accept(a) ==
  /\ a \in answers
  /\ Upsert(a)
  /\ answers' = answers \ {a}
  /\ pages' = AllAged(pages)
  /\ doubtful' = IF Overtaken(a) THEN doubtful \cup {a.d} ELSE doubtful
  /\ UNCHANGED <<listed, fetching, queueVars, delivered>>

-----------------------------------------------------------------------------
\* The status "connected" after another one resets the store, whatever is on
\* its way.
Reset ==
  /\ listed \/ fetching \/ \E d \in Drafts : list[d] # 0
  /\ list' = [d \in Drafts |-> 0]
  /\ listed' = FALSE /\ fetching' = FALSE
  /\ UNCHANGED <<pages, answers, queueVars, delivered, doubtful>>

\* The time of a message has come (external): it arrives as any message does,
\* and nothing takes it off the list.
Deliver(d) ==
  /\ queue[d] # 0
  /\ queue' = [queue EXCEPT ![d] = 0]
  /\ delivered' = delivered \cup {d}
  /\ UNCHANGED <<listVars, clock, doubtful>>

Init ==
  /\ list = [d \in Drafts |-> 0] /\ listed = FALSE /\ fetching = FALSE
  /\ pages = [f \in PaneFetches |-> Idle] /\ answers = {}
  /\ queue \in [Drafts -> 0..1] /\ clock = queue
  /\ delivered = {} /\ doubtful = {}

Next ==
  \/ \E f \in PaneFetches : OpenPane(f) \/ ServePage(f) \/ ApplyPage(f) \/ FailPage(f)
  \/ \E d \in Drafts : Submit(d) \/ Cancel(d) \/ Deliver(d)
  \/ \E a \in answers : Accept(a)
  \/ Reset

Spec == Init /\ [][Next]_vars

-----------------------------------------------------------------------------
(* Properties. *)

\* Every variable has its type; the one type invariant of this module.
TypeOK ==
  /\ list \in [Drafts -> 0..MaxVersion] /\ listed \in BOOLEAN /\ fetching \in BOOLEAN
  /\ pages \in [PaneFetches -> Slot(SUBSET [d : Drafts, v : 1..MaxVersion])]
  /\ answers \subseteq Answers
  /\ queue \in [Drafts -> 0..MaxVersion] /\ clock \in [Drafts -> 0..MaxVersion]
  /\ delivered \subseteq Drafts /\ doubtful \subseteq Drafts

Agrees(d) ==
  /\ queue[d] # 0 => list[d] = queue[d]
  /\ queue[d] = 0 /\ list[d] # 0 => d \in delivered

\* Once all answers are in, the fetched list holds every message that is still
\* queued, as it was last edited, and of the others only some that were sent:
\* across resets with fetches on their way and answers in any order, but for
\* messages whose answer was lost or overtaken, and unless a page older than
\* the list took its place.
ScheduledAgreeUnlessRaced ==
  listed /\ answers = {} => \A d \in Drafts \ doubtful : Agrees(d)

-----------------------------------------------------------------------------
(* Sentences of the code's docs and comments that this model refutes.  No    *)
(* run checks them; README.md says what the code does instead.              *)

\* "pending server-side deliveries": no message stays listed that was sent.
OnlyPending == listed /\ answers = {} => \A d \in Drafts : list[d] # 0 => queue[d] # 0
==============================================================================
