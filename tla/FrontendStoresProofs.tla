------------------------ MODULE FrontendStoresProofs ------------------------
(***************************************************************************)
(* Theorems about FrontendStores, for every value of its constants and     *)
(* however many requests are on their way.                                 *)
(***************************************************************************)
EXTENDS FrontendStores, Lists, Integers, Sequences, FiniteSets, FiniteSetTheorems, WellFoundedInduction, TLAPS

-----------------------------------------------------------------------------
(* The list of reactors.  OfThisEmoji is inductive as it stands: a list    *)
(* begins empty, an answer and an event add rows of one emoji, and either  *)
(* is compared with the emoji that is chosen at that time.                 *)

\* A list that begins anew is empty.
LEMMA RenewKeeps ==
  ASSUME users' = {}
  PROVE  Modal!OfThisEmoji'
  BY DEF Modal!OfThisEmoji

\* An answer is put in the list when it is for the emoji that is chosen.
LEMMA AnswerKeeps ==
  ASSUME Modal!OfThisEmoji, NEW s \in Requests, Modal!Answer(s)
  PROVE  Modal!OfThisEmoji'
<1>1. open' = open /\ emoji' = emoji
  BY DEF Modal!Answer
<1>2. CASE ~Modal!Current(s)
  BY <1>1, <1>2 DEF Modal!Answer, Modal!OfThisEmoji
<1>3. CASE Modal!Current(s)
  <2>1. open /\ flight[s].for.emoji = emoji /\ Modal!Put(flight[s].for, flight[s].page)
    BY <1>3 DEF Modal!Answer, Modal!Current
  <2>2. \A r \in users' : r \in users \/ r.emoji = flight[s].for.emoji
    BY <2>1 DEF Modal!Put, Modal!Row
  <2>3. \A r \in users : r.emoji = emoji
    BY <2>1 DEF Modal!OfThisEmoji
  <2> QED BY <1>1, <2>1, <2>2, <2>3 DEF Modal!OfThisEmoji
<1> QED BY <1>2, <1>3

\* An event adds a row of its own emoji, which is compared with the chosen one,
\* or takes rows away.
LEMMA TellKeeps ==
  ASSUME Modal!OfThisEmoji, Modal!Tell
  PROVE  Modal!OfThisEmoji'
<1> DEFINE r == Head(told).row
<1>1. open' = open /\ emoji' = emoji
  BY DEF Modal!Tell
<1>2. CASE open /\ message = r.message /\ emoji = r.emoji
  <2>1. Modal!Add(r) \/ Modal!Remove(r.user) \/ UNCHANGED users
    BY <1>2 DEF Modal!Tell
  <2>2. CASE Modal!Add(r)
    <3>1. users' \subseteq users \cup {r}
      BY <2>2 DEF Modal!Add
    <3> QED BY <1>1, <1>2, <3>1 DEF Modal!OfThisEmoji
  <2>3. CASE Modal!Remove(r.user) \/ UNCHANGED users
    <3>1. users' \subseteq users
      BY <2>3 DEF Modal!Remove
    <3> QED BY <1>1, <1>2, <3>1 DEF Modal!OfThisEmoji
  <2> QED BY <2>1, <2>2, <2>3
<1>3. CASE ~(open /\ message = r.message /\ emoji = r.emoji)
  <2>1. UNCHANGED users
    BY <1>3 DEF Modal!Tell
  <2> QED BY <1>1, <2>1 DEF Modal!OfThisEmoji
<1> QED BY <1>2, <1>3

\* Every step keeps the list to the chosen emoji.
LEMMA StepKeeps ==
  ASSUME Modal!OfThisEmoji, Modal!Next
  PROVE  Modal!OfThisEmoji'
<1>1. ASSUME NEW s \in Requests, NEW m \in Messages, NEW e \in Emojis, Modal!Open(m, e, s)
      PROVE  Modal!OfThisEmoji'
  BY <1>1, RenewKeeps DEF Modal!Open, Modal!Renew
<1>2. ASSUME NEW s \in Requests, NEW e \in Emojis, Modal!Select(e, s)
      PROVE  Modal!OfThisEmoji'
  BY <1>2, RenewKeeps DEF Modal!Select, Modal!Renew
<1>3. CASE Modal!Close
  BY <1>3, RenewKeeps DEF Modal!Close, Modal!Renew
<1>4. ASSUME NEW s \in Requests, Modal!LoadMore(s) \/ Modal!Serve(s) \/ Modal!Fail(s)
      PROVE  Modal!OfThisEmoji'
  BY <1>4 DEF Modal!LoadMore, Modal!Serve, Modal!Fail, Modal!fieldVars, Modal!OfThisEmoji
<1>5. ASSUME NEW m \in Messages, NEW e \in Emojis, NEW u \in Reactors, Modal!React(m, e, u)
      PROVE  Modal!OfThisEmoji'
  BY <1>5 DEF Modal!React, Modal!fieldVars, Modal!OfThisEmoji
<1>6. ASSUME NEW m \in Messages, NEW e \in Emojis, Modal!Clear(m, e)
      PROVE  Modal!OfThisEmoji'
  BY <1>6 DEF Modal!Clear, Modal!fieldVars, Modal!OfThisEmoji
<1>7. ASSUME NEW u \in Reactors, Modal!Drop(u)
      PROVE  Modal!OfThisEmoji'
  BY <1>7 DEF Modal!Drop, Modal!Remove, Modal!OfThisEmoji
<1> QED BY <1>1, <1>2, <1>3, <1>4, <1>5, <1>6, <1>7, AnswerKeeps, TellKeeps DEF Modal!Next

\* A step of another store leaves the list of reactors alone.
LEMMA OthersKeep ==
  ASSUME Modal!OfThisEmoji, UNCHANGED modalVars
  PROVE  Modal!OfThisEmoji'
  BY DEF Modal!OfThisEmoji, modalVars

\* Whatever tabs are chosen while pages are on their way and whatever the gateway
\* tells meanwhile, an open list holds only those who reacted with the emoji
\* chosen now (stores.ts 3060-3062, 3110-3140).
THEOREM ListIsOfTheChosenEmoji == Spec => []OfThisEmoji
<1>1. Init => OfThisEmoji
  BY DEF Init, OfThisEmoji, Modal!Init, Modal!OfThisEmoji
<1>2. OfThisEmoji /\ [Next]_vars => OfThisEmoji'
  <2> SUFFICES ASSUME Modal!OfThisEmoji, [Next]_vars
               PROVE  Modal!OfThisEmoji'
    BY DEF OfThisEmoji
  <2>1. CASE UNCHANGED modalVars
    BY <2>1, OthersKeep
  <2>2. CASE Modal!Next
    BY <2>2, StepKeeps
  <2> QED BY <2>1, <2>2 DEF Next, FetchedNext, fetchedVars, vars
<1> QED BY <1>1, <1>2, PTL DEF Spec

-----------------------------------------------------------------------------
(* The scheduled messages.  A draft that is not doubtful has an answer on  *)
(* its way, or the list has it as the server has it; and so has a page     *)
(* that is not stale.  An answer that is accepted is the last of its draft *)
(* or another one is still on its way, or the draft is doubtful.           *)

Awaited(d) == \E b \in answers : b.d = d

\* The version v of d is what the list should hold.
Fits(d, v) == /\ queue[d] # 0 => v = queue[d]
              /\ queue[d] = 0 /\ v # 0 => d \in delivered

PageOf(q) == {[d |-> d, v |-> q[d]] : d \in {e \in Drafts : q[e] # 0}}

ScheduledTypes ==
  /\ list \in [Drafts -> Nat] /\ queue \in [Drafts -> Nat] /\ clock \in [Drafts -> Nat]
  /\ pages \in [Requests -> Scheduled!Slot(SUBSET [d : Drafts, v : Nat])]
  /\ answers \subseteq [op : {"put", "cancel"}, d : Drafts, v : Nat \ {0}]
  /\ delivered \subseteq Drafts /\ doubtful \subseteq Drafts

\* The queue holds the last version, and the answer about that one tells it.
AnswersFit ==
  /\ \A d \in Drafts : queue[d] \in {0, clock[d]}
  /\ \A a \in answers : /\ a.v <= clock[a.d]
                        /\ a.v = clock[a.d] => Fits(a.d, IF a.op = "cancel" THEN 0 ELSE a.v)

PagesFit == \A f \in Requests :
  pages[f].step = "answered" /\ ~pages[f].stale =>
    \E q \in [Drafts -> Nat] : pages[f].page = PageOf(q) /\ \A d \in Drafts : Awaited(d) \/ Fits(d, q[d])

ListFits == listed => \A d \in Drafts \ doubtful : Awaited(d) \/ Fits(d, list[d])

ScheduledInv == ScheduledTypes /\ AnswersFit /\ PagesFit /\ ListFits

\* What a slot of a request may hold.
LEMMA SlotFacts ==
  ASSUME NEW P
  PROVE  /\ Scheduled!Idle \in Scheduled!Slot(SUBSET P)
         /\ Scheduled!Asked \in Scheduled!Slot(SUBSET P)
         /\ \A Q \in SUBSET P : Scheduled!Answered(Q) \in Scheduled!Slot(SUBSET P)
  BY DEF Scheduled!Idle, Scheduled!Asked, Scheduled!Answered, Scheduled!Slot

\* An aged page is stale, and has its type.
LEMMA AgedPages ==
  ASSUME ScheduledTypes
  PROVE  /\ Scheduled!AllAged(pages) \in [Requests -> Scheduled!Slot(SUBSET [d : Drafts, v : Nat])]
         /\ \A f \in Requests : LET p == Scheduled!AllAged(pages)[f] IN p.step = "answered" => p.stale
  BY DEF ScheduledTypes, Scheduled!AllAged, Scheduled!Aged, Scheduled!Slot

\* A draft is in a page with its version, or is not in it.
LEMMA PageTells ==
  ASSUME NEW q \in [Drafts -> Nat], NEW d \in Drafts
  PROVE  (IF \E e \in PageOf(q) : e.d = d THEN (CHOOSE e \in PageOf(q) : e.d = d).v ELSE 0) = q[d]
<1>1. \A e \in PageOf(q) : e.v = q[e.d] /\ q[e.d] # 0
  BY DEF PageOf
<1>2. CASE \E e \in PageOf(q) : e.d = d
  <2>1. PICK c : c = (CHOOSE e \in PageOf(q) : e.d = d)
    OBVIOUS
  <2>2. c \in PageOf(q) /\ c.d = d
    BY <1>2, <2>1
  <2> QED BY <1>1, <1>2, <2>1, <2>2
<1>3. CASE ~\E e \in PageOf(q) : e.d = d
  <2>1. ASSUME q[d] # 0
        PROVE  [d |-> d, v |-> q[d]] \in PageOf(q) /\ [d |-> d, v |-> q[d]].d = d
    BY <2>1 DEF PageOf
  <2>2. q[d] = 0
    BY <1>3, <2>1
  <2> QED BY <1>3, <2>2
<1> QED BY <1>2, <1>3

\* Asking for a page and the server's making it.
LEMMA PageStepKeeps ==
  ASSUME ScheduledInv, NEW f \in Requests, Scheduled!OpenPane(f) \/ Scheduled!ServePage(f)
  PROVE  ScheduledInv'
<1> USE DEF ScheduledInv
<1>1. /\ UNCHANGED <<list, listed, answers, queue, clock, delivered, doubtful>>
      /\ pages' = [pages EXCEPT ![f] = Scheduled!Asked] \/ pages' = [pages EXCEPT ![f] = Scheduled!Answered(PageOf(queue))]
  BY DEF Scheduled!OpenPane, Scheduled!ServePage, Scheduled!queueVars, PageOf
<1>2. PageOf(queue) \subseteq [d : Drafts, v : Nat]
  BY DEF PageOf, ScheduledTypes
<1>3. pages' \in [Requests -> Scheduled!Slot(SUBSET [d : Drafts, v : Nat])]
  <2> DEFINE P == [d : Drafts, v : Nat]
             S == Scheduled!Slot(SUBSET P)
  <2>1. Scheduled!Asked \in S /\ Scheduled!Answered(PageOf(queue)) \in S
    BY <1>2, SlotFacts
  <2>2. pages \in [Requests -> S]
    BY DEF ScheduledTypes
  <2> HIDE DEF S
  <2>3. pages' \in [Requests -> S]
    BY <1>1, <2>1, <2>2
  <2> QED BY <2>3 DEF S
<1>4. ScheduledTypes' /\ AnswersFit' /\ ListFits'
  BY <1>1, <1>3 DEF ScheduledTypes, AnswersFit, ListFits, Fits, Awaited
<1>5. PagesFit'
  <2> SUFFICES ASSUME NEW g \in Requests, pages'[g].step = "answered", ~pages'[g].stale
               PROVE  \E q \in [Drafts -> Nat] : pages'[g].page = PageOf(q) /\ \A d \in Drafts : (Awaited(d) \/ Fits(d, q[d]))'
    BY DEF PagesFit, PageOf
  <2>1. CASE pages'[g] = pages[g]
    BY <1>1, <2>1 DEF PagesFit, Fits, Awaited
  <2>2. CASE pages'[g] = Scheduled!Answered(PageOf(queue))
    BY <1>1, <2>2 DEF Scheduled!Answered, Fits, ScheduledTypes
  <2> QED BY <1>1, <2>1, <2>2 DEF ScheduledTypes, Scheduled!Asked
<1> QED BY <1>4, <1>5

LEMMA ApplyPageKeeps ==
  ASSUME ScheduledInv, NEW f \in Requests, Scheduled!ApplyPage(f)
  PROVE  ScheduledInv'
<1> USE DEF ScheduledInv
<1> DEFINE page == pages[f].page
<1>1. /\ pages[f].step = "answered" /\ pages' = [pages EXCEPT ![f] = Scheduled!Idle]
      /\ list' = [d \in Drafts |-> IF \E e \in page : e.d = d THEN (CHOOSE e \in page : e.d = d).v ELSE 0]
      /\ doubtful' = (IF pages[f].stale THEN Drafts ELSE {})
      /\ UNCHANGED <<answers, queue, clock, delivered>>
  BY DEF Scheduled!ApplyPage, Scheduled!queueVars
<1>2. ScheduledTypes'
  <2>1. page \subseteq [d : Drafts, v : Nat]
    BY DEF ScheduledTypes, Scheduled!Slot
  <2>2. list' \in [Drafts -> Nat]
    BY <1>1, <2>1
  <2>3. pages' \in [Requests -> Scheduled!Slot(SUBSET [d : Drafts, v : Nat])]
    BY <1>1 DEF ScheduledTypes, Scheduled!Idle, Scheduled!Slot
  <2> QED BY <1>1, <2>2, <2>3 DEF ScheduledTypes
<1>3. AnswersFit'
  BY <1>1 DEF AnswersFit, Fits
<1>4. PagesFit'
  BY <1>1 DEF PagesFit, ScheduledTypes, Scheduled!Idle, Fits, Awaited, PageOf
<1>5. ListFits'
  <2>1. CASE pages[f].stale
    BY <1>1, <2>1 DEF ListFits
  <2>2. CASE ~pages[f].stale
    <3>1. PICK q \in [Drafts -> Nat] : page = PageOf(q) /\ \A d \in Drafts : Awaited(d) \/ Fits(d, q[d])
      BY <1>1, <2>2 DEF PagesFit
    <3>2. \A d \in Drafts : list'[d] = q[d]
      BY <1>1, <3>1, PageTells
    <3> QED BY <1>1, <3>1, <3>2 DEF ListFits, Fits, Awaited
  <2> QED BY <2>1, <2>2
<1> QED BY <1>2, <1>3, <1>4, <1>5

\* A fetch that fails, and the reset: the list is no longer a fetched one.
LEMMA EmptyKeeps ==
  ASSUME ScheduledInv, list' = [d \in Drafts |-> 0], listed' = FALSE,
         pages' = pages \/ \E f \in Requests : pages' = [pages EXCEPT ![f] = Scheduled!Idle],
         UNCHANGED <<answers, queue, clock, delivered, doubtful>>
  PROVE  ScheduledInv'
<1> USE DEF ScheduledInv
<1>1. ScheduledTypes'
  BY SlotFacts DEF ScheduledTypes
<1>2. AnswersFit' /\ ListFits'
  BY DEF AnswersFit, ListFits, Fits
<1>3. \A f \in Requests : pages'[f] = pages[f] \/ pages'[f].step = "idle"
  BY DEF ScheduledTypes, Scheduled!Idle
<1>4. PagesFit'
  BY <1>3 DEF PagesFit, Fits, Awaited, PageOf
<1> QED BY <1>1, <1>2, <1>4

\* A request the server carries out: its answer is on its way, or it is lost and
\* the draft doubtful.
LEMMA RequestKeeps ==
  ASSUME ScheduledInv, NEW d \in Drafts, Scheduled!Submit(d) \/ Scheduled!Cancel(d)
  PROVE  ScheduledInv'
<1> USE DEF ScheduledInv
<1>1. PICK op \in {"put", "cancel"} :
        /\ clock' = [clock EXCEPT ![d] = @ + 1]
        /\ queue' = [queue EXCEPT ![d] = IF op = "put" THEN clock[d] + 1 ELSE 0]
        /\ Scheduled!Reply(op, d)
        /\ UNCHANGED <<list, listed, delivered>>
  BY DEF Scheduled!Submit, Scheduled!Cancel, ScheduledTypes
<1>2. /\ clock'[d] = clock[d] + 1 /\ clock[d] \in Nat
      /\ \A e \in Drafts : e # d => clock'[e] = clock[e] /\ queue'[e] = queue[e]
      /\ queue'[d] = IF op = "put" THEN clock'[d] ELSE 0
  BY <1>1 DEF ScheduledTypes
<1>3. \A e \in Drafts, v \in Nat : e # d => (Fits(e, v)' <=> Fits(e, v))
  BY <1>1, <1>2 DEF Fits
<1> DEFINE a == [op |-> op, d |-> d, v |-> clock'[d]]
<1>4. CASE answers' = answers \cup {a} /\ UNCHANGED <<pages, doubtful>>
  <2>1. ScheduledTypes'
    BY <1>1, <1>2, <1>4 DEF ScheduledTypes
  <2>2. AnswersFit'
    <3> SUFFICES ASSUME NEW b \in answers'
                 PROVE  /\ b.v <= clock'[b.d]
                        /\ b.v = clock'[b.d] => Fits(b.d, IF b.op = "cancel" THEN 0 ELSE b.v)'
      BY <1>1, <1>2 DEF AnswersFit, ScheduledTypes
    <3>1. CASE b = a
      BY <1>1, <1>2, <3>1 DEF Fits
    <3>2. CASE b \in answers /\ b.d = d
      BY <1>2, <3>2 DEF AnswersFit, ScheduledTypes
    <3>3. CASE b \in answers /\ b.d # d
      BY <1>2, <1>3, <3>3 DEF AnswersFit, ScheduledTypes
    <3> QED BY <1>4, <3>1, <3>2, <3>3
  <2>3. Awaited(d)' /\ \A e \in Drafts : Awaited(e) => Awaited(e)'
    <3>1. a \in answers' /\ a.d = d /\ answers \subseteq answers'
      BY <1>4
    <3> HIDE DEF a
    <3> QED BY <3>1 DEF Awaited
  <2>4. PagesFit'
    <3> SUFFICES ASSUME NEW f \in Requests, pages[f].step = "answered", ~pages[f].stale
                 PROVE  \E q \in [Drafts -> Nat] : pages[f].page = PageOf(q) /\ \A e \in Drafts : (Awaited(e) \/ Fits(e, q[e]))'
      BY <1>4 DEF PagesFit, PageOf
    <3>1. PICK q \in [Drafts -> Nat] : pages[f].page = PageOf(q) /\ \A e \in Drafts : Awaited(e) \/ Fits(e, q[e])
      BY DEF PagesFit
    <3>2. \A e \in Drafts : Awaited(e)' \/ Fits(e, q[e])'
      BY <1>3, <2>3, <3>1
    <3> QED BY <3>1, <3>2
  <2>5. ListFits'
    <3>1. \A e \in Drafts : list[e] \in Nat
      BY DEF ScheduledTypes
    <3> QED BY <1>1, <1>3, <1>4, <2>3, <3>1 DEF ListFits, Fits
  <2> QED BY <2>1, <2>2, <2>4, <2>5
<1>5. CASE doubtful' = doubtful \cup {d} /\ pages' = Scheduled!AllAged(pages) /\ UNCHANGED answers
  <2>1. ScheduledTypes' /\ PagesFit'
    BY <1>1, <1>2, <1>5, AgedPages DEF ScheduledTypes, PagesFit
  <2>2. AnswersFit'
    <3>1. \A b \in answers : b.d # d => b.v <= clock'[b.d] /\ (b.v = clock'[b.d] => Fits(b.d, IF b.op = "cancel" THEN 0 ELSE b.v)')
      BY <1>2, <1>3 DEF AnswersFit, ScheduledTypes
    <3>2. \A b \in answers : b.d = d => b.v < clock'[b.d]
      BY <1>2 DEF AnswersFit, ScheduledTypes
    <3>3. \A e \in Drafts : queue'[e] \in {0, clock'[e]}
      BY <1>1, <1>2 DEF AnswersFit
    <3>4. \A b \in answers : b.v \in Nat /\ clock'[b.d] \in Nat
      BY <2>1, <1>5 DEF ScheduledTypes
    <3> QED BY <1>5, <3>1, <3>2, <3>3, <3>4 DEF AnswersFit
  <2>3. ListFits'
    <3>1. \A e \in Drafts : list[e] \in Nat
      BY DEF ScheduledTypes
    <3> QED BY <1>1, <1>3, <1>5, <3>1 DEF ListFits, Fits, Awaited
  <2> QED BY <2>1, <2>2, <2>3
<1> QED BY <1>1, <1>4, <1>5 DEF Scheduled!Reply

LEMMA AcceptKeeps ==
  ASSUME ScheduledInv, NEW a \in answers, Scheduled!Accept(a)
  PROVE  ScheduledInv'
<1> USE DEF ScheduledInv
<1> DEFINE w == IF a.op = "cancel" THEN 0 ELSE a.v
<1>1. /\ list' = [list EXCEPT ![a.d] = w] /\ answers' = answers \ {a}
      /\ pages' = Scheduled!AllAged(pages)
      /\ doubtful' = (IF Scheduled!Overtaken(a) THEN doubtful \cup {a.d} ELSE doubtful)
      /\ UNCHANGED <<listed, queue, clock, delivered>>
  BY DEF Scheduled!Accept, Scheduled!Upsert, Scheduled!queueVars
<1>2. a.d \in Drafts /\ a.v \in Nat /\ w \in Nat
  BY DEF ScheduledTypes
<1>3. ScheduledTypes' /\ PagesFit'
  BY <1>1, <1>2, AgedPages DEF ScheduledTypes, PagesFit
<1>4. AnswersFit'
  BY <1>1 DEF AnswersFit, Fits
<1>5. ListFits'
  <2> SUFFICES ASSUME listed, NEW e \in Drafts, e \notin doubtful', ~Awaited(e)'
               PROVE  Fits(e, list'[e])
    BY <1>1 DEF ListFits, Fits
  <2>1. e \notin doubtful
    BY <1>1
  <2>2. CASE e # a.d
    <3>1. ~Awaited(e)
      BY <1>1, <2>2 DEF Awaited
    <3>2. list'[e] = list[e]
      BY <1>1, <2>2 DEF ScheduledTypes
    <3> QED BY <2>1, <3>1, <3>2 DEF ListFits
  <2>3. CASE e = a.d
    <3>1. ~\E b \in answers : b.d = a.d /\ b.v > a.v
      BY <1>1, <1>2, <2>3 DEF Awaited
    <3>2. ~Scheduled!Overtaken(a)
      BY <1>1, <2>3
    <3>3. a.v = clock[a.d]
      BY <1>2, <3>1, <3>2 DEF Scheduled!Overtaken, AnswersFit, ScheduledTypes
    <3>4. list'[e] = w
      BY <1>1, <1>2, <2>3 DEF ScheduledTypes
    <3> QED BY <2>3, <3>3, <3>4 DEF AnswersFit
  <2> QED BY <2>2, <2>3
<1> QED BY <1>3, <1>4, <1>5

LEMMA DeliverKeeps ==
  ASSUME ScheduledInv, NEW d \in Drafts, Scheduled!Deliver(d)
  PROVE  ScheduledInv'
<1> USE DEF ScheduledInv
<1>1. /\ queue' = [queue EXCEPT ![d] = 0] /\ delivered' = delivered \cup {d}
      /\ UNCHANGED <<list, listed, pages, answers, clock, doubtful>>
  BY DEF Scheduled!Deliver, Scheduled!listVars
<1>2. ScheduledTypes'
  BY <1>1 DEF ScheduledTypes
<1>3. \A e \in Drafts : queue'[e] = (IF e = d THEN 0 ELSE queue[e])
  BY <1>1 DEF ScheduledTypes
<1>4. \A e \in Drafts, v \in Nat : Fits(e, v) => Fits(e, v)'
  BY <1>1, <1>3 DEF Fits
<1>5. \A e \in Drafts : Awaited(e) <=> Awaited(e)'
  BY <1>1 DEF Awaited
<1>6. AnswersFit'
  <2>1. \A a \in answers : a.d \in Drafts /\ (IF a.op = "cancel" THEN 0 ELSE a.v) \in Nat
    BY DEF ScheduledTypes
  <2> QED BY <1>1, <1>3, <1>4, <2>1 DEF AnswersFit
<1>7. PagesFit'
  BY <1>1, <1>4, <1>5 DEF PagesFit, PageOf
<1>8. ListFits'
  BY <1>1, <1>4, <1>5 DEF ListFits, ScheduledTypes
<1> QED BY <1>2, <1>6, <1>7, <1>8

\* Every step of the scheduled messages, and every step of another store.
LEMMA ScheduledStepKeeps ==
  ASSUME ScheduledInv, [Next]_vars
  PROVE  ScheduledInv'
<1>1. CASE UNCHANGED scheduledVars
  <2>1. /\ ScheduledTypes <=> ScheduledTypes'
        /\ AnswersFit <=> AnswersFit'
    BY <1>1 DEF scheduledVars, ScheduledTypes, AnswersFit, Fits
  <2>2. PagesFit <=> PagesFit'
    BY <1>1 DEF scheduledVars, PagesFit, PageOf, Fits, Awaited
  <2>3. ListFits <=> ListFits'
    BY <1>1 DEF scheduledVars, ListFits, Fits, Awaited
  <2> QED BY <2>1, <2>2, <2>3 DEF ScheduledInv
<1>2. ASSUME NEW f \in Requests, Scheduled!FailPage(f)
      PROVE  ScheduledInv'
  BY <1>2, EmptyKeeps DEF Scheduled!FailPage, Scheduled!queueVars
<1>3. CASE Scheduled!Reset
  BY <1>3, EmptyKeeps DEF Scheduled!Reset, Scheduled!queueVars
<1>4. CASE Scheduled!Next
  BY <1>2, <1>3, <1>4, PageStepKeeps, ApplyPageKeeps, RequestKeeps, AcceptKeeps, DeliverKeeps DEF Scheduled!Next
<1> QED BY <1>1, <1>4 DEF Next, FetchedNext, fetchedVars, vars

\* Once all answers are in, the fetched list of scheduled messages holds those that
\* are queued, as they were last edited, and of the others only some that were
\* sent: across resets with fetches on their way and answers in any order, but for
\* messages whose answer was lost or overtaken, and unless a page older than the
\* list took its place (stores.ts 1294-1343).
THEOREM ScheduledAgree == Spec => []ScheduledAgreeUnlessRaced
<1>1. Init => ScheduledInv
  BY DEF Init, Scheduled!Init, ScheduledInv, ScheduledTypes, AnswersFit, PagesFit, ListFits, Fits,
     Scheduled!Idle, Scheduled!Slot
<1>2. ScheduledInv => ScheduledAgreeUnlessRaced
  BY DEF ScheduledInv, ListFits, Awaited, Fits, ScheduledAgreeUnlessRaced,
     Scheduled!ScheduledAgreeUnlessRaced, Scheduled!Agrees
<1>3. ScheduledInv /\ [Next]_vars => ScheduledInv'
  BY ScheduledStepKeeps
<1> QED BY <1>1, <1>2, <1>3, PTL DEF Spec

-----------------------------------------------------------------------------
(* The mention badges.  A badge that is not outdated counts at least what  *)
(* it covers and was not read, and what it does not cover is on its way,   *)
(* the oldest first; so does every page of a load that is not stale.       *)

Entries == [c : Channels, n : Int, upto : Nat]
Positions == [channel : Channels, upto : Nat]

ReadTypes ==
  /\ count \in [Channels -> Int] /\ sent \in [Channels -> Nat] /\ acked \in [Channels -> Nat]
  /\ covers \in [Channels -> Nat] /\ cleared \in [Channels -> Nat]
  /\ latest \in [Channels -> Nat] /\ before \in [Channels -> Nat]
  /\ mentions \in Seq(Positions) /\ acks \subseteq Positions
  /\ loads \in [Requests -> Reads!Slot(SUBSET Entries)]
  /\ opened \in Channels \cup {NoChannel}

\* The events of a channel come in the order of its messages.
InOrder ==
  /\ \A i, j \in 1..Len(mentions) :
       i < j /\ mentions[i].channel = mentions[j].channel => mentions[i].upto < mentions[j].upto
  /\ \A i \in 1..Len(mentions) : mentions[i].upto \in 1..sent[mentions[i].channel]

OnItsWay(c, m) == \E i \in 1..Len(mentions) : mentions[i].channel = c /\ mentions[i].upto = m

\* Every message of c after `upto' is on its way.
Told(c, upto) == \A m \in 1..sent[c] : m <= upto \/ OnItsWay(c, m)

Table(n, u) == {[c |-> c, n |-> n[c], upto |-> u[c]] : c \in Channels}

LoadsFit == \A l \in Requests : loads[l].step = "answered" =>
  \E n \in [Channels -> Int], u \in [Channels -> Nat] :
    /\ loads[l].page = Table(n, u)
    /\ ~loads[l].stale => \A c \in Channels : Told(c, u[c]) /\ n[c] >= u[c] - acked[c]

BadgesFit == known /\ ~outdated =>
  \A c \in Channels : Told(c, covers[c]) /\ count[c] >= covers[c] - Reads!Read(c)

ReadInv == ReadTypes /\ InOrder /\ LoadsFit /\ BadgesFit

LEMMA MaximumFacts ==
  ASSUME NEW a \in Nat, NEW b \in Nat
  PROVE  Reads!Maximum(a, b) \in Nat /\ Reads!Maximum(a, b) >= a /\ Reads!Maximum(a, b) >= b
  BY DEF Reads!Maximum

\* The types of single entries.
LEMMA ReadEntries ==
  ASSUME ReadTypes
  PROVE  /\ count \in [Channels -> Int] /\ sent \in [Channels -> Nat] /\ acked \in [Channels -> Nat]
         /\ covers \in [Channels -> Nat] /\ cleared \in [Channels -> Nat] /\ latest \in [Channels -> Nat]
         /\ \A c \in Channels : /\ count[c] \in Int /\ sent[c] \in Nat /\ acked[c] \in Nat
                                /\ covers[c] \in Nat /\ cleared[c] \in Nat
  BY DEF ReadTypes

\* What was read stays read.
LEMMA ReadGrows ==
  ASSUME ReadTypes, ReadTypes', NEW c \in Channels, cleared'[c] >= cleared[c], acked'[c] >= acked[c]
  PROVE  /\ Reads!Read(c) \in Nat /\ Reads!Read(c)' \in Nat
         /\ Reads!Read(c)' >= Reads!Read(c) /\ Reads!Read(c)' >= cleared'[c]
<1>1. /\ cleared[c] \in Nat /\ acked[c] \in Nat /\ cleared'[c] \in Nat /\ acked'[c] \in Nat
  BY DEF ReadTypes
<1> QED BY <1>1 DEF Reads!Read, Reads!Maximum

\* Aged loads are stale, keep their pages, and have their type.
LEMMA AgedLoads ==
  ASSUME ReadTypes
  PROVE  /\ Reads!AllAged(loads) \in [Requests -> Reads!Slot(SUBSET Entries)]
         /\ \A l \in Requests : LET p == Reads!AllAged(loads)[l]
                                IN  p.step = "answered" =>
                                      p.stale /\ loads[l].step = "answered" /\ p.page = loads[l].page
  BY DEF ReadTypes, Reads!AllAged, Reads!Aged, Reads!Slot

\* A channel's entry of a table.
LEMMA TableTells ==
  ASSUME NEW n \in [Channels -> Int], NEW u \in [Channels -> Nat], NEW c \in Channels
  PROVE  Reads!Entry(Table(n, u), c).n = n[c] /\ Reads!Entry(Table(n, u), c).upto = u[c]
<1> DEFINE e == CHOOSE x \in Table(n, u) : x.c = c
<1>1. [c |-> c, n |-> n[c], upto |-> u[c]] \in Table(n, u)
  BY DEF Table
<1>2. e \in Table(n, u) /\ e.c = c
  BY <1>1
<1>3. \A x \in Table(n, u) : x.n = n[x.c] /\ x.upto = u[x.c]
  BY DEF Table
<1> QED BY <1>2, <1>3 DEF Reads!Entry

\* What a slot of a load may hold.
LEMMA ReadSlotFacts ==
  ASSUME NEW P
  PROVE  /\ Reads!Idle \in Reads!Slot(SUBSET P)
         /\ Reads!Asked \in Reads!Slot(SUBSET P)
         /\ \A Q \in SUBSET P : Reads!Answered(Q) \in Reads!Slot(SUBSET P)
  BY DEF Reads!Idle, Reads!Asked, Reads!Answered, Reads!Slot

\* A page fits as long as nothing is sent, told or acknowledged.
LEMMA PagesStayFit ==
  ASSUME LoadsFit, UNCHANGED <<mentions, sent, acked>>,
         \A l \in Requests : loads'[l] = loads[l] \/ loads'[l].step = "idle"
  PROVE  LoadsFit'
<1> SUFFICES ASSUME NEW l \in Requests, loads'[l].step = "answered"
             PROVE  (\E n \in [Channels -> Int], u \in [Channels -> Nat] :
                       /\ loads[l].page = Table(n, u)
                       /\ ~loads[l].stale => \A c \in Channels : Told(c, u[c]) /\ n[c] >= u[c] - acked[c])'
  BY DEF LoadsFit
<1>1. loads'[l] = loads[l]
  OBVIOUS
<1>2. PICK n \in [Channels -> Int], u \in [Channels -> Nat] :
        /\ loads[l].page = Table(n, u)
        /\ ~loads[l].stale => \A c \in Channels : Told(c, u[c]) /\ n[c] >= u[c] - acked[c]
  BY <1>1 DEF LoadsFit
<1>3. \A c \in Channels : Told(c, u[c]) => Told(c, u[c])'
  BY DEF Told, OnItsWay
<1>4. Table(n, u)' = Table(n, u)
  BY DEF Table
<1> QED BY <1>1, <1>2, <1>3, <1>4

\* Steps that change nothing the badges rest on.
LEMMA LoadsOnlyKeep ==
  ASSUME ReadInv, ReadTypes', LoadsFit', BadgesFit',
         UNCHANGED <<mentions, sent>>
  PROVE  ReadInv'
  BY DEF ReadInv, InOrder

LEMMA AskServeFailKeep ==
  ASSUME ReadInv, NEW l \in Requests,
         Reads!AskReadState(l) \/ Reads!ServeReadState(l) \/ Reads!FailReadState(l)
  PROVE  ReadInv'
<1> USE DEF ReadInv
<1> DEFINE n == [c \in Channels |-> sent[c] - acked[c]]
           S == Reads!Slot(SUBSET Entries)
<1>1. /\ UNCHANGED <<count, known, opened, latest, acks, sent, before, acked, mentions, covers, cleared, outdated>>
      /\ \E new \in {Reads!Asked, Reads!Idle, Reads!Answered(Table(n, sent))} : loads' = [loads EXCEPT ![l] = new]
  <2>1. {[c |-> c, n |-> sent[c] - acked[c], upto |-> sent[c]] : c \in Channels} = Table(n, sent)
    BY DEF Table
  <2> QED BY <2>1 DEF Reads!AskReadState, Reads!ServeReadState, Reads!FailReadState, Reads!serverVars, Reads!obsVars
<1>2. n \in [Channels -> Int] /\ sent \in [Channels -> Nat] /\ Table(n, sent) \subseteq Entries
  BY SMTT(30) DEF ReadTypes, Table, Entries
<1>3. PICK new \in {Reads!Asked, Reads!Idle, Reads!Answered(Table(n, sent))} : loads' = [loads EXCEPT ![l] = new]
  BY <1>1
<1>4. new \in S
  BY <1>2, ReadSlotFacts
<1>5. loads \in [Requests -> S] /\ loads' \in [Requests -> S]
  <2>1. loads \in [Requests -> S]
    BY DEF ReadTypes
  <2> HIDE DEF S
  <2> QED BY <1>3, <1>4, <2>1
<1>6. ReadTypes'
  BY <1>1, <1>5 DEF ReadTypes
<1>7. BadgesFit'
  BY <1>1 DEF BadgesFit, Told, OnItsWay, Reads!Read
<1>8. LoadsFit'
  <2> SUFFICES ASSUME NEW k \in Requests, loads'[k].step = "answered"
               PROVE  \E m \in [Channels -> Int], u \in [Channels -> Nat] :
                        /\ loads'[k].page = Table(m, u)
                        /\ ~loads'[k].stale => \A c \in Channels : Told(c, u[c]) /\ m[c] >= u[c] - acked[c]
    BY <1>1 DEF LoadsFit, Table, Told, OnItsWay
  <2>1. CASE k # l
    <3>1. loads'[k] = loads[k]
      BY <1>3, <1>5, <2>1
    <3> QED BY <3>1 DEF LoadsFit
  <2>2. CASE k = l
    <3>1. loads'[k] = Reads!Answered(Table(n, sent))
      BY <1>3, <1>5, <2>2 DEF Reads!Asked, Reads!Idle
    <3>2. loads'[k].page = Table(n, sent)
      BY <3>1 DEF Reads!Answered
    <3>3. \A c \in Channels : Told(c, sent[c]) /\ n[c] >= sent[c] - acked[c]
      BY DEF Told, ReadTypes
    <3> HIDE DEF n
    <3> QED BY <1>2, <3>2, <3>3
  <2> QED BY <2>1, <2>2
<1> QED BY <1>1, <1>6, <1>7, <1>8, LoadsOnlyKeep

LEMMA ApplyReadStateKeeps ==
  ASSUME ReadInv, NEW l \in Requests, Reads!ApplyReadState(l)
  PROVE  ReadInv'
<1> USE DEF ReadInv
<1> DEFINE S == Reads!Slot(SUBSET Entries)
<1>1. /\ loads[l].step = "answered" /\ outdated' = loads[l].stale
      /\ count' = [c \in Channels |-> Reads!Entry(loads[l].page, c).n]
      /\ covers' = [c \in Channels |-> Reads!Entry(loads[l].page, c).upto]
      /\ loads' = [loads EXCEPT ![l] = Reads!Idle]
      /\ UNCHANGED <<opened, latest, acks, sent, before, acked, mentions, cleared>>
  BY DEF Reads!ApplyReadState, Reads!serverVars
<1>2. PICK n \in [Channels -> Int], u \in [Channels -> Nat] :
        /\ loads[l].page = Table(n, u)
        /\ ~loads[l].stale => \A c \in Channels : Told(c, u[c]) /\ n[c] >= u[c] - acked[c]
  BY <1>1 DEF LoadsFit
<1>3. count' = n /\ covers' = u
  BY <1>1, <1>2, TableTells
<1>4. Reads!Idle \in S
  BY DEF Reads!Idle, Reads!Slot
<1>5. loads' \in [Requests -> S] /\ \A k \in Requests : loads'[k] = loads[k] \/ loads'[k].step = "idle"
  <2>1. loads \in [Requests -> S]
    BY DEF ReadTypes
  <2>2. Reads!Idle.step = "idle"
    BY DEF Reads!Idle
  <2> HIDE DEF S
  <2> QED BY <1>1, <1>4, <2>1, <2>2
<1>6. ReadTypes'
  BY <1>1, <1>3, <1>5 DEF ReadTypes
<1>7. LoadsFit'
  BY <1>1, <1>5, PagesStayFit
<1>8. BadgesFit'
  <2> SUFFICES ASSUME ~outdated', NEW c \in Channels
               PROVE  (Told(c, covers[c]) /\ count[c] >= covers[c] - Reads!Read(c))'
    BY DEF BadgesFit
  <2>1. Told(c, u[c])' /\ n[c] >= u[c] - acked[c]
    BY <1>1, <1>2 DEF Told, OnItsWay
  <2>2. /\ acked[c] \in Nat /\ cleared[c] \in Nat /\ n[c] \in Int /\ u[c] \in Nat
    BY DEF ReadTypes
  <2>3. Reads!Read(c)' \in Nat /\ Reads!Read(c)' >= acked[c]
    BY <1>1, <2>2 DEF Reads!Read, Reads!Maximum
  <2>4. n[c] >= u[c] - Reads!Read(c)'
    BY <2>1, <2>2, <2>3
  <2> QED BY <1>3, <2>1, <2>4 DEF Told
<1> QED BY <1>1, <1>6, <1>7, <1>8, LoadsOnlyKeep

LEMMA ClearMentionsKeeps ==
  ASSUME ReadInv, NEW c \in Channels, NEW m \in Nat, Reads!ClearMentions(c, m),
         opened' \in Channels \cup {NoChannel}
  PROVE  ReadInv'
<1> USE DEF ReadInv
<1>1. /\ count' = [count EXCEPT ![c] = 0] /\ acks' = acks \cup Reads!Ack(c, m)
      /\ cleared' = [cleared EXCEPT ![c] = Reads!Maximum(@, covers[c])]
      /\ UNCHANGED <<known, loads, latest, sent, before, acked, mentions, covers, outdated>>
  BY DEF Reads!ClearMentions, Reads!serverVars
<1>2. covers[c] \in Nat /\ cleared[c] \in Nat
  BY DEF ReadTypes
<1>3. /\ Reads!Maximum(cleared[c], covers[c]) \in Nat
      /\ Reads!Maximum(cleared[c], covers[c]) >= cleared[c]
      /\ Reads!Maximum(cleared[c], covers[c]) >= covers[c]
  BY <1>2, MaximumFacts
<1>4. ReadTypes'
  <2>1. Reads!Ack(c, m) \subseteq Positions
    BY DEF Reads!Ack, Positions
  <2>2. count' \in [Channels -> Int] /\ cleared' \in [Channels -> Nat]
    <3> DEFINE top == Reads!Maximum(cleared[c], covers[c])
    <3>1. cleared' = [cleared EXCEPT ![c] = top]
      BY <1>1
    <3>2. top \in Nat
      BY <1>3
    <3> HIDE DEF top
    <3> QED BY <1>1, <3>1, <3>2, ReadEntries
  <2> QED BY <1>1, <2>1, <2>2 DEF ReadTypes
<1>5. LoadsFit'
  BY <1>1, PagesStayFit
<1>6. BadgesFit'
  <2> SUFFICES ASSUME known, ~outdated, NEW e \in Channels
               PROVE  (Told(e, covers[e]) /\ count[e] >= covers[e] - Reads!Read(e))'
    BY <1>1 DEF BadgesFit
  <2>1. Told(e, covers[e])'
    BY <1>1 DEF BadgesFit, Told, OnItsWay
  <2>2. CASE e # c
    <3>1. count'[e] = count[e] /\ Reads!Read(e)' = Reads!Read(e)
      BY <1>1, <2>2 DEF ReadTypes, Reads!Read
    <3> QED BY <1>1, <2>1, <3>1 DEF BadgesFit
  <2>3. CASE e = c
    <3>1. count'[c] = 0 /\ cleared'[c] = Reads!Maximum(cleared[c], covers[c])
      BY <1>1 DEF ReadTypes
    <3>2. Reads!Read(c)' \in Nat /\ Reads!Read(c)' >= cleared'[c]
      <4>1. cleared'[c] >= cleared[c] /\ acked'[c] >= acked[c]
        BY <1>1, <1>3, <3>1 DEF ReadTypes
      <4> QED BY <1>4, <4>1, ReadGrows
    <3> QED BY <1>1, <1>2, <1>3, <2>1, <2>3, <3>1, <3>2
  <2> QED BY <2>2, <2>3
<1> QED BY <1>1, <1>4, <1>5, <1>6, LoadsOnlyKeep

LEMMA TakeAckKeeps ==
  ASSUME ReadInv, NEW a \in acks, Reads!TakeAck(a)
  PROVE  ReadInv'
<1> USE DEF ReadInv
<1>1. /\ acks' = acks \ {a}
      /\ acked' = [acked EXCEPT ![a.channel] = Reads!Maximum(@, a.upto)]
      /\ UNCHANGED <<count, known, loads, opened, latest, sent, before, mentions, covers, cleared, outdated>>
  BY DEF Reads!TakeAck, Reads!obsVars
<1>2. a.channel \in Channels /\ a.upto \in Nat /\ \A c \in Channels : acked[c] \in Nat
  BY DEF ReadTypes, Positions
<1>3. acked' \in [Channels -> Nat] /\ \A c \in Channels : acked'[c] >= acked[c]
  <2> DEFINE top == Reads!Maximum(acked[a.channel], a.upto)
  <2>1. top \in Nat /\ top >= acked[a.channel]
    BY <1>2, MaximumFacts
  <2> HIDE DEF top
  <2>2. acked' = [acked EXCEPT ![a.channel] = top]
    BY <1>1 DEF top
  <2>3. acked \in [Channels -> Nat]
    BY DEF ReadTypes
  <2> QED BY <1>2, <2>1, <2>2, <2>3
<1>4. ReadTypes'
  BY <1>1, <1>3 DEF ReadTypes
<1>5. LoadsFit'
  <2> SUFFICES ASSUME NEW l \in Requests, loads[l].step = "answered"
               PROVE  \E n \in [Channels -> Int], u \in [Channels -> Nat] :
                        /\ loads[l].page = Table(n, u)
                        /\ ~loads[l].stale => \A c \in Channels : Told(c, u[c]) /\ n[c] >= u[c] - acked'[c]
    <3>1. \A c \in Channels, m \in Nat : Told(c, m) => Told(c, m)'
      BY <1>1 DEF Told, OnItsWay
    <3>2. \A n, u : Table(n, u)' = Table(n, u)
      BY DEF Table
    <3> QED BY <1>1, <3>1, <3>2 DEF LoadsFit
  <2>1. PICK n \in [Channels -> Int], u \in [Channels -> Nat] :
          /\ loads[l].page = Table(n, u)
          /\ ~loads[l].stale => \A c \in Channels : Told(c, u[c]) /\ n[c] >= u[c] - acked[c]
    BY DEF LoadsFit
  <2>2. \A c \in Channels : n[c] >= u[c] - acked[c] => n[c] >= u[c] - acked'[c]
    <3> SUFFICES ASSUME NEW c \in Channels, n[c] >= u[c] - acked[c]
                 PROVE  n[c] >= u[c] - acked'[c]
      OBVIOUS
    <3>1. n[c] \in Int /\ u[c] \in Nat /\ acked[c] \in Nat /\ acked'[c] \in Nat /\ acked'[c] >= acked[c]
      BY <1>2, <1>3
    <3> QED BY <3>1
  <2> QED BY <2>1, <2>2
<1>6. BadgesFit'
  <2> SUFFICES ASSUME known, ~outdated, NEW e \in Channels
               PROVE  (Told(e, covers[e]) /\ count[e] >= covers[e] - Reads!Read(e))'
    BY <1>1 DEF BadgesFit
  <2>1. Told(e, covers[e])' /\ count[e] >= covers[e] - Reads!Read(e)
    BY <1>1 DEF BadgesFit, Told, OnItsWay
  <2>2. Reads!Read(e) \in Nat /\ Reads!Read(e)' \in Nat /\ Reads!Read(e)' >= Reads!Read(e)
    <3>1. cleared'[e] >= cleared[e] /\ acked'[e] >= acked[e]
      BY <1>1, <1>3 DEF ReadTypes
    <3> QED BY <1>4, <3>1, ReadGrows
  <2>3. count[e] \in Int /\ covers[e] \in Nat
    BY DEF ReadTypes
  <2> QED BY <1>1, <2>1, <2>2, <2>3
<1> QED BY <1>1, <1>4, <1>5, <1>6, LoadsOnlyKeep

LEMMA MentionKeeps ==
  ASSUME ReadInv, NEW c \in Channels, Reads!Mention(c)
  PROVE  ReadInv'
<1> USE DEF ReadInv
<1> DEFINE e == [channel |-> c, upto |-> sent[c] + 1]
<1>1. /\ sent' = [sent EXCEPT ![c] = @ + 1] /\ mentions' = Append(mentions, e)
      /\ UNCHANGED <<count, known, loads, opened, latest, acks, before, acked, covers, cleared, outdated>>
  BY DEF Reads!Mention, Reads!badgeVars, Reads!obsVars
<1>2. /\ sent[c] \in Nat /\ sent' \in [Channels -> Nat] /\ sent'[c] = sent[c] + 1
      /\ \A d \in Channels : sent[d] \in Nat /\ sent'[d] >= sent[d] /\ (d # c => sent'[d] = sent[d])
  BY <1>1, ReadEntries
<1>3. mentions \in Seq(Positions) /\ e \in Positions
  BY <1>2 DEF ReadTypes, Positions
<1>4. /\ Len(mentions) \in Nat /\ Len(mentions') = Len(mentions) + 1 /\ mentions' \in Seq(Positions)
      /\ mentions'[Len(mentions) + 1] = e
      /\ \A i \in 1..Len(mentions) : mentions'[i] = mentions[i] /\ mentions[i] \in Positions
  <2> HIDE DEF e
  <2> QED BY <1>1, <1>3
<1>5. ReadTypes'
  BY <1>1, <1>2, <1>4 DEF ReadTypes
<1>6. InOrder'
  <2>1. ASSUME NEW i \in 1..Len(mentions')
        PROVE  mentions'[i].upto \in 1..sent'[mentions'[i].channel]
    <3>1. CASE i \in 1..Len(mentions)
      <4>1. mentions[i].channel \in Channels /\ mentions[i].upto \in 1..sent[mentions[i].channel]
        BY <1>4, <3>1 DEF InOrder, Positions
      <4> QED BY <1>2, <1>4, <3>1, <4>1
    <3>2. CASE i = Len(mentions) + 1
      BY <1>2, <1>4, <3>2
    <3> QED BY <1>4, <2>1, <3>1, <3>2
  <2>2. ASSUME NEW i \in 1..Len(mentions'), NEW j \in 1..Len(mentions'), i < j,
               mentions'[i].channel = mentions'[j].channel
        PROVE  mentions'[i].upto < mentions'[j].upto
    <3>1. i \in 1..Len(mentions)
      BY <1>4, <2>2
    <3>2. CASE j \in 1..Len(mentions)
      BY <1>4, <2>2, <3>1, <3>2 DEF InOrder
    <3>3. CASE j = Len(mentions) + 1
      <4>1. mentions[i].channel = c /\ mentions[i].upto \in 1..sent[c]
        BY <1>4, <2>2, <3>1, <3>3 DEF InOrder
      <4> QED BY <1>2, <1>4, <3>1, <3>3, <4>1
    <3> QED BY <1>4, <2>2, <3>2, <3>3
  <2> QED BY <2>1, <2>2 DEF InOrder
<1>7. \A d \in Channels, u \in Nat : Told(d, u) => Told(d, u)'
  <2> SUFFICES ASSUME NEW d \in Channels, NEW u \in Nat, Told(d, u), NEW m \in 1..sent'[d]
               PROVE  m <= u \/ OnItsWay(d, m)'
    BY DEF Told
  <2>1. CASE m \in 1..sent[d]
    <3>1. m <= u \/ OnItsWay(d, m)
      BY <2>1 DEF Told
    <3> QED BY <1>4, <3>1 DEF OnItsWay
  <2>2. CASE m \notin 1..sent[d]
    <3>1. d = c /\ m = sent[c] + 1
      BY <1>2, <2>2
    <3>2. Len(mentions) + 1 \in 1..Len(mentions')
      BY <1>4
    <3> QED BY <1>4, <3>1, <3>2 DEF OnItsWay
  <2> QED BY <2>1, <2>2
<1>8. LoadsFit'
  <2>1. \A n, u : Table(n, u)' = Table(n, u)
    BY DEF Table
  <2> SUFFICES ASSUME NEW l \in Requests, loads[l].step = "answered"
               PROVE  \E n \in [Channels -> Int], u \in [Channels -> Nat] :
                        /\ loads[l].page = Table(n, u)
                        /\ ~loads[l].stale => \A d \in Channels : Told(d, u[d])' /\ n[d] >= u[d] - acked[d]
    BY <1>1, <2>1 DEF LoadsFit
  <2>2. PICK n \in [Channels -> Int], u \in [Channels -> Nat] :
          /\ loads[l].page = Table(n, u)
          /\ ~loads[l].stale => \A d \in Channels : Told(d, u[d]) /\ n[d] >= u[d] - acked[d]
    BY DEF LoadsFit
  <2> QED BY <1>7, <2>2
<1>9. BadgesFit'
  BY <1>1, <1>7 DEF BadgesFit, ReadTypes, Reads!Read
<1> QED BY <1>5, <1>6, <1>8, <1>9

LEMMA ApplyMentionKeeps ==
  ASSUME ReadInv, Reads!ApplyMention
  PROVE  ReadInv'
<1> USE DEF ReadInv
<1>1. PICK c, m :
        /\ c = Head(mentions).channel /\ m = Head(mentions).upto
        /\ mentions # <<>> /\ mentions' = Tail(mentions)
        /\ count' = [count EXCEPT ![c] = @ + 1]
        /\ latest' = [latest EXCEPT ![c] = m]
        /\ acks' \in {acks, acks \cup Reads!Ack(c, m)}
        /\ covers' = [covers EXCEPT ![c] = Reads!Maximum(@, m)]
        /\ cleared' \in {cleared, [cleared EXCEPT ![c] = Reads!Maximum(@, m)]}
        /\ loads' = Reads!AllAged(loads)
        /\ UNCHANGED <<known, opened, sent, before, acked, outdated>>
  BY DEF Reads!ApplyMention, Reads!Bump
<1>2. /\ mentions \in Seq(Positions) /\ Len(mentions) \in Nat /\ Len(mentions) > 0
      /\ Head(mentions) = mentions[1] /\ Head(mentions) \in Positions
      /\ mentions' \in Seq(Positions) /\ Len(mentions') = Len(mentions) - 1
      /\ \A i \in 1..Len(mentions') : mentions'[i] = mentions[i + 1]
  BY <1>1 DEF ReadTypes
<1>3. c \in Channels /\ m \in Nat /\ covers[c] \in Nat /\ cleared[c] \in Nat /\ count[c] \in Int /\ sent[c] \in Nat
  <2>1. c \in Channels /\ m \in Nat
    BY <1>1, <1>2 DEF Positions
  <2> QED BY <2>1, ReadEntries
<1>4. PICK top \in Nat, seen \in Nat :
        /\ top = Reads!Maximum(covers[c], m) /\ seen = Reads!Maximum(cleared[c], m)
        /\ top >= covers[c] /\ top >= m /\ top \in {covers[c], m} /\ seen >= cleared[c]
  BY <1>3, MaximumFacts DEF Reads!Maximum
<1>5. covers' = [covers EXCEPT ![c] = top] /\ cleared' \in {cleared, [cleared EXCEPT ![c] = seen]}
  BY <1>1, <1>4
<1>8. /\ covers' \in [Channels -> Nat] /\ cleared' \in [Channels -> Nat] /\ count' \in [Channels -> Int]
      /\ latest' \in [Channels -> Nat]
      /\ covers'[c] = top /\ count'[c] = count[c] + 1
      /\ \A d \in Channels : cleared'[d] >= cleared[d] /\ (d # c => covers'[d] = covers[d] /\ count'[d] = count[d])
  <2>1. covers' \in [Channels -> Nat] /\ cleared' \in [Channels -> Nat]
    BY <1>3, <1>4, <1>5, ReadEntries
  <2>2. count' \in [Channels -> Int] /\ latest' \in [Channels -> Nat] /\ count'[c] = count[c] + 1
    BY <1>1, <1>3, ReadEntries
  <2>3. covers'[c] = top /\ \A d \in Channels : d # c => covers'[d] = covers[d] /\ count'[d] = count[d]
    BY <1>1, <1>3, <1>5, ReadEntries
  <2>4. \A d \in Channels : cleared'[d] >= cleared[d]
    BY <1>3, <1>4, <1>5, ReadEntries
  <2> QED BY <2>1, <2>2, <2>3, <2>4
<1>9. ReadTypes'
  <2>1. Reads!Ack(c, m) \subseteq Positions
    BY <1>3 DEF Reads!Ack, Positions
  <2>2. loads' \in [Requests -> Reads!Slot(SUBSET Entries)]
    BY <1>1, AgedLoads
  <2> QED BY <1>1, <1>2, <1>8, <2>1, <2>2 DEF ReadTypes
<1>10. InOrder'
  <2> SUFFICES ASSUME NEW i \in 1..Len(mentions')
               PROVE  /\ mentions'[i].upto \in 1..sent[mentions'[i].channel]
                      /\ \A j \in 1..Len(mentions') :
                           i < j /\ mentions'[i].channel = mentions'[j].channel => mentions'[i].upto < mentions'[j].upto
    BY <1>1 DEF InOrder
  <2>1. i + 1 \in 1..Len(mentions) /\ \A j \in 1..Len(mentions') : j + 1 \in 1..Len(mentions) /\ (i < j => i + 1 < j + 1)
    BY <1>2
  <2> QED BY <1>2, <2>1 DEF InOrder
<1>11. LoadsFit'
  <2>1. \A n, u : Table(n, u)' = Table(n, u)
    BY DEF Table
  <2> SUFFICES ASSUME NEW l \in Requests, loads'[l].step = "answered"
               PROVE  \E n \in [Channels -> Int], u \in [Channels -> Nat] :
                        loads'[l].page = Table(n, u) /\ loads'[l].stale
    BY <2>1 DEF LoadsFit
  <2>2. loads'[l].stale /\ loads[l].step = "answered" /\ loads'[l].page = loads[l].page
    BY <1>1, AgedLoads
  <2> QED BY <2>2 DEF LoadsFit
<1>12. BadgesFit'
  <2> SUFFICES ASSUME known, ~outdated, NEW d \in Channels
               PROVE  (Told(d, covers[d]) /\ count[d] >= covers[d] - Reads!Read(d))'
    BY <1>1 DEF BadgesFit
  <2>1. Told(d, covers[d]) /\ count[d] >= covers[d] - Reads!Read(d)
    BY DEF BadgesFit
  <2>2. /\ Reads!Read(d) \in Nat /\ Reads!Read(d)' \in Nat /\ Reads!Read(d)' >= Reads!Read(d)
    <3>1. acked'[d] >= acked[d]
      BY <1>1 DEF ReadTypes
    <3> QED BY <1>8, <1>9, <3>1, ReadGrows
  <2>3. \A k \in 1..sent[d] : OnItsWay(d, k) => (d = c /\ k = m) \/ OnItsWay(d, k)'
    <3> SUFFICES ASSUME NEW k \in 1..sent[d], NEW i \in 1..Len(mentions),
                        mentions[i].channel = d, mentions[i].upto = k, ~(d = c /\ k = m)
                 PROVE  OnItsWay(d, k)'
      BY DEF OnItsWay
    <3>1. i # 1
      BY <1>1, <1>2
    <3>2. i - 1 \in 1..Len(mentions') /\ mentions'[i - 1] = mentions[i]
      BY <1>2, <3>1
    <3> QED BY <3>2 DEF OnItsWay
  <2>4. CASE d # c
    <3>1. Told(d, covers[d])'
      BY <1>1, <1>8, <2>1, <2>3, <2>4 DEF Told
    <3>2. count[d] \in Int /\ covers[d] \in Nat
      BY DEF ReadTypes
    <3> QED BY <1>8, <2>1, <2>2, <2>4, <3>1, <3>2
  <2>5. CASE d = c
    <3>1. Told(c, covers[c])'
      <4> SUFFICES ASSUME NEW k \in 1..sent[c]
                   PROVE  k <= top \/ OnItsWay(c, k)'
        BY <1>1, <1>8 DEF Told
      <4>1. k <= covers[c] \/ OnItsWay(c, k)
        BY <2>1, <2>5 DEF Told
      <4> QED BY <1>3, <1>4, <2>3, <2>5, <4>1
    <3>2. m <= covers[c] + 1
      <4> SUFFICES ASSUME m > covers[c] + 1
                   PROVE  FALSE
        BY <1>3
      <4>1. m \in 1..sent[c]
        <5>1. 1 \in 1..Len(mentions) /\ mentions[1].channel = c /\ mentions[1].upto = m
          BY <1>1, <1>2
        <5> QED BY <1>1, <5>1 DEF InOrder
      <4>2. covers[c] + 1 \in 1..sent[c] /\ ~(covers[c] + 1 <= covers[c])
        BY <1>3, <4>1
      <4>3. OnItsWay(c, covers[c] + 1)
        BY <2>1, <2>5, <4>2 DEF Told
      <4>4. PICK i \in 1..Len(mentions) : mentions[i].channel = c /\ mentions[i].upto = covers[c] + 1
        BY <4>3 DEF OnItsWay
      <4>5. mentions[1].channel = c /\ mentions[1].upto = m /\ 1 \in 1..Len(mentions)
        BY <1>1, <1>2
      <4>6. i # 1
        BY <1>3, <4>4, <4>5
      <4>7. 1 < i
        BY <4>6
      <4>8. m < covers[c] + 1
        BY <4>4, <4>5, <4>7 DEF InOrder
      <4> QED BY <1>3, <4>8
    <3>3. top <= covers[c] + 1
      BY <1>3, <1>4, <3>2
    <3>4. count'[d] >= covers'[d] - Reads!Read(d)'
      BY <1>3, <1>4, <1>8, <2>1, <2>2, <2>5, <3>3
    <3> QED BY <2>5, <3>1, <3>4
  <2> QED BY <2>4, <2>5
<1> QED BY <1>9, <1>10, <1>11, <1>12

\* Every step of the read states, and every step of another store.
LEMMA ReadStepKeeps ==
  ASSUME ReadInv, [Next]_vars
  PROVE  ReadInv'
<1>1. ASSUME UNCHANGED <<count, latest, sent, acked, before, mentions, covers, cleared, outdated, loads, known, acks>>,
             opened' \in Channels \cup {NoChannel}
      PROVE  ReadInv'
  <2>1. ReadTypes' /\ BadgesFit'
    <3>1. ReadTypes'
      BY <1>1 DEF ReadInv, ReadTypes
    <3>2. BadgesFit'
      BY <1>1 DEF ReadInv, BadgesFit, Told, OnItsWay, Reads!Read
    <3> QED BY <3>1, <3>2
  <2>2. LoadsFit'
    BY <1>1, PagesStayFit DEF ReadInv
  <2> QED BY <1>1, <2>1, <2>2, LoadsOnlyKeep
<1>2. CASE UNCHANGED readVars
  BY <1>1, <1>2 DEF readVars, ReadInv, ReadTypes
<1>3. ASSUME NEW c \in Channels \cup {NoChannel}, Reads!OpenChannel(c)
      PROVE  ReadInv'
  <2>1. CASE c = NoChannel
    BY <1>1, <1>3, <2>1 DEF Reads!OpenChannel, Reads!serverVars, Reads!obsVars
  <2>2. CASE c # NoChannel
    <3>1. c \in Channels /\ latest[c] \in Nat /\ opened' = c /\ Reads!ClearMentions(c, latest[c])
      BY <1>3, <2>2 DEF Reads!OpenChannel, ReadInv, ReadTypes
    <3> QED BY <3>1, ClearMentionsKeeps
  <2> QED BY <2>1, <2>2
<1>4. ASSUME NEW c \in Channels, Reads!MarkAsRead(c)
      PROVE  ReadInv'
  <2>1. before[c] \in Nat /\ opened' = opened /\ opened \in Channels \cup {NoChannel} /\ Reads!ClearMentions(c, before[c])
    BY <1>4 DEF Reads!MarkAsRead, ReadInv, ReadTypes
  <2> QED BY <2>1, ClearMentionsKeeps
<1>5. CASE Reads!Clear
  <2>1. /\ count' = [c \in Channels |-> 0] /\ latest' = [c \in Channels |-> 0] /\ known' = FALSE
        /\ opened' = NoChannel
        /\ UNCHANGED <<loads, acks, sent, before, acked, mentions, covers, cleared, outdated>>
    BY <1>5 DEF Reads!Clear, Reads!serverVars, Reads!obsVars
  <2>2. ReadTypes' /\ BadgesFit'
    <3>1. count' \in [Channels -> Int] /\ latest' \in [Channels -> Nat] /\ opened' \in Channels \cup {NoChannel}
      BY <2>1
    <3> QED BY <2>1, <3>1 DEF ReadInv, ReadTypes, BadgesFit
  <2>3. LoadsFit'
    BY <2>1, PagesStayFit DEF ReadInv
  <2> QED BY <2>1, <2>2, <2>3, LoadsOnlyKeep
<1>6. CASE Reads!Next
  BY <1>3, <1>4, <1>5, <1>6, AskServeFailKeep, ApplyReadStateKeeps, MentionKeeps, TakeAckKeeps,
     ApplyMentionKeeps DEF Reads!Next
<1> QED BY <1>2, <1>6 DEF Next, FetchedNext, fetchedVars, vars

\* The badges, the pages of loads and the events, in every state.
LEMMA ReadsInvariant == Spec => []ReadInv
<1>1. Init => ReadInv
  <2> SUFFICES ASSUME Init
               PROVE  ReadInv
    OBVIOUS
  <2>1. /\ count = [c \in Channels |-> 0] /\ latest = [c \in Channels |-> 0] /\ known = FALSE
        /\ loads = [l \in Requests |-> Reads!Idle] /\ opened = NoChannel /\ acks = {}
        /\ sent \in [Channels -> 0..1] /\ before = sent /\ acked = [c \in Channels |-> 0] /\ mentions = <<>>
        /\ covers = [c \in Channels |-> 0] /\ cleared = [c \in Channels |-> 0]
    BY DEF Init, Reads!Init
  <2>2. ReadTypes
    <3>1. /\ count \in [Channels -> Int] /\ latest \in [Channels -> Nat] /\ acked \in [Channels -> Nat]
          /\ covers \in [Channels -> Nat] /\ cleared \in [Channels -> Nat]
      BY <2>1
    <3>2. sent \in [Channels -> Nat] /\ before \in [Channels -> Nat]
      BY <2>1
    <3>3. loads \in [Requests -> Reads!Slot(SUBSET Entries)]
      BY <2>1, ReadSlotFacts
    <3>4. mentions \in Seq(Positions) /\ acks \subseteq Positions
      BY <2>1
    <3> QED BY <2>1, <3>1, <3>2, <3>3, <3>4 DEF ReadTypes
  <2>3. LoadsFit
    BY <2>1 DEF LoadsFit, Reads!Idle
  <2>4. InOrder /\ BadgesFit
    BY <2>1 DEF InOrder, BadgesFit
  <2> QED BY <2>2, <2>3, <2>4 DEF ReadInv
<1>2. ReadInv /\ [Next]_vars => ReadInv'
  BY ReadStepKeeps
<1> QED BY <1>1, <1>2, PTL DEF Spec

\* Once the read state is loaded and all events are in, a badge counts every
\* mention that was not read here or, as far as the load knew, on another device:
\* across loads and events in any order, unless the page of a load was older than
\* the counts it replaced (stores.ts 992-1003, 2400-2447).
THEOREM NoMentionMissed == Spec => []NoMentionMissedUnlessRaced
<1>1. ReadInv => NoMentionMissedUnlessRaced
  <2> SUFFICES ASSUME ReadInv, known, mentions = <<>>, ~outdated, NEW c \in Channels
               PROVE  count[c] >= sent[c] - Reads!Read(c)
    BY DEF NoMentionMissedUnlessRaced, Reads!NoMentionMissedUnlessRaced
  <2>1. Told(c, covers[c]) /\ count[c] >= covers[c] - Reads!Read(c)
    BY DEF ReadInv, BadgesFit
  <2>2. /\ sent[c] \in Nat /\ covers[c] \in Nat /\ count[c] \in Int
        /\ cleared[c] \in Nat /\ acked[c] \in Nat
    BY DEF ReadInv, ReadTypes
  <2>3. sent[c] <= covers[c]
    <3>1. \A m \in 1..sent[c] : ~OnItsWay(c, m)
      BY DEF OnItsWay
    <3>2. \A m \in 1..sent[c] : m <= covers[c]
      BY <2>1, <3>1 DEF Told
    <3> QED BY <2>2, <3>2
  <2>4. Reads!Read(c) \in Nat
    BY <2>2 DEF Reads!Read, Reads!Maximum
  <2> QED BY <2>1, <2>2, <2>3, <2>4
<1> QED BY <1>1, ReadsInvariant, PTL

-----------------------------------------------------------------------------
(* The copies of a message.  The last update on its way tells the message  *)
(* as the server has it; when there is none, the row is that already, or   *)
(* an answer that was overtaken has changed it.  When no notice about the  *)
(* pins is on its way, what is cached of them, or will be, is right.       *)

Posts == [event : {"update", "pins"}, state : [text : Nat, pinned : BOOLEAN, rev : Nat]]
PinSlots == [step : {"idle", "asked", "answered"}, page : SUBSET {"in", "out"}, stale : BOOLEAN]

CopyTypes ==
  /\ row \in [text : Nat, pinned : BOOLEAN]
  /\ now \in [text : Nat, pinned : BOOLEAN, rev : Nat]
  /\ replies \subseteq [order : {"edit", "pin", "unpin"}, text : Nat, pinned : BOOLEAN, rev : Nat]
  /\ notices \in Seq(Posts) /\ heard \in Nat
  /\ pinLoads \in [Requests -> PinSlots]

\* No notice of the kind is on its way.
Silent(kind) == \A i \in 1..Len(notices) : notices[i].event # kind

\* No answer is newer than the message, and the newest tells it.
RepliesFit == \A a \in replies :
  /\ a.rev <= now.rev
  /\ a.rev = now.rev => a.text = now.text /\ a.pinned = now.pinned
  /\ a.order # "edit" => a.pinned = (a.order = "pin")

LastTells == \A i \in 1..Len(notices) :
  notices[i].event = "update" /\ (\A j \in 1..Len(notices) : j > i => notices[j].event # "update")
    => notices[i].state = now

RowFits == Silent("update") => heard = now.rev /\ (~overtaken => row = Copies!Content(now))

Pinned == IF now.pinned THEN "in" ELSE "out"
PinsFit == Silent("pins") =>
  /\ ~late => cache \in {"none", Pinned}
  /\ \A f \in Requests : pinLoads[f].step = "answered" /\ ~pinLoads[f].stale => pinLoads[f].page = {Pinned}

CopyInv == CopyTypes /\ RepliesFit /\ LastTells /\ RowFits /\ PinsFit

\* An invalidation leaves nothing cached and no answer that is not stale.
LEMMA InvalidateKeeps ==
  ASSUME CopyTypes, Copies!Invalidate
  PROVE  pinLoads' \in [Requests -> PinSlots] /\ PinsFit'
<1>1. ASSUME NEW l \in PinSlots
      PROVE  Copies!Aged(l) \in PinSlots /\ (Copies!Aged(l).step = "answered" => Copies!Aged(l).stale)
  <2>1. CASE l.step = "answered"
    BY <2>1 DEF Copies!Aged, PinSlots
  <2>2. CASE l.step # "answered"
    BY <2>2 DEF Copies!Aged
  <2> QED BY <2>1, <2>2
<1>2. /\ pinLoads' = [f \in Requests |-> Copies!Aged(pinLoads[f])] /\ cache' = "none"
      /\ \A f \in Requests : pinLoads[f] \in PinSlots
  BY DEF CopyTypes, Copies!Invalidate, Copies!AllAged
<1>3. /\ \A f \in Requests : pinLoads'[f] \in PinSlots /\ (pinLoads'[f].step = "answered" => pinLoads'[f].stale)
      /\ pinLoads' \in [Requests -> PinSlots]
  BY <1>1, <1>2
<1> QED BY <1>2, <1>3 DEF PinsFit

LEMMA PinLoadsKeep ==
  ASSUME CopyInv, NEW f \in Requests,
         Copies!OpenPins(f) \/ Copies!ServePins(f) \/ Copies!ApplyPins(f) \/ Copies!FailPins(f)
  PROVE  CopyInv'
<1>1. UNCHANGED <<row, replies, now, notices, heard, overtaken>>
  BY DEF Copies!OpenPins, Copies!ServePins, Copies!ApplyPins, Copies!FailPins
<1>2. RepliesFit' /\ LastTells' /\ RowFits'
  BY <1>1 DEF CopyInv, RepliesFit, LastTells, RowFits, Silent, Copies!Content
<1>3. Copies!Idle \in PinSlots /\ Copies!Asked \in PinSlots /\ Copies!Answered({Pinned}) \in PinSlots
  BY DEF Copies!Idle, Copies!Asked, Copies!Answered, PinSlots, Pinned
<1>4. \/ UNCHANGED <<cache, late>> /\ pinLoads' = [pinLoads EXCEPT ![f] = Copies!Idle]
      \/ UNCHANGED <<cache, late>> /\ pinLoads' = [pinLoads EXCEPT ![f] = Copies!Asked]
      \/ UNCHANGED <<cache, late>> /\ pinLoads' = [pinLoads EXCEPT ![f] = Copies!Answered({Pinned})]
      \/ /\ pinLoads[f].step = "answered" /\ cache' \in pinLoads[f].page /\ late' = pinLoads[f].stale
         /\ pinLoads' = [pinLoads EXCEPT ![f] = Copies!Idle]
  BY DEF Copies!OpenPins, Copies!ServePins, Copies!ApplyPins, Copies!FailPins, Pinned
<1>5. CopyTypes'
  <2>1. pinLoads' \in [Requests -> PinSlots]
    BY <1>3, <1>4 DEF CopyInv, CopyTypes
  <2> QED BY <1>1, <2>1 DEF CopyInv, CopyTypes
<1>6. PinsFit'
  <2> SUFFICES ASSUME Silent("pins")'
               PROVE  /\ ~late' => cache' \in {"none", Pinned}
                      /\ \A g \in Requests : pinLoads'[g].step = "answered" /\ ~pinLoads'[g].stale =>
                           pinLoads'[g].page = {Pinned}
    BY <1>1 DEF PinsFit, Pinned
  <2>1. /\ ~late => cache \in {"none", Pinned}
        /\ \A g \in Requests : pinLoads[g].step = "answered" /\ ~pinLoads[g].stale => pinLoads[g].page = {Pinned}
    BY <1>1 DEF CopyInv, PinsFit, Silent
  <2>2. \A g \in Requests : \/ pinLoads'[g] = pinLoads[g]
                            \/ pinLoads'[g] \in {Copies!Idle, Copies!Asked, Copies!Answered({Pinned})}
    BY <1>4 DEF CopyInv, CopyTypes
  <2>3. \A g \in Requests : pinLoads'[g].step = "answered" /\ ~pinLoads'[g].stale => pinLoads'[g].page = {Pinned}
    BY <2>1, <2>2 DEF Copies!Idle, Copies!Asked, Copies!Answered
  <2>4. ~late' => cache' \in {"none", Pinned}
    BY <1>4, <2>1
  <2> QED BY <2>3, <2>4
<1> QED BY <1>2, <1>5, <1>6 DEF CopyInv

LEMMA ReplyKeeps ==
  ASSUME CopyInv, NEW a \in replies, Copies!ApplyReply(a)
  PROVE  CopyInv'
<1>1. UNCHANGED <<now, notices, heard, late>> /\ replies' = replies \ {a}
  BY DEF Copies!ApplyReply
<1>2. \/ /\ a.order = "edit" /\ row' = Copies!Content(a) /\ overtaken' = (a.rev < heard)
         /\ UNCHANGED <<cache, pinLoads>>
      \/ /\ a.order # "edit" /\ row' = [row EXCEPT !.pinned = (a.order = "pin")]
         /\ overtaken' = (overtaken \/ a.rev < heard) /\ Copies!Invalidate
  BY DEF Copies!ApplyReply
<1>3. /\ a.text \in Nat /\ a.pinned \in BOOLEAN /\ a.rev \in Nat /\ heard \in Nat /\ now.rev \in Nat
      /\ row \in [text : Nat, pinned : BOOLEAN]
  BY DEF CopyInv, CopyTypes
<1>4. /\ a.rev <= now.rev /\ (a.rev = now.rev => a.text = now.text /\ a.pinned = now.pinned)
      /\ a.order # "edit" => a.pinned = (a.order = "pin")
  BY DEF CopyInv, RepliesFit
<1>5. RepliesFit' /\ LastTells'
  BY <1>1 DEF CopyInv, RepliesFit, LastTells
<1>6. pinLoads' \in [Requests -> PinSlots] /\ PinsFit'
  <2>1. CASE a.order = "edit"
    BY <1>1, <1>2, <2>1 DEF CopyInv, CopyTypes, PinsFit, Silent, Pinned
  <2>2. CASE a.order # "edit"
    BY <1>2, <2>2, InvalidateKeeps DEF CopyInv
  <2> QED BY <2>1, <2>2
<1>7. row' \in [text : Nat, pinned : BOOLEAN]
  <2>1. Copies!Content(a) \in [text : Nat, pinned : BOOLEAN]
    BY <1>3 DEF Copies!Content
  <2>2. [row EXCEPT !.pinned = (a.order = "pin")] \in [text : Nat, pinned : BOOLEAN]
    BY <1>3
  <2> QED BY <1>2, <2>1, <2>2
<1>8. CopyTypes'
  BY <1>1, <1>6, <1>7 DEF CopyInv, CopyTypes
<1>9. RowFits'
  <2> SUFFICES ASSUME Silent("update")
               PROVE  heard = now.rev /\ (~overtaken' => row' = Copies!Content(now))
    BY <1>1 DEF RowFits, Silent, Copies!Content
  <2>1. heard = now.rev /\ (~overtaken => row = Copies!Content(now))
    BY DEF CopyInv, RowFits
  <2>2. CASE a.order = "edit"
    <3>1. row' = Copies!Content(a) /\ (~overtaken' => ~(a.rev < heard))
      BY <1>2, <2>2, Zenon
    <3>2. ~(a.rev < heard) => Copies!Content(a) = Copies!Content(now)
      BY <1>3, <1>4, <2>1 DEF Copies!Content
    <3> QED BY <2>1, <3>1, <3>2
  <2>3. CASE a.order # "edit" /\ ~overtaken'
    <3>4. ~overtaken /\ ~(a.rev < heard)
      BY <1>2, <2>3, Zenon
    <3>1. ~overtaken /\ a.rev = now.rev
      BY <1>3, <1>4, <2>1, <3>4
    <3>2. row = Copies!Content(now) /\ now.pinned = (a.order = "pin")
      BY <1>4, <2>1, <2>3, <3>1
    <3>3. row' = [row EXCEPT !.pinned = now.pinned]
      BY <1>2, <2>3, <3>2
    <3> QED BY <2>1, <3>2, <3>3 DEF Copies!Content
  <2> QED BY <2>1, <2>2, <2>3
<1> QED BY <1>5, <1>6, <1>8, <1>9 DEF CopyInv

\* What the tail of the notices says.
LEMMA NoticeKeeps ==
  ASSUME CopyInv, Copies!HandleNotice
  PROVE  CopyInv'
<1> DEFINE n == Head(notices)
<1>1. UNCHANGED <<replies, now, late>> /\ notices' = Tail(notices) /\ notices # <<>>
  BY DEF Copies!HandleNotice
<1>2. \/ /\ n.event = "update" /\ row' = Copies!Content(n.state) /\ heard' = n.state.rev
         /\ overtaken' = FALSE /\ UNCHANGED <<cache, pinLoads>>
      \/ n.event = "pins" /\ Copies!Invalidate /\ UNCHANGED <<row, heard, overtaken>>
  BY DEF Copies!HandleNotice, Copies!ApplyUpdate
<1>3. notices \in Seq(Posts)
  BY DEF CopyInv, CopyTypes
<1>4. /\ n = notices[1] /\ n \in Posts /\ Len(notices) \in Nat \ {0}
      /\ notices' \in Seq(Posts) /\ Len(notices') = Len(notices) - 1
      /\ \A i \in 1..Len(notices') : notices'[i] = notices[i + 1]
  BY <1>1, <1>3
<1> HIDE DEF n
<1>5. \A i \in 1..Len(notices) : i = 1 \/ (i - 1 \in 1..Len(notices') /\ notices'[i - 1] = notices[i])
  BY <1>4
<1>6. RepliesFit'
  BY <1>1 DEF CopyInv, RepliesFit
<1>7. LastTells'
  <2> SUFFICES ASSUME NEW i \in 1..Len(notices'), notices'[i].event = "update",
                      \A j \in 1..Len(notices') : j > i => notices'[j].event # "update"
               PROVE  notices'[i].state = now
    BY <1>1 DEF LastTells
  <2>1. i + 1 \in 1..Len(notices) /\ notices[i + 1] = notices'[i]
    BY <1>4
  <2>2. \A j \in 1..Len(notices) : j > i + 1 => notices[j].event # "update"
    BY <1>4, <1>5
  <2> QED BY <2>1, <2>2 DEF CopyInv, LastTells
<1>8. n.event # "update" /\ Silent("update")' => Silent("update")
  BY <1>4, <1>5 DEF Silent
<1>9. n.event # "pins" /\ Silent("pins")' => Silent("pins")
  BY <1>4, <1>5 DEF Silent
<1>10. n.event = "update" /\ Silent("update")' => n.state = now
  <2> SUFFICES ASSUME n.event = "update", Silent("update")'
               PROVE  n.state = now
    OBVIOUS
  <2>1. 1 \in 1..Len(notices) /\ notices[1].event = "update"
    BY <1>4
  <2>2. \A j \in 1..Len(notices) : j > 1 => notices[j].event # "update"
    BY <1>4, <1>5 DEF Silent
  <2>3. notices[1].state = now
    BY <2>1, <2>2 DEF CopyInv, LastTells
  <2> QED BY <1>4, <2>3
<1>11. RowFits'
  <2>1. CASE n.event = "update"
    BY <1>1, <1>2, <1>10, <2>1 DEF RowFits
  <2>2. CASE n.event # "update"
    BY <1>1, <1>2, <1>8, <2>2 DEF CopyInv, RowFits, Copies!Content
  <2> QED BY <2>1, <2>2
<1>12. pinLoads' \in [Requests -> PinSlots] /\ PinsFit'
  <2>1. CASE n.event = "pins"
    BY <1>2, <2>1, InvalidateKeeps DEF CopyInv
  <2>2. CASE n.event # "pins"
    BY <1>1, <1>2, <1>9, <2>2 DEF CopyInv, CopyTypes, PinsFit, Pinned
  <2> QED BY <2>1, <2>2
<1>13. row' \in [text : Nat, pinned : BOOLEAN] /\ heard' \in Nat
  BY <1>2, <1>4 DEF Posts, Copies!Content, CopyInv, CopyTypes
<1>14. CopyTypes'
  BY <1>1, <1>4, <1>12, <1>13 DEF CopyInv, CopyTypes
<1> QED BY <1>6, <1>7, <1>11, <1>12, <1>14 DEF CopyInv

LEMMA ChangeKeeps ==
  ASSUME CopyInv, NEW o \in {"edit", "pin", "unpin"}, Copies!Carry(o) \/ Copies!Other(o)
  PROVE  CopyInv'
<1> DEFINE Told1 == [event |-> "update", state |-> now']
           Told2 == [event |-> "pins", state |-> now']
           reply == [order |-> o, text |-> now'.text, pinned |-> now'.pinned, rev |-> now'.rev]
<1>1. /\ Copies!Change(o) /\ UNCHANGED <<row, cache, pinLoads, heard, overtaken, late>>
      /\ replies' \in {replies, replies \cup {reply}}
  BY DEF Copies!Carry, Copies!Other, Copies!copyVars
<1>2. \/ /\ o = "edit" /\ now' = [now EXCEPT !.text = now.rev + 1, !.rev = @ + 1]
         /\ notices' = Append(notices, Told1)
      \/ /\ o # "edit" /\ now' = [now EXCEPT !.pinned = (o = "pin"), !.rev = @ + 1]
         /\ notices' = notices \o <<Told1, Told2>>
  BY <1>1 DEF Copies!Change, Copies!Notice
<1>3. /\ now \in [text : Nat, pinned : BOOLEAN, rev : Nat] /\ notices \in Seq(Posts)
      /\ replies \subseteq [order : {"edit", "pin", "unpin"}, text : Nat, pinned : BOOLEAN, rev : Nat]
  BY DEF CopyInv, CopyTypes
<1>4. /\ now' \in [text : Nat, pinned : BOOLEAN, rev : Nat] /\ now'.rev = now.rev + 1
      /\ o = "edit" => now'.pinned = now.pinned
      /\ o # "edit" => now'.pinned = (o = "pin")
  <2>1. CASE o = "edit"
    <3>1. now' = [text |-> now.rev + 1, pinned |-> now.pinned, rev |-> now.rev + 1]
      BY <1>2, <1>3, <2>1
    <3> QED BY <1>3, <2>1, <3>1
  <2>2. CASE o # "edit"
    <3>1. now' = [text |-> now.text, pinned |-> (o = "pin"), rev |-> now.rev + 1]
      BY <1>2, <1>3, <2>2
    <3> QED BY <1>3, <2>2, <3>1
  <2> QED BY <2>1, <2>2
<1>5. Told1 \in Posts /\ Told2 \in Posts /\ Told1.event = "update" /\ Told1.state = now' /\ Told2.event = "pins"
  BY <1>4 DEF Posts
<1>6. /\ reply \in [order : {"edit", "pin", "unpin"}, text : Nat, pinned : BOOLEAN, rev : Nat]
      /\ reply.rev = now'.rev /\ reply.text = now'.text /\ reply.pinned = now'.pinned /\ reply.order = o
  BY <1>4
<1> HIDE DEF Told1, Told2, reply
<1>7. /\ notices' \in Seq(Posts) /\ Len(notices) + 1 \in 1..Len(notices') /\ notices'[Len(notices) + 1] = Told1
      /\ \A i \in 1..Len(notices) : i \in 1..Len(notices') /\ notices'[i] = notices[i]
      /\ \A i \in 1..Len(notices') : i <= Len(notices) \/ i = Len(notices) + 1
                                    \/ (i = Len(notices) + 2 /\ notices'[i] = Told2)
      /\ o # "edit" => Len(notices) + 2 \in 1..Len(notices') /\ notices'[Len(notices) + 2] = Told2
  <2>1. CASE o = "edit"
    <3>1. notices' = Append(notices, Told1)
      BY <1>2, <2>1
    <3> QED BY <1>3, <1>5, <2>1, <3>1
  <2>2. CASE o # "edit"
    <3>1. notices' = notices \o <<Told1, Told2>>
      BY <1>2, <2>2
    <3>2. <<Told1, Told2>> \in Seq(Posts) /\ Len(<<Told1, Told2>>) = 2
          /\ <<Told1, Told2>>[1] = Told1 /\ <<Told1, Told2>>[2] = Told2
      BY <1>5
    <3>3. /\ notices' \in Seq(Posts) /\ Len(notices) \in Nat /\ Len(notices') = Len(notices) + 2
          /\ \A i \in 1..Len(notices) : notices'[i] = notices[i]
      BY <1>3, <3>1, <3>2
    <3>4. notices'[Len(notices) + 1] = Told1 /\ notices'[Len(notices) + 2] = Told2
      BY <1>3, <3>1, <3>2
    <3> QED BY <2>2, <3>3, <3>4
  <2> QED BY <2>1, <2>2
<1>8. RepliesFit'
  BY <1>1, <1>3, <1>4, <1>6 DEF CopyInv, RepliesFit
<1>9. LastTells'
  <2> SUFFICES ASSUME NEW i \in 1..Len(notices'), notices'[i].event = "update",
                      \A j \in 1..Len(notices') : j > i => notices'[j].event # "update"
               PROVE  notices'[i].state = now'
    BY DEF LastTells
  <2>1. ~(i <= Len(notices))
    <3>1. Len(notices) \in Nat
      BY <1>3
    <3> QED BY <1>5, <1>7, <3>1
  <2> QED BY <1>5, <1>7, <2>1
<1>10. ~Silent("update")'
  BY <1>5, <1>7 DEF Silent
<1>11. PinsFit'
  <2>1. o = "edit" => Pinned' = Pinned
    BY <1>4 DEF Pinned
  <2>2. o # "edit" => ~Silent("pins")'
    BY <1>5, <1>7 DEF Silent
  <2>3. Silent("pins")' => Silent("pins")
    BY <1>7 DEF Silent
  <2> QED BY <1>1, <2>1, <2>2, <2>3 DEF CopyInv, PinsFit
<1>12. CopyTypes'
  BY <1>1, <1>3, <1>4, <1>6, <1>7 DEF CopyInv, CopyTypes
<1> QED BY <1>8, <1>9, <1>10, <1>11, <1>12 DEF CopyInv, RowFits

\* Once all answers and events are in, the row is the message and cached pins are
\* those of the channel, whatever was edited and pinned here and elsewhere: unless
\* an overtaken answer was the last to change the row, or a late one filled the cache
\* (stores.ts 820-868, 1067-1079).
THEOREM CopiesAgree == Spec => []CopiesAgreeUnlessRaced
<1>1. Init => CopyInv
  <2> SUFFICES ASSUME Init
               PROVE  CopyInv
    OBVIOUS
  <2>1. /\ now \in [text : 0..MaxRevisions, pinned : BOOLEAN, rev : 0..MaxRevisions] /\ now.rev = 0
        /\ row = Copies!Content(now) /\ cache = "none" /\ pinLoads = [f \in Requests |-> Copies!Idle]
        /\ replies = {} /\ notices = <<>> /\ heard = 0
    BY DEF Init, Copies!Init, Copies!States
  <2>2. now \in [text : Nat, pinned : BOOLEAN, rev : Nat] /\ row \in [text : Nat, pinned : BOOLEAN]
    BY <2>1, StoreConstants DEF Copies!Content
  <2>3. Copies!Idle \in PinSlots /\ Copies!Idle.step = "idle"
    BY DEF Copies!Idle, PinSlots
  <2>4. CopyTypes
    BY <2>1, <2>2, <2>3 DEF CopyTypes
  <2>5. RepliesFit /\ LastTells /\ RowFits /\ PinsFit
    BY <2>1, <2>3 DEF RepliesFit, LastTells, RowFits, PinsFit
  <2> QED BY <2>4, <2>5 DEF CopyInv
<1>2. CopyInv => CopiesAgreeUnlessRaced
  <2> SUFFICES ASSUME CopyInv, replies = {}, notices = <<>>
               PROVE  /\ ~overtaken => row = Copies!Content(now)
                      /\ ~late /\ cache # "none" => (cache = "in" <=> now.pinned)
    BY DEF CopiesAgreeUnlessRaced, Copies!CopiesAgreeUnlessRaced
  <2>1. Silent("update") /\ Silent("pins")
    BY DEF Silent
  <2> QED BY <2>1 DEF CopyInv, RowFits, PinsFit, Pinned
<1>3. CopyInv /\ [Next]_vars => CopyInv'
  <2> SUFFICES ASSUME CopyInv, [Next]_vars
               PROVE  CopyInv'
    OBVIOUS
  <2>1. CASE UNCHANGED copyVars
    <3>1. UNCHANGED <<row, cache, pinLoads, replies, now, notices, heard, overtaken, late>>
      BY <2>1 DEF copyVars
    <3> QED BY <3>1 DEF CopyInv, CopyTypes, RepliesFit, LastTells, RowFits, PinsFit, Silent, Pinned, Copies!Content
  <2>2. CASE Copies!Next
    BY <2>2, PinLoadsKeep, ReplyKeeps, NoticeKeeps, ChangeKeeps DEF Copies!Next, Copies!Orders
  <2> QED BY <2>1, <2>2 DEF Next, FetchedNext, fetchedVars, vars
<1> QED BY <1>1, <1>2, <1>3, PTL DEF Spec

-----------------------------------------------------------------------------
(* The chip of a reaction: types. *)

Asks == [kind : Chip!Kinds, user : People, toggle : BOOLEAN, waiting : BOOLEAN, served : BOOLEAN]
Echoes == [kind : Chip!Kinds \cup {"update"}, user : People]
Chips == [count : Nat, me : BOOLEAN]
Proper(c) == c \in Chips /\ (c.me => c.count > 0)
Clicks(q) == \A k \in DOMAIN q : q[k].toggle => q[k].kind # "clear"

\* The counts of a finite set are those of the library.
LEMMA ChipCounts == ASSUME NEW S PROVE Chip!Cardinality(S) = Cardinality(S)
  BY DEF Chip!Cardinality, Cardinality

LEMMA ChipFinite ==
  ASSUME NEW S \in SUBSET People
  PROVE  IsFiniteSet(S) /\ Cardinality(S) \in Nat
  BY StoreConstants, FS_Subset, FS_CardinalityType

LEMMA LessIsProper ==
  ASSUME NEW c \in Chips, NEW b \in BOOLEAN
  PROVE  Proper(Chip!Less(c, b))
  BY DEF Chips, Proper, Chip!Less, Chip!None

\* What a click or an event makes of a chip is a chip again.
LEMMA ChangedIsProper ==
  ASSUME NEW c \in Chips, NEW kind \in Chip!Kinds, NEW user
  PROVE  /\ kind # "clear" => Proper(Chip!Own(c, kind))
         /\ Proper(Chip!Applied(c, kind, user))
<1>1. CASE kind = "add"
  BY <1>1 DEF Chips, Proper, Chip!Own, Chip!Applied
<1>2. CASE kind = "remove"
  <2>1. Proper(Chip!Less(c, FALSE)) /\ Proper(Chip!Less(c, c.me /\ user # Me))
    BY LessIsProper DEF Chips
  <2> QED BY <1>2, <2>1 DEF Chip!Own, Chip!Applied
<1>3. CASE kind = "clear"
  BY <1>3 DEF Chips, Proper, Chip!Applied, Chip!None
<1> QED BY <1>1, <1>2, <1>3 DEF Chip!Kinds

\* A request that is marked stays a request.
LEMMA MarkedRequests ==
  ASSUME asked \in Seq(Asks), NEW k \in DOMAIN asked
  PROVE  /\ asked[k] \in Asks
         /\ [asked EXCEPT ![k].waiting = FALSE] \in Seq(Asks)
         /\ [asked EXCEPT ![k].served = TRUE] \in Seq(Asks)
         /\ Clicks(asked) => /\ Clicks([asked EXCEPT ![k].waiting = FALSE])
                             /\ Clicks([asked EXCEPT ![k].served = TRUE])
<1>1. asked[k] \in Asks /\ asked \in [1..Len(asked) -> Asks] /\ Len(asked) \in Nat
  OBVIOUS
<1>2. [asked[k] EXCEPT !.waiting = FALSE] \in Asks /\ [asked[k] EXCEPT !.served = TRUE] \in Asks
  BY <1>1 DEF Asks
<1>3. ASSUME NEW a \in Asks
      PROVE  /\ [asked EXCEPT ![k] = a] \in Seq(Asks)
             /\ Clicks(asked) /\ a.toggle = asked[k].toggle /\ a.kind = asked[k].kind
                  => Clicks([asked EXCEPT ![k] = a])
  BY DEF Clicks
<1>4. /\ [asked[k] EXCEPT !.waiting = FALSE].toggle = asked[k].toggle
      /\ [asked[k] EXCEPT !.waiting = FALSE].kind = asked[k].kind
      /\ [asked[k] EXCEPT !.served = TRUE].toggle = asked[k].toggle
      /\ [asked[k] EXCEPT !.served = TRUE].kind = asked[k].kind
  BY <1>1 DEF Asks
<1> QED BY <1>1, <1>2, <1>3, <1>4

\* A request is added to those there are.
LEMMA AskedRequests ==
  ASSUME asked \in Seq(Asks), Clicks(asked),
         NEW kind \in Chip!Kinds, NEW user \in People, NEW t \in BOOLEAN,
         Chip!Ask(kind, user, t)
  PROVE  /\ asked' \in Seq(Asks) /\ Len(asked') = Len(asked) + 1 /\ Len(asked) + 1 \in 0..MaxRequests
         /\ asked'[Len(asked) + 1] = Chip!Request(kind, user, t)
         /\ \A k \in DOMAIN asked : asked'[k] = asked[k]
         /\ (t => kind # "clear") => Clicks(asked')
<1>1. Chip!Request(kind, user, t) \in Asks /\ Chip!Request(kind, user, t).toggle = t
      /\ Chip!Request(kind, user, t).kind = kind
  BY DEF Asks, Chip!Request
<1>2. asked' = Append(asked, Chip!Request(kind, user, t)) /\ Len(asked) < MaxRequests
  BY DEF Chip!Ask
<1>3. MaxRequests \in Nat
  BY StoreConstants
<1>4. /\ asked' \in Seq(Asks) /\ Len(asked') = Len(asked) + 1 /\ Len(asked) \in Nat
      /\ asked'[Len(asked) + 1] = Chip!Request(kind, user, t)
      /\ \A k \in DOMAIN asked : asked'[k] = asked[k]
      /\ DOMAIN asked = 1..Len(asked) /\ DOMAIN asked' = 1..(Len(asked) + 1)
  BY <1>1, <1>2
<1>5. ASSUME t => kind # "clear" PROVE Clicks(asked')
  BY <1>1, <1>4, <1>5 DEF Clicks
<1> QED BY <1>2, <1>3, <1>4, <1>5

LEMMA AfterTypes ==
  ASSUME NEW R \in SUBSET People, NEW kind \in Chip!Kinds \cup {"update"}, NEW user \in People
  PROVE  Chip!After(R, kind, user) \in {R \cup {user}, R \ {user}, {}, R}
  BY DEF Chip!After, Chip!Kinds

\* The chip of a message that is counted anew.
LEMMA OfIsProper ==
  ASSUME NEW S \in SUBSET People
  PROVE  /\ Proper(Chip!Of(S)) /\ Chip!Of(S).count = Cardinality(S) /\ (Chip!Of(S).me <=> Me \in S)
         /\ Proper(Chip!None)
<1> DEFINE d == Chip!Of(S)
<1>1. d = [count |-> Cardinality(S), me |-> Me \in S]
  BY ChipCounts DEF Chip!Of
<1> HIDE DEF d
<1>2. IsFiniteSet(S) /\ Cardinality(S) \in Nat
  BY ChipFinite
<1>3. Me \in S => Cardinality(S) > 0
  BY <1>2, FS_EmptySet
<1>4. (Me \in S) \in BOOLEAN
  OBVIOUS
<1>5. d.count = Cardinality(S) /\ (d.me <=> Me \in S)
  BY <1>1
<1>6. d \in Chips
  BY <1>1, <1>2, <1>4 DEF Chips
<1>7. Proper(Chip!None)
  BY DEF Chip!None, Proper, Chips
<1> QED BY <1>2, <1>3, <1>5, <1>6, <1>7 DEF Proper, d

LEMMA ChangeTypes ==
  ASSUME Chip!TypeOK, NEW kind \in Chip!Kinds, NEW user \in People, Chip!Change(kind, user)
  PROVE  /\ reactors' \subseteq People /\ echoes' \in Seq(Echoes) /\ Len(echoes') <= MaxEchoes
         /\ UNCHANGED <<copies, counted>>
<1>1. [kind |-> kind, user |-> user] \in Echoes /\ echoes \in Seq(Echoes) /\ reactors \subseteq People
  BY DEF Chip!TypeOK, Echoes
<1>2. /\ Len(echoes') <= MaxEchoes
      /\ reactors' = Chip!After(reactors, kind, user)
      /\ echoes' \in {echoes, Append(echoes, [kind |-> kind, user |-> user])}
      /\ UNCHANGED <<copies, counted>>
  BY DEF Chip!Change
<1> QED BY <1>1, <1>2, AfterTypes

LEMMA ChipTypesKeep ==
  ASSUME Chip!TypeOK, Chip!Next
  PROVE  Chip!TypeOK'
<1> DEFINE Good == /\ Proper(chip)' /\ asked' \in Seq(Asks) /\ Clicks(asked)' /\ reactors' \subseteq People
                   /\ echoes' \in Seq(Echoes) /\ Len(echoes') <= MaxEchoes
                   /\ copies' \subseteq SUBSET People /\ counted' \subseteq People
                   /\ earlier'.request \in 0..MaxRequests /\ earlier'.chip.me \in BOOLEAN /\ unsure' \in BOOLEAN
<1>1. /\ Proper(chip) /\ asked \in Seq(Asks) /\ Clicks(asked) /\ reactors \subseteq People
      /\ echoes \in Seq(Echoes) /\ Len(echoes) <= MaxEchoes
      /\ copies \subseteq SUBSET People /\ counted \subseteq People
      /\ earlier.request \in 0..MaxRequests /\ earlier.chip.me \in BOOLEAN /\ unsure \in BOOLEAN
  BY DEF Chip!TypeOK, Asks, Echoes, Proper, Chips, Clicks
<1>2. Me \in People /\ MaxRequests \in Nat /\ MaxEchoes \in Nat
  BY StoreConstants
<1>3. /\ Chip!NoToggle.request \in 0..MaxRequests /\ Chip!NoToggle.chip.me \in BOOLEAN /\ Proper(Chip!None)
  <2>1. Proper(Chip!None) /\ Chip!None.me \in BOOLEAN
    BY DEF Chip!None, Proper, Chips
  <2>2. Chip!NoToggle.request = 0 /\ Chip!NoToggle.chip = Chip!None
    BY DEF Chip!NoToggle
  <2> QED BY <1>2, <2>1, <2>2
<1>4. chip \in Chips /\ chip.me \in BOOLEAN
  BY <1>1 DEF Proper, Chips
<1>5. ASSUME NEW kind \in {"add", "remove"}, Chip!Toggle(kind) PROVE Good
  <2>1. Proper(Chip!Own(chip, kind))
    BY <1>4, ChangedIsProper DEF Chip!Kinds
  <2>2. /\ asked' \in Seq(Asks) /\ Clicks(asked') /\ Len(asked) + 1 \in 0..MaxRequests
        /\ UNCHANGED <<reactors, echoes, copies, counted>>
    <3>1. Chip!Ask(kind, Me, TRUE) /\ kind \in Chip!Kinds /\ kind # "clear"
      BY <1>5 DEF Chip!Toggle, Chip!Kinds
    <3> QED BY <1>1, <1>2, <3>1, AskedRequests DEF Chip!Ask, Chip!serverVars
  <2> QED BY <1>1, <1>4, <1>5, <2>1, <2>2 DEF Chip!Toggle
<1>6. ASSUME NEW user \in People, Chip!ModalRemove(user) PROVE Good
  <2>1. Proper(Chip!Applied(chip, "remove", user))
    BY <1>4, ChangedIsProper DEF Chip!Kinds
  <2>2. asked' \in Seq(Asks) /\ Clicks(asked') /\ UNCHANGED <<reactors, echoes, copies, counted>>
    <3>1. Chip!Ask("remove", user, FALSE) /\ "remove" \in Chip!Kinds
      BY <1>6 DEF Chip!ModalRemove, Chip!Kinds
    <3> QED BY <1>1, <3>1, AskedRequests DEF Chip!Ask, Chip!serverVars
  <2> QED BY <1>1, <1>3, <1>6, <2>1, <2>2 DEF Chip!ModalRemove
<1>7. ASSUME Chip!ModalClear PROVE Good
  <2>1. asked' \in Seq(Asks) /\ Clicks(asked') /\ UNCHANGED <<reactors, echoes, copies, counted>>
    <3>1. Chip!Ask("clear", Me, FALSE) /\ "clear" \in Chip!Kinds
      BY <1>7 DEF Chip!ModalClear, Chip!Kinds
    <3> QED BY <1>1, <1>2, <3>1, AskedRequests DEF Chip!Ask, Chip!serverVars
  <2> QED BY <1>1, <1>3, <1>7, <2>1 DEF Chip!ModalClear
<1>8. ASSUME NEW k \in DOMAIN asked, Chip!Answer(k) PROVE Good
  BY <1>1, <1>8, MarkedRequests DEF Chip!Answer, Chip!serverVars
<1>9. ASSUME NEW k \in DOMAIN asked, Chip!Fail(k) PROVE Good
  <2>1. asked[k] \in Asks
    BY <1>1, MarkedRequests
  <2>2. Proper(Chip!Own(chip, "remove")) /\ Proper(Chip!Own(chip, "add"))
    BY <1>4, ChangedIsProper DEF Chip!Kinds
  <2>3. asked[k].toggle => asked[k].kind # "clear"
    BY <1>1 DEF Clicks
  <2>4. Proper(chip)'
    BY <1>1, <1>9, <2>1, <2>2, <2>3 DEF Chip!Fail, Asks, Chip!Kinds
  <2>5. asked' \in Seq(Asks) /\ Clicks(asked')
    BY <1>1, <1>9, MarkedRequests DEF Chip!Fail
  <2> QED BY <1>1, <1>3, <1>9, <2>1, <2>4, <2>5 DEF Chip!Fail, Chip!serverVars, Asks
<1>10. ASSUME NEW k \in DOMAIN asked, Chip!Serve(k) PROVE Good
  <2>1. asked[k].kind \in Chip!Kinds /\ asked[k].user \in People /\ asked[k].waiting \in BOOLEAN
    BY <1>1, MarkedRequests DEF Asks
  <2>2. /\ reactors' \subseteq People /\ echoes' \in Seq(Echoes) /\ Len(echoes') <= MaxEchoes
        /\ UNCHANGED <<copies, counted>>
    BY <1>10, <2>1, ChangeTypes DEF Chip!Serve
  <2> QED BY <1>1, <1>10, <2>1, <2>2, MarkedRequests DEF Chip!Serve
<1>11. ASSUME Chip!ApplyEvent PROVE Good
  <2>1. /\ Head(echoes) \in Echoes /\ echoes' \in Seq(Echoes) /\ Len(echoes') <= MaxEchoes
        /\ UNCHANGED <<asked, reactors, copies>> /\ earlier' = Chip!NoToggle
    BY <1>1, <1>2, <1>11 DEF Chip!ApplyEvent
  <2>2. unsure' \in BOOLEAN
    BY <1>1, <1>11 DEF Chip!ApplyEvent
  <2>3. Proper(chip)'
    BY <1>1, <1>4, <1>11, ChangedIsProper, OfIsProper DEF Chip!ApplyEvent
  <2>4. counted' \subseteq People
    BY <1>1, <1>11, <2>1, AfterTypes DEF Chip!ApplyEvent, Echoes
  <2> QED BY <1>1, <1>3, <2>1, <2>2, <2>3, <2>4
<1>12. ASSUME NEW kind \in Chip!Kinds, NEW user \in People, Chip!Other(kind, user) PROVE Good
  BY <1>1, <1>12, ChangeTypes DEF Chip!Other
<1>13. ASSUME Chip!Update PROVE Good
  <2>1. [kind |-> "update", user |-> Me] \in Echoes
    BY <1>2 DEF Echoes
  <2> QED BY <1>1, <1>2, <1>13, <2>1 DEF Chip!Update
<1>14. ASSUME Chip!Copy PROVE Good
  BY <1>1, <1>14 DEF Chip!Copy
<1>15. ASSUME NEW S \in SUBSET People, Chip!Replace(S) PROVE Good
  <2>1. Proper(chip)'
    BY <1>15, OfIsProper DEF Chip!Replace
  <2> QED BY <1>1, <1>3, <1>15, <2>1 DEF Chip!Replace
<1>16. Good
  BY <1>5, <1>6, <1>7, <1>8, <1>9, <1>10, <1>11, <1>12, <1>13, <1>14, <1>15 DEF Chip!Next
<1> QED BY <1>16 DEF Chip!TypeOK, Proper, Asks, Echoes, Chips, Clicks

LEMMA ChipTypesStart ==
  ASSUME Chip!Init
  PROVE  Chip!TypeOK
<1>1. reactors \in SUBSET People /\ counted = reactors /\ copies = {} /\ chip = Chip!Of(reactors)
  BY DEF Chip!Init
<1>4. chip \in [count : Nat, me : BOOLEAN] /\ (chip.me => chip.count > 0)
  BY <1>1, OfIsProper DEF Proper, Chips
<1>5. 0 \in 0..MaxRequests /\ 0 <= MaxEchoes
  BY StoreConstants
<1>6. earlier.request \in 0..MaxRequests /\ earlier.chip.me \in BOOLEAN
  <2>1. earlier.request = 0 /\ earlier.chip = Chip!None
    BY DEF Chip!Init, Chip!NoToggle
  <2>2. Chip!None.me \in BOOLEAN
    BY DEF Chip!None
  <2> QED BY <1>5, <2>1, <2>2
<1>7. asked = <<>> /\ echoes = <<>> /\ unsure = FALSE
  BY DEF Chip!Init
<1>8. /\ asked \in Seq([kind : Chip!Kinds, user : People, toggle : BOOLEAN, waiting : BOOLEAN, served : BOOLEAN])
      /\ echoes \in Seq([kind : Chip!Kinds \cup {"update"}, user : People]) /\ Len(echoes) = 0 /\ DOMAIN asked = {}
  BY <1>7
<1> QED BY <1>1, <1>4, <1>5, <1>6, <1>7, <1>8 DEF Chip!TypeOK

LEMMA ChipMoves ==
  ASSUME [Next]_vars
  PROVE  Chip!Next \/ UNCHANGED chipVars
  BY DEF Next, FetchedNext, vars

LEMMA ChipTypesStep ==
  ASSUME Chip!TypeOK, [Next]_vars
  PROVE  Chip!TypeOK'
<1>1. CASE UNCHANGED chipVars
  BY <1>1 DEF Chip!TypeOK, chipVars
<1> QED BY <1>1, ChipMoves, ChipTypesKeep

-----------------------------------------------------------------------------
(* The chip of a reaction: whether the user reacted.  S, the observer's    *)
(* counted, is who had reacted when the events that are applied were sent; *)
(* those on their way lead from S to what the server has.                  *)

Puts(e, w)  == e.kind = "add" /\ e.user = w
Takes(e, w) == e.kind = "clear" \/ (e.kind = "remove" /\ e.user = w)
About(e, w) == Puts(e, w) \/ Takes(e, w)
After(R, e) == CASE e.kind = "add" -> R \cup {e.user}
                 [] e.kind = "remove" -> R \ {e.user}
                 [] e.kind = "clear" -> {}
                 [] e.kind = "update" -> R

\* The last event about a user tells whether he reacted; who is removed was there.
Leads(S, q, R, w) ==
  /\ (\A i \in DOMAIN q : ~About(q[i], w)) => (w \in S <=> w \in R)
  /\ \A i \in DOMAIN q : Takes(q[i], w) /\ (\A j \in DOMAIN q : j > i => ~Puts(q[j], w)) => w \notin R
  /\ \A i \in DOMAIN q : Puts(q[i], w) /\ (\A j \in DOMAIN q : j > i => ~Takes(q[j], w)) => w \in R
  /\ \A j \in DOMAIN q : q[j].kind = "remove" /\ q[j].user = w =>
       /\ (\A i \in DOMAIN q : i < j => ~About(q[i], w)) => w \in S
       /\ \A i \in DOMAIN q : i < j /\ About(q[i], w) /\ (\A k \in DOMAIN q : i < k /\ k < j => ~About(q[k], w))
            => Puts(q[i], w)

\* An event is appended when it changes who reacted, or is an update.
LEMMA LeadsGrow ==
  ASSUME NEW S \in SUBSET People, NEW R \in SUBSET People, NEW q \in Seq(Echoes), NEW e \in Echoes,
         NEW w \in People, Leads(S, q, R, w), After(R, e) # R \/ e.kind = "update"
  PROVE  Leads(S, Append(q, e), After(R, e), w)
<1> DEFINE p == Append(q, e)
           n == Len(q) + 1
<1>1. /\ p \in Seq(Echoes) /\ DOMAIN p = 1..n /\ DOMAIN q = 1..(n - 1) /\ p[n] = e /\ n \in Nat /\ n >= 1
      /\ \A i \in 1..(n - 1) : p[i] = q[i]
  OBVIOUS
<1>2. /\ Puts(e, w) => w \in After(R, e)
      /\ Takes(e, w) => w \notin After(R, e)
      /\ ~About(e, w) => (w \in After(R, e) <=> w \in R)
      /\ e.kind = "remove" /\ e.user = w => w \in R
      /\ ~(Puts(e, w) /\ Takes(e, w))
  BY DEF Echoes, Chip!Kinds, Puts, Takes, About, After
<1> HIDE DEF p, n
<1>3. (\A i \in DOMAIN p : ~About(p[i], w)) => (w \in S <=> w \in After(R, e))
  BY <1>1, <1>2 DEF Leads
<1>4. ASSUME NEW i \in DOMAIN p, Takes(p[i], w), \A j \in DOMAIN p : j > i => ~Puts(p[j], w)
      PROVE  w \notin After(R, e)
  <2>1. CASE i = n
    BY <1>1, <1>2, <1>4, <2>1
  <2>2. CASE i # n
    <3>1. i \in DOMAIN q /\ Takes(q[i], w) /\ ~Puts(e, w) /\ \A j \in DOMAIN q : j > i => ~Puts(q[j], w)
      BY <1>1, <1>4, <2>2
    <3>2. w \notin R
      BY <3>1 DEF Leads
    <3> QED BY <1>2, <3>1, <3>2 DEF About
  <2> QED BY <2>1, <2>2
<1>5. ASSUME NEW i \in DOMAIN p, Puts(p[i], w), \A j \in DOMAIN p : j > i => ~Takes(p[j], w)
      PROVE  w \in After(R, e)
  <2>1. CASE i = n
    BY <1>1, <1>2, <1>5, <2>1
  <2>2. CASE i # n
    <3>1. i \in DOMAIN q /\ Puts(q[i], w) /\ ~Takes(e, w) /\ \A j \in DOMAIN q : j > i => ~Takes(q[j], w)
      BY <1>1, <1>5, <2>2
    <3>2. w \in R
      BY <3>1 DEF Leads
    <3> QED BY <1>2, <3>1, <3>2 DEF About
  <2> QED BY <2>1, <2>2
<1>6. ASSUME NEW j \in DOMAIN p, p[j].kind = "remove", p[j].user = w
      PROVE  /\ (\A i \in DOMAIN p : i < j => ~About(p[i], w)) => w \in S
             /\ \A i \in DOMAIN p : i < j /\ About(p[i], w) /\ (\A k \in DOMAIN p : i < k /\ k < j => ~About(p[k], w))
                  => Puts(p[i], w)
  <2>1. CASE j = n
    <3>1. w \in R
      BY <1>1, <1>2, <1>6, <2>1
    <3>2. (\A i \in DOMAIN p : i < j => ~About(p[i], w)) => w \in S
      BY <1>1, <2>1, <3>1 DEF Leads
    <3>3. ASSUME NEW i \in DOMAIN p, i < j, About(p[i], w), \A k \in DOMAIN p : i < k /\ k < j => ~About(p[k], w)
          PROVE  Puts(p[i], w)
      <4>1. i \in DOMAIN q /\ p[i] = q[i] /\ \A k \in DOMAIN q : k > i => ~Puts(q[k], w)
        BY <1>1, <2>1, <3>3 DEF About
      <4>2. ~Takes(q[i], w)
        BY <3>1, <4>1 DEF Leads
      <4> QED BY <3>3, <4>1, <4>2 DEF About
    <3> QED BY <3>2, <3>3
  <2>2. CASE j # n
    <3>1. j \in DOMAIN q /\ p[j] = q[j] /\ \A i \in DOMAIN p : i < j => i \in DOMAIN q /\ p[i] = q[i]
      BY <1>1, <2>2
    <3>2. \A i \in DOMAIN q : i \in DOMAIN p /\ p[i] = q[i]
      BY <1>1
    <3>3. (\A i \in DOMAIN p : i < j => ~About(p[i], w)) => w \in S
      BY <1>6, <3>1, <3>2 DEF Leads
    <3>4. ASSUME NEW i \in DOMAIN p, i < j, About(p[i], w), \A k \in DOMAIN p : i < k /\ k < j => ~About(p[k], w)
          PROVE  Puts(p[i], w)
      <4>1. i \in DOMAIN q /\ About(q[i], w) /\ \A k \in DOMAIN q : i < k /\ k < j => ~About(q[k], w)
        BY <3>1, <3>2, <3>4
      <4> QED BY <1>6, <3>1, <3>4, <4>1 DEF Leads
    <3> QED BY <3>3, <3>4
  <2> QED BY <2>1, <2>2
<1> QED BY <1>3, <1>4, <1>5, <1>6 DEF Leads, p

\* The first event is applied.
LEMMA LeadsShift ==
  ASSUME NEW S \in SUBSET People, NEW R \in SUBSET People, NEW q \in Seq(Echoes), q # <<>>,
         NEW w \in People, Leads(S, q, R, w)
  PROVE  /\ Leads(After(S, Head(q)), Tail(q), R, w)
         /\ Head(q) \in Echoes
         /\ Head(q).kind = "remove" /\ Head(q).user = w => w \in S
<1> DEFINE p == Tail(q)
           e == Head(q)
           n == Len(q)
           T == After(S, e)
<1>1. /\ p \in Seq(Echoes) /\ n \in Nat /\ n >= 1 /\ DOMAIN p = 1..(n - 1) /\ DOMAIN q = 1..n /\ q[1] = e /\ e \in Echoes
      /\ \A i \in 1..(n - 1) : p[i] = q[i + 1]
  OBVIOUS
<1>2. /\ Puts(e, w) => w \in T
      /\ Takes(e, w) => w \notin T
      /\ ~About(e, w) => (w \in T <=> w \in S)
  BY <1>1 DEF Echoes, Chip!Kinds, Puts, Takes, About, After
<1> HIDE DEF p, e, n, T
<1>3. \A i \in DOMAIN q : i \in Int /\ (i = 1 \/ (i > 1 /\ i - 1 \in DOMAIN p /\ q[i] = p[i - 1]))
  BY <1>1
<1>4. ASSUME \A i \in DOMAIN p : ~About(p[i], w)
      PROVE  w \in T <=> w \in R
  <2>1. \A i \in DOMAIN q : i > 1 => ~Puts(q[i], w) /\ ~Takes(q[i], w)
    <3>1. ASSUME NEW i \in DOMAIN q, i > 1 PROVE ~About(q[i], w)
      <4>1. i - 1 \in DOMAIN p /\ q[i] = p[i - 1]
        BY <1>3, <3>1
      <4> QED BY <1>4, <4>1
    <3> QED BY <3>1 DEF About
  <2>2. CASE Puts(e, w)
    BY <1>1, <1>2, <2>1, <2>2 DEF Leads
  <2>3. CASE Takes(e, w)
    BY <1>1, <1>2, <2>1, <2>3 DEF Leads
  <2>4. CASE ~About(e, w)
    <3>1. \A i \in DOMAIN q : ~About(q[i], w)
      BY <1>1, <2>1, <2>4 DEF About
    <3> QED BY <1>2, <2>4, <3>1 DEF Leads
  <2> QED BY <2>2, <2>3, <2>4 DEF About
<1>5. ASSUME NEW i \in DOMAIN p, Takes(p[i], w), \A j \in DOMAIN p : j > i => ~Puts(p[j], w)
      PROVE  w \notin R
  <2>1. i + 1 \in DOMAIN q /\ Takes(q[i + 1], w) /\ \A j \in DOMAIN q : j > i + 1 => ~Puts(q[j], w)
    <3>1. ASSUME NEW j \in DOMAIN q, j > i + 1 PROVE ~Puts(q[j], w)
      <4>1. j - 1 \in DOMAIN p /\ j - 1 > i /\ q[j] = p[j - 1]
        BY <1>1, <1>3, <3>1
      <4> QED BY <1>5, <4>1
    <3> QED BY <1>1, <1>5, <3>1
  <2> QED BY <2>1 DEF Leads
<1>6. ASSUME NEW i \in DOMAIN p, Puts(p[i], w), \A j \in DOMAIN p : j > i => ~Takes(p[j], w)
      PROVE  w \in R
  <2>1. i + 1 \in DOMAIN q /\ Puts(q[i + 1], w) /\ \A j \in DOMAIN q : j > i + 1 => ~Takes(q[j], w)
    <3>1. ASSUME NEW j \in DOMAIN q, j > i + 1 PROVE ~Takes(q[j], w)
      <4>1. j - 1 \in DOMAIN p /\ j - 1 > i /\ q[j] = p[j - 1]
        BY <1>1, <1>3, <3>1
      <4> QED BY <1>6, <4>1
    <3> QED BY <1>1, <1>6, <3>1
  <2> QED BY <2>1 DEF Leads
<1>7. ASSUME NEW j \in DOMAIN p, p[j].kind = "remove", p[j].user = w
      PROVE  /\ (\A i \in DOMAIN p : i < j => ~About(p[i], w)) => w \in T
             /\ \A i \in DOMAIN p : i < j /\ About(p[i], w) /\ (\A k \in DOMAIN p : i < k /\ k < j => ~About(p[k], w))
                  => Puts(p[i], w)
  <2>1. j + 1 \in DOMAIN q /\ q[j + 1].kind = "remove" /\ q[j + 1].user = w
    BY <1>1, <1>7
  <2>2. ASSUME \A i \in DOMAIN p : i < j => ~About(p[i], w)
        PROVE  w \in T
    <3>1. \A i \in DOMAIN q : 1 < i /\ i < j + 1 => ~About(q[i], w)
      <4>1. ASSUME NEW i \in DOMAIN q, 1 < i, i < j + 1 PROVE ~About(q[i], w)
        <5>1. i - 1 \in DOMAIN p /\ i - 1 < j /\ q[i] = p[i - 1]
          BY <1>1, <1>3, <4>1
        <5> QED BY <2>2, <5>1
      <4> QED BY <4>1
    <3>2. CASE About(e, w)
      <4>1. Puts(q[1], w)
        BY <1>1, <2>1, <3>1, <3>2 DEF Leads
      <4> QED BY <1>1, <1>2, <4>1
    <3>3. CASE ~About(e, w)
      <4>1. \A i \in DOMAIN q : i < j + 1 => ~About(q[i], w)
        BY <1>1, <3>1, <3>3
      <4>2. w \in S
        BY <2>1, <4>1 DEF Leads
      <4> QED BY <1>2, <3>3, <4>2
    <3> QED BY <3>2, <3>3
  <2>3. ASSUME NEW i \in DOMAIN p, i < j, About(p[i], w), \A k \in DOMAIN p : i < k /\ k < j => ~About(p[k], w)
        PROVE  Puts(p[i], w)
    <3>1. i + 1 \in DOMAIN q /\ i + 1 < j + 1 /\ p[i] = q[i + 1] /\ About(q[i + 1], w)
      BY <1>1, <2>3
    <3>2. \A k \in DOMAIN q : i + 1 < k /\ k < j + 1 => ~About(q[k], w)
      <4>1. ASSUME NEW k \in DOMAIN q, i + 1 < k, k < j + 1 PROVE ~About(q[k], w)
        <5>1. k - 1 \in DOMAIN p /\ i < k - 1 /\ k - 1 < j /\ q[k] = p[k - 1]
          BY <1>1, <1>3, <4>1
        <5> QED BY <2>3, <5>1
      <4> QED BY <4>1
    <3> QED BY <2>1, <3>1, <3>2 DEF Leads
  <2> QED BY <2>2, <2>3
<1>8. e.kind = "remove" /\ e.user = w => w \in S
  BY <1>1 DEF Leads
<1>9. Leads(T, p, R, w)
  BY <1>4, <1>5, <1>6, <1>7 DEF Leads
<1> QED BY <1>1, <1>8, <1>9 DEF p, e, T

\* The user's requests, and what is on its way to him.
Unsent(q, kind) == \E k \in DOMAIN q : q[k].waiting /\ ~q[k].served /\ q[k].kind = kind
Sent(q, kind)   == \E k \in DOMAIN q : q[k].waiting /\ q[k].served /\ q[k].kind = kind
Echoed(p, kind) == \E i \in DOMAIN p : p[i].kind = kind /\ p[i].user = Me
Cleared(p)      == \E i \in DOMAIN p : p[i].kind = "clear"

OnlyToggles(q) == \A k \in DOMAIN q : q[k].toggle /\ q[k].user = Me /\ q[k].kind \in {"add", "remove"}
OneWaits(q)    == \A j, k \in DOMAIN q : q[j].waiting /\ q[k].waiting => j = k

Adding(q, p) == Unsent(q, "add") \/ Sent(q, "add") \/ Echoed(p, "add")

\* What the chip tells, given S and what is on its way.
Tells(c, S, q, p, R) ==
  /\ Unsent(q, "add") \/ Unsent(q, "remove") => ~Echoed(p, "add") /\ ~Echoed(p, "remove")
  /\ Sent(q, "add") => ~Echoed(p, "remove")
  /\ Sent(q, "remove") => ~Echoed(p, "add")
  /\ c.me \/ Adding(q, p) => c.count >= Cardinality(S)
  /\ c.count + 1 >= Cardinality(S)
  /\ c.me /\ ~Adding(q, p) => Me \in S
  /\ Unsent(q, "remove") => Me \in S
  /\ Sent(q, "add") => Echoed(p, "add") \/ (c.me /\ Me \in S)
  /\ Sent(q, "remove") => Echoed(p, "remove") \/ Cleared(p) \/ Me \notin S
  /\ Unsent(q, "add") => Me \notin R
  /\ (\A kind \in {"add", "remove"} : ~Unsent(q, kind) /\ ~Sent(q, kind) /\ ~Echoed(p, kind)) /\ ~Cleared(p)
       => (c.me <=> Me \in S)

Explained(S) == /\ S = counted
                /\ \A w \in People : Leads(S, echoes, reactors, w)
                /\ Tells(chip, S, asked, echoes, reactors)

MineInv ==
  ~unsure => OnlyToggles(asked) /\ OneWaits(asked) /\ \E S \in SUBSET People : Explained(S)

\* One request waits, or none.
LEMMA TheWaiting ==
  ASSUME NEW q \in Seq(Asks), OneWaits(q), NEW kind
  PROVE  /\ \A k \in DOMAIN q : q[k].waiting => /\ Unsent(q, kind) <=> ~q[k].served /\ q[k].kind = kind
                                                /\ Sent(q, kind) <=> q[k].served /\ q[k].kind = kind
         /\ (\A k \in DOMAIN q : ~q[k].waiting) => ~Unsent(q, kind) /\ ~Sent(q, kind)
  BY DEF OneWaits, Unsent, Sent

LEMMA EchoesGrow ==
  ASSUME NEW p \in Seq(Echoes), NEW e \in Echoes, NEW kind
  PROVE  /\ Echoed(Append(p, e), kind) <=> Echoed(p, kind) \/ (e.kind = kind /\ e.user = Me)
         /\ Cleared(Append(p, e)) <=> Cleared(p) \/ e.kind = "clear"
<1> DEFINE s == Append(p, e)
           n == Len(p) + 1
<1>1. DOMAIN s = 1..n /\ DOMAIN p = 1..(n - 1) /\ s[n] = e /\ n \in Nat /\ n >= 1 /\ \A i \in 1..(n - 1) : s[i] = p[i]
  OBVIOUS
<1> HIDE DEF s, n
<1>2. DOMAIN s = DOMAIN p \cup {n} /\ n \in DOMAIN s /\ \A i \in DOMAIN p : s[i] = p[i]
  BY <1>1
<1>3. Echoed(s, kind) <=> Echoed(p, kind) \/ (e.kind = kind /\ e.user = Me)
  BY <1>1, <1>2 DEF Echoed
<1>4. Cleared(s) <=> Cleared(p) \/ e.kind = "clear"
  BY <1>1, <1>2 DEF Cleared
<1> QED BY <1>3, <1>4 DEF s

LEMMA EchoesShift ==
  ASSUME NEW p \in Seq(Echoes), p # <<>>, NEW kind
  PROVE  /\ Echoed(p, kind) <=> Echoed(Tail(p), kind) \/ (Head(p).kind = kind /\ Head(p).user = Me)
         /\ Cleared(p) <=> Cleared(Tail(p)) \/ Head(p).kind = "clear"
<1> DEFINE s == Tail(p)
           e == Head(p)
           n == Len(p)
<1>1. DOMAIN s = 1..(n - 1) /\ DOMAIN p = 1..n /\ p[1] = e /\ n \in Nat /\ n >= 1 /\ \A i \in 1..(n - 1) : s[i] = p[i + 1]
  OBVIOUS
<1> HIDE DEF s, e, n
<1>2. /\ \A i \in DOMAIN p : i = 1 \/ (i - 1 \in DOMAIN s /\ p[i] = s[i - 1])
      /\ \A i \in DOMAIN s : i + 1 \in DOMAIN p /\ s[i] = p[i + 1]
      /\ 1 \in DOMAIN p
  BY <1>1
<1>3. Echoed(p, kind) <=> Echoed(s, kind) \/ (e.kind = kind /\ e.user = Me)
  BY <1>1, <1>2 DEF Echoed
<1>4. Cleared(p) <=> Cleared(s) \/ e.kind = "clear"
  BY <1>1, <1>2 DEF Cleared
<1> QED BY <1>3, <1>4 DEF s, e

\* The one that waited has its answer or has failed.
LEMMA NoneWaits ==
  ASSUME asked \in Seq(Asks), OnlyToggles(asked), OneWaits(asked),
         NEW k \in DOMAIN asked, asked[k].waiting,
         asked' = [asked EXCEPT ![k].waiting = FALSE]
  PROVE  /\ OnlyToggles(asked') /\ OneWaits(asked')
         /\ \A kind : ~Unsent(asked', kind) /\ ~Sent(asked', kind)
         /\ asked[k].toggle /\ asked[k].user = Me /\ asked[k].kind \in {"add", "remove"}
         /\ \A kind : /\ Unsent(asked, kind) <=> ~asked[k].served /\ asked[k].kind = kind
                      /\ Sent(asked, kind) <=> asked[k].served /\ asked[k].kind = kind
<1>1. asked' \in Seq(Asks) /\ asked[k] \in Asks /\ DOMAIN asked' = DOMAIN asked
  BY MarkedRequests
<1>2. /\ asked'[k] = [asked[k] EXCEPT !.waiting = FALSE]
      /\ \A j \in DOMAIN asked : j # k => asked'[j] = asked[j]
  OBVIOUS
<1>3. /\ \A j \in DOMAIN asked : j # k => ~asked[j].waiting
      /\ asked[k].waiting = TRUE
  BY <1>1 DEF OneWaits, Asks
<1>4. \A j \in DOMAIN asked' : ~asked'[j].waiting
  BY <1>1, <1>2, <1>3 DEF Asks
<1>5. OneWaits(asked')
  BY <1>4 DEF OneWaits
<1>6. asked'[k].toggle = asked[k].toggle /\ asked'[k].user = asked[k].user /\ asked'[k].kind = asked[k].kind
  BY <1>1, <1>2 DEF Asks
<1>7. OnlyToggles(asked')
  BY <1>1, <1>2, <1>6 DEF OnlyToggles
<1>8. \A kind : ~Unsent(asked', kind) /\ ~Sent(asked', kind)
  BY <1>4 DEF Unsent, Sent
<1> QED BY <1>5, <1>7, <1>8, TheWaiting DEF OnlyToggles

\* The server has it.
LEMMA NowSent ==
  ASSUME asked \in Seq(Asks), OnlyToggles(asked), OneWaits(asked),
         NEW k \in DOMAIN asked, asked[k].waiting, ~asked[k].served,
         asked' = [asked EXCEPT ![k].served = TRUE]
  PROVE  /\ OnlyToggles(asked') /\ OneWaits(asked')
         /\ asked[k].user = Me /\ asked[k].kind \in {"add", "remove"}
         /\ \A kind : /\ ~Unsent(asked', kind) /\ ~Sent(asked, kind)
                      /\ Unsent(asked, kind) <=> asked[k].kind = kind
                      /\ Sent(asked', kind) <=> asked[k].kind = kind
<1>1. asked' \in Seq(Asks) /\ asked[k] \in Asks /\ DOMAIN asked' = DOMAIN asked
  BY MarkedRequests
<1>2. /\ asked'[k] = [asked[k] EXCEPT !.served = TRUE]
      /\ \A j \in DOMAIN asked : j # k => asked'[j] = asked[j]
  OBVIOUS
<1>3. /\ asked'[k].toggle = asked[k].toggle /\ asked'[k].user = asked[k].user
      /\ asked'[k].kind = asked[k].kind /\ asked'[k].waiting = asked[k].waiting /\ asked'[k].served
  BY <1>1, <1>2 DEF Asks
<1>4. OneWaits(asked')
  BY <1>1, <1>2, <1>3 DEF OneWaits
<1>5. OnlyToggles(asked')
  BY <1>1, <1>2, <1>3 DEF OnlyToggles
<1>6. \A kind : /\ Unsent(asked', kind) <=> ~asked'[k].served /\ asked'[k].kind = kind
                /\ Sent(asked', kind) <=> asked'[k].served /\ asked'[k].kind = kind
  BY <1>1, <1>3, <1>4, TheWaiting
<1>7. \A kind : /\ Unsent(asked, kind) <=> ~asked[k].served /\ asked[k].kind = kind
                /\ Sent(asked, kind) <=> asked[k].served /\ asked[k].kind = kind
  BY TheWaiting
<1> QED BY <1>3, <1>4, <1>5, <1>6, <1>7 DEF OnlyToggles

\* Nothing waited, and a click asks.
LEMMA NowAsked ==
  ASSUME asked \in Seq(Asks), Clicks(asked), OnlyToggles(asked), ~Chip!Waiting,
         NEW kind \in {"add", "remove"}, Chip!Ask(kind, Me, TRUE)
  PROVE  /\ OnlyToggles(asked') /\ OneWaits(asked')
         /\ \A x : ~Unsent(asked, x) /\ ~Sent(asked, x) /\ ~Sent(asked', x) /\ (Unsent(asked', x) <=> x = kind)
<1> DEFINE n == Len(asked) + 1
<1>1. /\ asked' \in Seq(Asks) /\ Len(asked') = n /\ asked'[n] = Chip!Request(kind, Me, TRUE)
      /\ \A k \in DOMAIN asked : asked'[k] = asked[k]
  BY StoreConstants, AskedRequests DEF Chip!Kinds
<1>2. DOMAIN asked' = DOMAIN asked \cup {n} /\ n \in DOMAIN asked'
  BY <1>1
<1>3. /\ asked'[n].toggle /\ asked'[n].user = Me /\ asked'[n].kind = kind
      /\ asked'[n].waiting /\ ~asked'[n].served
  BY <1>1 DEF Chip!Request
<1>4. \A k \in DOMAIN asked : ~asked[k].waiting
  BY DEF Chip!Waiting
<1> HIDE DEF n
<1>5. OneWaits(asked')
  BY <1>1, <1>2, <1>4 DEF OneWaits
<1>6. OnlyToggles(asked')
  BY <1>1, <1>2, <1>3 DEF OnlyToggles
<1>7. \A x : ~Unsent(asked, x) /\ ~Sent(asked, x)
  BY <1>4 DEF Unsent, Sent
<1>8. \A x : /\ Unsent(asked', x) <=> ~asked'[n].served /\ asked'[n].kind = x
             /\ Sent(asked', x) <=> asked'[n].served /\ asked'[n].kind = x
  BY <1>1, <1>2, <1>3, <1>5, TheWaiting
<1> QED BY <1>3, <1>5, <1>6, <1>7, <1>8

LEMMA LessCounts ==
  ASSUME NEW c \in Chips, NEW b \in BOOLEAN
  PROVE  /\ Chip!Less(c, b) \in Chips
         /\ Chip!Less(c, b).count = IF c.count <= 1 THEN 0 ELSE c.count - 1
         /\ Chip!Less(c, b).count \in Nat /\ Chip!Less(c, b).count >= c.count - 1
         /\ Chip!Less(c, b).me <=> c.count > 1 /\ b
<1>1. c.count \in Nat /\ Chip!None.count = 0 /\ ~Chip!None.me
  BY DEF Chips, Chip!None
<1>2. CASE c.count <= 1
  BY <1>1, <1>2 DEF Chip!Less, Chip!None, Chips
<1>3. CASE ~(c.count <= 1)
  BY <1>1, <1>3 DEF Chip!Less, Chips
<1> QED BY <1>1, <1>2, <1>3

\* What a step has to show.
Shown(S) == /\ S \in SUBSET People /\ S = counted'
            /\ \A w \in People : Leads(S, echoes', reactors', w)
            /\ Tells(chip', S, asked', echoes', reactors')

LEMMA MineFacts ==
  ASSUME Chip!TypeOK
  PROVE  /\ chip \in Chips /\ chip.me \in BOOLEAN /\ chip.count \in Nat /\ (chip.me => chip.count > 0)
         /\ asked \in Seq(Asks) /\ Clicks(asked) /\ reactors \in SUBSET People /\ echoes \in Seq(Echoes)
         /\ unsure \in BOOLEAN /\ Me \in People
  BY StoreConstants DEF Chip!TypeOK, Chips, Asks, Echoes, Clicks

LEMMA MineToggle ==
  ASSUME Chip!TypeOK, MineInv, NEW kind \in {"add", "remove"}, Chip!Toggle(kind)
  PROVE  MineInv'
<1> SUFFICES ASSUME ~unsure'
             PROVE  OnlyToggles(asked') /\ OneWaits(asked') /\ \E S \in SUBSET People : Shown(S)
  BY DEF MineInv, Explained, Shown
<1>1. /\ ~unsure /\ ~Chip!Waiting /\ ~Chip!Echoing /\ ~(kind = "add" /\ chip.me)
      /\ UNCHANGED <<reactors, echoes, counted>> /\ Chip!Ask(kind, Me, TRUE) /\ chip' = Chip!Own(chip, kind)
      /\ (kind = "remove" => chip.me)
  BY DEF Chip!Toggle, Chip!Ask, Chip!serverVars
<1>2. PICK S \in SUBSET People : Explained(S)
  BY <1>1 DEF MineInv
<1>3. /\ OnlyToggles(asked') /\ OneWaits(asked')
      /\ \A x : ~Unsent(asked, x) /\ ~Sent(asked, x) /\ ~Sent(asked', x) /\ (Unsent(asked', x) <=> x = kind)
  BY <1>1, MineFacts, NowAsked DEF MineInv
<1>4. ~Echoed(echoes, "add") /\ ~Echoed(echoes, "remove")
  BY <1>1 DEF Chip!Echoing, Echoed
<1>5. Cardinality(S) \in Nat
  BY ChipFinite
<1>6. Tells(chip, S, asked, echoes, reactors) /\ Leads(S, echoes, reactors, Me)
  BY <1>2, MineFacts DEF Explained
<1>7. ~chip.me => Me \notin reactors
  <2>1. CASE Cleared(echoes)
    <3>1. PICK i \in DOMAIN echoes : echoes[i].kind = "clear"
      BY <2>1 DEF Cleared
    <3>2. Takes(echoes[i], Me) /\ \A j \in DOMAIN echoes : ~Puts(echoes[j], Me)
      BY <1>4, <3>1 DEF Takes, Puts, Echoed
    <3> QED BY <1>6, <3>1, <3>2 DEF Leads
  <2>2. CASE ~Cleared(echoes)
    <3>1. ~chip.me => Me \notin S
      BY <1>3, <1>4, <1>6, <2>2 DEF Tells
    <3>2. \A i \in DOMAIN echoes : ~About(echoes[i], Me)
      BY <1>4, <2>2 DEF About, Takes, Puts, Echoed, Cleared
    <3> QED BY <1>6, <3>1, <3>2 DEF Leads
  <2> QED BY <2>1, <2>2
<1>8. Tells(chip', S, asked', echoes', reactors')
  <2>1. CASE kind = "add"
    <3>1. chip'.count = chip.count + 1 /\ chip'.me
      BY <1>1, <2>1 DEF Chip!Own
    <3> QED BY <1>1, <1>3, <1>4, <1>5, <1>6, <1>7, <2>1, <3>1, MineFacts DEF Tells, Adding
  <2>2. CASE kind = "remove"
    <3>1. chip' = Chip!Less(chip, FALSE)
      BY <1>1, <2>2 DEF Chip!Own
    <3>2. chip'.count \in Nat /\ chip'.count >= chip.count - 1 /\ ~chip'.me
      <4>1. chip \in Chips /\ FALSE \in BOOLEAN
        BY MineFacts
      <4> QED BY <3>1, <4>1, LessCounts
    <3> QED BY <1>1, <1>3, <1>4, <1>5, <1>6, <2>2, <3>2, MineFacts DEF Tells, Adding
  <2> QED BY <2>1, <2>2
<1> QED BY <1>1, <1>2, <1>3, <1>8 DEF Shown, Explained

LEMMA MineAnswer ==
  ASSUME Chip!TypeOK, MineInv, NEW k \in DOMAIN asked, Chip!Answer(k)
  PROVE  MineInv'
<1> SUFFICES ASSUME ~unsure'
             PROVE  OnlyToggles(asked') /\ OneWaits(asked') /\ \E S \in SUBSET People : Shown(S)
  BY DEF MineInv, Explained, Shown
<1>1. /\ ~unsure /\ UNCHANGED <<chip, reactors, echoes, counted>> /\ asked[k].waiting /\ asked[k].served
      /\ asked' = [asked EXCEPT ![k].waiting = FALSE]
  BY DEF Chip!Answer, Chip!serverVars
<1>2. PICK S \in SUBSET People : Explained(S)
  BY <1>1 DEF MineInv
<1>3. /\ OnlyToggles(asked') /\ OneWaits(asked')
      /\ \A kind : ~Unsent(asked', kind) /\ ~Sent(asked', kind)
      /\ asked[k].kind \in {"add", "remove"}
      /\ \A kind : ~Unsent(asked, kind) /\ (Sent(asked, kind) <=> asked[k].kind = kind)
  BY <1>1, MineFacts, NoneWaits DEF MineInv
<1>4. Tells(chip, S, asked, echoes, reactors)
  BY <1>2 DEF Explained
<1>5. Tells(chip, S, asked', echoes, reactors)
  BY <1>3, <1>4 DEF Tells, Adding
<1> QED BY <1>1, <1>2, <1>3, <1>5 DEF Shown, Explained

LEMMA MineFail ==
  ASSUME Chip!TypeOK, MineInv, NEW k \in DOMAIN asked, Chip!Fail(k)
  PROVE  MineInv'
<1> SUFFICES ASSUME ~unsure'
             PROVE  OnlyToggles(asked') /\ OneWaits(asked') /\ \E S \in SUBSET People : Shown(S)
  BY DEF MineInv, Explained, Shown
<1>1. /\ ~unsure /\ UNCHANGED <<reactors, echoes, counted>> /\ asked[k].waiting /\ ~asked[k].served
      /\ asked' = [asked EXCEPT ![k].waiting = FALSE]
  BY DEF Chip!Fail, Chip!serverVars
<1>2. PICK S \in SUBSET People : Explained(S)
  BY <1>1 DEF MineInv
<1>3. /\ OnlyToggles(asked') /\ OneWaits(asked')
      /\ \A kind : ~Unsent(asked', kind) /\ ~Sent(asked', kind)
      /\ asked[k].toggle /\ asked[k].kind \in {"add", "remove"}
      /\ \A kind : ~Sent(asked, kind) /\ (Unsent(asked, kind) <=> asked[k].kind = kind)
  BY <1>1, MineFacts, NoneWaits DEF MineInv
<1>4. Tells(chip, S, asked, echoes, reactors) /\ Leads(S, echoes, reactors, Me) /\ Cardinality(S) \in Nat
  BY <1>2, ChipFinite, MineFacts DEF Explained
<1>5. ~Echoed(echoes, "add") /\ ~Echoed(echoes, "remove")
  BY <1>3, <1>4 DEF Tells
<1>6. Tells(chip', S, asked', echoes, reactors)
  <2>1. CASE asked[k].kind = "add"
    <3>1. chip' = Chip!Less(chip, FALSE)
      BY <1>3, <2>1 DEF Chip!Fail, Chip!Own
    <3>2. chip'.count \in Nat /\ chip'.count >= chip.count - 1 /\ ~chip'.me
      <4>1. chip \in Chips /\ FALSE \in BOOLEAN
        BY MineFacts
      <4> QED BY <3>1, <4>1, LessCounts
    <3>3. ~Cleared(echoes) => Me \notin S
      <4>1. SUFFICES ASSUME ~Cleared(echoes) PROVE \A i \in DOMAIN echoes : ~About(echoes[i], Me)
        BY <1>3, <1>4, <2>1 DEF Leads, Tells
      <4> QED BY <1>5, <4>1 DEF About, Takes, Puts, Echoed, Cleared
    <3> QED BY <1>3, <1>4, <1>5, <2>1, <3>2, <3>3, MineFacts DEF Tells, Adding
  <2>2. CASE asked[k].kind = "remove"
    <3>1. chip'.count = chip.count + 1 /\ chip'.me
      BY <1>3, <2>2 DEF Chip!Fail, Chip!Own
    <3> QED BY <1>3, <1>4, <1>5, <2>2, <3>1, MineFacts DEF Tells, Adding
  <2> QED BY <1>3, <2>1, <2>2
<1> QED BY <1>1, <1>2, <1>3, <1>6 DEF Shown, Explained

\* What the server does leads on from S.
LEMMA ChangeLeads ==
  ASSUME reactors \in SUBSET People, echoes \in Seq(Echoes), NEW S \in SUBSET People,
         \A w \in People : Leads(S, echoes, reactors, w),
         NEW kind \in Chip!Kinds, NEW user \in People, Chip!Change(kind, user)
  PROVE  /\ \A w \in People : Leads(S, echoes', reactors', w)
         /\ reactors' = After(reactors, [kind |-> kind, user |-> user])
         /\ reactors' = reactors => echoes' = echoes
         /\ reactors' # reactors => /\ \A x : Echoed(echoes', x) <=> Echoed(echoes, x) \/ (kind = x /\ user = Me)
                                    /\ Cleared(echoes') <=> Cleared(echoes) \/ kind = "clear"
<1> DEFINE e == [kind |-> kind, user |-> user]
<1>1. e \in Echoes /\ e.kind = kind /\ e.user = user
  BY DEF Echoes
<1>2. /\ reactors' = After(reactors, e)
      /\ echoes' = IF reactors' = reactors THEN echoes ELSE Append(echoes, e)
  BY <1>1 DEF Chip!Change, Chip!After, After, Chip!Kinds
<1>3. CASE reactors' = reactors
  BY <1>2, <1>3
<1>4. CASE reactors' # reactors
  <2>1. echoes' = Append(echoes, e)
    BY <1>2, <1>4
  <2> HIDE DEF e
  <2>2. \A w \in People : Leads(S, echoes', reactors', w)
    BY <1>1, <1>2, <1>4, <2>1, LeadsGrow
  <2>3. /\ \A x : Echoed(echoes', x) <=> Echoed(echoes, x) \/ (kind = x /\ user = Me)
        /\ Cleared(echoes') <=> Cleared(echoes) \/ kind = "clear"
    BY <1>1, <2>1, EchoesGrow
  <2> QED BY <1>2, <1>4, <2>2, <2>3 DEF e
<1> QED BY <1>3, <1>4

LEMMA MineServe ==
  ASSUME Chip!TypeOK, MineInv, NEW k \in DOMAIN asked, Chip!Serve(k)
  PROVE  MineInv'
<1> SUFFICES ASSUME ~unsure'
             PROVE  OnlyToggles(asked') /\ OneWaits(asked') /\ \E S \in SUBSET People : Shown(S)
  BY DEF MineInv, Explained, Shown
<1> DEFINE kind == asked[k].kind
<1>1. /\ ~unsure /\ UNCHANGED <<chip, counted>> /\ asked[k].waiting /\ ~asked[k].served
      /\ asked' = [asked EXCEPT ![k].served = TRUE] /\ Chip!Change(kind, asked[k].user)
  BY DEF Chip!Serve, Chip!Change
<1>2. PICK S \in SUBSET People : Explained(S)
  BY <1>1 DEF MineInv
<1>3. /\ OnlyToggles(asked') /\ OneWaits(asked') /\ asked[k].user = Me /\ kind \in {"add", "remove"}
      /\ \A x : /\ ~Unsent(asked', x) /\ ~Sent(asked, x)
                /\ Unsent(asked, x) <=> kind = x
                /\ Sent(asked', x) <=> kind = x
  BY <1>1, MineFacts, NowSent DEF MineInv
<1> HIDE DEF kind
<1>4. Tells(chip, S, asked, echoes, reactors) /\ Leads(S, echoes, reactors, Me) /\ Cardinality(S) \in Nat
  BY <1>2, ChipFinite, MineFacts DEF Explained
<1>5. ~Echoed(echoes, "add") /\ ~Echoed(echoes, "remove")
  BY <1>3, <1>4 DEF Tells
<1>6. /\ \A w \in People : Leads(S, echoes', reactors', w)
      /\ reactors' = After(reactors, [kind |-> kind, user |-> Me])
      /\ reactors' = reactors => echoes' = echoes
      /\ reactors' # reactors => /\ \A x : Echoed(echoes', x) <=> Echoed(echoes, x) \/ kind = x
                                 /\ Cleared(echoes') <=> Cleared(echoes)
  <2>1. kind \in Chip!Kinds /\ kind # "clear" /\ Chip!Change(kind, Me) /\ \A w \in People : Leads(S, echoes, reactors, w)
    BY <1>1, <1>2, <1>3 DEF Chip!Kinds, Explained
  <2> QED BY <2>1, MineFacts, ChangeLeads
<1>7. Tells(chip, S, asked', echoes', reactors')
  <2>1. CASE kind = "add"
    <3>1. Me \notin reactors /\ Me \in reactors'
      BY <1>3, <1>4, <1>6, <2>1 DEF Tells, After
    <3>2. Echoed(echoes', "add") /\ ~Echoed(echoes', "remove")
      BY <1>5, <1>6, <2>1, <3>1
    <3> QED BY <1>3, <1>4, <2>1, <3>2, MineFacts DEF Tells, Adding
  <2>2. CASE kind = "remove"
    <3>1. ~Echoed(echoes', "add") /\ (Echoed(echoes', "remove") \/ Cleared(echoes'))
      <4>1. CASE reactors' # reactors
        BY <1>5, <1>6, <2>2, <4>1
      <4>2. CASE reactors' = reactors
        <5>1. echoes' = echoes /\ Me \notin reactors /\ Me \in S
          BY <1>3, <1>4, <1>6, <2>2, <4>2 DEF Tells, After
        <5>2. ~Cleared(echoes) => \A i \in DOMAIN echoes : ~About(echoes[i], Me)
          BY <1>5 DEF About, Takes, Puts, Echoed, Cleared
        <5>3. Cleared(echoes)
          BY <1>4, <5>1, <5>2 DEF Leads
        <5> QED BY <1>5, <5>1, <5>3
      <4> QED BY <4>1, <4>2
    <3> QED BY <1>3, <1>4, <1>5, <2>2, <3>1, MineFacts DEF Tells, Adding
  <2> QED BY <1>3, <2>1, <2>2
<1> QED BY <1>1, <1>2, <1>3, <1>6, <1>7 DEF Shown, Explained

LEMMA MineOther ==
  ASSUME Chip!TypeOK, MineInv, NEW kind \in Chip!Kinds, NEW user \in People, Chip!Other(kind, user)
  PROVE  MineInv'
<1> SUFFICES ASSUME ~unsure'
             PROVE  OnlyToggles(asked') /\ OneWaits(asked') /\ \E S \in SUBSET People : Shown(S)
  BY DEF MineInv, Explained, Shown
<1>1. /\ ~unsure /\ UNCHANGED <<chip, asked, counted>> /\ Chip!Change(kind, user) /\ reactors' # reactors
      /\ (kind # "clear" => user # Me)
  BY DEF Chip!Other, Chip!Change
<1>2. PICK S \in SUBSET People : Explained(S)
  BY <1>1 DEF MineInv
<1>3. OnlyToggles(asked) /\ OneWaits(asked)
  BY <1>1 DEF MineInv
<1>4. /\ \A w \in People : Leads(S, echoes', reactors', w)
      /\ reactors' = After(reactors, [kind |-> kind, user |-> user])
      /\ \A x : Echoed(echoes', x) <=> Echoed(echoes, x) \/ (kind = x /\ user = Me)
      /\ Cleared(echoes') <=> Cleared(echoes) \/ kind = "clear"
  <2>1. \A w \in People : Leads(S, echoes, reactors, w)
    BY <1>2 DEF Explained
  <2> QED BY <1>1, <2>1, MineFacts, ChangeLeads
<1>5. Me \notin reactors => Me \notin reactors'
  BY <1>1, <1>4 DEF After, Chip!Kinds
<1>6. \A x \in {"add", "remove"} : Echoed(echoes', x) <=> Echoed(echoes, x)
  BY <1>1, <1>4
<1>7. Tells(chip, S, asked, echoes', reactors')
  BY <1>2, <1>4, <1>5, <1>6 DEF Explained, Tells, Adding
<1> QED BY <1>1, <1>2, <1>3, <1>4, <1>7 DEF Shown, Explained

\* The server tells of an edit, which changes nothing of who reacted.
LEMMA MineUpdate ==
  ASSUME Chip!TypeOK, MineInv, Chip!Update
  PROVE  MineInv'
<1> SUFFICES ASSUME ~unsure'
             PROVE  OnlyToggles(asked') /\ OneWaits(asked') /\ \E S \in SUBSET People : Shown(S)
  BY DEF MineInv, Explained, Shown
<1> DEFINE e == [kind |-> "update", user |-> Me]
<1>1. ~unsure /\ UNCHANGED <<chip, asked, reactors, counted>> /\ echoes' = Append(echoes, e)
  BY DEF Chip!Update
<1>2. PICK S \in SUBSET People : Explained(S)
  BY <1>1 DEF MineInv
<1>3. e \in Echoes /\ e.kind = "update" /\ After(reactors, e) = reactors
  BY MineFacts DEF Echoes, After
<1> HIDE DEF e
<1>4. \A w \in People : Leads(S, echoes', reactors, w)
  BY <1>1, <1>2, <1>3, MineFacts, LeadsGrow DEF Explained
<1>5. /\ \A x \in {"add", "remove"} : Echoed(echoes', x) <=> Echoed(echoes, x)
      /\ Cleared(echoes') <=> Cleared(echoes)
  BY <1>1, <1>3, MineFacts, EchoesGrow
<1>6. Tells(chip, S, asked, echoes', reactors)
  BY <1>2, <1>5 DEF Explained, Tells, Adding
<1> QED BY <1>1, <1>2, <1>4, <1>6 DEF Shown, Explained, MineInv

\* A chip that is counted anew as the events handled told tells the same.
LEMMA AnewTells ==
  ASSUME NEW c, NEW S \in SUBSET People, Tells(c, S, asked, echoes, reactors)
  PROVE  Tells(Chip!Of(S), S, asked, echoes, reactors)
<1> DEFINE d == Chip!Of(S)
<1>1. d.count = Cardinality(S) /\ (d.me <=> Me \in S) /\ Cardinality(S) \in Nat
  BY OfIsProper, ChipFinite
<1> HIDE DEF d
<1>2. Sent(asked, "add") => Echoed(echoes, "add") \/ (d.me /\ Me \in S)
  BY <1>1 DEF Tells
<1>3. Tells(d, S, asked, echoes, reactors)
  BY <1>1, <1>2 DEF Tells
<1> QED BY <1>3 DEF d

\* An answer brings the chip anew.
LEMMA MineReplace ==
  ASSUME Chip!TypeOK, MineInv, NEW R \in SUBSET People, Chip!Replace(R)
  PROVE  MineInv'
<1> SUFFICES ASSUME ~unsure'
             PROVE  OnlyToggles(asked') /\ OneWaits(asked') /\ \E S \in SUBSET People : Shown(S)
  BY DEF MineInv, Explained, Shown
<1>1. /\ ~unsure /\ R = counted /\ UNCHANGED <<asked, reactors, echoes, counted>> /\ chip' = Chip!Of(R)
  BY DEF Chip!Replace
<1>2. PICK S \in SUBSET People : Explained(S)
  BY <1>1 DEF MineInv
<1>3. Tells(chip', S, asked, echoes, reactors)
  BY <1>1, <1>2, AnewTells DEF Explained
<1> QED BY <1>1, <1>2, <1>3 DEF Shown, Explained, MineInv

LEMMA AfterCounts ==
  ASSUME NEW S \in SUBSET People, NEW e \in Echoes
  PROVE  /\ After(S, e) \in SUBSET People /\ Cardinality(S) \in Nat /\ Cardinality(After(S, e)) \in Nat
         /\ e.kind = "add" => Cardinality(After(S, e)) <= Cardinality(S) + 1
         /\ e.kind = "remove" /\ e.user \in S => Cardinality(After(S, e)) = Cardinality(S) - 1
         /\ e.kind = "clear" => Cardinality(After(S, e)) = 0
         /\ \A w \in S : Cardinality(S) >= 1 /\ (e.user \in S /\ w # e.user => Cardinality(S) >= 2)
<1>1. /\ IsFiniteSet(S) /\ After(S, e) \in SUBSET People /\ e.user \in People
      /\ Cardinality(S) \in Nat /\ Cardinality(After(S, e)) \in Nat
  BY ChipFinite DEF After, Echoes, Chip!Kinds
<1>2. Cardinality(S \cup {e.user}) = IF e.user \in S THEN Cardinality(S) ELSE Cardinality(S) + 1
  BY <1>1, FS_AddElement
<1>3. \A w \in S : IsFiniteSet(S \ {w}) /\ Cardinality(S \ {w}) = Cardinality(S) - 1 /\ Cardinality(S \ {w}) \in Nat
  BY <1>1, FS_RemoveElement, FS_CardinalityType
<1>4. ASSUME NEW w \in S
      PROVE  Cardinality(S) >= 1
  <2>1. Cardinality(S) - 1 \in Nat
    BY <1>3
  <2> QED BY <1>1, <2>1
<1>5. ASSUME NEW w \in S, e.user \in S, w # e.user
      PROVE  Cardinality(S) >= 2
  <2>1. e.user \in S \ {w}
    BY <1>5
  <2>2. Cardinality(S \ {w}) # 0
    BY <1>3, <2>1, FS_EmptySet
  <2>3. Cardinality(S \ {w}) = Cardinality(S) - 1 /\ Cardinality(S \ {w}) \in Nat /\ Cardinality(S) \in Nat
    BY <1>1, <1>3
  <2> QED BY <2>2, <2>3
<1>6. e.kind = "add" => Cardinality(After(S, e)) <= Cardinality(S) + 1
  BY <1>1, <1>2 DEF After
<1>7. e.kind = "remove" /\ e.user \in S => Cardinality(After(S, e)) = Cardinality(S) - 1
  BY <1>3 DEF After
<1>8. e.kind = "clear" => Cardinality(After(S, e)) = 0
  BY FS_EmptySet DEF After
<1> QED BY <1>1, <1>4, <1>5, <1>6, <1>7, <1>8

LEMMA MineApply ==
  ASSUME Chip!TypeOK, MineInv, Chip!ApplyEvent
  PROVE  MineInv'
<1> SUFFICES ASSUME ~unsure'
             PROVE  OnlyToggles(asked') /\ OneWaits(asked') /\ \E S \in SUBSET People : Shown(S)
  BY DEF MineInv, Explained, Shown
<1> DEFINE e == Head(echoes)
<1>1. /\ ~unsure /\ UNCHANGED <<asked, reactors>> /\ echoes # <<>> /\ echoes' = Tail(echoes)
      /\ counted' = Chip!After(counted, e.kind, e.user)
      /\ \/ /\ e.kind \in Chip!Kinds /\ ~(Chip!Waiting /\ e.kind = "clear")
            /\ chip' = Chip!Applied(chip, e.kind, e.user)
         \/ e.kind = "update" /\ chip' = Chip!Of(counted)
  BY DEF Chip!ApplyEvent
<1>2. PICK S \in SUBSET People : Explained(S)
  BY <1>1 DEF MineInv
<1>3. OnlyToggles(asked) /\ OneWaits(asked)
  BY <1>1 DEF MineInv
<1>4. \A w \in People : /\ Leads(After(S, e), echoes', reactors, w)
                        /\ e \in Echoes
                        /\ e.kind = "remove" /\ e.user = w => w \in S
  BY <1>1, <1>2, MineFacts, LeadsShift DEF Explained
<1>5. /\ \A x : Echoed(echoes, x) <=> Echoed(echoes', x) \/ (e.kind = x /\ e.user = Me)
      /\ Cleared(echoes) <=> Cleared(echoes') \/ e.kind = "clear"
  BY <1>1, MineFacts, EchoesShift
<1> HIDE DEF e
<1> DEFINE T == After(S, e)
<1>6. /\ e.kind \in {"add", "remove", "clear", "update"} /\ e.user \in People /\ e \in Echoes
      /\ e.kind = "remove" => e.user \in S
      /\ e.kind = "add" => T = S \cup {e.user}
      /\ e.kind = "remove" => T = S \ {e.user}
      /\ e.kind = "clear" => T = {}
      /\ e.kind = "update" => T = S
      /\ T = counted'
      /\ e.kind # "update" => /\ ~(Chip!Waiting /\ e.kind = "clear")
                              /\ chip' = Chip!Applied(chip, e.kind, e.user)
  <2>1. e \in Echoes
    BY <1>4, MineFacts
  <2>2. e.kind \in {"add", "remove", "clear", "update"} /\ e.user \in People
    BY <2>1 DEF Echoes, Chip!Kinds
  <2>3. e.kind = "remove" => e.user \in S
    BY <1>4, <2>2
  <2>4. T = counted'
    BY <1>1, <1>2, <2>2 DEF Explained, Chip!After, After
  <2> QED BY <1>1, <2>1, <2>2, <2>3, <2>4 DEF After
<1>7. /\ T \in SUBSET People /\ Cardinality(S) \in Nat /\ Cardinality(T) \in Nat
      /\ e.kind = "add" => Cardinality(T) <= Cardinality(S) + 1
      /\ e.kind = "remove" => Cardinality(T) = Cardinality(S) - 1
      /\ e.kind = "clear" => Cardinality(T) = 0
      /\ Me \in S => Cardinality(S) >= 1 /\ (e.user \in S /\ Me # e.user => Cardinality(S) >= 2)
  BY <1>6, AfterCounts
<1>8. Tells(chip, S, asked, echoes, reactors)
  BY <1>2 DEF Explained
<1> HIDE DEF T
<1>9. Tells(chip', T, asked, echoes', reactors)
  <2>1. CASE e.kind = "add"
    <3>1. chip'.count = chip.count + 1 /\ (chip'.me <=> chip.me \/ e.user = Me)
      <4>1. chip' = [count |-> chip.count + 1, me |-> chip.me \/ e.user = Me]
        BY <1>6, <2>1 DEF Chip!Applied
      <4> QED BY <4>1
    <3>2. /\ Echoed(echoes, "remove") <=> Echoed(echoes', "remove")
          /\ Echoed(echoes, "add") <=> Echoed(echoes', "add") \/ e.user = Me
          /\ Cleared(echoes) <=> Cleared(echoes')
      BY <1>5, <2>1
    <3>3. (Me \in T <=> Me \in S \/ e.user = Me) /\ Cardinality(T) <= Cardinality(S) + 1
      BY <1>6, <1>7, <2>1
    <3>4. CASE e.user = Me
      BY <1>7, <1>8, <3>1, <3>2, <3>3, <3>4, MineFacts DEF Tells, Adding
    <3>5. CASE e.user # Me
      BY <1>7, <1>8, <3>1, <3>2, <3>3, <3>5, MineFacts DEF Tells, Adding
    <3> QED BY <3>4, <3>5
  <2>2. CASE e.kind = "remove"
    <3>1. chip' = Chip!Less(chip, chip.me /\ e.user # Me)
      BY <1>6, <2>2 DEF Chip!Applied
    <3>2. /\ chip'.count = IF chip.count <= 1 THEN 0 ELSE chip.count - 1
          /\ chip'.count \in Nat /\ chip'.count >= chip.count - 1
          /\ chip'.me <=> chip.count > 1 /\ chip.me /\ e.user # Me
      <4>1. chip \in Chips /\ (chip.me /\ e.user # Me) \in BOOLEAN
        BY MineFacts
      <4> QED BY <3>1, <4>1, LessCounts
    <3>3. /\ Echoed(echoes, "add") <=> Echoed(echoes', "add")
          /\ Echoed(echoes, "remove") <=> Echoed(echoes', "remove") \/ e.user = Me
          /\ Cleared(echoes) <=> Cleared(echoes')
      BY <1>5, <2>2
    <3>4. e.user \in S /\ (Me \in T <=> Me \in S /\ e.user # Me) /\ Cardinality(T) = Cardinality(S) - 1
      BY <1>6, <1>7, <2>2
    <3>5. CASE e.user = Me
      BY <1>7, <1>8, <3>2, <3>3, <3>4, <3>5, MineFacts DEF Tells, Adding
    <3>6. CASE e.user # Me
      BY <1>7, <1>8, <3>2, <3>3, <3>4, <3>6, MineFacts DEF Tells, Adding
    <3> QED BY <3>5, <3>6
  <2>3. CASE e.kind = "clear"
    <3>1. chip'.count = 0 /\ ~chip'.me
      BY <1>6, <2>3 DEF Chip!Applied, Chip!None
    <3>2. \A x : ~Unsent(asked, x) /\ ~Sent(asked, x)
      BY <1>6, <2>3 DEF Chip!Waiting, Unsent, Sent
    <3>3. Cardinality(T) = 0 /\ Me \notin T
      BY <1>6, <1>7, <2>3
    <3> QED BY <3>1, <3>2, <3>3 DEF Tells, Adding
  <2>4. CASE e.kind = "update"
    <3>1. chip' = Chip!Of(S) /\ T = S
      BY <1>1, <1>2, <1>6, <2>4 DEF Explained, Chip!Kinds
    <3>2. /\ \A x \in {"add", "remove"} : Echoed(echoes', x) <=> Echoed(echoes, x)
          /\ Cleared(echoes) <=> Cleared(echoes')
      BY <1>5, <2>4
    <3>3. Tells(Chip!Of(S), S, asked, echoes, reactors)
      BY <1>8, AnewTells
    <3> QED BY <3>1, <3>2, <3>3 DEF Tells, Adding
  <2> QED BY <1>6, <2>1, <2>2, <2>3, <2>4
<1>10. Shown(T)
  BY <1>1, <1>4, <1>6, <1>7, <1>9 DEF Shown, T
<1> QED BY <1>1, <1>3, <1>7, <1>10

LEMMA MineKeeps ==
  ASSUME Chip!TypeOK, MineInv, Chip!Next
  PROVE  MineInv'
<1>1. ASSUME NEW user \in People, Chip!ModalRemove(user) PROVE MineInv'
  BY <1>1 DEF Chip!ModalRemove, MineInv
<1>2. ASSUME Chip!ModalClear PROVE MineInv'
  BY <1>2 DEF Chip!ModalClear, MineInv
<1>3. ASSUME Chip!Copy PROVE MineInv'
  BY <1>3 DEF Chip!Copy, MineInv, Explained
<1> QED BY <1>1, <1>2, <1>3, MineToggle, MineAnswer, MineFail, MineServe, MineApply, MineOther, MineUpdate,
           MineReplace DEF Chip!Next

LEMMA MineStarts ==
  ASSUME Chip!Init
  PROVE  MineInv
<1>1. /\ reactors \in SUBSET People /\ counted = reactors /\ chip = Chip!Of(reactors)
      /\ asked = <<>> /\ echoes = <<>>
  BY DEF Chip!Init
<1>2. DOMAIN asked = {} /\ DOMAIN echoes = {}
  BY <1>1
<1>3. OnlyToggles(asked) /\ OneWaits(asked)
  BY <1>2 DEF OnlyToggles, OneWaits
<1>4. \A w \in People : Leads(reactors, echoes, reactors, w)
  BY <1>2 DEF Leads
<1>5. /\ \A x : ~Unsent(asked, x) /\ ~Sent(asked, x) /\ ~Echoed(echoes, x)
      /\ ~Cleared(echoes)
  BY <1>2 DEF Unsent, Sent, Echoed, Cleared
<1>6. Cardinality(reactors) \in Nat /\ chip.count = Cardinality(reactors) /\ (chip.me <=> Me \in reactors)
  BY <1>1, ChipFinite, OfIsProper
<1>7. Tells(chip, reactors, asked, echoes, reactors)
  BY <1>5, <1>6 DEF Tells, Adding
<1> QED BY <1>1, <1>3, <1>4, <1>7 DEF MineInv, Explained

LEMMA MineFollows ==
  ASSUME Chip!TypeOK, MineInv
  PROVE  Chip!MineIsRight
<1> SUFFICES ASSUME Chip!Quiet, ~unsure
             PROVE  chip.me = (Me \in reactors)
  BY DEF Chip!MineIsRight
<1>1. PICK S \in SUBSET People : Explained(S)
  BY DEF MineInv
<1>2. DOMAIN echoes = {} /\ \A k \in DOMAIN asked : ~asked[k].waiting
  BY DEF Chip!Quiet, Chip!Waiting
<1>3. Me \in S <=> Me \in reactors
  BY <1>1, <1>2, MineFacts DEF Explained, Leads
<1>4. /\ \A x : ~Unsent(asked, x) /\ ~Sent(asked, x) /\ ~Echoed(echoes, x)
      /\ ~Cleared(echoes)
  BY <1>2 DEF Unsent, Sent, Echoed, Cleared
<1>5. chip.me <=> Me \in S
  BY <1>1, <1>4 DEF Explained, Tells
<1>6. chip.me \in BOOLEAN
  BY MineFacts
<1> QED BY <1>3, <1>5, <1>6

\* The chip and what is on its way about it, in every state.
LEMMA ChipInvariant == Spec => [](Chip!TypeOK /\ MineInv)
<1>1. Init => Chip!TypeOK /\ MineInv
  BY ChipTypesStart, MineStarts DEF Init
<1>2. Chip!TypeOK /\ MineInv /\ [Next]_vars => (Chip!TypeOK /\ MineInv)'
  <2> SUFFICES ASSUME Chip!TypeOK, MineInv, [Next]_vars
               PROVE  Chip!TypeOK' /\ MineInv'
    OBVIOUS
  <2>1. CASE UNCHANGED chipVars
    BY <2>1, ChipTypesStep DEF MineInv, Explained, chipVars
  <2> QED BY <2>1, ChipMoves, ChipTypesStep, MineKeeps
<1> QED BY <1>1, <1>2, PTL DEF Spec

\* Whatever was clicked, answered, echoed, failed or loaded again, in any order,
\* once all has arrived the chip tells rightly whether the user reacted, unless he
\* clicked again before the last click was settled or took reactions back in the
\* modal, a request outlived its failure, the emoji was cleared meanwhile, an
\* update lacked the reactions there are, or a copy of the message did not count
\* what the events handled before it had told (stores.ts, toggleReaction, edit,
\* jumpTo, applyMessageUpdate and the handlers of the reaction events).
THEOREM ChipShowsMine == Spec => []MineIsRight
<1>1. Chip!TypeOK /\ MineInv => MineIsRight
  BY MineFollows DEF MineIsRight
<1> QED BY <1>1, ChipInvariant, PTL

-----------------------------------------------------------------------------
(* The members of a guild.  An event says what it leaves of a user: nobody, *)
(* an entry, or an entry if there is (or is not) one already.  The last one *)
(* about a user is right, and each is followed by one that goes with it; so *)
(* an entry the store holds, or an answer that is not stale, becomes right  *)
(* once the events are in: it is wrong only while an event will set it.     *)

Singles == [op : {"add", "update", "remove"}, u : Users, v : 1..MaxMoves]
Batches == [op : {"create", "chunk"}, es : SUBSET Members!Entries]

\* The events about a user, and what is left of him after one.
Concerns(e, u) == \/ e.op = "create"
                  \/ e.op = "chunk" /\ Members!Listing(e.es)[u] # 0
                  \/ e.op \in {"add", "update", "remove"} /\ e.u = u
Word(e, u) == CASE e.op = "remove" -> 0
                [] e.op \in {"add", "update"} -> e.v
                [] OTHER -> Members!Listing(e.es)[u]
Replay(e, w, u) == IF ~Concerns(e, u) THEN w
                   ELSE IF e.op = "update" /\ w = 0 THEN 0
                   ELSE IF e.op = "add" /\ w # 0 THEN w
                   ELSE Word(e, u)

\* The events q, of which the last about u leaves j of him, follow one another.
Ordered(q, j, u) == \A i \in DOMAIN q : Concerns(q[i], u) =>
  \/ Word(q[i], u) = j /\ \A k \in DOMAIN q : k > i => ~Concerns(q[k], u)
  \/ \E k \in DOMAIN q : /\ k > i /\ Concerns(q[k], u)
                         /\ (q[k].op = "update" => Word(q[i], u) # 0)
                         /\ (q[k].op = "add" => Word(q[i], u) = 0)

\* After the events q an entry w of u will be j, or missing when that is excused.
Agrees(q, j, w, u, excused) ==
  /\ (\A i \in DOMAIN q : Concerns(q[i], u) => q[i].op = "add") => w \in {0, j}
  /\ (\A i \in DOMAIN q : Concerns(q[i], u) => q[i].op = "update") /\ w = 0 => j = 0 \/ excused

Unlisted == seeded \/ ~present

MemberInv ==
  /\ \A u \in Users : Ordered(news, joined[u], u)
  /\ \A u \in Users \ odd : Agrees(news, joined[u], roster[u], u, Unlisted)
  /\ \A l \in Requests : lists[l].step = "answered" /\ ~lists[l].stale =>
       \A u \in Users : Agrees(news, joined[u], Members!Listing(lists[l].page)[u], u, FALSE)
  /\ \A u \in Users : singles[u].step = "answered" =>
       \E v \in 1..MaxMoves : /\ singles[u].page = {v}
                              /\ ~singles[u].stale => Agrees(news, joined[u], v, u, FALSE)

-----------------------------------------------------------------------------
\* Another event about u, or about somebody else.
LEMMA AgreesGrows ==
  ASSUME NEW S, NEW q \in Seq(S), NEW e, NEW u, NEW j, NEW k,
         IF Concerns(e, u) THEN /\ Word(e, u) = k
                                /\ (e.op = "update" => j # 0) /\ (e.op = "add" => j = 0)
         ELSE k = j
  PROVE  /\ Ordered(q, j, u) => Ordered(Append(q, e), k, u)
         /\ \A w, x : Agrees(q, j, w, u, x) => Agrees(Append(q, e), k, w, u, x)
<1> DEFINE p == Append(q, e)
           n == Len(q)
<1>1. n \in Nat /\ DOMAIN q = 1..n /\ DOMAIN p = 1..(n + 1) /\ p[n + 1] = e /\ \A i \in 1..n : p[i] = q[i]
  OBVIOUS
<1> HIDE DEF p, n
<1>2. ASSUME Ordered(q, j, u) PROVE Ordered(p, k, u)
  <2> SUFFICES ASSUME NEW i \in 1..(n + 1), Concerns(p[i], u)
               PROVE  \/ Word(p[i], u) = k /\ \A l \in 1..(n + 1) : l > i => ~Concerns(p[l], u)
                      \/ \E l \in 1..(n + 1) : /\ l > i /\ Concerns(p[l], u)
                                               /\ (p[l].op = "update" => Word(p[i], u) # 0)
                                               /\ (p[l].op = "add" => Word(p[i], u) = 0)
    BY <1>1 DEF Ordered
  <2>1. CASE i = n + 1
    BY <1>1, <2>1
  <2>2. CASE i \in 1..n
    <3>1. Concerns(q[i], u) /\ p[i] = q[i]
      BY <1>1, <2>2
    <3>2. CASE Word(q[i], u) = j /\ \A l \in 1..n : l > i => ~Concerns(q[l], u)
      <4>1. CASE Concerns(e, u)
        <5>1. n + 1 \in 1..(n + 1) /\ n + 1 > i /\ p[n + 1] = e
          BY <1>1, <2>2
        <5> QED BY <3>1, <3>2, <4>1, <5>1
      <4>2. CASE ~Concerns(e, u)
        <5>1. \A l \in 1..(n + 1) : l > i => ~Concerns(p[l], u)
          BY <1>1, <3>2, <4>2
        <5> QED BY <3>1, <3>2, <4>2, <5>1
      <4> QED BY <4>1, <4>2
    <3>3. CASE \E l \in 1..n : /\ l > i /\ Concerns(q[l], u)
                               /\ (q[l].op = "update" => Word(q[i], u) # 0)
                               /\ (q[l].op = "add" => Word(q[i], u) = 0)
      <4>1. PICK l \in 1..n : /\ l > i /\ Concerns(q[l], u)
                              /\ (q[l].op = "update" => Word(q[i], u) # 0)
                              /\ (q[l].op = "add" => Word(q[i], u) = 0)
        BY <3>3
      <4>2. l \in 1..(n + 1) /\ p[l] = q[l]
        BY <1>1
      <4> QED BY <3>1, <4>1, <4>2
    <3> QED BY <1>1, <1>2, <2>2, <3>1, <3>2, <3>3 DEF Ordered
  <2> QED BY <1>1, <2>1, <2>2
<1>3. ASSUME NEW w, NEW x, Agrees(q, j, w, u, x) PROVE Agrees(p, k, w, u, x)
  <2>1. ASSUME NEW op, \A i \in DOMAIN p : Concerns(p[i], u) => p[i].op = op
        PROVE  /\ \A i \in DOMAIN q : Concerns(q[i], u) => q[i].op = op
               /\ Concerns(e, u) => e.op = op
    <3>1. n + 1 \in DOMAIN p
      BY <1>1
    <3> QED BY <1>1, <2>1, <3>1
  <2>2. (\A i \in DOMAIN p : Concerns(p[i], u) => p[i].op = "add") => w \in {0, k}
    <3> SUFFICES ASSUME \A i \in DOMAIN p : Concerns(p[i], u) => p[i].op = "add"
                 PROVE  w \in {0, k}
      OBVIOUS
    <3>1. w \in {0, j} /\ (Concerns(e, u) => e.op = "add")
      BY <1>3, <2>1 DEF Agrees
    <3> QED BY <3>1
  <2>3. (\A i \in DOMAIN p : Concerns(p[i], u) => p[i].op = "update") /\ w = 0 => k = 0 \/ x
    <3> SUFFICES ASSUME \A i \in DOMAIN p : Concerns(p[i], u) => p[i].op = "update", w = 0
                 PROVE  k = 0 \/ x
      OBVIOUS
    <3>1. (j = 0 \/ x) /\ (Concerns(e, u) => e.op = "update")
      BY <1>3, <2>1 DEF Agrees
    <3> QED BY <3>1
  <2> QED BY <2>2, <2>3 DEF Agrees
<1> QED BY <1>2, <1>3 DEF p

\* The first event is handled.
LEMMA AgreesShifts ==
  ASSUME NEW S, NEW q \in Seq(S), q # <<>>, NEW u, NEW j, Ordered(q, j, u),
         q[1].op \in {"add", "update"} => Word(q[1], u) # 0
  PROVE  /\ Ordered(Tail(q), j, u)
         /\ Concerns(q[1], u) /\ q[1].op \in {"remove", "create", "chunk"} =>
              Agrees(Tail(q), j, Word(q[1], u), u, FALSE)
         /\ \A w, x : Agrees(q, j, w, u, x) => Agrees(Tail(q), j, Replay(q[1], w, u), u, x)
<1> DEFINE p == Tail(q)
           n == Len(q)
<1>1. /\ n \in Nat /\ n >= 1 /\ DOMAIN q = 1..n /\ DOMAIN p = 1..(n - 1) /\ \A i \in 1..(n - 1) : p[i] = q[i + 1]
      /\ p \in Seq(S)
  OBVIOUS
<1> HIDE DEF p, n
<1>2. Ordered(p, j, u)
  <2> SUFFICES ASSUME NEW i \in 1..(n - 1), Concerns(p[i], u)
               PROVE  \/ Word(p[i], u) = j /\ \A l \in 1..(n - 1) : l > i => ~Concerns(p[l], u)
                      \/ \E l \in 1..(n - 1) : /\ l > i /\ Concerns(p[l], u)
                                               /\ (p[l].op = "update" => Word(p[i], u) # 0)
                                               /\ (p[l].op = "add" => Word(p[i], u) = 0)
    BY <1>1 DEF Ordered
  <2>1. i + 1 \in 1..n /\ p[i] = q[i + 1]
    BY <1>1
  <2>2. CASE Word(q[i + 1], u) = j /\ \A l \in 1..n : l > i + 1 => ~Concerns(q[l], u)
    <3>1. ASSUME NEW l \in 1..(n - 1), l > i PROVE ~Concerns(p[l], u)
      <4>1. l + 1 \in 1..n /\ l + 1 > i + 1 /\ p[l] = q[l + 1]
        BY <1>1, <3>1
      <4> QED BY <2>2, <4>1
    <3> QED BY <2>1, <2>2, <3>1
  <2>3. CASE \E l \in 1..n : /\ l > i + 1 /\ Concerns(q[l], u)
                             /\ (q[l].op = "update" => Word(q[i + 1], u) # 0)
                             /\ (q[l].op = "add" => Word(q[i + 1], u) = 0)
    <3>1. PICK l \in 1..n : /\ l > i + 1 /\ Concerns(q[l], u)
                            /\ (q[l].op = "update" => Word(q[i + 1], u) # 0)
                            /\ (q[l].op = "add" => Word(q[i + 1], u) = 0)
      BY <2>3
    <3>2. l - 1 \in 1..(n - 1) /\ l - 1 > i /\ p[l - 1] = q[l]
      <4>1. l - 1 \in 1..(n - 1) /\ l - 1 > i /\ (l - 1) + 1 = l
        BY <1>1, <3>1
      <4> QED BY <1>1, <4>1
    <3> QED BY <2>1, <3>1, <3>2
  <2> QED BY <1>1, <2>1, <2>2, <2>3 DEF Ordered
\* What the rest of the queue does to what the first event leaves.
<1>3. ASSUME Concerns(q[1], u)
      PROVE  /\ (\A i \in DOMAIN p : ~Concerns(p[i], u)) => Word(q[1], u) = j
             /\ (\A i \in DOMAIN p : Concerns(p[i], u) => p[i].op = "add") => Word(q[1], u) \in {0, j}
             /\ (\A i \in DOMAIN p : Concerns(p[i], u) => p[i].op = "update") => Word(q[1], u) = j \/ Word(q[1], u) # 0
             /\ (\A i \in DOMAIN p : Concerns(p[i], u) => p[i].op = "add") => Word(q[1], u) = 0 \/ \A i \in DOMAIN p : ~Concerns(p[i], u)
  <2>1. ASSUME NEW k \in 1..n, k > 1 PROVE k - 1 \in DOMAIN p /\ p[k - 1] = q[k]
    <3>1. k - 1 \in 1..(n - 1) /\ (k - 1) + 1 = k
      BY <1>1, <2>1
    <3> QED BY <1>1, <3>1
  <2>2. 1 \in 1..n
    BY <1>1
  <2>3. CASE Word(q[1], u) = j /\ \A k \in 1..n : k > 1 => ~Concerns(q[k], u)
    <3>1. ASSUME NEW i \in DOMAIN p PROVE ~Concerns(p[i], u)
      <4>1. i + 1 \in 1..n /\ i + 1 > 1 /\ p[i] = q[i + 1]
        BY <1>1
      <4> QED BY <2>3, <4>1
    <3> QED BY <2>3, <3>1
  <2>4. CASE \E k \in 1..n : /\ k > 1 /\ Concerns(q[k], u)
                             /\ (q[k].op = "update" => Word(q[1], u) # 0)
                             /\ (q[k].op = "add" => Word(q[1], u) = 0)
    <3>1. PICK k \in DOMAIN p : /\ Concerns(p[k], u)
                                /\ (p[k].op = "update" => Word(q[1], u) # 0)
                                /\ (p[k].op = "add" => Word(q[1], u) = 0)
      BY <2>1, <2>4
    <3> QED BY <3>1
  <2> QED BY <1>1, <1>3, <2>2, <2>3, <2>4 DEF Ordered
<1>4. ASSUME Concerns(q[1], u), q[1].op \in {"remove", "create", "chunk"}
      PROVE  Agrees(p, j, Word(q[1], u), u, FALSE)
  BY <1>3, <1>4 DEF Agrees
<1>5. ASSUME NEW op, \A i \in DOMAIN p : Concerns(p[i], u) => p[i].op = op,
             Concerns(q[1], u) => q[1].op = op
      PROVE  \A i \in DOMAIN q : Concerns(q[i], u) => q[i].op = op
  <2> SUFFICES ASSUME NEW i \in 1..n, Concerns(q[i], u) PROVE q[i].op = op
    BY <1>1
  <2>1. CASE i = 1
    BY <1>5, <2>1
  <2>2. CASE i # 1
    <3>1. i - 1 \in 1..(n - 1) /\ (i - 1) + 1 = i
      BY <1>1, <2>2
    <3> QED BY <1>1, <1>5, <3>1
  <2> QED BY <2>1, <2>2
<1>6. ASSUME NEW w, NEW x, Agrees(q, j, w, u, x)
      PROVE  Agrees(p, j, Replay(q[1], w, u), u, x)
  <2> DEFINE r == Replay(q[1], w, u)
  <2>1. ASSUME \A i \in DOMAIN p : Concerns(p[i], u) => p[i].op = "add"
        PROVE  r \in {0, j}
    <3>1. CASE Concerns(q[1], u) => q[1].op = "add"
      <4>1. w \in {0, j}
        BY <1>5, <1>6, <2>1, <3>1 DEF Agrees
      <4>2. Concerns(q[1], u) => Word(q[1], u) \in {0, j}
        BY <1>3, <2>1
      <4> QED BY <3>1, <4>1, <4>2 DEF Replay
    <3>2. CASE ~(Concerns(q[1], u) => q[1].op = "add")
      <4>1. Word(q[1], u) \in {0, j}
        BY <1>3, <2>1, <3>2
      <4> QED BY <3>2, <4>1 DEF Replay
    <3> QED BY <3>1, <3>2
  <2>2. ASSUME \A i \in DOMAIN p : Concerns(p[i], u) => p[i].op = "update", r = 0
        PROVE  j = 0 \/ x
    <3>1. CASE Concerns(q[1], u) => q[1].op = "update"
      <4>1. w = 0
        BY <2>2, <3>1 DEF Replay
      <4> QED BY <1>5, <1>6, <2>2, <3>1, <4>1 DEF Agrees
    <3>2. CASE ~(Concerns(q[1], u) => q[1].op = "update")
      <4>1. Word(q[1], u) = 0
        BY <2>2, <3>2 DEF Replay
      <4>2. Word(q[1], u) = j
        BY <1>3, <2>2, <3>2, <4>1
      <4> QED BY <4>1, <4>2
    <3> QED BY <3>1, <3>2
  <2> QED BY <2>1, <2>2 DEF Agrees
<1> QED BY <1>2, <1>4, <1>6 DEF p

LEMMA MovesFact == MaxMoves \in Nat /\ MaxMoves # 0
  BY StoreConstants

LEMMA MemberListing ==
  ASSUME NEW es \in SUBSET Members!Entries
  PROVE  Members!Listing(es) \in [Users -> 0..MaxMoves]
<1>1. ASSUME NEW u \in Users
      PROVE  (IF \E e \in es : e.u = u THEN (CHOOSE e \in es : e.u = u).v ELSE 0) \in 0..MaxMoves
  <2>1. CASE \E e \in es : e.u = u
    <3>1. (CHOOSE e \in es : e.u = u) \in es
      BY <2>1
    <3> QED BY <2>1, <3>1, StoreConstants DEF Members!Entries
  <2> QED BY <2>1, StoreConstants
<1> QED BY <1>1 DEF Members!Listing

\* A list of some members, or of all, as the server has them.
LEMMA MemberListed ==
  ASSUME joined \in [Users -> 0..MaxMoves]
  PROVE  /\ Members!All \in SUBSET Members!Entries
         /\ \A es \in SUBSET Members!All, u \in Users :
              /\ es \in SUBSET Members!Entries
              /\ Members!Listing(es)[u] # 0 => Members!Listing(es)[u] = joined[u]
         /\ \A u \in Users : Members!Listing(Members!All)[u] = joined[u]
<1>1. Members!All \in SUBSET Members!Entries
  BY StoreConstants DEF Members!All, Members!Entries
<1>2. ASSUME NEW es \in SUBSET Members!All, NEW u \in Users
      PROVE  Members!Listing(es)[u] # 0 => Members!Listing(es)[u] = joined[u]
  <2>1. Members!Listing(es)[u] = IF \E e \in es : e.u = u THEN (CHOOSE e \in es : e.u = u).v ELSE 0
    BY DEF Members!Listing
  <2>2. CASE \E e \in es : e.u = u
    <3>1. (CHOOSE e \in es : e.u = u) \in es /\ (CHOOSE e \in es : e.u = u).u = u
      BY <2>2
    <3>2. (CHOOSE e \in es : e.u = u).v = joined[u]
      BY <3>1 DEF Members!All
    <3> QED BY <2>1, <2>2, <3>2
  <2> QED BY <2>1, <2>2
<1>3. ASSUME NEW u \in Users PROVE Members!Listing(Members!All)[u] = joined[u]
  <2>1. CASE joined[u] = 0
    BY <1>2, <2>1
  <2>2. CASE joined[u] # 0
    <3>1. [u |-> u, v |-> joined[u]] \in Members!All
      BY <2>2 DEF Members!All
    <3>2. \E e \in Members!All : e.u = u
      BY <3>1
    <3>3. (CHOOSE e \in Members!All : e.u = u) \in Members!All /\ (CHOOSE e \in Members!All : e.u = u).u = u
      BY <3>2
    <3>4. (CHOOSE e \in Members!All : e.u = u).v = joined[u]
      <4>1. \A m \in Members!All : m.v = joined[m.u]
        BY DEF Members!All
      <4> QED BY <3>3, <4>1
    <3> QED BY <3>2, <3>4 DEF Members!Listing
  <2> QED BY <2>1, <2>2
<1> QED BY <1>1, <1>2, <1>3

LEMMA MemberEvents ==
  ASSUME NEW e \in Singles \cup Batches
  PROVE  /\ e.op \in {"add", "update", "remove"} => e \in Singles
         /\ e.op \in {"create", "chunk"} => e \in Batches
         /\ e.op \in {"add", "update", "remove", "create", "chunk"}
         /\ \A u \in Users : Word(e, u) \in 0..MaxMoves /\ (e.op \in {"add", "update"} => Word(e, u) # 0)
<1>1. /\ e.op \in {"add", "update", "remove"} => e \in Singles
      /\ e.op \in {"create", "chunk"} => e \in Batches
      /\ e.op \in {"add", "update", "remove", "create", "chunk"}
  BY DEF Singles, Batches
<1>2. CASE e \in Singles
  BY <1>2, StoreConstants DEF Word, Singles
<1>3. CASE e \in Batches
  BY <1>3, MemberListing DEF Word, Batches
<1> QED BY <1>1, <1>2, <1>3

MemberSlots == [step : {"idle", "asked", "answered"}, page : SUBSET Members!Entries, stale : BOOLEAN]
SingleSlots == [step : {"idle", "asked", "answered"}, page : SUBSET (1..MaxMoves), stale : BOOLEAN]

MemberTypes ==
  /\ present \in BOOLEAN /\ roster \in [Users -> 0..MaxMoves]
  /\ lists \in [Requests -> MemberSlots] /\ singles \in [Users -> SingleSlots]
  /\ joined \in [Users -> 0..MaxMoves] /\ moves \in [Users -> 0..MaxMoves]
  /\ news \in Seq(Singles \cup Batches) /\ batches \in 0..MaxBatches
  /\ seeded \in BOOLEAN /\ odd \subseteq Users

LEMMA MemberTypesAre == MemberTypes <=> Members!TypeOK
  BY DEF MemberTypes, Members!TypeOK, MemberSlots, SingleSlots, Singles, Batches, Members!Slot

LEMMA MemberSlotFacts ==
  /\ Members!Idle \in MemberSlots \cap SingleSlots /\ Members!Idle.step = "idle"
  /\ Members!Asked \in MemberSlots \cap SingleSlots /\ Members!Asked.step = "asked"
  /\ \A P : Members!Answered(P).step = "answered" /\ Members!Answered(P).page = P
  /\ \A P \in SUBSET Members!Entries : Members!Answered(P) \in MemberSlots
  /\ \A P \in SUBSET (1..MaxMoves) : Members!Answered(P) \in SingleSlots
  BY DEF MemberSlots, SingleSlots, Members!Idle, Members!Asked, Members!Answered

LEMMA MemberAged ==
  ASSUME NEW f, f \in MemberSlots \/ f \in SingleSlots
  PROVE  /\ f \in MemberSlots => Members!Aged(f) \in MemberSlots
         /\ f \in SingleSlots => Members!Aged(f) \in SingleSlots
         /\ Members!Aged(f).step = f.step /\ Members!Aged(f).page = f.page
         /\ f.step = "answered" => Members!Aged(f).stale
  BY DEF MemberSlots, SingleSlots, Members!Aged

\* What a load or a single one does without the store or the server.
LEMMA MemberAsks ==
  ASSUME MemberTypes, MemberInv,
         UNCHANGED <<present, roster, joined, moves, news, batches, seeded, odd>>,
         \/ /\ UNCHANGED singles
            /\ \E l \in Requests : \E f \in MemberSlots :
                 /\ lists' = [lists EXCEPT ![l] = f]
                 /\ f.step = "answered" => f.page = Members!All
         \/ /\ UNCHANGED lists
            /\ \E u \in Users : \E f \in SingleSlots :
                 /\ singles' = [singles EXCEPT ![u] = f]
                 /\ f.step = "answered" => joined[u] # 0 /\ f.page = {joined[u]}
  PROVE  MemberTypes' /\ MemberInv'
<1>1. MemberTypes'
  BY DEF MemberTypes
<1>2. \A u \in Users : Ordered(news, joined[u], u)' /\ Unlisted' = Unlisted
  BY DEF MemberInv, Unlisted
<1>3. ASSUME NEW l \in Requests, lists'[l].step = "answered", ~lists'[l].stale, NEW u \in Users
      PROVE  Agrees(news, joined[u], Members!Listing(lists'[l].page)[u], u, FALSE)
  <2>1. lists'[l] = lists[l] \/ lists'[l].page = Members!All
    BY <1>3 DEF MemberTypes
  <2>2. CASE lists'[l].page = Members!All
    BY <2>2, MemberListed DEF MemberTypes, Agrees
  <2> QED BY <1>3, <2>1, <2>2 DEF MemberInv
<1>4. ASSUME NEW u \in Users, singles'[u].step = "answered"
      PROVE  \E v \in 1..MaxMoves : /\ singles'[u].page = {v}
                                    /\ ~singles'[u].stale => Agrees(news, joined[u], v, u, FALSE)
  <2>1. singles'[u] = singles[u] \/ (joined[u] # 0 /\ singles'[u].page = {joined[u]})
    BY <1>4 DEF MemberTypes
  <2>2. CASE joined[u] # 0 /\ singles'[u].page = {joined[u]}
    <3>1. joined[u] \in 1..MaxMoves
      BY <2>2, MovesFact DEF MemberTypes
    <3> QED BY <2>2, <3>1 DEF Agrees
  <2> QED BY <1>4, <2>1, <2>2 DEF MemberInv
<1> QED BY <1>1, <1>2, <1>3, <1>4 DEF MemberInv, Unlisted

LEMMA MemberAsksKeep ==
  ASSUME MemberTypes, MemberInv,
         \/ \E l \in Requests : Members!LoadMembers(l) \/ Members!ServeMembers(l) \/ Members!FailMembers(l)
         \/ \E u \in Users : Members!EnsureMember(u) \/ Members!ServeMember(u)
  PROVE  MemberTypes' /\ MemberInv'
<1> USE DEF Members!serverVars
<1>1. ASSUME NEW l \in Requests, Members!LoadMembers(l) PROVE MemberTypes' /\ MemberInv'
  BY <1>1, MemberSlotFacts, MemberAsks DEF Members!LoadMembers
<1>2. ASSUME NEW l \in Requests, Members!ServeMembers(l) PROVE MemberTypes' /\ MemberInv'
  <2>1. Members!All \in SUBSET Members!Entries
    BY MemberListed DEF MemberTypes
  <2> QED BY <1>2, <2>1, MemberSlotFacts, MemberAsks DEF Members!ServeMembers
<1>3. ASSUME NEW l \in Requests, Members!FailMembers(l) PROVE MemberTypes' /\ MemberInv'
  BY <1>3, MemberSlotFacts, MemberAsks DEF Members!FailMembers
<1>4. ASSUME NEW u \in Users, Members!EnsureMember(u) PROVE MemberTypes' /\ MemberInv'
  BY <1>4, MemberSlotFacts, MemberAsks DEF Members!EnsureMember
<1>5. ASSUME NEW u \in Users, Members!ServeMember(u) PROVE MemberTypes' /\ MemberInv'
  <2>1. joined[u] # 0 => {joined[u]} \in SUBSET (1..MaxMoves)
    BY MovesFact DEF MemberTypes
  <2>2. \E f \in SingleSlots : /\ singles' = [singles EXCEPT ![u] = f]
                               /\ f.step = "answered" => joined[u] # 0 /\ f.page = {joined[u]}
    <3>1. CASE joined[u] = 0
      BY <1>5, <3>1, MemberSlotFacts DEF Members!ServeMember
    <3>2. CASE joined[u] # 0
      BY <1>5, <2>1, <3>2, MemberSlotFacts DEF Members!ServeMember
    <3> QED BY <3>1, <3>2
  <2> QED BY <1>5, <2>2, MemberAsks DEF Members!ServeMember
<1> QED BY <1>1, <1>2, <1>3, <1>4, <1>5

LEMMA ApplyMembersKeeps ==
  ASSUME MemberTypes, MemberInv, NEW l \in Requests, Members!ApplyMembers(l)
  PROVE  MemberTypes' /\ MemberInv'
<1>1. /\ UNCHANGED <<singles, joined, moves, news, batches>> /\ present' = TRUE /\ seeded' = FALSE
      /\ roster' = Members!Listing(lists[l].page) /\ lists[l].step = "answered"
      /\ odd' = (IF lists[l].stale THEN Users ELSE {}) /\ lists' = [lists EXCEPT ![l] = Members!Idle]
      /\ lists[l] \in MemberSlots
  BY DEF Members!ApplyMembers, Members!serverVars, MemberTypes
<1>2. roster' \in [Users -> 0..MaxMoves]
  BY <1>1, MemberListing DEF MemberSlots
<1>3. MemberTypes'
  BY <1>1, <1>2, MemberSlotFacts DEF MemberTypes
<1>4. ASSUME NEW u \in Users \ odd'
      PROVE  Agrees(news, joined[u], roster'[u], u, Unlisted')
  BY <1>1 DEF MemberInv, Unlisted
<1>5. \A k \in Requests : lists'[k].step = "answered" => lists'[k] = lists[k]
  BY <1>1, MemberSlotFacts DEF MemberTypes
<1> QED BY <1>1, <1>3, <1>4, <1>5 DEF MemberInv

LEMMA ApplyMemberKeeps ==
  ASSUME MemberTypes, MemberInv, NEW u \in Users, Members!ApplyMember(u)
  PROVE  MemberTypes' /\ MemberInv'
<1>1. /\ UNCHANGED <<lists, joined, moves, news, batches>> /\ present' = TRUE /\ seeded' = (seeded \/ ~present)
      /\ singles[u].step = "answered" /\ singles' = [singles EXCEPT ![u] = Members!Idle]
      /\ odd' = (IF singles[u].stale /\ roster[u] = 0 THEN odd \cup {u} ELSE odd)
  BY DEF Members!ApplyMember, Members!serverVars
<1>2. PICK v \in 1..MaxMoves : /\ singles[u].page = {v}
                               /\ ~singles[u].stale => Agrees(news, joined[u], v, u, FALSE)
  BY <1>1 DEF MemberInv
<1>3. roster' = [roster EXCEPT ![u] = IF @ = 0 THEN v ELSE @]
  BY <1>2 DEF Members!ApplyMember, Members!Merge
<1>4. MemberTypes'
  BY <1>1, <1>3, MemberSlotFacts DEF MemberTypes
<1>5. Unlisted' = Unlisted
  BY <1>1 DEF Unlisted
<1>6. ASSUME NEW w \in Users \ odd'
      PROVE  Agrees(news, joined[w], roster'[w], w, Unlisted)
  <2>1. w \notin odd
    BY <1>1
  <2>2. CASE w = u /\ roster[u] = 0
    <3>1. roster'[w] = v /\ ~singles[u].stale
      BY <1>1, <1>3, <2>2 DEF MemberTypes
    <3> QED BY <1>2, <2>2, <3>1 DEF Agrees
  <2>3. CASE ~(w = u /\ roster[u] = 0)
    <3>1. roster'[w] = roster[w]
      BY <1>3, <2>3 DEF MemberTypes
    <3> QED BY <2>1, <3>1 DEF MemberInv
  <2> QED BY <2>2, <2>3
<1>7. \A w \in Users : singles'[w].step = "answered" => singles'[w] = singles[w]
  BY <1>1, MemberSlotFacts DEF MemberTypes
<1> QED BY <1>1, <1>4, <1>5, <1>6, <1>7 DEF MemberInv

\* The server sends an event.
LEMMA MemberNews ==
  ASSUME MemberTypes, MemberInv, NEW e \in Singles \cup Batches, news' = Append(news, e),
         joined' \in [Users -> 0..MaxMoves], moves' \in [Users -> 0..MaxMoves], batches' \in 0..MaxBatches,
         UNCHANGED <<present, roster, lists, singles, seeded, odd>>,
         \A u \in Users : IF Concerns(e, u)
                          THEN /\ Word(e, u) = joined'[u]
                               /\ (e.op = "update" => joined[u] # 0) /\ (e.op = "add" => joined[u] = 0)
                          ELSE joined'[u] = joined[u]
  PROVE  MemberTypes' /\ MemberInv'
<1>1. news \in Seq(Singles \cup Batches)
  BY DEF MemberTypes
<1>2. MemberTypes'
  BY <1>1 DEF MemberTypes
<1>3. ASSUME NEW u \in Users
      PROVE  /\ Ordered(news, joined[u], u) => Ordered(news', joined'[u], u)
             /\ \A w, x : Agrees(news, joined[u], w, u, x) => Agrees(news', joined'[u], w, u, x)
  BY <1>1, AgreesGrows
<1>4. Unlisted' = Unlisted
  BY DEF Unlisted
<1> QED BY <1>2, <1>3, <1>4 DEF MemberInv

LEMMA MemberMoveKeeps ==
  ASSUME MemberTypes, MemberInv, NEW u \in Users, Members!Move(u)
  PROVE  MemberTypes' /\ MemberInv'
<1>1. /\ moves[u] \in 0..MaxMoves /\ moves[u] < MaxMoves /\ moves' = [moves EXCEPT ![u] = @ + 1]
      /\ UNCHANGED <<present, roster, lists, singles, batches, seeded, odd>>
  BY DEF Members!Move, Members!rosterVars, MemberTypes
<1>2. moves' \in [Users -> 0..MaxMoves] /\ moves'[u] \in 1..MaxMoves
  <2>1. moves[u] + 1 \in 1..MaxMoves /\ moves \in [Users -> 0..MaxMoves]
    BY <1>1, MovesFact DEF MemberTypes
  <2> QED BY <1>1, <2>1
<1>3. PICK op \in {"add", "update", "remove"} :
        /\ news' = Append(news, [op |-> op, u |-> u, v |-> moves'[u]])
        /\ joined' = [joined EXCEPT ![u] = IF op = "remove" THEN 0 ELSE moves'[u]]
        /\ (op = "update" => joined[u] # 0) /\ (op = "add" => joined[u] = 0)
  BY DEF Members!Move
<1> DEFINE e == [op |-> op, u |-> u, v |-> moves'[u]]
<1>4. e \in Singles /\ joined' \in [Users -> 0..MaxMoves] /\ batches \in 0..MaxBatches
  BY <1>2, <1>3, StoreConstants DEF Singles, MemberTypes
<1>5. ASSUME NEW w \in Users
      PROVE  IF Concerns(e, w) THEN /\ Word(e, w) = joined'[w]
                                    /\ (e.op = "update" => joined[w] # 0) /\ (e.op = "add" => joined[w] = 0)
             ELSE joined'[w] = joined[w]
  BY <1>3 DEF Concerns, Word, MemberTypes
<1> HIDE DEF e
<1> QED BY <1>1, <1>2, <1>3, <1>4, <1>5, MemberNews DEF e

LEMMA MemberBatchKeeps ==
  ASSUME MemberTypes, MemberInv, Members!Batch
  PROVE  MemberTypes' /\ MemberInv'
<1>1. /\ UNCHANGED <<present, roster, lists, singles, joined, moves, seeded, odd>>
      /\ batches' \in 0..MaxBatches /\ joined \in [Users -> 0..MaxMoves] /\ moves \in [Users -> 0..MaxMoves]
  <2>1. batches \in 0..MaxBatches /\ batches < MaxBatches /\ batches' = batches + 1
    BY DEF Members!Batch, MemberTypes
  <2>2. batches' \in 0..MaxBatches
    BY <2>1, StoreConstants
  <2> QED BY <2>2 DEF Members!Batch, Members!rosterVars, MemberTypes
<1>2. PICK op \in {"create", "chunk"}, es \in SUBSET Members!All :
        /\ news' = Append(news, [op |-> op, es |-> es])
        /\ op = "create" => es = Members!All
  BY DEF Members!Batch
<1> DEFINE e == [op |-> op, es |-> es]
<1>3. e \in Batches
  BY <1>1, <1>2, MemberListed DEF Batches
<1>4. ASSUME NEW w \in Users
      PROVE  IF Concerns(e, w) THEN Word(e, w) = joined'[w] /\ e.op # "update" /\ e.op # "add"
             ELSE joined'[w] = joined[w]
  <2>1. Members!Listing(es)[w] # 0 => Members!Listing(es)[w] = joined[w]
    BY <1>1, <1>2, MemberListed
  <2>2. op = "create" => Members!Listing(es)[w] = joined[w]
    BY <1>1, <1>2, MemberListed
  <2> QED BY <1>1, <2>1, <2>2 DEF Concerns, Word
<1> HIDE DEF e
<1> QED BY <1>1, <1>2, <1>3, <1>4, MemberNews DEF e

\* What the store does with an event.
LEMMA MemberEffect ==
  ASSUME MemberTypes, Members!Handle
  PROVE  /\ news # <<>> /\ news' = Tail(news) /\ Head(news) = news[1] /\ news[1] \in Singles \cup Batches
         /\ roster' \in [Users -> 0..MaxMoves]
         /\ \A u \in Users : roster'[u] = Replay(news[1], roster[u], u)
         /\ present' \in BOOLEAN /\ seeded' \in BOOLEAN /\ odd' \subseteq odd
         /\ Unlisted' = Unlisted \/ news[1].op = "create"
         /\ \A u \in odd \ odd' : Concerns(news[1], u) /\ news[1].op \in {"create", "chunk"}
         /\ \A u \in Users : singles'[u] = Members!Aged(singles[u]) \/ (~Concerns(news[1], u) /\ singles'[u] = singles[u])
         /\ singles' \in [Users -> SingleSlots]
<1> DEFINE e == Head(news)
<1>1. news # <<>> /\ news' = Tail(news) /\ e = news[1] /\ e \in Singles \cup Batches
  BY DEF Members!Handle, MemberTypes
<1>2. CASE Members!One(e)
  <2>1. e \in Singles /\ singles' = [singles EXCEPT ![e.u] = Members!Aged(@)]
    <3>1. e.op \in {"add", "update", "remove"}
      BY <1>2 DEF Members!One
    <3>2. ~Members!Many(e)
      BY <3>1 DEF Members!Many
    <3> QED BY <1>1, <3>1, <3>2, MemberEvents DEF Members!Handle
  <2>2. \A u \in Users : Concerns(e, u) <=> e.u = u
    BY <2>1 DEF Singles, Concerns
  <2>3. e.u \in Users /\ e.v \in 1..MaxMoves
    BY <2>1 DEF Singles
  <2>4. /\ \A u \in Users : roster'[u] = Replay(e, roster[u], u)
        /\ roster' \in [Users -> 0..MaxMoves]
    <3> DEFINE r == Replay(e, roster[e.u], e.u)
    <3>1. roster \in [Users -> 0..MaxMoves] /\ roster' = [roster EXCEPT ![e.u] = r]
      <4>1. roster \in [Users -> 0..MaxMoves] /\ Concerns(e, e.u)
        BY <2>2, <2>3 DEF MemberTypes
      <4>2. CASE e.op = "add"
        BY <1>2, <2>3, <4>1, <4>2 DEF Members!One, Members!Merge, Replay, Word
      <4>3. CASE e.op = "update"
        BY <1>2, <2>3, <4>1, <4>3 DEF Members!One, Replay, Word
      <4>4. CASE e.op = "remove"
        BY <1>2, <2>3, <4>1, <4>4 DEF Members!One, Replay, Word
      <4> QED BY <1>2, <4>1, <4>2, <4>3, <4>4 DEF Members!One
    <3>2. r \in 0..MaxMoves
      <4>1. Word(e, e.u) \in 0..MaxMoves /\ roster[e.u] \in 0..MaxMoves /\ 0 \in 0..MaxMoves
        BY <1>1, <2>3, <3>1, MemberEvents, MovesFact
      <4> QED BY <4>1 DEF Replay
    <3>3. \A u \in Users : u # e.u => Replay(e, roster[u], u) = roster[u]
      BY <2>2 DEF Replay
    <3> HIDE DEF r
    <3>4. \A u \in Users : roster'[u] = Replay(e, roster[u], u)
      BY <2>3, <3>1, <3>3 DEF r
    <3> QED BY <2>3, <3>1, <3>2, <3>4
  <2>5. present' \in BOOLEAN /\ seeded' \in BOOLEAN /\ odd' = odd /\ Unlisted' = Unlisted
    <3>1. present \in BOOLEAN /\ seeded \in BOOLEAN
      BY DEF MemberTypes
    <3>2. CASE e.op = "add"
      BY <1>2, <3>1, <3>2 DEF Members!One, Unlisted
    <3>3. CASE e.op # "add"
      BY <1>2, <3>1, <3>3 DEF Members!One, Unlisted
    <3> QED BY <3>2, <3>3
  <2>6. /\ singles' \in [Users -> SingleSlots]
        /\ \A u \in Users : singles'[u] = Members!Aged(singles[u]) \/ (~Concerns(e, u) /\ singles'[u] = singles[u])
    BY <2>1, <2>2, <2>3, MemberAged DEF MemberTypes
  <2> QED BY <1>1, <2>4, <2>5, <2>6
<1>3. CASE Members!Many(e)
  <2>1. e \in Batches /\ singles' = Members!AllAged(singles)
    <3>1. e.op \in {"create", "chunk"}
      BY <1>3 DEF Members!Many
    <3>2. ~Members!One(e)
      BY <3>1 DEF Members!One
    <3> QED BY <1>1, <3>1, <3>2, MemberEvents DEF Members!Handle
  <2>2. Members!Listing(e.es) \in [Users -> 0..MaxMoves]
    BY <2>1, MemberListing DEF Batches
  <2>3. /\ \A u \in Users : roster'[u] = Replay(e, roster[u], u)
        /\ roster' \in [Users -> 0..MaxMoves]
    <3>1. CASE e.op = "create"
      BY <1>3, <2>2, <3>1 DEF Members!Many, Replay, Word, Concerns
    <3>2. CASE e.op = "chunk"
      BY <1>3, <2>2, <3>2 DEF Members!Many, Replay, Word, Concerns, MemberTypes
    <3> QED BY <1>3, <3>1, <3>2 DEF Members!Many
  <2>4. /\ present' \in BOOLEAN /\ seeded' \in BOOLEAN /\ odd' \subseteq odd
        /\ Unlisted' = Unlisted \/ e.op = "create"
    BY <1>3 DEF Members!Many, MemberTypes, Unlisted
  <2>5. \A u \in odd \ odd' : Concerns(e, u) /\ e.op \in {"create", "chunk"}
    BY <1>3 DEF Members!Many, Concerns, MemberTypes
  <2>6. /\ singles' \in [Users -> SingleSlots]
        /\ \A u \in Users : singles'[u] = Members!Aged(singles[u])
    BY <2>1, MemberAged DEF MemberTypes, Members!AllAged
  <2> QED BY <1>1, <2>3, <2>4, <2>5, <2>6
<1> QED BY <1>2, <1>3 DEF Members!Handle

LEMMA MemberHandleKeeps ==
  ASSUME MemberTypes, MemberInv, Members!Handle
  PROVE  MemberTypes' /\ MemberInv'
<1> DEFINE e == news[1]
<1>1. news \in Seq(Singles \cup Batches) /\ news # <<>> /\ news' = Tail(news) /\ e \in Singles \cup Batches
  BY MemberEffect DEF MemberTypes
<1>2. UNCHANGED <<joined, moves, batches>> /\ lists' = Members!AllAged(lists)
  BY DEF Members!Handle
<1>3. /\ lists' \in [Requests -> MemberSlots]
      /\ \A l \in Requests : lists'[l] = Members!Aged(lists[l])
  BY <1>2, MemberAged DEF Members!AllAged, MemberTypes
<1>4. MemberTypes'
  <2>1. news' \in Seq(Singles \cup Batches)
    BY <1>1
  <2> QED BY <1>2, <1>3, <2>1, MemberEffect DEF MemberTypes
<1>5. ASSUME NEW u \in Users
      PROVE  /\ Ordered(news', joined[u], u)
             /\ Concerns(e, u) /\ e.op \in {"remove", "create", "chunk"} =>
                  Agrees(news', joined[u], Word(e, u), u, FALSE)
             /\ \A w, x : Agrees(news, joined[u], w, u, x) => Agrees(news', joined[u], Replay(e, w, u), u, x)
  <2>1. e.op \in {"add", "update"} => Word(e, u) # 0
    BY <1>1, MemberEvents
  <2>2. Ordered(news, joined[u], u)
    BY DEF MemberInv
  <2> QED BY <1>1, <2>1, <2>2, AgreesShifts
<1>6. ASSUME NEW u \in Users \ odd'
      PROVE  Agrees(news', joined[u], roster'[u], u, Unlisted')
  <2>1. roster'[u] = Replay(e, roster[u], u)
    BY MemberEffect
  <2>2. CASE Concerns(e, u) /\ e.op \in {"create", "chunk"}
    <3>1. roster'[u] = Word(e, u)
      BY <2>1, <2>2 DEF Replay
    <3> QED BY <1>5, <2>2, <3>1 DEF Agrees
  <2>3. CASE ~(Concerns(e, u) /\ e.op \in {"create", "chunk"})
    <3>1. u \notin odd
      BY <2>3, MemberEffect
    <3>2. Unlisted' = Unlisted
      BY <2>3, MemberEffect DEF Concerns
    <3>3. Agrees(news, joined[u], roster[u], u, Unlisted)
      BY <3>1 DEF MemberInv
    <3> QED BY <1>5, <2>1, <3>2, <3>3
  <2> QED BY <2>2, <2>3
<1>7. ASSUME NEW l \in Requests, lists'[l].step = "answered" PROVE lists'[l].stale
  <2>1. lists[l] \in MemberSlots
    BY DEF MemberTypes
  <2> QED BY <1>3, <1>7, <2>1, MemberAged
<1>8. ASSUME NEW u \in Users, singles'[u].step = "answered"
      PROVE  \E v \in 1..MaxMoves : /\ singles'[u].page = {v}
                                    /\ ~singles'[u].stale => Agrees(news', joined[u], v, u, FALSE)
  <2>1. CASE singles'[u] = Members!Aged(singles[u])
    <3>1. singles[u].step = "answered" /\ singles'[u].page = singles[u].page /\ singles'[u].stale
      BY <1>8, <2>1, MemberAged DEF MemberTypes
    <3> QED BY <3>1 DEF MemberInv
  <2>2. CASE ~Concerns(e, u) /\ singles'[u] = singles[u]
    <3>1. PICK v \in 1..MaxMoves : /\ singles[u].page = {v}
                                   /\ ~singles[u].stale => Agrees(news, joined[u], v, u, FALSE)
      BY <1>8, <2>2 DEF MemberInv
    <3>2. Replay(e, v, u) = v
      BY <2>2 DEF Replay
    <3> QED BY <1>5, <2>2, <3>1, <3>2
  <2> QED BY <2>1, <2>2, MemberEffect
<1> QED BY <1>2, <1>4, <1>5, <1>6, <1>7, <1>8 DEF MemberInv

LEMMA MembersKeep ==
  ASSUME MemberTypes, MemberInv, Members!Next
  PROVE  MemberTypes' /\ MemberInv'
  BY MemberAsksKeep, ApplyMembersKeeps, ApplyMemberKeeps, MemberMoveKeeps, MemberBatchKeeps,
     MemberHandleKeeps DEF Members!Next

LEMMA MembersStart == Members!Init => MemberTypes /\ MemberInv
<1> SUFFICES ASSUME Members!Init PROVE MemberTypes /\ MemberInv
  OBVIOUS
<1>1. /\ news = <<>> /\ DOMAIN news = {} /\ news \in Seq(Singles \cup Batches)
      /\ joined \in [Users -> 0..MaxMoves]
  BY StoreConstants DEF Members!Init
<1>2. MemberTypes
  <2>1. /\ moves = joined /\ present = FALSE /\ roster = [u \in Users |-> 0] /\ batches = 0
        /\ lists = [l \in Requests |-> Members!Idle] /\ singles = [u \in Users |-> Members!Idle]
        /\ seeded = FALSE /\ odd = {}
    BY DEF Members!Init
  <2>2. roster \in [Users -> 0..MaxMoves] /\ batches \in 0..MaxBatches
    BY <2>1, StoreConstants
  <2>3. lists \in [Requests -> MemberSlots] /\ singles \in [Users -> SingleSlots]
    BY <2>1, MemberSlotFacts
  <2> QED BY <1>1, <2>1, <2>2, <2>3 DEF MemberTypes
<1>3. \A u \in Users : Agrees(news, joined[u], roster[u], u, Unlisted) /\ Ordered(news, joined[u], u)
  BY <1>1 DEF Members!Init, Agrees, Unlisted, Ordered
<1>4. (\A l \in Requests : lists[l].step = "idle") /\ \A u \in Users : singles[u].step = "idle"
  BY MemberSlotFacts DEF Members!Init
<1> QED BY <1>2, <1>3, <1>4 DEF MemberInv

\* The members and what is on its way about them, in every state.
LEMMA MembersInvariant == Spec => [](MemberTypes /\ MemberInv)
<1>1. Init => MemberTypes /\ MemberInv
  BY MembersStart DEF Init
<1>2. MemberTypes /\ MemberInv /\ [Next]_vars => (MemberTypes /\ MemberInv)'
  <2> SUFFICES ASSUME MemberTypes, MemberInv, [Next]_vars
               PROVE  MemberTypes' /\ MemberInv'
    OBVIOUS
  <2>1. CASE UNCHANGED memberVars
    <3>1. UNCHANGED <<present, roster, lists, singles, joined, moves, news, batches, seeded, odd>>
      BY <2>1 DEF memberVars
    <3>2. MemberTypes'
      BY <3>1 DEF MemberTypes
    <3>3. MemberInv'
      BY <3>1 DEF MemberInv, Unlisted
    <3> QED BY <3>2, <3>3
  <2>2. CASE Members!Next
    BY <2>2, MembersKeep
  <2> QED BY <2>1, <2>2 DEF Next, FetchedNext, fetchedVars, vars
<1> QED BY <1>1, <1>2, PTL DEF Spec

\* Once all events are in, each member listed is one, and as the server has it,
\* and a list that began with all members has all of them, across lists, single
\* members and events in any order, but for users whom an answer brought back
\* that was older than the store (stores.ts, loadMembers, ensureMember and the
\* handlers of the member events).
THEOREM MembersAgree == Spec => []MembersAgreeUnlessRaced
<1>1. MemberTypes /\ MemberInv => MembersAgreeUnlessRaced
  <2> SUFFICES ASSUME MemberTypes, MemberInv, present, news = <<>>, NEW u \in Users \ odd
               PROVE  roster[u] = joined[u] \/ (seeded /\ roster[u] = 0)
    BY DEF MembersAgreeUnlessRaced, Members!MembersAgreeUnlessRaced
  <2>1. Agrees(news, joined[u], roster[u], u, Unlisted) /\ DOMAIN news = {}
    BY DEF MemberInv
  <2> QED BY <2>1 DEF Agrees, Unlisted
<1> QED BY <1>1, MembersInvariant, PTL

-----------------------------------------------------------------------------
(* Sets of natural numbers.  The least number of a set stands in for        *)
(* induction.                                                               *)

LEMMA LeastNatural ==
  ASSUME NEW T \in SUBSET Nat, T # {}
  PROVE  \E m \in T : \A k \in T : m <= k
<1>1. PICK R : R = OpToRel(<, Nat)
  OBVIOUS
<1>2. \A x, y \in Nat : <<x, y>> \in R <=> x < y
  BY <1>1 DEF OpToRel
<1>3. IsWellFoundedOn(R, Nat)
  BY <1>1, NatLessThanWellFounded
<1>4. PICK m \in T : \A y \in T : ~(<<y, m>> \in R)
  BY <1>3, WFMin
<1>5. \A y \in T : y \in Nat /\ m \in Nat /\ ~(y < m)
  BY <1>2, <1>4
<1> QED BY <1>5

\* A finite set of numbers has a greatest one.
LEMMA GreatestNatural ==
  ASSUME NEW S \in SUBSET Nat, IsFiniteSet(S), S # {}
  PROVE  \E m \in S : \A k \in S : m >= k
<1> DEFINE Endless(T) == /\ T \in SUBSET Nat /\ IsFiniteSet(T) /\ T # {}
                         /\ \A m \in T : \E k \in T : ~(m >= k)
           Sizes == {n \in Nat : \E T \in SUBSET Nat : Endless(T) /\ Cardinality(T) = n}
<1> SUFFICES ASSUME Endless(S) PROVE FALSE
  OBVIOUS
<1>1. Cardinality(S) \in Sizes
  BY FS_CardinalityType
<1>2. PICK n \in Sizes : \A k \in Sizes : n <= k
  BY <1>1, LeastNatural
<1>3. PICK T \in SUBSET Nat : Endless(T) /\ Cardinality(T) = n
  BY <1>2
<1>4. PICK x \in T : TRUE
  BY <1>3
<1> DEFINE U == T \ {x}
<1>5. IsFiniteSet(U) /\ Cardinality(U) = n - 1 /\ U \in SUBSET Nat /\ n \in Nat /\ Cardinality(U) \in Nat
  BY <1>2, <1>3, <1>4, FS_RemoveElement, FS_CardinalityType
<1>6. CASE U = {}
  BY <1>3, <1>4, <1>6
<1>7. CASE U # {}
  <2>1. ~Endless(U)
    <3>1. Cardinality(U) \notin Sizes
      <4>1. ~(n <= n - 1)
        BY <1>5
      <4> HIDE DEF U, Sizes
      <4> QED BY <1>2, <1>5, <4>1
    <3> QED BY <1>5, <3>1
  <2>2. PICK m \in U : \A k \in U : m >= k
    BY <1>5, <1>7, <2>1
  <2>3. \E z \in T : \A k \in T : z >= k
    <3>1. CASE x >= m
      <4>1. \A k \in T : x >= k
        BY <1>3, <1>4, <2>2, <3>1
      <4> QED BY <1>4, <4>1
    <3>2. CASE ~(x >= m)
      <4>1. \A k \in T : m >= k
        BY <1>3, <1>4, <2>2, <3>2
      <4> QED BY <2>2, <4>1
    <3> QED BY <3>1, <3>2
  <2> QED BY <1>3, <2>3
<1> QED BY <1>6, <1>7

\* The first n of a set of numbers: a proper page of them has n, and has all
\* those up to its last.
First(S, n) == {u \in S : Cardinality({w \in S : w < u}) < n}

LEMMA FirstOnes ==
  ASSUME NEW S \in SUBSET Nat, IsFiniteSet(S), NEW n \in Nat, n # 0
  PROVE  /\ IsFiniteSet(First(S, n)) /\ First(S, n) \subseteq S
         /\ \A u \in First(S, n), w \in S : w <= u => w \in First(S, n)
         /\ Cardinality(First(S, n)) # n => First(S, n) = S
         /\ Cardinality(First(S, n)) = n => \E m \in First(S, n) : \A k \in First(S, n) : m >= k
<1> DEFINE F == First(S, n)
           Below(u) == {w \in S : w < u}
<1>1. \A u : IsFiniteSet(Below(u)) /\ Cardinality(Below(u)) \in Nat
  <2> TAKE u
  <2>1. Below(u) \in SUBSET S
    OBVIOUS
  <2> QED BY <2>1, FS_Subset, FS_CardinalityType
<1>0. ASSUME NEW x \in S, NEW y \in S, NEW z \in S
      PROVE  /\ x < y \/ x = y \/ y < x
             /\ x <= y <=> x < y \/ x = y
             /\ x >= y <=> y < x \/ x = y
             /\ ~(x < x) /\ (x < y /\ y < z => x < z) /\ (x < y => ~(y < x))
  OBVIOUS
<1>2. F \in SUBSET S /\ IsFiniteSet(F)
  <2>1. F \in SUBSET S
    BY DEF First
  <2> QED BY <2>1, FS_Subset
<1>3. ASSUME NEW u \in F, NEW w \in S, w <= u PROVE w \in F
  <2>1. Below(w) \in SUBSET Below(u)
    <3>1. ASSUME NEW z \in S, z < w PROVE z < u
      BY <1>0, <1>2, <1>3, <3>1
    <3> QED BY <3>1
  <2>2. Cardinality(Below(w)) <= Cardinality(Below(u))
    BY <1>1, <2>1, FS_Subset
  <2>3. Cardinality(Below(u)) < n
    BY <1>3 DEF First
  <2> HIDE DEF Below
  <2>4. Cardinality(Below(w)) < n
    BY <1>1, <2>2, <2>3
  <2> QED BY <1>3, <2>4 DEF First, Below
<1>4. ASSUME F # S PROVE Cardinality(F) = n
  <2>1. S \ F \in SUBSET Nat /\ S \ F # {}
    BY <1>2, <1>4
  <2>2. PICK u \in S \ F : \A k \in S \ F : u <= k
    BY <2>1, LeastNatural
  <2>3. F = Below(u)
    <3>1. \A w \in Below(u) : w \in F
      <4>1. ASSUME NEW w \in S, w < u PROVE w \in F
        BY <1>0, <2>2, <4>1
      <4> QED BY <4>1
    <3>2. \A w \in F : w < u
      <4>1. ASSUME NEW w \in F PROVE w < u
        BY <1>0, <1>2, <1>3, <2>2
      <4> QED BY <4>1
    <3> QED BY <1>2, <3>1, <3>2
  <2>4. ~(Cardinality(Below(u)) < n)
    BY <2>2 DEF First
  <2>5. F # {}
    BY <2>3, <2>4, FS_EmptySet
  <2>6. PICK v \in F : \A k \in F : v >= k
    BY <1>2, <2>5, GreatestNatural
  <2>7. F = Below(v) \cup {v} /\ v \notin Below(v)
    <3>1. ASSUME NEW w \in F PROVE w \in Below(v) \/ w = v
      BY <1>0, <1>2, <2>6
    <3>2. ASSUME NEW w \in S, w < v PROVE w \in F
      BY <1>0, <1>2, <1>3, <2>6, <3>2
    <3>3. v \notin Below(v)
      BY <1>0, <1>2, <2>6
    <3> QED BY <2>6, <3>1, <3>2, <3>3
  <2>8. Cardinality(F) = Cardinality(Below(v)) + 1
    <3>1. IsFiniteSet(Below(v)) /\ F = Below(v) \cup {v} /\ v \notin Below(v)
      BY <1>1, <2>7
    <3> HIDE DEF Below, F
    <3> QED BY <3>1, FS_AddElement
  <2>9. Cardinality(Below(v)) < n
    BY <2>6 DEF First
  <2> HIDE DEF Below, F
  <2> QED BY <1>1, <2>3, <2>4, <2>8, <2>9
<1>5. ASSUME Cardinality(F) = n PROVE \E m \in F : \A k \in F : m >= k
  <2>1. F # {}
    BY <1>5, FS_EmptySet
  <2> QED BY <1>2, <2>1, GreatestNatural
<1> QED BY <1>2, <1>3, <1>4, <1>5

-----------------------------------------------------------------------------
(* The whole list of reactors.  Its first part is right, as far as the     *)
(* pages went, but for users an event on its way will set right; a request *)
(* of this list that is on its way will fill in what follows.              *)

ModalSlots == {Modal!Idle} \cup Modal!Requested

LEMMA ModalFacts ==
  /\ Reactors \subseteq Nat \ {0} /\ PageSize \in Nat \ {0}
  /\ \A S : Modal!Cardinality(S) = Cardinality(S)
  /\ \A S : \A m \in S : (\A k \in S : m >= k) => Modal!Max(S) \in S /\ \A k \in S : Modal!Max(S) >= k
<1>1. \A S : Modal!Cardinality(S) = Cardinality(S)
  BY DEF Modal!Cardinality, Cardinality
<1>2. ASSUME NEW S, NEW m \in S, \A k \in S : m >= k
      PROVE  Modal!Max(S) \in S /\ \A k \in S : Modal!Max(S) >= k
  BY <1>2 DEF Modal!Max
<1> QED BY <1>1, <1>2, StoreConstants

LEMMA FiniteReactors ==
  ASSUME NEW S \in SUBSET Reactors
  PROVE  IsFiniteSet(S) /\ S \in SUBSET Nat
  BY StoreConstants, FS_Subset

LEMMA ModalSlotFacts ==
  /\ Modal!Idle.step = "idle" /\ Modal!Idle \in ModalSlots
  /\ \A f \in ModalSlots :
       /\ f.step = "idle" <=> f = Modal!Idle
       /\ f.step # "idle" => f \in Modal!Requested
       /\ [f EXCEPT !.stale = (f.step # "idle")] \in ModalSlots
       /\ [f EXCEPT !.stale = (f.step # "idle")].step # "idle" => [f EXCEPT !.stale = (f.step # "idle")].stale
  /\ \A f \in Modal!Requested :
       /\ f \in ModalSlots /\ f.step \in {"asked", "answered"} /\ f.page \in SUBSET Reactors /\ f.stale \in BOOLEAN
       /\ f.for.message \in Messages /\ f.for.emoji \in Emojis /\ f.for.after \in Reactors \cup {0}
       /\ Modal!Aged(f) \in Modal!Requested
       /\ f.step = "answered" => Modal!Aged(f).stale
       /\ f.step = "asked" => Modal!Aged(f) = f
<1>1. Modal!Idle.step = "idle" /\ Modal!Idle \in ModalSlots
  BY DEF Modal!Idle, ModalSlots
<1>2. ASSUME NEW f \in Modal!Requested
      PROVE  /\ f \in ModalSlots /\ f.step \in {"asked", "answered"} /\ f.page \in SUBSET Reactors /\ f.stale \in BOOLEAN
             /\ f.for.message \in Messages /\ f.for.emoji \in Emojis /\ f.for.after \in Reactors \cup {0}
             /\ Modal!Aged(f) \in Modal!Requested
             /\ f.step = "answered" => Modal!Aged(f).stale
             /\ f.step = "asked" => Modal!Aged(f) = f
             /\ [f EXCEPT !.stale = TRUE] \in Modal!Requested /\ [f EXCEPT !.stale = TRUE].stale
  BY DEF Modal!Requested, ModalSlots, Modal!Aged
<1>3. [Modal!Idle EXCEPT !.stale = FALSE] = Modal!Idle
  <2>1. \A P : \A r \in [step : {"idle"}, page : P, stale : BOOLEAN] : ~r.stale => [r EXCEPT !.stale = FALSE] = r
    OBVIOUS
  <2>2. Modal!Idle \in [step : {"idle"}, page : {{}}, stale : BOOLEAN] /\ ~Modal!Idle.stale
    BY DEF Modal!Idle
  <2> QED BY <2>1, <2>2
<1>4. ASSUME NEW f \in ModalSlots
      PROVE  /\ f.step = "idle" <=> f = Modal!Idle
             /\ f.step # "idle" => f \in Modal!Requested
             /\ [f EXCEPT !.stale = (f.step # "idle")] \in ModalSlots
             /\ [f EXCEPT !.stale = (f.step # "idle")].step # "idle" => [f EXCEPT !.stale = (f.step # "idle")].stale
  <2>1. CASE f = Modal!Idle
    <3>1. (f.step # "idle") = FALSE
      BY <1>1, <2>1
    <3>2. [f EXCEPT !.stale = (f.step # "idle")] = Modal!Idle
      BY <1>3, <2>1, <3>1
    <3> QED BY <1>1, <2>1, <3>2
  <2>2. CASE f \in Modal!Requested
    <3>1. (f.step # "idle") = TRUE
      BY <1>2, <2>2
    <3>2. [f EXCEPT !.stale = (f.step # "idle")] \in Modal!Requested /\ [f EXCEPT !.stale = (f.step # "idle")].stale
      BY <1>2, <2>2, <3>1
    <3> QED BY <1>1, <2>2, <3>1, <3>2 DEF ModalSlots
  <2> QED BY <2>1, <2>2 DEF ModalSlots
<1> QED BY <1>1, <1>2, <1>4

\* A page of those who reacted.
LEMMA ModalPage ==
  ASSUME reacted \in [Messages -> [Emojis -> SUBSET Reactors]], NEW a,
         a.message \in Messages, a.emoji \in Emojis, a.after \in Reactors \cup {0}
  PROVE  LET P == Modal!Page(a)
         IN  /\ P \subseteq reacted[a.message][a.emoji] /\ P \in SUBSET Reactors
             /\ \A u \in reacted[a.message][a.emoji] :
                  u > a.after /\ (Cardinality(P) # PageSize \/ \E k \in P : u <= k) => u \in P
<1> DEFINE R == reacted[a.message][a.emoji]
           later == {u \in R : u > a.after}
<1>1. R \in SUBSET Reactors /\ later \in SUBSET Reactors
  OBVIOUS
<1>2. IsFiniteSet(later) /\ later \in SUBSET Nat
  BY <1>1, FiniteReactors
<1>3. Modal!Page(a) = First(later, PageSize)
  BY ModalFacts DEF Modal!Page, First
<1> HIDE DEF later
<1>4. /\ First(later, PageSize) \subseteq later
      /\ \A u \in First(later, PageSize), w \in later : w <= u => w \in First(later, PageSize)
      /\ Cardinality(First(later, PageSize)) # PageSize => First(later, PageSize) = later
  BY <1>2, ModalFacts, FirstOnes
<1>5. \A u \in R : u > a.after => u \in later
  BY DEF later
<1>6. later \subseteq R
  BY DEF later
<1> QED BY <1>1, <1>3, <1>4, <1>5, <1>6

\* A proper page has a last one.
LEMMA ModalPageEnds ==
  ASSUME NEW P \in SUBSET Reactors, Cardinality(P) = PageSize
  PROVE  Modal!Max(P) \in P /\ \A k \in P : Modal!Max(P) >= k
<1>1. IsFiniteSet(P) /\ P \in SUBSET Nat
  BY FiniteReactors
<1>2. P # {}
  BY ModalFacts, FS_EmptySet
<1>3. PICK m \in P : \A k \in P : m >= k
  BY <1>1, <1>2, GreatestNatural
<1> QED BY <1>3, ModalFacts

LEMMA ModalAsk ==
  ASSUME NEW s \in Requests, NEW q \in [Requests -> ModalSlots], NEW m \in Messages, NEW e \in Emojis,
         NEW after \in Reactors \cup {0}, Modal!Ask(s, q, m, e, after)
  PROVE  /\ flight' \in [Requests -> ModalSlots]
         /\ flight'[s].step = "asked" /\ flight'[s].for = [message |-> m, emoji |-> e, after |-> after]
         /\ \A t \in Requests : t # s => flight'[t] = q[t]
<1>1. [step |-> "asked", page |-> {}, stale |-> FALSE,
       for |-> [message |-> m, emoji |-> e, after |-> after]] \in ModalSlots
  BY DEF ModalSlots, Modal!Requested
<1> QED BY <1>1 DEF Modal!Ask

\* The requests of a list that ends are nobody's.
LEMMA ModalOrphans ==
  ASSUME flight \in [Requests -> ModalSlots]
  PROVE  /\ Modal!Orphans \in [Requests -> ModalSlots]
         /\ \A s \in Requests : Modal!Orphans[s].step # "idle" => Modal!Orphans[s].stale
  BY ModalSlotFacts DEF Modal!Orphans, Modal!Busy

\* What a request's slot is after a step.
LEMMA ModalFlights ==
  ASSUME Modal!TypeOK, Modal!Next
  PROVE  flight' \in [Requests -> ModalSlots]
<1>1. /\ flight \in [Requests -> ModalSlots] /\ message \in Messages /\ emoji \in Emojis
      /\ next \in Reactors \cup {0} /\ reacted \in [Messages -> [Emojis -> SUBSET Reactors]]
  BY DEF Modal!TypeOK, ModalSlots
<1>2. Modal!Orphans \in [Requests -> ModalSlots]
  BY <1>1, ModalOrphans
<1>3. ASSUME NEW s \in Requests, NEW m \in Messages, NEW e \in Emojis, Modal!Open(m, e, s)
      PROVE  flight' \in [Requests -> ModalSlots]
  BY <1>2, <1>3, ModalAsk DEF Modal!Open
<1>4. ASSUME NEW s \in Requests, NEW e \in Emojis, Modal!Select(e, s)
      PROVE  flight' \in [Requests -> ModalSlots]
  BY <1>1, <1>2, <1>4, ModalAsk DEF Modal!Select
<1>5. ASSUME NEW s \in Requests, Modal!LoadMore(s)
      PROVE  flight' \in [Requests -> ModalSlots]
  BY <1>1, <1>5, ModalAsk DEF Modal!LoadMore
<1>6. ASSUME NEW s \in Requests, Modal!Answer(s) \/ Modal!Fail(s)
      PROVE  flight' \in [Requests -> ModalSlots]
  BY <1>1, <1>6, ModalSlotFacts DEF Modal!Answer, Modal!Fail
<1>7. ASSUME NEW s \in Requests, Modal!Serve(s)
      PROVE  flight' \in [Requests -> ModalSlots]
  <2>1. flight[s] \in Modal!Requested
    BY <1>1, <1>7, ModalSlotFacts DEF Modal!Serve
  <2>2. Modal!Page(flight[s].for) \in SUBSET Reactors
    BY <1>1, <2>1, ModalSlotFacts, ModalPage
  <2>3. [flight[s] EXCEPT !.step = "answered", !.page = Modal!Page(flight[s].for)] \in ModalSlots
    BY <2>1, <2>2 DEF Modal!Requested, ModalSlots
  <2> QED BY <1>1, <1>7, <2>3 DEF Modal!Serve
<1>8. CASE Modal!Tell
  <2>1. ASSUME NEW s \in Requests, flight[s].step # "idle" PROVE Modal!Aged(flight[s]) \in ModalSlots
    BY <1>1, <2>1, ModalSlotFacts
  <2> QED BY <1>1, <1>8, <2>1 DEF Modal!Tell, Modal!Busy
<1>9. CASE Modal!Close
  BY <1>1, <1>9 DEF Modal!Close
<1>10. ASSUME NEW m \in Messages, NEW e \in Emojis, NEW u \in Reactors, Modal!React(m, e, u)
      PROVE  flight' \in [Requests -> ModalSlots]
  BY <1>1, <1>10 DEF Modal!React
<1>11. ASSUME NEW m \in Messages, NEW e \in Emojis, Modal!Clear(m, e)
      PROVE  flight' \in [Requests -> ModalSlots]
  BY <1>1, <1>11 DEF Modal!Clear
<1>12. ASSUME NEW u \in Reactors, Modal!Drop(u)
      PROVE  flight' \in [Requests -> ModalSlots]
  BY <1>1, <1>12 DEF Modal!Drop
<1> QED BY <1>3, <1>4, <1>5, <1>6, <1>7, <1>8, <1>9, <1>10, <1>11, <1>12 DEF Modal!Next

LEMMA ModalTypesKeep ==
  ASSUME Modal!TypeOK, Modal!Next
  PROVE  Modal!TypeOK'
<1> USE DEF Modal!fieldVars, Modal!serverVars, Modal!watchVars
<1>1. flight' \in [Requests -> {Modal!Idle} \cup Modal!Requested]
  BY ModalFlights DEF ModalSlots
<1>2. ASSUME NEW s \in Requests, NEW m \in Messages, NEW e \in Emojis, Modal!Open(m, e, s)
      PROVE  Modal!TypeOK'
  BY <1>1, <1>2 DEF Modal!Open, Modal!Renew, Modal!TypeOK
<1>3. ASSUME NEW s \in Requests, NEW e \in Emojis, Modal!Select(e, s)
      PROVE  Modal!TypeOK'
  BY <1>1, <1>3 DEF Modal!Select, Modal!Renew, Modal!TypeOK
<1>4. CASE Modal!Close
  BY <1>1, <1>4 DEF Modal!Close, Modal!Renew, Modal!TypeOK
<1>5. ASSUME NEW s \in Requests, Modal!LoadMore(s) \/ Modal!Serve(s) \/ Modal!Fail(s)
      PROVE  Modal!TypeOK'
  BY <1>1, <1>5 DEF Modal!LoadMore, Modal!Serve, Modal!Fail, Modal!TypeOK
<1>6. ASSUME NEW s \in Requests, Modal!Answer(s)
      PROVE  Modal!TypeOK'
  <2>1. flight[s] \in Modal!Requested
    BY <1>6, ModalSlotFacts DEF Modal!Answer, Modal!TypeOK, ModalSlots
  <2>2. CASE Modal!Current(s)
    <3>1. users' \subseteq Modal!Rows
      <4>1. \A u \in flight[s].page : Modal!Row(flight[s].for.message, flight[s].for.emoji, u) \in Modal!Rows
        BY <2>1, ModalSlotFacts DEF Modal!Row, Modal!Rows
      <4> QED BY <1>6, <2>2, <4>1 DEF Modal!Answer, Modal!Put, Modal!TypeOK
    <3>2. next' \in Reactors \cup {0}
      <4>1. Cardinality(flight[s].page) = PageSize => Modal!Max(flight[s].page) \in Reactors
        BY <2>1, ModalSlotFacts, ModalPageEnds
      <4> QED BY <1>6, <2>2, <4>1, ModalFacts DEF Modal!Answer
    <3>3. loading' \in BOOLEAN /\ mixed' \in BOOLEAN
      BY <1>6, <2>1, <2>2, ModalSlotFacts DEF Modal!Answer, Modal!TypeOK
    <3> QED BY <1>1, <1>6, <3>1, <3>2, <3>3 DEF Modal!Answer, Modal!TypeOK
  <2>3. CASE ~Modal!Current(s)
    BY <1>1, <1>6, <2>3 DEF Modal!Answer, Modal!TypeOK
  <2> QED BY <2>2, <2>3
<1>7. CASE Modal!Tell
  <2>1. Head(told) \in Modal!Told /\ told' \in Seq(Modal!Told)
    <3>1. told \in Seq(Modal!Told) /\ told # <<>> /\ told' = Tail(told)
      BY <1>7 DEF Modal!Tell, Modal!TypeOK
    <3> QED BY <3>1
  <2>2. Head(told).op # "clear" => Head(told).row \in Modal!Rows /\ Head(told).row.user \in Reactors
    BY <2>1 DEF Modal!Told, Modal!Rows
  <2>3. Modal!Names \subseteq Reactors
    BY DEF Modal!TypeOK, Modal!Rows, Modal!Names
  <2>4. users' \subseteq Modal!Rows /\ strangers' \subseteq Reactors
    BY <1>7, <2>2 DEF Modal!Tell, Modal!TypeOK, Modal!Add, Modal!Remove
  <2>5. ghosts' \subseteq Reactors /\ dropped' \subseteq Reactors
    BY <1>7, <2>3 DEF Modal!Tell, Modal!TypeOK, Modal!Settled
  <2> QED BY <1>1, <1>7, <2>1, <2>4, <2>5 DEF Modal!Tell, Modal!TypeOK
<1>8. ASSUME NEW m \in Messages, NEW e \in Emojis, NEW u \in Reactors, Modal!React(m, e, u)
      PROVE  Modal!TypeOK'
  <2>1. reactions' \in 0..MaxReactions
    <3>1. reactions \in 0..MaxReactions /\ reactions < MaxReactions /\ reactions' = reactions + 1
      BY <1>8 DEF Modal!React, Modal!TypeOK
    <3> QED BY <3>1, StoreConstants
  <2>2. told' \in Seq(Modal!Told)
    <3>1. told \in Seq(Modal!Told)
      BY DEF Modal!TypeOK
    <3>2. PICK op \in {"add", "remove"} : told' = Append(told, [op |-> op, row |-> Modal!Row(m, e, u)])
      BY <1>8 DEF Modal!React
    <3>3. [op |-> op, row |-> Modal!Row(m, e, u)] \in Modal!Told
      BY DEF Modal!Row, Modal!Rows, Modal!Told
    <3> QED BY <3>1, <3>2, <3>3
  <2>3. reacted' \in [Messages -> [Emojis -> SUBSET Reactors]]
    <3>1. reacted \in [Messages -> [Emojis -> SUBSET Reactors]]
      BY DEF Modal!TypeOK
    <3>2. \/ reacted' = [reacted EXCEPT ![m][e] = @ \cup {u}]
          \/ reacted' = [reacted EXCEPT ![m][e] = @ \ {u}]
      BY <1>8 DEF Modal!React
    <3> QED BY <3>1, <3>2
  <2> QED BY <1>1, <1>8, <2>1, <2>2, <2>3 DEF Modal!React, Modal!TypeOK
<1>9. ASSUME NEW m \in Messages, NEW e \in Emojis, Modal!Clear(m, e)
      PROVE  Modal!TypeOK'
  <2>1. reactions' \in 0..MaxReactions
    <3>1. reactions \in 0..MaxReactions /\ reactions < MaxReactions /\ reactions' = reactions + 1
      BY <1>9 DEF Modal!Clear, Modal!TypeOK
    <3> QED BY <3>1, StoreConstants
  <2>2. told' \in Seq(Modal!Told)
    <3>1. told \in Seq(Modal!Told) /\ told' = Append(told, [op |-> "clear", row |-> Modal!Row(m, e, 0)])
      BY <1>9 DEF Modal!TypeOK, Modal!Clear
    <3>2. [op |-> "clear", row |-> Modal!Row(m, e, 0)] \in Modal!Told
      BY DEF Modal!Row, Modal!Told
    <3> QED BY <3>1, <3>2
  <2>3. reacted' \in [Messages -> [Emojis -> SUBSET Reactors]]
    BY <1>9 DEF Modal!TypeOK, Modal!Clear
  <2> QED BY <1>1, <1>9, <2>1, <2>2, <2>3 DEF Modal!Clear, Modal!TypeOK
<1>10. ASSUME NEW u \in Reactors, Modal!Drop(u)
      PROVE  Modal!TypeOK'
  BY <1>1, <1>10 DEF Modal!Drop, Modal!Remove, Modal!TypeOK
<1> QED BY <1>2, <1>3, <1>4, <1>5, <1>6, <1>7, <1>8, <1>9, <1>10 DEF Modal!Next

LEMMA ModalTypesStart == Modal!Init => Modal!TypeOK
<1> SUFFICES ASSUME Modal!Init PROVE Modal!TypeOK
  OBVIOUS
<1>1. flight \in [Requests -> {Modal!Idle} \cup Modal!Requested]
  BY DEF Modal!Init
<1>2. told \in Seq(Modal!Told) /\ reactions \in 0..MaxReactions
  BY StoreConstants DEF Modal!Init
<1> QED BY <1>1, <1>2 DEF Modal!Init, Modal!TypeOK

Here == reacted[message][emoji]
Regards(e, r) == e.row = r \/ (e.op = "clear" /\ e.row.message = r.message /\ e.row.emoji = r.emoji)
Coming(u) == \E i \in DOMAIN told : Regards(told[i], Modal!Row(message, emoji, u))
Met(u) == u \in Modal!Names \/ u \in strangers \/ u \in dropped \/ Coming(u)
Fresh(s) == flight[s].step # "idle" /\ ~flight[s].stale

\* The last event that concerns a row tells what is so.
LastTold == \A i \in DOMAIN told : \A r \in Modal!Rows : Regards(told[i], r) =>
  \/ told[i].op = "add" <=> r.user \in reacted[r.message][r.emoji]
  \/ \E k \in DOMAIN told : k > i /\ Regards(told[k], r)

PageFits(P, after) ==
  /\ \A u \in P : u \in Here \/ Coming(u)
  /\ \A u \in Here : u > after /\ (Cardinality(P) # PageSize \/ \E k \in P : u <= k) => u \in P \/ Coming(u)

FlightFits(s) == Fresh(s) =>
  /\ loading /\ flight[s].for.message = message /\ flight[s].for.emoji = emoji
  /\ \A u \in Here : u <= flight[s].for.after => Met(u)
  /\ flight[s].step = "answered" => PageFits(flight[s].page, flight[s].for.after)

NamesFit ==
  /\ \A u \in Modal!Names : u \in Here \/ Coming(u) \/ u \in ghosts
  /\ ~loading => \A u \in Here : (next = 0 \/ u <= next) => Met(u)

OneFresh == \A s, t \in Requests : Fresh(s) /\ Fresh(t) => s = t

Watched == open /\ ~failed /\ ~mixed
ModalInv == LastTold /\ (Watched => NamesFit /\ OneFresh /\ \A s \in Requests : FlightFits(s))

\* A list that begins, with the request for its first page or with none.
LEMMA ModalBegins ==
  ASSUME Modal!TypeOK, ModalInv, users' = {}, loading', UNCHANGED <<reacted, told>>,
         NEW s \in Requests, flight' \in [Requests -> ModalSlots],
         \A t \in Requests : t # s => ~Fresh(t)',
         Fresh(s)' => flight'[s].step = "asked" /\ flight'[s].for = [message |-> message', emoji |-> emoji', after |-> 0],
         message' \in Messages, emoji' \in Emojis
  PROVE  ModalInv'
<1>1. LastTold'
  BY DEF ModalInv, LastTold
<1>2. Here' \in SUBSET Reactors
  BY DEF Here, Modal!TypeOK
<1>3. \A u \in Here' : ~(u <= 0)
  BY <1>2, ModalFacts
<1>4. NamesFit' /\ OneFresh'
  BY DEF NamesFit, OneFresh, Modal!Names
<1>5. \A t \in Requests : FlightFits(t)'
  BY <1>3 DEF FlightFits
<1> QED BY <1>1, <1>4, <1>5 DEF ModalInv

LEMMA ModalOpensKeep ==
  ASSUME Modal!TypeOK, ModalInv, NEW s \in Requests,
         (\E m \in Messages, e \in Emojis : Modal!Open(m, e, s)) \/ (\E e \in Emojis : Modal!Select(e, s))
  PROVE  ModalInv'
<1>1. flight \in [Requests -> ModalSlots] /\ message \in Messages /\ emoji \in Emojis
  BY DEF Modal!TypeOK, ModalSlots
<1>2. /\ Modal!Orphans \in [Requests -> ModalSlots]
      /\ \A t \in Requests : Modal!Orphans[t].step # "idle" => Modal!Orphans[t].stale
  BY <1>1, ModalOrphans
<1>3. ASSUME NEW m \in Messages, NEW e \in Emojis, Modal!Open(m, e, s) PROVE ModalInv'
  <2>1. /\ Modal!Ask(s, Modal!Orphans, m, e, 0) /\ message' = m /\ emoji' = e
        /\ users' = {} /\ loading' /\ UNCHANGED <<reacted, told>>
    BY <1>3 DEF Modal!Open, Modal!Renew, Modal!serverVars
  <2>2. /\ flight' \in [Requests -> ModalSlots] /\ flight'[s].step = "asked"
        /\ flight'[s].for = [message |-> m, emoji |-> e, after |-> 0]
        /\ \A t \in Requests : t # s => flight'[t] = Modal!Orphans[t]
    BY <1>2, <2>1, ModalAsk
  <2> QED BY <1>2, <2>1, <2>2, ModalBegins DEF Fresh
<1>4. ASSUME NEW e \in Emojis, Modal!Select(e, s) PROVE ModalInv'
  <2>1. /\ message' = message /\ emoji' = e /\ users' = {} /\ loading' /\ UNCHANGED <<reacted, told>>
        /\ IF loading THEN flight' = Modal!Orphans ELSE Modal!Ask(s, Modal!Orphans, message, e, 0)
    BY <1>4 DEF Modal!Select, Modal!Renew, Modal!serverVars
  <2>2. CASE loading
    BY <1>1, <1>2, <2>1, <2>2, ModalBegins DEF Fresh
  <2>3. CASE ~loading
    <3>1. /\ flight' \in [Requests -> ModalSlots] /\ flight'[s].step = "asked"
          /\ flight'[s].for = [message |-> message, emoji |-> e, after |-> 0]
          /\ \A t \in Requests : t # s => flight'[t] = Modal!Orphans[t]
      BY <1>1, <1>2, <2>1, <2>3, ModalAsk
    <3> QED BY <1>1, <1>2, <2>1, <3>1, ModalBegins DEF Fresh
  <2> QED BY <2>2, <2>3
<1> QED BY <1>3, <1>4

LEMMA ModalLoadMoreKeeps ==
  ASSUME Modal!TypeOK, ModalInv, NEW s \in Requests, Modal!LoadMore(s)
  PROVE  ModalInv'
<1>1. /\ flight \in [Requests -> ModalSlots] /\ message \in Messages /\ emoji \in Emojis
      /\ next \in Reactors \cup {0}
  BY DEF Modal!TypeOK, ModalSlots
<1>2. /\ open /\ ~loading /\ loading' /\ Modal!Ask(s, flight, message, emoji, next)
      /\ UNCHANGED <<open, message, emoji, users, next, reacted, told, failed, mixed, strangers, ghosts, dropped>>
  BY DEF Modal!LoadMore, Modal!serverVars, Modal!watchVars
<1>3. /\ flight'[s].step = "asked" /\ flight'[s].for = [message |-> message, emoji |-> emoji, after |-> next]
      /\ \A t \in Requests : t # s => flight'[t] = flight[t]
  BY <1>1, <1>2, ModalAsk
<1>4. LastTold' /\ (\A u : Coming(u)' <=> Coming(u)) /\ Here' = Here /\ Modal!Names' = Modal!Names /\ (Watched' <=> Watched)
  BY <1>2 DEF ModalInv, LastTold, Coming, Here, Modal!Names, Watched
<1>5. SUFFICES ASSUME Watched PROVE NamesFit' /\ OneFresh' /\ \A t \in Requests : FlightFits(t)'
  BY <1>4 DEF ModalInv
<1>6. \A t \in Requests : ~Fresh(t)
  BY <1>2, <1>5 DEF ModalInv, FlightFits
<1>7. \A t \in Requests : t # s => ~Fresh(t)'
  BY <1>3, <1>6 DEF Fresh
<1>8. NamesFit' /\ OneFresh'
  BY <1>2, <1>4, <1>5, <1>7 DEF ModalInv, NamesFit, OneFresh
<1>9. FlightFits(s)'
  <2>1. \A u \in Here : u <= next => Met(u)
    BY <1>2, <1>5 DEF ModalInv, NamesFit
  <2> QED BY <1>2, <1>3, <1>4, <2>1 DEF FlightFits, Met
<1> QED BY <1>7, <1>8, <1>9 DEF FlightFits

LEMMA ModalServeKeeps ==
  ASSUME Modal!TypeOK, ModalInv, NEW s \in Requests, Modal!Serve(s)
  PROVE  ModalInv'
<1>1. /\ flight \in [Requests -> ModalSlots] /\ reacted \in [Messages -> [Emojis -> SUBSET Reactors]]
      /\ flight[s] \in Modal!Requested
  BY ModalSlotFacts DEF Modal!TypeOK, ModalSlots, Modal!Serve
<1>2. /\ UNCHANGED <<open, message, emoji, users, loading, next, reacted, told, failed, mixed, strangers, ghosts, dropped>>
      /\ flight' = [flight EXCEPT ![s] = [@ EXCEPT !.step = "answered", !.page = Modal!Page(flight[s].for)]]
      /\ flight[s].step = "asked"
  BY DEF Modal!Serve, Modal!fieldVars, Modal!serverVars, Modal!watchVars
<1>3. /\ flight'[s].step = "answered" /\ flight'[s].page = Modal!Page(flight[s].for)
      /\ flight'[s].for = flight[s].for /\ flight'[s].stale = flight[s].stale
      /\ \A t \in Requests : t # s => flight'[t] = flight[t]
  BY <1>1, <1>2 DEF Modal!Requested
<1>4. LastTold' /\ (\A u : Coming(u)' <=> Coming(u)) /\ Here' = Here /\ Modal!Names' = Modal!Names /\ (Watched' <=> Watched)
  BY <1>2 DEF ModalInv, LastTold, Coming, Here, Modal!Names, Watched
<1>5. SUFFICES ASSUME Watched PROVE NamesFit' /\ OneFresh' /\ \A t \in Requests : FlightFits(t)'
  BY <1>4 DEF ModalInv
<1>6. \A t \in Requests : Fresh(t)' <=> Fresh(t)
  BY <1>2, <1>3 DEF Fresh
<1>7. \A u : Met(u)' <=> Met(u)
  BY <1>2, <1>4 DEF Met
<1>8. NamesFit' /\ OneFresh'
  BY <1>2, <1>4, <1>5, <1>6, <1>7 DEF ModalInv, NamesFit, OneFresh
<1>9. \A P, after : PageFits(P, after)' <=> PageFits(P, after)
  BY <1>4 DEF PageFits
<1>10. ASSUME NEW t \in Requests, t # s PROVE FlightFits(t)'
  BY <1>2, <1>3, <1>4, <1>5, <1>6, <1>7, <1>9, <1>10 DEF ModalInv, FlightFits
<1>11. ASSUME Fresh(s) PROVE FlightFits(s)'
  <2>1. /\ loading /\ flight[s].for.message = message /\ flight[s].for.emoji = emoji
        /\ \A u \in Here : u <= flight[s].for.after => Met(u)
    BY <1>5, <1>11 DEF ModalInv, FlightFits
  <2>2. PageFits(Modal!Page(flight[s].for), flight[s].for.after)
    BY <1>1, <2>1, ModalPage, ModalSlotFacts DEF PageFits, Here
  <2> QED BY <1>2, <1>3, <1>4, <1>7, <1>9, <2>1, <2>2 DEF FlightFits
<1> QED BY <1>6, <1>8, <1>10, <1>11 DEF FlightFits

LEMMA ModalAnswerKeeps ==
  ASSUME Modal!TypeOK, ModalInv, NEW s \in Requests, Modal!Answer(s)
  PROVE  ModalInv'
<1> DEFINE a == flight[s].for
           P == flight[s].page
<1>1. /\ flight \in [Requests -> ModalSlots] /\ flight[s] \in Modal!Requested /\ P \in SUBSET Reactors
      /\ flight[s].step = "answered" /\ a.after \in Reactors \cup {0} /\ Here \in SUBSET Reactors
  BY ModalSlotFacts DEF Modal!TypeOK, ModalSlots, Modal!Answer, Here
<1>2. /\ UNCHANGED <<open, message, emoji, reacted, told, failed, strangers, ghosts, dropped>>
      /\ flight' = [flight EXCEPT ![s] = Modal!Idle]
  BY DEF Modal!Answer, Modal!serverVars
<1>3. /\ \A t \in Requests : t # s => flight'[t] = flight[t]
      /\ ~Fresh(s)'
  BY <1>1, <1>2, ModalSlotFacts DEF Fresh
<1>4. LastTold' /\ (\A u : Coming(u)' <=> Coming(u)) /\ Here' = Here
  BY <1>2 DEF ModalInv, LastTold, Coming, Here
<1>5. SUFFICES ASSUME Watched' PROVE NamesFit' /\ OneFresh' /\ \A t \in Requests : FlightFits(t)'
  BY <1>4 DEF ModalInv
<1>6. CASE ~Modal!Current(s)
  <2>1. UNCHANGED <<users, next, loading, mixed>>
    BY <1>6 DEF Modal!Answer
  <2>2. Watched /\ Modal!Names' = Modal!Names
    BY <1>2, <1>5, <2>1 DEF Watched, Modal!Names
  <2>3. \A u : Met(u)' <=> Met(u)
    BY <1>2, <1>4, <2>2 DEF Met
  <2>4. \A Q, after : PageFits(Q, after)' <=> PageFits(Q, after)
    BY <1>4 DEF PageFits
  <2>5. NamesFit'
    BY <1>2, <1>4, <2>1, <2>2, <2>3 DEF ModalInv, NamesFit
  <2>6. OneFresh' /\ \A t \in Requests : FlightFits(t)'
    BY <1>2, <1>3, <1>4, <2>1, <2>2, <2>3, <2>4 DEF ModalInv, OneFresh, FlightFits, Fresh
  <2> QED BY <2>5, <2>6
<1>7. CASE Modal!Current(s)
  <2>1. /\ ~loading' /\ Modal!Put(a, P) /\ ~mixed /\ ~flight[s].stale
        /\ next' = IF Cardinality(P) = PageSize THEN Modal!Max(P) ELSE 0
    BY <1>1, <1>5, <1>7, ModalFacts, ModalSlotFacts DEF Modal!Answer, Watched, Modal!TypeOK
  <2>2. Watched /\ Fresh(s)
    BY <1>1, <1>2, <1>5, <2>1 DEF Watched, Fresh
  <2>3. \A t \in Requests : ~Fresh(t)'
    <3>1. \A t \in Requests : t # s => ~Fresh(t)
      BY <2>2 DEF ModalInv, OneFresh
    <3> QED BY <1>3, <3>1 DEF Fresh
  <2>4. /\ \A u \in Here : u <= a.after => Met(u)
        /\ PageFits(P, a.after)
    BY <1>1, <2>2 DEF ModalInv, FlightFits
  <2>5. Modal!Names' = IF a.after = 0 THEN P ELSE Modal!Names \cup P
    <3>1. \A u : Modal!Row(a.message, a.emoji, u).user = u
      BY DEF Modal!Row
    <3> QED BY <2>1, <3>1 DEF Modal!Put, Modal!Names
  <2>6. \A u \in Modal!Names' : u \in Here \/ Coming(u) \/ u \in ghosts
    BY <2>2, <2>4, <2>5 DEF ModalInv, NamesFit, PageFits
  <2>7. ASSUME NEW u \in Here, next' = 0 \/ u <= next' PROVE Met(u)'
    <3>1. u \in Nat /\ u # 0 /\ a.after \in Nat /\ P \in SUBSET Nat
      <4>1. \A r \in Reactors : r \in Nat /\ r # 0
        BY ModalFacts
      <4> QED BY <1>1, <4>1
    <3>2. CASE u <= a.after
      <4>1. a.after # 0
        BY <3>1, <3>2
      <4> QED BY <1>2, <1>4, <2>4, <2>5, <3>2, <4>1 DEF Met
    <3>3. CASE ~(u <= a.after)
      <4>1. Cardinality(P) # PageSize \/ \E k \in P : u <= k
        <5>1. ASSUME Cardinality(P) = PageSize PROVE \E k \in P : u <= k
          <6>1. Modal!Max(P) \in P /\ Modal!Max(P) # 0
            BY <1>1, <5>1, ModalPageEnds, ModalFacts
          <6> QED BY <2>1, <2>7, <5>1, <6>1
        <5> QED BY <5>1
      <4>2. u \in P \/ Coming(u)
        BY <2>4, <3>1, <3>3, <4>1 DEF PageFits
      <4> QED BY <1>4, <2>5, <4>2 DEF Met
    <3> QED BY <3>2, <3>3
  <2>8. NamesFit'
    BY <1>2, <1>4, <2>6, <2>7 DEF NamesFit
  <2> QED BY <2>3, <2>8 DEF OneFresh, FlightFits
<1> QED BY <1>6, <1>7

LEMMA ModalEndsKeep ==
  ASSUME Modal!TypeOK, ModalInv, Modal!Close \/ \E s \in Requests : Modal!Fail(s)
  PROVE  ModalInv'
<1>1. UNCHANGED <<reacted, told>> /\ ~Watched'
  <2>1. CASE Modal!Close
    BY <2>1 DEF Modal!Close, Modal!serverVars, Watched
  <2>2. ASSUME NEW s \in Requests, Modal!Fail(s) PROVE UNCHANGED <<reacted, told>> /\ ~Watched'
    BY <2>2 DEF Modal!Fail, Modal!serverVars, Watched
  <2> QED BY <2>1, <2>2
<1> QED BY <1>1 DEF ModalInv, LastTold

\* The server handles a reaction, or clears them, and tells of it.
LEMMA ModalGrows ==
  ASSUME Modal!TypeOK, ModalInv, NEW e \in Modal!Told, told' = Append(told, e),
         reacted' \in [Messages -> [Emojis -> SUBSET Reactors]],
         \A r \in Modal!Rows : Regards(e, r) => (e.op = "add" <=> r.user \in reacted'[r.message][r.emoji]),
         \A r \in Modal!Rows : ~Regards(e, r) =>
           (r.user \in reacted'[r.message][r.emoji] <=> r.user \in reacted[r.message][r.emoji]),
         UNCHANGED <<open, message, emoji, users, loading, next, flight, failed, mixed, strangers, ghosts, dropped>>
  PROVE  ModalInv'
<1> DEFINE n == Len(told)
<1>1. /\ reacted \in [Messages -> [Emojis -> SUBSET Reactors]] /\ told \in Seq(Modal!Told)
      /\ message \in Messages /\ emoji \in Emojis
  BY DEF Modal!TypeOK
<1>2. /\ n \in Nat /\ DOMAIN told = 1..n /\ DOMAIN told' = 1..(n + 1) /\ told'[n + 1] = e
      /\ \A i \in 1..n : told'[i] = told[i]
  BY <1>1
<1> HIDE DEF n
<1>3. LastTold'
  <2> SUFFICES ASSUME NEW i \in 1..(n + 1), NEW r \in Modal!Rows, Regards(told'[i], r)
               PROVE  \/ told'[i].op = "add" <=> r.user \in reacted'[r.message][r.emoji]
                      \/ \E k \in 1..(n + 1) : k > i /\ Regards(told'[k], r)
    BY <1>2 DEF LastTold
  <2>1. CASE i = n + 1
    BY <1>2, <2>1
  <2>2. CASE i \in 1..n /\ Regards(e, r)
    BY <1>2, <2>2
  <2>3. CASE i \in 1..n /\ ~Regards(e, r)
    <3>1. \/ told[i].op = "add" <=> r.user \in reacted[r.message][r.emoji]
          \/ \E k \in 1..n : k > i /\ Regards(told[k], r)
      BY <1>2, <2>3 DEF ModalInv, LastTold
    <3>2. ASSUME NEW k \in 1..n, k > i, Regards(told[k], r)
          PROVE  \E l \in 1..(n + 1) : l > i /\ Regards(told'[l], r)
      BY <1>2, <3>2
    <3> QED BY <1>2, <2>3, <3>1, <3>2
  <2> QED BY <1>2, <2>1, <2>2, <2>3
<1>4. \A w : Coming(w) => Coming(w)'
  <2> SUFFICES ASSUME NEW w, NEW i \in 1..n, Regards(told[i], Modal!Row(message, emoji, w))
               PROVE  \E k \in 1..(n + 1) : Regards(told'[k], Modal!Row(message, emoji, w))
    BY <1>2 DEF Coming
  <2>1. i \in 1..(n + 1)
    BY <1>2
  <2> QED BY <1>2, <2>1
<1>5. \A w : ~(w \in Here' <=> w \in Here) => Coming(w)'
  <2> SUFFICES ASSUME NEW w, ~(w \in Here' <=> w \in Here) PROVE Coming(w)'
    OBVIOUS
  <2> DEFINE r == Modal!Row(message, emoji, w)
  <2>1. w \in Reactors
    BY <1>1 DEF Here
  <2>2. r \in Modal!Rows /\ r.message = message /\ r.emoji = emoji /\ r.user = w
    BY <1>1, <2>1 DEF Modal!Row, Modal!Rows
  <2>3. n + 1 \in 1..(n + 1)
    BY <1>2
  <2> HIDE DEF r
  <2>4. Regards(e, r)
    BY <2>2 DEF Here
  <2>5. r = Modal!Row(message', emoji', w)
    BY DEF r
  <2> QED BY <1>2, <2>3, <2>4, <2>5 DEF Coming
<1>6. (Watched' <=> Watched) /\ Modal!Names' = Modal!Names
  BY DEF Watched, Modal!Names
<1>7. \A w : Met(w) => Met(w)'
  BY <1>4, <1>6 DEF Met
<1>8. \A w \in Here' : w \in Here \/ Coming(w)'
  BY <1>5
<1>9. \A w \in Here : w \in Here' \/ Coming(w)'
  BY <1>5
<1>10. \A P, after : PageFits(P, after) => PageFits(P, after)'
  BY <1>4, <1>8, <1>9 DEF PageFits
<1>11. NamesFit => NamesFit'
  BY <1>4, <1>6, <1>7, <1>8, <1>9 DEF NamesFit, Met
<1>12. OneFresh => OneFresh'
  BY DEF OneFresh, Fresh
<1>13. ASSUME NEW s \in Requests, FlightFits(s) PROVE FlightFits(s)'
  BY <1>7, <1>8, <1>10, <1>13 DEF FlightFits, Fresh, Met
<1> QED BY <1>3, <1>6, <1>11, <1>12, <1>13 DEF ModalInv

LEMMA ModalReactKeeps ==
  ASSUME Modal!TypeOK, ModalInv, NEW m \in Messages, NEW e \in Emojis, NEW u \in Reactors, Modal!React(m, e, u)
  PROVE  ModalInv'
<1>1. reacted \in [Messages -> [Emojis -> SUBSET Reactors]]
  BY DEF Modal!TypeOK
<1>2. PICK op \in {"add", "remove"} :
        /\ told' = Append(told, [op |-> op, row |-> Modal!Row(m, e, u)])
        /\ reacted' = [reacted EXCEPT ![m][e] = IF op = "add" THEN @ \cup {u} ELSE @ \ {u}]
  BY DEF Modal!React
<1> DEFINE v == [op |-> op, row |-> Modal!Row(m, e, u)]
<1>3. v \in Modal!Told /\ v.op = op /\ v.op # "clear" /\ v.row = Modal!Row(m, e, u)
  BY DEF Modal!Told, Modal!Rows, Modal!Row
<1> HIDE DEF v
<1>4. \A r \in Modal!Rows : Regards(v, r) <=> <<r.message, r.emoji, r.user>> = <<m, e, u>>
  BY <1>3 DEF Regards, Modal!Rows, Modal!Row
<1>5. \A r \in Modal!Rows : r.message \in Messages /\ r.emoji \in Emojis
  BY DEF Modal!Rows
<1>6. /\ \A r \in Modal!Rows : Regards(v, r) => (v.op = "add" <=> r.user \in reacted'[r.message][r.emoji])
      /\ \A r \in Modal!Rows : ~Regards(v, r) =>
           (r.user \in reacted'[r.message][r.emoji] <=> r.user \in reacted[r.message][r.emoji])
      /\ reacted' \in [Messages -> [Emojis -> SUBSET Reactors]]
  BY <1>1, <1>2, <1>3, <1>4, <1>5
<1>7. UNCHANGED <<open, message, emoji, users, loading, next, flight, failed, mixed, strangers, ghosts, dropped>>
  BY DEF Modal!React, Modal!fieldVars, Modal!watchVars
<1>8. told' = Append(told, v)
  BY <1>2 DEF v
<1> QED BY <1>3, <1>6, <1>7, <1>8, ModalGrows

LEMMA ModalClearKeeps ==
  ASSUME Modal!TypeOK, ModalInv, NEW m \in Messages, NEW e \in Emojis, Modal!Clear(m, e)
  PROVE  ModalInv'
<1> DEFINE v == [op |-> "clear", row |-> Modal!Row(m, e, 0)]
<1>1. reacted \in [Messages -> [Emojis -> SUBSET Reactors]]
  BY DEF Modal!TypeOK
<1>2. told' = Append(told, v) /\ reacted' = [reacted EXCEPT ![m][e] = {}]
  BY DEF Modal!Clear
<1>3. v \in Modal!Told /\ v.op = "clear" /\ v.row = Modal!Row(m, e, 0)
  BY DEF Modal!Told, Modal!Row
<1> HIDE DEF v
<1>4. \A r \in Modal!Rows : /\ Regards(v, r) <=> r.message = m /\ r.emoji = e
                            /\ r.message \in Messages /\ r.emoji \in Emojis
  BY <1>3 DEF Regards, Modal!Rows, Modal!Row
<1>5. /\ \A r \in Modal!Rows : Regards(v, r) => (v.op = "add" <=> r.user \in reacted'[r.message][r.emoji])
      /\ \A r \in Modal!Rows : ~Regards(v, r) =>
           (r.user \in reacted'[r.message][r.emoji] <=> r.user \in reacted[r.message][r.emoji])
      /\ reacted' \in [Messages -> [Emojis -> SUBSET Reactors]]
  BY <1>1, <1>2, <1>3, <1>4
<1>6. UNCHANGED <<open, message, emoji, users, loading, next, flight, failed, mixed, strangers, ghosts, dropped>>
  BY DEF Modal!Clear, Modal!fieldVars, Modal!watchVars
<1> QED BY <1>2, <1>3, <1>5, <1>6, ModalGrows

\* A row is taken away here.
LEMMA ModalDropKeeps ==
  ASSUME Modal!TypeOK, ModalInv, NEW u \in Reactors, Modal!Drop(u)
  PROVE  ModalInv'
<1>1. /\ UNCHANGED <<open, message, emoji, loading, next, flight, reacted, told, failed, mixed, strangers>>
      /\ users' = {r \in users : r.user # u} /\ ghosts' = ghosts \ {u} /\ dropped' = dropped \cup {u}
  BY DEF Modal!Drop, Modal!Remove, Modal!serverVars
<1>2. Modal!Names' = Modal!Names \ {u}
  BY <1>1 DEF Modal!Names
<1>3. LastTold' /\ (\A w : Coming(w)' <=> Coming(w)) /\ Here' = Here /\ (Watched' <=> Watched)
  BY <1>1 DEF ModalInv, LastTold, Coming, Here, Watched
<1>4. SUFFICES ASSUME Watched PROVE NamesFit' /\ OneFresh' /\ \A s \in Requests : FlightFits(s)'
  BY <1>3 DEF ModalInv
<1>5. \A w : Met(w) => Met(w)'
  BY <1>1, <1>2, <1>3 DEF Met
<1>6. \A P, after : PageFits(P, after)' <=> PageFits(P, after)
  BY <1>3 DEF PageFits
<1>7. NamesFit'
  BY <1>1, <1>2, <1>3, <1>4, <1>5 DEF ModalInv, NamesFit
<1>8. OneFresh' /\ \A s \in Requests : FlightFits(s)'
  BY <1>1, <1>3, <1>4, <1>5, <1>6 DEF ModalInv, OneFresh, FlightFits, Fresh
<1> QED BY <1>7, <1>8

\* The store handles an event.
LEMMA ModalTellKeeps ==
  ASSUME Modal!TypeOK, ModalInv, Modal!Tell
  PROVE  ModalInv'
<1> DEFINE e == told[1]
           r == told[1].row
           n == Len(told)
           About1(w) == Regards(told[1], Modal!Row(message, emoji, w))
<1>1. /\ reacted \in [Messages -> [Emojis -> SUBSET Reactors]] /\ told \in Seq(Modal!Told)
      /\ message \in Messages /\ emoji \in Emojis /\ flight \in [Requests -> ModalSlots]
      /\ Modal!Names \subseteq Reactors
  BY DEF Modal!TypeOK, ModalSlots, Modal!Names, Modal!Rows
<1>2. told # <<>> /\ told' = Tail(told) /\ Head(told) = e
  BY <1>1 DEF Modal!Tell
<1>3. UNCHANGED <<open, message, emoji, loading, next, reacted, failed, mixed>>
  BY DEF Modal!Tell
<1>4. /\ n \in Nat /\ n >= 1 /\ DOMAIN told = 1..n /\ DOMAIN told' = 1..(n - 1) /\ e \in Modal!Told
      /\ \A i \in 1..(n - 1) : told'[i] = told[i + 1]
  BY <1>1, <1>2
<1> HIDE DEF n, About1
<1>5. /\ Here' = Here /\ (Watched' <=> Watched) /\ e.op \in {"add", "remove", "clear"}
      /\ e.op # "clear" => r.user \in Reactors
      /\ \A w : About1(w) <=> (message = r.message /\ emoji = r.emoji /\ (e.op = "clear" \/ w = r.user))
  <2>1. Here' = Here /\ (Watched' <=> Watched)
    BY <1>3 DEF Here, Watched
  <2>2. e.op \in {"add", "remove", "clear"} /\ (e.op # "clear" => r.user \in Reactors)
    BY <1>4 DEF Modal!Told, Modal!Rows
  <2>3. \A w : Modal!Row(message, emoji, w) = r <=> (message = r.message /\ emoji = r.emoji /\ w = r.user)
    BY <1>4 DEF Modal!Told, Modal!Rows, Modal!Row
  <2>4. \A w : Modal!Row(message, emoji, w).message = message /\ Modal!Row(message, emoji, w).emoji = emoji
    BY DEF Modal!Row
  <2> QED BY <2>1, <2>2, <2>3, <2>4 DEF About1, Regards
<1>6. LastTold'
  <2> SUFFICES ASSUME NEW i \in 1..(n - 1), NEW x \in Modal!Rows, Regards(told'[i], x)
               PROVE  \/ told'[i].op = "add" <=> x.user \in reacted[x.message][x.emoji]
                      \/ \E k \in 1..(n - 1) : k > i /\ Regards(told'[k], x)
    BY <1>3, <1>4 DEF LastTold
  <2>1. i + 1 \in 1..n /\ told'[i] = told[i + 1]
    BY <1>4
  <2>2. \/ told[i + 1].op = "add" <=> x.user \in reacted[x.message][x.emoji]
        \/ \E k \in 1..n : k > i + 1 /\ Regards(told[k], x)
    BY <1>4, <2>1 DEF ModalInv, LastTold
  <2>3. ASSUME NEW k \in 1..n, k > i + 1, Regards(told[k], x)
        PROVE  \E l \in 1..(n - 1) : l > i /\ Regards(told'[l], x)
    <3>1. k - 1 \in 1..(n - 1) /\ k - 1 > i /\ (k - 1) + 1 = k
      BY <1>4, <2>3
    <3> QED BY <1>4, <2>3, <3>1
  <2> QED BY <2>1, <2>2, <2>3
\* What is still to come of those the event is not about, and of those it is.
<1>7. \A w : Coming(w) => Coming(w)' \/ About1(w)
  <2> SUFFICES ASSUME NEW w, NEW i \in 1..n, Regards(told[i], Modal!Row(message, emoji, w)), i # 1
               PROVE  \E k \in 1..(n - 1) : Regards(told'[k], Modal!Row(message, emoji, w))
    BY <1>3, <1>4 DEF Coming, About1
  <2>1. i - 1 \in 1..(n - 1) /\ (i - 1) + 1 = i
    BY <1>4
  <2> QED BY <1>4, <2>1
<1>8. ASSUME NEW w \in Reactors, About1(w)
      PROVE  Coming(w)' \/ (e.op = "add" <=> w \in Here)
  <2> DEFINE x == Modal!Row(message, emoji, w)
  <2>1. 1 \in 1..n /\ x \in Modal!Rows /\ x.user = w /\ x.message = message /\ x.emoji = emoji
    BY <1>1, <1>4 DEF Modal!Row, Modal!Rows
  <2>2. Regards(told[1], x)
    BY <1>8 DEF About1
  <2> HIDE DEF x
  <2>3. \/ e.op = "add" <=> w \in Here
        \/ \E k \in 1..n : k > 1 /\ Regards(told[k], x)
    BY <1>4, <2>1, <2>2 DEF ModalInv, LastTold, Here
  <2>4. ASSUME NEW k \in 1..n, k > 1, Regards(told[k], x)
        PROVE  Coming(w)'
    <3>1. k - 1 \in 1..(n - 1) /\ (k - 1) + 1 = k
      BY <1>4, <2>4
    <3> QED BY <1>3, <1>4, <2>4, <3>1 DEF Coming, x
  <2> QED BY <2>3, <2>4
\* What becomes of the names.
<1>9. SUFFICES ASSUME Watched
               PROVE  NamesFit' /\ OneFresh' /\ \A s \in Requests : FlightFits(s)'
  BY <1>5, <1>6 DEF ModalInv
<1>10. open /\ NamesFit /\ OneFresh /\ \A s \in Requests : FlightFits(s)
  BY <1>9 DEF ModalInv, Watched
<1>11. /\ \A w \in Modal!Names' : w \in Modal!Names \/ (About1(w) /\ e.op = "add")
       /\ \A w : About1(w) /\ e.op = "remove" => w \notin Modal!Names'
       /\ \A w : About1(w) /\ e.op = "add" => w \in Modal!Names' \/ w \in strangers'
       /\ \A w \in Modal!Names' : About1(w) /\ e.op = "clear" => w \in ghosts'
       /\ \A w \in Modal!Names : w \in Modal!Names' \/ (About1(w) /\ e.op = "remove")
       /\ strangers \subseteq strangers'
       /\ \A w \in dropped : w \in dropped' \/ (About1(w) /\ e.op # "clear")
       /\ \A w \in ghosts : w \in ghosts' \/ (About1(w) /\ e.op # "clear")
  <2>1. CASE ~(message = r.message /\ emoji = r.emoji)
    <3>1. UNCHANGED <<users, strangers, ghosts, dropped>>
      BY <1>2, <2>1 DEF Modal!Tell
    <3> QED BY <1>5, <2>1, <3>1 DEF Modal!Names
  <2>2. CASE message = r.message /\ emoji = r.emoji
    <3>1. \/ e.op = "add" /\ Modal!Add(r) /\ Modal!Settled(r.user)
          \/ e.op = "remove" /\ Modal!Remove(r.user) /\ Modal!Settled(r.user) /\ UNCHANGED strangers
          \/ e.op = "clear" /\ ghosts' = ghosts \cup Modal!Names /\ UNCHANGED <<users, strangers, dropped>>
      BY <1>2, <1>10, <2>2 DEF Modal!Tell
    <3>2. \A w : About1(w) <=> e.op = "clear" \/ w = r.user
      BY <1>5, <2>2
    <3>3. CASE e.op = "add"
      <4>1. \/ r.user \in Modal!Names /\ UNCHANGED <<users, strangers>>
            \/ users' = users \cup {r} /\ UNCHANGED strangers
            \/ strangers' = strangers \cup {r.user} /\ UNCHANGED users
        BY <3>1, <3>3 DEF Modal!Add
      <4>2. ghosts' = ghosts \ {r.user} /\ dropped' = dropped \ {r.user}
        BY <3>1, <3>3 DEF Modal!Settled
      <4> QED BY <3>2, <3>3, <4>1, <4>2 DEF Modal!Names
    <3>4. CASE e.op = "remove"
      BY <3>1, <3>2, <3>4 DEF Modal!Names, Modal!Remove, Modal!Settled
    <3>5. CASE e.op = "clear"
      BY <3>1, <3>2, <3>5 DEF Modal!Names
    <3> QED BY <3>1, <3>3, <3>4, <3>5
  <2> QED BY <2>1, <2>2
<1>12. \A w \in Here : Met(w) => Met(w)'
  <2>1. Here \subseteq Reactors
    BY <1>1 DEF Here
  <2> QED BY <1>5, <1>7, <1>8, <1>11, <2>1 DEF Met
<1>13. NamesFit'
  <2>1. \A w \in Modal!Names' : w \in Reactors
    BY <1>1, <1>5, <1>11
  <2>2. \A w \in Modal!Names' : w \in Here \/ Coming(w)' \/ w \in ghosts'
    BY <1>5, <1>7, <1>8, <1>10, <1>11, <2>1 DEF NamesFit
  <2> QED BY <1>3, <1>5, <1>10, <1>12, <2>2 DEF NamesFit
<1>14. ASSUME NEW s \in Requests, Fresh(s)'
       PROVE  flight'[s] = flight[s] /\ (flight[s].step = "answered" => ~(message = r.message /\ emoji = r.emoji))
  <2>1. flight'[s] = IF flight[s].step # "idle" /\ flight[s].for.message = r.message /\ flight[s].for.emoji = r.emoji
                     THEN Modal!Aged(flight[s]) ELSE flight[s]
    BY <1>1, <1>2 DEF Modal!Tell, Modal!Busy
  <2>2. CASE flight[s].step = "idle"
    BY <1>14, <2>1, <2>2 DEF Fresh
  <2>3. CASE flight[s].step # "idle"
    <3>1. flight[s] \in Modal!Requested
      BY <1>1, <2>3, ModalSlotFacts
    <3>2. flight'[s] = flight[s]
      BY <1>14, <2>1, <2>3, <3>1, ModalSlotFacts DEF Fresh
    <3>3. flight[s].step = "answered" => ~(flight[s].for.message = r.message /\ flight[s].for.emoji = r.emoji)
      BY <1>14, <2>1, <2>3, <3>1, ModalSlotFacts DEF Fresh
    <3>4. Fresh(s) => flight[s].for.message = message /\ flight[s].for.emoji = emoji
      BY <1>10 DEF FlightFits
    <3> QED BY <1>14, <3>2, <3>3, <3>4 DEF Fresh
  <2> QED BY <2>2, <2>3
<1>15. \A s \in Requests : Fresh(s)' => Fresh(s)
  BY <1>14 DEF Fresh
<1>16. ASSUME NEW s \in Requests, Fresh(s)' PROVE FlightFits(s)'
  <2>1. FlightFits(s) /\ Fresh(s) /\ flight'[s] = flight[s]
    BY <1>10, <1>14, <1>15, <1>16
  <2>2. \A P, after : ~(message = r.message /\ emoji = r.emoji) /\ PageFits(P, after) => PageFits(P, after)'
    BY <1>5, <1>7 DEF PageFits
  <2> QED BY <1>3, <1>5, <1>12, <1>14, <1>16, <2>1, <2>2 DEF FlightFits
<1> QED BY <1>10, <1>13, <1>15, <1>16 DEF OneFresh, FlightFits

LEMMA ModalKeeps ==
  ASSUME Modal!TypeOK, ModalInv, Modal!Next
  PROVE  ModalInv'
  BY ModalOpensKeep, ModalLoadMoreKeeps, ModalServeKeeps, ModalAnswerKeeps, ModalEndsKeep, ModalReactKeeps,
     ModalClearKeeps, ModalDropKeeps, ModalTellKeeps DEF Modal!Next

LEMMA ModalFollows ==
  ASSUME Modal!TypeOK, ModalInv
  PROVE  Modal!ReactorsAgreeUnlessRaced
<1> SUFFICES ASSUME open, ~loading, next = 0, told = <<>>, ~failed, ~mixed
             PROVE  /\ Modal!Names \ ghosts \subseteq reacted[message][emoji]
                    /\ reacted[message][emoji] \ (strangers \cup dropped) \subseteq Modal!Names
  BY DEF Modal!ReactorsAgreeUnlessRaced
<1>1. NamesFit /\ \A u : ~Coming(u)
  BY DEF ModalInv, Watched, Coming
<1> QED BY <1>1 DEF NamesFit, Here, Met

\* The list of reactors and what is on its way about it, in every state.
LEMMA ModalInvariant == Spec => [](Modal!TypeOK /\ ModalInv)
<1>1. Init => Modal!TypeOK /\ ModalInv
  <2> SUFFICES ASSUME Modal!Init PROVE Modal!TypeOK /\ ModalInv
    BY DEF Init
  <2>1. ModalInv
    BY DEF Modal!Init, ModalInv, LastTold, Watched
  <2> QED BY <2>1, ModalTypesStart
<1>2. Modal!TypeOK /\ ModalInv /\ [Next]_vars => (Modal!TypeOK /\ ModalInv)'
  <2> SUFFICES ASSUME Modal!TypeOK, ModalInv, [Next]_vars
               PROVE  Modal!TypeOK' /\ ModalInv'
    OBVIOUS
  <2>1. CASE UNCHANGED modalVars
    <3>1. UNCHANGED <<open, message, emoji, users, loading, next, flight, reacted, reactions, told, failed, mixed, strangers,
                      ghosts, dropped>>
      BY <2>1 DEF modalVars
    <3>2. Modal!TypeOK'
      BY <3>1 DEF Modal!TypeOK
    <3>3. ModalInv'
      BY <3>1 DEF ModalInv, LastTold, Watched, NamesFit, OneFresh, FlightFits, PageFits, Fresh, Here, Coming, Met,
                  Modal!Names
    <3> QED BY <3>2, <3>3
  <2>2. CASE Modal!Next
    BY <2>2, ModalTypesKeep, ModalKeeps
  <2> QED BY <2>1, <2>2 DEF Next, FetchedNext, fetchedVars, vars
<1> QED BY <1>1, <1>2, PTL DEF Spec

\* Once the last page and all answers and events are in, the list of reactors names
\* exactly those who reacted, over any number of pages, tabs and events, unless a
\* request failed or a page was applied that an earlier list asked for or that was
\* older than an event; but for users nothing was known of, those in it when their
\* reactions were cleared and those whose row was taken away here (stores.ts,
\* fetchReactionUsers and reactionsModalApplyAdd and -Remove, and the row's button
\* in MessageReactionsModal.tsx).
THEOREM ReactorsAgree == Spec => []ReactorsAgreeUnlessRaced
<1>1. Modal!TypeOK /\ ModalInv => ReactorsAgreeUnlessRaced
  BY ModalFollows DEF ReactorsAgreeUnlessRaced
<1> QED BY <1>1, ModalInvariant, PTL

-----------------------------------------------------------------------------
(* Lists in order, and what is kept of one.                                *)

Ascends(s, S) == /\ s \in [1..Cardinality(S) -> S]
                 /\ \A i, j \in DOMAIN s : i < j => s[i] < s[j]

LEMMA SomeAscends ==
  ASSUME NEW S \in SUBSET Nat, IsFiniteSet(S)
  PROVE  \E s : Ascends(s, S)
<1> DEFINE Lacks(U) == U \in SUBSET Nat /\ IsFiniteSet(U) /\ ~\E s : Ascends(s, U)
           Sizes == {n \in Nat : \E U \in SUBSET Nat : Lacks(U) /\ Cardinality(U) = n}
<1> SUFFICES ASSUME Lacks(S) PROVE FALSE
  OBVIOUS
<1>1. Cardinality(S) \in Sizes
  BY FS_CardinalityType
<1>2. PICK n \in Sizes : \A k \in Sizes : n <= k
  BY <1>1, LeastNatural
<1>3. PICK U \in SUBSET Nat : Lacks(U) /\ Cardinality(U) = n
  BY <1>2
<1>4. U # {}
  <2> SUFFICES ASSUME U = {} PROVE FALSE
    OBVIOUS
  <2>1. Cardinality(U) = 0
    BY FS_EmptySet
  <2>2. Ascends([k \in 1..0 |-> k], U)
    BY <2>1 DEF Ascends
  <2> QED BY <1>3, <2>2
<1>5. PICK m \in U : \A k \in U : m >= k
  BY <1>3, <1>4, GreatestNatural
<1> DEFINE V == U \ {m}
<1>6. IsFiniteSet(V) /\ Cardinality(V) = n - 1 /\ V \in SUBSET Nat /\ n \in Nat /\ Cardinality(V) \in Nat
  BY <1>2, <1>3, <1>5, FS_RemoveElement, FS_CardinalityType
<1>7. \E s : Ascends(s, V)
  <2> SUFFICES ASSUME Lacks(V) PROVE FALSE
    BY <1>6
  <2>1. Cardinality(V) \in Sizes
    BY <1>6
  <2>2. ~(n <= n - 1)
    BY <1>6
  <2> HIDE DEF V, Sizes, Lacks
  <2> QED BY <1>2, <1>6, <2>1, <2>2
<1>8. PICK s : Ascends(s, V)
  BY <1>7
<1>9. s \in [1..(n - 1) -> V] /\ \A i, j \in 1..(n - 1) : i < j => s[i] < s[j]
  BY <1>6, <1>8 DEF Ascends
<1> DEFINE t == [k \in 1..n |-> IF k = n THEN m ELSE s[k]]
<1>10. t \in [1..n -> U]
  <2>1. ASSUME NEW k \in 1..n, k # n PROVE s[k] \in U
    <3>1. k \in 1..(n - 1)
      BY <1>6, <2>1
    <3> QED BY <1>9, <3>1
  <2> QED BY <1>5, <2>1
<1>11. ASSUME NEW i \in 1..n, NEW j \in 1..n, i < j PROVE t[i] < t[j]
  <2>1. i \in 1..(n - 1) /\ t[i] = s[i] /\ s[i] \in V
    BY <1>6, <1>9, <1>11
  <2>2. CASE j = n
    <3>1. t[j] = m /\ s[i] # m /\ m >= s[i] /\ m \in Nat /\ s[i] \in Nat
      BY <1>5, <1>6, <2>1, <2>2
    <3> QED BY <2>1, <3>1
  <2>3. CASE j # n
    <3>1. j \in 1..(n - 1) /\ t[j] = s[j]
      BY <1>6, <2>3
    <3> QED BY <1>9, <1>11, <2>1, <3>1
  <2> QED BY <2>2, <2>3
<1>12. Ascends(t, U)
  <2> HIDE DEF t
  <2> QED BY <1>3, <1>10, <1>11 DEF Ascends
<1> QED BY <1>3, <1>12

\* All of S stands in Ascending(S), once.
LEMMA AscendingIs ==
  ASSUME NEW S \in SUBSET Nat, IsFiniteSet(S)
  PROVE  /\ Ascending(S) \in [1..Cardinality(S) -> S] /\ Cardinality(S) \in Nat
         /\ \A i, j \in 1..Cardinality(S) : i < j => Ascending(S)[i] < Ascending(S)[j]
         /\ \A i, j \in 1..Cardinality(S) : Ascending(S)[i] = Ascending(S)[j] => i = j
         /\ \A x \in S : \E i \in 1..Cardinality(S) : Ascending(S)[i] = x
<1> DEFINE n == Cardinality(S)
           s == Ascending(S)
<1>1. Ascends(s, S)
  BY SomeAscends DEF Ascending, Ascends
<1>2. s \in [1..n -> S] /\ n \in Nat /\ \A i, j \in 1..n : i < j => s[i] < s[j]
  BY <1>1, FS_CardinalityType DEF Ascends
<1> HIDE DEF s, n
<1>3. ASSUME NEW i \in 1..n, NEW j \in 1..n, s[i] = s[j] PROVE i = j
  <2>1. s[i] \in S /\ S \in SUBSET Nat
    BY <1>2
  <2>2. \A x \in Nat : ~(x < x)
    OBVIOUS
  <2>3. ~(s[i] < s[i])
    BY <2>1, <2>2
  <2>4. ~(s[i] < s[j]) /\ ~(s[j] < s[i])
    BY <1>3, <2>3
  <2>5. ~(i < j) /\ ~(j < i) /\ i \in Nat /\ j \in Nat
    BY <1>2, <2>4
  <2> QED BY <2>5
<1>4. IsFiniteSet(1..n) /\ Cardinality(1..n) = n
  BY <1>2, FS_Interval
<1>5. s \in Injection(1..n, S)
  BY <1>2, <1>3 DEF Injection, IsInjective
<1>6. s \in Surjection(1..n, S)
  BY <1>4, <1>5, FS_Injection DEF n
<1> QED BY <1>2, <1>3, <1>6 DEF Surjection, s, n

\* at tells the places in s of the members of r: those in S, all of them, in their order.
Places(at, s, S, r) ==
  /\ at \in [DOMAIN r -> DOMAIN s]
  /\ \A k \in DOMAIN r : r[k] = s[at[k]] /\ s[at[k]] \in S
  /\ \A i, j \in DOMAIN r : i < j => at[i] < at[j]
  /\ \A i, j \in DOMAIN r : at[i] = at[j] => i = j
  /\ \A i \in DOMAIN s : s[i] \in S => \E k \in DOMAIN r : at[k] = i

\* What is kept of a list.
LEMMA KeptIs ==
  ASSUME NEW T, NEW s \in Seq(T), NEW S
  PROVE  /\ Kept(s, S) \in Seq(T \cap S)
         /\ \E at : Places(at, s, S, Kept(s, S))
<1> DEFINE P == {i \in DOMAIN s : s[i] \in S}
           at == Ascending(P)
           n == Cardinality(P)
<1>1. Len(s) \in Nat /\ DOMAIN s = 1..Len(s) /\ \A i \in 1..Len(s) : s[i] \in T
  OBVIOUS
<1>2. P \in SUBSET Nat /\ P \in SUBSET DOMAIN s /\ IsFiniteSet(P)
  <2>1. IsFiniteSet(1..Len(s))
    BY <1>1, FS_Interval
  <2>2. P \in SUBSET (1..Len(s))
    BY <1>1
  <2> QED BY <1>1, <2>1, <2>2, FS_Subset
<1>3. /\ at \in [1..n -> P] /\ n \in Nat
      /\ \A i, j \in 1..n : i < j => at[i] < at[j]
      /\ \A i, j \in 1..n : at[i] = at[j] => i = j
      /\ \A x \in P : \E i \in 1..n : at[i] = x
  <2> HIDE DEF P
  <2> QED BY <1>2, AscendingIs
<1>4. Kept(s, S) = [k \in 1..n |-> s[at[k]]]
  BY <1>3 DEF Kept
<1> HIDE DEF at, n
<1>5. \A k \in 1..n : at[k] \in DOMAIN s /\ s[at[k]] \in S /\ s[at[k]] \in T
  BY <1>1, <1>3
<1>6. Kept(s, S) \in Seq(T \cap S)
  BY <1>3, <1>4, <1>5
<1>7. DOMAIN Kept(s, S) = 1..n
  BY <1>4
<1>8. at \in [1..n -> DOMAIN s]
  BY <1>3, <1>5
<1> HIDE DEF P
<1>9. \A i \in DOMAIN s : s[i] \in S => \E k \in 1..n : at[k] = i
  BY <1>3 DEF P
<1>10. \A k \in 1..n : Kept(s, S)[k] = s[at[k]] /\ s[at[k]] \in S
  BY <1>4, <1>5
<1>11. Places(at, s, S, Kept(s, S))
  BY <1>3, <1>7, <1>8, <1>9, <1>10 DEF Places
<1> QED BY <1>6, <1>11

\* No member of a list stands there twice.
Once(s) == \A i, j \in DOMAIN s : s[i] = s[j] => i = j

LEMMA KeptTells ==
  ASSUME NEW T, NEW s \in Seq(T), NEW S
  PROVE  /\ Kept(s, S) \in Seq(T)
         /\ Range(Kept(s, S)) = Range(s) \cap S
         /\ Once(s) => Once(Kept(s, S))
<1> DEFINE r == Kept(s, S)
<1>1. PICK at : Places(at, s, S, r)
  BY KeptIs
<1>2. r \in Seq(T)
  <2>1. r \in Seq(T \cap S)
    BY KeptIs
  <2> HIDE DEF r
  <2> QED BY <2>1
<1> HIDE DEF r
<1>3. Range(r) = Range(s) \cap S
  BY <1>1 DEF Range, Places
<1>4. Once(s) => Once(r)
  BY <1>1 DEF Once, Places
<1> QED BY <1>2, <1>3, <1>4 DEF r

-----------------------------------------------------------------------------
(* Bookmarks.  An answer that is not stale holds every bookmark no event on *)
(* its way is about, and no other message; so does the list, but for       *)
(* unsaves the server was not told of or refused, and messages deleted in  *)
(* bulk.  A message some event is about needs no more: the last such event *)
(* says what the server has, and the list will do as it says.              *)

Marking == [op : {"saved", "unsaved", "gone", "bulk"}, ms : SUBSET Marks]
MarkPages == SUBSET [m : Marks, seen : BOOLEAN]
MarkSlots == [step : {"idle", "asked", "answered"}, page : MarkPages, stale : BOOLEAN]

MarkTypes ==
  /\ saved \in Seq(Marks) /\ missing \subseteq Marks /\ fetched \in BOOLEAN
  /\ fetch \in [Requests -> MarkSlots] /\ requests \subseteq Marks
  /\ marked \subseteq Marks /\ alive \subseteq Marks /\ hidden \subseteq Marks
  /\ feed \in {"up", "down", "new"} /\ events \in Seq(Marking) /\ changes \in 0..MaxChanges
  /\ undone \subseteq Marks /\ bulk \subseteq Marks /\ raced \in BOOLEAN

LEMMA MarkTypesAre == MarkTypes <=> Bookmarks!TypeOK
  BY DEF MarkTypes, Bookmarks!TypeOK, Bookmarks!Slot, MarkSlots, MarkPages, Marking

\* No event of q from the i-th on is about m.
NoneFrom(q, i, m) == \A k \in DOMAIN q : k >= i => m \notin q[k].ms

\* The last of the events q about m says whether it is in s.
LastSays(q, s, m) == \A i \in DOMAIN q :
  m \in q[i].ms /\ NoneFrom(q, i + 1, m) => (q[i].op = "saved" <=> m \in s)

Marked(page) == {e.m : e \in page}

\* The list has m, or not, as the server does.
MarkFits(m) == /\ m \in marked \ (undone \cup requests) => m \in Range(saved) \cup missing
               /\ m \in Range(saved) \cup missing => m \in marked \cup bulk

BookInv ==
  /\ \A i \in DOMAIN events : events[i].op = "saved" => \E m \in Marks : events[i].ms = {m}
  /\ feed # "down" => \A m \in Marks : LastSays(events, marked, m)
  /\ \A f \in Requests : \A d, e \in fetch[f].page : d.m = e.m => d = e
  /\ \A f \in Requests : fetch[f].step = "answered" /\ ~fetch[f].stale =>
       \A m \in Marks : NoneFrom(events, 1, m) => (m \in marked <=> m \in Marked(fetch[f].page))
  /\ Once(saved) /\ Range(saved) \cap missing = {}
  /\ feed = "up" /\ fetched /\ ~raced => \A m \in Marks : NoneFrom(events, 1, m) => MarkFits(m)

-----------------------------------------------------------------------------
LEMMA MarkLists ==
  /\ \A s : Bookmarks!Range(s) = Range(s)
  /\ \A s, S : Bookmarks!Kept(s, S) = Kept(s, S)
  /\ \A S : Bookmarks!Descending(S) = Descending(S)
<1>1. \A S : Bookmarks!Cardinality(S) = Cardinality(S)
  BY DEF Cardinality, Bookmarks!Cardinality
<1>2. ASSUME NEW S PROVE Bookmarks!Ascending(S) = Ascending(S)
  BY <1>1 DEF Ascending, Bookmarks!Ascending
<1>3. \A s, S : Bookmarks!Kept(s, S) = Kept(s, S)
  BY <1>2 DEF Kept, Bookmarks!Kept
<1>4. \A S : Bookmarks!Descending(S) = Descending(S)
  BY <1>1, <1>2 DEF Descending, Bookmarks!Descending
<1> QED BY <1>3, <1>4 DEF Range, Bookmarks!Range

LEMMA MarkSlotFacts ==
  /\ Bookmarks!Idle \in MarkSlots /\ Bookmarks!Idle.step = "idle" /\ Bookmarks!Idle.page = {}
  /\ Bookmarks!Asked \in MarkSlots /\ Bookmarks!Asked.step = "asked" /\ Bookmarks!Asked.page = {}
  /\ \A P : Bookmarks!Answered(P).step = "answered" /\ Bookmarks!Answered(P).page = P
  /\ \A P \in MarkPages : Bookmarks!Answered(P) \in MarkSlots
  /\ \A f \in MarkSlots : /\ Bookmarks!Aged(f) \in MarkSlots
                          /\ Bookmarks!Aged(f).step = f.step /\ Bookmarks!Aged(f).page = f.page
                          /\ f.step = "answered" => Bookmarks!Aged(f).stale
  BY DEF MarkSlots, MarkPages, Bookmarks!Idle, Bookmarks!Asked, Bookmarks!Answered, Bookmarks!Aged

\* Every answer is stale now.
LEMMA MarkAged ==
  ASSUME MarkTypes, fetch' = Bookmarks!AllAged(fetch)
  PROVE  /\ fetch' \in [Requests -> MarkSlots]
         /\ \A f \in Requests : /\ fetch'[f].page = fetch[f].page
                                /\ fetch'[f].step = "answered" => fetch'[f].stale
<1>1. fetch' = [f \in Requests |-> Bookmarks!Aged(fetch[f])] /\ \A f \in Requests : fetch[f] \in MarkSlots
  BY DEF MarkTypes, Bookmarks!AllAged
<1> QED BY <1>1, MarkSlotFacts

LEMMA NoneShifts ==
  ASSUME NEW S, NEW q \in Seq(S), NEW m
  PROVE  /\ NoneFrom(q, 1, m) <=> \A k \in DOMAIN q : m \notin q[k].ms
         /\ NoneFrom(<<>>, 1, m)
         /\ \A s : LastSays(<<>>, s, m)
         /\ \A e \in S : /\ NoneFrom(Append(q, e), 1, m) <=> NoneFrom(q, 1, m) /\ m \notin e.ms
                         /\ \A s, t : LastSays(q, s, m)
                              /\ (IF m \in e.ms THEN e.op = "saved" <=> m \in t ELSE m \in s <=> m \in t)
                              => LastSays(Append(q, e), t, m)
         /\ q # <<>> => /\ NoneFrom(q, 1, m) <=> NoneFrom(Tail(q), 1, m) /\ m \notin q[1].ms
                        /\ \A s : LastSays(q, s, m) =>
                             /\ LastSays(Tail(q), s, m)
                             /\ m \in q[1].ms /\ NoneFrom(Tail(q), 1, m) => (q[1].op = "saved" <=> m \in s)
<1> DEFINE n == Len(q)
<1>1. n \in Nat /\ DOMAIN q = 1..n
  OBVIOUS
<1>2. NoneFrom(q, 1, m) <=> \A k \in DOMAIN q : m \notin q[k].ms
  BY <1>1 DEF NoneFrom
<1>3. NoneFrom(<<>>, 1, m) /\ \A s : LastSays(<<>>, s, m)
  BY DEF NoneFrom, LastSays
<1>4. ASSUME NEW e \in S
      PROVE  /\ NoneFrom(Append(q, e), 1, m) <=> NoneFrom(q, 1, m) /\ m \notin e.ms
             /\ \A s, t : LastSays(q, s, m)
                  /\ (IF m \in e.ms THEN e.op = "saved" <=> m \in t ELSE m \in s <=> m \in t)
                  => LastSays(Append(q, e), t, m)
  <2> DEFINE p == Append(q, e)
  <2>1. DOMAIN p = 1..(n + 1) /\ p[n + 1] = e /\ \A k \in 1..n : p[k] = q[k]
    OBVIOUS
  <2> HIDE DEF p, n
  <2>2. n + 1 \in 1..(n + 1) /\ \A k \in 1..(n + 1) : k = n + 1 \/ k \in 1..n
    BY <1>1
  <2>3. NoneFrom(p, 1, m) <=> NoneFrom(q, 1, m) /\ m \notin e.ms
    BY <1>1, <2>1, <2>2 DEF NoneFrom
  <2>4. ASSUME NEW s, NEW t, LastSays(q, s, m),
               IF m \in e.ms THEN e.op = "saved" <=> m \in t ELSE m \in s <=> m \in t,
               NEW i \in 1..(n + 1), m \in p[i].ms, NoneFrom(p, i + 1, m)
        PROVE  p[i].op = "saved" <=> m \in t
    <3>1. CASE i = n + 1
      BY <2>1, <2>4, <3>1
    <3>2. CASE i \in 1..n
      <4>1. n + 1 >= i + 1
        BY <1>1, <3>2
      <4>2. m \notin e.ms
        BY <2>1, <2>2, <2>4, <4>1 DEF NoneFrom
      <4>3. NoneFrom(q, i + 1, m)
        <5>1. ASSUME NEW k \in 1..n, k >= i + 1 PROVE m \notin q[k].ms
          <6>1. k \in 1..(n + 1) /\ p[k] = q[k]
            BY <1>1, <2>1
          <6> QED BY <2>1, <2>4, <5>1, <6>1 DEF NoneFrom
        <5> QED BY <1>1, <5>1 DEF NoneFrom
      <4>4. q[i].op = "saved" <=> m \in s
        BY <1>1, <2>1, <2>4, <3>2, <4>3 DEF LastSays
      <4> QED BY <2>1, <2>4, <3>2, <4>2, <4>4
    <3> QED BY <2>2, <3>1, <3>2
  <2>5. ASSUME NEW s, NEW t, LastSays(q, s, m),
               IF m \in e.ms THEN e.op = "saved" <=> m \in t ELSE m \in s <=> m \in t
        PROVE  LastSays(p, t, m)
    BY <2>1, <2>4, <2>5 DEF LastSays
  <2> QED BY <2>3, <2>5 DEF p
<1>5. ASSUME q # <<>>
      PROVE  /\ NoneFrom(q, 1, m) <=> NoneFrom(Tail(q), 1, m) /\ m \notin q[1].ms
             /\ \A s : LastSays(q, s, m) =>
                  /\ LastSays(Tail(q), s, m)
                  /\ m \in q[1].ms /\ NoneFrom(Tail(q), 1, m) => (q[1].op = "saved" <=> m \in s)
  <2> DEFINE p == Tail(q)
  <2>1. n >= 1 /\ DOMAIN p = 1..(n - 1) /\ \A k \in 1..(n - 1) : p[k] = q[k + 1]
    BY <1>5
  <2> HIDE DEF p, n
  <2>2. \A k \in 1..n : k = 1 \/ (k - 1 \in 1..(n - 1) /\ p[k - 1] = q[k])
    <3>1. ASSUME NEW k \in 1..n, k # 1 PROVE k - 1 \in 1..(n - 1) /\ p[k - 1] = q[k]
      <4>1. k - 1 \in 1..(n - 1) /\ (k - 1) + 1 = k
        BY <1>1, <3>1
      <4> QED BY <2>1, <4>1
    <3> QED BY <3>1
  <2>3. \A k \in 1..(n - 1) : k + 1 \in 1..n /\ p[k] = q[k + 1]
    BY <1>1, <2>1
  <2>4. 1 \in 1..n
    BY <1>1, <2>1
  <2>5. NoneFrom(q, 1, m) <=> NoneFrom(p, 1, m) /\ m \notin q[1].ms
    <3>1. NoneFrom(q, 1, m) <=> \A k \in 1..n : m \notin q[k].ms
      BY <1>1, <1>2
    <3>2. NoneFrom(p, 1, m) <=> \A k \in 1..(n - 1) : m \notin p[k].ms
      BY <2>1 DEF NoneFrom
    <3> QED BY <2>2, <2>3, <2>4, <3>1, <3>2
  <2>6. ASSUME NEW i \in 0..(n - 1), NoneFrom(p, i + 1, m) PROVE NoneFrom(q, i + 2, m)
    <3> SUFFICES ASSUME NEW k \in 1..n, k >= i + 2 PROVE m \notin q[k].ms
      BY <1>1 DEF NoneFrom
    <3>1. k - 1 \in 1..(n - 1) /\ p[k - 1] = q[k] /\ k - 1 >= i + 1
      BY <1>1, <2>2
    <3> QED BY <2>1, <2>6, <3>1 DEF NoneFrom
  <2>7. ASSUME NEW s, LastSays(q, s, m) PROVE LastSays(p, s, m)
    <3> SUFFICES ASSUME NEW i \in 1..(n - 1), m \in p[i].ms, NoneFrom(p, i + 1, m)
                 PROVE  p[i].op = "saved" <=> m \in s
      BY <2>1 DEF LastSays
    <3>1. i + 1 \in 1..n /\ p[i] = q[i + 1] /\ i \in 0..(n - 1) /\ (i + 1) + 1 = i + 2
      BY <1>1, <2>3
    <3>2. NoneFrom(q, (i + 1) + 1, m)
      BY <2>6, <3>1
    <3> QED BY <1>1, <2>7, <3>1, <3>2 DEF LastSays
  <2>8. ASSUME NEW s, LastSays(q, s, m), m \in q[1].ms, NoneFrom(p, 1, m)
        PROVE  q[1].op = "saved" <=> m \in s
    <3>1. 0 \in 0..(n - 1) /\ 0 + 1 = 1 /\ 0 + 2 = 1 + 1
      BY <1>1, <2>1
    <3>2. NoneFrom(q, 1 + 1, m)
      BY <2>6, <2>8, <3>1
    <3> QED BY <1>1, <2>4, <2>8, <3>2 DEF LastSays
  <2> QED BY <2>5, <2>7, <2>8 DEF p
<1> QED BY <1>2, <1>3, <1>4, <1>5

LEMMA MarkChange ==
  ASSUME changes \in 0..MaxChanges, changes' = changes \/ Bookmarks!Change
  PROVE  changes' \in 0..MaxChanges
<1>1. MaxChanges \in Nat
  BY StoreConstants
<1> QED BY <1>1 DEF Bookmarks!Change

-----------------------------------------------------------------------------
\* The bookmarks change at the server, which sends an event if it can.
LEMMA MarkNewsKeeps ==
  ASSUME MarkTypes, BookInv, NEW e \in Marking, Bookmarks!Emit(e),
         e.op = "saved" => \E m \in Marks : e.ms = {m},
         \A m \in Marks : IF m \in e.ms THEN e.op = "saved" <=> m \in marked'
                          ELSE (m \in marked <=> m \in marked') /\ (m \in requests <=> m \in requests'),
         UNCHANGED <<saved, missing, fetched, hidden, feed, undone, bulk, raced>>,
         requests' \subseteq Marks, marked' \subseteq Marks, alive' \subseteq Marks, changes' \in 0..MaxChanges
  PROVE  MarkTypes' /\ BookInv'
<1>1. events \in Seq(Marking)
  BY DEF MarkTypes
<1>2. CASE feed = "down"
  <2>1. events' = events /\ fetch' = Bookmarks!AllAged(fetch)
    BY <1>2 DEF Bookmarks!Emit
  <2>2. MarkTypes'
    BY <2>1, MarkAged DEF MarkTypes
  <2>3. BookInv'
    BY <1>2, <2>1, MarkAged DEF BookInv
  <2> QED BY <2>2, <2>3
<1>3. CASE feed # "down"
  <2>1. events' = Append(events, e) /\ fetch' = fetch
    BY <1>3 DEF Bookmarks!Emit
  <2>2. MarkTypes'
    <3>1. events' \in Seq(Marking)
      BY <1>1, <2>1
    <3> QED BY <2>1, <3>1 DEF MarkTypes
  <2>3. ASSUME NEW i \in DOMAIN events', events'[i].op = "saved"
        PROVE  \E m \in Marks : events'[i].ms = {m}
    <3>1. CASE i \in DOMAIN events
      <4>1. events'[i] = events[i]
        BY <1>1, <2>1, <3>1
      <4> QED BY <2>3, <3>1, <4>1 DEF BookInv
    <3>2. CASE i \notin DOMAIN events
      <4>1. events'[i] = e
        BY <1>1, <2>1, <2>3, <3>2
      <4> QED BY <2>3, <4>1
    <3> QED BY <3>1, <3>2
  <2>4. \A m \in Marks : LastSays(events', marked', m)
    <3> TAKE m \in Marks
    <3>1. LastSays(events, marked, m)
      BY <1>3 DEF BookInv
    <3>2. IF m \in e.ms THEN e.op = "saved" <=> m \in marked' ELSE m \in marked <=> m \in marked'
      OBVIOUS
    <3> QED BY <1>1, <2>1, <3>1, <3>2, NoneShifts
  <2>5. \A m \in Marks : NoneFrom(events', 1, m) =>
          /\ NoneFrom(events, 1, m) /\ (m \in marked <=> m \in marked') /\ (m \in requests <=> m \in requests')
    <3> TAKE m \in Marks
    <3>1. NoneFrom(events', 1, m) <=> NoneFrom(events, 1, m) /\ m \notin e.ms
      BY <1>1, <2>1, NoneShifts
    <3> QED BY <3>1
  <2>6. \A f \in Requests : fetch'[f].step = "answered" /\ ~fetch'[f].stale =>
          \A m \in Marks : NoneFrom(events', 1, m) => (m \in marked' <=> m \in Marked(fetch'[f].page))
    BY <2>1, <2>5 DEF BookInv
  <2>7. feed' = "up" /\ fetched' /\ ~raced' => \A m \in Marks : NoneFrom(events', 1, m) => MarkFits(m)'
    BY <2>5 DEF BookInv, MarkFits
  <2>8. /\ \A f \in Requests : \A d, c \in fetch'[f].page : d.m = c.m => d = c
        /\ Once(saved') /\ Range(saved') \cap missing' = {}
    BY <2>1 DEF BookInv
  <2> QED BY <2>2, <2>3, <2>4, <2>6, <2>7, <2>8 DEF BookInv
<1> QED BY <1>2, <1>3

LEMMA MarkServerKeeps ==
  ASSUME MarkTypes, BookInv,
         \/ \E m \in Marks : Bookmarks!Save(m) \/ Bookmarks!UnsaveElsewhere(m)
         \/ \E m \in requests : Bookmarks!ObeyUnsave(m)
         \/ \E m \in alive : Bookmarks!Delete({m}, "gone")
         \/ Bookmarks!Delete(Marks, "gone") \/ Bookmarks!Delete(alive, "bulk")
  PROVE  MarkTypes' /\ BookInv'
<1>1. \A op, ms : Bookmarks!Event(op, ms) = [op |-> op, ms |-> ms]
  BY DEF Bookmarks!Event
<1>2. changes' = changes \/ Bookmarks!Change
  BY DEF Bookmarks!Save, Bookmarks!UnsaveElsewhere, Bookmarks!ObeyUnsave, Bookmarks!Delete
<1>3. changes' \in 0..MaxChanges
  BY <1>2, MarkChange DEF MarkTypes
<1>4. ASSUME NEW m \in Marks, Bookmarks!Save(m) PROVE MarkTypes' /\ BookInv'
  <2> DEFINE e == [op |-> "saved", ms |-> {m}]
  <2>1. /\ Bookmarks!Emit(e) /\ marked' = marked \cup {m}
        /\ UNCHANGED <<saved, missing, fetched, hidden, feed, undone, bulk, raced, requests, alive>>
    BY <1>1, <1>4 DEF Bookmarks!Save, Bookmarks!Mark, Bookmarks!obsVars
  <2>2. e \in Marking /\ e.op = "saved" /\ e.ms = {m}
    BY DEF Marking
  <2> HIDE DEF e
  <2> QED BY <1>3, <2>1, <2>2, MarkNewsKeeps DEF MarkTypes
<1>5. ASSUME NEW m \in Marks, Bookmarks!UnsaveElsewhere(m) \/ (m \in requests /\ Bookmarks!ObeyUnsave(m))
      PROVE  MarkTypes' /\ BookInv'
  <2> DEFINE e == [op |-> "unsaved", ms |-> {m}]
  <2>1. /\ Bookmarks!Emit(e) /\ marked' = marked \ {m} /\ requests' \in {requests, requests \ {m}}
        /\ UNCHANGED <<saved, missing, fetched, hidden, feed, undone, bulk, raced, alive>>
    BY <1>1, <1>5 DEF Bookmarks!UnsaveElsewhere, Bookmarks!ObeyUnsave, Bookmarks!Unmark, Bookmarks!obsVars
  <2>2. e \in Marking /\ e.op # "saved" /\ e.ms = {m}
    BY DEF Marking
  <2> HIDE DEF e
  <2> QED BY <1>3, <2>1, <2>2, MarkNewsKeeps DEF MarkTypes
<1>6. ASSUME NEW ms \in SUBSET Marks, NEW op \in {"gone", "bulk"}, Bookmarks!Delete(ms, op)
      PROVE  MarkTypes' /\ BookInv'
  <2> DEFINE e == [op |-> op, ms |-> ms]
  <2>1. /\ Bookmarks!Emit(e) /\ marked' = marked \ ms /\ alive' = alive \ ms
        /\ UNCHANGED <<saved, missing, fetched, hidden, feed, undone, bulk, raced, requests>>
    BY <1>1, <1>6 DEF Bookmarks!Delete, Bookmarks!obsVars
  <2>2. e \in Marking /\ e.op # "saved" /\ e.ms = ms
    BY DEF Marking
  <2> HIDE DEF e
  <2> QED BY <1>3, <2>1, <2>2, MarkNewsKeeps DEF MarkTypes
<1>7. alive \in SUBSET Marks /\ Marks \in SUBSET Marks /\ \A m \in alive : {m} \in SUBSET Marks
  BY DEF MarkTypes
<1>8. requests \subseteq Marks
  BY DEF MarkTypes
<1> QED BY <1>4, <1>5, <1>6, <1>7, <1>8

-----------------------------------------------------------------------------
\* Asking, the answer at the server, and what fails.
LEMMA MarkAsksKeep ==
  ASSUME MarkTypes, BookInv,
         \/ \E f \in Requests : Bookmarks!Open(f) \/ Bookmarks!Serve(f) \/ Bookmarks!Fail(f)
         \/ \E m \in requests : Bookmarks!FailUnsave(m)
         \/ \E m \in Marks : Bookmarks!Access(m)
  PROVE  MarkTypes' /\ BookInv'
<1> USE DEF Bookmarks!serverVars, Bookmarks!obsVars, Bookmarks!storeVars
<1>1. ASSUME NEW f \in Requests, NEW s \in MarkSlots, fetch' = [fetch EXCEPT ![f] = s],
             \A d, e \in s.page : d.m = e.m => d = e,
             s.step = "answered" => \A m \in Marks : m \in marked <=> m \in Marked(s.page),
             UNCHANGED <<requests, marked, alive, hidden, feed, events, changes, undone, bulk, raced>>,
             \/ UNCHANGED <<saved, missing, fetched>>
             \/ saved' = <<>> /\ missing' = {} /\ ~fetched' /\ fetched' \in BOOLEAN
      PROVE  MarkTypes' /\ BookInv'
  <2>1. MarkTypes'
    <3>1. fetch' \in [Requests -> MarkSlots]
      BY <1>1 DEF MarkTypes
    <3>2. saved' \in Seq(Marks) /\ missing' \in SUBSET Marks /\ fetched' \in BOOLEAN
      <4>1. <<>> \in Seq(Marks)
        OBVIOUS
      <4> QED BY <1>1, <4>1 DEF MarkTypes
    <3> QED BY <1>1, <3>1, <3>2 DEF MarkTypes
  <2>2. \A g \in Requests : fetch'[g] = IF g = f THEN s ELSE fetch[g]
    BY <1>1 DEF MarkTypes
  <2>3. Once(saved') /\ Range(saved') \cap missing' = {}
    BY <1>1 DEF BookInv, Once
  <2>4. \A g \in Requests : \A d, e \in fetch'[g].page : d.m = e.m => d = e
    BY <1>1, <2>2 DEF BookInv
  <2>5. \A g \in Requests : fetch'[g].step = "answered" /\ ~fetch'[g].stale =>
          \A m \in Marks : NoneFrom(events, 1, m) => (m \in marked <=> m \in Marked(fetch'[g].page))
    BY <1>1, <2>2 DEF BookInv
  <2>6. feed' = "up" /\ fetched' /\ ~raced' => \A m \in Marks : NoneFrom(events', 1, m) => MarkFits(m)'
    BY <1>1 DEF BookInv, MarkFits
  <2> QED BY <1>1, <2>1, <2>3, <2>4, <2>5, <2>6 DEF BookInv
<1>2. ASSUME NEW f \in Requests, Bookmarks!Open(f) \/ Bookmarks!Fail(f) PROVE MarkTypes' /\ BookInv'
  <2>1. CASE Bookmarks!Open(f)
    BY <1>1, <2>1, MarkSlotFacts DEF Bookmarks!Open
  <2>2. CASE Bookmarks!Fail(f)
    BY <1>1, <2>2, MarkSlotFacts DEF Bookmarks!Fail
  <2> QED BY <1>2, <2>1, <2>2
<1>3. ASSUME NEW f \in Requests, Bookmarks!Serve(f) PROVE MarkTypes' /\ BookInv'
  <2> DEFINE P == {[m |-> m, seen |-> m \notin hidden] : m \in marked}
  <2>1. \A d \in P : d.m \in marked /\ d = [m |-> d.m, seen |-> d.m \notin hidden]
    OBVIOUS
  <2>2. \A m \in marked : [m |-> m, seen |-> m \notin hidden] \in P
    OBVIOUS
  <2>3. marked \in SUBSET Marks
    BY DEF MarkTypes
  <2>4. P \in MarkPages
    <3>1. \A m \in Marks : [m |-> m, seen |-> m \notin hidden] \in [m : Marks, seen : BOOLEAN]
      OBVIOUS
    <3> QED BY <2>3, <3>1 DEF MarkPages
  <2>5. fetch' = [fetch EXCEPT ![f] = Bookmarks!Answered(P)]
        /\ UNCHANGED <<saved, missing, fetched, requests, marked, alive, hidden, feed, events, changes, undone, bulk, raced>>
    BY <1>3 DEF Bookmarks!Serve
  <2> HIDE DEF P
  <2>6. \A d, e \in P : d.m = e.m => d = e
    BY <2>1
  <2>7. \A m \in Marks : m \in marked <=> m \in Marked(P)
    <3>1. ASSUME NEW m \in marked PROVE m \in Marked(P)
      <4>1. [m |-> m, seen |-> m \notin hidden].m = m
        OBVIOUS
      <4> QED BY <2>2, <4>1 DEF Marked
    <3>2. ASSUME NEW m \in Marked(P) PROVE m \in marked
      BY <2>1 DEF Marked
    <3> QED BY <3>1, <3>2
  <2> DEFINE s == Bookmarks!Answered(P)
  <2>8. s \in MarkSlots /\ s.page = P
    BY <2>4, MarkSlotFacts
  <2> HIDE DEF s
  <2> QED BY <1>1, <2>5, <2>6, <2>7, <2>8 DEF s
<1>4. ASSUME NEW m \in requests, Bookmarks!FailUnsave(m) PROVE MarkTypes' /\ BookInv'
  <2>1. /\ requests' = requests \ {m} /\ undone' = undone \cup {m}
        /\ UNCHANGED <<saved, missing, fetched, fetch, marked, alive, hidden, feed, events, changes, bulk, raced>>
    BY <1>4 DEF Bookmarks!FailUnsave
  <2>2. MarkTypes'
    BY <2>1 DEF MarkTypes
  <2>3. \A k \in Marks : MarkFits(k) => MarkFits(k)'
    BY <2>1 DEF MarkFits
  <2> QED BY <2>1, <2>2, <2>3 DEF BookInv
<1>5. ASSUME NEW m \in Marks, Bookmarks!Access(m) PROVE MarkTypes' /\ BookInv'
  <2>1. hidden' = hidden \ {m} \/ hidden' = hidden \cup {m}
    BY <1>5 DEF Bookmarks!Access
  <2>2. changes' \in 0..MaxChanges
    <3>1. Bookmarks!Change
      BY <1>5 DEF Bookmarks!Access
    <3> QED BY <3>1, MarkChange DEF MarkTypes
  <2>3. UNCHANGED <<saved, missing, fetched, fetch, requests, marked, alive, feed, events, undone, bulk, raced>>
    BY <1>5 DEF Bookmarks!Access
  <2>4. MarkTypes'
    BY <2>1, <2>2, <2>3 DEF MarkTypes
  <2>5. \A k \in Marks : MarkFits(k) => MarkFits(k)'
    BY <2>3 DEF MarkFits
  <2> QED BY <2>3, <2>4, <2>5 DEF BookInv
<1> QED BY <1>2, <1>3, <1>4, <1>5

-----------------------------------------------------------------------------
\* The numbers of S, the highest first.
LEMMA DescendingTells ==
  ASSUME NEW S \in SUBSET Nat, IsFiniteSet(S)
  PROVE  LET s == Descending(S) IN s \in Seq(S) /\ Range(s) = S /\ Once(s)
<1> DEFINE n == Cardinality(S)
           a == Ascending(S)
           s == Descending(S)
<1>1. /\ a \in [1..n -> S] /\ n \in Nat
      /\ \A i, j \in 1..n : a[i] = a[j] => i = j
      /\ \A x \in S : \E i \in 1..n : a[i] = x
  BY AscendingIs
<1> HIDE DEF a, n
<1>2. DOMAIN a = 1..n
  BY <1>1
<1>3. s = [i \in 1..n |-> a[(n + 1) - i]]
  <2>1. s = [i \in DOMAIN a |-> a[(n + 1) - i]]
    BY Zenon DEF Descending, a, n
  <2> HIDE DEF s
  <2> QED BY <1>2, <2>1
<1>4. \A i \in 1..n : (n + 1) - i \in 1..n /\ (n + 1) - ((n + 1) - i) = i
  BY <1>1
<1> HIDE DEF s
<1>5. s \in [1..n -> S]
  BY <1>1, <1>3, <1>4
<1>6. s \in Seq(S)
  BY <1>1, <1>5
<1>7. Range(s) = S
  <2>1. ASSUME NEW x \in S PROVE \E i \in 1..n : s[i] = x
    <3>1. PICK k \in 1..n : a[k] = x
      BY <1>1
    <3>2. s[(n + 1) - k] = a[(n + 1) - ((n + 1) - k)]
      BY <1>3, <1>4
    <3> QED BY <1>4, <3>1, <3>2
  <2> QED BY <1>5, <2>1 DEF Range
<1>8. ASSUME NEW i \in 1..n, NEW j \in 1..n, s[i] = s[j] PROVE i = j
  <2>1. (n + 1) - i = (n + 1) - j
    BY <1>1, <1>3, <1>4, <1>8
  <2> QED BY <1>4, <2>1
<1>9. Once(s)
  BY <1>5, <1>8 DEF Once
<1> QED BY <1>6, <1>7, <1>9 DEF s, a

\* An answer becomes the list.
LEMMA MarkApplyKeeps ==
  ASSUME MarkTypes, BookInv, NEW f \in Requests, Bookmarks!Apply(f)
  PROVE  MarkTypes' /\ BookInv'
<1> DEFINE P == fetch[f].page
           Seen == {e.m : e \in {d \in P : d.seen}}
           Unseen == {e.m : e \in {d \in P : ~d.seen}}
<1>1. fetch[f] \in MarkSlots /\ P \in MarkPages
  BY DEF MarkTypes, MarkSlots
<1>2. Seen \in SUBSET Marks /\ Unseen \in SUBSET Marks /\ Seen \cup Unseen = Marked(P)
  BY <1>1 DEF MarkPages, Marked
<1>3. Seen \cap Unseen = {}
  BY DEF BookInv
<1>4. saved' = Descending(Seen) /\ missing' = Unseen
  BY MarkLists DEF Bookmarks!Apply
<1>5. /\ fetched' = TRUE /\ fetch' = [fetch EXCEPT ![f] = Bookmarks!Idle]
      /\ raced' = fetch[f].stale /\ undone' = {} /\ bulk' = {}
      /\ UNCHANGED <<requests, marked, alive, hidden, feed, events, changes>>
      /\ fetch[f].step = "answered"
  BY DEF Bookmarks!Apply, Bookmarks!serverVars
<1> HIDE DEF Seen, Unseen
<1>6. Seen \in SUBSET Nat /\ IsFiniteSet(Seen)
  BY <1>2, StoreConstants, FS_Subset
<1>7. saved' \in Seq(Seen) /\ Range(saved') = Seen /\ Once(saved')
  BY <1>4, <1>6, DescendingTells
<1>8. MarkTypes'
  <2>1. saved' \in Seq(Marks)
    BY <1>2, <1>7
  <2>2. raced' \in BOOLEAN
    BY <1>1, <1>5 DEF MarkSlots
  <2>3. fetch' \in [Requests -> MarkSlots]
    BY <1>5, MarkSlotFacts DEF MarkTypes
  <2>4. missing' \in SUBSET Marks /\ fetched' \in BOOLEAN
    BY <1>2, <1>4, <1>5
  <2> QED BY <1>5, <2>1, <2>2, <2>3, <2>4 DEF MarkTypes
<1>9. \A g \in Requests : fetch'[g] = IF g = f THEN Bookmarks!Idle ELSE fetch[g]
  BY <1>5 DEF MarkTypes
<1>10. \A g \in Requests : \A d, e \in fetch'[g].page : d.m = e.m => d = e
  BY <1>9, MarkSlotFacts DEF BookInv
<1>11. \A g \in Requests : fetch'[g].step = "answered" /\ ~fetch'[g].stale =>
         \A m \in Marks : NoneFrom(events, 1, m) => (m \in marked <=> m \in Marked(fetch'[g].page))
  BY <1>9, MarkSlotFacts DEF BookInv
<1>12. ~raced' => \A m \in Marks : NoneFrom(events', 1, m) => MarkFits(m)'
  <2> SUFFICES ASSUME ~raced', NEW m \in Marks, NoneFrom(events, 1, m) PROVE MarkFits(m)'
    BY <1>5
  <2>1. m \in marked <=> m \in Marked(P)
    BY <1>5 DEF BookInv
  <2> QED BY <1>2, <1>4, <1>5, <1>7, <2>1 DEF MarkFits
<1>13. Range(saved') \cap missing' = {}
  BY <1>3, <1>4, <1>7
<1> QED BY <1>5, <1>7, <1>8, <1>10, <1>11, <1>12, <1>13 DEF BookInv

-----------------------------------------------------------------------------
\* Messages leave the list.
LEMMA MarkWithout ==
  ASSUME MarkTypes, BookInv, NEW ms \in SUBSET Marks, Bookmarks!Without(ms)
  PROVE  /\ saved' \in Seq(Marks) /\ missing' \in SUBSET Marks
         /\ Once(saved') /\ Range(saved') \cap missing' = {}
         /\ \A m \in Marks : m \in Range(saved') \cup missing' <=>
                               m \in Range(saved) \cup missing /\ m \notin ms
<1>1. saved' = Kept(saved, Marks \ ms) /\ missing' = missing \ ms
  BY MarkLists DEF Bookmarks!Without
<1>2. saved \in Seq(Marks) /\ missing \in SUBSET Marks /\ Once(saved) /\ Range(saved) \cap missing = {}
  BY DEF MarkTypes, BookInv
<1>3. saved' \in Seq(Marks) /\ Range(saved') = Range(saved) \cap (Marks \ ms) /\ Once(saved')
  BY <1>1, <1>2, KeptTells
<1> QED BY <1>1, <1>2, <1>3

\* A message comes first in it.
LEMMA MarkInsert ==
  ASSUME MarkTypes, BookInv, NEW m \in Marks, Bookmarks!Insert(m)
  PROVE  /\ saved' \in Seq(Marks) /\ missing' \in SUBSET Marks
         /\ Once(saved') /\ Range(saved') \cap missing' = {}
         /\ Range(saved') \cup missing' = Range(saved) \cup missing \cup {m}
<1>1. missing' = missing \ {m} /\ saved' = IF m \in Range(saved) THEN saved ELSE <<m>> \o saved
  BY MarkLists DEF Bookmarks!Insert
<1>2. saved \in Seq(Marks) /\ missing \in SUBSET Marks /\ Once(saved) /\ Range(saved) \cap missing = {}
  BY DEF MarkTypes, BookInv
<1>3. saved' \in Seq(Marks) /\ Range(saved') = Range(saved) \cup {m} /\ Once(saved')
  <2>1. CASE m \in Range(saved)
    BY <1>1, <1>2, <2>1
  <2>2. CASE m \notin Range(saved)
    <3> DEFINE n == Len(saved)
               s == <<m>> \o saved
    <3>1. n \in Nat /\ DOMAIN saved = 1..n
      BY <1>2
    <3>2. s \in Seq(Marks) /\ DOMAIN s = 1..(n + 1) /\ s[1] = m /\ \A k \in 1..n : s[k + 1] = saved[k]
      BY <1>2
    <3>3. saved' = s
      BY <1>1, <2>2
    <3> HIDE DEF s, n
    <3>4. \A k \in 1..(n + 1) : k = 1 \/ (k - 1 \in 1..n /\ s[k] = saved[k - 1])
      <4>1. ASSUME NEW k \in 1..(n + 1), k # 1 PROVE k - 1 \in 1..n /\ s[k] = saved[k - 1]
        <5>1. k - 1 \in 1..n /\ (k - 1) + 1 = k
          BY <3>1, <4>1
        <5> QED BY <3>2, <5>1
      <4> QED BY <4>1
    <3>5. Range(s) = Range(saved) \cup {m}
      <4>1. 1 \in 1..(n + 1) /\ \A k \in 1..n : k + 1 \in 1..(n + 1)
        BY <3>1
      <4>2. \A x \in Range(s) : x = m \/ x \in Range(saved)
        <5>1. \A k \in 1..(n + 1) : s[k] = m \/ s[k] \in Range(saved)
          BY <3>1, <3>2, <3>4 DEF Range
        <5> QED BY <3>2, <5>1 DEF Range
      <4>3. m \in Range(s) /\ \A x \in Range(saved) : x \in Range(s)
        BY <3>1, <3>2, <4>1 DEF Range
      <4> QED BY <4>2, <4>3
    <3>6. Once(s)
      <4> SUFFICES ASSUME NEW i \in 1..(n + 1), NEW j \in 1..(n + 1), s[i] = s[j] PROVE i = j
        BY <3>2 DEF Once
      <4>1. \A k \in 1..n : saved[k] # m
        BY <2>2, <3>1 DEF Range
      <4>2. CASE i = 1 \/ j = 1
        BY <3>2, <3>4, <4>1, <4>2
      <4>3. CASE i # 1 /\ j # 1
        <5>1. i - 1 = j - 1
          BY <1>2, <3>1, <3>4, <4>3 DEF Once
        <5> QED BY <3>1, <5>1
      <4> QED BY <4>2, <4>3
    <3> QED BY <3>2, <3>3, <3>5, <3>6
  <2> QED BY <2>1, <2>2
<1> QED BY <1>1, <1>2, <1>3

\* The user unsaves: the list changes before the server is asked.
LEMMA MarkUnsaveKeeps ==
  ASSUME MarkTypes, BookInv, NEW m \in Marks, Bookmarks!Unsave(m)
  PROVE  MarkTypes' /\ BookInv'
<1>1. /\ Bookmarks!Without({m}) /\ fetch' = Bookmarks!AllAged(fetch) /\ requests' = requests \cup {m}
      /\ UNCHANGED <<fetched, marked, alive, hidden, feed, events, undone, bulk, raced>>
  BY DEF Bookmarks!Unsave, Bookmarks!obsVars
<1>2. changes' \in 0..MaxChanges
  BY MarkChange DEF Bookmarks!Unsave, MarkTypes
<1>3. /\ saved' \in Seq(Marks) /\ missing' \in SUBSET Marks
      /\ Once(saved') /\ Range(saved') \cap missing' = {}
      /\ \A k \in Marks : k \in Range(saved') \cup missing' <=>
                            k \in Range(saved) \cup missing /\ k \notin {m}
  BY <1>1, MarkWithout
<1>4. MarkTypes'
  BY <1>1, <1>2, <1>3, MarkAged DEF MarkTypes
<1>5. \A k \in Marks : MarkFits(k) => MarkFits(k)'
  BY <1>1, <1>3 DEF MarkFits
<1> QED BY <1>1, <1>3, <1>4, <1>5, MarkAged DEF BookInv

\* An event arrives: the list does as it says.
LEMMA MarkTakeKeeps ==
  ASSUME MarkTypes, BookInv, Bookmarks!Take
  PROVE  MarkTypes' /\ BookInv'
<1> DEFINE e == events[1]
<1>1. events \in Seq(Marking) /\ events # <<>> /\ Head(events) = e
  BY DEF MarkTypes, Bookmarks!Take
<1>2. e \in Marking /\ 1 \in DOMAIN events
  BY <1>1
<1>3. /\ events' = Tail(events) /\ fetch' = Bookmarks!AllAged(fetch)
      /\ UNCHANGED <<fetched, requests, marked, alive, hidden, feed, changes, undone, raced>>
      /\ \/ e.op = "saved" /\ (\E m \in e.ms : Bookmarks!Insert(m)) /\ bulk' = bulk
         \/ e.op \in {"unsaved", "gone"} /\ Bookmarks!Without(e.ms) /\ bulk' = bulk
         \/ e.op = "bulk" /\ bulk' = bulk \cup e.ms /\ UNCHANGED <<saved, missing>>
  BY <1>1 DEF Bookmarks!Take
<1> HIDE DEF e
<1>4. e.ms \in SUBSET Marks /\ (e.op = "saved" => \E m \in Marks : e.ms = {m})
  BY <1>2 DEF Marking, BookInv, e
<1>5. /\ saved' \in Seq(Marks) /\ missing' \in SUBSET Marks /\ bulk' \in SUBSET Marks
      /\ Once(saved') /\ Range(saved') \cap missing' = {} /\ bulk \subseteq bulk'
      /\ \A m \in Marks : m \notin e.ms =>
           (m \in Range(saved') \cup missing' <=> m \in Range(saved) \cup missing)
      /\ \A m \in e.ms : \/ e.op = "saved" /\ m \in Range(saved') \cup missing'
                         \/ e.op # "saved" /\ (m \notin Range(saved') \cup missing' \/ m \in bulk')
  <2>1. CASE e.op = "saved" /\ (\E m \in e.ms : Bookmarks!Insert(m)) /\ bulk' = bulk
    <3>1. PICK m \in Marks : e.ms = {m} /\ Bookmarks!Insert(m)
      BY <1>4, <2>1
    <3> QED BY <2>1, <3>1, MarkInsert DEF MarkTypes
  <2>2. CASE e.op \in {"unsaved", "gone"} /\ Bookmarks!Without(e.ms) /\ bulk' = bulk
    BY <1>4, <2>2, MarkWithout DEF MarkTypes
  <2>3. CASE e.op = "bulk" /\ bulk' = bulk \cup e.ms /\ UNCHANGED <<saved, missing>>
    BY <1>4, <2>3 DEF MarkTypes, BookInv
  <2> QED BY <1>3, <2>1, <2>2, <2>3
<1>6. MarkTypes'
  <2>1. events' \in Seq(Marking)
    BY <1>1, <1>3
  <2> QED BY <1>3, <1>5, <2>1, MarkAged DEF MarkTypes
<1>7. ASSUME NEW i \in DOMAIN events', events'[i].op = "saved"
      PROVE  \E m \in Marks : events'[i].ms = {m}
  <2>1. i + 1 \in DOMAIN events /\ events'[i] = events[i + 1]
    BY <1>1, <1>3, <1>7
  <2> QED BY <1>7, <2>1 DEF BookInv
<1>8. feed # "down" => \A m \in Marks : /\ LastSays(events', marked, m)
                                        /\ m \in e.ms /\ NoneFrom(events', 1, m) => (e.op = "saved" <=> m \in marked)
  <2> SUFFICES ASSUME feed # "down", NEW m \in Marks
               PROVE  /\ LastSays(events', marked, m)
                      /\ m \in e.ms /\ NoneFrom(events', 1, m) => (e.op = "saved" <=> m \in marked)
    OBVIOUS
  <2>1. LastSays(events, marked, m)
    BY DEF BookInv
  <2> QED BY <1>1, <1>3, <2>1, NoneShifts DEF e
<1>9. feed' = "up" /\ fetched' /\ ~raced' => \A m \in Marks : NoneFrom(events', 1, m) => MarkFits(m)'
  <2> SUFFICES ASSUME feed = "up", fetched, ~raced, NEW m \in Marks, NoneFrom(events', 1, m) PROVE MarkFits(m)'
    BY <1>3
  <2>1. CASE m \in e.ms
    <3>1. e.op = "saved" <=> m \in marked
      BY <1>8, <2>1
    <3> QED BY <1>3, <1>5, <2>1, <3>1 DEF MarkFits
  <2>2. CASE m \notin e.ms
    <3>1. NoneFrom(events, 1, m)
      BY <1>1, <1>3, <2>2, NoneShifts DEF e
    <3>2. MarkFits(m)
      BY <3>1 DEF BookInv
    <3> QED BY <1>3, <1>5, <2>2, <3>2 DEF MarkFits
  <2> QED BY <2>1, <2>2
<1>10. /\ \A f \in Requests : \A d, c \in fetch'[f].page : d.m = c.m => d = c
       /\ \A f \in Requests : fetch'[f].step = "answered" => fetch'[f].stale
  BY <1>3, MarkAged DEF BookInv
<1> QED BY <1>3, <1>5, <1>6, <1>7, <1>8, <1>9, <1>10 DEF BookInv

-----------------------------------------------------------------------------
\* The connection is lost, with the last of the events, and comes back.
LEMMA MarkFeedKeeps ==
  ASSUME MarkTypes, BookInv, Bookmarks!Connected \/ Bookmarks!Break \/ Bookmarks!Reconnect
  PROVE  MarkTypes' /\ BookInv'
<1>1. events \in Seq(Marking)
  BY DEF MarkTypes
<1>2. CASE Bookmarks!Connected
  <2>1. /\ feed = "new" /\ feed' = "up" /\ saved' = <<>> /\ missing' = {} /\ fetched' = FALSE
        /\ UNCHANGED <<fetch, requests, marked, alive, hidden, events, changes, undone, bulk, raced>>
    BY <1>2 DEF Bookmarks!Connected, Bookmarks!Reset, Bookmarks!obsVars
  <2>2. <<>> \in Seq(Marks)
    OBVIOUS
  <2>3. MarkTypes'
    BY <2>1, <2>2 DEF MarkTypes
  <2>4. Once(saved') /\ Range(saved') \cap missing' = {}
    BY <2>1 DEF Once
  <2> QED BY <2>1, <2>3, <2>4 DEF BookInv
<1>3. CASE Bookmarks!Break
  <2>1. /\ feed' = "down"
        /\ UNCHANGED <<saved, missing, fetched, requests, marked, alive, hidden, changes, undone, bulk, raced>>
    BY <1>3 DEF Bookmarks!Break, Bookmarks!obsVars
  <2>2. PICK k \in 0..Len(events) : /\ events' = SubSeq(events, 1, k)
                                    /\ fetch' = IF k = Len(events) THEN fetch ELSE Bookmarks!AllAged(fetch)
    BY <1>3 DEF Bookmarks!Break
  <2>3. events' \in Seq(Marking) /\ DOMAIN events' = 1..k /\ \A i \in 1..k : events'[i] = events[i] /\ i \in DOMAIN events
    BY <1>1, <2>2
  <2>4. fetch' \in [Requests -> MarkSlots]
    BY <2>2, MarkAged DEF MarkTypes
  <2>5. MarkTypes'
    BY <2>1, <2>3, <2>4 DEF MarkTypes
  <2>6. \A i \in DOMAIN events' : events'[i].op = "saved" => \E m \in Marks : events'[i].ms = {m}
    BY <2>3 DEF BookInv
  <2>7. \A f \in Requests : \A d, e \in fetch'[f].page : d.m = e.m => d = e
    <3>1. \A f \in Requests : fetch'[f].page = fetch[f].page
      BY <2>2, MarkAged
    <3> QED BY <3>1 DEF BookInv
  <2>8. \A f \in Requests : fetch'[f].step = "answered" /\ ~fetch'[f].stale =>
          \A m \in Marks : NoneFrom(events', 1, m) => (m \in marked <=> m \in Marked(fetch'[f].page))
    <3>1. CASE k = Len(events)
      <4>1. events' = events /\ fetch' = fetch
        BY <1>1, <2>2, <3>1
      <4> QED BY <4>1 DEF BookInv
    <3>2. CASE k # Len(events)
      BY <2>2, <3>2, MarkAged
    <3> QED BY <3>1, <3>2
  <2> QED BY <2>1, <2>5, <2>6, <2>7, <2>8 DEF BookInv
<1>4. CASE Bookmarks!Reconnect
  <2>1. /\ events = <<>> /\ feed' = "new"
        /\ UNCHANGED <<saved, missing, fetched, fetch, requests, marked, alive, hidden, events, changes, undone, bulk, raced>>
    BY <1>4 DEF Bookmarks!Reconnect, Bookmarks!storeVars, Bookmarks!obsVars
  <2>2. MarkTypes'
    BY <2>1 DEF MarkTypes
  <2>3. \A m \in Marks : LastSays(events', marked', m)
    BY <2>1 DEF LastSays
  <2> QED BY <2>1, <2>2, <2>3 DEF BookInv
<1> QED BY <1>2, <1>3, <1>4

LEMMA MarksStart ==
  ASSUME Bookmarks!Init
  PROVE  MarkTypes /\ BookInv
<1>1. <<>> \in Seq(Marks) /\ <<>> \in Seq(Marking) /\ 0 \in 0..MaxChanges
  BY StoreConstants
<1>2. MarkTypes
  BY <1>1, MarkSlotFacts DEF Bookmarks!Init, MarkTypes
<1>3. events = <<>> /\ ~fetched /\ saved = <<>> /\ missing = {} /\ \A f \in Requests : fetch[f] = Bookmarks!Idle
  BY DEF Bookmarks!Init
<1>4. Once(saved) /\ \A m \in Marks : LastSays(events, marked, m)
  BY <1>3 DEF Once, LastSays
<1> QED BY <1>2, <1>3, <1>4, MarkSlotFacts DEF BookInv

LEMMA MarksKeep ==
  ASSUME MarkTypes, BookInv, Bookmarks!Next
  PROVE  MarkTypes' /\ BookInv'
<1>1. CASE \E f \in Requests : Bookmarks!Open(f) \/ Bookmarks!Serve(f) \/ Bookmarks!Apply(f) \/ Bookmarks!Fail(f)
  BY <1>1, MarkAsksKeep, MarkApplyKeeps
<1>2. CASE \E m \in Marks : \/ Bookmarks!Save(m) \/ Bookmarks!Unsave(m)
                            \/ Bookmarks!UnsaveElsewhere(m) \/ Bookmarks!Access(m)
  BY <1>2, MarkServerKeeps, MarkUnsaveKeeps, MarkAsksKeep
<1>3. CASE \E m \in requests : Bookmarks!ObeyUnsave(m) \/ Bookmarks!FailUnsave(m)
  BY <1>3, MarkServerKeeps, MarkAsksKeep
<1>4. CASE \/ \E m \in alive : Bookmarks!Delete({m}, "gone")
           \/ Bookmarks!Delete(Marks, "gone") \/ Bookmarks!Delete(alive, "bulk")
  BY <1>4, MarkServerKeeps
<1>5. CASE Bookmarks!Take \/ Bookmarks!Connected \/ Bookmarks!Break \/ Bookmarks!Reconnect
  BY <1>5, MarkTakeKeeps, MarkFeedKeeps
<1> QED BY <1>1, <1>2, <1>3, <1>4, <1>5 DEF Bookmarks!Next

\* The bookmarks and what is on its way about them, in every state.
LEMMA BookmarksInvariant == Spec => [](MarkTypes /\ BookInv)
<1>1. Init => MarkTypes /\ BookInv
  BY MarksStart DEF Init
<1>2. MarkTypes /\ BookInv /\ [Next]_vars => (MarkTypes /\ BookInv)'
  <2> SUFFICES ASSUME MarkTypes, BookInv, [Next]_vars
               PROVE  MarkTypes' /\ BookInv'
    OBVIOUS
  <2>1. CASE UNCHANGED bookmarkVars
    <3>1. UNCHANGED <<saved, missing, fetched, fetch, requests, marked, alive, hidden, feed,
                      events, changes, undone, bulk, raced>>
      BY <2>1 DEF bookmarkVars
    <3>2. MarkTypes'
      BY <3>1 DEF MarkTypes
    <3>3. BookInv'
      BY <3>1 DEF BookInv, MarkFits
    <3> QED BY <3>2, <3>3
  <2>2. CASE Bookmarks!Next
    BY <2>2, MarksKeep
  <2> QED BY <2>1, <2>2 DEF Next, FetchedNext, fetchedVars, vars
<1> QED BY <1>1, <1>2, PTL DEF Spec

\* Once all is in, a fetched list is the server's: every bookmark and no other
\* message, but for unsaves that failed and messages deleted in bulk.
THEOREM BookmarksAgree == Spec => []BookmarksAgreeUnlessRaced
<1>1. MarkTypes /\ BookInv => BookmarksAgreeUnlessRaced
  <2> SUFFICES ASSUME MarkTypes, BookInv, Bookmarks!Quiet, fetched, ~raced
               PROVE  /\ Bookmarks!ListedOnce
                      /\ marked \ undone \subseteq Bookmarks!Shown /\ Bookmarks!Shown \ bulk \subseteq marked
    BY DEF BookmarksAgreeUnlessRaced, Bookmarks!BookmarksAgreeUnlessRaced
  <2>1. feed = "up" /\ events = <<>> /\ requests = {}
    BY DEF Bookmarks!Quiet
  <2>2. \A m \in Marks : NoneFrom(events, 1, m)
    BY <2>1 DEF NoneFrom
  <2>3. \A m \in Marks : MarkFits(m)
    BY <2>1, <2>2 DEF BookInv
  <2>4. Bookmarks!Shown = Range(saved) \cup missing
    BY MarkLists DEF Bookmarks!Shown
  <2>5. marked \in SUBSET Marks /\ Range(saved) \cup missing \in SUBSET Marks
    <3>1. Range(saved) \in SUBSET Marks
      BY DEF MarkTypes, Range
    <3> QED BY <3>1 DEF MarkTypes
  <2>6. Bookmarks!ListedOnce
    BY MarkLists DEF Bookmarks!ListedOnce, BookInv, Once
  <2> QED BY <2>1, <2>3, <2>4, <2>5, <2>6 DEF MarkFits
<1> QED BY <1>1, BookmarksInvariant, PTL

-----------------------------------------------------------------------------
(* The rows of a channel.  No two rows have the nonce of one send, and no  *)
(* two clash: every row whose send the server took is confirmed in place,  *)
(* and a row is added for a message only when none waits for it.           *)

RowIds == 1..MaxMessages
RowSet == [id : 0..MaxMessages, nonce : 0..MaxSends, state : {"none", "sending", "failed"}]
PageSlots == [step : {"idle", "asked", "answered"}, before : 0..MaxMessages, page : Seq(RowIds), stale : BOOLEAN]
SendStates == [1..MaxSends -> {"unused", "waiting", "ok", "failed", "dropped"}]
Posted == [kind : {"create", "delete"}, id : RowIds]

RowTypes ==
  /\ rows \in Seq(RowSet) /\ loaded \in BOOLEAN
  /\ load \in [Histories -> PageSlots] /\ more \in PageSlots
  /\ sends \in SendStates /\ log \in Seq(0..MaxSends) /\ Len(log) <= MaxMessages
  /\ deletes \subseteq RowIds /\ gone \subseteq RowIds /\ discarded \subseteq RowIds
  /\ posts \in Seq(Posted) /\ outran \in BOOLEAN /\ overlap \in BOOLEAN

\* A row, with the log g and the sends u: a placeholder is unconfirmed and a
\* row of a nonce stands for the message the server has with it.
Sound(r, g, u) ==
  /\ r.id <= Len(g)
  /\ r.id = 0 => r.state # "none"
  /\ r.id # 0 /\ r.nonce # 0 => g[r.id] = r.nonce
  /\ r.state # "none" => r.nonce # 0
  /\ r.nonce # 0 => u[r.nonce] # "unused"
  /\ r.state = "sending" => u[r.nonce] = "waiting"

\* Two rows that may not both be there; o tells whether a page overlapped.
SendIn(r, g) == IF r.id = 0 THEN r.nonce ELSE g[r.id]
Clash(r, t, g, o) ==
  \/ r.nonce = t.nonce /\ r.nonce # 0
  \/ ~o /\ r.id = t.id /\ r.id # 0
  \/ ~o /\ SendIn(r, g) = SendIn(t, g) /\ SendIn(r, g) # 0
NoClash(s, g, o) == \A i, j \in DOMAIN s : i # j => ~Clash(s[i], s[j], g, o)

\* The log g holds each send once, and only those that were made.
LogOnce(g, u) ==
  /\ \A i, j \in DOMAIN g : g[i] = g[j] /\ g[i] # 0 => i = j
  /\ \A i \in DOMAIN g : g[i] # 0 => u[g[i]] # "unused"

RowInv ==
  /\ \A r \in Range(rows) : Sound(r, log, sends)
  /\ NoClash(rows, log, overlap)
  /\ LogOnce(log, sends)
  /\ \A k \in DOMAIN posts : posts[k].id \in DOMAIN log /\ (posts[k].kind = "delete" => posts[k].id \in gone)
  /\ \A l \in Histories : Range(load[l].page) \subseteq DOMAIN log /\ Once(load[l].page)
  /\ Range(more.page) \subseteq DOMAIN log /\ Once(more.page)
  /\ more.before <= Len(log)

-----------------------------------------------------------------------------
LEMMA RowLists ==
  /\ \A s : Rows!Range(s) = Range(s)
  /\ \A s, S : Rows!Kept(s, S) = Kept(s, S)
  /\ \A S : Rows!Ascending(S) = Ascending(S)
  /\ \A S : Rows!Cardinality(S) = Cardinality(S)
<1>1. \A S : Rows!Cardinality(S) = Cardinality(S)
  BY DEF Cardinality, Rows!Cardinality
<1>2. ASSUME NEW S PROVE Rows!Ascending(S) = Ascending(S)
  BY <1>1 DEF Ascending, Rows!Ascending
<1>3. \A s, S : Rows!Kept(s, S) = Kept(s, S)
  BY <1>2 DEF Kept, Rows!Kept
<1> QED BY <1>1, <1>2, <1>3 DEF Range, Rows!Range

LEMMA RowSets ==
  /\ Rows!RowType = RowSet /\ Rows!Ids = RowIds /\ Rows!Sends = 1..MaxSends
  /\ \A id, n, st : Rows!Row(id, n, st) = [id |-> id, nonce |-> n, state |-> st]
  /\ MaxMessages \in Nat /\ MaxSends \in Nat /\ Old \in Nat /\ Old <= MaxMessages /\ Limit \in Nat /\ Limit > 0
  /\ Rows!Idle \in PageSlots /\ Rows!Idle.step = "idle" /\ Rows!Idle.page = <<>>
  /\ ~Rows!Idle.stale /\ Rows!Idle.before = 0
<1>1. MaxMessages \in Nat /\ MaxSends \in Nat /\ Old \in Nat /\ Old <= MaxMessages /\ Limit \in Nat /\ Limit > 0
  BY StoreConstants
<1>2. <<>> \in Seq(RowIds) /\ 0 \in 0..MaxMessages
  BY <1>1
<1> QED BY <1>1, <1>2 DEF Rows!RowType, RowSet, Rows!Ids, RowIds, Rows!Sends, Rows!Row, Rows!Idle, PageSlots

\* findIndex finds a row that passes, if one does.
LEMMA LeastIs ==
  ASSUME NEW S \in SUBSET Nat, S # {}
  PROVE  Rows!Min(S) \in S /\ \A k \in S : Rows!Min(S) <= k
  BY LeastNatural DEF Rows!Min

LEMMA UnsentIs ==
  ASSUME RowTypes, NEW n
  PROVE  LET p == Rows!Unsent(n) IN
           \/ p = 0 /\ \A i \in DOMAIN rows : ~(rows[i].nonce = n /\ rows[i].state # "none")
           \/ p # 0 /\ p \in DOMAIN rows /\ rows[p].nonce = n /\ rows[p].state # "none"
<1> DEFINE S == {i \in DOMAIN rows : rows[i].nonce = n /\ rows[i].state # "none"}
<1>1. Rows!Unsent(n) = IF S = {} THEN 0 ELSE Rows!Min(S)
  BY DEF Rows!Unsent, Rows!First
<1>2. S \in SUBSET Nat /\ 0 \notin S
  BY DEF RowTypes
<1>3. S # {} => Rows!Min(S) \in S
  <2> HIDE DEF S
  <2> QED BY <1>2, LeastIs
<1>4. CASE S = {}
  BY <1>1, <1>4
<1>5. CASE S # {}
  <2>1. Rows!Unsent(n) \in S
    BY <1>1, <1>3, <1>5
  <2> QED BY <1>2, <2>1
<1> QED BY <1>4, <1>5

LEMMA RealIs ==
  ASSUME RowTypes, NEW id
  PROVE  LET p == Rows!Real(id) IN
           \/ p = 0 /\ \A i \in DOMAIN rows : ~(rows[i].id = id /\ rows[i].state = "none")
           \/ p # 0 /\ p \in DOMAIN rows /\ rows[p].id = id /\ rows[p].state = "none"
<1> DEFINE S == {i \in DOMAIN rows : rows[i].id = id /\ rows[i].state = "none"}
<1>1. Rows!Real(id) = IF S = {} THEN 0 ELSE Rows!Min(S)
  BY DEF Rows!Real, Rows!First
<1>2. S \in SUBSET Nat /\ 0 \notin S
  BY DEF RowTypes
<1>3. S # {} => Rows!Min(S) \in S
  <2> HIDE DEF S
  <2> QED BY <1>2, LeastIs
<1>4. CASE S = {}
  BY <1>1, <1>4
<1>5. CASE S # {}
  <2>1. Rows!Real(id) \in S
    BY <1>1, <1>3, <1>5
  <2> QED BY <1>2, <2>1
<1> QED BY <1>4, <1>5

\* Fail marks the first row with the nonce, if one has it.
LEMMA FailMarks ==
  ASSUME RowTypes, NEW n \in 1..MaxSends, Rows!Fail(n)
  PROVE  \/ rows' = rows /\ \A i \in DOMAIN rows : rows[i].nonce # n
         \/ \E p \in DOMAIN rows : rows[p].nonce = n /\ rows' = [rows EXCEPT ![p].state = "failed"]
<1> DEFINE S == {i \in DOMAIN rows : rows[i].nonce = n}
           p == IF S = {} THEN 0 ELSE Rows!Min(S)
<1>1. IF p = 0 THEN rows' = rows ELSE rows' = [rows EXCEPT ![p].state = "failed"]
  BY DEF Rows!Fail, Rows!First
<1>2. S \in SUBSET Nat /\ 0 \notin S
  BY DEF RowTypes
<1>3. S # {} => Rows!Min(S) \in S
  <2> HIDE DEF S
  <2> QED BY <1>2, LeastIs
<1>4. CASE S = {}
  BY <1>1, <1>4
<1>5. CASE S # {}
  <2>1. p \in S /\ p # 0
    BY <1>2, <1>3, <1>5
  <2> QED BY <1>1, <2>1
<1> QED BY <1>4, <1>5

-----------------------------------------------------------------------------
(* What may be done to rows that do not clash.                             *)

\* Two rows clash either way round.
LEMMA ClashTurns ==
  \A r, t, g, o : Clash(r, t, g, o) <=> Clash(t, r, g, o)
  BY DEF Clash

\* Rows are taken out.
LEMMA ThinKeeps ==
  ASSUME NEW T, NEW s \in Seq(T), NEW S, NEW g, NEW o, NoClash(s, g, o)
  PROVE  /\ Kept(s, S) \in Seq(T) /\ Range(Kept(s, S)) = Range(s) \cap S
         /\ NoClash(Kept(s, S), g, o)
<1> DEFINE r == Kept(s, S)
<1>1. PICK at : Places(at, s, S, r)
  BY KeptIs
<1>2. r \in Seq(T) /\ Range(r) = Range(s) \cap S
  BY KeptTells
<1> HIDE DEF r
<1>3. \A i, j \in DOMAIN r : i # j =>
        at[i] \in DOMAIN s /\ at[j] \in DOMAIN s /\ at[i] # at[j] /\ r[i] = s[at[i]] /\ r[j] = s[at[j]]
  BY <1>1 DEF Places
<1>4. NoClash(r, g, o)
  BY <1>3 DEF NoClash
<1> QED BY <1>2, <1>4 DEF r

\* One row is taken out.
LEMMA DropKeeps ==
  ASSUME NEW T, NEW s \in Seq(T), NEW p \in DOMAIN s, NEW g, NEW o, NoClash(s, g, o)
  PROVE  /\ Rows!RemoveAt(s, p) \in Seq(T)
         /\ \A x \in Range(Rows!RemoveAt(s, p)) : \E i \in DOMAIN s : i # p /\ x = s[i]
         /\ \A x \in Range(s) : x # s[p] => x \in Range(Rows!RemoveAt(s, p))
         /\ NoClash(Rows!RemoveAt(s, p), g, o)
<1> DEFINE n == Len(s)
           r == Rows!RemoveAt(s, p)
           at(k) == IF k < p THEN k ELSE k + 1
<1>1. n \in Nat /\ DOMAIN s = 1..n /\ p \in 1..n
  OBVIOUS
<1>2. r \in Seq(T) /\ DOMAIN r = 1..(n - 1) /\ \A k \in 1..(n - 1) : r[k] = s[at(k)]
  <2> DEFINE a == SubSeq(s, 1, p - 1)
             b == SubSeq(s, p + 1, Len(s))
  <2>1. a \in Seq(T) /\ Len(a) = p - 1 /\ \A k \in 1..(p - 1) : a[k] = s[k]
    BY <1>1
  <2>2. b \in Seq(T) /\ Len(b) = n - p /\ \A k \in 1..(n - p) : b[k] = s[p + k]
    BY <1>1
  <2>3. r = a \o b
    BY DEF Rows!RemoveAt
  <2> HIDE DEF a, b, r, n
  <2>4. (p - 1) + (n - p) = n - 1
    BY <1>1
  <2>5. r \in Seq(T) /\ DOMAIN r = 1..(n - 1)
    BY <2>1, <2>2, <2>3, <2>4
  <2>6. ASSUME NEW k \in 1..(n - 1) PROVE r[k] = s[at(k)]
    <3>1. CASE k < p
      <4>1. k \in 1..(p - 1)
        BY <1>1, <3>1
      <4> QED BY <2>1, <2>2, <2>3, <3>1, <4>1
    <3>2. CASE ~(k < p)
      <4>1. k - (p - 1) \in 1..(n - p) /\ p + (k - (p - 1)) = k + 1 /\ (p - 1) + (k - (p - 1)) = k
        BY <1>1, <3>2
      <4>2. \A h \in 1..(n - p) : r[(p - 1) + h] = b[h]
        BY <1>1, <2>1, <2>2, <2>3, SMTT(20)
      <4>3. r[k] = b[k - (p - 1)]
        BY <4>1, <4>2
      <4> QED BY <2>2, <3>2, <4>1, <4>3
    <3> QED BY <3>1, <3>2
  <2> QED BY <2>5, <2>6
<1> HIDE DEF r, n
<1>3. \A k \in 1..(n - 1) : at(k) \in 1..n /\ at(k) # p
  BY <1>1
<1>4. \A i, j \in 1..(n - 1) : at(i) = at(j) => i = j
  BY <1>1
<1>5. \A i \in 1..n : i # p => \E k \in 1..(n - 1) : at(k) = i
  <2> TAKE i \in 1..n
  <2>1. CASE i < p
    <3>1. i \in 1..(n - 1) /\ at(i) = i
      BY <1>1, <2>1
    <3> QED BY <3>1
  <2>2. CASE i > p
    <3>1. i - 1 \in 1..(n - 1) /\ at(i - 1) = i
      BY <1>1, <2>2
    <3> QED BY <3>1
  <2> QED BY <1>1, <2>1, <2>2
<1> HIDE DEF at
<1>6. \A x \in Range(r) : \E i \in DOMAIN s : i # p /\ x = s[i]
  BY <1>1, <1>2, <1>3 DEF Range
<1>7. \A x \in Range(s) : x # s[p] => x \in Range(r)
  <2> SUFFICES ASSUME NEW i \in 1..n, s[i] # s[p] PROVE s[i] \in Range(r)
    BY <1>1 DEF Range
  <2>1. PICK k \in 1..(n - 1) : at(k) = i
    BY <1>5
  <2> QED BY <1>2, <2>1 DEF Range
<1>8. NoClash(r, g, o)
  <2> SUFFICES ASSUME NEW i \in 1..(n - 1), NEW j \in 1..(n - 1), i # j PROVE ~Clash(r[i], r[j], g, o)
    BY <1>2 DEF NoClash
  <2> QED BY <1>1, <1>2, <1>3, <1>4 DEF NoClash
<1> QED BY <1>2, <1>6, <1>7, <1>8 DEF r

\* One row becomes another.
LEMMA PutKeeps ==
  ASSUME NEW p \in DOMAIN rows, NEW x \in RowSet, rows \in Seq(RowSet), NoClash(rows, log, overlap),
         rows' = [rows EXCEPT ![p] = x], \A i \in DOMAIN rows : i # p => ~Clash(rows[i], x, log, overlap)
  PROVE  /\ rows' \in Seq(RowSet) /\ NoClash(rows', log, overlap)
         /\ x \in Range(rows') /\ \A y \in Range(rows') : y = x \/ \E i \in DOMAIN rows : i # p /\ y = rows[i]
         /\ \A y \in Range(rows) : y = rows[p] \/ y \in Range(rows')
<1>1. /\ rows' \in Seq(RowSet) /\ DOMAIN rows' = DOMAIN rows
      /\ \A i \in DOMAIN rows : rows'[i] = IF i = p THEN x ELSE rows[i]
  OBVIOUS
<1>2. x \in Range(rows') /\ \A y \in Range(rows') : y = x \/ \E i \in DOMAIN rows : i # p /\ y = rows[i]
  BY <1>1 DEF Range
<1>3. \A y \in Range(rows) : y = rows[p] \/ y \in Range(rows')
  BY <1>1 DEF Range
<1>4. NoClash(rows', log, overlap)
  <2> SUFFICES ASSUME NEW i \in DOMAIN rows, NEW j \in DOMAIN rows, i # j
               PROVE  ~Clash(rows'[i], rows'[j], log, overlap)
    BY <1>1 DEF NoClash
  <2> QED BY <1>1, ClashTurns DEF NoClash
<1> QED BY <1>1, <1>2, <1>3, <1>4

\* A row comes last.
LEMMA AddKeeps ==
  ASSUME NEW T, NEW s \in Seq(T), NEW x \in T, NEW g, NEW o, NoClash(s, g, o),
         \A i \in DOMAIN s : ~Clash(s[i], x, g, o)
  PROVE  LET r == Append(s, x) IN r \in Seq(T) /\ Range(r) = Range(s) \cup {x} /\ NoClash(r, g, o)
<1> DEFINE n == Len(s)
           r == Append(s, x)
<1>1. n \in Nat /\ DOMAIN s = 1..n
  OBVIOUS
<1>2. r \in Seq(T) /\ DOMAIN r = 1..(n + 1) /\ r[n + 1] = x /\ \A i \in 1..n : r[i] = s[i]
  OBVIOUS
<1> HIDE DEF r, n
<1>3. n + 1 \in 1..(n + 1) /\ (\A i \in 1..(n + 1) : i = n + 1 \/ i \in 1..n) /\ \A i \in 1..n : i \in 1..(n + 1)
  BY <1>1
<1>4. Range(r) = Range(s) \cup {x}
  BY <1>1, <1>2, <1>3 DEF Range
<1>5. NoClash(r, g, o)
  <2> SUFFICES ASSUME NEW i \in 1..(n + 1), NEW j \in 1..(n + 1), i # j PROVE ~Clash(r[i], r[j], g, o)
    BY <1>2 DEF NoClash
  <2> QED BY <1>1, <1>2, <1>3, ClashTurns DEF NoClash
<1> QED BY <1>2, <1>4, <1>5 DEF r

\* Rows come first.
LEMMA AheadKeeps ==
  ASSUME NEW T, NEW s \in Seq(T), NEW q \in Seq(T), NEW g, NEW o, NoClash(s, g, o), NoClash(q, g, o),
         \A i \in DOMAIN q, j \in DOMAIN s : ~Clash(q[i], s[j], g, o)
  PROVE  LET r == q \o s IN r \in Seq(T) /\ Range(r) = Range(q) \cup Range(s) /\ NoClash(r, g, o)
<1> DEFINE n == Len(s)
           k == Len(q)
           r == q \o s
<1>1. n \in Nat /\ k \in Nat /\ DOMAIN s = 1..n /\ DOMAIN q = 1..k
  OBVIOUS
<1>2. r \in Seq(T) /\ DOMAIN r = 1..(k + n) /\ (\A i \in 1..k : r[i] = q[i]) /\ \A i \in 1..n : r[k + i] = s[i]
  OBVIOUS
<1> HIDE DEF r, n, k
<1>3. \A i \in 1..(k + n) : i \in 1..k \/ \E h \in 1..n : i = k + h
  <2> TAKE i \in 1..(k + n)
  <2>1. i > k => i - k \in 1..n /\ i = k + (i - k)
    BY <1>1
  <2> QED BY <1>1, <2>1
<1>4. \A i \in 1..k : i \in 1..(k + n)
  BY <1>1
<1>5. \A h \in 1..n : k + h \in 1..(k + n)
  BY <1>1
<1>6. Range(r) = Range(q) \cup Range(s)
  <2>1. \A y \in Range(r) : y \in Range(q) \/ y \in Range(s)
    <3>1. \A i \in 1..(k + n) : r[i] \in Range(q) \/ r[i] \in Range(s)
      BY <1>1, <1>2, <1>3 DEF Range
    <3> QED BY <1>2, <3>1 DEF Range
  <2>2. \A y \in Range(q) : y \in Range(r)
    BY <1>1, <1>2, <1>4 DEF Range
  <2>3. \A y \in Range(s) : y \in Range(r)
    BY <1>1, <1>2, <1>5 DEF Range
  <2> QED BY <2>1, <2>2, <2>3
<1>7. NoClash(r, g, o)
  <2> SUFFICES ASSUME NEW i \in 1..(k + n), NEW j \in 1..(k + n), i # j PROVE ~Clash(r[i], r[j], g, o)
    BY <1>2 DEF NoClash
  <2>1. CASE i \in 1..k /\ j \in 1..k
    BY <1>1, <1>2, <2>1 DEF NoClash
  <2>2. CASE i \in 1..k /\ \E h \in 1..n : j = k + h
    BY <1>1, <1>2, <2>2
  <2>3. CASE j \in 1..k /\ \E h \in 1..n : i = k + h
    BY <1>1, <1>2, <2>3, ClashTurns
  <2>4. ASSUME NEW h \in 1..n, NEW e \in 1..n, i = k + h, j = k + e PROVE ~Clash(r[i], r[j], g, o)
    <3>1. h # e /\ r[i] = s[h] /\ r[j] = s[e]
      BY <1>1, <1>2, <2>4
    <3> QED BY <1>1, <3>1 DEF NoClash
  <2> QED BY <1>3, <2>1, <2>2, <2>3, <2>4
<1> QED BY <1>2, <1>6, <1>7 DEF r

-----------------------------------------------------------------------------
(* No gap.  A message the server has and the rows might miss is on its way, *)
(* or the user took it out.  Creates come in the order of the log, so that *)
(* behind the first on its way all others wait too.                        *)

Waits(q, id) == \E k \in DOMAIN q : q[k].kind = "create" /\ q[k].id = id
InTurn(q, n) == \A k \in DOMAIN q : q[k].kind = "create" =>
  \A id \in 1..n : q[k].id < id => \E j \in DOMAIN q : k < j /\ q[j].kind = "create" /\ q[j].id = id

Showing == {r.id : r \in Range(rows)} \ {0}
Living == (1..Len(log)) \ gone
TakenOut == gone \cup deletes \cup discarded
Held(id) == id \in Showing \cup deletes \cup discarded \/ Waits(posts, id)

\* A page that is not stale begins somewhere, and has or awaits all from there on.
PageTold(page) ==
  /\ \A id \in Living, old \in Range(page) : old < id => id \in Range(page) \/ Waits(posts, id)
  /\ \A id \in Living : id \in Range(page) \/ Waits(posts, id) \/ \E other \in Range(page) : id < other

NoGaps ==
  /\ \A id \in Living, old \in Showing : old < id => Held(id)
  /\ \A id \in Living : Held(id) \/ \E other \in Showing \cup TakenOut : id < other
  /\ more.step # "idle" /\ ~more.stale /\ more.before # 0 =>
       \A id \in Living : more.before <= id => Held(id)

Orderly ==
  /\ InTurn(posts, Len(log))
  /\ \A r \in Range(rows), id \in DOMAIN log : r.id = 0 /\ log[id] = r.nonce => Waits(posts, id)
  /\ \A l \in Histories : load[l].step = "answered" /\ ~load[l].stale => PageTold(load[l].page)
  /\ loaded => NoGaps

GapInv ==
  /\ \A old \in Range(more.page) :
       old < more.before /\ \A id \in Living : id < more.before /\ old < id => id \in Range(more.page)
  /\ ~outran => Orderly

LEMMA RowNames ==
  Rows!Shown = Showing /\ Rows!Live = Living /\ Rows!Removed = TakenOut
  BY DEF Rows!Shown, Showing, Range, Rows!Live, Living, Rows!Removed, TakenOut

\* What was held is held, and what is shown anew has no gap behind it.
LEMMA NoGapsStay ==
  ASSUME NoGaps,
         \A id \in Living' : Held(id)' \/ (id \in Living /\ ~Held(id)),
         Showing \cup TakenOut \subseteq Showing' \cup TakenOut',
         \A old \in Showing' : old \in Showing \/ \A id \in Living' : old < id => Held(id)',
         \/ more'.step = "idle" \/ more'.stale \/ more'.before = 0
         \/ more.step # "idle" /\ ~more.stale /\ more'.before = more.before
  PROVE  NoGaps'
<1>1. ASSUME NEW id \in Living', NEW old \in Showing', old < id PROVE Held(id)'
  BY <1>1 DEF NoGaps
<1>2. ASSUME NEW id \in Living' PROVE Held(id)' \/ \E other \in (Showing \cup TakenOut)' : id < other
  BY DEF NoGaps
<1>3. ASSUME more'.step # "idle", ~more'.stale, more'.before # 0, NEW id \in Living', more'.before <= id
      PROVE  Held(id)'
  BY <1>3 DEF NoGaps
<1> QED BY <1>1, <1>2, <1>3 DEF NoGaps

-----------------------------------------------------------------------------
\* The user acts, or an answer of his request comes: neither server nor pages
\* change, and what leaves the rows is among what he took out.
LEMMA UserStep ==
  ASSUME RowTypes, RowInv, GapInv,
         UNCHANGED <<loaded, load, more, log, gone, posts, overlap>>,
         sends' \in SendStates, \A n \in 1..MaxSends : sends[n] # "unused" => sends'[n] # "unused",
         rows' \in Seq(RowSet), NoClash(rows', log, overlap), \A r \in Range(rows') : Sound(r, log, sends'),
         deletes' \subseteq RowIds, discarded' \subseteq RowIds, outran' \in BOOLEAN, outran => outran',
         Showing \cup deletes \cup discarded \subseteq Showing' \cup deletes' \cup discarded',
         ~outran' => \A old \in Showing' : old \in Showing \/
           (loaded => \A id \in Living : old < id => Held(id)),
         ~outran' => \A r \in Range(rows'), id \in DOMAIN log : r.id = 0 /\ log[id] = r.nonce => Waits(posts, id)
  PROVE  RowTypes' /\ RowInv' /\ GapInv'
<1>1. RowTypes'
  BY DEF RowTypes
<1>2. RowInv'
  <2>1. log \in Seq(0..MaxSends)
    BY DEF RowTypes
  <2>2. \A i \in DOMAIN log : log[i] # 0 => log[i] \in 1..MaxSends
    BY <2>1, RowSets
  <2>3. LogOnce(log, sends')
    BY <2>2 DEF RowInv, LogOnce
  <2> QED BY <2>3 DEF RowInv
<1>3. GapInv'
  <2>1. Living' = Living /\ \A id : Held(id) => Held(id)'
    BY DEF Living, Held
  <2>2. \A pg : PageTold(pg)' <=> PageTold(pg)
    BY DEF PageTold, Living
  <2>3. ASSUME ~outran', loaded PROVE NoGaps'
    <3>1. NoGaps
      BY <2>3 DEF GapInv, Orderly
    <3>2. Showing \cup TakenOut \subseteq Showing' \cup TakenOut'
      BY DEF TakenOut
    <3>3. \A old \in Showing' : old \in Showing \/ \A id \in Living' : old < id => Held(id)'
      BY <2>1, <2>3
    <3>4. \A id \in Living' : Held(id)' \/ (id \in Living /\ ~Held(id))
      BY <2>1
    <3> QED BY <3>1, <3>2, <3>3, <3>4, NoGapsStay DEF NoGaps
  <2>4. ASSUME ~outran' PROVE Orderly'
    BY <2>2, <2>3, <2>4 DEF GapInv, Orderly
  <2> QED BY <2>1, <2>4 DEF GapInv
<1> QED BY <1>1, <1>2, <1>3

\* A row of another send is as sound as before.
LEMMA StillSound ==
  ASSUME RowTypes, NEW n \in 1..MaxSends, NEW v, NEW r \in RowSet, Sound(r, log, sends), r.nonce # n
  PROVE  Sound(r, log, [sends EXCEPT ![n] = v])
<1>1. sends \in SendStates /\ r.nonce \in 0..MaxSends
  BY DEF RowTypes, RowSet
<1>2. r.nonce # 0 => [sends EXCEPT ![n] = v][r.nonce] = sends[r.nonce]
  BY <1>1, RowSets DEF SendStates
<1> QED BY <1>2 DEF Sound

LEMMA RowRange ==
  ASSUME RowTypes
  PROVE  /\ \A i \in DOMAIN rows : rows[i] \in RowSet /\ rows[i] \in Range(rows)
         /\ \A r \in Range(rows) : r \in RowSet /\ \E i \in DOMAIN rows : r = rows[i]
         /\ \A i \in DOMAIN log : log[i] \in 0..MaxSends /\ i \in 1..Len(log)
         /\ Len(log) \in Nat /\ DOMAIN log = 1..Len(log)
<1>1. rows \in Seq(RowSet) /\ log \in Seq(0..MaxSends)
  BY DEF RowTypes
<1>2. \A i \in DOMAIN rows : rows[i] \in RowSet
  BY <1>1
<1>3. (\A i \in DOMAIN log : log[i] \in 0..MaxSends) /\ Len(log) \in Nat /\ DOMAIN log = 1..Len(log)
  <2>1. log \in Seq(0..MaxSends)
    BY <1>1
  <2> DEFINE T == 0..MaxSends
  <2>2. log \in Seq(T)
    BY <2>1
  <2> HIDE DEF T
  <2>3. (\A i \in DOMAIN log : log[i] \in T) /\ Len(log) \in Nat /\ DOMAIN log = 1..Len(log)
    BY <2>2
  <2> QED BY <2>3 DEF T
<1>4. \A r \in Range(rows) : \E i \in DOMAIN rows : r = rows[i]
  BY DEF Range
<1>5. \A i \in DOMAIN rows : rows[i] \in Range(rows)
  BY DEF Range
<1> QED BY <1>2, <1>3, <1>4, <1>5

\* A new send clashes with no row.
LEMMA FreshRow ==
  ASSUME RowTypes, RowInv, NEW n \in 1..MaxSends, sends[n] = "unused"
  PROVE  LET x == [id |-> 0, nonce |-> n, state |-> "sending"] IN
           /\ x \in RowSet /\ \A r \in Range(rows) : ~Clash(r, x, log, overlap) /\ r.nonce # n
           /\ \A id \in DOMAIN log : log[id] # n
<1> DEFINE x == [id |-> 0, nonce |-> n, state |-> "sending"]
<1>1. x \in RowSet /\ x.id = 0 /\ x.nonce = n /\ n # 0
  BY RowSets DEF RowSet
<1>2. \A id \in DOMAIN log : log[id] # n
  BY <1>1 DEF RowInv, LogOnce
<1> HIDE DEF x
<1>3. ASSUME NEW r \in Range(rows) PROVE ~Clash(r, x, log, overlap) /\ r.nonce # n
  <2>1. Sound(r, log, sends) /\ r \in RowSet
    BY <1>3, RowRange DEF RowInv
  <2>2. r.nonce # n
    BY <1>1, <2>1 DEF Sound
  <2>3. r.id # 0 => r.id \in DOMAIN log
    BY <2>1, RowRange, RowSets DEF Sound, RowSet
  <2> QED BY <1>1, <1>2, <2>2, <2>3 DEF Clash, SendIn
<1> QED BY <1>1, <1>2, <1>3 DEF x

\* The message of a placeholder clashes with no other row.
LEMMA SettleRow ==
  ASSUME RowTypes, RowInv, NEW id \in DOMAIN log, log[id] # 0,
         NEW p \in DOMAIN rows, rows[p].nonce = log[id]
  PROVE  LET x == [id |-> id, nonce |-> log[id], state |-> "none"] IN
           /\ x \in RowSet /\ Sound(x, log, sends) /\ rows[p].id \in {0, id}
           /\ \A i \in DOMAIN rows : i # p => ~Clash(rows[i], x, log, overlap) /\ rows[i].nonce # log[id]
<1> DEFINE x == [id |-> id, nonce |-> log[id], state |-> "none"]
<1>0. id # 0 /\ id \in 1..Len(log) /\ id \in 0..MaxMessages /\ log[id] \in 0..MaxSends
  BY RowRange, RowSets DEF RowTypes
<1>1. x \in RowSet /\ x.id = id /\ x.nonce = log[id] /\ x.state = "none" /\ id # 0 /\ id \in 1..Len(log)
  BY <1>0 DEF RowSet
<1>2. Sound(x, log, sends)
  BY <1>1, RowRange DEF RowInv, LogOnce, Sound
<1> HIDE DEF x
<1>3. Sound(rows[p], log, sends) /\ rows[p] \in RowSet
  BY RowRange DEF RowInv
<1>4. SendIn(rows[p], log) = log[id] /\ SendIn(x, log) = log[id]
  BY <1>1, <1>3 DEF SendIn, Sound
<1>5. rows[p].id \in {0, id}
  <2>1. rows[p].id # 0 => rows[p].id \in DOMAIN log
    BY <1>3, RowRange, RowSets DEF Sound, RowSet
  <2> QED BY <1>4, <2>1 DEF RowInv, LogOnce, SendIn
<1>6. ASSUME NEW i \in DOMAIN rows, i # p PROVE ~Clash(rows[i], x, log, overlap) /\ rows[i].nonce # log[id]
  <2>1. ~Clash(rows[i], rows[p], log, overlap)
    BY <1>6 DEF RowInv, NoClash
  <2>2. rows[i].id = id => SendIn(rows[i], log) = log[id]
    BY <1>1 DEF SendIn
  <2> QED BY <1>1, <1>4, <2>1, <2>2 DEF Clash
<1> QED BY <1>1, <1>2, <1>5, <1>6 DEF x

\* So does a message that neither row nor placeholder is there for.
LEMMA JoinRow ==
  ASSUME RowTypes, RowInv, NEW id \in DOMAIN log, \A i \in DOMAIN rows : rows[i].id # id,
         log[id] # 0 => \A i \in DOMAIN rows : ~(rows[i].nonce = log[id] /\ rows[i].state # "none")
  PROVE  LET x == [id |-> id, nonce |-> log[id], state |-> "none"] IN
           /\ x \in RowSet /\ Sound(x, log, sends)
           /\ \A i \in DOMAIN rows : ~Clash(rows[i], x, log, overlap)
<1> DEFINE x == [id |-> id, nonce |-> log[id], state |-> "none"]
<1>0. id # 0 /\ id \in 1..Len(log) /\ id \in 0..MaxMessages /\ log[id] \in 0..MaxSends
  BY RowRange, RowSets DEF RowTypes
<1>1. x \in RowSet /\ x.id = id /\ x.nonce = log[id] /\ x.state = "none" /\ id # 0 /\ id \in 1..Len(log)
  BY <1>0 DEF RowSet
<1>2. Sound(x, log, sends)
  BY <1>1, RowRange DEF RowInv, LogOnce, Sound
<1> HIDE DEF x
<1>3. ASSUME NEW i \in DOMAIN rows PROVE ~Clash(rows[i], x, log, overlap)
  <2> DEFINE r == rows[i]
  <2>1. Sound(r, log, sends) /\ r \in RowSet /\ r.id # id
    BY RowRange DEF RowInv
  <2>2. r.id # 0 => r.id \in DOMAIN log
    BY <2>1, RowRange, RowSets DEF Sound, RowSet
  <2>3. log[id] # 0 => ~(r.nonce = log[id] /\ r.state # "none")
    OBVIOUS
  <2>4. r.id # 0 /\ log[r.id] = log[id] => log[id] = 0
    BY <2>1, <2>2 DEF RowInv, LogOnce
  <2> HIDE DEF r
  <2>5. r.nonce = log[id] => log[id] = 0
    BY <2>1, <2>3, <2>4 DEF Sound
  <2>6. SendIn(r, log) = log[id] => log[id] = 0
    BY <2>1, <2>3, <2>4 DEF Sound, SendIn
  <2>7. SendIn(x, log) = log[id]
    BY <1>1 DEF SendIn
  <2> QED BY <1>1, <2>1, <2>5, <2>6, <2>7 DEF Clash, r
<1> QED BY <1>1, <1>2, <1>3 DEF x

-----------------------------------------------------------------------------
\* The user sends.
LEMMA RowSendKeeps ==
  ASSUME RowTypes, RowInv, GapInv, NEW n \in 1..MaxSends, Rows!Send(n)
  PROVE  RowTypes' /\ RowInv' /\ GapInv'
<1> DEFINE x == [id |-> 0, nonce |-> n, state |-> "sending"]
<1>1. /\ sends[n] = "unused" /\ rows' = Append(rows, x) /\ sends' = [sends EXCEPT ![n] = "waiting"]
      /\ UNCHANGED <<loaded, load, more, deletes, log, gone, posts, discarded, outran, overlap>>
  BY RowSets DEF Rows!Send, Rows!Place, Rows!serverVars
<1>2. x \in RowSet /\ (\A r \in Range(rows) : ~Clash(r, x, log, overlap) /\ r.nonce # n)
      /\ \A id \in DOMAIN log : log[id] # n
  BY <1>1, FreshRow
<1>3. x.id = 0 /\ x.nonce = n /\ n # 0 /\ x.state = "sending"
  BY RowSets
<1> HIDE DEF x
<1>4. rows' \in Seq(RowSet) /\ Range(rows') = Range(rows) \cup {x} /\ NoClash(rows', log, overlap)
  <2>1. rows \in Seq(RowSet) /\ NoClash(rows, log, overlap) /\ \A i \in DOMAIN rows : ~Clash(rows[i], x, log, overlap)
    BY <1>2, RowRange DEF RowTypes, RowInv
  <2> QED BY <1>1, <1>2, <2>1, AddKeeps
<1>5. sends' \in SendStates /\ \A k \in 1..MaxSends : sends'[k] = IF k = n THEN "waiting" ELSE sends[k]
  BY <1>1 DEF RowTypes, SendStates
<1>6. \A r \in Range(rows') : Sound(r, log, sends')
  <2>1. Sound(x, log, sends')
    BY <1>3, <1>5, RowRange DEF Sound
  <2>2. \A r \in Range(rows) : Sound(r, log, sends')
    BY <1>1, <1>2, RowRange, StillSound DEF RowInv
  <2> QED BY <1>4, <2>1, <2>2
<1>7. Showing' = Showing
  BY <1>3, <1>4 DEF Showing
<1>8. \A r \in Range(rows'), id \in DOMAIN log : r.id = 0 /\ log[id] = r.nonce => r \in Range(rows)
  BY <1>2, <1>3, <1>4
<1>9. deletes \subseteq RowIds /\ discarded \subseteq RowIds /\ outran \in BOOLEAN
  BY DEF RowTypes
<1>10. ~outran => \A r \in Range(rows'), id \in DOMAIN log : r.id = 0 /\ log[id] = r.nonce => Waits(posts, id)
  BY <1>8 DEF GapInv, Orderly
<1> QED BY <1>1, <1>4, <1>5, <1>6, <1>7, <1>9, <1>10, UserStep

\* His request fails: a row of it is marked.
LEMMA RowFailKeeps ==
  ASSUME RowTypes, RowInv, GapInv, NEW n \in 1..MaxSends, Rows!Fail(n)
  PROVE  RowTypes' /\ RowInv' /\ GapInv'
<1>1. /\ sends[n] = "waiting" /\ sends' = [sends EXCEPT ![n] = "failed"]
      /\ UNCHANGED <<loaded, load, more, deletes, log, gone, posts, discarded, outran, overlap>>
  BY DEF Rows!Fail, Rows!serverVars
<1>2. sends' \in SendStates /\ \A k \in 1..MaxSends : sends'[k] = IF k = n THEN "failed" ELSE sends[k]
  BY <1>1 DEF RowTypes, SendStates
<1>3. /\ rows' \in Seq(RowSet) /\ NoClash(rows', log, overlap) /\ \A r \in Range(rows') : Sound(r, log, sends')
      /\ Showing' = Showing
      /\ \A r \in Range(rows') : r.id = 0 => \E t \in Range(rows) : t.id = 0 /\ t.nonce = r.nonce
  <2>1. CASE rows' = rows /\ \A i \in DOMAIN rows : rows[i].nonce # n
    <3>1. ASSUME NEW r \in Range(rows) PROVE Sound(r, log, sends')
      <4>1. Sound(r, log, sends) /\ r.nonce # n
        BY <2>1 DEF RowInv, Range
      <4> QED BY <1>1, <4>1, RowRange, StillSound
    <3> QED BY <2>1, <3>1 DEF RowTypes, RowInv, Showing
  <2>2. CASE \E p \in DOMAIN rows : rows[p].nonce = n /\ rows' = [rows EXCEPT ![p].state = "failed"]
    <3>1. PICK p \in DOMAIN rows : rows[p].nonce = n /\ rows' = [rows EXCEPT ![p].state = "failed"]
      BY <2>2
    <3> DEFINE x == [rows[p] EXCEPT !.state = "failed"]
    <3>2. x \in RowSet /\ x.id = rows[p].id /\ x.nonce = rows[p].nonce /\ x.state = "failed" /\ rows[p] \in Range(rows)
      BY RowRange DEF RowSet
    <3>3. rows' = [rows EXCEPT ![p] = x]
      BY <3>1
    <3> HIDE DEF x
    <3>4. \A i \in DOMAIN rows : i # p => ~Clash(rows[i], x, log, overlap) /\ rows[i].nonce # n
      <4>1. ASSUME NEW i \in DOMAIN rows, i # p PROVE ~Clash(rows[i], x, log, overlap) /\ rows[i].nonce # n
        <5>1. ~Clash(rows[i], rows[p], log, overlap)
          BY <4>1 DEF RowInv, NoClash
        <5> QED BY <3>1, <3>2, <5>1, RowSets DEF Clash, SendIn
      <4> QED BY <4>1
    <3>5. rows \in Seq(RowSet) /\ NoClash(rows, log, overlap)
      BY DEF RowTypes, RowInv
    <3>6. /\ rows' \in Seq(RowSet) /\ NoClash(rows', log, overlap) /\ x \in Range(rows')
          /\ \A y \in Range(rows') : y = x \/ \E i \in DOMAIN rows : i # p /\ y = rows[i]
          /\ \A y \in Range(rows) : y = rows[p] \/ y \in Range(rows')
      <4>1. \A i \in DOMAIN rows : i # p => ~Clash(rows[i], x, log, overlap)
        BY <3>4
      <4> QED BY <3>2, <3>3, <3>5, <4>1, PutKeeps
    <3>7. Sound(x, log, sends')
      <4>1. Sound(rows[p], log, sends)
        BY <3>2 DEF RowInv
      <4> QED BY <1>2, <3>1, <3>2, <4>1, RowSets DEF Sound
    <3>8. \A i \in DOMAIN rows : i # p => Sound(rows[i], log, sends')
      BY <1>1, <3>4, RowRange, StillSound DEF RowInv
    <3>9. \A r \in Range(rows') : Sound(r, log, sends')
      BY <3>6, <3>7, <3>8
    <3>10. Showing' = Showing
      BY <3>2, <3>6, RowRange DEF Showing
    <3>11. \A r \in Range(rows') : r.id = 0 => \E t \in Range(rows) : t.id = 0 /\ t.nonce = r.nonce
      BY <3>2, <3>6, RowRange
    <3> QED BY <3>6, <3>9, <3>10, <3>11
  <2> QED BY <2>1, <2>2, FailMarks
<1>4. deletes \subseteq RowIds /\ discarded \subseteq RowIds /\ outran \in BOOLEAN
  BY DEF RowTypes
<1>5. ~outran => \A r \in Range(rows'), id \in DOMAIN log : r.id = 0 /\ log[id] = r.nonce => Waits(posts, id)
  BY <1>3 DEF GapInv, Orderly
<1>6. \A k \in 1..MaxSends : sends[k] # "unused" => sends'[k] # "unused"
  BY <1>2
<1> QED BY <1>1, <1>2, <1>3, <1>4, <1>5, <1>6, UserStep

\* He tries again: the failed placeholder goes and another comes.
LEMMA RowRetryKeeps ==
  ASSUME RowTypes, RowInv, GapInv, NEW n \in 1..MaxSends, NEW again \in 1..MaxSends, Rows!Retry(n, again)
  PROVE  RowTypes' /\ RowInv' /\ GapInv'
<1> DEFINE x == [id |-> 0, nonce |-> again, state |-> "sending"]
           W == {r \in Range(rows) : r.nonce # n}
           s == Kept(rows, W)
<1>1. /\ sends[again] = "unused" /\ rows' = Append(s, x)
      /\ sends' = [sends EXCEPT ![n] = "dropped", ![again] = "waiting"]
      /\ UNCHANGED <<loaded, load, more, deletes, log, gone, posts, discarded, outran, overlap>>
  BY RowSets, RowLists DEF Rows!Retry, Rows!Place, Rows!Without, Rows!serverVars
<1>2. PICK p \in DOMAIN rows : rows[p].id = 0 /\ rows[p].nonce = n
  BY RowSets DEF Rows!Retry
<1>3. x \in RowSet /\ (\A r \in Range(rows) : ~Clash(r, x, log, overlap) /\ r.nonce # again)
      /\ \A id \in DOMAIN log : log[id] # again
  BY <1>1, FreshRow
<1>4. x.id = 0 /\ x.nonce = again /\ n # 0 /\ again # 0 /\ x.state = "sending" /\ n # again
  BY <1>2, <1>3, RowSets, RowRange
<1> HIDE DEF x
<1>5. s \in Seq(RowSet) /\ Range(s) = W /\ NoClash(s, log, overlap)
  <2>1. rows \in Seq(RowSet) /\ NoClash(rows, log, overlap)
    BY DEF RowTypes, RowInv
  <2>2. Range(rows) \cap W = W
    OBVIOUS
  <2> HIDE DEF W
  <2> QED BY <2>1, <2>2, ThinKeeps
<1> HIDE DEF s
<1>6. rows' \in Seq(RowSet) /\ Range(rows') = W \cup {x} /\ NoClash(rows', log, overlap)
  <2>1. \A i \in DOMAIN s : s[i] \in Range(s)
    BY DEF Range
  <2>2. \A i \in DOMAIN s : ~Clash(s[i], x, log, overlap)
    BY <1>3, <1>5, <2>1
  <2> HIDE DEF W
  <2> QED BY <1>1, <1>3, <1>5, <2>2, AddKeeps
<1>7. /\ sends' \in SendStates
      /\ \A k \in 1..MaxSends : sends'[k] = IF k = again THEN "waiting" ELSE IF k = n THEN "dropped" ELSE sends[k]
  BY <1>1 DEF RowTypes, SendStates
<1>8. \A r \in Range(rows') : Sound(r, log, sends')
  <2>1. Sound(x, log, sends')
    BY <1>4, <1>7, RowRange DEF Sound
  <2>2. ASSUME NEW r \in W PROVE Sound(r, log, sends')
    <3>1. r \in RowSet /\ r.nonce # n /\ r.nonce # again /\ Sound(r, log, sends)
      BY <1>3, RowRange DEF RowInv
    <3>2. r.nonce # 0 => sends'[r.nonce] = sends[r.nonce]
      BY <1>7, <3>1, RowSets DEF RowSet
    <3> QED BY <3>1, <3>2 DEF Sound
  <2> QED BY <1>6, <2>1, <2>2
<1>9. Showing' = Showing
  <2>1. \A r \in Range(rows) : r.nonce = n => r.id = 0
    <3>1. ASSUME NEW i \in DOMAIN rows, rows[i].nonce = n PROVE rows[i].id = 0
      BY <1>2, <1>4, <3>1 DEF RowInv, NoClash, Clash
    <3> QED BY <3>1, RowRange
  <2> QED BY <1>4, <1>6, <2>1 DEF Showing
<1>10. ~outran => \A r \in Range(rows'), id \in DOMAIN log : r.id = 0 /\ log[id] = r.nonce => Waits(posts, id)
  <2>1. \A r \in Range(rows'), id \in DOMAIN log : log[id] = r.nonce => r \in Range(rows)
    BY <1>3, <1>4, <1>6
  <2> QED BY <2>1 DEF GapInv, Orderly
<1>11. deletes \subseteq RowIds /\ discarded \subseteq RowIds /\ outran \in BOOLEAN
  BY DEF RowTypes
<1>12. \A k \in 1..MaxSends : sends[k] # "unused" => sends'[k] # "unused"
  BY <1>7
<1> QED BY <1>1, <1>6, <1>7, <1>8, <1>9, <1>10, <1>11, <1>12, UserStep

\* Rows are taken out for good, and those of messages are remembered.
LEMMA TakeOutKeeps ==
  ASSUME RowTypes, RowInv, GapInv, NEW W \in SUBSET Range(rows), rows' = Kept(rows, W),
         UNCHANGED <<loaded, load, more, log, gone, posts, outran, overlap>>,
         sends' \in SendStates, \A n \in 1..MaxSends : sends[n] # "unused" => sends'[n] # "unused",
         \A r \in W : Sound(r, log, sends'), deletes' \subseteq RowIds, discarded' \subseteq RowIds,
         deletes \cup discarded \subseteq deletes' \cup discarded',
         \A r \in Range(rows) : r \in W \/ r.id = 0 \/ r.id \in deletes' \cup discarded'
  PROVE  RowTypes' /\ RowInv' /\ GapInv'
<1>1. rows \in Seq(RowSet) /\ NoClash(rows, log, overlap) /\ Range(rows) \cap W = W /\ outran \in BOOLEAN
  BY DEF RowTypes, RowInv
<1>2. rows' \in Seq(RowSet) /\ Range(rows') = W /\ NoClash(rows', log, overlap)
  BY <1>1, ThinKeeps
<1>3. Showing' \subseteq Showing /\ Showing \subseteq Showing' \cup deletes' \cup discarded'
  BY <1>2 DEF Showing
<1>4. ~outran => \A r \in Range(rows'), id \in DOMAIN log : r.id = 0 /\ log[id] = r.nonce => Waits(posts, id)
  BY <1>2 DEF GapInv, Orderly
<1> QED BY <1>1, <1>2, <1>3, <1>4, UserStep

LEMMA RowTakesKeep ==
  ASSUME RowTypes, RowInv, GapInv,
         \/ \E n \in 1..MaxSends : Rows!DropPending(n)
         \/ \E id \in RowIds : Rows!Delete(id) \/ Rows!FailDelete(id)
  PROVE  RowTypes' /\ RowInv' /\ GapInv'
<1>1. ASSUME NEW n \in 1..MaxSends, Rows!DropPending(n) PROVE RowTypes' /\ RowInv' /\ GapInv'
  <2> DEFINE W == {r \in Range(rows) : r.nonce # n}
             D == {rows[i].id : i \in {j \in DOMAIN rows : rows[j].nonce = n}} \ {0}
  <2>1. /\ rows' = Kept(rows, W) /\ sends' = [sends EXCEPT ![n] = "dropped"] /\ discarded' = discarded \cup D
        /\ UNCHANGED <<loaded, load, more, deletes, log, gone, posts, outran, overlap>>
    BY <1>1, RowLists DEF Rows!DropPending, Rows!Without, Rows!serverVars
  <2>2. PICK p \in DOMAIN rows : rows[p].nonce = n /\ rows[p].state = "failed"
    BY <1>1 DEF Rows!DropPending
  <2>3. sends' \in SendStates /\ \A k \in 1..MaxSends : sends'[k] = IF k = n THEN "dropped" ELSE sends[k]
    BY <2>1 DEF RowTypes, SendStates
  <2>4. \A k \in 1..MaxSends : sends[k] # "unused" => sends'[k] # "unused"
    BY <2>3
  <2>5. \A r \in W : Sound(r, log, sends')
    BY <1>1, <2>1, RowRange, StillSound DEF RowInv
  <2>6. \A r \in Range(rows) : r \in W \/ r.id = 0 \/ r.id \in D
    BY RowRange
  <2>7. D \subseteq RowIds
    BY RowRange, RowSets DEF RowSet, RowIds
  <2>8. deletes \subseteq RowIds /\ discarded \subseteq RowIds /\ W \in SUBSET Range(rows)
    BY DEF RowTypes
  <2> HIDE DEF W, D
  <2> QED BY <2>1, <2>3, <2>4, <2>5, <2>6, <2>7, <2>8, TakeOutKeeps
<1>2. ASSUME NEW id \in RowIds, Rows!Delete(id) PROVE RowTypes' /\ RowInv' /\ GapInv'
  <2> DEFINE W == {r \in Range(rows) : r.id # id}
  <2>1. /\ rows' = Kept(rows, W) /\ deletes' = deletes \cup {id}
        /\ UNCHANGED <<loaded, load, more, sends, log, gone, posts, discarded, outran, overlap>>
    BY <1>2, RowLists DEF Rows!Delete, Rows!serverVars
  <2>2. \A r \in W : Sound(r, log, sends')
    BY <2>1 DEF RowInv
  <2>3. deletes \subseteq RowIds /\ discarded \subseteq RowIds /\ W \in SUBSET Range(rows) /\ sends \in SendStates
    BY DEF RowTypes
  <2>4. \A r \in Range(rows) : r \in W \/ r.id = id
    OBVIOUS
  <2> HIDE DEF W
  <2> QED BY <2>1, <2>2, <2>3, <2>4, TakeOutKeeps
<1>3. ASSUME NEW id \in RowIds, Rows!FailDelete(id) PROVE RowTypes' /\ RowInv' /\ GapInv'
  <2>1. /\ deletes' = deletes \ {id} /\ discarded' = discarded \cup {id}
        /\ UNCHANGED <<rows, loaded, load, more, sends, log, gone, posts, outran, overlap>>
    BY <1>3 DEF Rows!FailDelete, Rows!serverVars
  <2>2. Showing' = Showing
    BY <2>1 DEF Showing
  <2>3. rows \in Seq(RowSet) /\ sends \in SendStates /\ outran \in BOOLEAN
        /\ deletes' \subseteq RowIds /\ discarded' \subseteq RowIds
    BY <2>1 DEF RowTypes
  <2>4. NoClash(rows, log, overlap) /\ \A r \in Range(rows) : Sound(r, log, sends)
    BY DEF RowInv
  <2>5. ~outran => \A r \in Range(rows), k \in DOMAIN log : r.id = 0 /\ log[k] = r.nonce => Waits(posts, k)
    BY DEF GapInv, Orderly
  <2> QED BY <2>1, <2>2, <2>3, <2>4, <2>5, UserStep
<1> QED BY <1>1, <1>2, <1>3

\* The answer of a send: its placeholder becomes the message, or goes when the
\* message is there.
LEMMA RowConfirmKeeps ==
  ASSUME RowTypes, RowInv, GapInv, NEW n \in 1..MaxSends, Rows!Confirm(n)
  PROVE  RowTypes' /\ RowInv' /\ GapInv'
<1>1. /\ sends[n] = "waiting" /\ sends' = [sends EXCEPT ![n] = "ok"]
      /\ UNCHANGED <<loaded, load, more, deletes, log, gone, posts, discarded, overlap>>
  BY DEF Rows!Confirm, Rows!serverVars
<1>2. PICK id \in DOMAIN log : log[id] = n /\ Rows!Reconcile(n, id) /\ outran' = (outran \/ Rows!Belated(n, id))
  BY DEF Rows!Confirm
<1> DEFINE x == [id |-> id, nonce |-> log[id], state |-> "none"]
           p == Rows!Unsent(n)
           q == Rows!Real(id)
<1>3. /\ sends' \in SendStates /\ \A k \in 1..MaxSends : sends'[k] = IF k = n THEN "ok" ELSE sends[k]
      /\ \A k \in 1..MaxSends : sends[k] # "unused" => sends'[k] # "unused"
  BY <1>1 DEF RowTypes, SendStates
<1>4. n # 0 /\ id # 0 /\ id \in 1..Len(log) /\ Len(log) \in Nat
  BY RowSets, RowRange
<1>5. deletes \subseteq RowIds /\ discarded \subseteq RowIds /\ outran' \in BOOLEAN /\ (outran => outran')
      /\ rows \in Seq(RowSet) /\ NoClash(rows, log, overlap)
  BY <1>2 DEF RowTypes, RowInv
<1>6. \A r \in Range(rows) : Sound(r, log, sends) /\ (r.nonce # n => Sound(r, log, sends')) /\ r \in RowSet
  BY <1>1, RowRange, StillSound DEF RowInv
<1>7. ~outran => \A r \in Range(rows), k \in DOMAIN log : r.id = 0 /\ log[k] = r.nonce => Waits(posts, k)
  BY DEF GapInv, Orderly
<1>8. x.id = id /\ x.nonce = n /\ x.state = "none" /\ (Sound(x, log, sends) => Sound(x, log, sends'))
  BY <1>2, <1>3 DEF Sound
<1> HIDE DEF x, p, q
<1>9. CASE p # 0
  <2>1. p \in DOMAIN rows /\ rows[p].nonce = n
    BY <1>9, UnsentIs DEF p
  <2>2. /\ x \in RowSet /\ Sound(x, log, sends) /\ rows[p].id \in {0, id}
        /\ \A i \in DOMAIN rows : i # p => ~Clash(rows[i], x, log, overlap) /\ rows[i].nonce # n
    BY <1>2, <1>4, <2>1, SettleRow DEF x
  <2>3. CASE q \notin {0, p}
    <3>1. q \in DOMAIN rows /\ rows[q].id = id
      BY <2>3, RealIs DEF q
    <3>2. rows' = Rows!RemoveAt(rows, p)
      BY <1>2, <1>9, <2>3 DEF Rows!Reconcile, p, q
    <3>3. /\ rows' \in Seq(RowSet) /\ NoClash(rows', log, overlap)
          /\ \A y \in Range(rows') : \E i \in DOMAIN rows : i # p /\ y = rows[i]
          /\ \A y \in Range(rows) : y # rows[p] => y \in Range(rows')
      BY <1>5, <2>1, <3>2, DropKeeps
    <3>4. \A y \in Range(rows') : y \in Range(rows) /\ y.nonce # n
      BY <2>2, <3>3, RowRange
    <3>5. rows[q] \in Range(rows')
      BY <2>1, <2>2, <2>3, <3>1, <3>3, RowRange
    <3>6. Showing' = Showing
      BY <2>2, <3>1, <3>3, <3>4, <3>5 DEF Showing
    <3>7. \A r \in Range(rows') : Sound(r, log, sends')
      BY <1>6, <3>4
    <3>8. ~outran' => \A r \in Range(rows'), k \in DOMAIN log : r.id = 0 /\ log[k] = r.nonce => Waits(posts, k)
      BY <1>5, <1>7, <3>4
    <3> QED BY <1>1, <1>3, <1>5, <3>3, <3>6, <3>7, <3>8, UserStep
  <2>4. CASE q \in {0, p}
    <3>1. rows' = [rows EXCEPT ![p] = x]
      BY <1>2, <1>9, <2>4, RowSets DEF Rows!Reconcile, p, q, x
    <3>2. \A i \in DOMAIN rows : i # p => ~Clash(rows[i], x, log, overlap)
      BY <2>2
    <3>3. /\ rows' \in Seq(RowSet) /\ NoClash(rows', log, overlap)
          /\ x \in Range(rows') /\ \A y \in Range(rows') : y = x \/ \E i \in DOMAIN rows : i # p /\ y = rows[i]
          /\ \A y \in Range(rows) : y = rows[p] \/ y \in Range(rows')
      BY <1>5, <2>1, <2>2, <3>1, <3>2, PutKeeps
    <3>4. \A y \in Range(rows') : y = x \/ (y \in Range(rows) /\ y.nonce # n)
      BY <2>2, <3>3, RowRange
    <3>5. Showing' = Showing \cup {id}
      BY <1>4, <1>8, <2>2, <3>3, <3>4 DEF Showing
    <3>6. \A r \in Range(rows') : Sound(r, log, sends')
      BY <1>6, <1>8, <2>2, <3>4
    <3>7. ~outran' => \A r \in Range(rows'), k \in DOMAIN log : r.id = 0 /\ log[k] = r.nonce => Waits(posts, k)
      BY <1>4, <1>5, <1>7, <1>8, <3>4
    <3>8. ~outran' => \A old \in Showing' : old \in Showing \/ (loaded => \A k \in Living : old < k => Held(k))
      <4> SUFFICES ASSUME ~outran', id \notin Showing, NEW k \in Living, id < k PROVE Held(k)
        BY <3>5
      <4>1. rows[p] \in Range(rows) /\ rows[p].id = 0
        BY <1>4, <2>1, <2>2, RowRange DEF Showing
      <4>2. Waits(posts, id)
        BY <1>2, <1>5, <1>7, <2>1, <4>1
      <4>3. k \in 1..Len(log)
        BY DEF Living
      <4>4. Waits(posts, k)
        BY <1>5, <4>2, <4>3 DEF Waits, InTurn, GapInv, Orderly
      <4> QED BY <4>4 DEF Held
    <3> QED BY <1>1, <1>3, <1>5, <3>3, <3>5, <3>6, <3>7, <3>8, UserStep
  <2> QED BY <2>3, <2>4
<1>10. CASE p = 0
  <2>1. \A i \in DOMAIN rows : ~(rows[i].nonce = n /\ rows[i].state # "none")
    BY <1>10, UnsentIs DEF p
  <2>2. CASE q # 0
    <3>1. rows' = rows
      BY <1>2, <1>10, <2>2 DEF Rows!Reconcile, p, q
    <3>2. \A r \in Range(rows') : Sound(r, log, sends')
      BY <1>3, <1>4, <1>6, <2>1, <3>1, RowRange DEF Sound
    <3>3. Showing' = Showing
      BY <3>1 DEF Showing
    <3>4. ~outran' => \A r \in Range(rows'), k \in DOMAIN log : r.id = 0 /\ log[k] = r.nonce => Waits(posts, k)
      BY <1>5, <1>7, <3>1
    <3> QED BY <1>1, <1>3, <1>5, <3>1, <3>2, <3>3, <3>4, UserStep
  <2>3. CASE q = 0
    <3>1. rows' = Append(rows, x)
      BY <1>2, <1>10, <2>3, RowSets DEF Rows!Reconcile, p, q, x
    <3>2. \A i \in DOMAIN rows : rows[i].id # id
      <4> SUFFICES ASSUME NEW i \in DOMAIN rows, rows[i].id = id PROVE FALSE
        OBVIOUS
      <4>1. rows[i].state # "none"
        BY <2>3, RealIs DEF q
      <4>2. Sound(rows[i], log, sends)
        BY <1>6, RowRange
      <4> QED BY <1>2, <1>4, <2>1, <4>1, <4>2 DEF Sound
    <3>3. x \in RowSet /\ Sound(x, log, sends) /\ \A i \in DOMAIN rows : ~Clash(rows[i], x, log, overlap)
      BY <1>2, <2>1, <3>2, JoinRow DEF x
    <3>4. rows' \in Seq(RowSet) /\ Range(rows') = Range(rows) \cup {x} /\ NoClash(rows', log, overlap)
      BY <1>5, <3>1, <3>3, AddKeeps
    <3>5. Showing' = Showing \cup {id}
      BY <1>4, <1>8, <3>4 DEF Showing
    <3>6. \A r \in Range(rows') : Sound(r, log, sends')
      BY <1>3, <1>4, <1>6, <1>8, <2>1, <3>3, <3>4, RowRange DEF Sound
    <3>7. ~outran' => \A r \in Range(rows'), k \in DOMAIN log : r.id = 0 /\ log[k] = r.nonce => Waits(posts, k)
      BY <1>4, <1>5, <1>7, <1>8, <3>4
    <3>8. ~outran' => \A old \in Showing' : old \in Showing \/ (loaded => \A k \in Living : old < k => Held(k))
      <4> SUFFICES ASSUME ~outran', loaded, NEW k \in Living, id < k PROVE Held(k)
        BY <3>5
      <4>1. ~outran /\ ~Rows!Belated(n, id)
        BY <1>2
      <4>2. \A other \in Showing \cup TakenOut : ~(other > id)
        BY <1>10, <2>3, <4>1, RowNames DEF Rows!Belated, p, q
      <4>3. Held(k) \/ \E other \in Showing \cup TakenOut : k < other
        BY <4>1 DEF GapInv, Orderly, NoGaps
      <4>4. \A other \in Showing \cup TakenOut : other \in Nat
        <5>1. \A other \in Showing : other \in Nat
          BY <1>6 DEF Showing, RowSet
        <5>2. \A other \in TakenOut : other \in Nat
          BY <1>5 DEF TakenOut, RowTypes, RowIds
        <5> QED BY <5>1, <5>2
      <4>5. k \in Nat /\ id \in Nat
        BY <1>4 DEF Living
      <4>6. \A other \in Nat : k < other => other > id
        BY <4>5
      <4> QED BY <4>2, <4>3, <4>4, <4>6
    <3> QED BY <1>1, <1>3, <1>5, <3>4, <3>5, <3>6, <3>7, <3>8, UserStep
  <2> QED BY <2>2, <2>3
<1> QED BY <1>9, <1>10

-----------------------------------------------------------------------------
\* The page below b holds the newest of what lives there.
LEMMA RowPage ==
  ASSUME RowTypes, NEW b \in Nat
  PROVE  LET page == Rows!Page(b) IN
           /\ page \in Seq(RowIds) /\ Range(page) \subseteq DOMAIN log /\ Once(page)
           /\ \A old \in Range(page) :
                old < b /\ \A id \in Living : id < b /\ old < id => id \in Range(page)
           /\ \A id \in Living : id < b => id \in Range(page) \/ \E other \in Range(page) : id < other
<1> DEFINE below == {id \in Living : id < b}
           Above(id) == {j \in below : j > id}
           newest == {id \in below : Cardinality(Above(id)) < Limit}
           page == Rows!Page(b)
<1>1. page = Ascending(newest)
  BY RowNames, RowLists DEF Rows!Page
<1>2. /\ Living \in SUBSET (1..Len(log)) /\ 1..Len(log) \in SUBSET Nat /\ Len(log) \in Nat
      /\ DOMAIN log = 1..Len(log) /\ 1..Len(log) \in SUBSET RowIds
  BY RowRange, RowSets DEF Living, RowTypes, RowIds
<1>3. IsFiniteSet(1..Len(log))
  BY <1>2, FS_Interval
<1>4. below \in SUBSET (1..Len(log)) /\ below \in SUBSET Nat /\ IsFiniteSet(below)
  BY <1>2, <1>3, FS_Subset
<1>5. newest \in SUBSET below /\ newest \in SUBSET Nat /\ IsFiniteSet(newest)
  BY <1>4, FS_Subset
<1>6. page \in Seq(newest) /\ Range(page) = newest /\ Once(page)
  <2> DEFINE n == Cardinality(newest)
  <2> HIDE DEF newest, page
  <2>1. /\ page \in [1..n -> newest] /\ n \in Nat
        /\ \A i, j \in 1..n : page[i] = page[j] => i = j
        /\ \A y \in newest : \E i \in 1..n : page[i] = y
    BY <1>1, <1>5, AscendingIs
  <2> HIDE DEF n
  <2>2. page \in Seq(newest)
    BY <2>1
  <2> QED BY <2>1, <2>2 DEF Range, Once
<1>7. page \in Seq(RowIds)
  <2> HIDE DEF page, newest
  <2>1. newest \in SUBSET RowIds
    BY <1>2, <1>4, <1>5
  <2> QED BY <1>6, <2>1
<1>8. ASSUME NEW old \in newest, NEW id \in Living, id < b, old < id PROVE id \in newest
  <2>1. id \in below /\ old \in Nat /\ id \in Nat
    BY <1>2, <1>5, <1>8
  <2>2. \A j \in Nat : j > id => j > old
    BY <1>8, <2>1
  <2>3. Above(id) \in SUBSET Above(old) /\ Above(old) \in SUBSET below
    BY <1>4, <2>2
  <2>4. IsFiniteSet(Above(old)) /\ IsFiniteSet(Above(id))
    BY <1>4, <2>3, FS_Subset
  <2>5. Cardinality(Above(id)) <= Cardinality(Above(old)) /\ Cardinality(Above(id)) \in Nat /\ Cardinality(Above(old)) \in Nat
    BY <2>3, <2>4, FS_Subset, FS_CardinalityType
  <2>6. Cardinality(Above(old)) < Limit
    OBVIOUS
  <2> HIDE DEF Above
  <2>7. Cardinality(Above(id)) < Limit
    BY <2>5, <2>6, RowSets
  <2> QED BY <2>1, <2>7
<1>9. ASSUME NEW id \in Living, id < b PROVE id \in newest \/ \E other \in newest : id < other
  <2>1. id \in below
    BY <1>9
  <2>2. PICK m \in below : \A k \in below : m >= k
    <3> HIDE DEF below
    <3> QED BY <1>4, <2>1, GreatestNatural
  <2>3. Above(m) = {}
    <3>1. \A k \in below : ~(k > m)
      BY <1>4, <2>2
    <3> QED BY <3>1
  <2>4. Cardinality(Above(m)) = 0
    BY <2>3, FS_EmptySet
  <2>5. m \in newest
    BY <2>4, RowSets
  <2>6. id = m \/ id < m
    BY <1>4, <2>1, <2>2
  <2> QED BY <2>5, <2>6
<1>10. \A old \in newest : old < b
  BY <1>5
<1> HIDE DEF page, newest, below
<1> QED BY <1>2, <1>4, <1>5, <1>6, <1>7, <1>8, <1>9, <1>10 DEF page

-----------------------------------------------------------------------------
\* A load moves on.
LEMMA LoadStep ==
  ASSUME RowTypes, RowInv, GapInv, NEW l \in Histories, NEW s \in PageSlots, load' = [load EXCEPT ![l] = s],
         UNCHANGED <<rows, loaded, more, sends, deletes, log, gone, posts, discarded, outran, overlap>>,
         Range(s.page) \subseteq DOMAIN log, Once(s.page), s.step = "answered" => PageTold(s.page)
  PROVE  RowTypes' /\ RowInv' /\ GapInv'
<1>1. \A k \in Histories : load'[k] = IF k = l THEN s ELSE load[k]
  BY DEF RowTypes
<1>2. RowTypes'
  BY DEF RowTypes
<1>3. RowInv'
  BY <1>1 DEF RowInv
<1>4. Living' = Living /\ Showing' = Showing /\ TakenOut' = TakenOut /\ \A id : Held(id)' <=> Held(id)
  BY DEF Living, Showing, TakenOut, Held
<1>5. \A pg : PageTold(pg)' <=> PageTold(pg)
  BY <1>4 DEF PageTold
<1>6. NoGaps' <=> NoGaps
  BY <1>4 DEF NoGaps
<1>7. Orderly => Orderly'
  BY <1>1, <1>5, <1>6 DEF Orderly
<1> QED BY <1>2, <1>3, <1>4, <1>7 DEF GapInv

\* The loadMore moves on.
LEMMA MoreStep ==
  ASSUME RowTypes, RowInv, GapInv, NEW s \in PageSlots, more' = s,
         UNCHANGED <<rows, loaded, load, sends, deletes, log, gone, posts, discarded, outran, overlap>>,
         Range(s.page) \subseteq DOMAIN log, Once(s.page), s.before <= Len(log),
         \A old \in Range(s.page) :
           old < s.before /\ \A id \in Living : id < s.before /\ old < id => id \in Range(s.page),
         ~outran /\ loaded /\ s.step # "idle" /\ ~s.stale /\ s.before # 0 =>
           \A id \in Living : s.before <= id => Held(id)
  PROVE  RowTypes' /\ RowInv' /\ GapInv'
<1>1. RowTypes'
  BY DEF RowTypes
<1>2. RowInv'
  BY DEF RowInv
<1>3. Living' = Living /\ Showing' = Showing /\ TakenOut' = TakenOut /\ \A id : Held(id)' <=> Held(id)
  BY DEF Living, Showing, TakenOut, Held
<1>4. \A pg : PageTold(pg)' <=> PageTold(pg)
  BY <1>3 DEF PageTold
<1>5. ~outran /\ loaded /\ NoGaps => NoGaps'
  BY <1>3 DEF NoGaps
<1>6. ~outran /\ Orderly => Orderly'
  BY <1>4, <1>5 DEF Orderly
<1> QED BY <1>1, <1>2, <1>3, <1>6 DEF GapInv

LEMMA RowRequestsKeep ==
  ASSUME RowTypes, RowInv, GapInv,
         \/ \E l \in Histories : Rows!AskLoad(l) \/ Rows!ServeLoad(l) \/ Rows!FailLoad(l)
         \/ Rows!AskMore \/ Rows!ServeMore \/ Rows!FailMore
  PROVE  RowTypes' /\ RowInv' /\ GapInv'
<1>1. Range(<<>>) = {} /\ Once(<<>>)
  BY DEF Range, Once
<1>2. Len(log) \in Nat /\ Len(log) + 1 \in Nat /\ 0 <= Len(log) /\ \A id \in Living : id < Len(log) + 1
  BY RowRange DEF Living
<1>3. ASSUME NEW l \in Histories, Rows!AskLoad(l) PROVE RowTypes' /\ RowInv' /\ GapInv'
  <2> DEFINE s == [Rows!Idle EXCEPT !.step = "asked"]
  <2>1. s \in PageSlots /\ s.step = "asked" /\ s.page = <<>>
    BY RowSets DEF PageSlots
  <2>2. load' = [load EXCEPT ![l] = s]
        /\ UNCHANGED <<rows, loaded, more, sends, deletes, log, gone, posts, discarded, outran, overlap>>
    BY <1>3 DEF Rows!AskLoad, Rows!serverVars
  <2> HIDE DEF s
  <2> QED BY <1>1, <2>1, <2>2, LoadStep
<1>4. ASSUME NEW l \in Histories, Rows!FailLoad(l) PROVE RowTypes' /\ RowInv' /\ GapInv'
  <2>1. load' = [load EXCEPT ![l] = Rows!Idle]
        /\ UNCHANGED <<rows, loaded, more, sends, deletes, log, gone, posts, discarded, outran, overlap>>
    BY <1>4 DEF Rows!FailLoad, Rows!serverVars
  <2> QED BY <1>1, <2>1, RowSets, LoadStep
<1>5. ASSUME NEW l \in Histories, Rows!ServeLoad(l) PROVE RowTypes' /\ RowInv' /\ GapInv'
  <2> DEFINE page == Rows!Page(Len(log) + 1)
             s == [Rows!Idle EXCEPT !.step = "answered", !.page = page]
  <2>1. load' = [load EXCEPT ![l] = s]
        /\ UNCHANGED <<rows, loaded, more, sends, deletes, log, gone, posts, discarded, outran, overlap>>
    BY <1>5 DEF Rows!ServeLoad, Rows!serverVars
  <2>2. /\ page \in Seq(RowIds) /\ Range(page) \subseteq DOMAIN log /\ Once(page)
        /\ \A old \in Range(page) : \A id \in Living : id < Len(log) + 1 /\ old < id => id \in Range(page)
        /\ \A id \in Living : id < Len(log) + 1 => id \in Range(page) \/ \E other \in Range(page) : id < other
    BY <1>2, RowPage
  <2> HIDE DEF page
  <2>3. s \in PageSlots /\ s.page = page
    <3>1. \A f \in PageSlots : /\ [f EXCEPT !.step = "answered", !.page = page] \in PageSlots
                               /\ [f EXCEPT !.step = "answered", !.page = page].page = page
      BY <2>2 DEF PageSlots
    <3> QED BY <3>1, RowSets
  <2>4. PageTold(page)
    BY <1>2, <2>2 DEF PageTold
  <2> HIDE DEF s
  <2> QED BY <2>1, <2>2, <2>3, <2>4, LoadStep
<1>6. CASE Rows!AskMore
  <2> DEFINE s == [Rows!Idle EXCEPT !.step = "asked", !.before = rows[1].id]
  <2>1. more' = s
        /\ UNCHANGED <<rows, loaded, load, sends, deletes, log, gone, posts, discarded, outran, overlap>>
    BY <1>6 DEF Rows!AskMore, Rows!serverVars
  <2>2. rows[1] \in RowSet /\ rows[1] \in Range(rows)
    <3>1. 1 \in DOMAIN rows
      BY <1>6 DEF Rows!AskMore, RowTypes
    <3> QED BY <3>1, RowRange
  <2>3. s \in PageSlots /\ s.page = <<>> /\ s.before = rows[1].id
    <3>1. \A f \in PageSlots, b \in 0..MaxMessages :
            LET t == [f EXCEPT !.step = "asked", !.before = b] IN t \in PageSlots /\ t.page = f.page /\ t.before = b
      BY DEF PageSlots
    <3> QED BY <2>2, <3>1, RowSets DEF RowSet
  <2> HIDE DEF s
  <2>4. s.before <= Len(log)
    BY <2>2, <2>3 DEF RowInv, Sound
  <2>5. ASSUME ~outran, loaded, s.before # 0, NEW id \in Living, s.before <= id PROVE Held(id)
    <3>1. s.before \in Showing
      BY <2>2, <2>3, <2>5 DEF Showing
    <3>2. s.before \in Nat /\ id \in Nat
      BY <1>2, <2>2, <2>3 DEF Living, RowSet
    <3>3. CASE s.before < id
      BY <2>5, <3>1, <3>3 DEF GapInv, Orderly, NoGaps
    <3>4. CASE s.before = id
      BY <3>1, <3>4 DEF Held
    <3> QED BY <2>5, <3>2, <3>3, <3>4
  <2> QED BY <1>1, <2>1, <2>3, <2>4, <2>5, MoreStep
<1>7. CASE Rows!ServeMore
  <2> DEFINE page == Rows!Page(more.before)
             s == [more EXCEPT !.step = "answered", !.page = page]
  <2>1. more' = s /\ more.step = "asked" /\ more.before # 0
        /\ UNCHANGED <<rows, loaded, load, sends, deletes, log, gone, posts, discarded, outran, overlap>>
    BY <1>7 DEF Rows!ServeMore, Rows!serverVars
  <2>2. more \in PageSlots /\ more.before \in Nat
    BY RowSets DEF RowTypes, PageSlots
  <2>3. /\ page \in Seq(RowIds) /\ Range(page) \subseteq DOMAIN log /\ Once(page)
        /\ \A old \in Range(page) :
             old < more.before /\ \A id \in Living : id < more.before /\ old < id => id \in Range(page)
    BY <2>2, RowPage
  <2> HIDE DEF page
  <2>4. s \in PageSlots /\ s.page = page /\ s.before = more.before /\ s.stale = more.stale
    BY <2>2, <2>3 DEF PageSlots
  <2> HIDE DEF s
  <2>5. s.before <= Len(log)
    BY <2>4 DEF RowInv
  <2>6. ~outran /\ loaded /\ ~s.stale => \A id \in Living : s.before <= id => Held(id)
    BY <2>1, <2>4 DEF GapInv, Orderly, NoGaps
  <2> QED BY <2>1, <2>3, <2>4, <2>5, <2>6, MoreStep
<1>8. CASE Rows!FailMore
  <2>1. more' = Rows!Idle
        /\ UNCHANGED <<rows, loaded, load, sends, deletes, log, gone, posts, discarded, outran, overlap>>
    BY <1>8 DEF Rows!FailMore, Rows!serverVars
  <2> QED BY <1>1, <1>2, <2>1, RowSets, MoreStep
<1> QED BY <1>3, <1>4, <1>5, <1>6, <1>7, <1>8

-----------------------------------------------------------------------------
\* The rows of a page do not clash.
LEMMA ListedIs ==
  ASSUME RowTypes, RowInv, NEW page \in Seq(RowIds), Range(page) \subseteq DOMAIN log, Once(page), NEW o
  PROVE  LET s == Rows!Listed(page) IN
           /\ s \in Seq(RowSet) /\ NoClash(s, log, o)
           /\ \A r \in Range(s) : /\ r.id \in Range(page) /\ r.nonce = 0 /\ r.state = "none"
                                  /\ Sound(r, log, sends) /\ r.id # 0
           /\ \A id \in Range(page) : \E r \in Range(s) : r.id = id
<1> DEFINE s == Rows!Listed(page)
           n == Len(page)
<1>1. n \in Nat /\ DOMAIN page = 1..n /\ \A i \in 1..n : page[i] \in RowIds /\ page[i] \in Range(page)
  BY DEF Range
<1>2. s = [i \in 1..n |-> [id |-> page[i], nonce |-> 0, state |-> "none"]]
  BY <1>1, RowSets DEF Rows!Listed
<1> HIDE DEF s, n
<1>3. \A i \in 1..n : [id |-> page[i], nonce |-> 0, state |-> "none"] \in RowSet
  BY <1>1, RowSets DEF RowSet, RowIds
<1>4. s \in [1..n -> RowSet]
  BY <1>2, <1>3
<1>5. s \in Seq(RowSet) /\ DOMAIN s = 1..n
  BY <1>1, <1>4
<1>6. \A i \in 1..n : s[i].id = page[i] /\ s[i].nonce = 0 /\ s[i].state = "none"
  BY <1>2
<1>7. \A i \in 1..n : page[i] \in DOMAIN log /\ page[i] # 0 /\ page[i] <= Len(log)
  BY <1>1, RowRange
<1>8. \A i \in 1..n : Sound(s[i], log, sends)
  BY <1>6, <1>7 DEF Sound
<1>9. NoClash(s, log, o)
  <2> SUFFICES ASSUME NEW i \in 1..n, NEW j \in 1..n, i # j PROVE ~Clash(s[i], s[j], log, o)
    BY <1>5 DEF NoClash
  <2>1. page[i] # page[j]
    BY <1>1 DEF Once
  <2>2. log[page[i]] = log[page[j]] => log[page[i]] = 0
    BY <1>7, <2>1 DEF RowInv, LogOnce
  <2> QED BY <1>6, <1>7, <2>1, <2>2 DEF Clash, SendIn
<1>10. \A r \in Range(s) : \E i \in 1..n : r = s[i]
  BY <1>5 DEF Range
<1>11. \A id \in Range(page) : \E r \in Range(s) : r.id = id
  <2>1. \A i \in 1..n : s[i] \in Range(s)
    BY <1>5 DEF Range
  <2>2. \A id \in Range(page) : \E i \in 1..n : page[i] = id
    BY <1>1 DEF Range
  <2> QED BY <1>6, <2>1, <2>2
<1> QED BY <1>1, <1>5, <1>6, <1>7, <1>8, <1>9, <1>10, <1>11 DEF s

\* The answer of a load replaces the rows.
LEMMA RowApplyLoadKeeps ==
  ASSUME RowTypes, RowInv, GapInv, NEW l \in Histories, Rows!ApplyLoad(l)
  PROVE  RowTypes' /\ RowInv' /\ GapInv'
<1> DEFINE page == load[l].page
<1>1. /\ load[l].step = "answered" /\ rows' = Rows!Listed(page) /\ loaded' = TRUE
      /\ outran' = (outran \/ load[l].stale) /\ load' = [load EXCEPT ![l] = Rows!Idle]
      /\ more' = [more EXCEPT !.stale = more.step # "idle"]
      /\ UNCHANGED <<sends, deletes, log, gone, posts, discarded, overlap>>
  BY DEF Rows!ApplyLoad, Rows!serverVars
<1>2. load[l] \in PageSlots /\ more \in PageSlots /\ page \in Seq(RowIds) /\ outran \in BOOLEAN
  BY DEF RowTypes, PageSlots
<1>3. Range(page) \subseteq DOMAIN log /\ Once(page)
  BY DEF RowInv
<1> HIDE DEF page
<1>4. /\ rows' \in Seq(RowSet) /\ NoClash(rows', log, overlap)
      /\ \A r \in Range(rows') : /\ r.id \in Range(page) /\ r.nonce = 0 /\ r.state = "none"
                                 /\ Sound(r, log, sends) /\ r.id # 0
      /\ \A id \in Range(page) : \E r \in Range(rows') : r.id = id
  BY <1>1, <1>2, <1>3, ListedIs
<1>5. more' \in PageSlots /\ more'.step = more.step /\ more'.page = more.page /\ more'.before = more.before
      /\ (more'.step = "idle" \/ more'.stale)
  BY <1>1, <1>2 DEF PageSlots
<1>6. load' \in [Histories -> PageSlots] /\ \A k \in Histories : load'[k] = IF k = l THEN Rows!Idle ELSE load[k]
  BY <1>1, RowSets DEF RowTypes
<1>7. RowTypes'
  <2>1. outran' \in BOOLEAN
    BY <1>1, <1>2 DEF PageSlots
  <2> QED BY <1>1, <1>4, <1>5, <1>6, <2>1 DEF RowTypes
<1>8. RowInv'
  <2>1. Range(<<>>) = {} /\ Once(<<>>)
    BY DEF Range, Once
  <2>2. \A k \in Histories : Range(load'[k].page) \subseteq DOMAIN log /\ Once(load'[k].page)
    BY <1>6, <2>1, RowSets DEF RowInv
  <2> QED BY <1>1, <1>4, <1>5, <2>2 DEF RowInv
<1>9. Living' = Living /\ TakenOut' = TakenOut /\ Showing' = Range(page)
  BY <1>1, <1>3, <1>4 DEF Living, TakenOut, Showing
<1>10. \A pg : PageTold(pg)' <=> PageTold(pg)
  BY <1>1, <1>9 DEF PageTold
<1>11. ASSUME ~outran' PROVE Orderly'
  <2>1. Orderly /\ PageTold(page)
    BY <1>1, <1>11 DEF GapInv, Orderly, page
  <2>2. NoGaps'
    <3>1. \A id \in Living, old \in Range(page) : old < id => id \in Range(page) \/ Waits(posts, id)
      BY <2>1 DEF PageTold
    <3>2. \A id \in Living : id \in Range(page) \/ Waits(posts, id) \/ \E other \in Range(page) : id < other
      BY <2>1 DEF PageTold
    <3>3. \A id : id \in Range(page) \/ Waits(posts, id) => Held(id)'
      BY <1>1, <1>9 DEF Held
    <3> QED BY <1>5, <1>9, <3>1, <3>2, <3>3 DEF NoGaps
  <2>3. (\A k \in Histories : load[k].step = "answered" /\ ~load[k].stale => PageTold(load[k].page))'
    BY <1>1, <1>6, <1>9, <2>1, RowSets DEF Orderly, PageTold
  <2>4. InTurn(posts', Len(log'))
    BY <1>1, <2>1 DEF Orderly
  <2>5. \A r \in Range(rows'), id \in DOMAIN log' : r.id # 0
    BY <1>4
  <2> QED BY <2>2, <2>3, <2>4, <2>5 DEF Orderly
<1>12. \A old \in Range(more'.page) :
         old < more'.before /\ \A id \in Living' : id < more'.before /\ old < id => id \in Range(more'.page)
  BY <1>5, <1>9 DEF GapInv
<1> QED BY <1>7, <1>8, <1>11, <1>12 DEF GapInv

\* That of a loadMore comes before them.
LEMMA RowApplyMoreKeeps ==
  ASSUME RowTypes, RowInv, GapInv, Rows!ApplyMore
  PROVE  RowTypes' /\ RowInv' /\ GapInv'
<1> DEFINE page == more.page
           kept == Kept(page, RowIds \ Showing)
           s == Rows!Listed(kept)
<1>1. /\ more.step = "answered" /\ rows' = s \o rows /\ outran' = (outran \/ more.stale) /\ more' = Rows!Idle
      /\ overlap' = (overlap \/ Rows!Overlaps(page))
      /\ UNCHANGED <<loaded, load, sends, deletes, log, gone, posts, discarded>>
  BY RowLists, RowSets, RowNames DEF Rows!ApplyMore, Rows!serverVars
<1>2. more \in PageSlots /\ page \in Seq(RowIds) /\ outran \in BOOLEAN /\ overlap \in BOOLEAN /\ rows \in Seq(RowSet)
  BY DEF RowTypes, PageSlots
<1>3. Range(page) \subseteq DOMAIN log /\ Once(page)
  BY DEF RowInv
<1>4. Range(page) \subseteq RowIds
  BY <1>2 DEF Range
<1> HIDE DEF page
<1>5. kept \in Seq(RowIds) /\ Range(kept) = Range(page) \ Showing /\ Once(kept) /\ Range(kept) \subseteq DOMAIN log
  <2>1. kept \in Seq(RowIds) /\ Range(kept) = Range(page) \cap (RowIds \ Showing) /\ Once(kept)
    BY <1>2, <1>3, KeptTells
  <2> QED BY <1>3, <1>4, <2>1
<1> HIDE DEF kept
<1>6. /\ s \in Seq(RowSet) /\ NoClash(s, log, overlap')
      /\ \A r \in Range(s) : /\ r.id \in Range(kept) /\ r.nonce = 0 /\ r.state = "none"
                             /\ Sound(r, log, sends) /\ r.id # 0
      /\ \A id \in Range(kept) : \E r \in Range(s) : r.id = id
  BY <1>5, ListedIs
<1> HIDE DEF s
<1>7. NoClash(rows, log, overlap')
  <2>1. \A r, t : Clash(r, t, log, overlap') => Clash(r, t, log, overlap)
    BY <1>1 DEF Clash
  <2> QED BY <2>1 DEF RowInv, NoClash
<1>8. ASSUME NEW r \in Range(s), NEW t \in Range(rows) PROVE ~Clash(r, t, log, overlap')
  <2>1. r.id \in Range(page) /\ r.id \notin Showing /\ r.id # 0 /\ r.nonce = 0 /\ r.id \in DOMAIN log
    BY <1>5, <1>6
  <2>2. Sound(t, log, sends) /\ t \in RowSet /\ r.id # t.id
    BY <2>1, RowRange DEF RowInv, Showing
  <2>3. t.id # 0 => t.id \in DOMAIN log
    BY <2>2, RowRange, RowSets DEF Sound, RowSet
  <2>4. ~overlap' => ~(SendIn(r, log) = SendIn(t, log) /\ SendIn(r, log) # 0)
    <3> SUFFICES ASSUME ~overlap', SendIn(r, log) = SendIn(t, log), SendIn(r, log) # 0 PROVE FALSE
      OBVIOUS
    <3>1. log[r.id] # 0 /\ SendIn(t, log) = log[r.id]
      BY <2>1 DEF SendIn
    <3>2. t.id = 0 /\ t.nonce = log[r.id]
      BY <2>1, <2>2, <2>3, <3>1 DEF SendIn, RowInv, LogOnce
    <3>3. t.state # "none"
      BY <2>2, <3>2 DEF Sound
    <3>4. Rows!Unsent(log[r.id]) # 0
      BY <3>2, <3>3, UnsentIs, RowRange
    <3> QED BY <1>1, <2>1, <3>1, <3>4, RowLists DEF Rows!Overlaps
  <2> QED BY <2>1, <2>2, <2>4 DEF Clash
<1>9. rows' \in Seq(RowSet) /\ Range(rows') = Range(s) \cup Range(rows) /\ NoClash(rows', log, overlap')
  <2>1. \A i \in DOMAIN s, j \in DOMAIN rows : ~Clash(s[i], rows[j], log, overlap')
    <3>1. \A i \in DOMAIN s : s[i] \in Range(s)
      BY DEF Range
    <3> QED BY <1>8, <3>1, RowRange
  <2> QED BY <1>1, <1>2, <1>6, <1>7, <2>1, AheadKeeps
<1>10. RowTypes'
  <2>1. outran' \in BOOLEAN /\ overlap' \in BOOLEAN
    BY <1>1, <1>2 DEF PageSlots
  <2> QED BY <1>1, <1>9, <2>1, RowSets DEF RowTypes
<1>11. RowInv'
  <2>1. Range(<<>>) = {} /\ Once(<<>>) /\ 0 <= Len(log)
    BY RowRange DEF Range, Once
  <2>2. \A r \in Range(rows') : Sound(r, log, sends)
    BY <1>6, <1>9 DEF RowInv
  <2> QED BY <1>1, <1>9, <2>1, <2>2, RowSets DEF RowInv
<1>12. Living' = Living /\ TakenOut' = TakenOut /\ Showing' = Showing \cup Range(page)
  <2>1. Showing' = Showing \cup Range(kept)
    BY <1>6, <1>9 DEF Showing
  <2> QED BY <1>1, <1>5, <2>1 DEF Living, TakenOut
<1>13. \A pg : PageTold(pg)' <=> PageTold(pg)
  BY <1>1, <1>12 DEF PageTold
<1>14. \A id : Held(id) => Held(id)'
  BY <1>1, <1>12 DEF Held
<1>15. ASSUME ~outran' PROVE Orderly'
  <2>1. Orderly /\ ~more.stale
    BY <1>1, <1>15 DEF GapInv
  <2>2. ASSUME loaded PROVE NoGaps'
    <3>1. NoGaps
      BY <2>1, <2>2 DEF Orderly
    <3>2. ASSUME NEW old \in Range(page), NEW id \in Living, old < id PROVE Held(id)'
      <4>1. /\ old \in Nat /\ id \in Nat /\ more.before \in Nat /\ old < more.before
            /\ id < more.before => id \in Range(page)
        BY <1>2, <1>4, <3>2, RowSets DEF GapInv, page, RowIds, Living, PageSlots
      <4>2. CASE id < more.before
        BY <1>12, <4>1, <4>2 DEF Held
      <4>3. CASE ~(id < more.before)
        <5>1. more.before # 0 /\ more.before <= id
          BY <4>1, <4>3
        <5> QED BY <1>1, <1>14, <2>1, <3>1, <5>1 DEF NoGaps
      <4> QED BY <4>2, <4>3
    <3>3. \A old \in Showing' : old \in Showing \/ \A id \in Living' : old < id => Held(id)'
      BY <1>12, <3>2
    <3>4. \A id \in Living' : Held(id)' \/ (id \in Living /\ ~Held(id))
      BY <1>12, <1>14
    <3>5. Showing \cup TakenOut \subseteq Showing' \cup TakenOut'
      BY <1>12
    <3>6. more'.step = "idle"
      BY <1>1, RowSets
    <3> QED BY <3>1, <3>3, <3>4, <3>5, <3>6, NoGapsStay
  <2>3. \A r \in Range(rows'), id \in DOMAIN log : r.id = 0 /\ log[id] = r.nonce => Waits(posts, id)
    BY <1>6, <1>9, <2>1 DEF Orderly
  <2> QED BY <1>1, <1>13, <2>1, <2>2, <2>3 DEF Orderly
<1>16. Range(more'.page) = {}
  BY <1>1, RowSets DEF Range
<1> QED BY <1>10, <1>11, <1>15, <1>16 DEF GapInv

-----------------------------------------------------------------------------
(* What waits grows at the end and goes at the front.                      *)

LEMMA PostsGrow ==
  ASSUME NEW q \in Seq(Posted), NEW e \in Posted, NEW n \in Nat
  PROVE  /\ Append(q, e) \in Seq(Posted)
         /\ \A k \in DOMAIN Append(q, e) : (k \in DOMAIN q /\ Append(q, e)[k] = q[k]) \/ Append(q, e)[k] = e
         /\ \A id : Waits(Append(q, e), id) <=> Waits(q, id) \/ (e.kind = "create" /\ e.id = id)
         /\ InTurn(q, n) /\ e.kind = "delete" => InTurn(Append(q, e), n)
         /\ InTurn(q, n) /\ e.kind = "create" /\ e.id = n + 1 => InTurn(Append(q, e), n + 1)
<1> DEFINE s == Append(q, e)
           m == Len(q)
<1>1. m \in Nat /\ DOMAIN q = 1..m
  OBVIOUS
<1>2. s \in Seq(Posted) /\ DOMAIN s = 1..(m + 1) /\ s[m + 1] = e /\ \A i \in 1..m : s[i] = q[i]
  OBVIOUS
<1> HIDE DEF s, m
<1>3. m + 1 \in 1..(m + 1) /\ \A i \in 1..(m + 1) : i = m + 1 \/ i \in 1..m
  BY <1>1
<1>4. \A i \in 1..m : i \in 1..(m + 1) /\ i < m + 1
  BY <1>1
<1>5. ASSUME NEW id PROVE Waits(s, id) <=> Waits(q, id) \/ (e.kind = "create" /\ e.id = id)
  <2>1. Waits(s, id) => Waits(q, id) \/ (e.kind = "create" /\ e.id = id)
    BY <1>1, <1>2, <1>3 DEF Waits
  <2>2. Waits(q, id) => Waits(s, id)
    BY <1>1, <1>2, <1>4 DEF Waits
  <2>3. e.kind = "create" /\ e.id = id => Waits(s, id)
    BY <1>2, <1>3 DEF Waits
  <2> QED BY <2>1, <2>2, <2>3
<1>6. ASSUME InTurn(q, n), e.kind = "delete" PROVE InTurn(s, n)
  <2> SUFFICES ASSUME NEW k \in 1..(m + 1), s[k].kind = "create", NEW id \in 1..n, s[k].id < id
               PROVE  \E j \in DOMAIN s : k < j /\ s[j].kind = "create" /\ s[j].id = id
    BY <1>2 DEF InTurn
  <2>1. k \in 1..m /\ s[k] = q[k]
    BY <1>2, <1>3, <1>6
  <2>2. PICK j \in 1..m : k < j /\ q[j].kind = "create" /\ q[j].id = id
    BY <1>1, <1>6, <2>1 DEF InTurn
  <2> QED BY <1>2, <1>4, <2>2
<1>7. ASSUME InTurn(q, n), e.kind = "create", e.id = n + 1 PROVE InTurn(s, n + 1)
  <2> SUFFICES ASSUME NEW k \in 1..(m + 1), s[k].kind = "create", NEW id \in 1..(n + 1), s[k].id < id
               PROVE  \E j \in DOMAIN s : k < j /\ s[j].kind = "create" /\ s[j].id = id
    BY <1>2 DEF InTurn
  <2>1. k \in 1..m /\ s[k] = q[k]
    <3>1. k # m + 1
      BY <1>2, <1>7
    <3> QED BY <1>2, <1>3, <3>1
  <2>2. CASE id = n + 1
    BY <1>2, <1>3, <1>4, <1>7, <2>1, <2>2
  <2>3. CASE id \in 1..n
    <3>1. PICK j \in 1..m : k < j /\ q[j].kind = "create" /\ q[j].id = id
      BY <1>1, <1>7, <2>1, <2>3 DEF InTurn
    <3> QED BY <1>2, <1>4, <3>1
  <2> QED BY <2>2, <2>3
<1> QED BY <1>1, <1>2, <1>3, <1>5, <1>6, <1>7 DEF s

LEMMA PostsGo ==
  ASSUME NEW q \in Seq(Posted), q # <<>>, NEW n \in Nat
  PROVE  /\ Tail(q) \in Seq(Posted) /\ Head(q) \in Posted /\ 1 \in DOMAIN q /\ Head(q) = q[1]
         /\ \A k \in DOMAIN Tail(q) : \E j \in DOMAIN q : Tail(q)[k] = q[j]
         /\ \A id : Waits(q, id) => Waits(Tail(q), id) \/ (Head(q).kind = "create" /\ Head(q).id = id)
         /\ InTurn(q, n) => InTurn(Tail(q), n)
         /\ InTurn(q, n) /\ Head(q).kind = "create" => \A id \in 1..n : Head(q).id < id => Waits(Tail(q), id)
<1> DEFINE s == Tail(q)
           m == Len(q)
<1>1. m \in Nat /\ m > 0 /\ DOMAIN q = 1..m /\ Head(q) = q[1] /\ Head(q) \in Posted
  OBVIOUS
<1>2. s \in Seq(Posted) /\ DOMAIN s = 1..(m - 1) /\ \A i \in 1..(m - 1) : s[i] = q[i + 1]
  OBVIOUS
<1> HIDE DEF s, m
<1>3. (\A i \in 1..(m - 1) : i + 1 \in 1..m) /\ 1 \in 1..m
  BY <1>1
<1>4. \A j \in 1..m : j = 1 \/ (j - 1 \in 1..(m - 1) /\ s[j - 1] = q[j])
  <2> SUFFICES ASSUME NEW j \in 1..m, j # 1 PROVE j - 1 \in 1..(m - 1) /\ s[j - 1] = q[j]
    OBVIOUS
  <2>1. j - 1 \in 1..(m - 1) /\ (j - 1) + 1 = j
    BY <1>1
  <2> QED BY <1>2, <2>1
<1>5. \A id : Waits(q, id) => Waits(s, id) \/ (Head(q).kind = "create" /\ Head(q).id = id)
  <2> SUFFICES ASSUME NEW id, NEW j \in 1..m, q[j].kind = "create", q[j].id = id
               PROVE  Waits(s, id) \/ (Head(q).kind = "create" /\ Head(q).id = id)
    BY <1>1 DEF Waits
  <2> QED BY <1>1, <1>2, <1>4 DEF Waits
<1>6. ASSUME InTurn(q, n) PROVE InTurn(s, n)
  <2> SUFFICES ASSUME NEW k \in 1..(m - 1), s[k].kind = "create", NEW id \in 1..n, s[k].id < id
               PROVE  \E j \in DOMAIN s : k < j /\ s[j].kind = "create" /\ s[j].id = id
    BY <1>2 DEF InTurn
  <2>1. k + 1 \in 1..m /\ q[k + 1].kind = "create" /\ q[k + 1].id < id
    BY <1>2, <1>3
  <2>2. PICK j \in 1..m : k + 1 < j /\ q[j].kind = "create" /\ q[j].id = id
    BY <1>1, <1>6, <2>1 DEF InTurn
  <2>3. j # 1 /\ k < j - 1
    BY <1>1, <2>2
  <2> QED BY <1>2, <1>4, <2>2, <2>3
<1>7. ASSUME InTurn(q, n), Head(q).kind = "create", NEW id \in 1..n, Head(q).id < id PROVE Waits(s, id)
  <2>1. PICK j \in 1..m : 1 < j /\ q[j].kind = "create" /\ q[j].id = id
    BY <1>1, <1>3, <1>7 DEF InTurn
  <2> QED BY <1>2, <1>4, <2>1 DEF Waits
<1> QED BY <1>1, <1>2, <1>3, <1>5, <1>6, <1>7 DEF s


-----------------------------------------------------------------------------
\* A row is as sound with a longer log, and clashes with none it did not.
LEMMA LongerLog ==
  ASSUME RowTypes, RowInv, NEW n \in 0..MaxSends, Len(log) < MaxMessages,
         n # 0 => sends[n] # "unused" /\ n \notin Range(log)
  PROVE  LET g == Append(log, n) IN
           /\ g \in Seq(0..MaxSends) /\ Len(g) = Len(log) + 1 /\ Len(g) <= MaxMessages /\ DOMAIN g = 1..Len(g)
           /\ g[Len(g)] = n /\ \A id \in 1..Len(log) : g[id] = log[id]
           /\ \A r \in Range(rows) : Sound(r, g, sends)
           /\ NoClash(rows, g, overlap) /\ LogOnce(g, sends)
<1> DEFINE g == Append(log, n)
           m == Len(log)
<1>1. m \in Nat /\ DOMAIN log = 1..m /\ m < MaxMessages /\ MaxMessages \in Nat
  BY RowRange, RowSets
<1>2. g \in Seq(0..MaxSends) /\ Len(g) = m + 1 /\ DOMAIN g = 1..(m + 1) /\ g[m + 1] = n /\ \A id \in 1..m : g[id] = log[id]
  <2> DEFINE T == 0..MaxSends
  <2>1. log \in Seq(T) /\ n \in T
    BY DEF RowTypes
  <2> HIDE DEF T
  <2>2. g \in Seq(T) /\ Len(g) = m + 1 /\ DOMAIN g = 1..(m + 1) /\ g[m + 1] = n /\ \A id \in 1..m : g[id] = log[id]
    BY <2>1
  <2> QED BY <2>2 DEF T
<1> HIDE DEF g, m
<1>3. (\A i \in 1..(m + 1) : i = m + 1 \/ i \in 1..m) /\ (\A i \in 1..m : i \in 1..(m + 1) /\ i # m + 1) /\ m + 1 <= MaxMessages
  BY <1>1
<1>4. ASSUME NEW r \in Range(rows) PROVE Sound(r, g, sends) /\ SendIn(r, g) = SendIn(r, log)
  <2>1. Sound(r, log, sends) /\ r \in RowSet
    BY RowRange DEF RowInv
  <2>2. r.id # 0 => r.id \in 1..m
    BY <1>1, <2>1, RowSets DEF Sound, RowSet, m
  <2>3. r.id <= m + 1
    BY <1>1, <2>1, RowSets DEF Sound, RowSet, m
  <2> QED BY <1>2, <2>1, <2>2, <2>3 DEF Sound, SendIn
<1>5. NoClash(rows, g, overlap)
  <2> SUFFICES ASSUME NEW i \in DOMAIN rows, NEW j \in DOMAIN rows, i # j PROVE ~Clash(rows[i], rows[j], g, overlap)
    BY DEF NoClash
  <2>1. ~Clash(rows[i], rows[j], log, overlap)
    BY DEF RowInv, NoClash
  <2>2. SendIn(rows[i], g) = SendIn(rows[i], log) /\ SendIn(rows[j], g) = SendIn(rows[j], log)
    BY <1>4, RowRange
  <2> QED BY <2>1, <2>2 DEF Clash
<1>6. LogOnce(g, sends)
  <2>1. n # 0 => \A i \in 1..m : log[i] # n
    BY <1>1 DEF Range
  <2>2. \A i, j \in 1..(m + 1) : g[i] = g[j] /\ g[i] # 0 => i = j
    BY <1>1, <1>2, <1>3, <2>1 DEF RowInv, LogOnce
  <2>3. \A i \in 1..(m + 1) : g[i] # 0 => sends[g[i]] # "unused"
    BY <1>1, <1>2, <1>3 DEF RowInv, LogOnce
  <2> QED BY <1>2, <2>2, <2>3 DEF LogOnce
<1> QED BY <1>1, <1>2, <1>3, <1>4, <1>5, <1>6 DEF g, m

\* A request arrives: the message is the newest, and its create waits.
LEMMA RowAcceptKeeps ==
  ASSUME RowTypes, RowInv, GapInv, NEW n \in 0..MaxSends, Rows!Accept(n)
  PROVE  RowTypes' /\ RowInv' /\ GapInv'
<1> DEFINE new == Len(log) + 1
           e == [kind |-> "create", id |-> new]
<1>1. /\ Len(log) < MaxMessages /\ log' = Append(log, n) /\ posts' = Append(posts, e)
      /\ n # 0 => sends[n] # "unused" /\ n \notin Range(log)
      /\ UNCHANGED <<rows, loaded, load, more, sends, deletes, gone, discarded, outran, overlap>>
  BY RowLists DEF Rows!Accept, Rows!storeVars
<1>2. Len(log) \in Nat /\ DOMAIN log = 1..Len(log) /\ new \in RowIds
  BY <1>1, RowRange, RowSets DEF RowIds
<1>3. /\ log' \in Seq(0..MaxSends) /\ Len(log') = new /\ DOMAIN log' = 1..new /\ new <= MaxMessages
      /\ log'[new] = n /\ \A id \in 1..Len(log) : log'[id] = log[id]
      /\ \A r \in Range(rows) : Sound(r, log', sends)
      /\ NoClash(rows, log', overlap) /\ LogOnce(log', sends)
  BY <1>1, LongerLog
<1>4. e \in Posted /\ e.kind = "create" /\ e.id = new /\ posts \in Seq(Posted)
  BY <1>2 DEF Posted, RowTypes
<1> HIDE DEF e
<1>5. /\ posts' \in Seq(Posted)
      /\ \A k \in DOMAIN posts' : (k \in DOMAIN posts /\ posts'[k] = posts[k]) \/ posts'[k] = e
      /\ \A id : Waits(posts', id) <=> Waits(posts, id) \/ id = new
      /\ InTurn(posts, Len(log)) => InTurn(posts', new)
  BY <1>1, <1>2, <1>4, PostsGrow
<1>6. \A id : id \in 1..new <=> id \in 1..Len(log) \/ id = new
  BY <1>2
<1> HIDE DEF new
<1>7. RowTypes'
  BY <1>1, <1>3, <1>5 DEF RowTypes
<1>8. RowInv'
  <2>1. \A k \in DOMAIN posts' : posts'[k].id \in DOMAIN log' /\ (posts'[k].kind = "delete" => posts'[k].id \in gone)
    BY <1>2, <1>3, <1>4, <1>5, <1>6 DEF RowInv
  <2>2. DOMAIN log \subseteq DOMAIN log'
    BY <1>2, <1>3, <1>6
  <2>3. more.before <= Len(log')
    <3>1. more.before \in Nat /\ more.before <= Len(log)
      BY RowSets DEF RowInv, RowTypes, PageSlots
    <3> QED BY <1>2, <1>3, <3>1 DEF new
  <2> QED BY <1>1, <1>3, <2>1, <2>2, <2>3 DEF RowInv
<1>9. Showing' = Showing /\ TakenOut' = TakenOut /\ (\A id \in Living' : id \in Living \/ id = new)
      /\ (\A id \in Living : id <= Len(log)) /\ \A id : Held(id) \/ id = new => Held(id)'
  BY <1>1, <1>2, <1>3, <1>5, <1>6 DEF Showing, TakenOut, Living, Held
<1>10. \A id \in Living' : id < more.before => id \in Living
  <2>1. more.before \in Nat /\ more.before <= Len(log)
    BY RowSets DEF RowInv, RowTypes, PageSlots
  <2>2. ~(new < more.before)
    BY <1>2, <2>1 DEF new
  <2> QED BY <1>9, <2>2
<1>11. ASSUME ~outran' PROVE Orderly'
  <2>1. Orderly
    BY <1>1, <1>11 DEF GapInv
  <2>2. ASSUME NEW l \in Histories, load'[l].step = "answered", ~load'[l].stale
        PROVE  PageTold(load[l].page)'
    <3>1. PageTold(load[l].page)
      BY <1>1, <2>1, <2>2 DEF Orderly
    <3> QED BY <1>1, <1>5, <1>9, <3>1 DEF PageTold
  <2>3. ASSUME loaded' PROVE NoGaps'
    <3>1. NoGaps
      BY <1>1, <2>1, <2>3 DEF Orderly
    <3>2. \A id \in Living' : Held(id)' \/ (id \in Living /\ ~Held(id))
      BY <1>9
    <3> QED BY <1>1, <1>9, <3>1, <3>2, NoGapsStay
  <2>4. \A r \in Range(rows'), id \in DOMAIN log' : r.id = 0 /\ log'[id] = r.nonce => Waits(posts', id)
    BY <1>1, <1>2, <1>3, <1>5, <1>6, <2>1 DEF Orderly
  <2> QED BY <1>3, <1>5, <2>1, <2>2, <2>3, <2>4 DEF Orderly
<1> QED BY <1>1, <1>7, <1>8, <1>10, <1>11 DEF GapInv

\* A message is deleted: its event waits behind its create.
LEMMA RowSrvDeleteKeeps ==
  ASSUME RowTypes, RowInv, GapInv, NEW d \in RowIds, Rows!SrvDelete(d)
  PROVE  RowTypes' /\ RowInv' /\ GapInv'
<1> DEFINE e == [kind |-> "delete", id |-> d]
<1>1. /\ d \in Living /\ gone' = gone \cup {d} /\ deletes' = deletes \ {d} /\ posts' = Append(posts, e)
      /\ UNCHANGED <<rows, loaded, load, more, sends, log, discarded, outran, overlap>>
  BY RowNames DEF Rows!SrvDelete
<1>2. e \in Posted /\ e.kind = "delete" /\ e.id = d /\ posts \in Seq(Posted) /\ Len(log) \in Nat
  BY RowRange DEF Posted, RowTypes
<1> HIDE DEF e
<1>3. /\ posts' \in Seq(Posted)
      /\ \A k \in DOMAIN posts' : (k \in DOMAIN posts /\ posts'[k] = posts[k]) \/ posts'[k] = e
      /\ \A id : Waits(posts', id) <=> Waits(posts, id)
      /\ InTurn(posts, Len(log)) => InTurn(posts', Len(log))
  BY <1>1, <1>2, PostsGrow
<1>4. RowTypes'
  BY <1>1, <1>3 DEF RowTypes
<1>5. RowInv'
  <2>1. \A k \in DOMAIN posts' : posts'[k].id \in DOMAIN log' /\ (posts'[k].kind = "delete" => posts'[k].id \in gone')
    BY <1>1, <1>2, <1>3, RowRange DEF RowInv, Living
  <2> QED BY <1>1, <2>1 DEF RowInv
<1>6. /\ Showing' = Showing /\ Living' = Living \ {d} /\ TakenOut \subseteq TakenOut'
      /\ \A id \in Living' : Held(id) => Held(id)'
  BY <1>1, <1>3 DEF Showing, TakenOut, Living, Held
<1>7. ASSUME ~outran' PROVE Orderly'
  <2>1. Orderly
    BY <1>1, <1>7 DEF GapInv
  <2>2. ASSUME NEW l \in Histories, load'[l].step = "answered", ~load'[l].stale
        PROVE  PageTold(load[l].page)'
    <3>1. PageTold(load[l].page)
      BY <1>1, <2>1, <2>2 DEF Orderly
    <3> QED BY <1>1, <1>3, <1>6, <3>1 DEF PageTold
  <2>3. ASSUME loaded' PROVE NoGaps'
    <3>1. NoGaps
      BY <1>1, <2>1, <2>3 DEF Orderly
    <3>2. \A id \in Living' : Held(id)' \/ (id \in Living /\ ~Held(id))
      BY <1>6
    <3> QED BY <1>1, <1>6, <3>1, <3>2, NoGapsStay
  <2>4. \A r \in Range(rows'), id \in DOMAIN log' : r.id = 0 /\ log'[id] = r.nonce => Waits(posts', id)
    BY <1>1, <1>3, <2>1 DEF Orderly
  <2> QED BY <1>1, <1>3, <2>1, <2>2, <2>3, <2>4 DEF Orderly
<1> QED BY <1>1, <1>4, <1>5, <1>6, <1>7 DEF GapInv

LEMMA RowLoseKeeps ==
  ASSUME RowTypes, RowInv, GapInv, Rows!LoseEvents
  PROVE  RowTypes' /\ RowInv' /\ GapInv'
<1>1. posts' = <<>> /\ outran' = TRUE
      /\ UNCHANGED <<rows, loaded, load, more, sends, deletes, log, gone, discarded, overlap>>
  BY DEF Rows!LoseEvents, Rows!storeVars
<1>2. RowTypes'
  BY <1>1 DEF RowTypes
<1>3. RowInv'
  BY <1>1 DEF RowInv
<1>4. Living' = Living
  BY <1>1 DEF Living
<1> QED BY <1>1, <1>2, <1>3, <1>4 DEF GapInv

-----------------------------------------------------------------------------
\* An event is applied: pages on their way become stale, what the event tells
\* of is shown or gone, and what comes behind it still waits.
LEMMA EventStep ==
  ASSUME RowTypes, RowInv, GapInv, posts # <<>>, posts' = Tail(posts), Rows!Outdate,
         UNCHANGED <<loaded, sends, deletes, log, gone, discarded, outran, overlap>>,
         rows' \in Seq(RowSet), NoClash(rows', log, overlap), \A r \in Range(rows') : Sound(r, log, sends),
         Head(posts).kind = "create" => Head(posts).id \in Showing',
         Showing \ gone \subseteq Showing',
         \A id \in Showing' : id \in Showing \/ (Head(posts).kind = "create" /\ id = Head(posts).id),
         \A r \in Range(rows') : r.id = 0 => /\ \E t \in Range(rows) : t.id = 0 /\ t.nonce = r.nonce
                                             /\ Head(posts).kind = "create" => r.nonce # log[Head(posts).id]
  PROVE  RowTypes' /\ RowInv' /\ GapInv'
<1> DEFINE h == Head(posts).id
<1>1. Len(log) \in Nat /\ posts \in Seq(Posted) /\ load \in [Histories -> PageSlots] /\ more \in PageSlots
  BY RowRange DEF RowTypes
<1>2. /\ posts' \in Seq(Posted) /\ Head(posts) \in Posted /\ 1 \in DOMAIN posts /\ Head(posts) = posts[1]
      /\ \A k \in DOMAIN posts' : \E j \in DOMAIN posts : posts'[k] = posts[j]
      /\ \A id : Waits(posts, id) => Waits(posts', id) \/ (Head(posts).kind = "create" /\ Head(posts).id = id)
      /\ InTurn(posts, Len(log)) => InTurn(posts', Len(log))
      /\ InTurn(posts, Len(log)) /\ Head(posts).kind = "create" =>
           \A id \in 1..Len(log) : Head(posts).id < id => Waits(posts', id)
  BY <1>1, PostsGo
<1>3. /\ more' = [more EXCEPT !.stale = more.stale \/ more.step = "answered"]
      /\ load' = [l \in Histories |-> [load[l] EXCEPT !.stale = load[l].stale \/ load[l].step = "answered"]]
  BY DEF Rows!Outdate
<1>4. /\ more' \in PageSlots /\ more'.step = more.step /\ more'.page = more.page /\ more'.before = more.before
      /\ ~more'.stale => ~more.stale
  BY <1>1, <1>3 DEF PageSlots
<1>5. load' \in [Histories -> PageSlots]
      /\ \A l \in Histories : /\ load'[l].step = load[l].step /\ load'[l].page = load[l].page
                              /\ load'[l].step = "answered" => load'[l].stale
  <2>1. \A l \in Histories : load[l] \in PageSlots
    BY <1>1
  <2>2. ASSUME NEW l \in Histories
        PROVE  LET x == [load[l] EXCEPT !.stale = load[l].stale \/ load[l].step = "answered"] IN
                 /\ x \in PageSlots /\ x.step = load[l].step /\ x.page = load[l].page
                 /\ x.step = "answered" => x.stale
    BY <2>1 DEF PageSlots
  <2> QED BY <1>3, <2>2
<1>6. RowTypes'
  BY <1>2, <1>4, <1>5 DEF RowTypes
<1>7. RowInv'
  <2>1. \A k \in DOMAIN posts' : posts'[k].id \in DOMAIN log /\ (posts'[k].kind = "delete" => posts'[k].id \in gone)
    BY <1>2 DEF RowInv
  <2> QED BY <1>4, <1>5, <2>1 DEF RowInv
<1>8. Living' = Living /\ TakenOut' = TakenOut /\ Showing \cup TakenOut \subseteq Showing' \cup TakenOut'
  BY DEF Living, TakenOut
<1>9. \A id \in Living : Held(id) => Held(id)'
  BY <1>2 DEF Held, Living
<1>10. ASSUME ~outran' PROVE Orderly'
  <2>1. Orderly
    BY <1>10 DEF GapInv
  <2>2. ASSUME loaded' PROVE NoGaps'
    <3>1. NoGaps
      BY <2>1, <2>2 DEF Orderly
    <3>2. \A old \in Showing' : old \in Showing \/ \A id \in Living' : old < id => Held(id)'
      <4>1. ASSUME Head(posts).kind = "create", NEW id \in Living', h < id PROVE Held(id)'
        <5>1. Waits(posts', id)
          BY <1>2, <1>8, <2>1, <4>1 DEF Orderly, Living
        <5> QED BY <5>1 DEF Held
      <4> QED BY <4>1
    <3>3. \A id \in Living' : Held(id)' \/ (id \in Living /\ ~Held(id))
      BY <1>8, <1>9
    <3>4. \/ more'.step = "idle" \/ more'.stale \/ more'.before = 0
          \/ more.step # "idle" /\ ~more.stale /\ more'.before = more.before
      BY <1>4
    <3> QED BY <1>8, <3>1, <3>2, <3>3, <3>4, NoGapsStay
  <2>3. ASSUME NEW r \in Range(rows'), NEW id \in DOMAIN log, r.id = 0, log[id] = r.nonce PROVE Waits(posts', id)
    <3>1. Waits(posts, id)
      BY <2>1, <2>3 DEF Orderly
    <3> QED BY <1>2, <2>3, <3>1
  <2> QED BY <1>2, <1>5, <2>1, <2>2, <2>3 DEF Orderly
<1>11. \A old \in Range(more'.page) :
         old < more'.before /\ \A id \in Living' : id < more'.before /\ old < id => id \in Range(more'.page)
  BY <1>4, <1>8 DEF GapInv
<1> QED BY <1>6, <1>7, <1>10, <1>11 DEF GapInv

\* The echo of a message takes the place of its placeholder, or comes last.
LEMMA RowCreateKeeps ==
  ASSUME RowTypes, RowInv, GapInv, Rows!ApplyCreate
  PROVE  RowTypes' /\ RowInv' /\ GapInv'
<1> DEFINE h == Head(posts).id
           p == IF log[h] = 0 THEN 0 ELSE Rows!Unsent(log[h])
           x == [id |-> h, nonce |-> log[h], state |-> "none"]
<1>1. /\ posts # <<>> /\ Head(posts).kind = "create" /\ posts' = Tail(posts) /\ Rows!Outdate
      /\ rows' = CASE p # 0 -> [rows EXCEPT ![p] = x]
                   [] p = 0 /\ h \notin Showing -> Append(rows, x)
                   [] OTHER -> rows
      /\ UNCHANGED <<loaded, sends, deletes, log, gone, discarded, outran, overlap>>
  BY RowSets, RowNames DEF Rows!ApplyCreate, Rows!IsNext
<1>2. h \in DOMAIN log /\ h \in RowIds /\ h # 0
  <2>1. posts \in Seq(Posted)
    BY DEF RowTypes
  <2>2. Head(posts) \in Posted /\ 1 \in DOMAIN posts /\ Head(posts) = posts[1]
    BY <1>1, <2>1, PostsGo
  <2> QED BY <2>2, RowSets DEF RowInv, Posted, RowIds
<1>3. rows \in Seq(RowSet) /\ NoClash(rows, log, overlap) /\ \A r \in Range(rows) : Sound(r, log, sends)
  BY DEF RowTypes, RowInv
<1> HIDE DEF h, p
<1>4. x.id = h /\ x.nonce = log[h]
  OBVIOUS
<1> HIDE DEF x
<1>5. \/ p = 0 /\ (log[h] # 0 => \A i \in DOMAIN rows : ~(rows[i].nonce = log[h] /\ rows[i].state # "none"))
      \/ p # 0 /\ p \in DOMAIN rows /\ rows[p].nonce = log[h] /\ log[h] # 0
  BY UnsentIs DEF p
<1>6. /\ rows' \in Seq(RowSet) /\ NoClash(rows', log, overlap) /\ \A r \in Range(rows') : Sound(r, log, sends)
      /\ h \in Showing' /\ Showing \subseteq Showing' /\ \A id \in Showing' : id \in Showing \/ id = h
      /\ \A r \in Range(rows') : r.id = 0 => r.nonce # log[h] /\ \E t \in Range(rows) : t.id = 0 /\ t.nonce = r.nonce
  <2>1. CASE p # 0
    <3>1. p \in DOMAIN rows /\ rows[p].nonce = log[h] /\ log[h] # 0
      BY <1>5, <2>1
    <3>2. /\ x \in RowSet /\ Sound(x, log, sends) /\ rows[p].id \in {0, h}
          /\ \A i \in DOMAIN rows : i # p => ~Clash(rows[i], x, log, overlap) /\ rows[i].nonce # log[h]
      BY <1>2, <3>1, SettleRow DEF x
    <3>3. rows' = [rows EXCEPT ![p] = x]
      BY <1>1, <2>1
    <3>4. /\ rows' \in Seq(RowSet) /\ NoClash(rows', log, overlap) /\ x \in Range(rows')
          /\ \A y \in Range(rows') : y = x \/ \E i \in DOMAIN rows : i # p /\ y = rows[i]
          /\ \A y \in Range(rows) : y = rows[p] \/ y \in Range(rows')
      <4>1. \A i \in DOMAIN rows : i # p => ~Clash(rows[i], x, log, overlap)
        BY <3>2
      <4> QED BY <1>3, <3>1, <3>2, <3>3, <4>1, PutKeeps
    <3>5. \A y \in Range(rows') : y = x \/ (y \in Range(rows) /\ y.nonce # log[h])
      BY <3>2, <3>4, RowRange
    <3>6. \A y \in Range(rows) : y.id \in {0, h} \/ y \in Range(rows')
      BY <3>2, <3>4
    <3> QED BY <1>2, <1>3, <1>4, <3>2, <3>4, <3>5, <3>6 DEF Showing
  <2>2. CASE p = 0
    <3>1. log[h] # 0 => \A i \in DOMAIN rows : ~(rows[i].nonce = log[h] /\ rows[i].state # "none")
      BY <1>5, <2>2
    <3>2. \A r \in Range(rows) : r.id = 0 => r.nonce # log[h]
      BY <1>3, <3>1, RowRange DEF Sound
    <3>3. CASE h \notin Showing
      <4>1. \A i \in DOMAIN rows : rows[i].id # h
        BY <1>2, <3>3, RowRange DEF Showing
      <4>2. x \in RowSet /\ Sound(x, log, sends) /\ \A i \in DOMAIN rows : ~Clash(rows[i], x, log, overlap)
        BY <1>2, <3>1, <4>1, JoinRow DEF x
      <4>3. rows' = Append(rows, x)
        BY <1>1, <2>2, <3>3
      <4>4. rows' \in Seq(RowSet) /\ Range(rows') = Range(rows) \cup {x} /\ NoClash(rows', log, overlap)
        BY <1>3, <4>2, <4>3, AddKeeps
      <4> QED BY <1>2, <1>3, <1>4, <3>2, <4>2, <4>4 DEF Showing
    <3>4. CASE h \in Showing
      <4>1. rows' = rows
        BY <1>1, <2>2, <3>4
      <4> QED BY <1>3, <3>2, <3>4, <4>1 DEF Showing
    <3> QED BY <3>3, <3>4
  <2> QED BY <2>1, <2>2
<1>7. /\ Head(posts).kind = "create" => Head(posts).id \in Showing'
      /\ Showing \ gone \subseteq Showing'
      /\ \A id \in Showing' : id \in Showing \/ (Head(posts).kind = "create" /\ id = Head(posts).id)
      /\ \A r \in Range(rows') : r.id = 0 => /\ \E t \in Range(rows) : t.id = 0 /\ t.nonce = r.nonce
                                             /\ Head(posts).kind = "create" => r.nonce # log[Head(posts).id]
  BY <1>1, <1>6 DEF h
<1> QED BY <1>1, <1>6, <1>7, EventStep

\* That of a deletion takes its row.
LEMMA RowDeleteKeeps ==
  ASSUME RowTypes, RowInv, GapInv, Rows!ApplyDelete
  PROVE  RowTypes' /\ RowInv' /\ GapInv'
<1> DEFINE h == Head(posts).id
           W == {r \in Range(rows) : r.id # h}
<1>1. /\ posts # <<>> /\ Head(posts).kind = "delete" /\ posts' = Tail(posts) /\ Rows!Outdate
      /\ rows' = Kept(rows, W)
      /\ UNCHANGED <<loaded, sends, deletes, log, gone, discarded, outran, overlap>>
  BY RowLists DEF Rows!ApplyDelete, Rows!IsNext
<1>2. h \in gone
  <2>1. posts \in Seq(Posted)
    BY DEF RowTypes
  <2>2. 1 \in DOMAIN posts /\ Head(posts) = posts[1]
    BY <1>1, <2>1, PostsGo
  <2> QED BY <1>1, <2>2 DEF RowInv
<1>3. rows \in Seq(RowSet) /\ NoClash(rows, log, overlap) /\ Range(rows) \cap W = W
  BY DEF RowTypes, RowInv
<1> HIDE DEF W
<1>4. rows' \in Seq(RowSet) /\ Range(rows') = W /\ NoClash(rows', log, overlap)
  BY <1>1, <1>3, ThinKeeps
<1>5. \A r \in Range(rows') : r \in Range(rows) /\ Sound(r, log, sends)
  BY <1>4 DEF RowInv, W
<1>6. Showing' \subseteq Showing /\ Showing \ gone \subseteq Showing'
  BY <1>2, <1>4 DEF Showing, W
<1> QED BY <1>1, <1>4, <1>5, <1>6, EventStep


-----------------------------------------------------------------------------
LEMMA RowsStart == Rows!Init => RowTypes /\ RowInv /\ GapInv
<1> SUFFICES ASSUME Rows!Init PROVE RowTypes /\ RowInv /\ GapInv
  OBVIOUS
<1> DEFINE zeros == [id \in 1..Old |-> 0]
<1>1. /\ rows = <<>> /\ loaded = FALSE /\ more = Rows!Idle /\ sends = [n \in 1..MaxSends |-> "unused"]
      /\ deletes = {} /\ log = zeros /\ gone = {} /\ posts = <<>> /\ discarded = {} /\ outran = FALSE /\ overlap = FALSE
  BY RowSets DEF Rows!Init
<1>2. PICK k \in Histories :
        load = [l \in Histories |-> IF l = k THEN [Rows!Idle EXCEPT !.step = "asked"] ELSE Rows!Idle]
  BY DEF Rows!Init
<1>3. [Rows!Idle EXCEPT !.step = "asked"] \in PageSlots
      /\ [Rows!Idle EXCEPT !.step = "asked"].page = <<>> /\ [Rows!Idle EXCEPT !.step = "asked"].step = "asked"
  BY RowSets DEF PageSlots
<1>4. load \in [Histories -> PageSlots] /\ \A l \in Histories : load[l].page = <<>> /\ load[l].step # "answered"
  BY <1>2, <1>3, RowSets
<1>5. zeros \in Seq(0..MaxSends) /\ DOMAIN zeros = 1..Old /\ Len(zeros) = Old /\ \A i \in 1..Old : zeros[i] = 0
  <2>1. \A i \in 1..Old : 0 \in 0..MaxSends
    BY RowSets
  <2> DEFINE T == 0..MaxSends
  <2> HIDE DEF T
  <2>2. Old \in Nat /\ \A i \in 1..Old : 0 \in T
    BY <2>1, RowSets DEF T
  <2>3. [i \in 1..Old |-> 0] \in Seq(T) /\ Len([i \in 1..Old |-> 0]) = Old
    BY <2>2
  <2> QED BY <2>3 DEF T
<1> HIDE DEF zeros
<1>6. Range(<<>>) = {} /\ Once(<<>>) /\ <<>> \in Seq(RowSet) /\ <<>> \in Seq(Posted)
  BY DEF Range, Once
<1>7. RowTypes
  BY <1>1, <1>4, <1>5, <1>6, RowSets DEF RowTypes, SendStates
<1>8. RowInv
  <2>1. LogOnce(log, sends)
    BY <1>1, <1>5 DEF LogOnce
  <2>2. NoClash(rows, log, overlap)
    BY <1>1 DEF NoClash
  <2>3. more.before <= Len(log)
    BY <1>1, <1>5, RowSets
  <2> QED BY <1>1, <1>4, <1>6, <2>1, <2>2, <2>3, RowSets DEF RowInv
<1>9. GapInv
  BY <1>1, <1>4, <1>6, RowSets DEF GapInv, Orderly, InTurn
<1> QED BY <1>7, <1>8, <1>9

LEMMA RowsKeep ==
  ASSUME RowTypes, RowInv, GapInv, Rows!Next
  PROVE  RowTypes' /\ RowInv' /\ GapInv'
<1>1. CASE \/ \E l \in Histories : Rows!AskLoad(l) \/ Rows!ServeLoad(l) \/ Rows!FailLoad(l)
           \/ Rows!AskMore \/ Rows!ServeMore \/ Rows!FailMore
  BY <1>1, RowRequestsKeep
<1>2. CASE \E l \in Histories : Rows!ApplyLoad(l)
  BY <1>2, RowApplyLoadKeeps
<1>3. CASE Rows!ApplyMore
  BY <1>3, RowApplyMoreKeeps
<1>4. CASE \E n \in 1..MaxSends : Rows!Send(n)
  BY <1>4, RowSendKeeps
<1>5. CASE \E n \in 1..MaxSends : Rows!Confirm(n)
  BY <1>5, RowConfirmKeeps
<1>6. CASE \E n \in 1..MaxSends : Rows!Fail(n)
  BY <1>6, RowFailKeeps
<1>7. CASE \E n, again \in 1..MaxSends : Rows!Retry(n, again)
  BY <1>7, RowRetryKeeps
<1>8. CASE \/ \E n \in 1..MaxSends : Rows!DropPending(n)
           \/ \E id \in RowIds : Rows!Delete(id) \/ Rows!FailDelete(id)
  BY <1>8, RowTakesKeep
<1>9. CASE \E n \in {0} \cup 1..MaxSends : Rows!Accept(n)
  <2>1. {0} \cup 1..MaxSends = 0..MaxSends
    BY RowSets
  <2> QED BY <1>9, <2>1, RowAcceptKeeps
<1>10. CASE \E id \in RowIds : Rows!SrvDelete(id)
  BY <1>10, RowSrvDeleteKeeps
<1>11. CASE Rows!ApplyCreate \/ Rows!ApplyDelete \/ Rows!LoseEvents
  BY <1>11, RowCreateKeeps, RowDeleteKeeps, RowLoseKeeps
<1> QED BY <1>1, <1>2, <1>3, <1>4, <1>5, <1>6, <1>7, <1>8, <1>9, <1>10, <1>11, RowSets DEF Rows!Next

LEMMA RowsInvariant == Spec => [](RowTypes /\ RowInv /\ GapInv)
<1>1. Init => RowTypes /\ RowInv /\ GapInv
  BY RowsStart DEF Init
<1>2. RowTypes /\ RowInv /\ GapInv /\ [Next]_vars => (RowTypes /\ RowInv /\ GapInv)'
  <2> SUFFICES ASSUME RowTypes, RowInv, GapInv, [Next]_vars
               PROVE  RowTypes' /\ RowInv' /\ GapInv'
    OBVIOUS
  <2>1. CASE UNCHANGED rowVars
    <3>1. UNCHANGED <<rows, loaded, load, more, sends, deletes, log, gone, posts, discarded, outran, overlap>>
      BY <2>1 DEF rowVars
    <3>2. RowTypes'
      BY <3>1 DEF RowTypes
    <3>3. RowInv'
      BY <3>1 DEF RowInv
    <3>4. Living' = Living /\ Showing' = Showing /\ TakenOut' = TakenOut /\ \A id : Held(id)' <=> Held(id)
      BY <3>1 DEF Living, Showing, TakenOut, Held
    <3>5. \A pg : PageTold(pg)' <=> PageTold(pg)
      BY <3>1, <3>4 DEF PageTold
    <3>6. NoGaps' <=> NoGaps
      BY <3>1, <3>4 DEF NoGaps
    <3>7. Orderly => Orderly'
      BY <3>1, <3>5, <3>6 DEF Orderly
    <3> QED BY <3>1, <3>2, <3>3, <3>4, <3>7 DEF GapInv
  <2>2. CASE Rows!Next
    BY <2>2, RowsKeep
  <2> QED BY <2>1, <2>2 DEF Next, vars
<1> QED BY <1>1, <1>2, PTL DEF Spec

\* Whichever of answer, echo and page comes first, however a send is retried and
\* whatever is lost, no message and no send has two rows, unless a page of older
\* messages brought one that was still being sent (applyMessageCreate and
\* reconcilePending look for the nonce, loadMore does not).
THEOREM RowsAreNotDoubled == Spec => []NoDoubleInsertUnlessOverlap
<1>1. RowInv => NoDoubleInsertUnlessOverlap
  <2> SUFFICES ASSUME RowInv, ~overlap, NEW i \in DOMAIN rows, NEW j \in DOMAIN rows, i # j
               PROVE  /\ rows[i].id = rows[j].id => rows[i].id = 0
                      /\ Rows!SendOf(rows[i]) = Rows!SendOf(rows[j]) => Rows!SendOf(rows[i]) = 0
    BY DEF NoDoubleInsertUnlessOverlap, Rows!NoDoubleInsertUnlessOverlap, Rows!NoDoubleInsert
  <2>1. ~Clash(rows[i], rows[j], log, overlap)
    BY DEF RowInv, NoClash
  <2> QED BY <2>1 DEF Clash, SendIn, Rows!SendOf
<1> QED BY <1>1, RowsInvariant, PTL

\* When nothing is on its way the rows of a loaded channel have no gap from the
\* oldest on, but for what the user took out, unless events were lost, a page was
\* outdated when it was applied, or an answer appended an older message.
THEOREM RowsHaveNoGap == Spec => []NoGapUnlessRaced
<1>1. GapInv => NoGapUnlessRaced
  <2> SUFFICES ASSUME GapInv, loaded, Rows!Quiet, ~outran, NEW id \in Rows!Live, NEW old \in Rows!Shown, old < id
               PROVE  id \in Rows!Shown \cup discarded
    BY DEF NoGapUnlessRaced, Rows!NoGapUnlessRaced
  <2>1. posts = <<>> /\ deletes = {}
    BY DEF Rows!Quiet
  <2>2. Held(id)
    BY RowNames DEF GapInv, Orderly, NoGaps
  <2> QED BY <2>1, <2>2, RowNames DEF Held, Waits
<1> QED BY <1>1, RowsInvariant, PTL

-----------------------------------------------------------------------------
(* The types of the scheduled messages.  The clock of a draft bounds its    *)
(* versions.                                                                *)

Version == 0..MaxVersion
DraftPages == SUBSET [d : Drafts, v : Version \ {0}]
DraftSlots == [step : {"idle", "asked", "answered"}, page : DraftPages, stale : BOOLEAN]
Outcomes == [op : {"put", "cancel"}, d : Drafts, v : Version \ {0}]

DraftTypes ==
  /\ list \in [Drafts -> Version] /\ listed \in BOOLEAN /\ fetching \in BOOLEAN
  /\ pages \in [Requests -> DraftSlots] /\ answers \subseteq Outcomes
  /\ queue \in [Drafts -> Version] /\ clock \in [Drafts -> Version]
  /\ delivered \subseteq Drafts /\ doubtful \subseteq Drafts

\* These are the types of ScheduledMessages.
LEMMA DraftTypesAre == DraftTypes <=> Scheduled!TypeOK
<1>1. Version = 0..MaxVersion /\ Version \ {0} = 1..MaxVersion
  BY StoreConstants DEF Version
<1>2. Outcomes = Scheduled!Answers /\ DraftSlots = Scheduled!Slot(SUBSET [d : Drafts, v : 1..MaxVersion])
  BY <1>1 DEF Outcomes, Scheduled!Answers, DraftSlots, DraftPages, Scheduled!Slot
<1> QED BY <1>1, <1>2 DEF DraftTypes, Scheduled!TypeOK

\* What a slot of a fetch may hold.
LEMMA DraftSlotFacts ==
  /\ Scheduled!Idle \in DraftSlots /\ Scheduled!Asked \in DraftSlots
  /\ \A P \in DraftPages : Scheduled!Answered(P) \in DraftSlots
  /\ \A s \in DraftSlots : s.page \in DraftPages /\ Scheduled!Aged(s) \in DraftSlots
  BY DEF DraftSlots, DraftPages, Scheduled!Idle, Scheduled!Asked, Scheduled!Answered, Scheduled!Aged

\* Steps of a fetch: what it leaves in its slot and in the list.
LEMMA DraftFetchTypes ==
  ASSUME DraftTypes, NEW f \in Requests,
         Scheduled!OpenPane(f) \/ Scheduled!ServePage(f) \/ Scheduled!ApplyPage(f) \/ Scheduled!FailPage(f)
  PROVE  DraftTypes'
<1> DEFINE Queued == {[d |-> d, v |-> queue[d]] : d \in {e \in Drafts : queue[e] # 0}}
           page == pages[f].page
<1>1. Queued \in DraftPages
  BY DEF DraftTypes, DraftPages
<1>2. page \in DraftPages
  BY DraftSlotFacts DEF DraftTypes
<1>3. /\ \E new \in {Scheduled!Idle, Scheduled!Asked, Scheduled!Answered(Queued)} : pages' = [pages EXCEPT ![f] = new]
      /\ UNCHANGED <<answers, queue, clock, delivered>>
  BY DEF Scheduled!OpenPane, Scheduled!ServePage, Scheduled!ApplyPage, Scheduled!FailPage, Scheduled!queueVars
<1>4. pages' \in [Requests -> DraftSlots]
  <2> HIDE DEF Queued
  <2> QED BY <1>1, <1>3, DraftSlotFacts DEF DraftTypes
<1>5. listed' \in BOOLEAN /\ fetching' \in BOOLEAN
  BY DEF DraftTypes, Scheduled!OpenPane, Scheduled!ServePage, Scheduled!ApplyPage, Scheduled!FailPage
<1>6. doubtful' \subseteq Drafts
  BY DEF DraftTypes, Scheduled!OpenPane, Scheduled!ServePage, Scheduled!ApplyPage, Scheduled!FailPage
<1>7. list' \in [Drafts -> Version]
  <2>1. 0 \in Version
    BY StoreConstants DEF Version
  <2>2. CASE list' = [d \in Drafts |-> IF \E e \in page : e.d = d THEN (CHOOSE e \in page : e.d = d).v ELSE 0]
    <3>1. ASSUME NEW d \in Drafts, \E e \in page : e.d = d PROVE (CHOOSE e \in page : e.d = d).v \in Version
      <4>1. (CHOOSE e \in page : e.d = d) \in page
        BY <3>1
      <4> QED BY <1>2, <4>1 DEF DraftPages
    <3> HIDE DEF page
    <3> QED BY <2>1, <2>2, <3>1
  <2>3. CASE list' = list \/ list' = [d \in Drafts |-> 0]
    BY <2>1, <2>3 DEF DraftTypes
  <2> QED BY <2>2, <2>3 DEF Scheduled!OpenPane, Scheduled!ServePage, Scheduled!ApplyPage, Scheduled!FailPage
<1> QED BY <1>3, <1>4, <1>5, <1>6, <1>7 DEF DraftTypes

\* A request the server carries out.
LEMMA DraftRequestTypes ==
  ASSUME DraftTypes, NEW d \in Drafts, Scheduled!Submit(d) \/ Scheduled!Cancel(d)
  PROVE  DraftTypes'
<1>1. PICK op \in {"put", "cancel"} :
        /\ clock[d] = 0 \/ clock[d] < MaxVersion
        /\ clock' = [clock EXCEPT ![d] = @ + 1]
        /\ queue' = [queue EXCEPT ![d] = clock'[d]] \/ queue' = [queue EXCEPT ![d] = 0]
        /\ Scheduled!Reply(op, d)
        /\ UNCHANGED <<list, listed, fetching, delivered>>
  BY DEF Scheduled!Submit, Scheduled!Cancel
<1>2. /\ clock'[d] \in Version \ {0} /\ 0 \in Version
      /\ clock' \in [Drafts -> Version]
  BY <1>1, StoreConstants DEF DraftTypes, Version
<1>3. queue' \in [Drafts -> Version]
  BY <1>1, <1>2 DEF DraftTypes
<1>4. answers' \subseteq Outcomes /\ pages' \in [Requests -> DraftSlots] /\ doubtful' \subseteq Drafts
  <2>1. CASE answers' = answers \cup {[op |-> op, d |-> d, v |-> clock'[d]]} /\ UNCHANGED <<pages, doubtful>>
    BY <1>2, <2>1 DEF DraftTypes, Outcomes
  <2>2. CASE doubtful' = doubtful \cup {d} /\ pages' = Scheduled!AllAged(pages) /\ UNCHANGED answers
    BY <2>2, DraftSlotFacts DEF DraftTypes, Scheduled!AllAged
  <2> QED BY <1>1, <2>1, <2>2 DEF Scheduled!Reply
<1> QED BY <1>1, <1>2, <1>3, <1>4 DEF DraftTypes

LEMMA DraftTypesKeep ==
  ASSUME DraftTypes, Scheduled!Next
  PROVE  DraftTypes'
<1>1. ASSUME NEW d \in Drafts, Scheduled!Deliver(d) PROVE DraftTypes'
  BY <1>1, StoreConstants DEF Scheduled!Deliver, Scheduled!listVars, DraftTypes, Version
<1>2. ASSUME NEW a \in answers, Scheduled!Accept(a) PROVE DraftTypes'
  <2>1. /\ list' = [list EXCEPT ![a.d] = IF a.op = "cancel" THEN 0 ELSE a.v] /\ answers' = answers \ {a}
        /\ pages' = Scheduled!AllAged(pages) /\ doubtful' \in {doubtful, doubtful \cup {a.d}}
        /\ UNCHANGED <<listed, fetching, queue, clock, delivered>>
    BY <1>2 DEF Scheduled!Accept, Scheduled!Upsert, Scheduled!queueVars
  <2>2. a.d \in Drafts /\ a.v \in Version /\ 0 \in Version
    BY StoreConstants DEF DraftTypes, Outcomes, Version
  <2>3. list' \in [Drafts -> Version]
    BY <2>1, <2>2 DEF DraftTypes
  <2>4. pages' \in [Requests -> DraftSlots]
    BY <2>1, DraftSlotFacts DEF DraftTypes, Scheduled!AllAged
  <2> QED BY <2>1, <2>2, <2>3, <2>4 DEF DraftTypes
<1>3. CASE Scheduled!Reset
  <2>1. list' \in [Drafts -> Version]
    BY <1>3, StoreConstants DEF Scheduled!Reset, Version
  <2> QED BY <1>3, <2>1 DEF Scheduled!Reset, Scheduled!queueVars, DraftTypes
<1> QED BY <1>1, <1>2, <1>3, DraftFetchTypes, DraftRequestTypes DEF Scheduled!Next

LEMMA DraftTypesStart == Scheduled!Init => DraftTypes
<1> SUFFICES ASSUME Scheduled!Init PROVE DraftTypes
  OBVIOUS
<1>1. 0..1 \subseteq Version /\ 0 \in Version
  BY StoreConstants DEF Version
<1>2. /\ list = [d \in Drafts |-> 0] /\ pages = [f \in Requests |-> Scheduled!Idle]
      /\ queue \in [Drafts -> 0..1] /\ clock = queue
  BY DEF Scheduled!Init
<1>3. list \in [Drafts -> Version] /\ queue \in [Drafts -> Version] /\ pages \in [Requests -> DraftSlots]
  BY <1>1, <1>2, DraftSlotFacts
<1> QED BY <1>2, <1>3 DEF Scheduled!Init, DraftTypes

\* The scheduled messages have their types in every state.
LEMMA ScheduledTypesInvariant == Spec => []Scheduled!TypeOK
<1>1. Init => DraftTypes
  BY DraftTypesStart DEF Init
<1>2. DraftTypes /\ [Next]_vars => DraftTypes'
  <2> SUFFICES ASSUME DraftTypes, [Next]_vars PROVE DraftTypes'
    OBVIOUS
  <2>1. CASE UNCHANGED scheduledVars
    BY <2>1 DEF scheduledVars, DraftTypes
  <2>2. CASE Scheduled!Next
    BY <2>2, DraftTypesKeep
  <2> QED BY <2>1, <2>2 DEF Next, FetchedNext, fetchedVars, vars
<1> QED BY <1>1, <1>2, DraftTypesAre, PTL DEF Spec

-----------------------------------------------------------------------------
(* The types of the copies of a message: the number of the server's last   *)
(* change bounds every content and every change that is told.              *)

Revisions == 0..MaxRevisions
Contents == [text : Revisions, pinned : BOOLEAN]
MessageStates == [text : Revisions, pinned : BOOLEAN, rev : Revisions]
Results == [order : {"edit", "pin", "unpin"}, text : Revisions, pinned : BOOLEAN, rev : Revisions \ {0}]
Notices == [event : {"update", "pins"}, state : MessageStates]

CopyRanges ==
  /\ row \in Contents /\ cache \in {"none", "in", "out"} /\ pinLoads \in [Requests -> PinSlots]
  /\ replies \subseteq Results /\ now \in MessageStates /\ notices \in Seq(Notices)
  /\ heard \in Revisions /\ overtaken \in BOOLEAN /\ late \in BOOLEAN

\* These are the types of MessageCopies.
LEMMA CopyRangesAre == CopyRanges <=> Copies!TypeOK
<1>1. Revisions = 0..MaxRevisions /\ Revisions \ {0} = 1..MaxRevisions
  BY StoreConstants DEF Revisions
<1> QED BY <1>1 DEF CopyRanges, Contents, MessageStates, Results, Notices, PinSlots, Copies!TypeOK,
                    Copies!Slot, Copies!States, Copies!Orders

\* What a slot of a load of the pins may hold, and what contents are.
LEMMA PinSlotFacts ==
  /\ Copies!Idle \in PinSlots /\ Copies!Asked \in PinSlots
  /\ \A P \in SUBSET {"in", "out"} : Copies!Answered(P) \in PinSlots
  /\ \A s \in PinSlots : s.page \subseteq {"in", "out"} /\ Copies!Aged(s) \in PinSlots
  /\ \A s \in MessageStates : Copies!Content(s) \in Contents
  /\ \A a \in Results : Copies!Content(a) \in Contents
  BY DEF PinSlots, Copies!Idle, Copies!Asked, Copies!Answered, Copies!Aged, Copies!Content, MessageStates,
         Contents, Results

LEMMA CopyFetchRanges ==
  ASSUME CopyRanges, NEW f \in Requests,
         Copies!OpenPins(f) \/ Copies!ServePins(f) \/ Copies!ApplyPins(f) \/ Copies!FailPins(f)
  PROVE  CopyRanges'
<1> DEFINE P == {IF now.pinned THEN "in" ELSE "out"}
<1>1. /\ \E new \in {Copies!Idle, Copies!Asked, Copies!Answered(P)} : pinLoads' = [pinLoads EXCEPT ![f] = new]
      /\ UNCHANGED <<row, replies, now, notices, heard, overtaken>>
  BY DEF Copies!OpenPins, Copies!ServePins, Copies!ApplyPins, Copies!FailPins
<1>2. P \in SUBSET {"in", "out"}
  OBVIOUS
<1>3. pinLoads' \in [Requests -> PinSlots]
  <2> HIDE DEF P
  <2> QED BY <1>1, <1>2, PinSlotFacts DEF CopyRanges
<1>4. pinLoads[f].page \subseteq {"in", "out"} /\ pinLoads[f].stale \in BOOLEAN
  BY DEF CopyRanges, PinSlots
<1>5. cache' \in {"none", "in", "out"} /\ late' \in BOOLEAN
  BY <1>4 DEF CopyRanges, Copies!OpenPins, Copies!ServePins, Copies!ApplyPins, Copies!FailPins
<1> QED BY <1>1, <1>3, <1>5 DEF CopyRanges

\* An invalidation, and a step that is none.
LEMMA InvalidateRanges ==
  ASSUME CopyRanges, Copies!Invalidate \/ UNCHANGED <<cache, pinLoads>>
  PROVE  cache' \in {"none", "in", "out"} /\ pinLoads' \in [Requests -> PinSlots]
  BY PinSlotFacts DEF CopyRanges, Copies!Invalidate, Copies!AllAged

\* A change of the server, and what it tells of it.
LEMMA CopyChangeRanges ==
  ASSUME CopyRanges, NEW o \in {"edit", "pin", "unpin"}, Copies!Change(o)
  PROVE  /\ now' \in MessageStates /\ now'.rev \in Revisions \ {0} /\ notices' \in Seq(Notices)
<1>1. now.rev + 1 \in Revisions \ {0}
  <2>1. now.rev \in 0..MaxRevisions /\ now.rev < MaxRevisions
    BY DEF CopyRanges, Copies!Change, MessageStates, Revisions
  <2> QED BY <2>1, StoreConstants DEF Revisions
<1>2. \/ now' = [now EXCEPT !.text = now.rev + 1, !.rev = now.rev + 1]
      \/ now' = [now EXCEPT !.pinned = (o = "pin"), !.rev = now.rev + 1]
  BY DEF Copies!Change
<1>3. now' \in MessageStates /\ now'.rev = now.rev + 1
  BY <1>1, <1>2 DEF CopyRanges, MessageStates
<1>4. Copies!Notice("update") \in Notices /\ Copies!Notice("pins") \in Notices
  BY <1>3 DEF Copies!Notice, Notices
<1>5. notices' \in Seq(Notices)
  <2>1. \/ notices' = Append(notices, Copies!Notice("update"))
        \/ notices' = notices \o <<Copies!Notice("update"), Copies!Notice("pins")>>
    BY DEF Copies!Change
  <2>2. notices \in Seq(Notices)
    BY DEF CopyRanges
  <2>3. PICK up \in Notices, pins \in Notices : notices' = Append(notices, up) \/ notices' = notices \o <<up, pins>>
    BY <1>4, <2>1
  <2>4. Append(notices, up) \in Seq(Notices) /\ <<up, pins>> \in Seq(Notices)
    BY <2>2
  <2>5. notices \o <<up, pins>> \in Seq(Notices)
    BY <2>2, <2>4
  <2> QED BY <2>3, <2>4, <2>5
<1> QED BY <1>1, <1>3, <1>5

LEMMA CopyRangesKeep ==
  ASSUME CopyRanges, Copies!Next
  PROVE  CopyRanges'
<1>1. ASSUME NEW o \in {"edit", "pin", "unpin"}, Copies!Carry(o) \/ Copies!Other(o) PROVE CopyRanges'
  <2>1. now' \in MessageStates /\ now'.rev \in Revisions \ {0} /\ notices' \in Seq(Notices)
    BY <1>1, CopyChangeRanges DEF Copies!Carry, Copies!Other
  <2>2. [order |-> o, text |-> now'.text, pinned |-> now'.pinned, rev |-> now'.rev] \in Results
    BY <2>1 DEF MessageStates, Results
  <2> QED BY <1>1, <2>1, <2>2 DEF Copies!Carry, Copies!Other, Copies!copyVars, CopyRanges
<1>2. ASSUME NEW a \in replies, Copies!ApplyReply(a) PROVE CopyRanges'
  <2>1. a \in Results /\ replies' \subseteq Results
    BY <1>2 DEF Copies!ApplyReply, CopyRanges
  <2>2. row' = Copies!Content(a) \/ row' = [row EXCEPT !.pinned = (a.order = "pin")]
    BY <1>2 DEF Copies!ApplyReply
  <2>3. row' \in Contents
    BY <2>1, <2>2, PinSlotFacts DEF CopyRanges, Contents
  <2>4. overtaken' \in BOOLEAN
    <3>1. overtaken' = (a.rev < heard) \/ overtaken' = (overtaken \/ a.rev < heard)
      BY <1>2 DEF Copies!ApplyReply
    <3>2. (a.rev < heard) \in BOOLEAN /\ (overtaken \/ a.rev < heard) \in BOOLEAN
      OBVIOUS
    <3> QED BY <3>1, <3>2, Zenon
  <2>5. UNCHANGED <<now, notices, heard, late>> /\ (Copies!Invalidate \/ UNCHANGED <<cache, pinLoads>>)
    BY <1>2 DEF Copies!ApplyReply
  <2> QED BY <2>1, <2>3, <2>4, <2>5, InvalidateRanges DEF CopyRanges
<1>3. CASE Copies!HandleNotice
  <2> DEFINE n == Head(notices)
  <2>1. n \in Notices /\ notices' \in Seq(Notices)
    BY <1>3 DEF Copies!HandleNotice, CopyRanges
  <2>2. n.state \in MessageStates /\ n.state.rev \in Revisions
    BY <2>1 DEF Notices, MessageStates
  <2>3. \/ row' = Copies!Content(n.state) /\ heard' = n.state.rev /\ overtaken' = FALSE
        \/ UNCHANGED <<row, heard, overtaken>>
    BY <1>3 DEF Copies!HandleNotice, Copies!ApplyUpdate
  <2>4. row' \in Contents /\ heard' \in Revisions /\ overtaken' \in BOOLEAN
    <3> HIDE DEF n
    <3> QED BY <2>2, <2>3, PinSlotFacts DEF CopyRanges
  <2>5. UNCHANGED <<replies, now, late>> /\ (Copies!Invalidate \/ UNCHANGED <<cache, pinLoads>>)
    BY <1>3 DEF Copies!HandleNotice
  <2> QED BY <2>1, <2>4, <2>5, InvalidateRanges DEF CopyRanges
<1> QED BY <1>1, <1>2, <1>3, CopyFetchRanges DEF Copies!Next, Copies!Orders

\* The copies of a message have their types in every state.
LEMMA CopiesTypesInvariant == Spec => []Copies!TypeOK
<1>1. Init => CopyRanges
  <2> SUFFICES ASSUME Copies!Init PROVE CopyRanges
    BY DEF Init
  <2>1. 0 \in Revisions /\ now \in MessageStates
    BY StoreConstants DEF Copies!Init, Copies!States, Revisions, MessageStates
  <2>2. row = Copies!Content(now) /\ pinLoads = [f \in Requests |-> Copies!Idle] /\ notices = <<>> /\ replies = {}
    BY DEF Copies!Init
  <2>3. row \in Contents /\ pinLoads \in [Requests -> PinSlots] /\ notices \in Seq(Notices)
    BY <2>1, <2>2, PinSlotFacts
  <2> QED BY <2>1, <2>2, <2>3 DEF Copies!Init, CopyRanges
<1>2. CopyRanges /\ [Next]_vars => CopyRanges'
  <2> SUFFICES ASSUME CopyRanges, [Next]_vars PROVE CopyRanges'
    OBVIOUS
  <2>1. CASE UNCHANGED copyVars
    BY <2>1 DEF copyVars, CopyRanges
  <2>2. CASE Copies!Next
    BY <2>2, CopyRangesKeep
  <2> QED BY <2>1, <2>2 DEF Next, FetchedNext, fetchedVars, vars
<1> QED BY <1>1, <1>2, CopyRangesAre, PTL DEF Spec

-----------------------------------------------------------------------------
(* The bounds of the read states.  Nothing that is read, opened or counted  *)
(* by a page is newer than the channel; a badge grows by one for each event *)
(* after the page it was taken from, and a channel has no more events than  *)
(* messages, the next of which tells how many are left.                     *)

Within(c) ==
  /\ sent[c] <= MaxMentions /\ acked[c] <= sent[c] /\ latest[c] <= sent[c] /\ before[c] <= sent[c]
  /\ covers[c] <= MaxMentions /\ cleared[c] <= MaxMentions
  /\ 0 <= count[c] /\ count[c] <= MaxMentions + sent[c]

AcksSent == \A a \in acks : a.upto \in 1..sent[a.channel]

CountsAhead == \A i \in 1..Len(mentions) : count[mentions[i].channel] < MaxMentions + mentions[i].upto

PagesWithin == \A l \in Requests : \A e \in loads[l].page : e.n \in 0..MaxMentions /\ e.upto \in 0..MaxMentions

ReadBounds ==
  /\ known \in BOOLEAN /\ outdated \in BOOLEAN /\ logins \in 0..MaxLogins
  /\ \A c \in Channels : Within(c)
  /\ AcksSent /\ CountsAhead /\ PagesWithin

\* The bounds and the types of the invariant are those of TypeOK.
LEMMA ReadBoundsFollow ==
  ASSUME ReadInv, ReadBounds
  PROVE  Reads!TypeOK
<1>1. MaxMentions \in Nat
  BY StoreConstants
<1>2. ReadTypes /\ InOrder
  BY DEF ReadInv
<1>3. \A c \in Channels : /\ sent[c] \in 0..MaxMentions /\ acked[c] \in 0..MaxMentions
                          /\ latest[c] \in 0..MaxMentions /\ before[c] \in 0..MaxMentions
                          /\ covers[c] \in 0..MaxMentions /\ cleared[c] \in 0..MaxMentions
                          /\ count[c] \in 0..(2 * MaxMentions)
  <2> SUFFICES ASSUME NEW c \in Channels
               PROVE  /\ sent[c] \in 0..MaxMentions /\ acked[c] \in 0..MaxMentions
                      /\ latest[c] \in 0..MaxMentions /\ before[c] \in 0..MaxMentions
                      /\ covers[c] \in 0..MaxMentions /\ cleared[c] \in 0..MaxMentions
                      /\ count[c] \in 0..(2 * MaxMentions)
    OBVIOUS
  <2>1. Within(c)
    BY DEF ReadBounds
  <2>2. /\ sent[c] \in Nat /\ acked[c] \in Nat /\ latest[c] \in Nat /\ before[c] \in Nat
        /\ covers[c] \in Nat /\ cleared[c] \in Nat /\ count[c] \in Int
    BY <1>2 DEF ReadTypes
  <2> QED BY <1>1, <2>1, <2>2 DEF Within
<1>4. /\ sent \in [Channels -> 0..MaxMentions] /\ acked \in [Channels -> 0..MaxMentions]
      /\ latest \in [Channels -> 0..MaxMentions] /\ before \in [Channels -> 0..MaxMentions]
      /\ covers \in [Channels -> 0..MaxMentions] /\ cleared \in [Channels -> 0..MaxMentions]
      /\ count \in [Channels -> 0..(2 * MaxMentions)]
  BY <1>2, <1>3 DEF ReadTypes
<1> DEFINE Place == [channel : Channels, upto : 1..MaxMentions]
<1>5. acks \subseteq Place
  <2> SUFFICES ASSUME NEW a \in acks PROVE a \in Place
    OBVIOUS
  <2>1. a \in Positions /\ a.upto \in 1..sent[a.channel]
    BY <1>2 DEF ReadTypes, ReadBounds, AcksSent
  <2>2. a.channel \in Channels /\ sent[a.channel] \in 0..MaxMentions
    BY <1>3, <2>1 DEF Positions
  <2> QED BY <1>1, <2>1, <2>2 DEF Positions
<1>6. mentions \in Seq(Place)
  <2>1. mentions \in Seq(Positions)
    BY <1>2 DEF ReadTypes
  <2>2. ASSUME NEW i \in 1..Len(mentions) PROVE mentions[i] \in Place
    <3>1. mentions[i] \in Positions /\ mentions[i].upto \in 1..sent[mentions[i].channel]
      BY <1>2, <2>1 DEF InOrder
    <3>2. mentions[i].channel \in Channels /\ sent[mentions[i].channel] \in 0..MaxMentions
      BY <1>3, <3>1 DEF Positions
    <3> QED BY <1>1, <3>1, <3>2 DEF Positions
  <2> HIDE DEF Place
  <2> QED BY <2>1, <2>2
<1> DEFINE Page == [c : Channels, n : 0..MaxMentions, upto : 0..MaxMentions]
<1>7. loads \in [Requests -> Reads!Slot(SUBSET Page)]
  <2> SUFFICES ASSUME NEW l \in Requests PROVE loads[l] \in Reads!Slot(SUBSET Page)
    BY <1>2 DEF ReadTypes
  <2>1. loads[l] \in Reads!Slot(SUBSET Entries)
    BY <1>2 DEF ReadTypes
  <2>2. loads[l].page \subseteq Page
    <3>1. loads[l].page \subseteq Entries
      BY <2>1 DEF Reads!Slot
    <3>2. \A e \in loads[l].page : e.n \in 0..MaxMentions /\ e.upto \in 0..MaxMentions
      BY DEF ReadBounds, PagesWithin
    <3> QED BY <3>1, <3>2 DEF Entries
  <2> QED BY <2>1, <2>2 DEF Reads!Slot
<1> QED BY <1>2, <1>4, <1>5, <1>6, <1>7 DEF ReadBounds, ReadTypes, Reads!TypeOK, Reads!Positions

\* A load that is asked for, served or failed: a page counts what was not read.
LEMMA BoundsOfLoads ==
  ASSUME ReadInv, ReadBounds, NEW l \in Requests,
         Reads!AskReadState(l) \/ Reads!ServeReadState(l) \/ Reads!FailReadState(l)
  PROVE  ReadBounds'
<1> DEFINE P == {[c |-> c, n |-> sent[c] - acked[c], upto |-> sent[c]] : c \in Channels}
<1>1. /\ UNCHANGED <<count, known, opened, latest, acks, sent, before, acked, mentions, covers, cleared, outdated>>
      /\ \E new \in {Reads!Asked, Reads!Idle, Reads!Answered(P)} : loads' = [loads EXCEPT ![l] = new]
  BY DEF Reads!AskReadState, Reads!ServeReadState, Reads!FailReadState, Reads!serverVars, Reads!obsVars
<1>2. \A e \in P : e.n \in 0..MaxMentions /\ e.upto \in 0..MaxMentions
  <2> SUFFICES ASSUME NEW c \in Channels
               PROVE  sent[c] - acked[c] \in 0..MaxMentions /\ sent[c] \in 0..MaxMentions
    OBVIOUS
  <2>1. sent[c] \in Nat /\ acked[c] \in Nat /\ MaxMentions \in Nat
    BY StoreConstants DEF ReadInv, ReadTypes
  <2>2. sent[c] <= MaxMentions /\ acked[c] <= sent[c]
    BY DEF ReadBounds, Within
  <2> QED BY <2>1, <2>2
<1>3. PagesWithin'
  <2> HIDE DEF P
  <2>1. PICK new \in {Reads!Asked, Reads!Idle, Reads!Answered(P)} : loads' = [loads EXCEPT ![l] = new]
    BY <1>1
  <2>2. new.page \in {{}, P}
    BY DEF Reads!Asked, Reads!Idle, Reads!Answered
  <2>3. \A k \in Requests : loads'[k] = loads[k] \/ loads'[k] = new
    BY <2>1 DEF ReadInv, ReadTypes
  <2> QED BY <1>2, <2>2, <2>3 DEF ReadBounds, PagesWithin
<1>4. logins' \in 0..MaxLogins
  <2>1. logins' = logins \/ (logins < MaxLogins /\ logins' = logins + 1)
    BY DEF Reads!AskReadState, Reads!ServeReadState, Reads!FailReadState
  <2> QED BY <2>1, StoreConstants DEF ReadBounds
<1> QED BY <1>1, <1>3, <1>4 DEF ReadBounds, Within, AcksSent, CountsAhead

\* A page that is applied: the badges are what it counted.
LEMMA BoundsOfApply ==
  ASSUME ReadInv, ReadBounds, NEW l \in Requests, Reads!ApplyReadState(l)
  PROVE  ReadBounds'
<1>1. /\ loads[l].step = "answered" /\ outdated' = loads[l].stale /\ known' = TRUE
      /\ count' = [c \in Channels |-> Reads!Entry(loads[l].page, c).n]
      /\ covers' = [c \in Channels |-> Reads!Entry(loads[l].page, c).upto]
      /\ loads' = [loads EXCEPT ![l] = Reads!Idle]
      /\ UNCHANGED <<opened, latest, acks, logins, sent, before, acked, mentions, cleared>>
  BY DEF Reads!ApplyReadState, Reads!serverVars
<1>2. PICK n \in [Channels -> Int], u \in [Channels -> Nat] : loads[l].page = Table(n, u)
  BY <1>1 DEF ReadInv, LoadsFit
<1>3. \A c \in Channels : n[c] \in 0..MaxMentions /\ u[c] \in 0..MaxMentions
  <2> SUFFICES ASSUME NEW c \in Channels PROVE n[c] \in 0..MaxMentions /\ u[c] \in 0..MaxMentions
    OBVIOUS
  <2>1. [c |-> c, n |-> n[c], upto |-> u[c]] \in loads[l].page
    BY <1>2 DEF Table
  <2> QED BY <2>1 DEF ReadBounds, PagesWithin
<1>4. \A c \in Channels : count'[c] = n[c] /\ covers'[c] = u[c]
  BY <1>1, <1>2, TableTells
<1>5. \A c \in Channels : Within(c)'
  <2> SUFFICES ASSUME NEW c \in Channels PROVE Within(c)'
    OBVIOUS
  <2>1. sent[c] \in Nat /\ MaxMentions \in Nat /\ Within(c)
    BY StoreConstants DEF ReadInv, ReadTypes, ReadBounds
  <2> QED BY <1>1, <1>3, <1>4, <2>1 DEF Within
<1>6. CountsAhead'
  <2> SUFFICES ASSUME NEW i \in 1..Len(mentions)
               PROVE  count'[mentions[i].channel] < MaxMentions + mentions[i].upto
    BY <1>1 DEF CountsAhead
  <2>1. mentions[i] \in Positions /\ mentions[i].upto \in 1..sent[mentions[i].channel]
    <3>1. mentions \in Seq(Positions)
      BY DEF ReadInv, ReadTypes
    <3> QED BY <3>1 DEF ReadInv, InOrder
  <2>2. mentions[i].channel \in Channels /\ sent[mentions[i].channel] \in Nat /\ MaxMentions \in Nat
    BY <2>1, StoreConstants DEF Positions, ReadInv, ReadTypes
  <2> QED BY <1>3, <1>4, <2>1, <2>2
<1>7. PagesWithin'
  <2>1. \A k \in Requests : loads'[k] = loads[k] \/ loads'[k] = Reads!Idle
    BY <1>1 DEF ReadInv, ReadTypes
  <2> QED BY <2>1 DEF ReadBounds, PagesWithin, Reads!Idle
<1>8. outdated' \in BOOLEAN
  BY <1>1 DEF ReadInv, ReadTypes, Reads!Slot
<1> QED BY <1>1, <1>5, <1>6, <1>7, <1>8 DEF ReadBounds, AcksSent

\* Badges are cleared, of one channel or of all; what is read is what was there.
LEMMA BoundsOfClear ==
  ASSUME ReadInv, ReadBounds,
         \A c \in Channels : count'[c] \in {0, count[c]} /\ cleared'[c] \in {cleared[c], covers[c]} /\ latest'[c] \in {0, latest[c]},
         \A a \in acks' : a \in acks \/ a.upto \in 1..sent[a.channel],
         known' \in BOOLEAN,
         UNCHANGED <<loads, logins, sent, before, acked, mentions, covers, outdated>>
  PROVE  ReadBounds'
<1>1. \A c \in Channels : Within(c)'
  <2> SUFFICES ASSUME NEW c \in Channels PROVE Within(c)'
    OBVIOUS
  <2>1. sent[c] \in Nat /\ MaxMentions \in Nat /\ Within(c)
    BY StoreConstants DEF ReadInv, ReadTypes, ReadBounds
  <2> QED BY <2>1 DEF Within
<1>2. AcksSent'
  BY DEF ReadBounds, AcksSent
<1>3. CountsAhead'
  <2> SUFFICES ASSUME NEW i \in 1..Len(mentions)
               PROVE  count'[mentions[i].channel] < MaxMentions + mentions[i].upto
    BY DEF CountsAhead
  <2>1. mentions[i] \in Positions /\ mentions[i].upto \in 1..sent[mentions[i].channel]
    <3>1. mentions \in Seq(Positions)
      BY DEF ReadInv, ReadTypes
    <3> QED BY <3>1 DEF ReadInv, InOrder
  <2>2. mentions[i].channel \in Channels /\ mentions[i].upto \in Nat \ {0} /\ MaxMentions \in Nat
    <3>1. mentions[i].channel \in Channels /\ mentions[i].upto \in Nat
      BY <2>1 DEF Positions
    <3>2. sent[mentions[i].channel] \in Nat
      BY <3>1 DEF ReadInv, ReadTypes
    <3>3. MaxMentions \in Nat
      BY StoreConstants
    <3> QED BY <2>1, <3>1, <3>2, <3>3
  <2>3. count[mentions[i].channel] < MaxMentions + mentions[i].upto
    BY DEF ReadBounds, CountsAhead
  <2> QED BY <2>2, <2>3
<1>4. PagesWithin'
  BY DEF ReadBounds, PagesWithin
<1> QED BY <1>1, <1>2, <1>3, <1>4 DEF ReadBounds

LEMMA BoundsOfClearMentions ==
  ASSUME ReadInv, ReadBounds, NEW c \in Channels, NEW m \in Nat, m <= sent[c], Reads!ClearMentions(c, m)
  PROVE  ReadBounds'
<1>1. /\ count' = [count EXCEPT ![c] = 0] /\ acks' = acks \cup Reads!Ack(c, m)
      /\ cleared' = [cleared EXCEPT ![c] = Reads!Maximum(@, covers[c])]
      /\ UNCHANGED <<known, loads, latest, logins, sent, before, acked, mentions, covers, outdated>>
  BY DEF Reads!ClearMentions, Reads!serverVars
<1>2. \A d \in Channels : count'[d] \in {0, count[d]} /\ cleared'[d] \in {cleared[d], covers[d]}
  BY <1>1 DEF ReadInv, ReadTypes, Reads!Maximum
<1>3. \A a \in acks' : a \in acks \/ a.upto \in 1..sent[a.channel]
  BY <1>1 DEF Reads!Ack, ReadInv, ReadTypes
<1>4. known \in BOOLEAN /\ \A d \in Channels : latest'[d] \in {0, latest[d]}
  BY <1>1 DEF ReadBounds
<1> QED BY <1>1, <1>2, <1>3, <1>4, BoundsOfClear

\* The server takes for read what was sent.
LEMMA BoundsOfTakeAck ==
  ASSUME ReadInv, ReadBounds, NEW a \in acks, Reads!TakeAck(a)
  PROVE  ReadBounds'
<1>1. /\ acks' = acks \ {a} /\ acked' = [acked EXCEPT ![a.channel] = Reads!Maximum(@, a.upto)]
      /\ UNCHANGED <<count, known, loads, opened, latest, logins, sent, before, mentions, covers, cleared, outdated>>
  BY DEF Reads!TakeAck, Reads!obsVars
<1>2. ASSUME NEW c \in Channels PROVE Within(c)'
  <2>1. acked'[c] = acked[c] \/ (c = a.channel /\ acked'[c] = a.upto)
    BY <1>1 DEF ReadInv, ReadTypes, Reads!Maximum
  <2>2. a.upto \in 1..sent[a.channel] /\ Within(c)
    BY DEF ReadBounds, AcksSent
  <2>3. sent[c] \in Nat
    BY DEF ReadInv, ReadTypes
  <2> QED BY <1>1, <2>1, <2>2, <2>3 DEF Within
<1> QED BY <1>1, <1>2 DEF ReadBounds, AcksSent, CountsAhead, PagesWithin

\* A mention is the next message, and more than any badge has counted is left.
LEMMA BoundsOfMention ==
  ASSUME ReadInv, ReadBounds, NEW c \in Channels, Reads!Mention(c)
  PROVE  ReadBounds'
<1> DEFINE e == [channel |-> c, upto |-> sent[c] + 1]
<1>1. /\ sent[c] < MaxMentions /\ sent' = [sent EXCEPT ![c] = @ + 1] /\ mentions' = Append(mentions, e)
      /\ UNCHANGED <<count, known, loads, opened, latest, acks, logins, before, acked, covers, cleared, outdated>>
  BY DEF Reads!Mention, Reads!badgeVars, Reads!obsVars
<1>2. /\ MaxMentions \in Nat /\ mentions \in Seq(Positions) /\ acks \subseteq Positions
      /\ \A d \in Channels : sent[d] \in Nat /\ sent'[d] = IF d = c THEN sent[c] + 1 ELSE sent[d]
  BY <1>1, StoreConstants DEF ReadInv, ReadTypes
<1>3. ASSUME NEW d \in Channels PROVE Within(d)'
  <2>1. Within(d) /\ acked[d] \in Nat /\ latest[d] \in Nat /\ before[d] \in Nat /\ count[d] \in Int
    BY DEF ReadBounds, ReadInv, ReadTypes
  <2> QED BY <1>1, <1>2, <2>1 DEF Within
<1>4. AcksSent'
  <2> SUFFICES ASSUME NEW a \in acks PROVE a.upto \in 1..sent'[a.channel]
    BY <1>1 DEF AcksSent
  <2>1. a.channel \in Channels /\ a.upto \in 1..sent[a.channel]
    BY <1>2 DEF Positions, ReadBounds, AcksSent
  <2> QED BY <1>2, <2>1
<1>5. CountsAhead'
  <2> SUFFICES ASSUME NEW i \in 1..Len(mentions')
               PROVE  count[mentions'[i].channel] < MaxMentions + mentions'[i].upto
    BY <1>1 DEF CountsAhead
  <2>1. CASE i \in 1..Len(mentions)
    <3>1. mentions'[i] = mentions[i]
      BY <1>1, <1>2, <2>1
    <3> QED BY <2>1, <3>1 DEF ReadBounds, CountsAhead
  <2>2. CASE i \notin 1..Len(mentions)
    <3>1. mentions'[i] = e
      <4> HIDE DEF e
      <4> QED BY <1>1, <1>2, <2>2
    <3>2. Within(c) /\ count[c] \in Int
      BY DEF ReadBounds, ReadInv, ReadTypes
    <3> QED BY <1>2, <3>1, <3>2 DEF Within
  <2> QED BY <2>1, <2>2
<1> QED BY <1>1, <1>3, <1>4, <1>5 DEF ReadBounds, PagesWithin

\* An event adds one to a badge that has not counted it.
LEMMA BoundsOfApplyMention ==
  ASSUME ReadInv, ReadBounds, Reads!ApplyMention
  PROVE  ReadBounds'
<1>1. PICK c, m :
        /\ c = Head(mentions).channel /\ m = Head(mentions).upto
        /\ mentions # <<>> /\ mentions' = Tail(mentions)
        /\ count' = [count EXCEPT ![c] = @ + 1]
        /\ latest' = [latest EXCEPT ![c] = m]
        /\ acks' \in {acks, acks \cup Reads!Ack(c, m)}
        /\ covers' = [covers EXCEPT ![c] = Reads!Maximum(@, m)]
        /\ cleared' \in {cleared, [cleared EXCEPT ![c] = Reads!Maximum(@, m)]}
        /\ loads' = Reads!AllAged(loads)
        /\ UNCHANGED <<known, opened, logins, sent, before, acked, outdated>>
  BY DEF Reads!ApplyMention, Reads!Bump
<1>2. /\ mentions \in Seq(Positions) /\ Len(mentions) \in Nat /\ Len(mentions) > 0
      /\ mentions[1] \in Positions /\ mentions[1].channel = c /\ mentions[1].upto = m
      /\ Len(mentions') = Len(mentions) - 1
      /\ \A i \in 1..Len(mentions') : mentions'[i] = mentions[i + 1]
  <2>1. mentions \in Seq(Positions)
    BY DEF ReadInv, ReadTypes
  <2> QED BY <1>1, <2>1
<1>3. c \in Channels /\ m \in 1..sent[c] /\ MaxMentions \in Nat
  <2>1. c \in Channels /\ 1 \in 1..Len(mentions)
    BY <1>2 DEF Positions
  <2>2. mentions[1].upto \in 1..sent[mentions[1].channel]
    BY <2>1 DEF ReadInv, InOrder
  <2> QED BY <1>2, <2>1, <2>2, StoreConstants
<1>4. count[c] \in Int /\ count[c] < MaxMentions + m /\ sent[c] \in Nat
  <2>1. 1 \in 1..Len(mentions)
    BY <1>2
  <2>2. count[mentions[1].channel] < MaxMentions + mentions[1].upto
    BY <2>1 DEF ReadBounds, CountsAhead
  <2> QED BY <1>2, <1>3, <2>2 DEF ReadInv, ReadTypes
<1>5. ASSUME NEW d \in Channels
      PROVE  /\ count'[d] = IF d = c THEN count[c] + 1 ELSE count[d]
             /\ latest'[d] = IF d = c THEN m ELSE latest[d]
             /\ covers'[d] = covers[d] \/ (d = c /\ covers'[d] = m)
             /\ cleared'[d] = cleared[d] \/ (d = c /\ cleared'[d] = m)
  <2>1. /\ count \in [Channels -> Int] /\ latest \in [Channels -> Nat] /\ covers \in [Channels -> Nat]
        /\ cleared \in [Channels -> Nat]
    BY ReadEntries DEF ReadInv
  <2> QED BY <1>1, <2>1 DEF Reads!Maximum
<1>6. ASSUME NEW d \in Channels PROVE Within(d)'
  <2>1. Within(d) /\ count[d] \in Int /\ sent[d] \in Nat
    BY DEF ReadBounds, ReadInv, ReadTypes
  <2>2. UNCHANGED <<sent, acked, before>>
    BY <1>1
  <2>3. CASE d # c
    <3>1. count'[d] = count[d] /\ latest'[d] = latest[d] /\ covers'[d] = covers[d] /\ cleared'[d] = cleared[d]
      BY <1>5, <2>3
    <3> QED BY <2>1, <2>2, <3>1 DEF Within
  <2>4. CASE d = c
    <3>1. /\ count'[c] = count[c] + 1 /\ latest'[c] = m
          /\ covers'[c] \in {covers[c], m} /\ cleared'[c] \in {cleared[c], m}
      BY <1>5, <2>4
    <3>2. 0 <= count'[c] /\ count'[c] <= MaxMentions + sent[c]
      BY <1>3, <1>4, <2>1, <2>4, <3>1 DEF Within
    <3> QED BY <1>3, <1>4, <2>1, <2>2, <2>4, <3>1, <3>2 DEF Within
  <2> QED BY <2>3, <2>4
<1>7. AcksSent'
  BY <1>1, <1>3 DEF ReadBounds, AcksSent, Reads!Ack
<1>8. CountsAhead'
  <2> SUFFICES ASSUME NEW i \in 1..Len(mentions')
               PROVE  count'[mentions'[i].channel] < MaxMentions + mentions'[i].upto
    BY DEF CountsAhead
  <2>1. i + 1 \in 1..Len(mentions) /\ 1 < i + 1 /\ mentions'[i] = mentions[i + 1]
    BY <1>2
  <2>2. mentions[i + 1] \in Positions
    BY <1>2, <2>1
  <2> DEFINE d == mentions[i + 1].channel
             k == mentions[i + 1].upto
  <2>3. d \in Channels /\ k \in Nat /\ count[d] \in Int
    BY <2>2 DEF Positions, ReadInv, ReadTypes
  <2>4. count[d] < MaxMentions + k /\ (d = c => m < k)
    <3>1. 1 \in 1..Len(mentions)
      BY <1>2
    <3> QED BY <1>2, <2>1, <3>1 DEF ReadBounds, CountsAhead, ReadInv, InOrder
  <2> HIDE DEF d, k
  <2>5. count'[d] < MaxMentions + k
    BY <1>3, <1>4, <1>5, <2>3, <2>4
  <2> QED BY <2>1, <2>5 DEF d, k
<1>9. PagesWithin'
  <2>1. \A l \in Requests : loads'[l].page = loads[l].page
    BY <1>1 DEF ReadInv, ReadTypes, Reads!AllAged, Reads!Aged, Reads!Slot
  <2> QED BY <2>1 DEF ReadBounds, PagesWithin
<1> QED BY <1>1, <1>6, <1>7, <1>8, <1>9 DEF ReadBounds

LEMMA BoundsKeep ==
  ASSUME ReadInv, ReadBounds, Reads!Next
  PROVE  ReadBounds'
<1>1. ASSUME NEW c \in Channels, Reads!MarkAsRead(c) PROVE ReadBounds'
  <2>1. before[c] \in Nat /\ before[c] <= sent[c] /\ Reads!ClearMentions(c, before[c])
    BY <1>1 DEF Reads!MarkAsRead, ReadInv, ReadTypes, ReadBounds, Within
  <2> QED BY <2>1, BoundsOfClearMentions
<1>2. ASSUME NEW c \in Channels \cup {NoChannel}, Reads!OpenChannel(c) PROVE ReadBounds'
  <2>1. CASE c = NoChannel
    BY <1>2, <2>1 DEF Reads!OpenChannel, Reads!serverVars, Reads!obsVars, ReadBounds, Within, AcksSent, CountsAhead,
                      PagesWithin
  <2>2. CASE c # NoChannel
    <3>1. c \in Channels /\ latest[c] \in Nat /\ latest[c] <= sent[c] /\ Reads!ClearMentions(c, latest[c])
      BY <1>2, <2>2 DEF Reads!OpenChannel, ReadInv, ReadTypes, ReadBounds, Within
    <3> QED BY <3>1, BoundsOfClearMentions
  <2> QED BY <2>1, <2>2
<1>3. CASE Reads!Clear
  <2>1. /\ count' = [c \in Channels |-> 0] /\ latest' = [c \in Channels |-> 0] /\ known' = FALSE
        /\ UNCHANGED <<loads, acks, logins, sent, before, acked, mentions, covers, cleared, outdated>>
    BY <1>3 DEF Reads!Clear, Reads!serverVars, Reads!obsVars
  <2> QED BY <2>1, BoundsOfClear
<1> QED BY <1>1, <1>2, <1>3, BoundsOfLoads, BoundsOfApply, BoundsOfMention, BoundsOfTakeAck, BoundsOfApplyMention
        DEF Reads!Next

LEMMA BoundsStart == Reads!Init => ReadBounds
<1> SUFFICES ASSUME Reads!Init PROVE ReadBounds
  OBVIOUS
<1>1. /\ count = [c \in Channels |-> 0] /\ latest = [c \in Channels |-> 0] /\ acked = [c \in Channels |-> 0]
      /\ sent \in [Channels -> 0..1] /\ before = sent /\ acks = {} /\ mentions = <<>>
      /\ covers = [c \in Channels |-> 0] /\ cleared = [c \in Channels |-> 0]
      /\ loads = [l \in Requests |-> Reads!Idle] /\ logins = 0 /\ known = FALSE /\ outdated = FALSE
  BY DEF Reads!Init
<1>2. MaxMentions \in Nat \ {0} /\ MaxLogins \in Nat
  BY StoreConstants
<1>3. \A c \in Channels : Within(c)
  BY <1>1, <1>2 DEF Within
<1>4. PagesWithin
  BY <1>1 DEF PagesWithin, Reads!Idle
<1>5. AcksSent /\ CountsAhead
  BY <1>1 DEF AcksSent, CountsAhead
<1>6. logins \in 0..MaxLogins
  <2>1. 0 \in 0..MaxLogins
    BY <1>2
  <2> QED BY <1>1, <2>1
<1>7. known \in BOOLEAN /\ outdated \in BOOLEAN
  BY <1>1
<1> QED BY <1>3, <1>4, <1>5, <1>6, <1>7 DEF ReadBounds

\* The bounds of the read states hold in every state.
LEMMA ReadBoundsInvariant == Spec => [](ReadInv /\ ReadBounds)
<1>1. Init => ReadBounds
  BY BoundsStart DEF Init
<1>2. ReadInv /\ ReadBounds /\ [Next]_vars => ReadBounds'
  <2> SUFFICES ASSUME ReadInv, ReadBounds, [Next]_vars PROVE ReadBounds'
    OBVIOUS
  <2>1. CASE UNCHANGED readVars
    <3>1. UNCHANGED <<count, known, loads, opened, latest, acks, logins, sent, before, acked, mentions, covers,
                      cleared, outdated>>
      BY <2>1 DEF readVars
    <3> QED BY <3>1 DEF ReadBounds, Within, AcksSent, CountsAhead, PagesWithin
  <2>2. CASE Reads!Next
    BY <2>2, BoundsKeep
  <2> QED BY <2>1, <2>2 DEF Next, FetchedNext, fetchedVars, vars
<1> QED BY <1>1, <1>2, ReadsInvariant, PTL DEF Spec

-----------------------------------------------------------------------------
(* All types together.                                                      *)

\* The types and the invariant of the rows are what TypeOK says of them.
LEMMA RowTypesAre ==
  ASSUME RowTypes, RowInv
  PROVE  Rows!TypeOK
<1>1. \A r \in Range(rows) : r.state = "sending" => sends[r.nonce] = "waiting"
  BY DEF RowInv, Sound
<1>2. \A r \in Range(load) \cup {more} :
        /\ r.step \in {"idle", "asked", "answered"}
        /\ r.before \in 0..MaxMessages /\ r.page \in Seq(RowIds) /\ r.stale \in BOOLEAN
  <2>1. \A r \in PageSlots : /\ r.step \in {"idle", "asked", "answered"}
                             /\ r.before \in 0..MaxMessages /\ r.page \in Seq(RowIds) /\ r.stale \in BOOLEAN
    BY DEF PageSlots
  <2>2. Range(load) \cup {more} \subseteq PageSlots
    BY DEF RowTypes, Range
  <2> QED BY <2>1, <2>2
<1> QED BY <1>1, <1>2, RowLists, RowSets DEF RowTypes, Rows!TypeOK, SendStates, Posted

\* A behaviour is about one store.
OneStore == focus \in Stores

LEMMA FocusStays == Spec => []OneStore
<1>1. Init => OneStore
  BY DEF Init, OneStore
<1>2. OneStore /\ [Next]_vars => OneStore'
  BY DEF OneStore, Next, FetchedNext, vars
<1> QED BY <1>1, <1>2, PTL DEF Spec

\* Every variable of every store has its type, whatever the user, the server and
\* the gateway do: no version, no position and no badge exceeds what the server
\* made, and no row waits for a send that is over (the state of the stores of
\* stores.ts, 520-1343, 2400-2447, 3040-3140).
THEOREM TypeCorrect == Spec => []TypeOK
<1>1. /\ OneStore /\ RowTypes /\ RowInv /\ GapInv /\ Chip!TypeOK /\ MineInv
      /\ MarkTypes /\ BookInv /\ Scheduled!TypeOK /\ ReadInv /\ ReadBounds
      /\ MemberTypes /\ MemberInv /\ Copies!TypeOK /\ Modal!TypeOK /\ ModalInv
      => TypeOK
  BY RowTypesAre, MarkTypesAre, ReadBoundsFollow, MemberTypesAre DEF TypeOK, OneStore
<1> QED BY <1>1, FocusStays, RowsInvariant, ChipInvariant, BookmarksInvariant, ScheduledTypesInvariant,
           ReadBoundsInvariant, MembersInvariant, CopiesTypesInvariant, ModalInvariant, PTL
==============================================================================
