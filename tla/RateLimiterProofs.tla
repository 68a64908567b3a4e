-------------------------- MODULE RateLimiterProofs --------------------------
(***************************************************************************)
(* Theorems about RateLimiter, for any number of calls and routes, any     *)
(* limit, window and pause.                                                *)
(*                                                                         *)
(* The server need not refuse a route when the client's bucket never       *)
(* promises more than the server's window holds.  That is so between two   *)
(* requests; while an answer is on its way, it is the answer that does not *)
(* promise more.                                                           *)
(***************************************************************************)
EXTENDS RateLimiter, SequenceTheorems, WellFoundedInduction, TLAPS

\* The bucket of r promises no more than the server's window holds, and no window
\* that is over before the server's.
Honest(r) == windowEnds[r] > 0 =>
  resetIn[r] >= windowEnds[r] /\ remaining[r] <= Limit - used[r]

Granted(c) == pc[c] = "answered" /\ reply[c].kind = "ok"

\* A sure route has one call in flight; before it is granted there is a slot for it,
\* and its answer promises no more than there is left then.
OneAtATime(r) == \A c, d \in Calls :
  RouteOf[c] = r /\ RouteOf[d] = r /\ InFlight(c) /\ InFlight(d) => c = d
HasSlot(r) == \A c \in Calls : RouteOf[c] = r /\ pc[c] \in {"passed", "sent"} =>
  (windowEnds[r] > 0 => used[r] < Limit)
Answers(r) == \A c \in Calls : RouteOf[c] = r /\ pc[c] = "answered" =>
  /\ reply[c].kind \in {"ok", "global"}
  /\ Granted(c) /\ windowEnds[r] > 0 =>
       reply[c].after >= windowEnds[r] /\ reply[c].left <= Limit - used[r]

SureRoutes == \A r \in Routes \ unsure :
  /\ OneAtATime(r) /\ HasSlot(r) /\ Answers(r)
  /\ (\A c \in Calls : RouteOf[c] = r => ~Granted(c)) => Honest(r)

\* A pause that is ordered is still in the answer, or in the bucket the call waits for.
Waits(c) ==
  \/ pc[c] = "answered" /\ reply[c].kind = "route" /\ reply[c].after >= ordered[c]
  \/ /\ pc[c] \in {"checking", "asleep"} /\ tries[c] = 2
     /\ remaining[RouteOf[c]] = 0 /\ resetIn[RouteOf[c]] >= ordered[c]
  \/ pc[c] \in {"limited", "failed"}
PausesKept == \A c \in Calls \ disturbed : ordered[c] > 0 => Waits(c)

\* Which answers speak of a window, and which of a global block.
Terms == \A c \in Calls :
  /\ reply[c].kind \in {"ok", "route"} => reply[c].after <= Window
  /\ reply[c].kind = "global" => reply[c].after <= Pause

IndInv == TypeOK /\ Terms /\ SureRoutes /\ PausesKept

-----------------------------------------------------------------------------
LEMMA MaxOfTwo ==
  ASSUME NEW a \in Int, NEW b \in Int
  PROVE  Max({a, b}) \in {a, b} /\ Max({a, b}) >= a /\ Max({a, b}) >= b
<1>1. \E x \in {a, b} : \A y \in {a, b} : x >= y
  OBVIOUS
<1>2. Max({a, b}) \in {a, b} /\ \A y \in {a, b} : Max({a, b}) >= y
  BY <1>1 DEF Max
<1> QED BY <1>2

LEMMA NapBound == Max({Window, Pause}) \in Nat
<1>1. Window \in Nat /\ Pause \in Nat
  BY LimiterAssumption
<1>2. Max({Window, Pause}) \in {Window, Pause}
  BY <1>1, MaxOfTwo
<1> QED BY <1>1, <1>2

LEMMA RouteFacts == \A c \in Calls : RouteOf[c] \in Routes
  BY DEF RouteOf, Routes

\* What a call waits for.
LEMMA WaitFacts ==
  ASSUME TypeOK, NEW r \in Routes
  PROVE  /\ WaitFor(r) \in 0..Max({Window, Pause})
         /\ WaitFor(r) = 0 => globalIn = 0 /\ (remaining[r] = 0 => resetIn[r] = 0)
<1> DEFINE own == IF remaining[r] = 0 THEN resetIn[r] ELSE 0
<1>1. own \in 0..Window /\ globalIn \in 0..Pause /\ (remaining[r] = 0 => own = resetIn[r])
  BY LimiterAssumption DEF TypeOK
<1>2. Window \in Nat /\ Pause \in Nat
  BY LimiterAssumption
<1>3. WaitFor(r) = Max({globalIn, own})
  BY DEF WaitFor
<1> HIDE DEF own
<1>4. Max({globalIn, own}) \in {globalIn, own} /\ Max({globalIn, own}) >= own /\ Max({globalIn, own}) >= globalIn
  BY <1>1, MaxOfTwo
<1>5. Max({Window, Pause}) >= Window /\ Max({Window, Pause}) >= Pause /\ Max({Window, Pause}) \in Nat
  <2>1. Window \in Int /\ Pause \in Int
    BY <1>2
  <2>2. Max({Window, Pause}) \in {Window, Pause} /\ Max({Window, Pause}) >= Window /\ Max({Window, Pause}) >= Pause
    BY <2>1, MaxOfTwo
  <2> QED BY <1>2, <2>2
<1> QED BY <1>1, <1>2, <1>3, <1>4, <1>5

LEMMA InitEstablishes == Init => IndInv
<1> SUFFICES ASSUME Init PROVE IndInv
  OBVIOUS
<1>1. TypeOK
  <2>1. Max({Window, Pause}) \in Nat
    BY NapBound
  <2>2. NoReply \in Replies
    BY LimiterAssumption DEF NoReply, Replies
  <2> QED BY <2>1, <2>2, LimiterAssumption DEF Init, TypeOK, Outside
<1>2. Terms
  BY LimiterAssumption DEF Init, Terms, NoReply
<1>3. SureRoutes /\ PausesKept
  BY DEF Init, SureRoutes, PausesKept, OneAtATime, HasSlot, Answers, Honest, Granted, InFlight
<1> QED BY <1>1, <1>2, <1>3 DEF IndInv

-----------------------------------------------------------------------------
\* The steps of a call that leave bucket, server and answers alone.
LEMMA CallerKeeps ==
  ASSUME IndInv, NEW c \in Calls, Call(c) \/ Sleep(c) \/ Wake(c) \/ Check(c)
  PROVE  IndInv'
<1> DEFINE r == RouteOf[c]
<1>1. /\ UNCHANGED <<remaining, resetIn, globalIn, used, windowEnds, blockEnds, ordered, disturbed, reply>>
      /\ \E place \in {"checking", "asleep", "passed"} : pc' = [pc EXCEPT ![c] = place]
      /\ pc[c] \in {"idle", "checking", "asleep"}
      /\ tries' = tries \/ (pc[c] = "idle" /\ tries' = [tries EXCEPT ![c] = 1])
      /\ unsure \subseteq unsure'
  BY DEF Call, Sleep, Wake, Check, clientVars, serverVars, historyVars
<1>2. TypeOK'
  <2>1. nap' \in [Calls -> 0..Max({Window, Pause})]
    <3>1. nap \in [Calls -> 0..Max({Window, Pause})]
      BY DEF IndInv, TypeOK
    <3>2. WaitFor(r) \in 0..Max({Window, Pause})
      BY WaitFacts, RouteFacts DEF IndInv
    <3>3. nap' = nap \/ nap' = [nap EXCEPT ![c] = WaitFor(r)]
      BY DEF Call, Sleep, Wake, Check
    <3> HIDE DEF r
    <3> QED BY <3>1, <3>2, <3>3
  <2>2. unsure' \subseteq Routes
    BY RouteFacts DEF Call, Sleep, Wake, Check, IndInv, TypeOK, historyVars, Companions
  <2>3. pc' \in [Calls -> Outside \union {"checking", "asleep", "passed", "sent", "answered"}]
    BY <1>1 DEF IndInv, TypeOK
  <2>4. tries' \in [Calls -> 0..2] /\ \A d \in Calls : tries'[d] = 0 <=> pc'[d] = "idle"
    BY <1>1 DEF Call, Sleep, Wake, Check, IndInv, TypeOK
  <2>5. \A d \in Calls : (reply'[d] = NoReply) = (pc'[d] # "answered")
    BY <1>1 DEF IndInv, TypeOK
  <2> QED BY <1>1, <2>1, <2>2, <2>3, <2>4, <2>5 DEF IndInv, TypeOK
<1>3. Terms'
  BY <1>1 DEF IndInv, Terms
<1>4. \A d \in Calls : Granted(d)' <=> Granted(d)
  BY <1>1 DEF Granted, IndInv, TypeOK
<1>5. \A d \in Calls : d # c => (InFlight(d)' <=> InFlight(d)) /\ pc'[d] = pc[d]
  BY <1>1 DEF InFlight, IndInv, TypeOK
<1>6. SureRoutes'
  <2> SUFFICES ASSUME NEW q \in Routes \ unsure'
               PROVE  OneAtATime(q)' /\ HasSlot(q)' /\ Answers(q)'
                      /\ ((\A d \in Calls : RouteOf[d] = q => ~Granted(d)') => Honest(q)')
    BY <1>1 DEF SureRoutes
  <2>1. q \in Routes \ unsure /\ OneAtATime(q) /\ HasSlot(q) /\ Answers(q)
        /\ ((\A d \in Calls : RouteOf[d] = q => ~Granted(d)) => Honest(q))
    BY <1>1 DEF IndInv, SureRoutes
  <2>2. Answers(q)'
    BY <1>1, <1>4, <2>1 DEF Answers, IndInv, TypeOK
  <2>3. (\A d \in Calls : RouteOf[d] = q => ~Granted(d)') => Honest(q)'
    BY <1>1, <1>4, <2>1 DEF Honest
  <2>4. CASE ~(Check(c) /\ RouteOf[c] = q)
    <3>1. ~InFlight(c)' \/ RouteOf[c] # q
      BY <1>1, <2>4 DEF Call, Sleep, Wake, Check, InFlight, IndInv, TypeOK
    <3>2. OneAtATime(q)'
      BY <1>5, <2>1, <3>1 DEF OneAtATime
    <3>3. HasSlot(q)'
      BY <1>1, <1>5, <2>1, <3>1 DEF HasSlot, InFlight
    <3> QED BY <2>2, <2>3, <3>2, <3>3
  <2>5. CASE Check(c) /\ RouteOf[c] = q
    <3>1. \A d \in Calls : RouteOf[d] = q /\ d # c => ~InFlight(d)
      <4> SUFFICES ASSUME NEW d \in Calls, RouteOf[d] = q, d # c, InFlight(d)
                   PROVE  FALSE
        OBVIOUS
      <4>1. d \in {e \in Companions(c) : InFlight(e)}
        BY <2>5 DEF Companions
      <4>2. RouteOf[d] \in unsure'
        BY <2>5, <4>1 DEF Check
      <4> QED BY <4>2
    <3>2. OneAtATime(q)'
      BY <1>5, <3>1 DEF OneAtATime
    <3>3. Honest(q)
      BY <1>1, <2>1, <2>5, <3>1 DEF Granted, InFlight
    <3>4. remaining[q] = 0 => resetIn[q] = 0
      BY <2>5, WaitFacts, RouteFacts DEF Check, IndInv
    <3>5. windowEnds[q] > 0 => used[q] < Limit
      <4>1. remaining[q] \in Nat /\ resetIn[q] \in Nat /\ windowEnds[q] \in Nat /\ used[q] \in Nat /\ Limit \in Nat
        BY LimiterAssumption DEF IndInv, TypeOK
      <4> QED BY <3>3, <3>4, <4>1 DEF Honest
    <3>6. HasSlot(q)'
      BY <1>1, <1>5, <3>1, <3>5 DEF HasSlot, InFlight
    <3> QED BY <2>2, <2>3, <3>2, <3>6
  <2> QED BY <2>4, <2>5
<1>7. PausesKept'
  <2> SUFFICES ASSUME NEW d \in Calls \ disturbed, ordered[d] > 0
               PROVE  Waits(d)'
    BY <1>1 DEF PausesKept
  <2>1. Waits(d)
    BY DEF IndInv, PausesKept
  <2>2. CASE d # c
    BY <1>1, <1>5, <2>1, <2>2 DEF Waits, IndInv, TypeOK
  <2>3. CASE d = c
    <3>1. pc[c] \in {"checking", "asleep"} /\ tries[c] = 2 /\ remaining[r] = 0 /\ resetIn[r] >= ordered[c]
      BY <1>1, <2>1, <2>3 DEF Waits
    <3>2. ~Check(c)
      <4>1. ordered[c] \in Nat /\ resetIn[r] \in Nat
        BY RouteFacts, LimiterAssumption DEF IndInv, TypeOK
      <4> QED BY <2>3, <3>1, <4>1, WaitFacts, RouteFacts DEF Check, IndInv
    <3>3. pc'[c] \in {"checking", "asleep"} /\ tries' = tries
      BY <1>1, <3>1, <3>2 DEF Call, Sleep, Wake, IndInv, TypeOK
    <3> QED BY <1>1, <2>3, <3>1, <3>3 DEF Waits
  <2> QED BY <2>2, <2>3
<1> QED BY <1>2, <1>3, <1>6, <1>7 DEF IndInv

LEMMA ReserveKeeps ==
  ASSUME IndInv, NEW c \in Calls, Reserve(c)
  PROVE  IndInv'
<1> DEFINE r == RouteOf[c]
<1>1. /\ UNCHANGED <<resetIn, globalIn, used, windowEnds, blockEnds, ordered, disturbed, unsure, nap, tries, reply>>
      /\ pc[c] = "passed" /\ pc' = [pc EXCEPT ![c] = "sent"]
      /\ remaining' = [remaining EXCEPT ![r] = IF @ > 0 THEN @ - 1 ELSE 0]
  BY DEF Reserve, serverVars, historyVars
<1>2. r \in Routes /\ Limit \in Nat
  BY RouteFacts, LimiterAssumption
<1>3. TypeOK'
  <2>1. remaining' \in [Routes -> 0..Limit]
    BY <1>1, <1>2 DEF IndInv, TypeOK
  <2>2. /\ pc' \in [Calls -> Outside \union {"checking", "asleep", "passed", "sent", "answered"}]
        /\ \A d \in Calls : (reply'[d] = NoReply) = (pc'[d] # "answered")
        /\ \A d \in Calls : tries'[d] = 0 <=> pc'[d] = "idle"
    BY <1>1 DEF IndInv, TypeOK
  <2> QED BY <1>1, <2>1, <2>2 DEF IndInv, TypeOK
<1>4. Terms'
  BY <1>1 DEF IndInv, Terms
<1>5. \A d \in Calls :
        /\ Granted(d)' <=> Granted(d)
        /\ InFlight(d)' <=> InFlight(d)
        /\ pc'[d] \in {"passed", "sent"} <=> pc[d] \in {"passed", "sent"}
        /\ pc'[d] = "answered" <=> pc[d] = "answered"
        /\ d # c => pc'[d] = pc[d]
  BY <1>1 DEF IndInv, TypeOK, Granted, InFlight
<1>6. SureRoutes'
  <2> SUFFICES ASSUME NEW q \in Routes \ unsure'
               PROVE  OneAtATime(q)' /\ HasSlot(q)' /\ Answers(q)'
                      /\ ((\A d \in Calls : RouteOf[d] = q => ~Granted(d)') => Honest(q)')
    BY <1>1 DEF SureRoutes
  <2>1. q \in Routes /\ OneAtATime(q) /\ HasSlot(q) /\ Answers(q)
        /\ ((\A d \in Calls : RouteOf[d] = q => ~Granted(d)) => Honest(q))
    BY <1>1 DEF IndInv, SureRoutes
  <2>2. OneAtATime(q)' /\ HasSlot(q)'
    BY <1>1, <1>5, <2>1 DEF OneAtATime, HasSlot
  <2>3. Answers(q)'
    BY <1>1, <1>5, <2>1 DEF Answers
  <2>4. remaining[q] \in Nat /\ remaining'[q] \in Nat /\ remaining'[q] <= remaining[q] /\ used[q] \in Nat
    BY <1>1, <1>2, <2>1 DEF IndInv, TypeOK
  <2>5. Honest(q) => Honest(q)'
    BY <1>1, <1>2, <2>4 DEF Honest
  <2> QED BY <1>5, <2>1, <2>2, <2>3, <2>5
<1>7. PausesKept'
  <2> SUFFICES ASSUME NEW d \in Calls \ disturbed, ordered[d] > 0
               PROVE  Waits(d)'
    BY <1>1 DEF PausesKept
  <2>1. Waits(d)
    BY DEF IndInv, PausesKept
  <2>2. d # c
    BY <1>1, <2>1 DEF Waits
  <2>3. remaining[RouteOf[d]] = 0 => remaining'[RouteOf[d]] = 0
    BY <1>1, <1>2, RouteFacts DEF IndInv, TypeOK
  <2> QED BY <1>1, <1>5, <2>1, <2>2, <2>3 DEF Waits
<1> QED BY <1>3, <1>4, <1>6, <1>7 DEF IndInv

-----------------------------------------------------------------------------
\* The calls an answer does not concern keep their place and what they wait for.
LEMMA OthersWait ==
  ASSUME IndInv, NEW d \in Calls \ disturbed, ordered[d] > 0,
         pc'[d] = pc[d], reply'[d] = reply[d], tries'[d] = tries[d], ordered'[d] = ordered[d],
         remaining'[RouteOf[d]] = remaining[RouteOf[d]],
         resetIn'[RouteOf[d]] = resetIn[RouteOf[d]]
  PROVE  Waits(d)'
BY DEF IndInv, PausesKept, Waits

LEMMA GrantKeeps ==
  ASSUME IndInv, NEW c \in Calls, Grant(c)
  PROVE  IndInv'
<1> DEFINE r == RouteOf[c]
           left == Limit - Served(r)
           ends == IF windowEnds[r] = 0 THEN Window ELSE windowEnds[r]
<1>1. /\ UNCHANGED <<remaining, resetIn, globalIn, blockEnds, nap, tries, ordered, disturbed>>
      /\ pc[c] = "sent" /\ pc' = [pc EXCEPT ![c] = "answered"]
      /\ Served(r) <= Limit
      /\ used' = [used EXCEPT ![r] = Served(r)]
      /\ windowEnds' = [windowEnds EXCEPT ![r] = ends]
      /\ unsure \subseteq unsure' /\ unsure' \subseteq unsure \union {r}
  BY DEF Grant, clientVars, Answer
<1>2. r \in Routes /\ Limit \in Nat \ {0} /\ Window \in Nat \ {0} /\ Pause \in Nat \ {0}
  BY RouteFacts, LimiterAssumption
<1>3. Served(r) \in 0..Limit /\ left \in 0..Limit /\ ends \in 1..Window
  <2>1. used[r] \in 0..Limit /\ windowEnds[r] \in 0..Window
    BY <1>2 DEF IndInv, TypeOK
  <2> QED BY <1>1, <1>2, <2>1 DEF Served
<1>4. windowEnds'[r] = ends /\ used'[r] = Served(r)
  BY <1>1, <1>2 DEF IndInv, TypeOK
<1>5. \/ reply' = [reply EXCEPT ![c] = [kind |-> "ok", left |-> left, after |-> ends]]
      \/ reply' = [reply EXCEPT ![c] = [kind |-> "bare", left |-> 0, after |-> 0]] /\ r \in unsure'
  BY <1>4 DEF Grant, Answer
<1> HIDE DEF ends, left
<1>6. TypeOK'
  <2>1. used' \in [Routes -> 0..Limit] /\ windowEnds' \in [Routes -> 0..Window]
    BY <1>1, <1>2, <1>3 DEF IndInv, TypeOK
  <2>2. /\ [kind |-> "ok", left |-> left, after |-> ends] \in Replies \ {NoReply}
        /\ [kind |-> "bare", left |-> 0, after |-> 0] \in Replies \ {NoReply}
    BY <1>2, <1>3 DEF Replies, NoReply
  <2>3. reply' \in [Calls -> Replies] /\ \A d \in Calls : (reply'[d] = NoReply) = (pc'[d] # "answered")
    BY <1>1, <1>5, <2>2 DEF IndInv, TypeOK
  <2>4. /\ pc' \in [Calls -> Outside \union {"checking", "asleep", "passed", "sent", "answered"}]
        /\ \A d \in Calls : tries'[d] = 0 <=> pc'[d] = "idle"
    BY <1>1 DEF IndInv, TypeOK
  <2>5. unsure' \subseteq Routes
    BY <1>1, <1>2 DEF IndInv, TypeOK
  <2> QED BY <1>1, <2>1, <2>3, <2>4, <2>5 DEF IndInv, TypeOK
<1>7. \A d \in Calls : d # c => pc'[d] = pc[d] /\ reply'[d] = reply[d]
  BY <1>1, <1>5 DEF IndInv, TypeOK
<1>8. reply'[c] = [kind |-> "ok", left |-> left, after |-> ends] \/ (reply'[c].kind = "bare" /\ r \in unsure')
  BY <1>5 DEF IndInv, TypeOK
<1>9. Terms'
  BY <1>2, <1>3, <1>7, <1>8 DEF IndInv, Terms
<1>10. SureRoutes'
  <2> SUFFICES ASSUME NEW q \in Routes \ unsure'
               PROVE  OneAtATime(q)' /\ HasSlot(q)' /\ Answers(q)'
                      /\ ((\A d \in Calls : RouteOf[d] = q => ~Granted(d)') => Honest(q)')
    BY DEF SureRoutes
  <2>1. q \in Routes \ unsure /\ OneAtATime(q) /\ HasSlot(q) /\ Answers(q)
        /\ ((\A d \in Calls : RouteOf[d] = q => ~Granted(d)) => Honest(q))
    BY <1>1 DEF IndInv, SureRoutes
  <2>2. \A d \in Calls : InFlight(d)' <=> InFlight(d)
    BY <1>1, <1>7 DEF InFlight, IndInv, TypeOK
  <2>3. OneAtATime(q)'
    BY <2>1, <2>2 DEF OneAtATime
  <2>4. pc'[c] = "answered"
    BY <1>1 DEF IndInv, TypeOK
  <2>5. CASE q # r
    <3>1. used'[q] = used[q] /\ windowEnds'[q] = windowEnds[q]
      BY <1>1, <2>5 DEF IndInv, TypeOK
    <3>2. HasSlot(q)' /\ Answers(q)'
      BY <1>7, <2>1, <2>5, <3>1 DEF HasSlot, Answers, Granted
    <3>3. (\A d \in Calls : RouteOf[d] = q => ~Granted(d)') => Honest(q)'
      BY <1>1, <1>7, <2>1, <2>5, <3>1 DEF Honest, Granted
    <3> QED BY <2>3, <3>2, <3>3
  <2>6. CASE q = r
    <3>1. \A d \in Calls : RouteOf[d] = q /\ d # c => ~InFlight(d)
      BY <1>1, <2>1, <2>6 DEF OneAtATime, InFlight
    <3>2. reply'[c] = [kind |-> "ok", left |-> left, after |-> ends]
      BY <1>8, <2>6
    <3>3. HasSlot(q)'
      BY <1>7, <2>4, <3>1 DEF HasSlot, InFlight
    <3>4. left = Limit - used'[q] /\ ends = windowEnds'[q]
      BY <1>4, <2>6 DEF left
    <3>5. Answers(q)'
      BY <1>2, <1>3, <1>7, <3>1, <3>2, <3>4 DEF Answers, InFlight, Granted
    <3>6. Granted(c)' /\ RouteOf[c] = q
      BY <2>4, <2>6, <3>2 DEF Granted
    <3> QED BY <2>3, <3>3, <3>5, <3>6
  <2> QED BY <2>5, <2>6
<1>11. PausesKept'
  <2> SUFFICES ASSUME NEW d \in Calls \ disturbed, ordered[d] > 0
               PROVE  Waits(d)'
    BY <1>1 DEF PausesKept
  <2>1. d # c
    BY <1>1 DEF Waits, IndInv, PausesKept
  <2> QED BY <1>1, <1>7, <2>1, OthersWait
<1> QED BY <1>6, <1>9, <1>10, <1>11 DEF IndInv

LEMMA RefuseRouteKeeps ==
  ASSUME IndInv, NEW c \in Calls, RefuseRoute(c)
  PROVE  IndInv'
<1> DEFINE r == RouteOf[c]
<1>1. /\ UNCHANGED <<remaining, resetIn, globalIn, used, windowEnds, blockEnds, nap, tries, unsure>>
      /\ pc[c] = "sent" /\ pc' = [pc EXCEPT ![c] = "answered"]
      /\ Served(r) > Limit
      /\ reply' = [reply EXCEPT ![c] = [kind |-> "route", left |-> 0, after |-> windowEnds[r]]]
      /\ ordered' = [ordered EXCEPT ![c] = windowEnds[r]]
      /\ disturbed' = disturbed \ {c}
  BY DEF RefuseRoute, clientVars, serverVars, Answer
<1>2. r \in Routes /\ Limit \in Nat \ {0} /\ Window \in Nat \ {0} /\ Pause \in Nat \ {0}
  BY RouteFacts, LimiterAssumption
<1>3. windowEnds[r] \in 0..Window /\ used[r] \in 0..Limit
  BY <1>2 DEF IndInv, TypeOK
<1>4. [kind |-> "route", left |-> 0, after |-> windowEnds[r]] \in Replies \ {NoReply}
  BY <1>2, <1>3 DEF Replies, NoReply
<1>5. /\ reply'[c].kind = "route" /\ reply'[c].after = windowEnds[r] /\ ordered'[c] = windowEnds[r]
      /\ pc'[c] = "answered"
  BY <1>1 DEF IndInv, TypeOK
<1>6. \A d \in Calls : d # c => pc'[d] = pc[d] /\ reply'[d] = reply[d] /\ ordered'[d] = ordered[d]
  BY <1>1 DEF IndInv, TypeOK
<1>7. TypeOK'
  <2>1. reply' \in [Calls -> Replies] /\ \A d \in Calls : (reply'[d] = NoReply) = (pc'[d] # "answered")
    BY <1>1, <1>4 DEF IndInv, TypeOK
  <2>2. ordered' \in [Calls -> 0..Window] /\ disturbed' \subseteq Calls
    BY <1>1, <1>3 DEF IndInv, TypeOK
  <2>3. /\ pc' \in [Calls -> Outside \union {"checking", "asleep", "passed", "sent", "answered"}]
        /\ \A d \in Calls : tries'[d] = 0 <=> pc'[d] = "idle"
    BY <1>1 DEF IndInv, TypeOK
  <2> QED BY <1>1, <2>1, <2>2, <2>3 DEF IndInv, TypeOK
<1>8. Terms'
  BY <1>2, <1>3, <1>5, <1>6 DEF IndInv, Terms
<1>9. SureRoutes'
  <2> SUFFICES ASSUME NEW q \in Routes \ unsure'
               PROVE  OneAtATime(q)' /\ HasSlot(q)' /\ Answers(q)'
                      /\ ((\A d \in Calls : RouteOf[d] = q => ~Granted(d)') => Honest(q)')
    BY DEF SureRoutes
  <2>1. q \in Routes /\ OneAtATime(q) /\ HasSlot(q) /\ Answers(q)
        /\ ((\A d \in Calls : RouteOf[d] = q => ~Granted(d)) => Honest(q))
    BY <1>1 DEF IndInv, SureRoutes
  <2>2. q # r
    <3> SUFFICES ASSUME q = r PROVE FALSE
      OBVIOUS
    <3>1. windowEnds[r] > 0 => used[r] < Limit
      BY <1>1, <2>1 DEF HasSlot
    <3> QED BY <1>1, <1>2, <1>3, <3>1 DEF Served
  <2>3. \A d \in Calls : RouteOf[d] = q => d # c
    BY <2>2
  <2>4. OneAtATime(q)' /\ HasSlot(q)'
    BY <1>1, <1>6, <2>1, <2>3 DEF OneAtATime, HasSlot, InFlight
  <2>5. Answers(q)' /\ ((\A d \in Calls : RouteOf[d] = q => ~Granted(d)') => Honest(q)')
    BY <1>1, <1>6, <2>1, <2>3 DEF Answers, Granted, Honest
  <2> QED BY <2>4, <2>5
<1>10. PausesKept'
  <2> SUFFICES ASSUME NEW d \in Calls \ disturbed', ordered'[d] > 0
               PROVE  Waits(d)'
    BY DEF PausesKept
  <2>1. CASE d = c
    BY <1>3, <1>5, <2>1 DEF Waits
  <2>2. CASE d # c
    BY <1>1, <1>6, <2>2, OthersWait
  <2> QED BY <2>1, <2>2
<1> QED BY <1>7, <1>8, <1>9, <1>10 DEF IndInv

LEMMA RefuseAllKeeps ==
  ASSUME IndInv, NEW c \in Calls, RefuseAll(c)
  PROVE  IndInv'
<1> DEFINE r == RouteOf[c]
           ends == IF blockEnds = 0 THEN Pause ELSE blockEnds
<1>1. /\ UNCHANGED <<remaining, resetIn, globalIn, used, windowEnds, nap, tries, ordered, disturbed, unsure>>
      /\ pc[c] = "sent" /\ pc' = [pc EXCEPT ![c] = "answered"]
      /\ blockEnds' = ends
      /\ reply' = [reply EXCEPT ![c] = [kind |-> "global", left |-> 0, after |-> ends]]
  BY DEF RefuseAll, clientVars, historyVars, Answer
<1>2. Limit \in Nat \ {0} /\ Window \in Nat \ {0} /\ Pause \in Nat \ {0}
  BY LimiterAssumption
<1>3. ends \in 0..Pause
  BY <1>2 DEF IndInv, TypeOK
<1> HIDE DEF ends
<1>4. [kind |-> "global", left |-> 0, after |-> ends] \in Replies \ {NoReply}
  BY <1>2, <1>3 DEF Replies, NoReply
<1>5. reply'[c].kind = "global" /\ reply'[c].after = ends /\ pc'[c] = "answered"
  BY <1>1 DEF IndInv, TypeOK
<1>6. \A d \in Calls : d # c => pc'[d] = pc[d] /\ reply'[d] = reply[d]
  BY <1>1 DEF IndInv, TypeOK
<1>7. TypeOK'
  <2>1. reply' \in [Calls -> Replies] /\ \A d \in Calls : (reply'[d] = NoReply) = (pc'[d] # "answered")
    BY <1>1, <1>4 DEF IndInv, TypeOK
  <2>2. /\ pc' \in [Calls -> Outside \union {"checking", "asleep", "passed", "sent", "answered"}]
        /\ \A d \in Calls : tries'[d] = 0 <=> pc'[d] = "idle"
    BY <1>1 DEF IndInv, TypeOK
  <2> QED BY <1>1, <1>3, <2>1, <2>2 DEF IndInv, TypeOK
<1>8. Terms'
  BY <1>2, <1>3, <1>5, <1>6 DEF IndInv, Terms
<1>9. \A d \in Calls :
        /\ Granted(d)' <=> Granted(d)
        /\ InFlight(d)' <=> InFlight(d)
        /\ pc'[d] \in {"passed", "sent"} => pc[d] \in {"passed", "sent"}
  BY <1>1, <1>5, <1>6 DEF Granted, InFlight
<1>10. SureRoutes'
  <2> SUFFICES ASSUME NEW q \in Routes \ unsure'
               PROVE  OneAtATime(q)' /\ HasSlot(q)' /\ Answers(q)'
                      /\ ((\A d \in Calls : RouteOf[d] = q => ~Granted(d)') => Honest(q)')
    BY DEF SureRoutes
  <2>1. q \in Routes /\ OneAtATime(q) /\ HasSlot(q) /\ Answers(q)
        /\ ((\A d \in Calls : RouteOf[d] = q => ~Granted(d)) => Honest(q))
    BY <1>1 DEF IndInv, SureRoutes
  <2>2. OneAtATime(q)' /\ HasSlot(q)'
    BY <1>1, <1>9, <2>1 DEF OneAtATime, HasSlot
  <2>3. Answers(q)'
    <3>1. ~Granted(c)'
      BY <1>5 DEF Granted
    <3> QED BY <1>1, <1>5, <1>6, <2>1, <3>1 DEF Answers, Granted
  <2>4. (\A d \in Calls : RouteOf[d] = q => ~Granted(d)') => Honest(q)'
    BY <1>1, <1>9, <2>1 DEF Honest
  <2> QED BY <2>2, <2>3, <2>4
<1>11. PausesKept'
  <2> SUFFICES ASSUME NEW d \in Calls \ disturbed, ordered[d] > 0
               PROVE  Waits(d)'
    BY <1>1 DEF PausesKept
  <2>1. d # c
    BY <1>1 DEF Waits, IndInv, PausesKept
  <2> QED BY <1>1, <1>6, <2>1, OthersWait
<1> QED BY <1>7, <1>8, <1>10, <1>11 DEF IndInv

-----------------------------------------------------------------------------
\* What becomes of a call whose answer is recorded.
LEMMA HandledFacts ==
  ASSUME TypeOK, NEW c \in Calls, pc[c] = "answered", Handled(c)
  PROVE  /\ pc'[c] \in {"done", "limited", "checking"}
         /\ pc'[c] = "checking" => tries'[c] = 2
         /\ reply[c].kind \in {"route", "global"} => pc'[c] \in {"limited", "checking"}
         /\ \A d \in Calls : d # c => pc'[d] = pc[d] /\ reply'[d] = reply[d] /\ tries'[d] = tries[d]
         /\ pc' \in [Calls -> Outside \union {"checking", "asleep", "passed", "sent", "answered"}]
         /\ tries' \in [Calls -> 0..2] /\ reply' \in [Calls -> Replies]
         /\ \A d \in Calls : (reply'[d] = NoReply) = (pc'[d] # "answered")
         /\ \A d \in Calls : tries'[d] = 0 <=> pc'[d] = "idle"
<1>1. AfterAnswer(c) \in {"done", "limited", "checking"}
      /\ (reply[c].kind \in {"route", "global"} => AfterAnswer(c) \in {"limited", "checking"})
  BY DEF AfterAnswer
<1>2. NoReply \in Replies
  BY LimiterAssumption DEF NoReply, Replies
<1>3. pc' = [pc EXCEPT ![c] = AfterAnswer(c)] /\ reply' = [reply EXCEPT ![c] = NoReply]
      /\ tries' = [tries EXCEPT ![c] = IF AfterAnswer(c) = "checking" THEN 2 ELSE @]
  BY DEF Handled
<1>4. pc'[c] = AfterAnswer(c) /\ reply'[c] = NoReply
  BY <1>3 DEF TypeOK
<1>5. \A d \in Calls : d # c => pc'[d] = pc[d] /\ reply'[d] = reply[d] /\ tries'[d] = tries[d]
  BY <1>3 DEF TypeOK
<1>6. tries'[c] \in 1..2 /\ (pc'[c] = "checking" => tries'[c] = 2)
  BY <1>3, <1>4 DEF TypeOK
<1>7. pc' \in [Calls -> Outside \union {"checking", "asleep", "passed", "sent", "answered"}]
  BY <1>1, <1>3 DEF TypeOK, Outside
<1>8. tries' \in [Calls -> 0..2] /\ reply' \in [Calls -> Replies]
  BY <1>2, <1>3 DEF TypeOK
<1>9. \A d \in Calls : (reply'[d] = NoReply) = (pc'[d] # "answered")
  BY <1>1, <1>4, <1>5 DEF TypeOK
<1>10. \A d \in Calls : tries'[d] = 0 <=> pc'[d] = "idle"
  BY <1>1, <1>4, <1>5, <1>6 DEF TypeOK
<1> QED BY <1>1, <1>4, <1>5, <1>6, <1>7, <1>8, <1>9, <1>10

LEMMA RecordKeeps ==
  ASSUME IndInv, NEW c \in Calls, Record(c)
  PROVE  IndInv'
<1> DEFINE r == RouteOf[c]
<1>1. /\ pc[c] = "answered" /\ Handled(c)
      /\ UNCHANGED <<used, windowEnds, blockEnds, nap, ordered, unsure>>
      /\ disturbed' = disturbed \union Companions(c)
  BY DEF Record, RecordRefusal, RecordAnswer, Handled, serverVars
<1>2. \/ reply[c].kind = "route" /\ SetBucket(r, 0, reply[c].after) /\ globalIn' = globalIn
      \/ reply[c].kind = "ok" /\ SetBucket(r, reply[c].left, reply[c].after) /\ globalIn' = globalIn
      \/ reply[c].kind = "global" /\ globalIn' = reply[c].after /\ UNCHANGED <<remaining, resetIn>>
      \/ reply[c].kind = "bare" /\ UNCHANGED <<remaining, resetIn, globalIn>>
  BY DEF Record, RecordRefusal, RecordAnswer
<1>3. r \in Routes /\ Limit \in Nat \ {0} /\ Window \in Nat \ {0} /\ Pause \in Nat \ {0}
  BY RouteFacts, LimiterAssumption
<1>4. /\ pc'[c] \in {"done", "limited", "checking"}
      /\ pc'[c] = "checking" => tries'[c] = 2
      /\ reply[c].kind \in {"route", "global"} => pc'[c] \in {"limited", "checking"}
      /\ \A d \in Calls : d # c => pc'[d] = pc[d] /\ reply'[d] = reply[d] /\ tries'[d] = tries[d]
  BY <1>1, HandledFacts DEF IndInv
<1>5. /\ reply[c].kind \in {"none", "ok", "bare", "route", "global"} /\ reply[c].left \in 0..Limit
      /\ reply[c].after \in Nat
      /\ reply[c].kind \in {"ok", "route"} => reply[c].after \in 0..Window
      /\ reply[c].kind = "global" => reply[c].after \in 0..Pause
  BY <1>3 DEF IndInv, TypeOK, Terms, Replies
<1>6. TypeOK'
  <2>1. remaining' \in [Routes -> 0..Limit]
    BY <1>2, <1>3, <1>5 DEF IndInv, TypeOK, SetBucket
  <2>2. resetIn' \in [Routes -> 0..Window] /\ globalIn' \in 0..Pause
    BY <1>2, <1>3, <1>5 DEF IndInv, TypeOK, SetBucket
  <2>3. disturbed' \subseteq Calls
    BY <1>1 DEF IndInv, TypeOK, Companions
  <2>4. /\ pc' \in [Calls -> Outside \union {"checking", "asleep", "passed", "sent", "answered"}]
        /\ tries' \in [Calls -> 0..2] /\ reply' \in [Calls -> Replies]
        /\ \A d \in Calls : (reply'[d] = NoReply) = (pc'[d] # "answered")
        /\ \A d \in Calls : tries'[d] = 0 <=> pc'[d] = "idle"
    BY <1>1, HandledFacts DEF IndInv
  <2> QED BY <1>1, <2>1, <2>2, <2>3, <2>4 DEF IndInv, TypeOK
<1>7. \A q \in Routes : q # r => remaining'[q] = remaining[q] /\ resetIn'[q] = resetIn[q]
  BY <1>2 DEF IndInv, TypeOK, SetBucket
<1>8. reply'[c] = NoReply /\ ~InFlight(c)' /\ ~Granted(c)'
  <2>1. reply'[c] = NoReply
    BY <1>1 DEF Handled, IndInv, TypeOK
  <2> QED BY <1>4, <2>1 DEF InFlight, Granted
<1>9. Terms'
  BY <1>3, <1>4, <1>8 DEF IndInv, Terms, NoReply
<1>10. SureRoutes'
  <2> SUFFICES ASSUME NEW q \in Routes \ unsure'
               PROVE  OneAtATime(q)' /\ HasSlot(q)' /\ Answers(q)'
                      /\ ((\A d \in Calls : RouteOf[d] = q => ~Granted(d)') => Honest(q)')
    BY DEF SureRoutes
  <2>1. q \in Routes /\ OneAtATime(q) /\ HasSlot(q) /\ Answers(q)
        /\ ((\A d \in Calls : RouteOf[d] = q => ~Granted(d)) => Honest(q))
    BY <1>1 DEF IndInv, SureRoutes
  <2>2. OneAtATime(q)' /\ HasSlot(q)'
    BY <1>1, <1>4, <1>8, <2>1 DEF OneAtATime, HasSlot, InFlight
  <2>3. Answers(q)'
    BY <1>1, <1>4, <1>8, <2>1 DEF Answers, Granted, InFlight
  <2>4. CASE q # r
    BY <1>1, <1>4, <1>7, <2>1, <2>2, <2>3, <2>4 DEF Honest, Granted
  <2>5. CASE q = r
    <3>1. \A d \in Calls : RouteOf[d] = q /\ d # c => ~InFlight(d)
      BY <1>1, <2>1, <2>5 DEF OneAtATime, InFlight
    <3>2. reply[c].kind \in {"ok", "global"}
      BY <1>1, <2>1, <2>5 DEF Answers
    <3>3. CASE reply[c].kind = "ok"
      <4>1. remaining'[q] = reply[c].left /\ resetIn'[q] = reply[c].after
        BY <1>2, <2>5, <3>3 DEF SetBucket, IndInv, TypeOK
      <4>2. Honest(q)'
        BY <1>1, <2>1, <2>5, <3>3, <4>1 DEF Honest, Answers, Granted
      <4> QED BY <2>2, <2>3, <4>2
    <3>4. CASE reply[c].kind = "global"
      <4>1. Honest(q)
        BY <2>1, <3>1, <3>4 DEF Granted, InFlight
      <4>2. Honest(q)'
        BY <1>1, <1>2, <3>4, <4>1 DEF Honest
      <4> QED BY <2>2, <2>3, <4>2
    <3> QED BY <3>2, <3>3, <3>4
  <2> QED BY <2>4, <2>5
<1>11. PausesKept'
  <2> SUFFICES ASSUME NEW d \in Calls \ disturbed', ordered[d] > 0
               PROVE  Waits(d)'
    BY <1>1 DEF PausesKept
  <2>1. Waits(d) /\ d \in Calls \ disturbed
    BY <1>1 DEF IndInv, PausesKept
  <2>2. CASE d # c
    <3>1. RouteOf[d] # r /\ RouteOf[d] \in Routes
      BY <1>1, <2>2, RouteFacts DEF Companions
    <3> QED BY <1>1, <1>4, <1>7, <2>1, <2>2, <3>1, OthersWait
  <2>3. CASE d = c
    <3>1. reply[c].kind = "route" /\ reply[c].after >= ordered[c]
      BY <1>1, <2>1, <2>3 DEF Waits
    <3>2. remaining'[r] = 0 /\ resetIn'[r] = reply[c].after
      BY <1>2, <1>3, <3>1 DEF SetBucket, IndInv, TypeOK
    <3>3. pc'[c] = "limited" \/ (pc'[c] = "checking" /\ tries'[c] = 2)
      BY <1>4, <3>1
    <3> QED BY <1>1, <2>3, <3>1, <3>2, <3>3 DEF Waits
  <2> QED BY <2>2, <2>3
<1> QED BY <1>6, <1>9, <1>10, <1>11 DEF IndInv

LEMMA FailKeeps ==
  ASSUME IndInv, NEW c \in Calls, Fail(c)
  PROVE  IndInv'
<1> DEFINE r == RouteOf[c]
<1>1. /\ UNCHANGED <<remaining, resetIn, globalIn, used, windowEnds, blockEnds, nap, tries, ordered, disturbed>>
      /\ pc[c] \in {"sent", "answered"} /\ pc' = [pc EXCEPT ![c] = "failed"]
      /\ reply' = [reply EXCEPT ![c] = NoReply]
      /\ unsure' = unsure \union {r}
  BY DEF Fail, clientVars, serverVars
<1>2. r \in Routes /\ NoReply \in Replies
  BY RouteFacts, LimiterAssumption DEF NoReply, Replies
<1>3. pc'[c] = "failed" /\ reply'[c] = NoReply
  BY <1>1 DEF IndInv, TypeOK
<1>4. \A d \in Calls : d # c => pc'[d] = pc[d] /\ reply'[d] = reply[d]
  BY <1>1 DEF IndInv, TypeOK
<1>5. TypeOK'
  <2>1. pc' \in [Calls -> Outside \union {"checking", "asleep", "passed", "sent", "answered"}]
    BY <1>1 DEF IndInv, TypeOK, Outside
  <2>2. reply' \in [Calls -> Replies] /\ unsure' \subseteq Routes
    BY <1>1, <1>2 DEF IndInv, TypeOK
  <2>3. /\ \A d \in Calls : (reply'[d] = NoReply) = (pc'[d] # "answered")
        /\ \A d \in Calls : tries'[d] = 0 <=> pc'[d] = "idle"
    BY <1>1, <1>3, <1>4 DEF IndInv, TypeOK
  <2> QED BY <1>1, <2>1, <2>2, <2>3 DEF IndInv, TypeOK
<1>6. Terms'
  BY <1>3, <1>4 DEF IndInv, Terms, NoReply
<1>7. SureRoutes'
  <2> SUFFICES ASSUME NEW q \in Routes \ unsure'
               PROVE  OneAtATime(q)' /\ HasSlot(q)' /\ Answers(q)'
                      /\ ((\A d \in Calls : RouteOf[d] = q => ~Granted(d)') => Honest(q)')
    BY DEF SureRoutes
  <2>1. q \in Routes /\ OneAtATime(q) /\ HasSlot(q) /\ Answers(q)
        /\ ((\A d \in Calls : RouteOf[d] = q => ~Granted(d)) => Honest(q))
    BY <1>1 DEF IndInv, SureRoutes
  <2>2. \A d \in Calls : RouteOf[d] = q => d # c
    BY <1>1
  <2>3. OneAtATime(q)' /\ HasSlot(q)'
    BY <1>1, <1>4, <2>1, <2>2 DEF OneAtATime, HasSlot, InFlight
  <2>4. Answers(q)' /\ ((\A d \in Calls : RouteOf[d] = q => ~Granted(d)') => Honest(q)')
    BY <1>1, <1>4, <2>1, <2>2 DEF Answers, Granted, Honest
  <2> QED BY <2>3, <2>4
<1>8. PausesKept'
  <2> SUFFICES ASSUME NEW d \in Calls \ disturbed, ordered[d] > 0
               PROVE  Waits(d)'
    BY <1>1 DEF PausesKept
  <2>1. CASE d = c
    BY <1>3, <2>1 DEF Waits
  <2>2. CASE d # c
    BY <1>1, <1>4, <2>2, OthersWait
  <2> QED BY <2>1, <2>2
<1> QED BY <1>5, <1>6, <1>7, <1>8 DEF IndInv

LEMMA TickKeeps == ASSUME IndInv, Tick PROVE IndInv'
<1> DEFINE Less(n) == IF n > 0 THEN n - 1 ELSE 0
<1>1. /\ UNCHANGED <<remaining, used, pc, tries, reply, disturbed, unsure>>
      /\ resetIn' = Elapse(resetIn) /\ windowEnds' = Elapse(windowEnds)
      /\ nap' = Elapse(nap) /\ ordered' = Elapse(ordered)
      /\ globalIn' = Less(globalIn) /\ blockEnds' = Less(blockEnds)
  BY DEF Tick
<1>2. Limit \in Nat /\ Window \in Nat /\ Pause \in Nat /\ Max({Window, Pause}) \in Nat
  BY LimiterAssumption, NapBound
<1>3. ASSUME NEW S, NEW f, NEW B \in Nat, f \in [S -> 0..B]
      PROVE  Elapse(f) \in [S -> 0..B] /\ \A x \in S : Elapse(f)[x] = Less(f[x])
  BY <1>3 DEF Elapse
<1>4. /\ resetIn' \in [Routes -> 0..Window] /\ \A q \in Routes : resetIn'[q] = Less(resetIn[q])
      /\ windowEnds' \in [Routes -> 0..Window] /\ \A q \in Routes : windowEnds'[q] = Less(windowEnds[q])
  BY <1>1, <1>2, <1>3 DEF IndInv, TypeOK
<1>5. /\ nap' \in [Calls -> 0..Max({Window, Pause})]
      /\ ordered' \in [Calls -> 0..Window] /\ \A c \in Calls : ordered'[c] = Less(ordered[c])
  <2>1. nap \in [Calls -> 0..Max({Window, Pause})] /\ ordered \in [Calls -> 0..Window]
    BY DEF IndInv, TypeOK
  <2>2. nap' \in [Calls -> 0..Max({Window, Pause})]
    <3> DEFINE B == Max({Window, Pause})
    <3>1. B \in Nat /\ nap \in [Calls -> 0..B]
      BY <1>2, <2>1
    <3> HIDE DEF B
    <3>2. nap' \in [Calls -> 0..B]
      BY <1>1, <1>3, <3>1
    <3> QED BY <3>2 DEF B
  <2>3. ordered' \in [Calls -> 0..Window] /\ \A c \in Calls : ordered'[c] = Less(ordered[c])
    BY <1>1, <1>2, <1>3, <2>1
  <2> QED BY <2>2, <2>3
<1>6. TypeOK'
  <2>1. globalIn' \in 0..Pause /\ blockEnds' \in 0..Pause
    BY <1>1, <1>2 DEF IndInv, TypeOK
  <2> QED BY <1>1, <1>4, <1>5, <2>1 DEF IndInv, TypeOK
<1>7. Terms'
  BY <1>1 DEF IndInv, Terms
<1>8. SureRoutes'
  <2> SUFFICES ASSUME NEW q \in Routes \ unsure'
               PROVE  OneAtATime(q)' /\ HasSlot(q)' /\ Answers(q)'
                      /\ ((\A d \in Calls : RouteOf[d] = q => ~Granted(d)') => Honest(q)')
    BY DEF SureRoutes
  <2>1. q \in Routes /\ OneAtATime(q) /\ HasSlot(q) /\ Answers(q)
        /\ ((\A d \in Calls : RouteOf[d] = q => ~Granted(d)) => Honest(q))
    BY <1>1 DEF IndInv, SureRoutes
  <2>2. windowEnds[q] \in Nat /\ resetIn[q] \in Nat /\ remaining[q] \in Nat /\ used[q] \in Nat
    BY <1>2, <2>1 DEF IndInv, TypeOK
  <2>3. /\ windowEnds'[q] > 0 => windowEnds[q] > 0
        /\ windowEnds'[q] <= windowEnds[q]
        /\ resetIn[q] >= windowEnds[q] => resetIn'[q] >= windowEnds'[q]
    BY <1>4, <2>1, <2>2
  <2>4. OneAtATime(q)' /\ HasSlot(q)'
    BY <1>1, <2>1, <2>3 DEF OneAtATime, HasSlot, InFlight
  <2>5. ASSUME NEW d \in Calls, Granted(d), reply[d].after >= windowEnds[q]
        PROVE  reply[d].after >= windowEnds'[q]
    <3>1. reply[d].after \in Nat /\ windowEnds'[q] \in Nat
      BY <1>2, <1>4, <2>1 DEF IndInv, TypeOK, Replies
    <3> QED BY <2>2, <2>3, <2>5, <3>1
  <2>6. Answers(q)'
    BY <1>1, <2>1, <2>3, <2>5 DEF Answers, Granted
  <2>7. (\A d \in Calls : RouteOf[d] = q => ~Granted(d)') => Honest(q)'
    BY <1>1, <2>1, <2>3 DEF Honest, Granted
  <2> QED BY <2>4, <2>6, <2>7
<1>9. PausesKept'
  <2> SUFFICES ASSUME NEW d \in Calls \ disturbed, ordered'[d] > 0
               PROVE  Waits(d)'
    BY <1>1 DEF PausesKept
  <2>1. ordered[d] \in Nat /\ resetIn[RouteOf[d]] \in Nat /\ reply[d].after \in Nat /\ RouteOf[d] \in Routes
    BY <1>2, RouteFacts DEF IndInv, TypeOK, Replies
  <2>2. ordered[d] > 0 /\ ordered'[d] <= ordered[d] /\ ordered'[d] \in Nat
    BY <1>5, <2>1
  <2>3. Waits(d)
    BY <2>2 DEF IndInv, PausesKept
  <2>4. /\ resetIn[RouteOf[d]] >= ordered[d] => resetIn'[RouteOf[d]] >= ordered'[d]
        /\ reply[d].after >= ordered[d] => reply[d].after >= ordered'[d]
    BY <1>4, <1>5, <2>1, <2>2
  <2> QED BY <1>1, <2>3, <2>4 DEF Waits
<1> QED BY <1>6, <1>7, <1>8, <1>9 DEF IndInv

-----------------------------------------------------------------------------
LEMMA Invariance == Spec => []IndInv
<1>1. Init => IndInv
  BY InitEstablishes
<1>2. IndInv /\ [Next]_vars => IndInv'
  <2> SUFFICES ASSUME IndInv, [Next]_vars PROVE IndInv'
    OBVIOUS
  <2>1. CASE Tick
    BY <2>1, TickKeeps
  <2>2. ASSUME NEW c \in Calls, Call(c) \/ Acquire(c) \/ Serve(c) \/ Record(c) \/ Fail(c)
        PROVE  IndInv'
    <3>1. CASE Call(c) \/ Check(c) \/ Sleep(c) \/ Wake(c)
      BY <3>1, CallerKeeps
    <3>2. CASE Reserve(c)
      BY <3>2, ReserveKeeps
    <3>3. CASE Grant(c)
      BY <3>3, GrantKeeps
    <3>4. CASE RefuseRoute(c)
      BY <3>4, RefuseRouteKeeps
    <3>5. CASE RefuseAll(c)
      BY <3>5, RefuseAllKeeps
    <3>6. CASE Record(c)
      BY <3>6, RecordKeeps
    <3>7. CASE Fail(c)
      BY <3>7, FailKeeps
    <3> QED BY <2>2, <3>1, <3>2, <3>3, <3>4, <3>5, <3>6, <3>7 DEF Acquire, Serve
  <2>3. CASE UNCHANGED vars
    <3>1. UNCHANGED <<remaining, resetIn, globalIn, used, windowEnds, blockEnds, ordered,
                      disturbed, unsure, pc, nap, tries, reply>>
      BY <2>3 DEF vars, clientVars, serverVars, historyVars
    <3>2. TypeOK' /\ Terms'
      BY <3>1 DEF IndInv, TypeOK, Terms
    <3>3. SureRoutes'
      BY <3>1 DEF IndInv, SureRoutes, OneAtATime, HasSlot, Answers, Honest, Granted, InFlight
    <3>4. PausesKept'
      BY <3>1 DEF IndInv, PausesKept, Waits
    <3> QED BY <3>2, <3>3, <3>4 DEF IndInv
  <2> QED BY <2>1, <2>2, <2>3 DEF Next
<1> QED BY <1>1, <1>2, PTL DEF Spec

\* Types: what the limiter's fields hold, and that a call has an answer exactly between
\* being answered and recording it.
THEOREM TypeCorrect == Spec => []TypeOK
<1>1. IndInv => TypeOK
  BY DEF IndInv
<1> QED BY <1>1, Invariance, PTL

\* However many calls and routes there are: a route with one caller at a time, none of
\* whose answers is lost, is never refused by the server (ratelimit.rs, 20-23).
THEOREM SureRoutesAreNeverRefused == Spec => []RefusedOnlyWhenUnsure
<1>1. IndInv => RefusedOnlyWhenUnsure
  <2> SUFFICES ASSUME IndInv, NEW c \in Calls, reply[c].kind = "route", RouteOf[c] \notin unsure
               PROVE  FALSE
    BY DEF RefusedOnlyWhenUnsure
  <2>1. pc[c] = "answered"
    BY DEF IndInv, TypeOK, NoReply
  <2>2. Answers(RouteOf[c])
    BY RouteFacts DEF IndInv, SureRoutes
  <2> QED BY <2>1, <2>2 DEF Answers
<1> QED BY <1>1, Invariance, PTL

\* A retry of a refused request leaves after the pause it was told, unless another answer
\* of its route was recorded meanwhile (http.rs, 174-178).
THEOREM RetriesWaitOutTheirPause == Spec => []RetryWaitsUnlessDisturbed
<1>1. IndInv => RetryWaitsUnlessDisturbed
  <2> SUFFICES ASSUME IndInv, NEW c \in Calls, pc[c] = "sent", ordered[c] > 0, c \notin disturbed
               PROVE  FALSE
    BY DEF RetryWaitsUnlessDisturbed
  <2> QED BY DEF IndInv, PausesKept, Waits
<1> QED BY <1>1, Invariance, PTL

-----------------------------------------------------------------------------
(* The keys of routes.  Whether a segment is kept depends on the one before *)
(* it, so that what Collapse does is shown from the first segment on: a set *)
(* of natural numbers has a least one, the first place where it fails.      *)

LEMMA LeastNatural ==
  ASSUME NEW T \in SUBSET Nat, T # {}
  PROVE  \E m \in T : \A k \in T : m <= k
<1>1. PICK R : R = OpToRel(<, Nat)
  OBVIOUS
<1>2. \A x, y \in Nat : <<x, y>> \in R <=> x < y
  BY <1>1 DEF OpToRel
<1>3. IsWellFoundedOn(R, Nat)
  BY <1>1, NatLessThanWellFounded
<1>4. PICK m \in T : \A y \in T : ~(<<y, m>> \in R)
  BY <1>3, WFMin
<1>5. \A y \in T : y \in Nat /\ m \in Nat /\ ~(y < m)
  BY <1>2, <1>4
<1> QED BY <1>5

\* f tells of the segments of p up to the n-th which are kept.
Keeps(f, p, n) == /\ f \in [0..n -> BOOLEAN]
                  /\ \A k \in 0..n : f[k] <=> k > 1 /\ p[k - 1] \in Major /\ ~f[k - 1]

LEMMA SomeKeeps == ASSUME NEW p, NEW n \in Nat PROVE \E f : Keeps(f, p, n)
<1> DEFINE T == {m \in Nat : ~\E f : Keeps(f, p, m)}
<1> SUFFICES ASSUME T # {} PROVE FALSE
  OBVIOUS
<1>1. PICK m \in T : \A k \in T : m <= k
  <2>1. T \in SUBSET Nat
    OBVIOUS
  <2> HIDE DEF T
  <2> QED BY <2>1, LeastNatural
<1>2. m # 0
  <2>1. Keeps([k \in 0..0 |-> FALSE], p, 0)
    BY DEF Keeps
  <2> QED BY <1>1, <2>1
<1>3. m - 1 \in Nat /\ m - 1 \notin T /\ m \in Nat
  BY <1>1, <1>2
<1>4. PICK f : Keeps(f, p, m - 1)
  BY <1>3
<1> DEFINE last == m > 1 /\ p[m - 1] \in Major /\ ~f[m - 1]
           g == [k \in 0..m |-> IF k = m THEN last ELSE f[k]]
<1>5. /\ f \in [0..(m - 1) -> BOOLEAN]
      /\ \A k \in 0..(m - 1) : f[k] <=> k > 1 /\ p[k - 1] \in Major /\ ~f[k - 1]
  BY <1>4 DEF Keeps
<1>6. last \in BOOLEAN
  OBVIOUS
<1>7. g \in [0..m -> BOOLEAN] /\ g[m] = last /\ \A k \in 0..(m - 1) : g[k] = f[k]
  <2> HIDE DEF last
  <2> QED BY <1>3, <1>5, <1>6
<1> HIDE DEF g
<1>8. ASSUME NEW k \in 0..m PROVE g[k] <=> k > 1 /\ p[k - 1] \in Major /\ ~g[k - 1]
  <2>1. CASE k = m
    <3>1. g[m - 1] = f[m - 1]
      BY <1>3, <1>7
    <3> QED BY <1>7, <2>1, <3>1
  <2>2. CASE k # m
    <3>1. k \in 0..(m - 1) /\ (k > 1 => k - 1 \in 0..(m - 1))
      BY <1>3, <2>2
    <3>2. g[k] = f[k] /\ (k > 1 => g[k - 1] = f[k - 1])
      BY <1>7, <3>1
    <3> QED BY <1>5, <3>1, <3>2
  <2> QED BY <2>1, <2>2
<1>9. Keeps(g, p, m)
  BY <1>7, <1>8 DEF Keeps
<1> QED BY <1>1, <1>9

LEMMA LengthIs ==
  ASSUME NEW n \in Nat, NEW S, NEW p \in [1..n -> S]
  PROVE  Len(p) = n /\ DOMAIN p = 1..n
<1>1. p \in Seq(S)
  BY SeqDef
<1> QED BY <1>1

\* What a path collapses to.
LEMMA CollapseIs ==
  ASSUME NEW n \in Nat, NEW p \in [1..n -> Segments]
  PROVE  \E f : /\ Keeps(f, p, n)
                /\ Collapse(p) = [k \in 1..n |-> IF p[k] \in Snowflakes /\ ~f[k] THEN Id ELSE p[k]]
<1> DEFINE Def(f) == [k \in 0..n |-> k > 1 /\ p[k - 1] \in Major /\ ~f[k - 1]]
           kept == CHOOSE f : f = Def(f)
<1>1. Len(p) = n /\ DOMAIN p = 1..n
  BY LengthIs
<1>2. PICK f : Keeps(f, p, n)
  BY SomeKeeps
<1>3. f = Def(f)
  BY <1>2 DEF Keeps
<1>4. kept = Def(kept)
  BY <1>3
<1>5. Collapse(p) = [k \in 1..n |-> IF p[k] \in Snowflakes /\ ~kept[k] THEN Id ELSE p[k]]
  BY <1>1 DEF Collapse
<1> HIDE DEF kept
<1>6. Keeps(kept, p, n)
  BY <1>4 DEF Keeps
<1> QED BY <1>5, <1>6

-----------------------------------------------------------------------------
LEMMA PathFacts ==
  ASSUME NEW p \in Paths
  PROVE  \E n \in 1..MaxLen : p \in [1..n -> Segments] /\ Len(p) = n /\ DOMAIN p = 1..n /\ n \in Nat \ {0}
<1>1. PICK n \in 1..MaxLen : p \in [1..n -> Segments]
  BY DEF Paths
<1>2. n \in Nat \ {0}
  BY <1>1, SegmentKinds
<1>3. Len(p) = n
  BY <1>1, <1>2, LengthIs
<1> QED BY <1>1, <1>2, <1>3

\* A segment stays what it is, unless it is a snowflake that is not kept.
LEMMA CollapseTells ==
  ASSUME NEW p \in Paths
  PROVE  /\ DOMAIN Collapse(p) = DOMAIN p
         /\ \A k \in DOMAIN p : \/ Collapse(p)[k] = p[k]
                                \/ Collapse(p)[k] = Id /\ p[k] \in Snowflakes
         /\ p[1] \in Major => Collapse(p)[1] = p[1] /\ (2 \in DOMAIN p => Collapse(p)[2] = p[2])
<1>1. PICK n \in 1..MaxLen : p \in [1..n -> Segments] /\ DOMAIN p = 1..n /\ n \in Nat
  BY PathFacts
<1>2. PICK f : /\ Keeps(f, p, n)
               /\ Collapse(p) = [k \in 1..n |-> IF p[k] \in Snowflakes /\ ~f[k] THEN Id ELSE p[k]]
  BY <1>1, CollapseIs
<1>3. ASSUME p[1] \in Major
      PROVE  Collapse(p)[1] = p[1] /\ (2 \in DOMAIN p => Collapse(p)[2] = p[2])
  <2>1. p[1] \notin Snowflakes /\ 1 \in 1..n
    BY <1>1, <1>3, SegmentKinds
  <2>2. ~f[1]
    BY <1>1, <1>2, <2>1 DEF Keeps
  <2>3. 2 \in 1..n => f[2]
    BY <1>1, <1>2, <1>3, <2>2 DEF Keeps
  <2> QED BY <1>1, <1>2, <2>1, <2>3
<1> QED BY <1>1, <1>2, <1>3

\* Paths with the same key have the same length and the same literals and families.
LEMMA SameKey ==
  ASSUME NEW p \in Paths, NEW q \in Paths, Collapse(p) = Collapse(q)
  PROVE  /\ DOMAIN p = DOMAIN q
         /\ \A k \in DOMAIN p : {p[k], q[k]} \cap (Major \cup Literals) # {} => p[k] = q[k]
         /\ p[1] \in Major /\ 2 \in DOMAIN p => q[2] = p[2]
<1>1. /\ DOMAIN p = DOMAIN q /\ 1 \in DOMAIN p
      /\ \A k \in DOMAIN p : p[k] \in Segments /\ q[k] \in Segments
  <2>1. DOMAIN p = DOMAIN q
    BY CollapseTells
  <2> QED BY <2>1, PathFacts
<1>2. \A k \in DOMAIN p : {p[k], q[k]} \cap (Major \cup Literals) # {} => p[k] = q[k]
  BY <1>1, CollapseTells, SegmentKinds DEF Segments
<1>3. ASSUME p[1] \in Major, 2 \in DOMAIN p PROVE q[2] = p[2]
  <2>1. q[1] = p[1]
    BY <1>1, <1>2, <1>3
  <2> QED BY <1>1, <1>3, <2>1, CollapseTells
<1> QED BY <1>1, <1>2, <1>3

\* Which segments are kept does not depend on the snowflakes.
LEMMA SameKept ==
  ASSUME NEW n \in Nat, NEW p, NEW q, NEW f, NEW g, Keeps(f, p, n), Keeps(g, q, n),
         \A k \in 1..n : p[k] \in Major <=> q[k] \in Major
  PROVE  \A k \in 0..n : f[k] = g[k]
<1> DEFINE T == {k \in 0..n : f[k] # g[k]}
<1> SUFFICES ASSUME T # {} PROVE FALSE
  OBVIOUS
<1>1. PICK m \in T : \A k \in T : m <= k
  <2>1. T \in SUBSET Nat
    OBVIOUS
  <2> HIDE DEF T
  <2> QED BY <2>1, LeastNatural
<1>2. /\ m \in 0..n /\ f[m] # g[m] /\ f[m] \in BOOLEAN /\ g[m] \in BOOLEAN
      /\ f[m] <=> m > 1 /\ p[m - 1] \in Major /\ ~f[m - 1]
      /\ g[m] <=> m > 1 /\ q[m - 1] \in Major /\ ~g[m - 1]
  BY <1>1 DEF Keeps
<1>3. m > 1
  BY <1>2
<1>4. m - 1 \in 1..n /\ m - 1 \in 0..n /\ ~(m <= m - 1)
  BY <1>2, <1>3
<1>5. f[m - 1] = g[m - 1]
  BY <1>1, <1>4
<1> QED BY <1>2, <1>4, <1>5

\* Other snowflakes in places that are not behind a major family: the same key.
LEMMA RenamingShares ==
  ASSUME NEW p \in Paths, NEW q \in Renamings(p)
  PROVE  q \in Paths /\ Collapse(q) = Collapse(p)
<1>1. PICK n \in 1..MaxLen : p \in [1..n -> Segments] /\ DOMAIN p = 1..n /\ n \in Nat
  BY PathFacts
<1>2. /\ q \in [1..n -> Segments]
      /\ \A k \in 1..n : \/ q[k] = p[k]
                         \/ {p[k], q[k]} \subseteq Snowflakes /\ (k = 1 \/ p[k - 1] \notin Major)
  BY <1>1 DEF Renamings
<1>3. PICK f : /\ Keeps(f, p, n)
               /\ Collapse(p) = [k \in 1..n |-> IF p[k] \in Snowflakes /\ ~f[k] THEN Id ELSE p[k]]
  BY <1>1, CollapseIs
<1>4. PICK g : /\ Keeps(g, q, n)
               /\ Collapse(q) = [k \in 1..n |-> IF q[k] \in Snowflakes /\ ~g[k] THEN Id ELSE q[k]]
  BY <1>1, <1>2, CollapseIs
<1>5. \A k \in 1..n : p[k] \in Major <=> q[k] \in Major
  BY <1>2, SegmentKinds
<1>6. \A k \in 0..n : f[k] = g[k]
  BY <1>1, <1>3, <1>4, <1>5, SameKept
<1>7. ASSUME NEW k \in 1..n
      PROVE  (IF q[k] \in Snowflakes /\ ~g[k] THEN Id ELSE q[k])
               = (IF p[k] \in Snowflakes /\ ~f[k] THEN Id ELSE p[k])
  <2>1. CASE q[k] = p[k]
    BY <1>1, <1>6, <2>1
  <2>2. CASE {p[k], q[k]} \subseteq Snowflakes /\ (k = 1 \/ p[k - 1] \notin Major)
    <3>1. ~f[k] /\ k \in 0..n
      BY <1>1, <1>3, <2>2 DEF Keeps
    <3>2. ~g[k]
      BY <1>6, <3>1
    <3> QED BY <2>2, <3>1, <3>2
  <2> QED BY <1>2, <2>1, <2>2
<1>8. q \in Paths
  BY <1>1, <1>2 DEF Paths
<1> QED BY <1>3, <1>4, <1>7, <1>8

LEMMA Routing == BucketsFollowRoutes
<1>1. ASSUME NEW s \in Sharing
      PROVE  s[1] \in Calls /\ PathOf[s[1]] \in Paths /\ s[2] \in Paths /\ Collapse(s[2]) = Collapse(PathOf[s[1]])
  <2>1. PICK c \in Calls, q \in Paths : s = <<c, q>> /\ Collapse(q) = RouteOf[c]
    BY DEF Sharing
  <2> QED BY <2>1, LimiterAssumption DEF RouteOf
<1>2. MajorsAreSeparate
  <2> SUFFICES ASSUME NEW s \in Sharing, PathOf[s[1]][1] \in Major,
                      NEW k \in {1, 2} \cap DOMAIN PathOf[s[1]]
               PROVE  s[2][k] = PathOf[s[1]][k]
    BY DEF MajorsAreSeparate
  <2> QED BY <1>1, SameKey
<1>3. LiteralsStay
  <2> SUFFICES ASSUME NEW s \in Sharing
               PROVE  /\ Len(s[2]) = Len(PathOf[s[1]])
                      /\ \A k \in DOMAIN s[2] :
                           {s[2][k], PathOf[s[1]][k]} \cap Literals # {} => s[2][k] = PathOf[s[1]][k]
    BY DEF LiteralsStay
  <2>1. DOMAIN s[2] = DOMAIN PathOf[s[1]]
    BY <1>1, SameKey
  <2>2. Len(s[2]) = Len(PathOf[s[1]])
    <3>1. PICK m \in 1..MaxLen : Len(s[2]) = m /\ DOMAIN s[2] = 1..m /\ m \in Nat \ {0}
      BY <1>1, PathFacts
    <3>2. PICK n \in 1..MaxLen : Len(PathOf[s[1]]) = n /\ DOMAIN PathOf[s[1]] = 1..n /\ n \in Nat \ {0}
      BY <1>1, PathFacts
    <3>3. 1..m = 1..n
      BY <2>1, <3>1, <3>2
    <3>4. m \in 1..m /\ n \in 1..n
      BY <3>1, <3>2
    <3>5. m = n
      BY <3>1, <3>2, <3>3, <3>4
    <3> QED BY <3>1, <3>2, <3>5
  <2> QED BY <1>1, <2>1, <2>2, SameKey
<1>4. OtherIdsCollapse
  <2> SUFFICES ASSUME NEW s \in Renaming PROVE s \in Sharing
    BY DEF OtherIdsCollapse
  <2>1. PICK c \in Calls : s \in {<<c, q>> : q \in Renamings(PathOf[c])}
    BY DEF Renaming
  <2>2. PICK q \in Renamings(PathOf[c]) : s = <<c, q>>
    BY <2>1
  <2>3. q \in Paths /\ Collapse(q) = RouteOf[c]
    BY <2>1, RenamingShares, LimiterAssumption DEF RouteOf
  <2> QED BY <2>1, <2>2, <2>3 DEF Sharing
<1> QED BY <1>2, <1>3, <1>4 DEF BucketsFollowRoutes

\* Whatever the paths of the calls, of any length: a call's bucket is that of its route.
\* It is shared with no other channel, guild or webhook, with every path that differs
\* in other ids only, and with no other sub-resource (ratelimit.rs, 25-28 and 94-95).
THEOREM CallsFileByRoute == Spec => []BucketsFollowRoutes
BY Routing, PTL
=============================================================================
