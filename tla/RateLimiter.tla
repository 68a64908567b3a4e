---------------------------- MODULE RateLimiter ----------------------------
(***************************************************************************)
(* The client-side rate limiter (core/src/ratelimit.rs) under the REST     *)
(* transport's send loop (core/src/http.rs, execute_keyed): tasks that     *)
(* share one limiter acquire a slot of their route, send, and feed the     *)
(* answer's headers back into the limiter; a 429 is retried once.          *)
(*                                                                         *)
(* Time is relative.  Every deadline is the number of ticks until it is    *)
(* reached, so `deadline > now' reads `ticks > 0' and a deadline in the    *)
(* past is 0.  A route with no bucket behaves as one with nothing          *)
(* remaining whose window has passed, and global_until = None as a block   *)
(* that has passed; both are the initial values here.                      *)
(*                                                                         *)
(* The server is external: a fixed window of Limit requests per route,     *)
(* and a global block it may impose at any time.  It sends no Retry-After  *)
(* with a 2xx, no reset without a remaining count, and nothing that lifts  *)
(* a global block early: what record does with those is left out.          *)
(***************************************************************************)
EXTENDS Integers, FiniteSets, FiniteSetsExt, RouteKeys

CONSTANTS
    Calls,       \* requests the program makes
    PathOf,      \* the path of each call, all with one method
    Retriers,    \* the calls made with a `rebuild' closure
    Limit,       \* requests the server grants per window and route
    Window,      \* ticks of a window
    Pause        \* ticks of a global block

ASSUME LimiterAssumption ==
    /\ PathOf \in [Calls -> Paths]
    /\ Retriers \subseteq Calls
    /\ {Limit, Window, Pause} \subseteq Nat \ {0}

\* RouteKey::new: a call is filed under the collapsed path.
RouteOf == [c \in Calls |-> Collapse(PathOf[c])]
Routes == {RouteOf[c] : c \in Calls}

VARIABLES
    remaining,   \* BucketState.remaining of each route
    resetIn,     \* BucketState.reset_at
    globalIn,    \* Inner.global_until
    pc,          \* where each call is
    nap,         \* the deadline a sleeping call waits for
    tries,       \* acquisitions a call has made
    reply,       \* the answer on its way back to a call
    used,        \* server: requests served in the current window of a route
    windowEnds,  \* server: end of that window
    blockEnds,   \* server: end of the global block
    ordered,     \* history: what is left of the pause a call's own 429 ordered
    disturbed,   \* history: calls for which another answer of the route came since
    unsure       \* history: routes that had two callers at once, or an answer lost

clientVars == <<remaining, resetIn, globalIn>>
serverVars == <<used, windowEnds, blockEnds>>
historyVars == <<ordered, disturbed, unsure>>
vars == <<clientVars, serverVars, historyVars, pc, nap, tries, reply>>

NoReply == [kind |-> "none", left |-> 0, after |-> 0]
Replies == [kind : {"none", "ok", "bare", "route", "global"},
            left : 0..Limit, after : 0..(IF Window > Pause THEN Window ELSE Pause)]
Outside == {"idle", "done", "limited", "failed"}

\* A call is in the window between its check and its recorded answer.
InFlight(c) == pc[c] \in {"passed", "sent", "answered"}
Companions(c) == {d \in Calls \ {c} : RouteOf[d] = RouteOf[c]}

Init ==
    /\ remaining = [r \in Routes |-> 0]
    /\ resetIn = [r \in Routes |-> 0]
    /\ globalIn = 0
    /\ pc = [c \in Calls |-> "idle"]
    /\ nap = [c \in Calls |-> 0]
    /\ tries = [c \in Calls |-> 0]
    /\ reply = [c \in Calls |-> NoReply]
    /\ used = [r \in Routes |-> 0]
    /\ windowEnds = [r \in Routes |-> 0]
    /\ blockEnds = 0
    /\ ordered = [c \in Calls |-> 0]
    /\ disturbed = {}
    /\ unsure = {}

-----------------------------------------------------------------------------
(* acquire.                                                                *)

Call(c) ==
    /\ pc[c] = "idle"
    /\ pc' = [pc EXCEPT ![c] = "checking"]
    /\ tries' = [tries EXCEPT ![c] = 1]
    /\ UNCHANGED <<clientVars, serverVars, historyVars, nap, reply>>

\* The later of the route's window, when it is exhausted, and the global block.
WaitFor(r) == Max({globalIn, IF remaining[r] = 0 THEN resetIn[r] ELSE 0})

\* A plausible bug: a retry waits until some answer has refilled its route's bucket.
BadCheck(c) ==
    /\ pc[c] = "checking"
    /\ WaitFor(RouteOf[c]) = 0
    /\ remaining[RouteOf[c]] > 0 \/ tries[c] = 1
    /\ pc' = [pc EXCEPT ![c] = "passed"]
    /\ unsure' = unsure \union {RouteOf[d] : d \in {e \in Companions(c) : InFlight(e)}}
    /\ UNCHANGED <<clientVars, serverVars, nap, tries, reply, ordered, disturbed>>

\* One turn of the loop that finds nothing to wait for.
Check(c) ==
    /\ pc[c] = "checking"
    /\ WaitFor(RouteOf[c]) = 0
    /\ pc' = [pc EXCEPT ![c] = "passed"]
    /\ unsure' = unsure \union {RouteOf[d] : d \in {e \in Companions(c) : InFlight(e)}}
    /\ UNCHANGED <<clientVars, serverVars, nap, tries, reply, ordered, disturbed>>

\* One turn of the loop that reads a deadline and sleeps until it.
Sleep(c) ==
    /\ pc[c] = "checking"
    /\ WaitFor(RouteOf[c]) > 0
    /\ pc' = [pc EXCEPT ![c] = "asleep"]
    /\ nap' = [nap EXCEPT ![c] = WaitFor(RouteOf[c])]
    /\ UNCHANGED <<clientVars, serverVars, historyVars, tries, reply>>

Wake(c) ==
    /\ pc[c] = "asleep"
    /\ nap[c] = 0
    /\ pc' = [pc EXCEPT ![c] = "checking"]
    /\ UNCHANGED <<clientVars, serverVars, historyVars, nap, tries, reply>>

\* A plausible bug: the slot is taken without asking whether there is one.
BadReserve(c) ==
    /\ pc[c] = "passed"
    /\ remaining' = [remaining EXCEPT ![RouteOf[c]] = @ - 1]
    /\ pc' = [pc EXCEPT ![c] = "sent"]
    /\ UNCHANGED <<resetIn, globalIn, serverVars, historyVars, nap, tries, reply>>

\* The lock is taken again, the slot is taken if there is one, and the request
\* leaves whether there was one or not.
Reserve(c) ==
    /\ pc[c] = "passed"
    /\ remaining' = [remaining EXCEPT ![RouteOf[c]] = IF @ > 0 THEN @ - 1 ELSE 0]
    /\ pc' = [pc EXCEPT ![c] = "sent"]
    /\ UNCHANGED <<resetIn, globalIn, serverVars, historyVars, nap, tries, reply>>

-----------------------------------------------------------------------------
(* The server.                                                             *)

Answer(c, kind, left, after) ==
    /\ pc' = [pc EXCEPT ![c] = "answered"]
    /\ reply' = [reply EXCEPT ![c] = [kind |-> kind, left |-> left, after |-> after]]

Served(r) == IF windowEnds[r] = 0 THEN 1 ELSE used[r] + 1

\* Within the limit: served, and the headers tell the state of the window;
\* some answers (a proxy's, say) carry no such headers.
Grant(c) == LET r == RouteOf[c] IN
    /\ pc[c] = "sent"
    /\ blockEnds = 0
    /\ Served(r) <= Limit
    /\ used' = [used EXCEPT ![r] = Served(r)]
    /\ windowEnds' = [windowEnds EXCEPT ![r] = IF @ = 0 THEN Window ELSE @]
    /\ \/ /\ Answer(c, "ok", Limit - Served(r), windowEnds'[r])
          /\ UNCHANGED unsure
       \/ /\ Answer(c, "bare", 0, 0)
          /\ unsure' = unsure \union {r}
    /\ UNCHANGED <<clientVars, blockEnds, nap, tries, ordered, disturbed>>

\* 429 without X-RateLimit-Global.
RefuseRoute(c) == LET r == RouteOf[c] IN
    /\ pc[c] = "sent"
    /\ blockEnds = 0
    /\ Served(r) > Limit
    /\ Answer(c, "route", 0, windowEnds[r])
    /\ ordered' = [ordered EXCEPT ![c] = windowEnds[r]]
    /\ disturbed' = disturbed \ {c}
    /\ UNCHANGED <<clientVars, serverVars, nap, tries, unsure>>

\* 429 with X-RateLimit-Global, under a block that is on or begins now.
RefuseAll(c) ==
    /\ pc[c] = "sent"
    /\ blockEnds' = IF blockEnds = 0 THEN Pause ELSE blockEnds
    /\ Answer(c, "global", 0, blockEnds')
    /\ UNCHANGED <<clientVars, used, windowEnds, nap, tries, historyVars>>

-----------------------------------------------------------------------------
(* record, and what execute_keyed does next.                               *)

\* What follows a recorded answer: one retry of a 429, when it can be rebuilt.
AfterAnswer(c) ==
    CASE reply[c].kind \in {"ok", "bare"} -> "done"
      [] reply[c].kind \in {"route", "global"} /\ tries[c] = 1 /\ c \in Retriers -> "checking"
      [] OTHER -> "limited"

\* The bucket of the route takes what the answer says, whatever it held.
SetBucket(r, left, after) ==
    /\ remaining' = [remaining EXCEPT ![r] = left]
    /\ resetIn' = [resetIn EXCEPT ![r] = after]

Handled(c) ==
    /\ pc' = [pc EXCEPT ![c] = AfterAnswer(c)]
    /\ tries' = [tries EXCEPT ![c] = IF AfterAnswer(c) = "checking" THEN 2 ELSE @]
    /\ reply' = [reply EXCEPT ![c] = NoReply]
    /\ disturbed' = disturbed \union Companions(c)
    /\ UNCHANGED <<serverVars, nap, ordered, unsure>>

\* A plausible bug: the pause a 429 orders is not written to a bucket that exists.
BadRecordRefusal(c) ==
    /\ pc[c] = "answered"
    /\ reply[c].kind \in {"route", "global"}
    /\ IF reply[c].kind = "global"
       THEN globalIn' = reply[c].after /\ UNCHANGED <<remaining, resetIn>>
       ELSE SetBucket(RouteOf[c], 0, resetIn[RouteOf[c]]) /\ UNCHANGED globalIn
    /\ Handled(c)

\* A global block is set for everyone, otherwise the route's bucket is emptied.
RecordRefusal(c) ==
    /\ pc[c] = "answered"
    /\ reply[c].kind \in {"route", "global"}
    /\ IF reply[c].kind = "global"
       THEN globalIn' = reply[c].after /\ UNCHANGED <<remaining, resetIn>>
       ELSE SetBucket(RouteOf[c], 0, reply[c].after) /\ UNCHANGED globalIn
    /\ Handled(c)

\* A plausible bug: X-RateLimit-Remaining is ignored and the limit assumed.
BadRecordAnswer(c) ==
    /\ pc[c] = "answered"
    /\ reply[c].kind \in {"ok", "bare"}
    /\ IF reply[c].kind = "ok"
       THEN SetBucket(RouteOf[c], Limit, reply[c].after)
       ELSE UNCHANGED <<remaining, resetIn>>
    /\ UNCHANGED globalIn
    /\ Handled(c)

\* Any other answer: the bucket is overwritten when the headers give a reset.
RecordAnswer(c) ==
    /\ pc[c] = "answered"
    /\ reply[c].kind \in {"ok", "bare"}
    /\ IF reply[c].kind = "ok"
       THEN SetBucket(RouteOf[c], reply[c].left, reply[c].after)
       ELSE UNCHANGED <<remaining, resetIn>>
    /\ UNCHANGED globalIn
    /\ Handled(c)

\* A transport error, or the client's 30 s timeout, before or after the server
\* saw the request: the guard is dropped, the reserved slot is not given back.
Fail(c) ==
    /\ pc[c] \in {"sent", "answered"}
    /\ pc' = [pc EXCEPT ![c] = "failed"]
    /\ reply' = [reply EXCEPT ![c] = NoReply]
    /\ unsure' = unsure \union {RouteOf[c]}
    /\ UNCHANGED <<clientVars, serverVars, nap, tries, ordered, disturbed>>

\* Time passes for every deadline at once.
Elapse(f) == [x \in DOMAIN f |-> IF f[x] > 0 THEN f[x] - 1 ELSE 0]
Tick ==
    /\ resetIn' = Elapse(resetIn) /\ windowEnds' = Elapse(windowEnds)
    /\ nap' = Elapse(nap) /\ ordered' = Elapse(ordered)
    /\ globalIn' = (IF globalIn > 0 THEN globalIn - 1 ELSE 0)
    /\ blockEnds' = (IF blockEnds > 0 THEN blockEnds - 1 ELSE 0)
    /\ UNCHANGED <<remaining, used, pc, tries, reply, disturbed, unsure>>

-----------------------------------------------------------------------------
Acquire(c) == Check(c) \/ Sleep(c) \/ Wake(c) \/ Reserve(c)
Serve(c) == Grant(c) \/ RefuseRoute(c) \/ RefuseAll(c)
Record(c) == RecordRefusal(c) \/ RecordAnswer(c)

Next ==
    \/ Tick
    \/ \E c \in Calls : Call(c) \/ Acquire(c) \/ Serve(c) \/ Record(c) \/ Fail(c)

Spec == Init /\ [][Next]_vars

\* Time passes, a task that can run runs, and a request ends one way or another
\* (the HTTP client has a 30 s timeout).
FairSpec ==
    /\ Spec
    /\ WF_vars(Tick)
    /\ \A c \in Calls : WF_vars(Acquire(c)) /\ WF_vars(Serve(c) \/ Record(c) \/ Fail(c))

-----------------------------------------------------------------------------
(* Properties.                                                             *)

\* Types, and the call states that carry a reply or a deadline are the ones that use them.
TypeOK ==
    /\ remaining \in [Routes -> 0..Limit]
    /\ resetIn \in [Routes -> 0..Window]
    /\ globalIn \in 0..Pause
    /\ pc \in [Calls -> Outside \union {"checking", "asleep", "passed", "sent", "answered"}]
    /\ nap \in [Calls -> 0..Max({Window, Pause})]
    /\ tries \in [Calls -> 0..2]
    /\ reply \in [Calls -> Replies]
    /\ used \in [Routes -> 0..Limit]
    /\ windowEnds \in [Routes -> 0..Window]
    /\ blockEnds \in 0..Pause
    /\ ordered \in [Calls -> 0..Window]
    /\ disturbed \subseteq Calls
    /\ unsure \subseteq Routes
    /\ \A c \in Calls : (reply[c] = NoReply) = (pc[c] # "answered")
    /\ \A c \in Calls : tries[c] = 0 <=> pc[c] = "idle"

Filed(c) == pc[c] # "idle"

\* Calls with the paths that share their bucket, and with those that should.
Sharing == UNION {{<<c, q>> : q \in {p \in Paths : Collapse(p) = RouteOf[c]}} : c \in Calls}
Renaming == UNION {{<<c, q>> : q \in Renamings(PathOf[c])} : c \in Calls}

\* A call never waits for, uses up or empties the bucket of another channel, guild
\* or webhook: of all paths, those filed under its key have the family and id its
\* own path starts with (ratelimit.rs, 25-28).
MajorsAreSeparate ==
    \A s \in Sharing : Filed(s[1]) /\ PathOf[s[1]][1] \in Major =>
        \A k \in {1, 2} \cap DOMAIN PathOf[s[1]] : s[2][k] = PathOf[s[1]][k]

\* Nor does it have a bucket to itself because of the message, member or role it
\* names, which would make as many buckets and hide the limit of the route
\* (ratelimit.rs, 94-95).
OtherIdsCollapse ==
    \A s \in Renaming : Filed(s[1]) => s \in Sharing

\* A sub-resource has a bucket of its own: what shares it has the same literals in
\* the same places.
LiteralsStay ==
    \A s \in Sharing : Filed(s[1]) =>
        /\ Len(s[2]) = Len(PathOf[s[1]])
        /\ \A k \in DOMAIN s[2] :
             {s[2][k], PathOf[s[1]][k]} \cap Literals # {} => s[2][k] = PathOf[s[1]][k]

\* A call's bucket is that of its route: no narrower, no wider.
BucketsFollowRoutes == MajorsAreSeparate /\ OtherIdsCollapse /\ LiteralsStay

\* As long as a route has one caller at a time and none of its answers is lost,
\* the limiter's bucket never promises more than the server's window holds: the
\* server never has to refuse a request for the route (ratelimit.rs, 20-23).
RefusedOnlyWhenUnsure ==
    \A c \in Calls : reply[c].kind = "route" => RouteOf[c] \in unsure

\* The retry of a request refused for its route leaves after the pause that
\* refusal ordered, unless another answer of the same route was recorded in
\* between (http.rs, 174-178).
RetryWaitsUnlessDisturbed ==
    \A c \in Calls : pc[c] = "sent" /\ tries[c] = 2 /\ ordered[c] > 0 => c \in disturbed

\* Every call comes to an end: a caller parked on an exhausted route or on a
\* global block gets its turn, though nobody ever refills the bucket.
Settles == \A c \in Calls : pc[c] # "idle" ~> pc[c] \in Outside

-----------------------------------------------------------------------------
(* Sentences of the code's docs and comments that this model refutes.  No    *)
(* run checks them; README.md says what the code does instead.              *)

\* What the doc says of the retry, http.rs 177-178: re-acquiring "blocks until
\* the window resets".
RetryWaits ==
    \A c \in Calls : pc[c] = "sent" /\ tries[c] = 2 => ordered[c] = 0

\* What the comment says of the reservation, ratelimit.rs 191-192: callers do
\* not "all storm through the same window"; a request leaves within a window
\* that is still running only by taking one of its slots.
SlotsAreReserved ==
    [][\A c \in Calls : Reserve(c) =>
          LET r == RouteOf[c] IN remaining[r] > 0 \/ resetIn[r] = 0]_vars
=============================================================================
