----------------------------- MODULE EventStream -----------------------------
(***************************************************************************)
(* What the gateway promises the rest of the client about DISPATCH events: *)
(* a session's events arrive in the order of their sequence numbers, from  *)
(* READY (number 1) on, none missing and none twice, and once an event of  *)
(* a newer session has arrived no event of an older one does.  A session   *)
(* may be given up at any point, so the stream of a session may end early. *)
(* Gateway.tla implements this over drops, RESUMEs and invalid sessions.   *)
(***************************************************************************)
EXTENDS Naturals

CONSTANTS MaxSessions, MaxEvents

VARIABLES
  made,    \* made[i]: how many events session i has produced so far
  got      \* [n, sid, s]: number of events received, and the latest of them

streamVars == <<made, got>>

SessionIds == 1..MaxSessions

StreamInit ==
  /\ made = [i \in SessionIds |-> 0]
  /\ got = [n |-> 0, sid |-> 0, s |-> 0]

Produce(i) ==
  /\ made[i] < MaxEvents
  /\ made' = [made EXCEPT ![i] = @ + 1]
  /\ UNCHANGED got

\* The next event of the session being followed, or the READY of a newer one.
Receive(i) ==
  /\ got.sid <= i
  /\ LET k == IF got.sid = i THEN got.s + 1 ELSE 1
     IN  /\ k <= made[i]
         /\ got' = [n |-> got.n + 1, sid |-> i, s |-> k]
  /\ UNCHANGED made

StreamNext == \E i \in SessionIds : Produce(i) \/ Receive(i)

StreamSpec == StreamInit /\ [][StreamNext]_streamVars
==============================================================================
