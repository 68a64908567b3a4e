----------------------------- MODULE AppSession -----------------------------
(***************************************************************************)
(* Logging in and out of the desktop client: the SessionStore of the web   *)
(* frontend (web/src/stores.ts), the login and logout commands and their   *)
(* AppState (src-tauri/src/lib.rs), the stored session in the OS keychain  *)
(* (secure_storage.rs), the gateway supervisor each login spawns           *)
(* (src-tauri/src/gateway.rs), and the frontend's event listeners.         *)
(*                                                                         *)
(* Every login gets a number.  All of them are of one account, so a        *)
(* message that mentions the user reaches every supervisor that runs.  The *)
(* frontend issues login and logout one at a time; requests it made        *)
(* earlier may be answered at any time.                                    *)
(***************************************************************************)
EXTENDS Naturals, FiniteSets

CONSTANTS
  MaxLogins,    \* bound: calls of login
  MaxMentions,  \* bound: messages that mention the user
  MaxQuits      \* bound: times the app is closed or crashes

ASSUME SessionConstants == MaxLogins \in Nat /\ MaxMentions \in Nat /\ MaxQuits \in Nat

VARIABLES
  \* the frontend
  ui,         \* "out", "login", "in", "logout"
  started,    \* gatewayStarted
  listeners,  \* listeners attached to the `gateway` event
  stores,     \* logins whose events the stores hold
  counted,    \* mention_count of the stores
  \* AppState and the command that is running
  step,       \* where login or logout is
  client, notify, cmds,  \* slots of AppState: the login that filled them, or 0
  gw,         \* the notifier take_client returned to logout
  keychain,   \* the stored session
  \* the supervisors
  sup,        \* sup[e]: "none", "run", "wait", "stopped"
  inbox,      \* inbox[e]: mentions on their way to the supervisor
  \* requests and observers
  requests,   \* logins with a REST request in flight
  revoked,    \* logins whose token the server no longer accepts
  logins,     \* logins started so far
  saved,      \* observer: the latest login whose session was to be stored
  failed,     \* observer: the keychain has failed since it last did as it was told
  left,       \* observer: a logout has returned since the app started
  sent,       \* mentions sent so far
  quits

frontVars == <<ui, started, listeners, stores, counted>>
slotVars  == <<client, notify, cmds>>
supVars   == <<sup, inbox>>
reqVars   == <<requests, revoked>>
obsVars   == <<saved, failed, left, sent, quits>>
vars == <<frontVars, step, slotVars, gw, keychain, supVars, reqVars, logins, obsVars>>

Logins == 1..MaxLogins

-----------------------------------------------------------------------------
(* The keychain is written and deleted at best effort: a failure is logged   *)
(* and what was stored stays.                                                *)

Store(session) ==
  \/ keychain' = session /\ failed' = FALSE
  \/ keychain' = keychain /\ failed' = TRUE

Forget == Store(0)

-----------------------------------------------------------------------------
(* Login. *)

\* Bad definitions are slips the code could have, each beside what it would replace.
BadStartGatewayListener ==   \* no gatewayStarted guard
  /\ started' = TRUE
  /\ listeners' = listeners + 1

\* Attaches the listeners once until gatewayStarted is reset; never detaches.
StartGatewayListener ==
  /\ started' = TRUE
  /\ listeners' = IF started THEN listeners ELSE listeners + 1

Login ==
  /\ ui = "out" /\ logins < MaxLogins
  /\ ui' = "login"
  /\ StartGatewayListener
  /\ logins' = logins + 1
  /\ step' = "fetch"
  /\ UNCHANGED <<stores, counted, slotVars, gw, keychain, supVars, reqVars, obsVars>>

\* One of the bootstrap requests fails; a 401 clears the stored session.
LoginFails ==
  /\ step = "fetch"
  /\ Forget \/ UNCHANGED <<keychain, failed>>
  /\ ui' = "out"
  /\ step' = "none"
  /\ UNCHANGED <<started, listeners, stores, counted, slotVars, gw, supVars, reqVars,
                 logins, saved, left, sent, quits>>

StoreClient ==
  /\ step = "fetch"
  /\ client' = logins
  /\ step' = "spawn"
  /\ UNCHANGED <<frontVars, notify, cmds, gw, keychain, supVars, reqVars, logins, obsVars>>

\* The notifier is stored, then gateway::spawn starts the supervisor.
SpawnGateway ==
  /\ step = "spawn"
  /\ notify' = logins
  /\ sup' = [sup EXCEPT ![logins] = "run"]
  /\ step' = "save"
  /\ UNCHANGED <<frontVars, client, cmds, gw, keychain, inbox, reqVars, logins,
                 obsVars>>

\* Login goes on whether or not the session could be stored.
SaveSession ==
  /\ step = "save"
  /\ cmds' = logins
  /\ Store(logins)
  /\ saved' = logins
  /\ step' = "return"
  /\ UNCHANGED <<frontVars, client, notify, gw, supVars, reqVars, logins, left, sent,
                 quits>>

LoginReturns ==
  /\ step = "return"
  /\ ui' = "in"
  /\ step' = "none"
  /\ UNCHANGED <<started, listeners, stores, counted, slotVars, gw, keychain, supVars,
                 reqVars, logins, obsVars>>

-----------------------------------------------------------------------------
(* Logout. *)

Logout ==
  /\ ui = "in"
  /\ ui' = "logout"
  /\ step' = "take"
  /\ UNCHANGED <<started, listeners, stores, counted, slotVars, gw, keychain, supVars,
                 reqVars, logins, obsVars>>

BadTakeClient ==   \* the command sender stays behind
  /\ step = "take"
  /\ gw' = notify
  /\ client' = 0 /\ notify' = 0
  /\ step' = "notify"
  /\ UNCHANGED <<frontVars, cmds, keychain, supVars, reqVars, logins, obsVars>>

TakeClient ==
  /\ step = "take"
  /\ gw' = notify
  /\ client' = 0 /\ notify' = 0 /\ cmds' = 0
  /\ step' = "notify"
  /\ UNCHANGED <<frontVars, keychain, supVars, reqVars, logins, obsVars>>

\* notify_waiters.  A supervisor in run is told, shuts its core down and goes
\* on to wait for a notification of its own, unless another branch of the
\* select won, as the closed command channel may at any time, or it was not yet
\* at the select.  One that waits before reconnecting would stop.
\* (Whether its core hears handle.shutdown is in Gateway.)
NotifyWaiters ==
  /\ step = "notify"
  /\ \/ sup[gw] = "run" /\ UNCHANGED sup
     \/ sup' = [sup EXCEPT ![gw] = IF @ = "run" THEN "wait" ELSE "stopped"]
  /\ step' = "clear"
  /\ UNCHANGED <<frontVars, slotVars, gw, keychain, inbox, reqVars, logins, obsVars>>

BadClearSession ==   \* the keychain entry is left alone
  /\ step = "clear"
  /\ gw' = 0
  /\ step' = "return_out"
  /\ UNCHANGED <<frontVars, slotVars, keychain, supVars, reqVars, logins, obsVars>>

ClearSession ==
  /\ step = "clear"
  /\ gw' = 0
  /\ Forget
  /\ step' = "return_out"
  /\ UNCHANGED <<frontVars, slotVars, supVars, reqVars, logins, saved, left, sent, quits>>

\* The finally block of SessionStore.logout: clearStores and gatewayStarted.
LogoutReturns ==
  /\ step = "return_out"
  /\ ui' = "out"
  /\ stores' = {} /\ counted' = 0
  /\ started' = FALSE
  /\ step' = "none"
  /\ left' = TRUE
  /\ UNCHANGED <<listeners, slotVars, gw, keychain, supVars, reqVars, logins, saved,
                 failed, sent, quits>>

-----------------------------------------------------------------------------
(* The supervisors and the event listeners. *)

\* The delay before reconnecting is over: run connects a new core.
Reconnect(e) ==
  /\ sup[e] = "wait"
  /\ sup' = [sup EXCEPT ![e] = "run"]
  /\ UNCHANGED <<frontVars, step, slotVars, gw, keychain, inbox, reqVars, logins,
                 obsVars>>

\* Every listener handles the event: the message is stored once, by its id,
\* but mention_count grows each time while session.meId is set.
HandleMention(e) ==
  /\ stores' = IF listeners > 0 THEN stores \cup {e} ELSE stores
  /\ counted' = IF ui \in {"in", "logout"} THEN counted + listeners ELSE counted

BadForward(e) ==   \* the end of the channel is taken for an event
  /\ sup[e] = "run"
  /\ inbox' = [inbox EXCEPT ![e] = @ - 1]
  /\ HandleMention(e)
  /\ UNCHANGED <<ui, started, listeners, step, slotVars, gw, keychain, sup, reqVars,
                 logins, obsVars>>

Forward(e) ==
  /\ sup[e] = "run" /\ inbox[e] > 0
  /\ inbox' = [inbox EXCEPT ![e] = @ - 1]
  /\ HandleMention(e)
  /\ UNCHANGED <<ui, started, listeners, step, slotVars, gw, keychain, sup,
                 reqVars, logins, obsVars>>

-----------------------------------------------------------------------------
(* REST requests, and the world outside (external). *)

Request ==
  /\ ui = "in" /\ client # 0 /\ client \notin requests
  /\ requests' = requests \cup {client}
  /\ UNCHANGED <<frontVars, step, slotVars, gw, keychain, supVars, revoked, logins, obsVars>>

\* The conversion of a 401 into an ApiError clears the stored session.
Answer(e) ==
  /\ e \in requests
  /\ requests' = requests \ {e}
  /\ IF e \in revoked THEN Forget ELSE UNCHANGED <<keychain, failed>>
  /\ UNCHANGED <<frontVars, step, slotVars, gw, supVars, revoked, logins, saved, left,
                 sent, quits>>

Revoke(e) ==
  /\ e <= logins /\ e \notin revoked
  /\ revoked' = revoked \cup {e}
  /\ UNCHANGED <<frontVars, step, slotVars, gw, keychain, supVars, requests, logins, obsVars>>

\* Someone mentions the user: each gateway connection gets the message.
Mention ==
  /\ sent < MaxMentions
  /\ sent' = sent + 1
  /\ inbox' = [e \in Logins |-> IF sup[e] = "run" THEN inbox[e] + 1 ELSE inbox[e]]
  /\ UNCHANGED <<frontVars, step, slotVars, gw, keychain, sup, reqVars, logins,
                 saved, failed, left, quits>>

\* The app is closed, or crashes: only the keychain outlives it.
Quit ==
  /\ quits < MaxQuits
  /\ quits' = quits + 1
  /\ ui' = "out" /\ started' = FALSE /\ listeners' = 0 /\ stores' = {} /\ counted' = 0
  /\ step' = "none" /\ client' = 0 /\ notify' = 0 /\ cmds' = 0 /\ gw' = 0
  /\ sup' = [e \in Logins |-> "none"]
  /\ inbox' = [e \in Logins |-> 0]
  /\ requests' = {}
  /\ left' = FALSE
  /\ UNCHANGED <<keychain, revoked, logins, saved, failed, sent>>

-----------------------------------------------------------------------------
Init ==
  /\ ui = "out" /\ started = FALSE /\ listeners = 0 /\ stores = {} /\ counted = 0
  /\ step = "none" /\ client = 0 /\ notify = 0 /\ cmds = 0 /\ gw = 0 /\ keychain = 0
  /\ sup = [e \in Logins |-> "none"]
  /\ inbox = [e \in Logins |-> 0]
  /\ requests = {} /\ revoked = {} /\ logins = 0
  /\ saved = 0 /\ failed = FALSE /\ left = FALSE /\ sent = 0 /\ quits = 0

CommandStep ==
  \/ LoginFails \/ StoreClient \/ SpawnGateway \/ SaveSession \/ LoginReturns
  \/ TakeClient \/ NotifyWaiters \/ ClearSession \/ LogoutReturns

Next ==
  \/ Login \/ Logout \/ CommandStep
  \/ Request \/ Mention \/ Quit
  \/ \E e \in Logins : Reconnect(e) \/ Forward(e) \/ Answer(e) \/ Revoke(e)

Spec == Init /\ [][Next]_vars

\* The runtime finishes a command it has begun and polls the supervisors.
FairSpec ==
  /\ Spec /\ WF_vars(CommandStep)
  /\ \A e \in Logins : WF_vars(Reconnect(e)) /\ WF_vars(Forward(e))

-----------------------------------------------------------------------------
(* Properties. *)

\* Every variable has its type; the one type invariant of this module.
TypeOK ==
  /\ ui \in {"out", "login", "in", "logout"} /\ started \in BOOLEAN
  /\ listeners \in 0..MaxLogins /\ stores \subseteq Logins /\ counted \in Nat
  /\ step \in {"none", "fetch", "spawn", "save", "return", "take", "notify", "clear",
               "return_out"}
  /\ {client, notify, cmds, gw, keychain, saved, logins} \subseteq 0..MaxLogins
  /\ sup \in [Logins -> {"none", "run", "wait", "stopped"}]
  /\ inbox \in [Logins -> 0..MaxMentions]
  /\ requests \subseteq Logins /\ revoked \subseteq Logins
  /\ sent \in 0..MaxMentions
  /\ failed \in BOOLEAN /\ left \in BOOLEAN /\ quits \in 0..MaxQuits

\* While the user is logged in, requests, commands and the notifier are all
\* those of this login and its supervisor runs; when logged out none is left
\* for a late command to use.
SlotsAgree ==
  /\ ui = "in" => /\ client = logins /\ notify = logins /\ cmds = logins
                  /\ sup[logins] = "run" /\ listeners > 0
  /\ ui = "out" => client = 0 /\ notify = 0 /\ cmds = 0

\* Unless the keychain itself fails, it never brings back a session other than
\* the latest one, whatever answers come late, and once a logout has returned
\* not even that one, until another login has succeeded.
NeverRestoresAnother == ~failed =>
  /\ keychain \in {0, saved}
  /\ (left /\ ui = "out") => keychain = 0

\* Until the first logout a mention is counted at most once, however many
\* logins failed before one succeeded.
CountedOnceAtFirst == ~left => counted <= sent

\* "The `shutdown` notifier stops the loop on logout": once logout has returned
\* the supervisor of that login has stopped, or does so.
LogoutStopsGateway ==
  \A e \in Logins : (notify = e /\ step = "take") ~> (sup[e] \in {"stopped", "none"})

-----------------------------------------------------------------------------
(* Sentences of the code's docs and comments that this model refutes.  No    *)
(* run checks them; README.md says what the code does instead.              *)

\* "Clear all stores on logout": while nobody is logged in the stores hold
\* nothing of an earlier session.
StoresStayClear == (ui = "out" /\ left) => stores = {}

\* mention_count is bumped "when the message mentions the current user": once
\* for each message.
CountedOnce == counted <= sent

\* "Clears the stored session from the OS keychain so the next app start prompts
\* for login": no session is stored once a logout has returned.  (The keychain
\* may refuse, and the user is logged out without being told.)
LogoutForgets == (left /\ ui = "out") => keychain = 0

\* "persist credentials ... so a later app start can silently restore the
\* session": as long as the token is accepted and the keychain works the session
\* stays stored.
StaysStored == (ui = "in" /\ logins \notin revoked /\ ~failed) => keychain = logins
==============================================================================
