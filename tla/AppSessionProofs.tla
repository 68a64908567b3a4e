-------------------------- MODULE AppSessionProofs --------------------------
(***************************************************************************)
(* Theorems about AppSession, for any number of logins, mentions and       *)
(* restarts.                                                               *)
(*                                                                         *)
(* What is promised of a user who is logged in is put together by five     *)
(* steps of login and taken apart by four of logout, while late answers    *)
(* and supervisors of earlier logins go on.  IndInv says how far each step *)
(* has come.                                                               *)
(***************************************************************************)
EXTENDS AppSession, TLAPS

LoggingIn == {"fetch", "spawn", "save", "return"}
LoggingOut == {"take", "notify", "clear", "return_out"}

\* The frontend awaits the command that runs, and the latest login is meant.
Steps ==
  /\ ui = "login" <=> step \in LoggingIn
  /\ ui = "logout" <=> step \in LoggingOut
  /\ ui # "out" => logins \in Logins /\ started
  /\ step = "notify" => gw = logins

\* Which slots login has filled, and logout not yet emptied.
Slots ==
  /\ client = IF ui = "in" \/ step \in {"spawn", "save", "return", "take"} THEN logins ELSE 0
  /\ notify = IF ui = "in" \/ step \in {"save", "return", "take"} THEN logins ELSE 0
  /\ cmds = IF ui = "in" \/ step \in {"return", "take"} THEN logins ELSE 0
  /\ ui = "in" \/ step \in {"save", "return", "take"} => sup[logins] = "run"

\* What the keychain holds was stored last, and logout has cleared it, as far as
\* the keychain did what it was told.
Stored ==
  /\ step = "return_out" /\ ~failed => keychain = 0
  /\ left /\ ~failed /\ step \in {"fetch", "spawn", "save"} => keychain = 0
  /\ NeverRestoresAnother

\* Listeners and the mentions on their way.
Attached ==
  /\ started => listeners > 0
  /\ listeners <= logins
  /\ \A e \in Logins : inbox[e] <= sent /\ (sup[e] = "none" => inbox[e] = 0)

\* Before the first logout there is one listener, and no supervisor but the one of
\* the login.
AtFirst == ~left =>
  /\ listeners = IF started THEN 1 ELSE 0
  /\ \A e \in Logins : sup[e] # "none" =>
       e = logins /\ ui # "out" /\ step \notin {"fetch", "spawn"}
  /\ counted <= sent
  /\ \A e \in Logins : counted + inbox[e] <= sent

IndInv == TypeOK /\ Steps /\ Slots /\ Stored /\ Attached /\ AtFirst

-----------------------------------------------------------------------------
LEMMA InitEstablishes == Init => IndInv
<1> SUFFICES ASSUME Init PROVE IndInv
  OBVIOUS
<1> USE SessionConstants DEF Init
<1>1. TypeOK
  <2>1. sup \in [Logins -> {"none", "run", "wait", "stopped"}] /\ inbox \in [Logins -> 0..MaxMentions]
    OBVIOUS
  <2>2. {client, notify, cmds, gw, keychain, saved, logins} \subseteq 0..MaxLogins
    OBVIOUS
  <2>3. /\ ui \in {"out", "login", "in", "logout"} /\ started \in BOOLEAN /\ left \in BOOLEAN /\ failed \in BOOLEAN
        /\ step \in {"none", "fetch", "spawn", "save", "return", "take", "notify", "clear",
                      "return_out"}
    OBVIOUS
  <2>4. /\ listeners \in 0..MaxLogins /\ stores \subseteq Logins /\ counted \in Nat
        /\ requests \subseteq Logins /\ revoked \subseteq Logins
        /\ sent \in 0..MaxMentions /\ quits \in 0..MaxQuits
    OBVIOUS
  <2> QED BY <2>1, <2>2, <2>3, <2>4 DEF TypeOK
<1>2. Steps
  BY DEF Steps, LoggingIn, LoggingOut
<1>3. Slots
  BY DEF Slots
<1>4. Stored
  BY DEF Stored, NeverRestoresAnother
<1>5. Attached
  BY DEF Attached
<1>6. AtFirst
  BY DEF AtFirst
<1> QED BY <1>1, <1>2, <1>3, <1>4, <1>5, <1>6 DEF IndInv

\* The keychain holds what it was told to hold, or has failed.
LEMMA StoreFacts ==
  ASSUME NEW session, Store(session)
  PROVE  /\ keychain' \in {session, keychain} /\ failed' \in BOOLEAN
         /\ failed' = FALSE => keychain' = session
  BY DEF Store

\* A step of login or logout, or an answer, that lets the keychain be deleted.
LEMMA ForgetFacts ==
  ASSUME IndInv, Forget \/ UNCHANGED <<keychain, failed>>
  PROVE  /\ keychain' \in {0, keychain} /\ failed' \in BOOLEAN
         /\ failed' = FALSE => keychain' = 0 \/ (keychain' = keychain /\ failed = FALSE)
<1>1. failed \in BOOLEAN BY DEF IndInv, TypeOK
<1> QED BY <1>1, StoreFacts DEF Forget

\* The steps of login.
LEMMA LoginKeeps ==
  ASSUME IndInv, Login \/ LoginFails \/ StoreClient \/ SpawnGateway \/ SaveSession \/ LoginReturns
  PROVE  IndInv'
<1> USE SessionConstants DEF IndInv, TypeOK, Steps, Slots, Stored, Attached, AtFirst,
        NeverRestoresAnother, Logins, LoggingIn, LoggingOut,
        frontVars, slotVars, supVars, reqVars, obsVars
<1>1. CASE Login
  <2>1. TypeOK'
    BY SMTT(30), <1>1 DEF Login, StartGatewayListener
  <2>2. Steps'
    BY <1>1 DEF Login, StartGatewayListener
  <2>3. Slots'
    BY <1>1 DEF Login, StartGatewayListener
  <2>4. Stored'
    BY <1>1 DEF Login, StartGatewayListener
  <2>5. Attached'
    BY <1>1 DEF Login, StartGatewayListener
  <2>6. AtFirst'
    BY <1>1 DEF Login, StartGatewayListener
  <2> QED BY <2>1, <2>2, <2>3, <2>4, <2>5, <2>6
<1>2. CASE LoginFails
  <2>0. /\ keychain' \in {0, keychain} /\ failed' \in BOOLEAN
        /\ failed' = FALSE => keychain' = 0 \/ (keychain' = keychain /\ failed = FALSE)
    BY <1>2, ForgetFacts DEF LoginFails
  <2>1. TypeOK'
    BY <1>2, <2>0 DEF LoginFails
  <2>2. Steps' /\ Slots'
    BY <1>2 DEF LoginFails
  <2>3. Stored'
    BY <1>2, <2>0 DEF LoginFails
  <2>4. Attached' /\ AtFirst'
    BY <1>2 DEF LoginFails
  <2> QED BY <2>1, <2>2, <2>3, <2>4
<1>3. CASE StoreClient
  BY <1>3 DEF StoreClient
<1>4. CASE SpawnGateway
  BY SMTT(30), <1>4 DEF SpawnGateway
<1>5. CASE SaveSession
  <2>0. /\ keychain' \in {logins, keychain} /\ failed' \in BOOLEAN
        /\ failed' = FALSE => keychain' = logins
    BY <1>5, StoreFacts DEF SaveSession
  <2>1. TypeOK'
    BY <1>5, <2>0 DEF SaveSession
  <2>2. Steps' /\ Slots'
    BY <1>5 DEF SaveSession
  <2>3. Stored'
    BY <1>5, <2>0 DEF SaveSession
  <2>4. Attached' /\ AtFirst'
    BY <1>5 DEF SaveSession
  <2> QED BY <2>1, <2>2, <2>3, <2>4
<1>6. CASE LoginReturns
  BY <1>6 DEF LoginReturns
<1> QED BY <1>1, <1>2, <1>3, <1>4, <1>5, <1>6

\* The steps of logout.
LEMMA LogoutKeeps ==
  ASSUME IndInv, Logout \/ TakeClient \/ NotifyWaiters \/ ClearSession \/ LogoutReturns
  PROVE  IndInv'
<1> USE SessionConstants DEF IndInv, TypeOK, Steps, Slots, Stored, Attached, AtFirst,
        NeverRestoresAnother, Logins, LoggingIn, LoggingOut,
        frontVars, slotVars, supVars, reqVars, obsVars
<1>1. CASE Logout
  BY <1>1 DEF Logout
<1>2. CASE TakeClient
  BY <1>2 DEF TakeClient
<1>3. CASE NotifyWaiters
  BY <1>3 DEF NotifyWaiters
<1>4. CASE ClearSession
  <2>0. /\ keychain' \in {0, keychain} /\ failed' \in BOOLEAN
        /\ failed' = FALSE => keychain' = 0
    BY <1>4, StoreFacts DEF ClearSession, Forget
  <2>1. TypeOK'
    BY <1>4, <2>0 DEF ClearSession
  <2>2. Steps' /\ Slots'
    BY <1>4 DEF ClearSession
  <2>3. Stored'
    BY <1>4, <2>0 DEF ClearSession
  <2>4. Attached' /\ AtFirst'
    BY <1>4 DEF ClearSession
  <2> QED BY <2>1, <2>2, <2>3, <2>4
<1>5. CASE LogoutReturns
  BY <1>5 DEF LogoutReturns
<1> QED BY <1>1, <1>2, <1>3, <1>4, <1>5

\* What goes on beside login and logout.
LEMMA WorldKeeps ==
  ASSUME IndInv,
         \/ Request \/ Mention \/ Quit
         \/ \E e \in Logins : Reconnect(e) \/ Forward(e) \/ Answer(e) \/ Revoke(e)
  PROVE  IndInv'
<1> USE SessionConstants DEF IndInv, TypeOK, Steps, Slots, Stored, Attached, AtFirst,
        NeverRestoresAnother, Logins, LoggingIn, LoggingOut,
        frontVars, slotVars, supVars, reqVars, obsVars
<1>1. CASE Request
  BY <1>1 DEF Request
<1>2. CASE Mention
  <2>1. TypeOK'
    <3>1. sent' \in 0..MaxMentions /\ sent' = sent + 1
      BY <1>2 DEF Mention
    <3>2. \A e \in Logins : inbox'[e] \in 0..MaxMentions
      BY SMTT(30), <1>2, <3>1 DEF Mention
    <3>3. inbox' \in [Logins -> 0..MaxMentions]
      BY <1>2, <3>2 DEF Mention
    <3> QED BY <1>2, <3>1, <3>3 DEF Mention
  <2>2. Steps'
    BY <1>2 DEF Mention
  <2>3. Slots'
    BY <1>2 DEF Mention
  <2>4. Stored'
    BY <1>2 DEF Mention
  <2>5. Attached'
    BY SMTT(30), <1>2 DEF Mention
  <2>6. AtFirst'
    <3>1. \A e \in Logins : sup'[e] = sup[e] /\ inbox'[e] = IF sup[e] = "run" THEN inbox[e] + 1 ELSE inbox[e]
      BY <1>2 DEF Mention
    <3>2. sent' = sent + 1 /\ counted' = counted
      BY <1>2 DEF Mention
    <3>3. UNCHANGED <<left, listeners, started, sup, logins, ui, step>>
      BY <1>2 DEF Mention
    <3>4. \A e \in Logins : inbox[e] \in Nat /\ sent \in Nat /\ counted \in Nat
      OBVIOUS
    <3>5. ~left => counted' <= sent' /\ \A e \in Logins : counted' + inbox'[e] <= sent'
      <4> SUFFICES ASSUME ~left, NEW e \in Logins
                   PROVE  counted' <= sent' /\ counted' + inbox'[e] <= sent'
        BY <3>2 DEF AtFirst
      <4>1. counted + inbox[e] <= sent /\ counted <= sent /\ inbox'[e] \in {inbox[e], inbox[e] + 1}
        BY <3>1
      <4> HIDE DEF TypeOK, Steps, Slots, Stored, Attached, AtFirst, IndInv
      <4> QED BY <3>2, <3>4, <4>1
    <3>6. ~left => \A e \in Logins : sup[e] # "none" =>
             e = logins /\ ui # "out" /\ step \notin {"fetch", "spawn"}
      OBVIOUS
    <3> QED BY <3>3, <3>5, <3>6
  <2> QED BY <2>1, <2>2, <2>3, <2>4, <2>5, <2>6
<1>3. CASE Quit
  <2>1. TypeOK'
    <3>1. sup' \in [Logins -> {"none", "run", "wait", "stopped"}] /\ inbox' \in [Logins -> 0..MaxMentions]
      BY <1>3 DEF Quit
    <3>2. quits' \in 0..MaxQuits
      BY <1>3 DEF Quit
    <3>3. {client', notify', cmds', gw', keychain', saved', logins'} \subseteq 0..MaxLogins
      BY <1>3 DEF Quit
    <3> QED BY <1>3, <3>1, <3>2, <3>3 DEF Quit
  <2>2. Steps'
    BY <1>3 DEF Quit
  <2>3. Slots'
    BY <1>3 DEF Quit
  <2>4. Stored'
    BY <1>3 DEF Quit
  <2>5. Attached'
    BY <1>3 DEF Quit
  <2>6. AtFirst'
    BY <1>3 DEF Quit
  <2> QED BY <2>1, <2>2, <2>3, <2>4, <2>5, <2>6
<1>4. ASSUME NEW e \in Logins, Reconnect(e)
      PROVE  IndInv'
  BY <1>4 DEF Reconnect
<1>5. ASSUME NEW e \in Logins, Forward(e)
      PROVE  IndInv'
  <2>1. TypeOK'
    <3>1. inbox' \in [Logins -> 0..MaxMentions]
      BY SMTT(30), <1>5 DEF Forward
    <3>2. stores' \subseteq Logins /\ counted' \in Nat
      <4>1. stores' \subseteq stores \cup {e} BY <1>5 DEF Forward, HandleMention
      <4>2. counted' \in {counted, counted + listeners} BY <1>5 DEF Forward, HandleMention
      <4>3. counted \in Nat /\ listeners \in Nat /\ stores \subseteq Logins OBVIOUS
      <4> QED BY <4>1, <4>2, <4>3
    <3> QED BY <1>5, <3>1, <3>2 DEF Forward
  <2>2. Steps'
    BY <1>5 DEF Forward, HandleMention
  <2>3. Slots'
    BY <1>5 DEF Forward, HandleMention
  <2>4. Stored'
    BY <1>5 DEF Forward, HandleMention
  <2>5. Attached'
    BY SMTT(30), <1>5 DEF Forward, HandleMention
  <2>6. AtFirst'
    <3>1. UNCHANGED <<left, listeners, started, sup, logins, ui, step, sent>>
      BY <1>5 DEF Forward
    <3>2. ~left => counted' <= sent' /\ \A d \in Logins : counted' + inbox'[d] <= sent'
      <4> SUFFICES ASSUME ~left, NEW d \in Logins
                   PROVE  counted' <= sent' /\ counted' + inbox'[d] <= sent'
        BY <1>5
      <4>1. listeners \in {0, 1} /\ counted' \in {counted, counted + listeners}
        BY <1>5 DEF Forward, HandleMention
      <4>2. counted \in Nat /\ sent \in Nat /\ inbox[d] \in Nat /\ inbox[e] \in Nat
        BY SMTT(30)
      <4>3. counted + inbox[e] <= sent /\ counted + inbox[d] <= sent /\ inbox[e] > 0
        BY <1>5 DEF Forward
      <4>4. inbox'[d] = IF d = e THEN inbox[e] - 1 ELSE inbox[d]
        BY <1>5 DEF Forward
      <4>5. d # e => inbox[d] = 0
        BY <1>5 DEF Forward
      <4> HIDE DEF TypeOK, Steps, Slots, Stored, Attached, AtFirst, IndInv
      <4> QED BY <3>1, <4>1, <4>2, <4>3, <4>4, <4>5
    <3>3. ~left => \A d \in Logins : sup[d] # "none" =>
             d = logins /\ ui # "out" /\ step \notin {"fetch", "spawn"}
      OBVIOUS
    <3> QED BY <3>1, <3>2, <3>3
  <2> QED BY <2>1, <2>2, <2>3, <2>4, <2>5, <2>6
<1>6. ASSUME NEW e \in Logins, Answer(e)
      PROVE  IndInv'
  <2>0. /\ keychain' \in {0, keychain} /\ failed' \in BOOLEAN
        /\ failed' = FALSE => keychain' = 0 \/ (keychain' = keychain /\ failed = FALSE)
    BY <1>6, ForgetFacts DEF Answer
  <2>1. TypeOK'
    <3>1. keychain' \in 0..MaxLogins BY <2>0
    <3>2. requests' \subseteq Logins BY <1>6 DEF Answer
    <3> QED BY SMTT(30), <1>6, <2>0, <3>1, <3>2 DEF Answer
  <2>2. Steps' /\ Slots'
    BY <1>6 DEF Answer
  <2>3. Stored'
    BY <1>6, <2>0 DEF Answer
  <2>4. Attached' /\ AtFirst'
    BY <1>6 DEF Answer
  <2> QED BY <2>1, <2>2, <2>3, <2>4
<1>7. ASSUME NEW e \in Logins, Revoke(e)
      PROVE  IndInv'
  BY <1>7 DEF Revoke
<1> QED BY <1>1, <1>2, <1>3, <1>4, <1>5, <1>6, <1>7

LEMMA StepKeeps ==
  ASSUME IndInv, [Next]_vars
  PROVE  IndInv'
<1>1. CASE UNCHANGED vars
  BY <1>1 DEF vars, frontVars, slotVars, supVars, reqVars, obsVars, IndInv, TypeOK, Steps,
     Slots, Stored, Attached, AtFirst, NeverRestoresAnother, LoggingIn, LoggingOut
<1>2. CASE Next
  BY <1>2, LoginKeeps, LogoutKeeps, WorldKeeps DEF Next, CommandStep
<1> QED BY <1>1, <1>2

LEMMA Invariance == Spec => []IndInv
<1>1. Init => IndInv
  BY InitEstablishes
<1>2. IndInv /\ [Next]_vars => IndInv'
  BY StepKeeps
<1> QED BY <1>1, <1>2, PTL DEF Spec

-----------------------------------------------------------------------------
\* Every variable keeps its type.
THEOREM TypeCorrect == Spec => []TypeOK
<1>1. IndInv => TypeOK
  BY DEF IndInv
<1> QED BY <1>1, Invariance, PTL

\* While the user is logged in client, command sender, notifier and supervisor are
\* those of this login, and none is left when logged out (lib.rs 888-932, 955-973).
THEOREM SlotsBelongToOneLogin == Spec => []SlotsAgree
<1>1. IndInv => SlotsAgree
  BY SessionConstants DEF IndInv, TypeOK, Steps, Slots, Attached, SlotsAgree, LoggingIn, LoggingOut
<1> QED BY <1>1, Invariance, PTL

\* Unless the keychain fails, it holds no session but the latest, and none once a logout
\* has returned, whatever 401s arrive late (lib.rs 100-106, 957-971; secure_storage.rs).
THEOREM KeychainHoldsTheLatest == Spec => []NeverRestoresAnother
<1>1. IndInv => NeverRestoresAnother
  BY DEF IndInv, Stored
<1> QED BY <1>1, Invariance, PTL

\* Until the first logout each mention is counted at most once (stores.ts 160, 992).
THEOREM MentionsCountOnceAtFirst == Spec => []CountedOnceAtFirst
<1>1. IndInv => CountedOnceAtFirst
  BY DEF IndInv, AtFirst, CountedOnceAtFirst
<1> QED BY <1>1, Invariance, PTL
=============================================================================
