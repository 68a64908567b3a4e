---------------------------- MODULE GuildMembers ----------------------------
(***************************************************************************)
(* The members of one guild of fewer than BIG_GUILD_THRESHOLD members:     *)
(* GuildsStore.loadMembers and ensureMember and the events that change     *)
(* membersByGuild (web/src/stores.ts).  A member is a version, raised by   *)
(* every join, change and leave; 0 is no member.  The user stays in the    *)
(* guild (GUILD_DELETE drops its entry), and no event is lost.             *)
(***************************************************************************)
EXTENDS Naturals, Sequences, FiniteSets, Fetch

CONSTANTS
  Users,
  Lists,         \* loads that can be in flight at one time
  MaxMoves,      \* bound: changes of one user's membership
  MaxBatches     \* bound: GUILD_CREATE and GUILD_MEMBERS_CHUNK events

VARIABLES
  \* the store
  present,      \* whether the guild is in membersByGuild
  roster,     \* roster[u]: the version of u in it
  lists,      \* lists[l]: a listMembers on its way
  singles,    \* singles[u]: a getGuildMember of u on its way
  \* the server
  joined,     \* joined[u]: the version of u, 0 for one who is not a member
  moves,      \* moves[u]: changes of u so far
  news,       \* gateway events on their way
  batches,
  \* observers
  seeded,     \* the entry was made by something else than a list of all members
  odd         \* users whose entry came from an answer older than what the store
              \* had heard of them

rosterVars == <<present, roster, lists, singles>>
serverVars == <<joined, moves, news, batches>>
vars == <<rosterVars, serverVars, seeded, odd>>

All == {[u |-> u, v |-> joined[u]] : u \in {w \in Users : joined[w] # 0}}
Listing(es) == [u \in Users |-> IF \E e \in es : e.u = u
                                THEN (CHOOSE e \in es : e.u = u).v ELSE 0]

-----------------------------------------------------------------------------
(* loadMembers and ensureMember. *)

\* An entry of any origin counts as loaded.
MayList == ~present

LoadMembers(l) ==
  /\ MayList /\ lists[l].step = "idle"
  /\ lists' = [lists EXCEPT ![l] = Asked]
  /\ UNCHANGED <<present, roster, singles, serverVars, seeded, odd>>

ServeMembers(l) ==
  /\ lists[l].step = "asked"
  /\ lists' = [lists EXCEPT ![l] = Answered(All)]
  /\ UNCHANGED <<present, roster, singles, serverVars, seeded, odd>>

ApplyMembers(l) ==
  /\ lists[l].step = "answered"
  /\ present' = TRUE /\ roster' = Listing(lists[l].page)
  /\ lists' = [lists EXCEPT ![l] = Idle]
  /\ seeded' = FALSE
  /\ odd' = IF lists[l].stale THEN Users ELSE {}
  /\ UNCHANGED <<singles, serverVars>>

FailMembers(l) ==
  /\ lists[l].step # "idle"
  /\ lists' = [lists EXCEPT ![l] = Idle]
  /\ UNCHANGED <<present, roster, singles, serverVars, seeded, odd>>

EnsureMember(u) ==
  /\ roster[u] = 0 /\ singles[u].step = "idle"
  /\ singles' = [singles EXCEPT ![u] = Asked]
  /\ UNCHANGED <<present, roster, lists, serverVars, seeded, odd>>

\* One who is no member is not found.
ServeMember(u) ==
  /\ singles[u].step = "asked"
  /\ singles' = [singles EXCEPT ![u] = IF joined[u] = 0 THEN Idle ELSE Answered({joined[u]})]
  /\ UNCHANGED <<present, roster, lists, serverVars, seeded, odd>>

BadMerge(u, v) == roster' = [roster EXCEPT ![u] = v]   \* whether or not u is listed

Merge(u, v) == roster' = [roster EXCEPT ![u] = IF @ = 0 THEN v ELSE @]

ApplyMember(u) ==
  /\ singles[u].step = "answered"
  /\ \E v \in singles[u].page : Merge(u, v)
  /\ odd' = IF singles[u].stale /\ roster[u] = 0 THEN odd \cup {u} ELSE odd
  /\ present' = TRUE
  /\ seeded' = (seeded \/ ~present)
  /\ singles' = [singles EXCEPT ![u] = Idle]
  /\ UNCHANGED <<lists, serverVars>>

-----------------------------------------------------------------------------
(* Events. *)

\* GUILD_MEMBER_ADD, _UPDATE, _REMOVE and GUILD_BAN_ADD of one user.
One(e) ==
  \/ /\ e.op = "add"
     /\ Merge(e.u, e.v)
     /\ present' = TRUE /\ seeded' = (seeded \/ ~present)
     /\ UNCHANGED odd
  \/ /\ e.op = "update"
     /\ roster' = [roster EXCEPT ![e.u] = IF @ = 0 THEN 0 ELSE e.v]
     /\ UNCHANGED <<present, seeded, odd>>
  \/ /\ e.op = "remove"
     /\ roster' = [roster EXCEPT ![e.u] = 0]
     /\ UNCHANGED <<present, seeded, odd>>

\* GUILD_CREATE with members sets them, GUILD_MEMBERS_CHUNK merges them.
Many(e) ==
  \/ /\ e.op = "create"
     /\ roster' = Listing(e.es) /\ present' = TRUE
     /\ seeded' = FALSE /\ odd' = {}
  \/ /\ e.op = "chunk"
     /\ roster' = [u \in Users |-> IF Listing(e.es)[u] # 0 THEN Listing(e.es)[u] ELSE roster[u]]
     /\ present' = TRUE /\ seeded' = (seeded \/ ~present)
     /\ odd' = {u \in odd : Listing(e.es)[u] = 0}

Handle ==
  /\ news # <<>>
  /\ news' = Tail(news)
  /\ LET e == Head(news)
     IN  \/ One(e) /\ singles' = [singles EXCEPT ![e.u] = Aged(@)]
         \/ Many(e) /\ singles' = AllAged(singles)
  /\ lists' = AllAged(lists)
  /\ UNCHANGED <<joined, moves, batches>>

-----------------------------------------------------------------------------
(* The server (external). *)

Move(u) ==
  /\ moves[u] < MaxMoves
  /\ moves' = [moves EXCEPT ![u] = @ + 1]
  /\ \/ /\ joined' = [joined EXCEPT ![u] = moves'[u]]
        /\ news' = Append(news, [op |-> IF joined[u] = 0 THEN "add" ELSE "update",
                                 u |-> u, v |-> moves'[u]])
     \/ /\ joined[u] # 0
        /\ joined' = [joined EXCEPT ![u] = 0]
        /\ news' = Append(news, [op |-> "remove", u |-> u, v |-> moves'[u]])
  /\ UNCHANGED <<rosterVars, batches, seeded, odd>>

Batch ==
  /\ batches < MaxBatches
  /\ batches' = batches + 1
  /\ \/ news' = Append(news, [op |-> "create", es |-> All])
     \/ \E es \in SUBSET All : news' = Append(news, [op |-> "chunk", es |-> es])
  /\ UNCHANGED <<rosterVars, joined, moves, seeded, odd>>

Init ==
  /\ present = FALSE /\ roster = [u \in Users |-> 0]
  /\ lists = [l \in Lists |-> Idle] /\ singles = [u \in Users |-> Idle]
  /\ joined \in [Users -> 0..1] /\ moves = joined /\ news = <<>> /\ batches = 0
  /\ seeded = FALSE /\ odd = {}

Next ==
  \/ \E l \in Lists : LoadMembers(l) \/ ServeMembers(l) \/ ApplyMembers(l) \/ FailMembers(l)
  \/ \E u \in Users : EnsureMember(u) \/ ServeMember(u) \/ ApplyMember(u) \/ Move(u)
  \/ Handle \/ Batch

Spec == Init /\ [][Next]_vars

-----------------------------------------------------------------------------
(* Properties. *)

Entries == [u : Users, v : 1..MaxMoves]

\* Every variable has its type; the one type invariant of this module.
TypeOK ==
  /\ present \in BOOLEAN /\ roster \in [Users -> 0..MaxMoves]
  /\ lists \in [Lists -> Slot(SUBSET Entries)]
  /\ singles \in [Users -> Slot(SUBSET (1..MaxMoves))]
  /\ joined \in [Users -> 0..MaxMoves] /\ moves \in [Users -> 0..MaxMoves]
  /\ news \in Seq([op : {"add", "update", "remove"}, u : Users, v : 1..MaxMoves]
                  \cup [op : {"create", "chunk"}, es : SUBSET Entries])
  /\ batches \in 0..MaxBatches
  /\ seeded \in BOOLEAN /\ odd \subseteq Users

\* Once all events are in, each member listed is one, and as the server has
\* it, and a list that began with all members has all of them: across lists,
\* single members and events in any order, but for users an answer older than
\* the store brought back.
MembersAgreeUnlessRaced ==
  present /\ news = <<>> =>
    \A u \in Users \ odd : roster[u] = joined[u] \/ (seeded /\ roster[u] = 0)

-----------------------------------------------------------------------------
(* Sentences of the code's docs and comments that this model refutes.  No    *)
(* run checks them; README.md says what the code does instead.              *)

\* "Small guilds just fetch a page of members directly": a small guild that has
\* an entry has been fetched.
SmallGuildsAreFetched == present => ~seeded
==============================================================================
