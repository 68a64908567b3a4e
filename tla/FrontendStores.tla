--------------------------- MODULE FrontendStores ---------------------------
(***************************************************************************)
(* The stores of web/src/stores.ts whose state is fetched on demand and    *)
(* kept by events: the rows of a channel, the chip of a reaction,          *)
(* bookmarks, scheduled messages, read states, the members of a guild, the *)
(* copies of a message, and the list of reactors.  A behaviour of this     *)
(* module is a behaviour of one of them, the others standing still, so     *)
(* that one instance of TLC checks them all.                               *)
(*                                                                         *)
(* They are not strangers in the code: rows, chips and copies are parts of *)
(* the message objects of byChannel, and some events concern several of    *)
(* them.  What the others do to the part a module is about is among that   *)
(* module's own actions: Reactions has the answers and events that replace *)
(* the chip with its message, ReadStates those rows an ack names.          *)
(***************************************************************************)
EXTENDS Naturals, FiniteSets

CONSTANTS
  Histories, Old, Limit, MaxMessages, MaxSends,   \* of the rows
  People, Me, MaxRequests, MaxEchoes, MaxCopies,  \* of the chip
  Requests,   \* of a kind that can be on their way at one time, in the stores below
  Marks, MaxChanges,
  Drafts, MaxVersion,
  Channels, NoChannel, MaxMentions, MaxLogins,
  Users, MaxMoves, MaxBatches,
  MaxRevisions,
  Messages, Emojis, Reactors, PageSize, MaxReactions

\* Ids are numbers; a load can be asked for, a page holds something, and the draft,
\* the mention and the member a store may start with are within its bounds; the
\* channel that is none is not one; the user is one of those who react.
ASSUME StoreConstants ==
  /\ Histories # {} /\ Limit \in Nat \ {0}
  /\ {Old, MaxMessages, MaxSends} \subseteq Nat /\ Old <= MaxMessages
  /\ IsFiniteSet(People) /\ Me \in People
  /\ {MaxRequests, MaxEchoes} \subseteq Nat
  /\ Marks \subseteq Nat /\ IsFiniteSet(Marks) /\ Reactors \subseteq Nat \ {0}
  /\ Requests # {} /\ IsFiniteSet(Reactors)
  /\ {PageSize, MaxMoves, MaxVersion, MaxMentions} \subseteq Nat \ {0}
  /\ NoChannel \notin Channels
  /\ {MaxChanges, MaxLogins, MaxBatches, MaxRevisions, MaxReactions} \subseteq Nat

VARIABLES
  focus,   \* the store this behaviour is about
  rows, loaded, load, more, sends, deletes, log, gone, posts, discarded,
  outran, overlap,
  chip, asked, reactors, echoes, copies, counted, earlier, unsure,
  saved, missing, fetched, fetch, requests, marked, alive, hidden, feed,
  events, changes, undone, bulk, raced,
  list, listed, fetching, pages, answers, queue, clock, delivered, doubtful,
  count, known, loads, opened, latest, acks, logins, sent, before, acked,
  mentions, covers, cleared, outdated,
  present, roster, lists, singles, joined, moves, news, batches, seeded, odd,
  row, cache, pinLoads, replies, now, notices, heard, overtaken, late,
  open, message, emoji, users, loading, next, flight, reacted,
  reactions, told, failed, mixed, strangers, ghosts, dropped

rowVars ==
  <<rows, loaded, load, more, sends, deletes, log, gone, posts, discarded,
    outran, overlap>>
chipVars == <<chip, asked, reactors, echoes, copies, counted, earlier, unsure>>
bookmarkVars ==
  <<saved, missing, fetched, fetch, requests, marked, alive, hidden, feed,
    events, changes, undone, bulk, raced>>
scheduledVars ==
  <<list, listed, fetching, pages, answers, queue, clock, delivered,
    doubtful>>
readVars ==
  <<count, known, loads, opened, latest, acks, logins, sent, before, acked,
    mentions, covers, cleared, outdated>>
memberVars ==
  <<present, roster, lists, singles, joined, moves, news, batches, seeded,
    odd>>
copyVars ==
  <<row, cache, pinLoads, replies, now, notices, heard, overtaken, late>>
modalVars ==
  <<open, message, emoji, users, loading, next, flight, reacted,
    reactions, told, failed, mixed, strangers, ghosts, dropped>>

Rows == INSTANCE MessageStore
          WITH Loads <- Histories, events <- posts, hidden <- discarded, raced <- outran
Chip == INSTANCE Reactions
          WITH Users <- People, MaxEvents <- MaxEchoes,
               requests <- asked, events <- echoes, before <- earlier
Bookmarks == INSTANCE SavedMessages WITH Fetches <- Requests
Scheduled == INSTANCE ScheduledMessages WITH PaneFetches <- Requests
Reads     == INSTANCE ReadStates WITH Loads <- Requests
Members   == INSTANCE GuildMembers WITH Lists <- Requests
Copies    == INSTANCE MessageCopies WITH PinLoads <- Requests
Modal     == INSTANCE ReactionsModal WITH Slots <- Requests

Stores == {"rows", "chip", "bookmarks", "scheduled", "reads", "members", "copies", "modal"}

fetchedVars == <<bookmarkVars, scheduledVars, readVars, memberVars, copyVars, modalVars>>
vars == <<focus, rowVars, chipVars, fetchedVars>>

-----------------------------------------------------------------------------
\* The store a behaviour is about starts in any of its initial states, the
\* others in one of theirs.
Init ==
  /\ focus \in Stores
  /\ Rows!Init /\ (focus # "rows" => load[CHOOSE l \in Histories : TRUE].step = "asked")
  /\ Chip!Init /\ (focus # "chip" => reactors = {})
  /\ Bookmarks!Init /\ (focus # "bookmarks" => marked = {} /\ hidden = {})
  /\ Scheduled!Init /\ (focus # "scheduled" => \A d \in Drafts : clock[d] = 0)
  /\ Reads!Init /\ (focus # "reads" => \A c \in Channels : sent[c] = 0)
  /\ Members!Init /\ (focus # "members" => \A u \in Users : joined[u] = 0)
  /\ Copies!Init /\ (focus # "copies" => ~now.pinned)
  /\ Modal!Init
  /\ focus # "modal" => /\ message = CHOOSE m \in Messages : TRUE
                        /\ emoji = CHOOSE e \in Emojis : TRUE
                        /\ \A m \in Messages, e \in Emojis : reacted[m][e] = {}

\* A step of one of the last six.
FetchedNext ==
  \/ /\ focus = "bookmarks" /\ Bookmarks!Next
     /\ UNCHANGED <<focus, scheduledVars, readVars, memberVars, copyVars, modalVars>>
  \/ /\ focus = "scheduled" /\ Scheduled!Next
     /\ UNCHANGED <<focus, bookmarkVars, readVars, memberVars, copyVars, modalVars>>
  \/ /\ focus = "reads" /\ Reads!Next
     /\ UNCHANGED <<focus, bookmarkVars, scheduledVars, memberVars, copyVars, modalVars>>
  \/ /\ focus = "members" /\ Members!Next
     /\ UNCHANGED <<focus, bookmarkVars, scheduledVars, readVars, copyVars, modalVars>>
  \/ /\ focus = "copies" /\ Copies!Next
     /\ UNCHANGED <<focus, bookmarkVars, scheduledVars, readVars, memberVars, modalVars>>
  \/ /\ focus = "modal" /\ Modal!Next
     /\ UNCHANGED <<focus, bookmarkVars, scheduledVars, readVars, memberVars, copyVars>>

Next ==
  \/ focus = "rows" /\ Rows!Next /\ UNCHANGED <<focus, chipVars, fetchedVars>>
  \/ focus = "chip" /\ Chip!Next /\ UNCHANGED <<focus, rowVars, fetchedVars>>
  \/ FetchedNext /\ UNCHANGED <<rowVars, chipVars>>

Spec == Init /\ [][Next]_vars

-----------------------------------------------------------------------------
(* Properties: those of the stores, where the code they are about is named. *)

\* Every variable of every store has its type.
TypeOK ==
  /\ focus \in Stores
  /\ Rows!TypeOK /\ Chip!TypeOK
  /\ Bookmarks!TypeOK /\ Scheduled!TypeOK /\ Reads!TypeOK
  /\ Members!TypeOK /\ Copies!TypeOK /\ Modal!TypeOK

\* No message and no send has two rows, unless a page brought one that was
\* still being sent.
NoDoubleInsertUnlessOverlap == Rows!NoDoubleInsertUnlessOverlap

\* Once all is in the rows have no gap, unless raced.
NoGapUnlessRaced == Rows!NoGapUnlessRaced

\* Once all is in the chip tells rightly whether the user reacted, unless
\* clicks overlapped, an outdated request got through, or an outdated copy of
\* the message replaced the chip.
MineIsRight == Chip!MineIsRight

\* A fetched list of bookmarks is the server's, once all is in, unless raced.
BookmarksAgreeUnlessRaced == Bookmarks!BookmarksAgreeUnlessRaced

\* A fetched list of scheduled messages holds those that are queued, once all
\* is in, unless raced.
ScheduledAgreeUnlessRaced == Scheduled!ScheduledAgreeUnlessRaced

\* A badge counts every mention that was not read, unless a load was outdated.
NoMentionMissedUnlessRaced == Reads!NoMentionMissedUnlessRaced

\* The members listed are members, as the server has them, unless raced.
MembersAgreeUnlessRaced == Members!MembersAgreeUnlessRaced

\* A message's row and its channel's cached pins are the server's, once all is
\* in, unless an answer was overtaken.
CopiesAgreeUnlessRaced == Copies!CopiesAgreeUnlessRaced

\* The list of reactors holds users of the chosen emoji only.
OfThisEmoji == Modal!OfThisEmoji

\* The whole list of reactors names exactly those who reacted, unless raced, but
\* for users whose reactions were cleared or whose row was taken away here.
ReactorsAgreeUnlessRaced == Modal!ReactorsAgreeUnlessRaced
==============================================================================
