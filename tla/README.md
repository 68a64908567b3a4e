# Ruxer: models, checks and proofs

Ruxer is a desktop client for the Fluxer chat service: a Rust crate `core` that
speaks REST and the gateway's WebSocket protocol, a Tauri backend `src-tauri`
that owns the session and supervises the gateway, a native voice engine, and a web
frontend `web` whose stores hold everything the user sees and whose LiveKit
room carries the calls. This directory holds
TLA+ modules of the parts where order, failure and concurrency decide whether
the program is right, the TLC configurations that check them, and TLAPS proofs
of what matters most about each of them.

Paths below are relative to the repository's root; `file:line` names the line a
definition or sentence is about. `PROJECT.json` maps every definition that
models code to its lines.

## 1. The system and its parts

    frontend stores  --invoke-->  Tauri commands  --HTTP-->   server
         ^                          |      |
         | emit "gateway"           |      | gateway_cmds mutex, mpsc(64)
         |                          v      v
         +------- supervisor (src-tauri/src/gateway.rs: spawn, run)
                     ^ events mpsc(64)   | commands mpsc(64)
                     |                   v
                  core gateway task (core/src/gateway.rs)  <--WebSocket--> server

| Part | State | Operations | Hard behaviour | What makes it right |
|---|---|---|---|---|
| Gateway task, `core/src/gateway.rs` | session id and seq, backoff, events channel, tracked subscriptions | connect, HELLO, IDENTIFY/RESUME, read, push, reset, reconnect, shutdown, recv | breaks at any step; RESUME replay; refused sessions; a full channel; a notification nobody waits for | events of each session arrive once, in order, without gap; dead sessions are not resumed; connecting always goes on |
| Supervisor, `src-tauri/src/gateway.rs` | one event or command in hand, the shutdown notifier | select over events, commands and shutdown; reconnect | two bounded channels in opposite directions, each side blocking inside its select | no circular wait; commands run once, in order; updates keep flowing; logout stops it |
| Session, `src-tauri/src/lib.rs`, `secure_storage.rs` | client, notifier, command sender (three mutexes), keychain | login, restore, logout, 401 handling | steps of login/logout against late answers, crashes, events, a keychain that fails | slots belong to one login; a keychain that works never restores another session |
| Subscriptions, `core` + `web/src/stores.ts` + `MemberList.tsx` | covered ranges, tracked guilds and ranges, the server's view | select, scroll, GUILD_CREATE, replay | lost connections, commands that wait, reordering before the mutex | what was subscribed to stays served |
| Rate limiter, `core/src/ratelimit.rs`, `http.rs` | buckets per route, global block | acquire, record, retry | check and reservation in two critical sections; late answers; lost answers | the server need not refuse; a retry waits; everyone gets a turn |
| Media cache, `src-tauri/src/media_cache.rs` | files, temporary files, `.meta`, in-flight marks | lookup, fetch, prune | a crash between any two steps, two writers, a write whose error nobody sees, pruner | an entry is whole |
| `MessagesStore`, `web/src/stores.ts` | rows per channel, loaded flag, placeholders | load, loadMore, send, retry, reconcile, delete, event handlers | answer, echo and page in any order; loss of events; late requests | no message twice, none missing |
| Reactions | chip count and `me` | optimistic toggle, revert, modal, events | echo against answer against failure; edits, updates and pages that replace the message and its chips | the chip tells rightly |
| Reactions modal | message, emoji, users, loading | open, select tab, page, take a row away, close | late pages; clears it does not follow; a removal that fails | the list belongs to the chosen tab and is complete |
| Saved messages, `stores.ts` | list, missing, `fetched` | fetch, unsave at once, events, reset on reconnect | a page older than what events changed | the list is the user's bookmarks |
| Scheduled messages, `stores.ts` | list, `fetched`, `fetching` | fetch, schedule, edit, cancel, reset; no events | answers out of order; a reset while a fetch is on its way | the list is the server's queue |
| Read state, `stores.ts`, `GuildsRail.tsx` | mention counts, `loaded` | load, mention, open, mark as read, ack | a load that clears newer counts; acks of other positions than those shown | no mention is missed |
| Guild members, `stores.ts` | `membersByGuild` | list, single member, events, chunks | any entry counts as loaded; a list that overwrites events | members shown are members |
| Copies of a message, `stores.ts`, `PinsPane.tsx` | the row, `pinsByChannel` | edit, pin, load pins, events | answers and events about one message in any order; an invalidation during a load | row and pins are as the server has them |
| Voice calls, `stores.ts`, `voice/LiveKitRoom.ts` | pending channel, connection state, room | join, leave, mute, server update, connect, disconnect | clicks, calls and updates that cross; livekit-client's lock; a moderator's move; a lost connection | the call follows the user |
| Direct messages, relationships, presence, settings, drafts, toasts | maps | one entry replaced per event or answer | - | not modelled: nothing else writes the entry |
| Native voice engine, `voice-native`, `capture-codec` | room, publications, frame channels | connect, publish, streams | media pipelines around native libraries | not modelled: the frontend's calls go through `LiveKitRoom.ts` |
| REST client, login calls, discovery, models | none of their own | one request per function | - | modelled by what an answer says |
| Views, layout, Lua bridge, desktop helpers, builder, vendored crates | - | - | - | not modelled: rendering, OS glue, a developer's tool, other people's code |

How they interact: the frontend invokes Tauri commands; the commands use the
session's client (through the rate limiter) or send a gateway command while they
hold the `gateway_cmds` mutex; the supervisor moves commands down and events up;
the core runs commands only inside its read loop; events become calls of the
stores' handlers, which race the answers of the stores' own requests.

## 2. The modules

| Module | Models | Lines |
|---|---|---|
| `EventStream` | abstract: what the gateway promises about DISPATCH events | - |
| `Gateway` | the core gateway task, its channel and handle; server and network external | `core/src/gateway.rs` |
| `CommandPump` | mutex, channels, supervisor and the core's select as far as they block each other | `src-tauri/src/{lib,gateway}.rs`, `core/src/gateway.rs` |
| `AppSession` | login, logout, restore, 401, restart, supervisors, listeners | `src-tauri/src/{lib,gateway,secure_storage}.rs`, `stores.ts` |
| `LazySubscriptions` | op 14 subscriptions end to end | `stores.ts`, `MemberList.tsx`, `core/src/gateway.rs` |
| `RouteKeys`, `RateLimiter` | route keys; acquire/record/retry under a server with windows | `core/src/ratelimit.rs`, `http.rs` |
| `MediaCache` | fetch, rename, prune, crash | `src-tauri/src/media_cache.rs` |
| `MessageStore` | the rows of one channel | `stores.ts` |
| `Reactions` | one chip under one message | `stores.ts`, `MessageReactionsModal.tsx` |
| `ReactionsModal` | the list behind a chip, its pages and the rows events change | `stores.ts` |
| `Fetch` | a request whose answer replaces what a store holds; `ReactionsModal` and the next five modules use it | `stores.ts` |
| `SavedMessages`, `ScheduledMessages`, `ReadStates`, `GuildMembers`, `MessageCopies` | one store each, with the part of the server it mirrors | `stores.ts`, `GuildsRail.tsx`, `PinsPane.tsx` |
| `Lists` | sorting and filtering of lists, for `MessageStore` and `SavedMessages` | `stores.ts` |
| `FrontendStores` | the eight stores above, from `MessageStore` to `MessageCopies`, side by side | - |
| `VoiceCalls` | `VoiceStore`, the calls it sends, the LiveKit room and its lock | `stores.ts`, `voice/LiveKitRoom.ts` |
| `MC*` | constants and symmetry for TLC | - |
| `GatewayProofs`, `CommandPumpProofs`, `AppSessionProofs`, `LazySubscriptionsProofs`, `RateLimiterProofs`, `MediaCacheProofs`, `VoiceCallsProofs`, `FrontendStoresProofs` | theorems | - |

`Gateway` is the detailed specification of `EventStream`: `Stream == INSTANCE
EventStream WITH made <- made, got <- got`, the dispatches a server's session
has made and the last one the caller received.
`FrontendStores` instantiates the eight stores. A behaviour of it is a behaviour
of one of them (`focus`), the others standing still: it exists to check and prove
them under one roof, and finds no interaction between them. There are
interactions. Rows, chips and per-channel copies are parts of the same message
objects of `byChannel`, and several events concern more than one of them. What
the rest of the frontend does to the part a module is about is therefore among
that module's own actions: `Reactions` has the answers of edits, the loads and
the MESSAGE_UPDATE events that replace the chip with its message (`Replace`,
`ApplyEvent`), and both it and `ReactionsModal` have the modal's removals.
`MessageStore` has no edits, which put a row of the same id in a row's place, and
no `jumpTo` (section 7). What a handler does to two stores at one
time is looked at from each side separately.

Conventions. An action is a handler, or the part of one up to the next `await`,
lock or callback. An action whose name begins with `Bad` is not part of any
specification: it is the form its neighbour would have with one particular slip,
and shows for each property that the property notices such a slip. Variables
commented as observers or history are written and never read by a guard.

**State correspondence.**

*Gateway*: `session` is `SessionState`; `pc` is the point of `gateway_loop` /
`run_gateway` (`connect` until the socket is open, `hello` until IDENTIFY or
RESUME is sent, `read` in the select, `push` inside `tx.send(event).await`,
`backoff` in the outer select); `backoff`, `events` the variables of that name;
`conn`/`down`/`hand` the socket and what is in flight on it. `track_session` and
the send are separate steps, because the channel may be full between them. The
server numbers dispatches per session, replays from the number a RESUME names,
and may forget a session and refuse it in the ways of `RejectWays`.

*CommandPump*: `waiters` is the queue of the fair `tokio::Mutex`; `front`,
`coreq`, `evq` the three channels; `hold` the command inside
`handle.send_command(cmd).await`; `core` says whether the core is in its select
(`read`), inside `tx.send` (`push`), elsewhere (`away`) or, between two handles,
not there (`none`). `told` is a notification of logout the select has not looked
at: when the shutdown arm is picked (`Shutdown`) the handle is dropped, and the
events and commands in its channels go with it (`unseen`, `gone`); when another
ready arm is picked, the notification is lost. `out` are the commands that left
`coreq`, in order, those that went with the handle among them.

*AppSession*: `client`, `notify`, `cmds` are the slots of `AppState`; `step` is
the position inside `finish_login` or `logout`; `sup[e]` is the supervisor that
login `e` spawned: in `run`, waiting to reconnect, or stopped; `keychain` is the
stored session. Each call to the keychain succeeds or changes nothing (`Store`,
`Forget`): it writes one entry with one `set_password`, so that an entry is never
half of each.

*LazySubscriptions*: `covered` is `subscribedRangesByGuild`, `guilds`/`ranges`
the core's `Subscriptions`, `view` what the server serves. A range is the set of
its indices, so that merged ranges are unions.

*RateLimiter*: a deadline is the number of ticks until it; `checking`, `passed`
and `sent` are before the check, between check and reservation, and after it.

*MediaCache*: names are inodes, bodies are sets of chunks; `pc` is the line of
`fetch`; the pruner lists, then evicts, in any order and any number. A chunk is a
buffer of tokio's `File`, whose write error surfaces at the next call: the last
one's is seen by `sync_all` alone (`cut`).

*MessageStore*: `rows` is `byChannel` of one channel, a row has id (0 for a
placeholder), nonce and `_state`; a message's id is its place in the server's
log.

*Reactions*: `chip` is count and `me`; `requests` are the REST calls in order;
`copies` are answers of edits and loads on their way, a copy being who had
reacted when the server made it; `counted` is who had reacted according to the
events handled so far, which the code does not record.

*ReactionsModal*: the fields of `reactionsModal`, and pages in flight; a row
remembers the message and emoji it came for, which the code does not. `ghosts` and
`dropped` record who was in the list when his reaction was cleared, and whose row
the user took away. After a clear the component selects another tab or closes when
the chip is gone; `Select` and `Close` may happen at any time.

*The stores*: a request (`Fetch`) is asked, then answered with the page the
server makes at that moment, then applied; `stale` says that the store has
changed since the page was made, which the code does not record. In
*SavedMessages* `saved`, `missing` and `fetched` are the store's, `requests` the
unsaves on their way, `feed` the state of the gateway connection. In
*ScheduledMessages* a message is a version; `list`, `listed` and `fetching` are
the store's, `queue` the server's. In *ReadStates* `count` is `mention_count`,
`known` is `loaded`, `latest` the last row of a channel, `before` the
`last_message_id` the channel list was loaded with. In *GuildMembers* `present`
says whether `membersByGuild` has an entry for the guild and `roster` what is in
it. In *MessageCopies* `row` is the message in `byChannel` and `cache` the entry
of `pinsByChannel`.

*VoiceCalls*: `pending` is `pendingChannelId`, `mirror` is `connectionState`,
`room` the state of livekit-client's room, `at` the channel of its connection,
which the code does not know; `waiting` is the queue at its lock, `ops` the
`voice_state_update` commands in the backend, `updates` the
VOICE_SERVER_UPDATE events on their way.

## 3. The runs

Every cfg says `CHECK_DEADLOCK FALSE`: the models stop where their bounds are
used up, and a client that has nothing to do is quiescent. Deadlocks proper, two
parties that wait for each other, are stated as properties (`NoCircularWait`,
`RoomIsMade`, `UpdatesFlow`, `LogoutClears`, `Settles`).

| Run | Shows | Bounds, and why they are enough |
|---|---|---|
| `gateway` | `Gateway` implements `EventStream` (`DeliversTheStream`); no RESUME of a session told invalid; failing handshakes back off; every dispatch of a session the server keeps reaches the caller; the task always gets attached to a session again | channel 1, 4 sessions, 2 dispatches each, wire 3, 2 faults, 1 shutdown: each fault can cost a session and the bound on sessions is never what stops progress, a session can be resumed, refused and followed by another with events in every place of the chain. `MaxBackoff` 4 lets the delay double twice and hit its cap. Refused RESUMEs are answered by INVALID_SESSION and a close (`InvalidThenClose`), the only way under which updates do keep flowing, see section 5. The three safety properties are also proved for all values and all ways to refuse. |
| `pump_light` | no circular wait; every event is forwarded and every command taken by the core, but for what goes with the handle a logout drops | `MaxOutstanding = CmdCap = 2`, events channel 1, 6 commands, 3 events, 2 drops: each channel fills and empties more than once |
| `pump_logout` | a logout gets past the mutex behind commands that wait for room, also when the network never comes back; room is always made for the holder | capacity 2 and `MaxOutstanding = 5 = 2 * CmdCap + 1`, the most for which it holds: both command channels full, a command in the supervisor's hand, or one at the mutex instead, waiting for room; 7 commands, so that they fill again after some have run. `RoomIsMade` is also proved for all values. |
| `pump_burst` (violation) | with more outstanding commands than the channel holds, updates stop for ever | `MaxOutstanding` 4 against capacity 1: the two channels, the supervisor's hand and one more |
| `session_safety` | the slots belong to one login, a keychain that does as it is told to the latest, events are counted once before the first logout | 3 logins, 1 mention, 1 crash: a late answer of login 1 can meet login 3. The three invariants are also proved for all values. |
| `session_logout` (violation) | logout does not stop the supervisor | one login suffices |
| `lazy_safety` | subscriptions survive lost connections | one big guild (requests of different guilds do not affect each other), 6 members in pages of 2, 2 selections, 1 lost connection: three pages, so that a range can be covered, tracked and forgotten while another is served. The three invariants are also proved for all values. |
| `rate_safety` | buckets follow routes; no refusal with one caller at a time; retries wait; everybody ends | three calls of one route (two of them with different message ids, so the key must collapse), 2 slots, window and pause of 2 ticks; the paths a call may share its bucket with are all those of up to 5 segments over two families, two ids, two literals. The three invariants are also proved for all values, and for paths of any length. |
| `media_safety` | entries only one task wrote at a time are whole, but for a last write whose error was dropped; marks are live | 1 URL (tasks of different URLs touch different names), 2 tasks, 2 chunks, so that one write is reported and one is not, 3 inodes, 2 starts. Proved for all values. |
| `media_torn` (violation) | a partial write replaces a good entry | as above, one start |
| `stores` | no message and no send has two rows, and none is missing; the chip tells rightly whether the user reacted; each of the other six stores holds what the server has once all is in; the reactors listed are of the chosen emoji | Rows: 2 sends, retries or deletes, 2 messages of an empty channel, pages of 1, so that one message may be in the rows, on a page, in an event and in an answer at once (random runs with 7 messages, 4 sends, 2 loads and pages of 2 found nothing more). Chip: the user and another, 3 requests, 2 events and 2 copies of the message in flight (with 2 requests, 3 events and 3 users were checked too); a state in which `unsure` is set is checked and not continued (`ChipIsSure`), since `unsure` stays set and the property says nothing then. Others: 2 requests of a kind at one time, which is what a page that overtakes another takes; 2 bookmarks with 2 changes; 1 draft of 4 versions; 1 channel, 2 mentions, 2 logins; 1 user who joins, changes and leaves, 1 batch; 2 revisions; 2 emojis, 2 reactors on pages of 1, 1 more reaction or clear. Entries of one store do not affect each other except on a page, and a page is there in each. All eleven are also proved for all values. |
| `voice` | the call follows the user; no attempt is shown as connecting for ever | 2 channels, 3 clicks, 1 move, 1 loss: join, move and leave can be on their way at once, in the backend, as updates and at the lock. 4 clicks were checked too. `CallFollowsTheUser` is also proved for all values. |

### Properties with a condition

Some properties hold only under a condition that an observer variable or a
constant records, and the condition is the finding: without it the code does
otherwise, and section 5 says how.

- `NoCircularWait` needs `MaxOutstanding <= CmdCap` (64 in the code), `RoomIsMade`
  and `LogoutClears` `MaxOutstanding <= 2 * CmdCap + 1`. Nothing in the code bounds
  what the frontend keeps outstanding; the bound is where the hazard begins.
- `UpdatesFlow` and `CommandsRun` allow for what goes with the handle, and only
  once a logout has dropped the command sender. A command has run when the core
  has taken it: a failed send is only logged (`core/src/gateway.rs:512-546`).
- `NeverRestoresAnother`: the keychain has not failed since it last did as it was
  told. After a failed save or delete the next start restores what the entry still
  holds; nobody is told (`secure_storage.rs:42-77`).
- `CountedOnceAtFirst` stops at the first logout, `CoveredIsServedAtFirst` at the
  first lost connection.
- `RefusedOnlyWhenUnsure`: `unsure` routes had two callers between check and
  recorded answer, or lost an answer.
- `RetryWaitsUnlessDisturbed`: no answer of another call of the route was
  recorded since the refusal.
- `WholeUnlessRacedOrCut`: no two tasks were between `File::create` and `rename` of
  one URL, and the inode is not one whose last write failed with its error dropped.
- `NoDoubleInsertUnlessOverlap`: no page of `loadMore` brought a message whose
  placeholder was still in the rows. `NoGapUnlessRaced`: no page was older than
  the rows when it was applied, no events were lost, and no answer of a send
  whose placeholder a page had replaced came behind newer messages, deleted ones
  included.
- `MineIsRight`: the user waits for a toggle's answer and echo, no request
  outlives its failure, nobody clears the emoji while a toggle is on its way,
  the modal's removals are not used, a MESSAGE_UPDATE brings the reactions there are
  (one without any empties the chip, `normalizeMessage`), and the copy of the
  message an edit or a load puts in place counts what the events handled before
  it have told, neither more nor less. Such copies may come at any other time,
  also while a toggle is on its way.
- `BookmarksAgreeUnlessRaced`: the list was not replaced by a page older than
  it; bookmarks whose unsave failed, and those deleted in bulk since the fetch,
  are left out of the comparison. Events lost while the connection was down
  are no excuse: the reset must make up for them.
- `ScheduledAgreeUnlessRaced`: of drafts whose answer was lost or came after a
  later one's, or, when a page older than the list took its place, of all of
  them, nothing is said. A message the server has sent may stay listed.
- `NoMentionMissedUnlessRaced`: the page of a load was not older than the counts
  it replaced. It bounds the badge from below only, see section 5.
- `MembersAgreeUnlessRaced`: nothing is said of users an answer older than the
  store brought back, and of an entry that did not begin with a list only that
  whom it names is a member.
- `CopiesAgreeUnlessRaced`: the row, unless the last answer to change it had been
  overtaken by an event; the pins, unless filled by an answer older than an
  invalidation.
- `ReactorsAgreeUnlessRaced`: no request failed, no page was applied that an
  earlier list had asked for or that was older than an event, and users of whom
  nothing is known are left out, as the code leaves them out. So are those who were
  in the list when their reaction was cleared, as it does not follow clears, and
  those whose row was taken away here, as nothing brings it back when the request
  fails; an event about them ends either.
- `CallFollowsTheUser`: since the room was last as it should be, no update was
  applied and no connect got the lock after the user had left (`late`), none was
  applied while the room was busy with the one before (`overlap`), no two calls
  overtook each other in the backend (`crossed`), the room lost no connection
  (`lost`), and the server did not keep silent about a join of the channel the
  user is in while nothing else was on its way (`silent`). Where the call belongs
  is where the user clicked last, or, once a moderator moved him, where the
  server has him.

Where the condition names what a hazard of `PROJECT.json` would do, the property
does not catch that hazard: it says that nothing else goes wrong. This is so for
outdated pages of rows, of bookmarks, of scheduled messages, of the read state and
of members, for overlapping page and send, for lost events of the rows, for
overtaken answers about a message and its pins, for late or overlapping room
updates, for an older answer that undoes a pause, for a connection closed soon
after its handshake and for what follows a first logout. The entry of each has a
note; the sentences of section 5 are what the code does in those cases.

Each condition holds in states where the interesting things have happened: for
every property a one-line change of an action (the `Bad` definitions) makes TLC
find a violation under the very same condition.

## 4. Fairness

- `Gateway!FairSpec`: weak fairness of the task (tokio polls a ready task), of
  `Recv` (the supervisor keeps receiving), and of the server's handling of what
  it was sent. Nothing is assumed of faults, shutdowns, or of the server
  producing anything.
- `CommandPump!FairSpec`: weak fairness of the mutex and of sends; **strong**
  fairness of each branch of the two selects: `tokio::select!` without `biased`
  picks a ready branch at random, so a branch that is ready again and again is
  taken. `OnlineSpec` adds that the core gets connected again.
- `AppSession!FairSpec`: a running command is finished; supervisors are polled.
- `RateLimiter!FairSpec`: time passes, ready tasks run, a request ends in an
  answer or in the HTTP client's 30 s timeout.

- `VoiceCalls!FairSpec`: livekit-client hands its lock on, a disconnect ends,
  and an attempt to connect succeeds, fails or times out. Nothing is assumed of
  the user, the server, moderators or the network.

The other modules state safety only.

## 5. Sentences of the code's docs that the models refute

Where a doc, a comment or a message of the code claims more than the code does,
the claim is a definition of the module: `UpdatesFlow`, `LogoutStopsGateway`
and `GoodEntriesStay` are checked by the three runs that end in a violation, the
others stand at the end of their module and no run is spent on them. TLC finds each one violated
with the constants of the module's passing run (under `FairSpec` for the temporal
ones) unless the table names others.

| Definition | The code says | The code does |
|---|---|---|
| `CommandPump!UpdatesFlow` (run `pump_burst`) | "so real-time updates keep flowing after transient failures", `src-tauri/src/gateway.rs:2` | The supervisor awaits `send_command` inside its select (115), the core awaits `tx.send` inside its own (`core/src/gateway.rs:760`); with both channels full each waits for the other. |
| `AppSession!LogoutStopsGateway` (run `session_logout`) | "The `shutdown` notifier stops the loop on logout", `src-tauri/src/gateway.rs:12` | `run` consumes the notification and returns Ok; `spawn` waits for another one or the delay (43-46) and reconnects with the token that was logged out. |
| `Gateway!ShutdownStops` | "Returns None when the gateway task has exited (e.g. after shutdown ...)", `core/src/gateway.rs:215` | `notify_waiters` (249) leaves no permit: a shutdown while connecting or pushing is lost, and one in the read loop only ends the connection. |
| `Gateway!ReIdentifies`, with `RejectWays = {"op9"}` | "gateway session invalid; will re-IDENTIFY", `core/src/gateway.rs:714` | The session is reset, the loop reads on, and nothing identifies until the server closes the connection. |
| `Gateway!UpdatesKeepFlowing`, with `RejectWays = {"close"}` (it holds with `{"op9_close"}`, run `gateway`) | "automatically reconnects ... so real-time updates keep flowing even after ... a server-side restart", `core/src/gateway.rs:301` | A close frame leaves the session as it is whatever its code (577), so a session refused by code is resumed for ever. |
| `Gateway!CloseBacksOff` | "reconnects on close or error with an exponential backoff", `core/src/gateway.rs:301` | A close or read error returns Ok, and Ok resets the delay (331). |
| `CommandPump!LogoutClears`, with `CmdCap = 1`, `MaxOutstanding = 4` and `FairSpec` | "Logout: stop the gateway and drop the client. Clears the stored session", `src-tauri/src/lib.rs:949` | A command holds `gateway_cmds` while it waits for room; with no connection nothing makes room and logout waits for the mutex (76). |
| `AppSession!StoresStayClear` | "Clear all stores on logout", `web/src/stores.ts:3322` | The supervisor goes on forwarding and the listeners stay, so the stores fill again. |
| `AppSession!CountedOnce` | "bump the server-side mention count when the message mentions the current user", `web/src/stores.ts:992` | After logout the listeners are registered once more (160, 3348); each event is handled twice. |
| `AppSession!LogoutForgets` | "Clears the stored session from the OS keychain so the next app start prompts for login", `src-tauri/src/lib.rs:949` | A delete that fails is logged (`secure_storage.rs:73`), `logout` returns Ok, and the next start restores the session. |
| `AppSession!StaysStored` | "so a later app start can silently restore the session", `src-tauri/src/lib.rs:927` | A 401 that answers a request of the former login clears the keychain entry of the present one (103). |
| `LazySubscriptions!CoveredIsServed` | "tracked so we can re-send them on resume", `core/src/gateway.rs:275` | `ranges.insert` (523) keeps the last page only, the frontend never asks again for the others. |
| `LazySubscriptions!BigGuildsAreRanged` | "Big guilds ... use this instead of the full `members: true` subscription", `core/src/gateway.rs:281` | Login, selection and GUILD_CREATE subscribe to every guild in full (`stores.ts:3268`, 2701, 3687). |
| `RateLimiter!SlotsAreReserved` | "so concurrent callers don't all storm through the same window", `core/src/ratelimit.rs:191` | Check and reservation are two critical sections, and the reservation turns nobody back. |
| `RateLimiter!RetryWaits` | "re-acquire a slot (which blocks until the window resets)", `core/src/http.rs:174` | The answer recorded last overwrites the bucket (297); an older 200 undoes the pause. |
| `RateLimiter!BucketsFollowRoutes` states the opposite | "`channels/123/messages/789` shares `channels/123`'s bucket", `core/src/ratelimit.rs:75` | The key is `channels/123/messages/:id`, a bucket of its own, as the example at 103 says; the property takes the example's side. |
| `MediaCache!GoodEntriesStay` (run `media_torn`) | "a partial write never replaces a good cache entry", `media_cache.rs:202` | The error of the last write is seen by `sync_all` alone, whose result is dropped (220), and the rename follows. Also, the temporary name depends on the URL alone (206); one task renames what another is writing. |
| `MediaCache!OneDownload` | "so only one download happens", `media_cache.rs:147` | The mark is set without looking, and nobody waits on it (164). |
| `MessageStore!NoDoubleInsert` | "whichever arrives first can replace the placeholder without double-inserting", `stores.ts:689` | The echo replaces the placeholder it finds by nonce without looking for the id, which an older page may have brought (971). |
| `MessageStore!ConfirmedHaveNoState` | "Absent on confirmed (server) messages", `types.ts:361` | A send that fails on this side marks the confirmed message, which has the nonce too (734). |
| `MessageStore!AnswerAfterEchoIsNoOp` | "If the gateway already reconciled it, this is a no-op", `stores.ts:723` | A message echoed and deleted before the answer is appended again (761). |
| `MessageStore!OldestFirst` | "Messages keyed by channel id, oldest-first", `stores.ts:602` | Rows stand in order of arrival, and a placeholder is confirmed where it stood. |
| `MessageStore!FailedIsOffered` | "Mark the placeholder FAILED so the row shows a retry affordance", `stores.ts:730` | `load` replaces the rows (632), the placeholder of a running send among them. |
| `Reactions!EchoConfirms` | "the gateway echo confirms", `MessageReactionsModal.tsx:213` | The echo is counted once more (1062). |
| `Reactions!RevertRestores` | "Revert on failure", `stores.ts:883` | The revert is the opposite toggle; after an add where `me` was true already it leaves false (884). |
| `ReactionsModal!OfThisMessage`, with two messages | "Ignore stale responses after tab switch / close", `stores.ts:3060` | The check compares the emoji only (3062). |
| `ReactionsModal!FirstPageIsFetched` | "reset the list and fetch its first page", `stores.ts:3033` | `fetchReactionUsers` returns while a page is loading (3048), and the stale answer starts none. |
| `SavedMessages!NewestFirst` | "Saved messages, newest-first (snowflake id descending)", `stores.ts:1168` | Only `fetch` sorts; SAVED_MESSAGE_CREATE puts the message in front whatever its id. |
| `SavedMessages!BookmarksAgree` | "drop them and refetch on next open", `stores.ts:3377` | A fetch that was on its way when the reset came fills the list and sets `fetched` (1197); the next open fetches nothing. |
| `ScheduledMessages!OnlyPending` | "pending server-side deliveries", `stores.ts:1289` | Nothing takes a delivered message out of the list but a reset or the user. |
| `ReadStates!BadgesAreAccurate` | "so mention badges are accurate from the start", `stores.ts:3261` | A mention the page already counts is counted again when its event is applied after the page. |
| `ReadStates!ClearedEverywhere` | "clears unread/mentions across devices", `GuildsRail.tsx:98` | The ack names `last_message_id`, which stays what it was when the channel list was loaded. |
| `GuildMembers!SmallGuildsAreFetched` | "Small guilds just fetch a page of members directly", `stores.ts:510` | `loadMembers` returns when there is any entry, also one made by a single member or a chunk (504). |
| `MessageCopies!CacheIsFresh` | "Invalidate pin cache so a reopen refetches", `stores.ts:862`; "refetches when CHANNEL_PINS_UPDATE arrives", `PinsPane.tsx:2` | A load on its way is not told: its older answer becomes the cache after the invalidation. |
| `VoiceCalls!LeaveEndsTheCall` | "disconnects the LiveKit room", `stores.ts:1823` | A server update applied while or after `leaveChannel` waits connects the room again (1829). |
| `VoiceCalls!ConnectsAfresh` | "if a room is already connected it's disconnected first", `stores.ts:1835` | Between the disconnect and the connect another caller may have the lock; livekit-client then joins in the connection there is, of the other channel. |

## 6. What is proved

The theorems hold for every value of the constants under the named `ASSUME`s of
the modules: bounds are natural numbers, capacities and page sizes positive, a
move of a member and a request are possible at all, as are the draft and the
mention a store may start with, and the sets of users,
bookmarked messages and reactors are finite. Ids of messages and of reactors are
numbers, as the code sorts them by number.

Where the length of a list or the size of a set is not bounded, the argument
goes by the least counterexample: `LeastNatural`, from the well-foundedness of
the natural numbers, stands in for induction, whose theorems take an operator as
a parameter. `Lists` defines what `sort` and `filter` return without recursion
for the same reason.

**`GatewayProofs`.** `TypeCorrect`; `StreamInvariant`: `Spec => []StreamInv`;
`InOrderDelivery`: `Spec => DeliversTheStream`; `DeadSessionsStayDead`:
`Spec => NoDeadResume`; `FailuresAreSpreadOut`:
`Spec => HandshakeFailuresBackOff`.

What the caller of `recv` sees depends on everything upstream of it, so the
property is not inductive by itself. `StreamInv` is the chain it follows from:
from what was received, through the events channel, the event whose send has not
returned, the task's session record and the wire, to the server's own cursor,
each dispatch comes right `Behind` the one before it; the session to RESUME is
exactly the `End` of what was taken off the wire; a handshake in flight tells
the server exactly that; and nothing on the way is newer than what the server
produced. One lemma per action, one step per conjunct the action can disturb.
The refinement is then immediate: `Recv` of a chained event is a `Receive` of
`EventStream`, `SrvProduce` and `SrvIdentify` are `Produce`, all else stutters.
`NoDeadResume` needs the same invariant and `ToldBehind`: sessions told invalid
are not ahead of `End` and not the session to resume.
`HandshakeFailuresBackOff` rests on `BackoffInv`: only the read loop, which is
past a handshake, ever resets the delay.

**`CommandPumpProofs`.** `TypeCorrect`; `LightLoadNeverDeadlocks`: with
`MaxOutstanding <= CmdCap`, `Spec => []NoCircularWait`; `RoomForTheHolder`: with
`MaxOutstanding <= 2 * CmdCap + 1`, `Spec => []RoomIsMade`; `CommandsRunInOrder`:
`Spec => []CommandsInOrder`; `NothingIssuedIsMissing`: `Spec => []Accounted`.

The first two rest on `IndInv`, a count: commands at the mutex and in the three
places between it and the core are at most those that may be outstanding (`Paced`,
with `OneLogout` for the logout that may stand among the waiters), and a full channel and a
command in the supervisor's hand are one more than `CmdCap`; with the other channel
full as well they leave none at the mutex. The other two rest on `OrderInv`: every place holds consecutive
numbers, and they go on from one place to the next up to the mutex's queue.

These types, `StreamInv`, `CommandsInOrder` and `Accounted` are proved and no run
spends time on them.

**`AppSessionProofs`.** `TypeCorrect`; `SlotsBelongToOneLogin`:
`Spec => []SlotsAgree`; `KeychainHoldsTheLatest`: `Spec => []NeverRestoresAnother`;
`MentionsCountOnceAtFirst`: `Spec => []CountedOnceAtFirst`.

`NeverRestoresAnother` is stated for a keychain that has not failed since it last
did as it was told, in the model and in the theorem. `SlotsAgree` speaks of users who are logged in or out and says nothing of the
way there. The inductive invariant does: `Steps` ties the running command to
what the frontend awaits, `Slots` says which of the three slots are filled at
each step, `Stored` that, unless a call failed, what is in the keychain was stored
last, and at the last step of logout nothing is. `Attached` and `AtFirst` are about listeners: before
the first logout there is one, and only the supervisor of the login can have
mentions on their way, of which those counted and those waiting are at most
those sent.

**`LazySubscriptionsProofs`.** `TypeCorrect`; `SubscribedStaysServed`:
`Spec => []GuildsStaySubscribed`; `TrackedStaysServed`: `Spec => []TrackedIsServed`;
`CoveredStaysServedAtFirst`: `ServerAdds => (Spec => []CoveredIsServedAtFirst)`.

What the server serves of a guild once the wire is empty was decided by the last
request for it. `WireFits`: that request is in full or for the ranges that are
tracked, or there is none and the server serves what is tracked. A replay
establishes it whatever the order of its requests is; this is where the finiteness
of the set of guilds is needed (`SubscriptionConstants`). `AskedIsKept` follows a
subscription from the frontend through the queue to the core.
`CoveredStaysServedAtFirst` is for a server that adds ranges up (`ServerAdds`, one
of the two ways the model gives it, and the one TLC checks). Before the first lost
connection nothing takes a page away, so `FirstInv` need only say of each covered
index that it is served or that a request with it is on its way, at the mutex, in
the queue or on the wire.

**`RateLimiterProofs`.** `TypeCorrect`; `SureRoutesAreNeverRefused`:
`Spec => []RefusedOnlyWhenUnsure`; `RetriesWaitOutTheirPause`:
`Spec => []RetryWaitsUnlessDisturbed`; `CallsFileByRoute`:
`Spec => []BucketsFollowRoutes`.

A bucket is `Honest` when it promises no more slots than the server's window has
left, and no earlier end. It is not honest all the time: from the grant that
opens a window until its answer is recorded it knows nothing of that window. `SureRoutes` says that a sure route has one call
in flight, that there is a slot for it before it is granted (the check saw the
bucket, which was honest), that its answer is honest, and that the bucket is
whenever no such answer is on its way. For the retry, `PausesKept`: the pause an
answer ordered is in the answer, or in the bucket the call waits for, until
another answer of the route is recorded. For the keys, whether a segment
is kept depends on the one before it alone (`Keeps`), so that two paths that agree up
to some place keep the same segments up to there; what two keys have in common is
then settled by the first place at which the paths differ, the least
counterexample. So nothing bounds the length of a path.

**`MediaCacheProofs`.** `TypeCorrect`; `EntriesAreWholeUnlessRacedOrCut`:
`Spec => []WholeUnlessRacedOrCut`; `MarksNameFetches`: `Spec => []MarksAreLive`.

An entry is whole because the inode a task writes to is reached by no other name
and no other task: `NamesApart` and `HandlesApart` say so of names and open
handles, except for the URLs that were raced; `OneWriter` that those not raced
have one; `WrittenSoFar` that its inode holds the chunks written so far, and all
of them once it is closed, unless it is `cut`.

**`VoiceCallsProofs`.** `CallTypeCorrect`: `Spec => []TypeOK`; `CallsFollowTheUser`:
`Spec => []CallFollowsTheUser`.

The property looks at a store, a room and a server between which everything has
arrived; the invariant `CallInv` follows what has not, as long as nothing excuses
the room. `LastClick`: the channel the store is to join is the one the last command
on its way, or else the server, has the user in. `LeftFirst` and `HangsUp`: once he
is in no channel and no command will change that, the room has no connection or a
disconnect waits for the lock. `Reaches`: the last update on its way leads to the
channel the server has him in, and when none is on its way the room is there, or
the one call that leads there waits (`Underway`). `Mirrored` ties the store's state
to the room's once the lock is free.

**`FrontendStoresProofs`.** One theorem for each property of the stores. The
induction of each is a lemma about its invariant, which `TypeCorrect` cites too.

| Theorem | `Spec => []` | Rests on |
|---|---|---|
| `TypeCorrect` | `TypeOK` | the invariants below, `DraftTypes`, `CopyRanges`, `ReadBounds` |
| `ListIsOfTheChosenEmoji` | `OfThisEmoji` | itself |
| `ScheduledAgree` | `ScheduledAgreeUnlessRaced` | `ScheduledInv` |
| `NoMentionMissed` | `NoMentionMissedUnlessRaced` | `ReadInv` |
| `CopiesAgree` | `CopiesAgreeUnlessRaced` | `CopyInv` |
| `ChipShowsMine` | `MineIsRight` | `MineInv` |
| `MembersAgree` | `MembersAgreeUnlessRaced` | `MemberInv` |
| `ReactorsAgree` | `ReactorsAgreeUnlessRaced` | `ModalInv` |
| `BookmarksAgree` | `BookmarksAgreeUnlessRaced` | `BookInv` |
| `RowsAreNotDoubled`, `RowsHaveNoGap` | `NoDoubleInsertUnlessOverlap`, `NoGapUnlessRaced` | `RowInv`, `GapInv` |

The properties speak of moments at which all is in; what holds in between is of one
kind throughout: what the store has, or an answer that is not stale holds, is as
the server has it but for what an event on its way will set right.

- *Types.* Most are inductive, or part of an invariant below: that a row is being
  sent only while its send waits is `Sound`. The badge is not, as each event adds
  one to it. `ReadBounds` bounds it twice: by a page (at most `MaxMentions`) and one
  for each mention sent since, and, while events are on their way, by
  `CountsAhead`: less than a page and the number of the next event, so that there is
  room for that event whatever page a load has put in between.
- *Scheduled messages.* `AnswersFit`: the answer about the last version of a draft
  tells what the queue holds. `PagesFit`, `ListFits`: a page that has not aged, and
  the list for drafts that are not doubtful, have every draft as the server has it
  or its answer is on its way.
- *Read states.* `LoadsFit`, `BadgesFit`: a page that has not aged and the badges
  count at least the mentions they cover and the user has not read; those they do
  not cover are on their way, by `InOrder` oldest first.
- *Copies.* By `LastTells` the last update tells the message as the server has it;
  `RowFits` and `PinsFit` say that row and pins are right when no event of their
  kind is to come, `RepliesFit` that an answer not overtaken tells the message.
- *The chip.* `MineInv` explains it by a set of users, those who had reacted as of
  the events handled (`counted`): by `Leads` the events on their way lead from it to
  those who have reacted, and by `Tells` count and `me` are what it, the
  request that waits and the user's own echoes make of it. Each event is then a
  step of that set, each click and answer a step of `Tells`, and a copy of the
  message made as of that set tells what it says (`AnewTells`); when nothing is on
  its way the set is the server's. It is finite (`People` is), so it can be counted.
- *Members.* `Ordered`: the events about a user follow one another (none removes who
  is not there), and the last leaves what the server has. `Agrees`: an entry, in the
  roster, on a page or in a single answer, is wrong only while an event will set it.
- *The reactors' list.* `NamesFit`, `FlightFits`, `PageFits`: the rows so far have
  everybody up to the cursor of the next page, but for those an event is about, and
  a page that is not stale carries that on to its last user; `LastTold`: the last
  event that `Regards` a user, a clear regarding all, is right; `OneFresh`: one page at a time extends the list. A
  page is the first `PageSize` of the users behind the cursor, which needs the set
  of reactors to be finite.
- *Bookmarks.* `LastSays`: the last event about a message says whether the server
  has the bookmark, while there is a session. A list or an answer that is not stale
  is right about messages no event is about (`MarkFits`), and holds each once.
- *Rows: none doubled.* `Sound`: a row of a message and a nonce is of the message
  the server's log has with that nonce, a row that is being sent belongs to a send
  that waits. `NoClash`: no two rows have one nonce, and without an overlap none
  have one message or one send. That rows share no nonce holds even after an
  overlap, which is why the placeholder that `findIndex` finds is the only one.
- *Rows: no gap.* A message is `Held` when it is shown, taken out or its create
  waits. `NoGaps`: whatever is newer than a shown message is held; the page that is
  asked for before a cursor finds all behind the cursor held. `PageTold` says the
  same of a page that is on its way and not stale. `InTurn`: creates wait in the
  order of the log, and behind one that waits all newer ones do, so that a message
  appended by its echo has no gap behind it; and a placeholder whose message the
  server has is still to get its echo.

**Only model-checked.** Liveness (`EventuallyDelivered`, `UpdatesKeepFlowing`,
`UpdatesFlow`, `CommandsRun`, `LogoutClears`, `LogoutStopsGateway`, `Settles`,
`ConnectingEnds`), as the prover does not handle ENABLED, on which fairness rests.
Every invariant and every action property that a passing run checks is stated by a
theorem.

## 7. What is not modelled, and why

Data that no property is about: event payloads (a dispatch is its session and
number), header formats (a choice over what they can say), URL hashing, and all
rendering. Heartbeats: their answers are never read, so they change nothing but
the moment a break is noticed. Status events, which are shown only, and the
supervisor's own delay, whose length is not observed. A command whose send fails
in the core, which only logs it (`core/src/gateway.rs:512-546`).

Of the rate limiter: what `record` does with headers the assumed server does not
send (`core/src/ratelimit.rs:282-310`), Retry-After with a 2xx, a reset without a
remaining count, and the header that lifts a global block early.

Events lost with a session of the gateway are modelled where a reset answers them or
their absence shows most, in `SavedMessages` and `MessageStore`. `Reactions`,
`ReactionsModal`, `ReadStates`, `GuildMembers` and `MessageCopies` speak of sessions
that are resumed: nothing in those stores notices a new one, so whatever an event
was about stays wrong until it is fetched or told again.

Of `MessagesStore`: forwarding and bulk deletion by moderators (calls whose
effect comes back as the events that are modelled), typing (a map of deadlines
nothing depends on) and, but for its effect on a chip, `jumpTo`, which stores a
page in the reverse of the order every other path keeps; with it no property of
order would be left to check, and `OldestFirst` is refuted without it. A chip's
message stays in the list: that it may leave it and come back is not modelled.

Of the other stores: direct messages, relationships, presence, settings, drafts,
translation and toasts. Each event or answer replaces one map entry, and nothing
else writes it. Of guild members, GUILD_DELETE (`stores.ts:3708`), which drops the
entry with the guild.

Of a call: an op 4 the core could not send, which is only logged and not sent again
(`core/src/gateway.rs:542`), a VOICE_SERVER_UPDATE lost with the gateway's
connection, a moderator who disconnects the user (`stores.ts:4242`), so that
`CallFollowsTheUser` speaks of runs in which every message arrives; the reconnecting state, devices, volumes, screen share, participants,
incoming calls and what logout clears. The native voice engine is a second
implementation of a call, around native libraries, that the frontend's calls do
not go through.

The REST functions and most Tauri commands are one request each, without state.
The desktop helpers are OS glue, the builder is a developer's tool, and
`native-vendor`, `vendor` and `reference` are other people's code; the last is by
far the largest part of the repository and no part of the program.

`PROJECT.json` lists every component with its status and every hazard with the
property that would catch it, or the reason why there is none.

## 8. Plan

Done, in this order: `EventStream`/`Gateway` with proofs, `CommandPump` with
proofs, `AppSession`, `LazySubscriptions`, `RouteKeys`/`RateLimiter`,
`MediaCache`, `MessageStore`, `Reactions`, `ReactionsModal`; then `Fetch` and the
stores over it under `FrontendStores`, `VoiceCalls`, and the proofs about
`MediaCache`, `AppSession`, `LazySubscriptions`, `RateLimiter`, `VoiceCalls` and
all the stores.

Left, modelling:
1. `jumpTo` in `MessageStore` (stores.ts 1118), with what "in order" can mean then.
2. A composition of `CommandPump` and `AppSession`: a second login after the handle
   was dropped.
3. Lost messages of a call, and its end by a moderator, in `VoiceCalls`; lost
   events in the five stores that assume none.
4. The rest of the voice store: reconnecting, participants and incoming calls.
5. The slot ring between screen capture and encoder
   (`native-vendor/encoder-ring`), if the screen share turns out to depend on its
   details.

Left, proofs: what a composition of `CommandPump` and `AppSession` would promise.
Every invariant of the present modules that a run checks is proved.
