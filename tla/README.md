# Relay: the formal model

Relay is a chat server (Node, Socket.IO, Redis, PostgreSQL, MongoDB) with a
React client. This directory holds TLA+ models of the parts where its
correctness is decided, the TLC configurations that check them, and theorems
about them that TLAPS has checked.

## 1. Inventory

| Component | State | Operations | Hard because |
|---|---|---|---|
| Message send path (`client/src/realtime/socket.js`, `store/chatStore.js`, `store/outbox.js`; `server/src/realtime/handlers/message.js`, `services/message.service.js`, `services/ratelimit.service.js`) | outbox (memory and localStorage), optimistic bubbles, thread; rate counter (Redis), `next_seq` (Postgres), the messages collection (Mongo) | compose, flush, retry, timeout; admit, allocate, insert, broadcast, acknowledge | at-least-once delivery over two stores without a transaction; crashes and lost replies at every step; several attempts at once |
| Delivery and sync (`handlers/sync.js`, `services/sync.service.js`, `realtime/io.js`, client `socket.js`) | `last_delivered_seq`, room membership, frames in flight, debounce timer, thread | join, drain, page, acknowledge, live stream, gap repair | inserts commit out of order, live and paged acknowledgements interleave, reconnections |
| Message log reads (`services/message.service.js`) | none | history page, range, undelivered page | cursor and limit boundaries |
| Thread view (`components/MessageList.jsx`, `chatStore.js`) | thread, contiguous mark, `hasMore`, `loading` | first page, older pages, gap repair | three sources fill one thread |
| Presence (`services/presence.service.js`, `handlers/presence.js`) | a Redis set with a lease per user, each client's map | connect, disconnect, heartbeat, snapshot | several instances, crashes, announcements out of order |
| Socket session (`realtime/authSocket.js`, client `socket.js`, `lib/api.js`, `store/authStore.js`, `App.jsx`) | access token, socket, session status | handshake, expiry sweep, refresh, reconnection | which disconnections the library recovers from |
| Refresh tokens (`services/token.service.js`, `http/controllers/auth.controller.js`) | token rows, the cookie | issue, rotate, revoke | two tabs, lost responses, read outside the transaction |
| Read state (`services/conversation.service.js`, `handlers/sync.js`, `chatStore.js`, `ConversationList.jsx`) | `last_read_seq`, each tab's list with its badges | mark, list, bump, open | burned numbers, lists that are stale when used, marks without acknowledgements |
| Conversations and rooms (`services/conversation.service.js`, `http/controllers/conversation.controller.js`, `realtime/io.js`) | rows, room membership | create direct message or group, announce, join | creation races, announcing to sockets that are just joining |
| Typing (`components/Composer.jsx`, `handlers/typing.js`, `socket.js`) | the composer's flag and timer, membership cache, the watcher's indicator and timers | start, stop, switch, relay, expire | events that overtake each other, overlapping timers |
| Outbox storage (`store/outbox.js`, `chatStore.js`) | one localStorage entry, a copy in each tab | load, save, resolve | two tabs and two users write one entry |
| Registration and login, HTTP application, configuration, schema, presentation, tests | | | sequential or stateless |

How they interact: every client holds one WebSocket to one instance; instances
share Redis (broadcast, presence, rate limits), Postgres (allocator, cursors,
membership, tokens) and Mongo (the log). A message is numbered in Postgres,
stored in Mongo and broadcast through Redis by the instance that received it;
each member's browser merges live broadcasts, drained pages, repaired gaps and
history pages into one thread, and acknowledges what it received, which moves
its cursor in Postgres.

What makes each component correct:

* send path: a message is stored at most once whatever is retried, is ordered
  after what its author had seen stored, leaves the outbox only once stored,
  and is shown once;
* delivery: the cursor never rewinds and never passes the member, and nothing
  falls between the drained backlog and the live stream;
* thread view: what is shown as the start of the conversation is the start;
* presence: who is connected is shown online, who is gone ages out, and those
  who watch learn of it;
* session: an expired token ends its connection, and a client with a good
  session comes back;
* tokens: a session ends only by logout, expiry or a replayed token;
* read state: marks never go back nor onto what was not seen, and no stored
  message is missing from the count;
* conversations: one direct message per pair, and its members' live sockets hear
  it;
* typing: a start is followed by its stop, and no indicator stays;
* outbox storage: what was written in any tab is kept until it is stored.

## 2. Plan

In this order, the most important behaviour first.

| | Module | Depends on | State of the plan |
|---|---|---|---|
| 1 | `SendPath`, with the abstract `ExactlyOnceLog` and `MessageLog` | | modelled, checked, proved |
| 2 | `MessageStore`, `Delivery` | 1 for what a stored message is | modelled, checked; safety proved |
| 3 | `Presence` | | modelled, checked; safety proved |
| 4 | `Session` | | modelled, checked; safety proved |
| 5 | `RefreshTokens` | what `Session` takes as a refresh | modelled, checked; safety proved |
| 6 | `ThreadView` | `MessageStore`; `Delivery` for how messages come | modelled, checked; safety proved |
| 7 | `ReadState`, with the abstract `HighWaterMark` | what `Delivery` takes as a live message | modelled, checked; safety proved |
| 8 | `Conversations` | | modelled, checked, proved |
| 9 | `OutboxTabs` | what `SendPath` takes as a stored message | modelled; its statements are refuted (section 7), and proved where they hold: one tab, one user |
| 10 | `Typing`, with the membership cache | | modelled, checked; safety proved |
| 11 | composition of `SendPath` and `Delivery`: the author's broadcast as the member's live stream | 1, 2 | left out, section 8 |

Abstract specifications: `ExactlyOnceLog`, which `SendPath` implements;
`HighWaterMark`, one cursor that only advances onto numbers that were given out,
which `Delivery` implements with `last_delivered_seq` and `ReadState` with
`last_read_seq`; and `MessageLog`, the allocator and the log without their writers,
which `SendPath` implements and which the senders of `Delivery` and `ReadState`
keep to.

Theorems: every safety property of a passing run is proved, what the liveness
properties rest on is proved, and the refuted statements that hold under a further
condition are proved under it (section 5). Of the properties that are checked,
liveness itself is left to TLC.

## 3. Modules and the code

| Module | Models | State corresponds to | Actions correspond to |
|---|---|---|---|
| `SendPath` | one author's tab, its socket, the `message:send` handlers of several instances, both stores | `outbox`, `pending`, `thread` of `chatStore.js`; `waiting` is socket.io's map of acknowledgement callbacks; `att[a].pc` is the await at which the handler of an attempt stands; `nextSeq` is `conversations.next_seq`, `log` the collection, `used` the Redis counter | `Compose` is `sendMessage`, `Connect` and `RetryFailed` are `flushOutbox` (`RetryOffline` the retry without a connection, which only marks the entries), `Arrive` to `Publish` are the awaits of the handler in order, `Insert` is the unique index, `AnswerDuplicate` its losing side |
| `ExactlyOnceLog` | what the send path promises: submit, commit, confirm | | |
| `MessageLog` | the allocator and the log as their readers may take them: `Allocate`, `Store`, `GiveUp` | `next` is `next_seq`, `open` the numbers whose insert is under way (`OpenSeqs` in `SendPath`, `allocated` in `Delivery`, what is neither stored nor burned in `ReadState`) | |
| `MessageStore` | the queries of `message.service.js` and what a tab computes from the numbers it holds | | |
| `Delivery` | one member with one tab, from allocation to acknowledgement | `watermark` is `last_delivered_seq`, `sess` where the connection handler stands, `frames` what is on the wire, `acks`, `asks` and `buffer` what the tab has emitted, `due` the debounced number | `Connect`, `Join`, `ReadCursor`, `Drain` are the awaits of the connection handler and `drainAll`; `RecvNew`, `RecvBacklog`, `Acknowledged`, `TimerFires`, `DetectGap` are the tab's handlers |
| `Presence` | one user's sockets, one watcher | `conns` and `lease` are the key and its TTL, `setup` and `drop` where each socket's two handlers stand, `told` whether the rooms heard of the members there are, `phase` and `releasing` how far an instance has shut down, `news` the announcements in flight, `view` the watcher's map | `AddConnection`, `RemoveConnection` are the two pipelines and `AnnounceOnline`, `AnnounceOffline` the emits after their awaited replies; `StopInstance`, `ReleaseLease`, `CloseSockets` and `Exit` are `io.shutdown` from await to await; `Beat` one heartbeat of an instance, `Tick` fifteen seconds |
| `Session` | one tab: status, access token, shared refresh, socket | `authStore.js`, `refreshInFlight` with its `waiters`, the engine's socket; `held` is the token the socket has presented | `Present` is the auth callback, `HandshakeAccepted` and `HandshakeRefused` the server's answer to what was presented; `AskRefresh`, `RefreshReturns`, `Sweep`, `Reattempt` and so on |
| `RefreshTokens` | the rows, the browsers' cookies, the requests under way | `family`, `revoked`, `lapsed` are columns; a request's `pc` is the await it stands at | `ReadRow` is the lookup, `Rotate`, `RevokeFamily` and `Revoke` the writes |
| `ThreadView` | one conversation in one tab | `have`, `hasMore`, `loading`, `known` are its entry in `threads`; `load` and `fetches` its requests | `Open` is the first-page effect, `LoadOlder` is `loadOlder`, `Hear`, `Backlog`, `FetchReturns` are merges |
| `HighWaterMark` | what a cursor of `conversation_members` promises | | |
| `ReadState` | one user, one conversation, the user's tabs | `head`, `log`, `burned` are the allocator and the collection, `lastRead` is `last_read_seq`; `mount` is the list a tab has asked for, `listed`, `lastSeq`, `badge` its entry; `untold` are numbers stored and not yet broadcast; `live` and `marks` are frames under way | `Store` and `Publish` are the two halves of the senders' handler (`NeverPublished` one that dies between them); `ListForUser` and `ListArrives` are the two ends of `GET /conversations`, which `Remount` asks again after another login, `RecvNew` is the `message:new` handler with `bumpUnread` and `markRead`, `Open` is the sidebar's `open`, `HandleMark` the `read:mark` handler |
| `Conversations` | creation requests of several users, the sockets of their tabs | `pc` is the await a request stands at, `conv` its result, `told` its announcement on the way to each socket, `sock` the await of the connection handler, `rooms` the adapter's | `Select` and `Insert` are the two halves of the upsert, `Reread` its `P2002` branch, `SocketsJoin` and `ConversationNew` the two halves of an announcement, `Join` the connection handler's joins |
| `Typing` | one tab's composer, the relay, one watcher | `typing` and `stopTimer` are the composer's refs, `cached` the membership cache, `asking` handlers that wait for the query, `shown` and `timers` the watcher's | `Switch` is the effect's cleanup, `Relay` and `MembershipFound` the handler with the cache hit or miss, `Hear` the watcher's handler, `TimerFires` its timeout |
| `OutboxTabs` | the tabs and users of one browser | `shared` is the localStorage entry, `outbox` the copies in the stores, `pages` the tabs with the page loaded | `Load` is the store's initialiser, `Login` the boot's refresh or a login, `Enqueue` and `ResolveOutbox` save |

What is abstracted in all of them: a message is its number or its
`clientMsgId`; texts, names, dates, layout, logging and validation of payloads
are left out. A handler is one action per stretch between two awaits, so every
interleaving the event loop allows is in the model; a Redis pipeline, an SQL
statement and a Mongo write are one step each. Instances share nothing but the
stores and the adapter. What socket.io and the browser do is modelled from how
the code relies on it (`external` in `PROJECT.json`): ordered delivery within a
connection, callbacks rejected when it closes, buffered emits flushed on
connect, events without a listener dropped, no reconnection after a refused
handshake or a server-side disconnect.

The modules meet at few points and keep them small. `Delivery` takes the
allocator and the insert of `SendPath` as `AllocateSeq`, `Store` and `Burn`, and its
broadcast as `Publish` or `LosePublish`. `ThreadView` takes every message or
backlog page as possibly arriving, which includes every behaviour of
`Delivery`. `Session` takes an answer of the refresh endpoint as one of three
outcomes, which `RefreshTokens` opens up. `ReadState` takes the log as `Delivery`
does and any stored number as possibly live in any tab; `OutboxTabs` takes a
send that succeeds as `Deliver`, which `SendPath` opens up. `HighWaterMark` is the
one promise `Delivery` and `ReadState` share.

`MessageLog` is the seam between who writes the log and who reads it. The theorem
`SendPathImplementsMessageLog` says that the handlers, with every overlap, lost reply
and crash, do no more to the numbers than `MessageLog` allows; the actions
`AllocateSeq`, `Store` and `Burn` of the readers have no guards but those of
`MessageLog` and the bounds (a crash that gives up several numbers is several
`Burn`, a number lost on its way to the handler an allocation and a `Burn`), so what
is proved of the readers is proved of them behind the send path.

## 4. Runs

Every run is one question; the bounds are the smallest at which the case the
question is about happens, and one mutation of the code for every property shows
that it does.

| Run | Question | Bounds and why they are enough |
|---|---|---|
| `send_order` | Are two messages of one author ordered by cause, kept in the outbox until stored, shown once; is every step one of `ExactlyOnceLog`? | two messages, two instances, a rate limit of one, three numbers and three faults: one burned number, a crash, a refusal and a reload together |
| `send_one` | Is one message stored, announced and answered once, and does its bubble settle? | two attempts at once on two instances, three numbers: both may allocate, one may burn, a third attempt finds the first's document |
| `delivery` | Does the member miss nothing, is the cursor a `HighWaterMark`, does paging end? | three numbers with a page of one: two further pages, and inserts in any order; one fault |
| `presence` | Is who is connected in the set, was coming online announced, and do ghosts only age? | two sockets on two instances, a lease of three heartbeats of which one may be missed (`TTL_SECONDS` is three `HEARTBEAT_MS`); one crash, one shutdown in its stages, or one failed query, at any point of either socket's handlers |
| `session` | Does no socket outlive its session, no boot hang, no connection outlive its token, and does a lost transport heal? | finite without bounds |
| `tokens` | Does a session keep a token, is nobody else's revoked, is a false alarm impossible where nothing is lost? | a tab alone in its browser and two tabs that share another, two requests under way, three rows, two mishaps: a rotation, its replay, a second family, and a replay by tabs of the other browser all fit |
| `thread_view` | Does scrolling back leave nothing out, and come to the start? | four numbers, history pages of one, repair and backlog pages of two: a page that does not reach what it should is possible |
| `conversations` | Is there one direct message per pair, does each answer fit, is who is online in the rooms? | two users with a tab each; their direct message asked for from both sides, a group of the same two, and a name nobody has: a creation can race with the other's and with both connections |
| `read_state` | Is the read cursor a `HighWaterMark`, does the count cover the log, is what is heard marked? | one tab, three numbers of which one is the user's own, one failed mark or sender that dies before it broadcasts, one return to the page after it was left: a burned number below and above a stored one; the marks under way are a set, so two of one tab already overtake each other as those of two would |
| `typing` | Is a start always followed by its stop, does an indicator always clear? | two conversations, four events: start, switch, start in the other and stop; two timers of one indicator |
| `presence_seen`, `outbox_tabs` | statements of the repository that the code does not keep (section 7) | the smallest that refutes |

Deadlock: in `SendPath`, `Delivery`, `ReadState`, `Typing` and `OutboxTabs` the
system stops when the numbers, messages, events, faults or attempts of the
instance are used up, so their configurations say `CHECK_DEADLOCK FALSE`; elsewhere deadlock is checked. Symmetry is used over
messages, instances, sockets and request slots, in runs without liveness only.
`MaxSeq`, `MaxFaults`, `MaxMishaps`, `MaxTokens`, `MaxNews`, `MaxLogins` and `MaxEvents` bound what the
code does not bound; `RateLimit`, `Page`, `MaxPage`, `Lease` and `MaxMisses`
are the code's own limits made small.

Fairness, and why the code justifies it:

* a handler that has been entered goes on from each await, with a result or an
  error (event loop; the stores' clients answer or time out);
* callbacks run: acknowledgement callbacks have a timeout, or are rejected on
  disconnection;
* the library connects again after a lost transport, but only then: `Connect`
  is fair in `SendPath` where the socket has only ever lost its transport, and
  in `Session` only `Reattempt` is, which needs `backoff`. The two halves of the
  handshake, `Present` and the server's answer, are strongly fair: the server may
  be unreachable, or lost before it answers, again and again, not for ever;
* a shutdown that has begun goes on to its end, in `Presence`;
* timers run: the sweep, the heartbeat (on time or late, never late twice in a
  row), the client's debounce and the watcher's typing timeouts, which are all
  `IndicatorClears` needs;
* a live frame that its connection does not lose is handled (`read_state`), and so
  is a mark, with success or failure;
* a reader who can scroll back does (`thread_view`), which the property is
  about.

Faults, new messages, logins, reloads and closing tabs are never fair.

## 5. What is proved

TLAPS proves these for every value of the constants that satisfies the
assumption named in each module (for instance: any number of messages,
instances and attempts; any page size; any lease that outlasts the missed
heartbeats by two).

* `SendPathProofs`: `SendInv` is inductive, and with it type correctness,
  `ExactlyOnce`, `CausalOrder`, `ConfirmedIsCommitted`, `ThreadMatchesLog`,
  `RenderedOnce`, `AnnouncedOnce`, and that `SendPath` implements `ExactlyOnceLog`.
  None of these is inductive alone. `NumbersFresh` says that a number in an
  insert under way is in no document and in no other insert; `Provenance` that
  it is above everything stored when the message was written (the allocator ran
  after that, and `next_seq` is above every document); `HandlersKnow` that what a
  handler has found out stays true and that one handler of a message announces.
* `DeliveryProofs`: `DeliveryInv` is inductive. The argument for
  `SessionCoversLog` is that the room is joined before the cursor and the log are
  read, so a message stored after the read is emitted to this socket, and a
  message stored before it is on the page read, or beyond its last message with
  `hasMore` set (`OldestPage`), which keeps a request for
  the next page under way. The same invariant gives that `Delivery` implements
  `HighWaterMark`: every acknowledgement under way is of a number in `given`, and
  `GREATEST` makes the step an advance or a stutter.
* `PresenceProofs`: the invariant is the lease bound: for every socket connected
  to an instance that is up, what is left of the lease, plus the heartbeats its
  instance has missed in a row, plus one if it has yet to beat in this interval, is
  at least the whole lease. As an instance misses at most `MaxMisses`, the lease
  never reaches zero under such a socket, and `StopsInOrder` says that no removal
  is under way for one. A connected socket of an instance that shuts down is
  excepted because the code takes it out of the set first: `io.js:112` awaits
  `releaseInstanceLeases` and `io.js:113` closes the sockets afterwards.
  `OnlineWasAnnounced` follows from `FirstIsTold`: the reply to a first `SADD`
  leaves its handler about to announce, and from there the announcement is emitted
  or is lost with its handler, which `told` then says. `GhostsAge` follows from type
  correctness.
* `SessionProofs`: `TypeOK`, `SocketInSession` and `BootAwaits` are inductive
  together.
* `RefreshTokensProofs`: `FamilyKeepsToken` is inductive with types and with the
  fact that a rotation under way presents a token that exists: a rotation revokes
  the presented row and issues its successor in one transaction.
  `NoFalseAlarmAlone` holds of any tabs in any browsers, of the tabs that have
  theirs to themselves (`Lone`), while there was no mishap. Its invariant
  `Undisturbed` says that browsers hold tokens of different families (`Apart`), so
  that what the tabs of a shared browser do to each other stays in it; that a tab
  makes one refresh at a time (`Orderly`, which is `refreshInFlight` in `api.js`);
  and hence that a token a lone tab has in its cookie, in a request or in an answer
  is unrevoked or its family logged out of, but for the cookie of a tab whose
  successor is on its way. `RefreshTokensTabs.cfg` shows that tabs which share a
  browser have to be excepted (`SharingSuffices`, section 7).
* `ConversationsProofs`: the unique index makes `OneDmPerPair` inductive; a result
  stands on a row that exists and fits because `Reread` finds a row wherever an
  insert lost; and for `RoomWindow` a socket that joined has everything it read in
  its rooms, and nothing leaves a room but by disconnecting. The other half of
  `RoomWindow`, that no socket is in a room of a conversation its user is not a
  member of, is `RoomsOwn`: an announcement makes the sockets of members join, and a
  connection joins what it read of its own memberships.
* `ThreadViewProofs`: `PageJoins`: everything below the cursor of a history request is
  held, is still below everything held, or was jumped over; so a page that
  returns late, after live messages and repairs have lowered the thread's floor,
  still joins it. `StartKnown`: the page that says there is no more brings all that
  was left below, and nothing is asked once it is in, so where
  the pane says "Start of the conversation", all the log held below a cursor when a
  page was read is in the thread, but for what was jumped over (`HolesRepaired` is
  about that). It needs of `NewestPage` that a page leaves something out only of more
  than the limit.
* `OldestPage` (in `DeliveryProofs`) and `NewestPage` (in `ThreadViewProofs`) say what
  a page of the oldest or of the newest messages leaves out, for every log. Each of
  the two modules has the lemmas about `MessageStore` that it uses.
* `ReadStateProofs`: `ReadInv` is types, `MarksGiven` and `GivenNumbered`. The first
  says that the cursor, every mark under way and the head of every entry are numbers
  some tab was given, so that `HandleMark` is `Advance` of `HighWaterMark` where it
  moves the cursor at all; the second that what was given had been numbered. Neither
  `UnreadCoversStored` nor `ReadWithinHead` depends on the order of marks, on how
  many tabs emit them or on which are lost: stored numbers above the cursor lie
  between it and the head, and the count is the length of that interval.
* `MessageLog`: `SendPathImplementsMessageLog` rests on `NumbersFresh` (an insert
  closes its own number and nobody else's) and on the fact that only `Allocate`
  brings an attempt to "allocated"; the two readers keep to it by their types.
* `SessionProofs` also holds what is proved of the two other modules of a tab, which it
  instantiates. `StartIsStopped` (`Typing`): `StopInv` adds
  to `StartsAreStopped` that a start stands only for the conversation that is open,
  which is what typing on in a conversation needs when it arms the timer again.
  `OneTabKeeps` and `OneUserStores` (`OutboxTabs`) are below.

The liveness properties stay with TLC, but each rests on a safety fact: that
somebody always has the next step, or that every round makes progress. These facts
are stated beside the properties in the component modules and proved.

| Liveness | Rests on | Theorem |
|---|---|---|
| `SendingSettles` | `SendingAwaited`: a bubble that says "sending" has a callback outstanding | `SendingIsAwaited` |
| `CaughtUp` | `PagingAdvances`: a page asked for ends beyond the one before it. A page is never empty and lies above the number it is asked from (`PageBeyond`) | `PagingGoesUp` |
| `HistoryReached` | `PagesDescend`: a page of history that promises another brings something from below its cursor | `HistoryDescends` |
| `HeardIsMarked` | `HeardIsKept`: a message heard in the open conversation becomes a mark, and a mark goes only when the cursor has come to it, when it failed, with its connection, or with the page when it is left for another login | `HeardMessageIsKept` |
| `TransportLossHeals` | `StillTrying`: while the tab's token is good, a socket that is trying goes on or connects, unless the token it has presented has expired, which a refresh that returns before the server's answer can make an older one than the tab's | `TryingGoesOn` |
| `ExpiredIsSwept` | `HeldOnlyAges`: no refresh renews the token a connection came with, which only grows older until the sweep finds it | `ConnectionKeepsItsToken` |
| `IndicatorClears` | `ShownHasTimer`: whoever is shown typing has a timer running. The timers of a conversation are counted, as the code keeps no handle to an earlier one | `ShownIsTimed` |

Some statements that a configuration refutes (section 7) are true under a condition,
which says what the code would have to see to:

* `ShortHolesAreRepaired` (`ThreadView`): a repair whose span fits in one page leaves
  nothing of it missing, by `OldestWhole` (a page of the oldest messages leaves out
  nothing where what it is asked for is no more than the limit).
* `SpentStaysSpent`, `ReplaySpendsFamily` (`RefreshTokens`): a replay that finds no
  rotation of the family past its read revokes every token of it, and no later
  request, retry, answer or login brings one back. A rotation issues into the family
  of the row it read, and only a row that was live; that is all the argument needs.
* `OneTabKeeps` (`OutboxTabs`) assumes one tab. Its invariant is that the loaded
  tab's copy and the stored one agree, which `OutboxTabs.cfg` shows false of two.
* `OneUserStores` (`OutboxTabs`) assumes one user, with any number of tabs;
  `OutboxUsers.cfg` shows what a second does.

The definitions in these two lists are listed with no run: TLC checked each on the
instance of its component's run before the proof, and the proof takes its place.

What stays with TLC: liveness (`SendingSettles`, `CaughtUp`, `ExpiredIsSwept`,
`TransportLossHeals`, `HistoryReached`, `HeardIsMarked`, `IndicatorClears`),
because the prover reasons neither about fairness nor about ENABLED; and the
refutations. No module uses a RECURSIVE operator, and no proof uses induction
over data beyond the library's facts about finite sets and the natural numbers.

## 6. Properties worth reading first

* `CausalOrder` (`SendPath`): a reply is numbered after what its author saw, even
  when a retry through another instance stores it much later.
* `SessionCoversLog` (`Delivery`): joining before draining, stated over the
  messages on the wire, on pages still to come and still to be emitted.
* `PresentWhileConnected`, `GhostsOnlyAge` (`Presence`): the lease is long enough
  for those who are there, until their instance shuts down, and is extended by
  nobody for those who are not.
* `FamilyKeepsToken` (`RefreshTokens`): read-then-write without a lock loses no
  session.
* `HistoryLeavesNoGap` (`ThreadView`): three sources fill one thread, and
  scrolling back loses nothing but what one of them jumped over, up to the start
  that the pane announces.
* `ImplementsHighWaterMark` (`Delivery`, `ReadState`): two cursors, moved by
  different handlers for different reasons, keep one promise.
* `ImplementsMessageLog` (`SendPath`, `Delivery`, `ReadState`): what the writers of
  the log do is what its readers assume.
* `NoFalseAlarm` (`RefreshTokens`): the requests of a tab alone in its browser never
  look like theft, whatever tabs that share another browser do to each other.
* `RoomWindow` (`Conversations`): what is left open between the two orders of
  joining and announcing is one named window, and no order puts a socket into a
  room of others.
* `SpentForGood` (`RefreshTokens`): what reuse detection ends stays ended.

## 7. Where the code departs from what it says

Listed in `PROJECT.json`, each with a run that refutes the statement:

* `presence_seen`: a snapshot read before a transition and applied after it, or an
  offline announcement sent after an await, hides a user who is connected.
* `outbox_tabs`: the outbox is written as a whole from one tab's copy; a second tab
  overwrites what the first has queued, and nobody has it once that tab goes.

The second is proved for a browser with one tab (`OneTabKeeps`).

Stated in the modules and refuted by configurations that are kept for
reproduction (`tlc -config <cfg> <module>`):

| Statement | Configuration | What happens |
|---|---|---|
| `MidDrainRedelivery` (handlers/sync.js:18-20) | `DeliveryMidDrain.cfg`, MCDelivery | the acknowledgement of a live message passes over backlog pages still being paged; a client that dies then loses them to the drain |
| `SweptReconnects` (authSocket.js:50-51) | `SessionSwept.cfg`, Session | the expiry sweep disconnects from the server's side, after which the library does not reconnect; the client refreshes and stays disconnected |
| `SharingSuffices` (api.js:11-18) | `RefreshTokensTabs.cfg`, MCRefreshTokens | the refresh is shared within a tab, the cookie within a browser; two tabs that refresh at once trip reuse detection |
| `HolesRepaired` (socket.js:212-217) | `ThreadViewHoles.cfg`, ThreadView | a repair asks for everything from the contiguous number, which is 0 in a thread opened at its newest page, and receives the oldest 200 messages: not what is missing, and the thread's floor falls to 1, so that scrolling back shows "Start of the conversation" above a hole. Proved of a span that fits in one page (`ShortHolesAreRepaired`) |
| `ToldIsInside` (socket.js:105-106) | `ConversationsTold.cfg`, MCConversations | a socket that joins between the two halves of an announcement hears of a conversation whose room it is not in, until it connects again |
| `ReadingAllLeavesNone` (tests/integration/conversations.test.js:233) | `ReadStateBurned.cfg`, ReadState | a number burned at the head stays unread after everything stored is read |
| `StoredUnread` (handlers/sync.js:90) | `ReadStateEarly.cfg`, ReadState | opening a conversation marks the last number of the list, whose message is still to be stored: it is read before it exists |
| `BadgeShowsUnread` (chatStore.js:40-44) | `ReadStateBadge.cfg`, ReadState | `conversation:new` for a direct message that exists replaces its entry by one without a badge |
| `StoredAsAuthors` (outbox.js:6-10, chatStore.js:28) | `OutboxUsers.cfg`, OutboxTabs | what is left in the outbox at logout is sent as the next user who logs in, where that user is a member too. Proved for one user (`OneUserStores`) |
| `OwnTimerClears` (socket.js:120-121) | `TypingFlicker.cfg`, Typing | the timer of an earlier start clears the indicator of a sender who has started again |
| `RoomAlreadyReceived` (handlers/message.js:47-49) | `SendRoom.cfg`, MCSendPath | the reply to the insert is lost, or its instance dies before the emit; the retry is a duplicate and nobody broadcasts |
| `SendsAutomatically` (ConnectionBanner.jsx:33) | `SendAuto.cfg`, MCSendPath | a refused or unheard send rests in the outbox while the tab stays connected |
| `DeliveredIffWatermark` (schema.prisma:83-85) | `DeliveryIff.cfg`, MCDelivery | a number stored after a later one was acknowledged is below the cursor undelivered |
| `GoneIsSeen` (README.md:20) | `PresenceGone.cfg`, MCPresence | a lease that runs out is announced to nobody |
| `RefusedTriesAgain` (socket.js:59-60) | `SessionRefused.cfg`, Session | after a refused handshake there is no next attempt |
| `ExpiryIsInvisible` (api.js:52-53) | `SessionExpiry.cfg`, Session | a refresh answered with a server error ends a good session |
| `ReplayEndsFamily` (schema.prisma:111-112) | `RefreshTokensReplay.cfg`, MCRefreshTokens | a rotation that read its row before the revocation commits a live successor. Proved where none has (`ReplaySpendsFamily`) |
| `LogoutEndsFamily` (token.service.js:106) | `RefreshTokensLogout.cfg`, MCRefreshTokens | a rotation in flight outlives the logout |

`PresenceAges.cfg` checks the liveness form of `GhostsOnlyAge` (`GhostsAgeOut`)
on one instance, and passes.

## 8. What is not modelled, and why

* The composition of `SendPath` and `Delivery`. `Delivery` already takes what any
  number of senders may do to the log and the room as nondeterminism, so the
  composition has fewer behaviours than it checks; what it would add is a bubble of
  the author's own among the messages a drain brings, which `SendPath` has as a
  merge.
* In `ReadState`: the conversation list as it arrives while a conversation is being
  created in the same tab, more than one conversation, and the HTTP route for
  marking, which has no caller in the client.
* In `Typing`: that `typingRef` stays set when the composer turns to another
  conversation, so that typing there is not announced until a pause or a send has
  reset it, and that one start is sent for any length of typing, so that the indicator
  goes dark after four seconds: the model has both behaviours, and no statement of
  the repository forbids them.
* The user search of `NewChatDialog.jsx` (stale answers are shown) and the race of
  two registrations for one user name (decided by the unique index).
* The scroll position and layout: `Fits` stands for a pane that does not overflow
  and so has no scroll events.
* Registration, password hashing, user search, HTTP plumbing, configuration,
  presentation: sequential or stateless.
* What `ThreadView` makes visible but no property forbids: a thread that a live
  message or a backlog page created suppresses the first history load
  (`MessageList.jsx:31`), a failed first load is never tried again, and where the
  pane does not overflow there is no scroll event to load more.
  `HistoryReached` therefore assumes a pane that overflows.
* Redis losing writes, Postgres or Mongo failing over, clock skew between
  instances: the code does nothing about them.
* Membership changes: no operation of the code removes a member.
* Small branches no property depends on: a localStorage that cannot be read or
  written is in `OutboxTabs` and not in `SendPath`; the await of `auth.logout()` is
  no state of its own in `Session`, where a cookie that dies before the session is
  cleared is `CookieDies`; and in `ReadState` the page is left only with its list
  shown, not with the answer still on its way.
