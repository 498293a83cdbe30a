# sharechat.dev in TLA+

A model of the chat server in `src/`: TLA+ modules for its concurrent core, TLC
configurations that check them on small instances, and theorems that TLAPS proves
for every instance.

- [Inventory](#inventory): the parts of the system and what makes each correct
- [Modules](#modules): what models what, state by state and action by action
- [Runs](#runs): what TLC checks, with which bounds and why they suffice
- [Fairness](#fairness)
- [Disagreements](#disagreements): where code and documentation differ
- [Proofs](#proofs): what is proved, from which assumptions, and how
- [Limits](#limits): what is only model-checked, and what is not modelled
- [Plan](#plan)

## Inventory

A *room* is a chat channel with an ID that is shared by URL. Several server
processes ("instances" here, each one `Controller`) serve the same rooms; they share
a Postgres database (the *repository*) and a Redis server (the *queue*, one topic per
room). A *member* is one websocket connection to one instance.

```
   client ==websocket== Connection          one set per member
                          |    ^
              ReadBytes   v    |  WriteMessage
                   Broadcast  Listen <----- Room.Start  (one per room and instance)
                 outbound |    ^ inbound      ^ inbound
                          v    | SendFailed   |
                        Publish               funnel, funnel   <--- Redis topic
                          |                                           ^
                          +--- InsertMessage / DeleteMember --> Postgres
                          +--- queue.Publish -------------------------+
```

All channels are unbuffered, so every arrow inside an instance is a rendezvous of two
goroutines: who waits for whom is the heart of the system.

| Part | State | Operations | Interacts through | Hard behaviour | Correct if |
| --- | --- | --- | --- | --- | --- |
| `Member` (`member.go`) | five channels, two `sync.Once` | `Listen`, `Broadcast`, handshakes, `CloseInbound`, `StopBroadcast` | channels to Controller and Room | two goroutines receive `stopBroadcast`, two send `inbound`, two places close it | nothing is read before the joined message; a departure is announced once; no send on a closed channel |
| `Room` (`room.go`) | `members` map, `inbound` | `Start`, `notifyMember`, `AddMember`, `CloseInbound` | channels; the map is shared with `ServeRoom` calls | iterates over a map that grows meanwhile; blocks on each member in turn; closing loop | every member gets every message, in order, once, up to its departure |
| `Controller` serving (`controller.go:94-208`) | none of its own | `ServeRoom`, `Publish` | Member, Room, repository, queue | five abort paths, each with other goroutines running; insert, then publish, with no transaction across the two | stored before published; an aborted call leaves nothing running; calls return |
| `Controller` rooms (`controller.go:43-92, 141-170, 210-238`) | `roomCache`, `mu` | `CreateRoom`, `startRoom`, `Subscribe`, cache operations | repository, queue, `Room` | cache lookup, repository read and cache insert are separate; a room is in the cache before it works | one room object per instance; failed rooms are forgotten |
| Redis queue (`redis/queue.go`) | subscriptions | `Publish`, `Subscribe` | go-redis, the two goroutines of `Controller.Subscribe` | an attempt whose answer is lost is sent again and may be executed late; reconnects and full channels lose | what arrives is in order, once, and of this room; what does not was lost knowingly |
| Postgres repositories (`postgres/`) | tables `rooms`, `members`, `messages` | inserts, `DeleteMember`, `GetMessages`, `GetMembersByRoom` | SQL | a call may fail after its commit; rows become visible out of `sent` order; readers race with writers | a page sequence returns every message once; the members of a room agree with what was announced |
| HTTP API (`http/`) | none | routes, upgrade, cursors, `GetRoom` | Controller | rooms and members run under `context.Background()` | documented responses |
| In-memory queue and repositories (`memory/`) | one channel, three maps | as above | goroutines | one channel for all rooms; a publisher waits for a free funnel; maps without locks, changed in several steps | as above, and `Publish` returns |
| Name generator (`generator.go`, word lists) | `rand.Rand`, title caser | `GenerateRoomName`, `GenerateMemberName` | concurrent `ServeRoom` calls | the caser is stateful and used outside the mutex | two words of the lists, title-cased |
| Programs, migrations, tests, mocks | | | | | |

The hazards of this code, each at its line and with the properties aimed at it, are
listed in `PROJECT.json`.

## Modules

| Module | Role |
| --- | --- |
| `RoomMessages` | the messages of a room: who sent it, and its number among the sender's messages |
| `RoomFeed` | abstract specification: a store, one feed, readers that read subsequences of the feed in its order |
| `ChatRoom` | the system: one room, its members and instances, Redis and Postgres |
| `ChatRoomInv` | the inductive invariant of `ChatRoom`, in named parts |
| `ChatRoomProofs` | theorems about order, storage and the refinement, and their proofs |
| `ChatRoomThreadProofs` | theorems about who meets whom: handshakes, aborted calls, closed channels |
| `ChatRoomGapProofs` | theorems about what reaches a member: no gaps, nothing left behind, the same for all of a room |
| `MCChatRoom` | constants for TLC |
| `TopicQueue` | abstract specification: what `ChatRoom` assumes of a queue |
| `RoomQueue` | the two implementations of the queue, with the goroutines between them and `room.inbound` |
| `RoomQueueProofs` | its inductive invariant, theorems, the refinement of `TopicQueue`, and their proofs |
| `MCRoomQueue` | constants for TLC |
| `MessagePages` | reading messages page by page while rows are inserted, for both repositories |
| `MessagePagesProofs` | its inductive invariant, theorems and their proofs |
| `RoomView` | `GetRoom`: reading the members of a room while they come, go and fail |
| `RoomViewProofs` | its inductive invariant, theorems and their proofs |
| `MCReads` | constants for TLC, for `MessagePages` and `RoomView` |
| `RoomCache` | the Room objects of one instance for one room: creating, caching, subscribing, evicting |
| `RoomCacheProofs` | its inductive invariant, theorems and their proofs |
| `MCRoomCache` | constants for TLC |
| `NameGenerator` | names drawn under a mutex and put into title case without it |
| `NameGeneratorProofs` | its inductive invariant, theorems and their proofs |
| `MCNameGenerator` | constants for TLC |

The six systems share no variables; what one assumes of another is this:

- `ChatRoom` assumes of the queue that messages take places in one log, that each subscription
  loses some of them, and gets the others in the order of the log. That is `TopicQueue`, and
  `RoomQueue` is proved to implement it. `ChatRoom` decides about a loss when the message is
  accepted, which makes no difference to anybody who reads. It also assumes that what is accepted is
  the message that its sender is publishing, or one of which go-redis gave up an attempt
  (`QueuePublish`, `ExecuteLate`). `TopicQueue` does not say that; of `RoomQueue` it is proved as a part
  of its invariant (`WireInv`). `RoomQueue` has the attempts one by one.
- `RoomQueue` assumes that `Room.Start` comes back to `room.inbound`, which is what `ChatRoom` shows
  of clients that read (`Forwarded`).
- `ChatRoom` assumes one Room object per instance. `RoomCache` proves that of the instance on
  which `CreateRoom` succeeded (`OneRoomWhereCreated`), and shows what several objects do to
  each other elsewhere. An instance of `ChatRoom` may be read as one Room object: with a split room
  each member belongs to one object, which has a subscription and a `Room.Start` of its own, so what
  `ChatRoom` says of instances holds of the objects (a crash then ends several of them).
- `RoomCache` leaves out how a Room object serves its members, which is `ChatRoom`: there a
  member is admitted or not, and a message is handed to all members of an object at once.
- `ChatRoom` uses only that `InsertMessage` stores a message or fails; `MessagePages` only that rows
  appear and stay; `RoomView` only that a departure is handled after the arrival.

### ChatRoom

One room, any number of members and instances. A thread of control is a program
counter:

| Variable | Code |
| --- | --- |
| `serve[m]` | where the `ServeRoom` call of member `m` is (`controller.go:94-139`) |
| `listen[m]`, `hand[m]` | where `Member.Listen` is, and the message it is writing to the connection |
| `bcast[m]` | where `Member.Broadcast` is |
| `pub[m]`, `chats[m]` | where `Controller.Publish` is, and the chat it took last |
| `closed` | members whose `inbound` is closed |
| `open`, `seen[m]`, `told[m]` | the connection: open or not, topic positions written to it, chats answered by `SendFailed` |
| `status[n]` | the process of an instance: up, or how it died |
| `setup[n]` | `Subscribe` and the cache: pending, ok, closed (`CloseInbound` done), evicted |
| `room[n]` | where `Room.Start` is: receiving, notifying `cur` with `todo` left, closing, done |
| `members[n]` | `Room.members` |
| `sub[n]` | topic positions between Redis and `room.inbound`: socket, go-redis channel, two funnel goroutines |
| `expired` | contexts that are done |
| `topic` | messages in the order Redis executed PUBLISH |
| `gaveUp` | messages of which go-redis gave up an attempt (`redis.go:306-353`) |
| `row[m]`, `stored` | tables `members` and `messages` |

How the code's constructs are rendered:

- *A rendezvous is one action* that moves both goroutines: `ListenReady`,
  `StartBroadcast`, `TakeChat`, `TakeLeft`, `Notify`, `SendFailed`, `StopMember`.
- *`select` with a context* is the rendezvous or a `...Timeout` action; both are
  enabled when both are possible, as in Go. `select` with `default` (`Poll`) is taken
  only while nobody waits to send (`StopPending`).
- *A call of the repository* is one action for success and one for failure. A failed
  call may have committed: `InsertMemberFails`, `InsertMessageFails` and
  `DeleteMemberFails` either leave the tables alone or change them. The two
  statements of `InsertMember` and `DeleteMember` are sent as one simple query, hence
  one implicit transaction, one step.
- *`queue.Publish`* either puts the message at the end of the topic and into every
  subscription (`Accept`), or fails. An attempt whose answer does not come is given up (`GiveUp`):
  go-redis sends the command again or returns the error, but cannot take back what it has
  written. Redis executes a given-up attempt at any later time or never (`ExecuteLate`): before
  the retry, after it, after `Publish` has gone on to the member's next message or its departure,
  or after the process has died. Under `loss` any subset of the subscribers misses an accepted message.
- *`range` over `Room.members`* (`NextNotify`, `NextStop`) visits the entries in any
  order; an entry that `AddMember` inserts meanwhile is visited or not
  (`EndAddMember`).
- *`AddMember`* is two steps, because it holds a mutex that `Room.Start` does not take.
  If the two overlap, the Go runtime may stop the process (`MapFault`).
- *A send on a closed channel* stops the process (`SendFailedPanics`). A dead process
  takes its connections and its subscription with it and leaves topic and tables.
- The funnel goroutines, the go-redis channel and the Redis connection are one ordered
  buffer, `sub[n]`; `RoomQueue` has them one by one.
- The setup of a room on an instance is done by the first connection's `ServeRoom` or by
  `CreateRoom`; every other call finds the room in the cache as soon as it is there,
  subscribed or not, which is why `ServeRoom(m)` does not wait for `setup`.

`Faults` selects what the environment may do: `repo` (repository calls fail, before or
after their commit), `queue` (PUBLISH fails), `loss`, `setup` (Subscribe fails),
`crash`. Attempts are given up of at most `MaxLate` messages, and no message is executed more than
`MaxCopies` times. `Deadlines` says whose context has a deadline. The server itself uses
`context.Background()` for rooms and connections (`http/server.go:46,171`); the tests
use deadlines, and the code handles them.

### RoomFeed

What the rooms promise whatever happens: only stored messages are published; a
sender's messages are published once and in the order it produced them, but for those in
`late`, of which the publisher does not know whether it has published them; nobody reads
backwards, a position twice, or its own departure; nothing is stored of a member after its
departure. `ChatRoom` implements it under the mapping `store <- stored, feed <- topic,
late <- gaveUp, read <- seen` (`RoomIsFeed`): checked by TLC and proved.

### RoomQueue and TopicQueue

Any number of threads that publish, of subscriptions and of rooms. What cannot change while the
server runs is in one constant record, `setting`: the implementation, the room of each sender and
subscription, go-redis's `MaxRetries`, and two bounds.

| Variable | Code |
| --- | --- |
| `call[p]`, `sent[p]`, `try[p]`, `answer[p]` | `queue.Publish` of a sender: waiting or not, which message, which attempt of go-redis (`redis.go:306-353`), and whether its reply has arrived |
| `wire` | attempts written to a connection and not executed by Redis |
| `log` | messages in the order in which Redis, or a funnel of the memory queue, accepted them |
| `link[s]` | the connection of a subscription (`pubsub.go:59-82, 132-164`) |
| `socket[s]` | what Redis has sent on it, the first of which the reading goroutine may have in its hand |
| `channel[s]` | `topic.Channel()`: 100 messages in go-redis, `ChanSize` here |
| `funnel[s]`, `relay[s]` | the message in `fn` (`redis/queue.go:37`) and in the second goroutine of `Subscribe` (`controller.go:222`) |
| `got[s]`, `missed[s]`, `gaveUp`, `breaks[s]` | history |

A client that gives up an attempt cannot take it back: `GiveUp` leaves it in `wire`, where Redis may
execute it at any time or never. `Execute` puts the message into the connections that are
subscribed *then*; a subscription that is between two connections misses it. `Break` loses what
is on the connection, but perhaps not the message the reader has parsed already. A message that does
not fit into the channel for a minute is dropped (`Drop`, `pubsub.go:597-608`), and later ones
may fit: the minute is not modelled, a full channel is enough. In memory a sender and a funnel
meet on one channel (`HandOver`), whatever their rooms. The funnels of both implementations do the same from then on.

`TopicQueue` is the queue of `ChatRoom`: `Accept`, `Lose`, `Take`. The mapping sends
`sub[s]` to what is anywhere between Redis and `room.inbound` (`InPipe(s)`); the order in which it
gets there is for `RoomQueue` to show, since `TopicQueue` always takes the oldest.

### MessagePages

One client pages through a room's messages; everybody else inserts. `backend` says which
repository serves, and is fixed at the start.

| Variable | Code |
| --- | --- |
| `clock` | `NOW()` of Postgres, `time.Now()` of `memory/message.go:25` |
| `inflight`, `rows` | rows of transactions that have not committed; rows a query sees |
| `dir`, `cursor` | which of `after` and `before` the client sends, and its value |
| `got`, `goal` | history: what it has received, and what was there to receive when it started |
| `phase` | not started, paging, saw an empty page |

`sent` is a column with `DEFAULT NOW()`: the time at which the transaction *started* (`Begin`),
while the row becomes visible at its `Commit`. Rows of other rooms are left out (both
repositories filter by room); the text of a cursor (RFC 3339 with nanoseconds) holds a `sent`
of either repository without loss and is left out too, so a cursor is a row. `Beyond` is the
`WHERE` clause, `Precedes` the `ORDER BY`, and `Pages` every answer these allow: the
memory repository's sort is not stable and starts from a map in random order, so rows with equal
times come in any order. A client follows `next` until a page is empty, changing the limit
from request to request as it likes.

### RoomView

The members of one room, each of which comes and goes once, and one call of `GetRoom`.

| Variable | Code |
| --- | --- |
| `repo` | which repository serves, fixed at the start |
| `stage[m]` | how far the member's `ServeRoom` and `Publish` have come: in the repository, and announced or not |
| `listed` | rows without `deleted` in table `members`; entries of the map of `memory/member.go` |
| `joined`, `left` | members whose arrival and departure were published |
| `reader`, `heard`, `answer` | the call of `GetRoom`; what had been published when it began; the members in its response |
| `maybe` | entries of the map that were written while `GetMembersByRoom` ranged over it |
| `dead` | the Go runtime has stopped the process |

In Postgres a member's row and the message about it are one transaction, hence one step, which
can fail before or after its commit. In memory `InsertMember` writes the map and then stores
the message, and `DeleteMember` does it the other way round. The map has no lock, so a write to it
is two steps. Go defines what overlapping accesses do only in part: a writer
that finds, at its end, that another has been there stops the process, so two writers always end
in `MapRace`; a loop and a write may go unnoticed, and the entry is then produced or not
(`Touch`, `EndRange`), or may stop the process. What the queue does is left to `RoomQueue`: `PublishJoin` and `PublishLeave` announce the member or, if the queue
fails, do not.

### RoomCache

One instance, one room, any number of calls of `CreateRoom` and `ServeRoom`. A call makes
at most one Room object, which therefore goes by the name of the call.

| Variable | Code |
| --- | --- |
| `known`, `row` | a client has the room's ID; the room is in table `rooms` |
| `cache` | `roomCache[roomID]` |
| `pc[c]` | where the call is: idle, reading the repository (`fetch`), in `startRoom` (`start`), in `Subscribe`, in `InsertRoom`, closing and evicting (`evict`), admitting its member, returned |
| `using[c]` | the Room object that the member of the call is added to |
| `start[c]` | `Room.Start` of the object: at `room.ready`, running, over |
| `closed`, `subs` | objects with a closed `inbound`; objects with a subscription and funnel |
| `members[c]`, `pending[c]` | the object's members; messages between Redis and its `inbound` |
| `sent`, `heard[c]` | history: messages published; messages handed to the member of a call |

Each access to the cache is one step because it takes `mu`; the read, `GetRoom` and the insertion are
three steps, and so are failure and eviction, because nothing keeps them together. `Evict`
deletes whatever object is there. A failing `startRoom`, `Subscribe` or `InsertRoom` calls
`CloseInbound` at once (one step with the failure) and evicts in the next. Only one call can be
`CreateRoom`: it draws a new ID, and nobody else can name the room before that call has
returned; `known` starts `TRUE` if another instance created the room. The go statement for
`Room.Start` is merged with `addRoomToCache`: until `room.ready` is received it does nothing.

### NameGenerator

| Variable | Code |
| --- | --- |
| `lock` | `Generator.mu` |
| `pc[g]`, `words[g]`, `name[g]` | where a call is, the words it has drawn, the parts of its result |
| `isMidWord` | the caser's state (`cases/map.go`): set by `Transform`, cleared by `Reset` |
| `raced` | goroutines that have met another in the caser since they entered it |

Words are two classes, by whether the caser is in the middle of a word after one: all but one
of the list entries end with a letter, one color ends with a bracket. What a data race does is not
defined, so a goroutine that meets another in the caser may get any result, may leave any
state, and may panic on a context that was overwritten; `net/http` recovers that panic.

## Runs

`MCChatRoom` fixes two placements: `Together` (both members on one instance) and
`Apart` (one instance each). `CHECK_DEADLOCK FALSE` everywhere: a room whose clients
have said what they wanted to say, or have all left, really stops.

| Run | Instance | Checks |
| --- | --- | --- |
| `together` | 2 members, 1 instance, one of them with 1 chat; repo, crash; the members' contexts may expire | `TypeOK`, `NothingAfterLeave`, `NoGaps`, `NoSendOnClosed` |
| `one_client` | 1 member, 2 chats; repo, setup; one message may be given up and executed twice; the member's context and the room's may expire; fair | `PersistBeforePublish`, `SenderOrder`, `FailedNotServed`, `SendersMeet`, `DeliveryOrder`, `LeftIsLast`, `ServeReturns`, `AbortSettles`, `ChatAnswered` |
| `apart` | 2 members on 2 instances, join and leave only; loss, queue; one message may be given up, and executed late instead of in time | `RoomIsFeed` |
| `live_room` | 2 members, 1 instance, join and leave; fair | `Forwarded`, `LeaveSettles` |
| `queues` | 2 senders, 2 subscriptions, both queues: `LateAttempts`, `BrokenLinks`, `InMemory`; fair | `TypeOK`, `InOrder`, `Conserved`, `LateOnlyAfterGivingUp`, `QueueIsTopic`, `Delivered`, `PublishReturns` |
| `pages` | both repositories; either 3 messages, 3 clock readings, limits -1, 0, 1, 2, or 3 members and one `GetRoom`; fair | `TypeOK`, `ForwardComplete`, `BackwardMissesTies`, `NextIsNew`, `PagingEnds`; `ViewTypeOK`, `GoneStaysGone`, `PresentIsListed` |
| `rooms` | 3 calls, one of which may be `CreateRoom` and one may expire; 1 message; fair | `TypeOK`, `OneRoomWhereCreated`, `CachedWorks`, `NoSendOnClosedRoom`, `HeardByMembers`, `CallsReturn` |
| `names` | 3 goroutines that generate names again and again; fair | `TypeOK`, `AloneIsTitled`, `NamesArrive` |
| `doc_thread_safe`, `doc_move_on`, `doc_all_messages`, `doc_caser` | see [Disagreements](#disagreements) | one statement of the documentation each, violated |

What they show:

- **Delivery.** With both members joining and leaving and one of them chatting at any moment, also in
  the middle of a notification loop, with a repository that fails and calls of `ServeRoom` that give
  up, each misses nothing between its first and its last message (`NoGaps`). A member never reads its own
  departure, and once anybody in its room has, it reads nothing behind it (`NothingAfterLeave`): its
  `Listen` still runs, but the room has forgotten it before the first notification. Deadlines and
  failing setups cost messages, never order (`DeliveryOrder`, checked with one client, in
  `apart`, with lost messages, as a part of `RoomIsFeed`, and proved for all). `NoGaps` is checked only
  without `loss` and deadlines of rooms:
  with them a gap is what the code intends, but the members of one room miss the same messages
  (`SameConversation`, proved only).
- **Storage and publication.** Repository errors, commits whose answer is lost, failing PUBLISHes and
  attempts executed late never publish what is not stored (`PersistBeforePublish`). A sender's
  messages are in the topic once and in its order, except those of which go-redis gave up an attempt:
  they can come again, and behind later ones (`SenderOrder`; see [Disagreements](#disagreements)).
  The gate `startBroadcast` is what makes `LeftIsLast` true, and "joined" the first, but for a
  "joined" that was given up.
- **Aborted connections.** Each abort of `ServeRoom` ends the `Publish` goroutine
  through `StopBroadcast`, which blocks until someone receives; it returns
  (`ServeReturns`) and the member leaves no trace in the room (`FailedNotServed`). Nor does it
  leave anything running (`AbortSettles`): `Publish` and `Listen` end, and `Broadcast` stands for
  ever at a handshake in front of the connection.
- **Handshakes.** The goroutines of a member and `Room.Start` talk over unbuffered channels.
  `SendersMeet` says for each send where its receiver can be while somebody stands there: at its receive, at
  work from which it comes back to it, or gone. Four senders can find it gone and stand there for good:
  `Listen` at `readyListen`, after `ListenTimeout`; `Broadcast` at `readyBroadcast`, after
  `BroadcastTimeout` (and at the receive of `startBroadcast`, if `ServeRoom` gives up later);
  after a failed `Subscribe`, `Broadcast` at `outbound`, if the closing loop has halted its
  `Publish`; and the closing loop itself at `stopBroadcast` (`room.go:101`), if the member's `Publish` and
  `Broadcast` have both ended. The run reaches all of these.
- **Closed channels.** A member's `inbound` is closed by its own aborted call or by the closing loop, and
  used by `Publish` and `Room.Start`. `NoSendOnClosed` is checked in `together` with calls that abort
  for every reason; that it takes a successful `Subscribe` is part of the theorem
  (`NoPanicAfterSetup`), and what happens otherwise a [disagreement](#disagreements).
- **The way to the room.** Retries, breaks and a full channel cost messages or repeat them, but what a
  subscription hands over is in the order of the log, each place once (`InOrder`), and
  what it does not hand over was lost with a connection or dropped (`Conserved`), not left behind
  (`Delivered`). Only a message of which the client gave up an attempt can be late, or in the log twice. The memory queue hands each
  message to exactly one funnel, of whatever room, and its publishers do not starve
  (`PublishReturns`). All of it implements the queue that `ChatRoom` assumes (`QueueIsTopic`).
- **Who is in the room.** Who was told that a member left, and then asks, does not find it
  (`GoneStaysGone`); who was told that it joined finds it, unless it is on its way out
  (`PresentIsListed`), also when the answer is collected by a loop over a map that others write.
- **Progress.** A message that reaches an instance reaches its members (`Forwarded`)
  although departed members, whose `Listen` still runs, stand in the way; a chat is
  read back or reported as failed (`ChatAnswered`) although `Publish`, `Room.Start` and
  `Listen` meet on one channel; a departure removes row and member (`LeaveSettles`).
- **Paging.** Forwards, a client receives everything that was visible when it started
  (`ForwardComplete`), whatever is inserted or commits meanwhile. Backwards it can miss rows that
  carry the same time as one it received, and no others (`BackwardMissesTies`): the query
  compares `(sent, message_id)` but sorts ties the other way round. Repetitions are possible
  only among equal times (`NextIsNew`). Paging ends (`PagingEnds`), except that the
  memory repository answers the cursors of two rows with one time with each other for ever.
- **Room objects.** Where `CreateRoom` succeeded, later calls find its room and make no other
  (`OneRoomWhereCreated`). Elsewhere calls race and make several, and the failure of one evicts
  the object of another; but once no call is busy the object in the cache works
  (`CachedWorks`), evicted objects still hand what they get to their members (`HeardByMembers`),
  and every call returns (`CallsReturn`). A `CreateRoom` that fails at `InsertRoom` leaves a
  subscription in front of a closed channel; nothing is sent there (`NoSendOnClosedRoom`) only
  because nobody learns the ID, which the invariant below makes precise.
- **Names.** A race in the caser does not outlive the calls that were in it: the next word that has
  the caser to itself is in title case (`AloneIsTitled`), thanks to the `Reset` at the start
  of `String`. Calls return (`NamesArrive`).

Why the bounds are enough to be interesting. Two members are the fewest for which one
can be notified while the other joins, leaves, chats, or blocks; an iteration over two
entries has all the cases of `NextNotify` (first, next, last, added meanwhile). Two
instances are the fewest that share a topic. Two chats of one member are the fewest for
which the order of chats can go wrong, and an attempt for the first can be executed behind the second.
`MaxLate = 1` lets any one message be given up, and `MaxCopies = 2` lets it come in time and late; in
`apart`, `MaxCopies = 1` lets it come once, in time or late, also behind the member's departure. In
`live_room` and `together` no attempt is given up. With one chat per member, three message types
are in flight from each. `Talkers` limits who chats, to keep instances small. The
theorems below do away with these bounds for the safety properties they cover, and with the choice of
faults: instances that crash while others go on, and attempts that are executed after a crash, are in
`Refinement` and `Inductive`, not in `apart`.
`PlaceSymmetry`, used in `apart` only, exchanges the two members together with their instances: constants and
placement treat them alike, and `RoomIsFeed` is a safety property.
In `pages`, three rows are the fewest
for which a page ends among rows with equal times after others were read, and leaves one over;
three clock readings allow a row before, at and
after the time of a cursor. `DefaultLimit = 100` is never reached by three rows, so that 0 means
everything. The
theorems below hold for any number of rows.
In `rooms`, three calls are the fewest for which two race and a third comes later and meets what
they left, or for which a creator meets two others; one message is enough to find a closed channel
or a member that is left out. In `names`, three
goroutines allow a race of two and a third that enters after one of them has left.
In `queues`, three settings share the work, so that the combinations stay within reach:
`LateAttempts` has one sender with two messages and one retry each, for two subscriptions of its room
whose connections hold, so that the first message can be executed before, between and after the
attempts for the second; `BrokenLinks` has two rooms, three messages and one break in the first room, so
that a subscription gets messages before and after the break; `InMemory` has two senders with two
messages each for two rooms. The channel holds one message instead of 100, and four places of the log
are enough to have one in each of socket, channel, funnel and relay. `MaxRetries` is 1 (go-redis:
3), a second retry being no different from the first. Redis may leave anything unexecuted, so a
log that is full (`MaxLog`) hides nothing. In the `RoomView` half of `pages`, three
members are one that the client had heard of, one that writes while the map is ranged over, and one more writer.

## Fairness

`FairSpec` assumes weak fairness of every goroutine of the server: the Go scheduler runs
every goroutine that can proceed, and calls to Postgres and Redis return, with an
answer or an error. It assumes nothing of clients (they need not chat or close their
connection), of crashes, deadlines or faults, and of the outcome of a `select`. A
`WriteMessage` is fair except to the clients in `Stalled`: the code sets no write
deadline on a hijacked connection.

Weak fairness suffices because a goroutine that blocks at a channel stays blocked, and
its partner, once there, stays there too. `Close` is not fair: `LeaveSettles` and
`Forwarded` speak of what happens after it.

In `pages` the only fair action is the client's next request: the property is about a client
that goes on asking. In `rooms` the steps of every call are fair (repository and queue calls
return, one way or the other), and so are `Room.Start` and the funnels; no call need be made.
In `queues` clients time out, goroutines that can proceed do, a lost connection is made again, and
`Room.Start` comes back to `room.inbound`; Redis need not execute anything, and connections need not
stay up. A sender of the memory queue is strongly fair in `Meet`: Go serves those who wait at a
channel first come, first served. In `one_client` the same fairness as elsewhere; contexts may expire and need not.
In `names` a waiting `Lock` is strongly fair, because `sync.Mutex` hands itself over to a goroutine that
has waited for a millisecond; calling is not fair.

## Disagreements

Each is a run that must be violated, on the property that states what the text says.

- `doc_thread_safe`: `room.go:33` says the mutex makes `members` thread-safe.
  `Room.Start` reads and deletes without it (`room.go:99,107,108,112`); overlapping with
  `AddMember` the runtime may stop the process.
- `doc_move_on`: `room.go:147` says that `notifyMember` moves on if the send blocks. It does
  so only when its context ends, and the server's contexts do not: one client that
  stops reading stops the room for everybody on its instance.
- `doc_all_messages`: README.md:159 says that the endpoint returns all historical messages. Going
  backwards in Postgres, rows that carry the same `sent` as the last row of a page and
  a greater `message_id` are never returned (`postgres/message.go:99,103`).
- `doc_caser`: `generator.go:28,37` use the shared caser after `mu` is released, from any
  number of requests; `vendor/golang.org/x/text/cases/cases.go:35-36` says that a caser should not
  be shared between goroutines.

Others the models can reach, without a run of their own:

- README.md:94 says that a message that was stored but not published is deleted. `Publish`
  only logs the error (`controller.go:200-202`).
- README.md:104 says that messages are forwarded to all members. A member that was admitted
  through the cache before the instance had subscribed misses what is published until
  then, and one admitted to a room whose setup fails stays in it without a word.
- README.md:104 also speaks of a single goroutine per room and server. Two concurrent first
  connections to a room that was created elsewhere make two (`GetRoom` in `RoomCache`).
- After a failing `Subscribe` the closing loop closes `inbound` channels on which `Publish` may
  still send `SendFailed` (`SendFailedPanics`, fired in `one_client`); that loop stops only one
  of the two goroutines that receive `stopBroadcast`.
- README.md:93 speaks of "a stream of messages coming from a Room". `memory/queue.go:36` ignores
  `roomID`: a message goes to whichever funnel is free, of any room (`HandOver`).
- README.md:138 speaks of "current Members" in the response of `GetRoom`. A row that `InsertMember`
  committed before it failed, or that `DeleteMember` failed to delete, stays for good
  (`InsertRowFails`, `DeleteRowFails`).
- A member's chats can reach the topic out of order, and again behind its departure, if go-redis gave up
  an attempt that Redis executes later (`ExecuteLate`; `SenderOrder` and `LateOnlyAfterGivingUp` say
  that it takes this). `Publish` cannot tell (`controller.go:200-203`).
- A `ServeRoom` that aborts returns without closing the websocket: the client stays connected to
  nobody (`AbortSettles`; `http/server.go:171-174`).
- A crashed instance leaves the rows of its members in place for good, although README.md:6
  says that users do not persist.

## Proofs

`ChatRoomProofs` proves, for all members, instances, placements, numbers of chats, of messages given up
and of copies, and every combination of `Faults`, `Deadlines` and `Stalled`:

| Theorem | States |
| --- | --- |
| `Inductive` | `Spec => []IInv` |
| `TypeCorrect`, `PersistFirst`, `OrderedBySender` | `TypeOK`, `PersistBeforePublish`, `SenderOrder` are invariants |
| `LeaveIsFinal`, `DeliveredInOrder` | the action properties `LeftIsLast`, `DeliveryOrder` |
| `Refinement` | `Spec => RoomIsFeed` |

Assumptions: members and instances are different things (`SortAssumption`), `NoMember`
is not a member, `Home` places every member on an instance, the bounds are natural
numbers (`HomeAssumption`, `BoundAssumption`, `ChoiceAssumption`, `MaxChatsAssumption`).
Nothing is assumed of finiteness.

The invariant `IInv` (module `ChatRoomInv`) and why each part is there:

- `TypeOK`, `CountInv`: `chats[m]` stays within `MaxChats` only because `Broadcast` offers
  a chat below it, and `Publish` works on chat `chats[m]` only after taking one.
- `GateInv`: before `ServeRoom` has sent on `startBroadcast`, `Broadcast` has read nothing and
  `Publish` has handled nothing. Every argument about the order joined, chats, left
  starts here.
- `StoreInv`: what is about to be published, or was given up and may be published late, is stored, and a
  stored departure means that `Publish` is publishing it or done. From it follow `PersistBeforePublish` and
  `LeftIsLast`.
- `NumberInv`: a stored message is told from the others of its member by its number.
- `OrderInv`, `FreshInv`: `SenderOrder` is not inductive alone; a PUBLISH keeps it because nothing in
  the topic, and nothing given up, is ahead of its member (`NotAhead`), and because what is in the
  topic without having been given up is *behind* what its member publishes next (`Behind`): a call
  of `Publish` that succeeds goes on, and one that is repeated was given up before.
- `RoomInv`: a room knows only residents that `AddMember` added, and the member being
  notified is not also among those left: otherwise it would be handed a message twice.
- `ReaderInv`, `NotifyInv`: for each reader, what it has read, what `Listen` is writing, the
  message its room is distributing and what is still on its way are in this order.
  `DeliveryOrder` is a consequence. That nobody reads its own departure, which the refinement needs, is a
  part of it: `Room.Start` deletes the member before the loop (`Departs`), and a member whose
  departure is stored cannot be added again (`StoreInv`, `GateInv`).

`Inductive` follows from one lemma per part (`TypeInvStep`, `GateStep`, `StoreStep`,
`NumberStep`, `OrderStep`, `FreshStep`, `RoomInvStep`, `ReaderStep`, `NotifyStep`), each with one step per action that
can disturb the part. `Refinement` sorts the actions into those that store
(`StoringStep`), publish (`PublishingStep`), give up or publish late (`LateStep`), write to a
connection (`ReadingStep`), and do none of these (`SilentStep`).

`ChatRoomThreadProofs` proves, about who meets whom on the channels:

| Theorem | States |
| --- | --- |
| `ThreadsInductive` | `Spec => []ThreadInv` |
| `AbortedTakesNoPart`, `SendersAreMet` | `FailedNotServed`, `SendersMeet` are invariants |
| `OnlyFailedSetupPanics` | `PanicNeedsFailedSetup` is an invariant, whatever the faults and deadlines |
| `NoPanicAfterSetup` | `NoSendOnClosed` is an invariant if `Subscribe` does not fail |

`ThreadInv` adds to `IInv` where the goroutines of a member are while `ServeRoom` goes on:

- `AbortInv`: there is no `Publish` before `ListenReady` has returned, an abort leaves it halted, and
  before `ServeRoom` is in the room (`InRoom`) nothing of the member is in the topic or can come late.
  `FailedNotServed`
  follows, with `ReaderInv` for what it has read.
- `HandshakeInv`: each rendezvous of `ServeRoom` finds the other goroutine at its place. `Broadcast`
  and `Publish` are started together, after `ListenReady`; hence `bcast` is `"none"` until then, which is
  needed to know that whoever halts `Publish` does not find a `Broadcast` that is already sending.
- `OutboundInv`: while `Broadcast` reads, `Publish` is in its loop, and comes back to `outbound`. The closing
  loop of a failed `Subscribe` breaks this, so the part speaks of instances whose `Subscribe` has
  not failed (`SetupFailed`), as `SendersMeet` does of the sends of `Broadcast`.
- `HaltInv`: `Publish` handles a departure only when `Broadcast` is over, and of a member in the room
  only the closing loop halts `Publish` before that, after which it is done with the member. Hence
  who finds `Publish` gone at `stopBroadcast` finds `Broadcast` gone too.
- `ClosedInv`: a member's `inbound` is closed by its own aborted call, or by the closing loop. An aborted
  call has no `Publish` that could reply, and its member is not in `Room.members`, so `Room.Start` does not
  send there either; what remains is `PanicNeedsFailedSetup`. The panic after a failed `Subscribe` is
  real ([Disagreements](#disagreements)). The hypotheses of `NoPanicAfterSetup` exclude
  it: no `setup` fault and no deadline of a room, which `Subscribe` shares and which makes it fail too.

`ChatRoomGapProofs` proves, about what reaches a member:

| Theorem | Hypotheses | States |
| --- | --- | --- |
| `GapsInductive` | `NoLoss` | `Spec => [](TailInv /\ GapInv)` |
| `NoGapsBeforeDeadline` | `NoLoss` | up to the deadline of its room, what a member reads has no gaps |
| `NothingIsSkipped` | `NoLoss`, rooms without deadlines | `NoGaps` is an invariant |
| `SilenceFollowsLeave` | `NoLoss` | who has read anything reads nothing behind its own departure |
| `SettledIsCaughtUp` | `NoLoss` | in a settled room, members have read the topic to its end (`CaughtUp`) |
| `DepartedAreForgotten` | `NoLoss` | a settled room has no member that departed (`Forgotten`) |
| `ChatsAreHandled` | `Reliable` | `Publish` puts each chat into the topic or tells its sender (`AnsweredInv`) |
| `ChatsAreAnswered` | `NoLoss`, `Reliable` | in a settled room, members that have read their arrival have read their chats or were told, unless their arrival was given up (`ChatsAnswered`) |
| `AgreementInductive` | none | `Spec => []AgreeInv` |
| `LeaveUnseen` | none | `NothingAfterLeave` is an invariant |
| `OneConversation` | none | up to the deadline of the room, its members read the same conversation (`SameConversation`) |
| `NobodyAhead` | none | between two messages, no member of the room is ahead of another (`NobodyIsAhead`) |

- `TailInv`: what is on its way to a subscribed room is an end of the topic, which adjoins the message the
  room is distributing.
- `GapInv`: what a member got has no gaps, and everything behind it is on its way to its room
  or being distributed to it. `NoGaps` alone is not inductive: a member added in the middle
  of a loop gets nothing of that message, and the invariant has to say that this is no gap because it got
  nothing before, while a member that is waiting in the loop gets it still.
- `AnsweredInv`: `Publish` leaves a chat behind only in the topic or by `SendFailed`.
- `AgreeInv`: a message that Redis loses is lost for the whole room. While a room distributes a message, nobody
  has got a later one, and every member that got anything has got this one or is waiting in the loop;
  whoever was added in the middle of the loop has got nothing before, so what it misses is before its
  own first message. This needs no hypothesis: where messages are lost, `NoGaps` fails, but it fails
  for all members of the room alike.
- `LeftInv`, inductive with `IInv`: once a room distributes a departure, or anybody has got it, the member
  who left takes no part in the room and has got only what came before. `NothingAfterLeave` follows.
  `SilenceFollowsLeave` says more, where nothing is lost: the departure need not have been read.

A room is settled when it runs, is subscribed, its deadline has not passed, and nothing is on its way
to it or in distribution. That such states come is a liveness property (`Forwarded`); what holds in
them is proved here. The hypotheses are those under which the code promises it. `NoLoss` (no `loss` fault): a lost message is a
gap. No deadlines of rooms: when the context of a room is done, `notifyMember` gives up on a member that
does not read and goes on (`NotifyTimeout`). `Reliable` (no `queue` fault): a PUBLISH that fails is
logged, and its chat is not answered (`controller.go:200`).
All other faults are allowed, and attempts that are given up and executed late. Such an attempt is why
`ChatsAreAnswered` excepts a member whose arrival was given up: its "joined" can come behind
its first chats.

TLC has checked `IInv`, `ThreadInv` and `LeftInv` as invariants of instances like those above, `TailInv`, `GapInv` and
`AnsweredInv` and what follows from them of those that satisfy the hypotheses, and all of them of an instance
with two members in one place, `setup`, `repo` and `crash` faults, and a deadline of the room; `AgreeInv`
and `SameConversation` of `together` with `loss`, where both members do miss a message, and with
`loss`, `setup`, `crash` and a deadline of the room.

`MessagePagesProofs` proves for all IDs, times, limits and both repositories:

| Theorem | States |
| --- | --- |
| `PagesInductive` | `Spec => []PageInv` |
| `PagesTypeCorrect`, `ForwardIsComplete`, `BackwardIsNearlyComplete`, `PagesAreNew` | `TypeOK`, `ForwardComplete`, `BackwardMissesTies`, `NextIsNew` are invariants |

`PageInv` says that IDs are unique (`UniqueIds`), that everything received lies on the near side of
the cursor or level with it (`CursorInv`), and that what has not been received lies beyond the
cursor or, backwards, carries the time of something received (`GoalInv`).
Lemma `LastMessage` does the work: the last message of a page separates what the page holds from
what it leaves over. `EmptyPage` says that an empty page means that nothing is left; it needs
that a valid limit of 0 stands for at least one row if there is one. Assumptions: IDs are
integers in the place of ordered UUIDs, limits are integers, `DefaultLimit` is positive.

`RoomCacheProofs` proves for any number of calls and messages:

| Theorem | States |
| --- | --- |
| `CachingInductive` | `Spec => []CachingInv` |
| `CachingTypeCorrect` | `TypeOK` is an invariant |
| `OneRoom`, `CachedRoomWorks`, `FunnelsDoNotPanic` | `OneRoomWhereCreated`, `CachedWorks`, `NoSendOnClosedRoom` are invariants |
| `HearingInductive` | `Spec => [](MemberInv /\ TailInv)` |
| `NobodyIsCutOff` | nobody who has heard anything is in an object that was closed (`NeverCutOff`) |
| `SplitRoomsHearOn` | who has heard a message hears all that follow, unless its object has a deadline (`HearsOn`) |

- `UnknownInv`: before the ID is known, only the creating call is there, and no message. Hence a
  subscription in front of a closed channel gets none: after `CreateRoom` has failed the ID stays
  unknown.
- `ObjectInv`: what each stage of a call has done to its object. In particular an object that is
  both subscribed and closed belongs to a `CreateRoom` that failed.
- `CacheInv`: the object in the cache works, or its call is still busy with it and will evict it
  or finish. It holds although an eviction hits any object, because it only ever empties the cache.
- `CreatedInv`: after `CreateRoom`, no other call is past the cache, so none evicts and none has
  subscribed.
- `MemberInv`: a member is in the object that its call took, and has heard nothing if that object is not
  subscribed. With `ObjectInv` this gives `NeverCutOff`.
- `TailInv`: what is on its way to an object is an end of what was published, which adjoins what each of
  its members has heard. So a room that is split among objects tells all its members the
  same. `RoomCache` loses no messages; `ChatRoom` does.

Assumptions: `Creator` is a call, `NoRoom` is none, `MaxMessages` is a natural number.

`NameGeneratorProofs` proves for any number of goroutines `NamesInductive` (`Spec => []NameInv`),
`NamesTypeCorrect` and `AloneWordsAreTitled`. `AloneInv` says that a goroutine in the caser that has not raced is the
only one there and found it reset; `PartInv` carries that to the part it produced. Assumption:
`Nobody` is no goroutine.

`RoomQueueProofs` proves for any number of senders, subscriptions, rooms, messages, retries and breaks,
any size of the channel, and both queues:

| Theorem | States |
| --- | --- |
| `QueueInductive` | `Spec => []QueueInv` |
| `QueueTypeCorrect`, `SubscriptionsInOrder`, `NothingVanishes`, `LateWereGivenUp` | `TypeOK`, `InOrder`, `Conserved`, `LateOnlyAfterGivingUp` are invariants |
| `PublishedIsAccepted` | what `Publish` published without giving up is in the log when it returns (`ReturnedIsAccepted`) |
| `QueueImplementsTopic` | `Spec => QueueIsTopic` |

- `PipeInv`: `InOrder` taken apart. What the relay holds is before what the funnel holds, that is
  before the channel, that before the socket, each sorted, and everything after what the
  room has. A goroutine moves the first element of one part to the end of the next
  (`FirstOut`, `SortedAppend`), and a new place is behind all of them. `PipeSorted` and `PipeRange`
  put the parts together again.
- `MemoryInv`: the memory queue has nothing in sockets, channels or on the wire, hence `Execute` is
  Redis only, and a place taken by a funnel is behind everything of that subscription.
- `PlaceInv`: `Conserved` with a named subscription instead of a count. Moves inside a subscription
  leave the sum of its parts alone (`Moved`).
- `WireInv`, `LogInv`, `CallInv`: an attempt on the wire is the one that its sender waits for, or was
  given up; nothing in the log is newer than what its sender has sent. So whatever is accepted is the
  sender's last message, or was given up.
- `AnswerInv`: who waits for its first attempt has the answer if and only if the message is in the log. So
  nothing is accepted twice unless it was given up, which is the other half of
  `LateOnlyAfterGivingUp`, and a call that returns has published: exactly once, if it gave up nothing.

`TopicStep` sorts the steps into `Accept` (`Execute`, `HandOver`), `Lose` (`Break`, `Drop`), `Take`
(`Inbound`, which by `PipeInv` takes the oldest) and stutters. Assumptions: the settings have the types
above, and with the memory queue rooms have one subscription each; senders are not subscriptions;
the sizes are natural numbers, `ChanSize` at least 1.

`RoomViewProofs` proves for any number of members and both repositories `ViewInductive`
(`ViewSpec => []ViewInv`), `ViewTypeCorrect`, `GoneIsNotListed` and `PresentAreListed`. `ListedInv` ties
the repository to the member's stage, `AnnouncedInv` says that announcements come after what they
announce, and `HeardInv` that a member whose arrival was heard can be among the uncertain entries of the
loop only if it is leaving, and one whose departure was heard cannot.
Assumption: the repositories are the two there are.

TLC has checked `PageInv`, `CachingInv`, `MemberInv`, `TailInv`, `NameInv`, `QueueInv` and `ViewInv` as
invariants of the instances above too.

## Limits

Only model-checked are the liveness properties, which need fairness and `ENABLED` and are out of the
prover's reach. Some of them have a half that is safety, and that is proved:

| Liveness, checked by TLC | Proved of it |
| --- | --- |
| `ServeReturns`, `AbortSettles` | where the receiver of each send is, and which sends can be left without (`SendersMeet`); an aborted call has halted `Publish` (`FailedNotServed`) |
| `ChatAnswered` | in a settled room, chats have been read or reported as failed (`ChatsAnswered`) |
| `Forwarded` | a settled room has handed over everything (`CaughtUp`) |
| `LeaveSettles` | a settled room has forgotten who departed (`Forgotten`) |
| `Delivered` | nothing vanishes on the way (`Conserved`) |
| `PublishReturns` | what returns without giving up has published (`ReturnedIsAccepted`) |
| `HeardByMembers` | members hear all that follows what they heard (`HearsOn`) |
| `PagingEnds` | pages bring new rows, except among equal times (`NextIsNew`) |
| `CallsReturn`, `NamesArrive` | nothing |

The theorems that carry hypotheses (`NoLoss`, `Reliable`, no `setup` fault, no deadline of a room) say
nothing of the instances with those faults; there `DeliveryOrder`, `SameConversation`, `SendersMeet`, `PanicNeedsFailedSetup`
and the other unconditional theorems still hold. Statements proved but not among the properties of
a run (`CaughtUp`, `Forgotten`, `SameConversation`, `HearsOn` and others) are in the modules of the proofs.

Not modelled, and why:

- rooms in the plural, but for the queue: rooms share the cache map, which `RoomCache` models for one
  ID, and the in-memory map of rooms, which is written by `CreateRoom` and read by calls that know the
  ID, with the same kind of race as the map of members in `RoomView`;
- two rooms with the same ID: an ID is 28 bits of a hash (`room.go:48`), and `CreateRoom` replaces the
  cached room before `InsertRoom` rejects the ID, and then evicts it. `RoomCache` takes IDs to be new;
- the Room objects of the memory repository: `GetRoom` returns the object itself, which still is in
  the cache unless its setup failed;
- an evicted room that is served again by a *later* process: instances do not restart, a restarted
  one is a new instance with an empty cache;
- texts, names, identifiers, JSON, HTTP routing, CORS, health checks, logging: no property is about
  them, and they change no state;
- programs, migrations and tests: wiring (the server has no graceful shutdown), the schema the
  repositories rely on, and code that uses what is modelled.

## Plan

Done, in this order: `ChatRoom` with its abstract `RoomFeed`, `MessagePages`, `RoomCache`,
`NameGenerator`, `RoomQueue` with `TopicQueue`, `RoomView`, each with its theorems. Left:

1. A composition of `RoomCache` and `ChatRoom` that states the split room in so many words.
2. Theorems about what a member reads when messages are lost: that every gap is a message the queue
   lost or a deadline dropped.
