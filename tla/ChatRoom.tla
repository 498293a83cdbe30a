------------------------------ MODULE ChatRoom ------------------------------
(***************************************************************************)
(* One chat room served by several controller instances.                   *)
(*                                                                         *)
(* Every instance ("node") holds one Room object for the room, with the    *)
(* goroutine Room.Start, and a subscription to the room's Redis topic.     *)
(* Every member is one websocket connection with four threads of control:  *)
(* the ServeRoom call that admits it, and the goroutines Member.Listen,    *)
(* Member.Broadcast and Controller.Publish.  They meet on unbuffered Go    *)
(* channels, so a send and its receive are one joint action here.          *)
(*                                                                         *)
(* The members, the message rows and the topic are shared by all nodes.    *)
(***************************************************************************)
EXTENDS RoomMessages, Sequences, FiniteSets

CONSTANTS
    Nodes,      \* controller instances (processes)
    Home,       \* the node each connection is made to
    Talkers,    \* bound: members whose clients send chats at all
    MaxLate,    \* bound: messages of which go-redis gives up an attempt
    MaxCopies,  \* bound: executions of one PUBLISH
    Faults,     \* which faults of the environment can happen
    Deadlines,  \* members and nodes whose context.Context has a deadline
    Stalled,    \* members whose conn.WriteMessage may never return
    NoMember    \* not a member

FaultKinds == {"repo", "queue", "loss", "setup", "crash"}

ASSUME HomeAssumption == Home \in [Members -> Nodes]
ASSUME BoundAssumption == MaxCopies \in Nat /\ MaxLate \in Nat
ASSUME ChoiceAssumption == /\ Faults \subseteq FaultKinds
                          /\ Deadlines \subseteq (Members \cup Nodes)
                          /\ Stalled \subseteq Members
                          /\ Talkers \subseteq Members
ASSUME NoMemberAssumption == NoMember \notin Members
ASSUME SortAssumption == Members \cap Nodes = {}

VARIABLES
    \* threads of a member
    serve,      \* where its ServeRoom call is
    listen,     \* where Member.Listen is
    bcast,      \* where Member.Broadcast is
    pub,        \* where Controller.Publish is
    chats,      \* number of the chat last handed from Broadcast to Publish
    hand,       \* topic index Listen is writing to the connection; 0: SendFailed
    closed,     \* members whose inbound channel is closed
    \* what the client of a member observes
    open,       \* members whose connection is open
    seen,       \* topic indexes written to the connection
    told,       \* chats for which Listen accepted a SendFailed message
    \* a node
    status,     \* up, or why the process is gone
    setup,      \* Subscribe and the room cache
    room,       \* where Room.Start is
    members,    \* Room.members
    sub,        \* topic indexes on their way from Redis to room.inbound
    expired,    \* contexts that are done
    \* Redis and Postgres
    topic,      \* messages in the order Redis executed PUBLISH
    gaveUp,     \* messages of which go-redis gave up an attempt
    row,        \* the member's row
    stored      \* rows of the messages table

envVars   == <<open, expired>>
dbVars    == <<row, stored>>
queueVars == <<topic, sub, gaveUp>>
readVars  == <<listen, hand, seen, told>>
nodeVars  == <<status, setup, room, members>>
vars == <<serve, listen, bcast, pub, chats, hand, closed, open, seen, told,
          status, setup, room, members, sub, expired, topic, gaveUp,
          row, stored>>

Up(m)        == status[Home[m]] = "up"
Residents(n) == {m \in Members : Home[m] = n}
NoIndex      == 0
RoomState == [at : {"recv", "notify", "stop", "done"}, msg : Nat,
              cur : Members \cup {NoMember}, todo : SUBSET Members]
Idle == [at |-> "recv", msg |-> NoIndex, cur |-> NoMember, todo |-> {}]

Init ==
    /\ serve  = [m \in Members |-> "idle"]
    /\ listen = [m \in Members |-> "none"]
    /\ bcast  = [m \in Members |-> "none"]
    /\ pub    = [m \in Members |-> "none"]
    /\ chats  = [m \in Members |-> 0]
    /\ hand   = [m \in Members |-> NoIndex]
    /\ closed = {}
    /\ open   = Members
    /\ seen   = [m \in Members |-> {}]
    /\ told   = [m \in Members |-> {}]
    /\ status = [n \in Nodes |-> "up"]
    /\ setup  = [n \in Nodes |-> "pending"]
    /\ room   = [n \in Nodes |-> Idle]
    /\ members = [n \in Nodes |-> {}]
    /\ sub    = [n \in Nodes |-> {}]
    /\ expired = {}
    /\ topic  = <<>>
    /\ gaveUp = {}
    /\ row    = [m \in Members |-> "none"]
    /\ stored = {}

-----------------------------------------------------------------------------
(* Environment: clients, deadlines, and the death of a process             *)

\* The client closes its connection, or the network does, and the server has
\* read what came before.
Close(m) ==
    /\ m \in open
    /\ open' = open \ {m}
    /\ UNCHANGED <<serve, bcast, pub, chats, closed, expired>>
    /\ UNCHANGED <<readVars, nodeVars, queueVars, dbVars>>

\* The deadline of the context a ServeRoom call or a Room was started with.
Expire(x) ==
    /\ x \in Deadlines \ expired
    /\ expired' = expired \cup {x}
    /\ UNCHANGED <<serve, bcast, pub, chats, closed, open>>
    /\ UNCHANGED <<readVars, nodeVars, queueVars, dbVars>>

\* The process of node n is gone: its goroutines stop where they are, its
\* connections are closed and Redis forgets its subscription.
Die(n, why) ==
    /\ status' = [status EXCEPT ![n] = why]
    /\ open' = open \ Residents(n)
    /\ sub' = [sub EXCEPT ![n] = {}]
    /\ UNCHANGED <<serve, bcast, pub, chats, closed, expired, setup, room, members>>
    /\ UNCHANGED <<topic, gaveUp, readVars, dbVars>>

Crash(n) ==
    /\ "crash" \in Faults
    /\ status[n] = "up"
    /\ Die(n, "crashed")

\* AddMember writes Room.members under mu, Room.Start ranges over it and
\* deletes from it without: the runtime may stop the process with
\* "concurrent map iteration and map write".
MapFault(n) ==
    /\ status[n] = "up"
    /\ room[n].at \in {"notify", "stop"}
    /\ \E m \in Residents(n) : serve[m] = "adding"
    /\ Die(n, "raced")

-----------------------------------------------------------------------------
(* The queue                                                               *)

\* Redis executes a PUBLISH: the message takes the next place in the topic
\* and goes to every subscribed node.  A subscriber may miss it: go-redis
\* reconnects, or drops it after a minute at a full channel of 100.
Accept(msg) ==
    /\ topic' = Append(topic, msg)
    /\ \E missed \in SUBSET Nodes :
         /\ missed = {} \/ "loss" \in Faults
         /\ sub' = [n \in Nodes |->
              IF setup[n] = "ok" /\ status[n] = "up" /\ n \notin missed
              THEN sub[n] \cup {Len(topic) + 1}
              ELSE sub[n]]

\* queue.Publish for member m returns.  Its error is only logged or returned
\* to a caller that logs it.  An attempt may outlive an error, see GiveUp.
QueuePublish(m, msg) ==
    \/ m \notin expired /\ Accept(msg) /\ UNCHANGED gaveUp
    \/ ("queue" \in Faults \/ m \in expired) /\ UNCHANGED queueVars

\* What m's thread is publishing, if it is in a call of queue.Publish.
Publishing(m) ==
    IF serve[m] = "join" THEN {Joined(m)} ELSE
    CASE pub[m] = "publish"     -> {Chat(m, chats[m])}
      [] pub[m] = "publishLeft" -> {Left(m)}
      [] OTHER -> {}

\* The answer to an attempt does not come: go-redis closes the connection, and
\* sends the command again on another or returns the error.
GiveUp(m) ==
    /\ m \notin expired /\ Up(m)
    /\ Publishing(m) # {} /\ Cardinality(gaveUp \cup Publishing(m)) <= MaxLate
    /\ gaveUp' = gaveUp \cup Publishing(m)
    /\ UNCHANGED <<serve, bcast, pub, chats, closed, topic, sub>>
    /\ UNCHANGED <<readVars, nodeVars, dbVars, envVars>>

\* Executions of a PUBLISH, with the one that a call may still bring.
Copies(msg) ==
    Cardinality({i \in DOMAIN topic : topic[i] = msg}) +
    Cardinality({m \in Members : msg \in Publishing(m)})

\* Redis executes an attempt that was given up: at once, after Publish has gone
\* on to the member's next message, or after its process is gone.
ExecuteLate(msg) ==
    /\ msg \in gaveUp /\ Copies(msg) < MaxCopies
    /\ Accept(msg)
    /\ UNCHANGED <<serve, bcast, pub, chats, closed, gaveUp>>
    /\ UNCHANGED <<readVars, nodeVars, dbVars, envVars>>

-----------------------------------------------------------------------------
(* Controller.ServeRoom, from the member's creation on                     *)

\* A database call made for m may fail; it may have been committed all the same.
RepoMayFail(m) == "repo" \in Faults \/ m \in expired

\* The room is in the cache (setup is not "evicted"): NewMember, go Listen.
ServeRoom(m) ==
    /\ serve[m] = "idle" /\ Up(m) /\ m \in open
    /\ setup[Home[m]] # "evicted"
    /\ serve'  = [serve EXCEPT ![m] = "listenReady"]
    /\ listen' = [listen EXCEPT ![m] = "ready"]
    /\ UNCHANGED <<bcast, pub, chats, hand, closed, seen, told>>
    /\ UNCHANGED <<nodeVars, queueVars, dbVars, envVars>>

\* Mutant: "go c.Publish" is left to a later step.
ListenReadyOnly(m) ==
    /\ serve[m] = "listenReady" /\ Up(m)
    /\ serve'  = [serve EXCEPT ![m] = "broadcastReady"]
    /\ listen' = [listen EXCEPT ![m] = "recv"]
    /\ bcast'  = [bcast EXCEPT ![m] = "ready"]
    /\ UNCHANGED <<pub, chats, hand, closed, seen, told>>
    /\ UNCHANGED <<nodeVars, queueVars, dbVars, envVars>>

\* Meet Listen on readyListen; go Publish, go Broadcast.
ListenReady(m) ==
    /\ serve[m] = "listenReady" /\ Up(m)
    /\ serve'  = [serve EXCEPT ![m] = "broadcastReady"]
    /\ listen' = [listen EXCEPT ![m] = "recv"]
    /\ pub'    = [pub EXCEPT ![m] = "select"]
    /\ bcast'  = [bcast EXCEPT ![m] = "ready"]
    /\ UNCHANGED <<chats, hand, closed, seen, told>>
    /\ UNCHANGED <<nodeVars, queueVars, dbVars, envVars>>

ListenTimeout(m) ==
    /\ serve[m] = "listenReady" /\ Up(m) /\ m \in expired
    /\ serve'  = [serve EXCEPT ![m] = "failed"]
    /\ closed' = closed \cup {m}
    /\ UNCHANGED <<bcast, pub, chats>>
    /\ UNCHANGED <<readVars, nodeVars, queueVars, dbVars, envVars>>

\* Mutant: Broadcast does not wait for startBroadcast.
BroadcastUngated(m) ==
    /\ serve[m] = "broadcastReady" /\ Up(m)
    /\ serve' = [serve EXCEPT ![m] = "insert"]
    /\ bcast' = [bcast EXCEPT ![m] = "poll"]
    /\ UNCHANGED <<pub, chats, closed>>
    /\ UNCHANGED <<readVars, nodeVars, queueVars, dbVars, envVars>>

\* Mutant: AddMember comes before InsertMember.
BroadcastReadyAdds(m) ==
    /\ serve[m] = "broadcastReady" /\ Up(m)
    /\ serve' = [serve EXCEPT ![m] = "insert"]
    /\ bcast' = [bcast EXCEPT ![m] = "waitStart"]
    /\ members' = [members EXCEPT ![Home[m]] = @ \cup {m}]
    /\ UNCHANGED <<pub, chats, closed, status, setup, room>>
    /\ UNCHANGED <<readVars, queueVars, dbVars, envVars>>

BroadcastReady(m) ==
    /\ serve[m] = "broadcastReady" /\ Up(m)
    /\ serve' = [serve EXCEPT ![m] = "insert"]
    /\ bcast' = [bcast EXCEPT ![m] = "waitStart"]
    /\ UNCHANGED <<pub, chats, closed>>
    /\ UNCHANGED <<readVars, nodeVars, queueVars, dbVars, envVars>>

BroadcastTimeout(m) ==
    /\ serve[m] = "broadcastReady" /\ Up(m) /\ m \in expired
    /\ serve'  = [serve EXCEPT ![m] = "stop"]
    /\ closed' = closed \cup {m}
    /\ UNCHANGED <<bcast, pub, chats>>
    /\ UNCHANGED <<readVars, nodeVars, queueVars, dbVars, envVars>>

\* InsertMember writes the member's row and its "joined" message in one
\* transaction.
InsertMember(m) ==
    /\ serve[m] = "insert" /\ Up(m)
    /\ m \notin expired
    /\ serve'  = [serve EXCEPT ![m] = "addMember"]
    /\ row'    = [row EXCEPT ![m] = "live"]
    /\ stored' = stored \cup {Joined(m)}
    /\ UNCHANGED <<bcast, pub, chats, closed>>
    /\ UNCHANGED <<readVars, nodeVars, queueVars, envVars>>

\* Mutant: ServeRoom returns the error without StopBroadcast.
InsertMemberFailsFast(m) ==
    /\ serve[m] = "insert" /\ Up(m)
    /\ RepoMayFail(m)
    /\ serve'  = [serve EXCEPT ![m] = "failed"]
    /\ closed' = closed \cup {m}
    /\ UNCHANGED <<bcast, pub, chats>>
    /\ UNCHANGED <<readVars, nodeVars, queueVars, dbVars, envVars>>

\* Mutant: ServeRoom returns the error without CloseInbound.
InsertMemberFailsOpen(m) ==
    /\ serve[m] = "insert" /\ Up(m)
    /\ RepoMayFail(m)
    /\ serve' = [serve EXCEPT ![m] = "stop"]
    /\ UNCHANGED <<bcast, pub, chats, closed>>
    /\ UNCHANGED <<readVars, nodeVars, queueVars, dbVars, envVars>>

InsertMemberFails(m) ==
    /\ serve[m] = "insert" /\ Up(m)
    /\ RepoMayFail(m)
    /\ serve'  = [serve EXCEPT ![m] = "stop"]
    /\ closed' = closed \cup {m}
    /\ \/ UNCHANGED dbVars
       \/ /\ "repo" \in Faults
          /\ row'    = [row EXCEPT ![m] = "live"]
          /\ stored' = stored \cup {Joined(m)}
    /\ UNCHANGED <<bcast, pub, chats>>
    /\ UNCHANGED <<readVars, nodeVars, queueVars, envVars>>

\* StopBroadcast on the way out: only Publish can be receiving.
ServeStops(m) ==
    /\ serve[m] = "stop" /\ Up(m)
    /\ pub[m] = "select"
    /\ serve' = [serve EXCEPT ![m] = "failed"]
    /\ pub'   = [pub EXCEPT ![m] = "done"]
    /\ UNCHANGED <<bcast, chats, closed>>
    /\ UNCHANGED <<readVars, nodeVars, queueVars, dbVars, envVars>>

\* AddMember: lock mu and start the map write ...
BeginAddMember(m) ==
    /\ serve[m] = "addMember" /\ Up(m)
    /\ \A other \in Residents(Home[m]) : serve[other] # "adding"
    /\ serve' = [serve EXCEPT ![m] = "adding"]
    /\ UNCHANGED <<bcast, pub, chats, closed>>
    /\ UNCHANGED <<readVars, nodeVars, queueVars, dbVars, envVars>>

\* ... and finish it.  An entry added while Room.Start ranges over the map
\* may or may not be produced by that iteration.
EndAddMember(m) ==
    LET n == Home[m] IN
    /\ serve[m] = "adding" /\ Up(m)
    /\ serve'   = [serve EXCEPT ![m] = "join"]
    /\ members' = [members EXCEPT ![n] = @ \cup {m}]
    /\ \/ UNCHANGED room
       \/ /\ room[n].at \in {"notify", "stop"}
          /\ room' = [room EXCEPT ![n].todo = @ \cup {m}]
    /\ UNCHANGED <<bcast, pub, chats, closed, status, setup>>
    /\ UNCHANGED <<readVars, queueVars, dbVars, envVars>>

PublishJoined(m) ==
    /\ serve[m] = "join" /\ Up(m)
    /\ QueuePublish(m, Joined(m))
    /\ serve' = [serve EXCEPT ![m] = "start"]
    /\ UNCHANGED <<bcast, pub, chats, closed>>
    /\ UNCHANGED <<readVars, nodeVars, dbVars, envVars>>

\* The deferred send on startBroadcast: ServeRoom returns.
StartBroadcast(m) ==
    /\ serve[m] = "start" /\ Up(m)
    /\ bcast[m] = "waitStart"
    /\ serve' = [serve EXCEPT ![m] = "served"]
    /\ bcast' = [bcast EXCEPT ![m] = "poll"]
    /\ UNCHANGED <<pub, chats, closed>>
    /\ UNCHANGED <<readVars, nodeVars, queueVars, dbVars, envVars>>

-----------------------------------------------------------------------------
(* Member.Listen                                                           *)

\* conn.WriteMessage returns.  Its error is logged and the loop goes on, so
\* a write to a connection the client closed is the same step.
WriteMessage(m) ==
    /\ listen[m] = "write" /\ Up(m)
    /\ listen' = [listen EXCEPT ![m] = "recv"]
    /\ seen'   = [seen EXCEPT ![m] = @ \cup ({hand[m]} \ {NoIndex})]
    /\ hand'   = [hand EXCEPT ![m] = NoIndex]
    /\ UNCHANGED <<serve, bcast, pub, chats, closed, told>>
    /\ UNCHANGED <<nodeVars, queueVars, dbVars, envVars>>

ListenClosed(m) ==
    /\ listen[m] = "recv" /\ Up(m) /\ m \in closed
    /\ listen' = [listen EXCEPT ![m] = "done"]
    /\ UNCHANGED <<serve, bcast, pub, chats, hand, closed, seen, told>>
    /\ UNCHANGED <<nodeVars, queueVars, dbVars, envVars>>

\* Listen receives from member.inbound: a message of the topic, or SendFailed.
HandTo(m, i) ==
    /\ listen[m] = "recv"
    /\ listen' = [listen EXCEPT ![m] = "write"]
    /\ hand'   = [hand EXCEPT ![m] = i]

-----------------------------------------------------------------------------
(* Member.Broadcast                                                        *)

\* Some goroutine is blocked sending to m.stopBroadcast.
StopPending(m) ==
    \/ serve[m] = "stop"
    \/ room[Home[m]].at = "stop" /\ room[Home[m]].cur = m

\* select with a default: the default only if nobody is sending.
Poll(m) ==
    /\ bcast[m] = "poll" /\ Up(m)
    /\ ~StopPending(m)
    /\ bcast' = [bcast EXCEPT ![m] = "read"]
    /\ UNCHANGED <<serve, pub, chats, closed>>
    /\ UNCHANGED <<readVars, nodeVars, queueVars, dbVars, envVars>>

\* conn.ReadBytes returns a chat the client sent; Broadcast blocks on outbound.
ReadChat(m) ==
    /\ bcast[m] = "read" /\ Up(m)
    /\ m \in open /\ m \in Talkers /\ chats[m] < MaxChats
    /\ bcast' = [bcast EXCEPT ![m] = "sendChat"]
    /\ UNCHANGED <<serve, pub, chats, closed>>
    /\ UNCHANGED <<readVars, nodeVars, queueVars, dbVars, envVars>>

\* conn.ReadBytes fails: the connection is closed.
ReadError(m) ==
    /\ bcast[m] = "read" /\ Up(m)
    /\ m \notin open
    /\ bcast' = [bcast EXCEPT ![m] = "sendLeft"]
    /\ UNCHANGED <<serve, pub, chats, closed>>
    /\ UNCHANGED <<readVars, nodeVars, queueVars, dbVars, envVars>>

-----------------------------------------------------------------------------
(* Controller.Publish                                                      *)

\* Publish receives from member.outbound.
TakeChat(m) ==
    /\ pub[m] = "select" /\ bcast[m] = "sendChat" /\ Up(m)
    /\ pub'   = [pub EXCEPT ![m] = "insert"]
    /\ bcast' = [bcast EXCEPT ![m] = "poll"]
    /\ chats' = [chats EXCEPT ![m] = @ + 1]
    /\ UNCHANGED <<serve, closed>>
    /\ UNCHANGED <<readVars, nodeVars, queueVars, dbVars, envVars>>

\* Mutant: Publish has no case for MemberLeft.
TakeLeftAsChat(m) ==
    /\ pub[m] = "select" /\ bcast[m] = "sendLeft" /\ Up(m)
    /\ pub'   = [pub EXCEPT ![m] = "insert"]
    /\ bcast' = [bcast EXCEPT ![m] = "done"]
    /\ chats' = [chats EXCEPT ![m] = @ + 1]
    /\ UNCHANGED <<serve, closed>>
    /\ UNCHANGED <<readVars, nodeVars, queueVars, dbVars, envVars>>

TakeLeft(m) ==
    /\ pub[m] = "select" /\ bcast[m] = "sendLeft" /\ Up(m)
    /\ pub'   = [pub EXCEPT ![m] = "delete"]
    /\ bcast' = [bcast EXCEPT ![m] = "done"]
    /\ UNCHANGED <<serve, chats, closed>>
    /\ UNCHANGED <<readVars, nodeVars, queueVars, dbVars, envVars>>

InsertMessage(m) ==
    /\ pub[m] = "insert" /\ Up(m)
    /\ m \notin expired
    /\ pub'    = [pub EXCEPT ![m] = "publish"]
    /\ stored' = stored \cup {Chat(m, chats[m])}
    /\ UNCHANGED <<serve, bcast, chats, closed, row>>
    /\ UNCHANGED <<readVars, nodeVars, queueVars, envVars>>

\* Mutants: an error of InsertMessage is logged, and Publish goes on ...
InsertMessageFailsOn(m) ==
    /\ pub[m] = "insert" /\ Up(m)
    /\ RepoMayFail(m)
    /\ pub' = [pub EXCEPT ![m] = "publish"]
    /\ UNCHANGED <<serve, bcast, chats, closed>>
    /\ UNCHANGED <<readVars, nodeVars, queueVars, dbVars, envVars>>

\* ... or drops the message without a word to its sender.
InsertMessageFailsQuietly(m) ==
    /\ pub[m] = "insert" /\ Up(m)
    /\ RepoMayFail(m)
    /\ pub' = [pub EXCEPT ![m] = "select"]
    /\ UNCHANGED <<serve, bcast, chats, closed>>
    /\ UNCHANGED <<readVars, nodeVars, queueVars, dbVars, envVars>>

InsertMessageFails(m) ==
    /\ pub[m] = "insert" /\ Up(m)
    /\ RepoMayFail(m)
    /\ pub' = [pub EXCEPT ![m] = "reply"]
    /\ \/ UNCHANGED stored
       \/ "repo" \in Faults /\ stored' = stored \cup {Chat(m, chats[m])}
    /\ UNCHANGED <<serve, bcast, chats, closed, row>>
    /\ UNCHANGED <<readVars, nodeVars, queueVars, envVars>>

PublishChat(m) ==
    /\ pub[m] = "publish" /\ Up(m)
    /\ QueuePublish(m, Chat(m, chats[m]))
    /\ pub' = [pub EXCEPT ![m] = "select"]
    /\ UNCHANGED <<serve, bcast, chats, closed>>
    /\ UNCHANGED <<readVars, nodeVars, dbVars, envVars>>

\* member.inbound <- NewSendFailedMessage(*member)
SendFailed(m) ==
    /\ pub[m] = "reply" /\ Up(m) /\ m \notin closed
    /\ HandTo(m, NoIndex)
    /\ told' = [told EXCEPT ![m] = @ \cup {chats[m]}]
    /\ pub'  = [pub EXCEPT ![m] = "select"]
    /\ UNCHANGED <<serve, bcast, chats, closed, seen>>
    /\ UNCHANGED <<nodeVars, queueVars, dbVars, envVars>>

\* A send on a closed channel panics, and takes the process down.
SendFailedPanics(m) ==
    /\ pub[m] = "reply" /\ Up(m) /\ m \in closed
    /\ Die(Home[m], "panicked")

\* Mutant: Publish returns without publishing the departure.
DeleteMemberOnly(m) ==
    /\ pub[m] = "delete" /\ Up(m)
    /\ m \notin expired
    /\ pub'    = [pub EXCEPT ![m] = "done"]
    /\ row'    = [row EXCEPT ![m] = "deleted"]
    /\ stored' = stored \cup {Left(m)}
    /\ UNCHANGED <<serve, bcast, chats, closed>>
    /\ UNCHANGED <<readVars, nodeVars, queueVars, envVars>>

DeleteMember(m) ==
    /\ pub[m] = "delete" /\ Up(m)
    /\ m \notin expired
    /\ pub'    = [pub EXCEPT ![m] = "publishLeft"]
    /\ row'    = [row EXCEPT ![m] = "deleted"]
    /\ stored' = stored \cup {Left(m)}
    /\ UNCHANGED <<serve, bcast, chats, closed>>
    /\ UNCHANGED <<readVars, nodeVars, queueVars, envVars>>

DeleteMemberFails(m) ==
    /\ pub[m] = "delete" /\ Up(m)
    /\ RepoMayFail(m)
    /\ pub' = [pub EXCEPT ![m] = "done"]
    /\ \/ UNCHANGED dbVars
       \/ /\ "repo" \in Faults
          /\ row'    = [row EXCEPT ![m] = "deleted"]
          /\ stored' = stored \cup {Left(m)}
    /\ UNCHANGED <<serve, bcast, chats, closed>>
    /\ UNCHANGED <<readVars, nodeVars, queueVars, envVars>>

PublishLeft(m) ==
    /\ pub[m] = "publishLeft" /\ Up(m)
    /\ QueuePublish(m, Left(m))
    /\ pub' = [pub EXCEPT ![m] = "done"]
    /\ UNCHANGED <<serve, bcast, chats, closed>>
    /\ UNCHANGED <<readVars, nodeVars, dbVars, envVars>>

-----------------------------------------------------------------------------
(* Setting the room up on a node: Subscribe and the cache.  It is done by  *)
(* the first connection's ServeRoom call (or CreateRoom), which may be one *)
(* of a connection outside Members: from addRoomToCache on, other calls    *)
(* find the room in the cache and do not wait.                             *)

Subscribe(n) ==
    /\ setup[n] = "pending" /\ status[n] = "up"
    /\ n \notin expired
    /\ setup' = [setup EXCEPT ![n] = "ok"]
    /\ UNCHANGED <<serve, bcast, pub, chats, closed, status, room, members>>
    /\ UNCHANGED <<readVars, queueVars, dbVars, envVars>>

\* Subscribe fails: room.CloseInbound() ...
SubscribeFails(n) ==
    /\ setup[n] = "pending" /\ status[n] = "up"
    /\ "setup" \in Faults \/ n \in expired
    /\ setup' = [setup EXCEPT ![n] = "closed"]
    /\ UNCHANGED <<serve, bcast, pub, chats, closed, status, room, members>>
    /\ UNCHANGED <<readVars, queueVars, dbVars, envVars>>

\* ... then deleteRoomFromCache.
Evict(n) ==
    /\ setup[n] = "closed" /\ status[n] = "up"
    /\ setup' = [setup EXCEPT ![n] = "evicted"]
    /\ UNCHANGED <<serve, bcast, pub, chats, closed, status, room, members>>
    /\ UNCHANGED <<readVars, queueVars, dbVars, envVars>>

-----------------------------------------------------------------------------
(* Room.Start                                                              *)

\* Range over the map: produce one of the entries left, or end the loop.
\* notifyMember(m, i) blocks until the one Listen it has chosen receives.
NextNotify(n, i, rest) ==
    \/ rest = {} /\ room' = [room EXCEPT ![n] = Idle]
    \/ \E m \in rest :
         room' = [room EXCEPT ![n] =
                    [at |-> "notify", msg |-> i, cur |-> m, todo |-> rest \ {m}]]

\* Mutant: one goroutine per message.
AnyInFlight(n, i) == i \in sub[n]

\* The funnel goroutines keep the order of the subscription.
IsNext(n, i) == i \in sub[n] /\ \A j \in sub[n] : i <= j

\* Mutant: the map entry stays until the loop is over.
NobodyDeparts(i) == {}

\* Whom Room.Start removes before it notifies of message i.
Departs(i) == IF topic[i].type = "left" THEN {topic[i].member} ELSE {}

\* A message from the funnel: the oldest that is still on its way.
Receive(n) ==
    /\ room[n].at = "recv" /\ status[n] = "up"
    /\ setup[n] = "ok"
    /\ \E i \in sub[n] :
         /\ IsNext(n, i)
         /\ sub' = [sub EXCEPT ![n] = @ \ {i}]
         /\ members' = [members EXCEPT ![n] = @ \ Departs(i)]
         /\ NextNotify(n, i, members'[n])
    /\ UNCHANGED <<serve, bcast, pub, chats, closed, status, setup, topic, gaveUp>>
    /\ UNCHANGED <<readVars, dbVars, envVars>>

\* Mutant: notifyMember moves on at once if Listen is busy.
NotifyOrSkip(n) ==
    /\ room[n].at = "notify" /\ status[n] = "up"
    /\ IF listen[room[n].cur] = "recv"
       THEN HandTo(room[n].cur, room[n].msg)
       ELSE UNCHANGED <<listen, hand>>
    /\ NextNotify(n, room[n].msg, room[n].todo)
    /\ UNCHANGED <<serve, bcast, pub, chats, closed, seen, told, status, setup, members>>
    /\ UNCHANGED <<queueVars, dbVars, envVars>>

Notify(n) ==
    /\ room[n].at = "notify" /\ status[n] = "up"
    /\ room[n].cur \notin closed
    /\ HandTo(room[n].cur, room[n].msg)
    /\ NextNotify(n, room[n].msg, room[n].todo)
    /\ UNCHANGED <<serve, bcast, pub, chats, closed, seen, told, status, setup, members>>
    /\ UNCHANGED <<queueVars, dbVars, envVars>>

\* Mutant: a message that timed out for a member is tried again after the next.
NotifyTimeoutRequeues(n) ==
    /\ room[n].at = "notify" /\ status[n] = "up"
    /\ n \in expired
    /\ \E i \in sub[n] :
         /\ IsNext(n, i)
         /\ sub' = [sub EXCEPT ![n] = (@ \ {i}) \cup {room[n].msg}]
         /\ room' = [room EXCEPT ![n].msg = i]
    /\ UNCHANGED <<serve, bcast, pub, chats, closed, status, setup, members>>
    /\ UNCHANGED <<topic, gaveUp, readVars, dbVars, envVars>>

NotifyTimeout(n) ==
    /\ room[n].at = "notify" /\ status[n] = "up"
    /\ n \in expired
    /\ NextNotify(n, room[n].msg, room[n].todo)
    /\ UNCHANGED <<serve, bcast, pub, chats, closed, status, setup, members>>
    /\ UNCHANGED <<readVars, queueVars, dbVars, envVars>>

\* The closing loop: close the inbound channel of the next member, then
\* block sending to its stopBroadcast.
NextStop(n, rest) ==
    \/ /\ rest = {}
       /\ room' = [room EXCEPT ![n] = [Idle EXCEPT !.at = "done"]]
       /\ UNCHANGED closed
    \/ \E m \in rest :
         /\ closed' = closed \cup {m}
         /\ room' = [room EXCEPT ![n] =
              [at |-> "stop", msg |-> NoIndex, cur |-> m, todo |-> rest \ {m}]]

ReceiveClosed(n) ==
    /\ room[n].at = "recv" /\ status[n] = "up"
    /\ setup[n] \in {"closed", "evicted"}
    /\ NextStop(n, members[n])
    /\ UNCHANGED <<serve, bcast, pub, chats, status, setup, members>>
    /\ UNCHANGED <<readVars, queueVars, dbVars, envVars>>

\* StopBroadcast meets whichever of the two goroutines gets there first.
StopMember(n) ==
    /\ room[n].at = "stop" /\ status[n] = "up"
    /\ LET m == room[n].cur IN
       \/ /\ pub[m] = "select"
          /\ pub' = [pub EXCEPT ![m] = "done"]
          /\ UNCHANGED bcast
       \/ /\ bcast[m] = "poll"
          /\ bcast' = [bcast EXCEPT ![m] = "done"]
          /\ UNCHANGED pub
    /\ NextStop(n, room[n].todo)
    /\ UNCHANGED <<serve, chats, status, setup, members>>
    /\ UNCHANGED <<readVars, queueVars, dbVars, envVars>>

-----------------------------------------------------------------------------
ServeStep(m) ==
    \/ ListenReady(m) \/ ListenTimeout(m)
    \/ BroadcastReady(m) \/ BroadcastTimeout(m)
    \/ InsertMember(m) \/ InsertMemberFails(m) \/ ServeStops(m)
    \/ BeginAddMember(m) \/ EndAddMember(m)
    \/ PublishJoined(m) \/ StartBroadcast(m)

ListenStep(m)    == WriteMessage(m) \/ ListenClosed(m)
BroadcastStep(m) == Poll(m) \/ ReadError(m)
PublishStep(m) ==
    \/ TakeChat(m) \/ TakeLeft(m)
    \/ InsertMessage(m) \/ InsertMessageFails(m) \/ PublishChat(m)
    \/ SendFailed(m) \/ SendFailedPanics(m)
    \/ DeleteMember(m) \/ DeleteMemberFails(m) \/ PublishLeft(m)

SetupStep(n) == Subscribe(n) \/ SubscribeFails(n) \/ Evict(n)
RoomStep(n) ==
    \/ Receive(n) \/ Notify(n) \/ NotifyTimeout(n)
    \/ ReceiveClosed(n) \/ StopMember(n)

Next ==
    \/ \E m \in Members :
         \/ ServeRoom(m) \/ ServeStep(m) \/ ListenStep(m) \/ BroadcastStep(m)
         \/ PublishStep(m) \/ GiveUp(m)
         \/ ReadChat(m) \/ Close(m)
    \/ \E n \in Nodes :
         SetupStep(n) \/ RoomStep(n) \/ Crash(n) \/ MapFault(n)
    \/ \E x \in Deadlines : Expire(x)
    \/ \E msg \in gaveUp : ExecuteLate(msg)

Spec == Init /\ [][Next]_vars

\* The Go scheduler runs every goroutine that can proceed, and calls to
\* Postgres and Redis return.  Nothing is assumed of clients, of crashes, of
\* deadlines, or of a WriteMessage to a client in Stalled.
Fairness ==
    /\ \A m \in Members :
         /\ WF_vars(ServeStep(m))
         /\ WF_vars(BroadcastStep(m))
         /\ WF_vars(PublishStep(m))
         /\ WF_vars(ListenClosed(m))
    /\ \A m \in Members \ Stalled : WF_vars(WriteMessage(m))
    /\ \A n \in Nodes : WF_vars(SetupStep(n)) /\ WF_vars(RoomStep(n))

FairSpec == Spec /\ Fairness

-----------------------------------------------------------------------------
(* Safety                                                                  *)

\* Types of the variables.
TypeOK ==
    /\ serve \in [Members -> {"idle", "listenReady", "broadcastReady", "insert",
                              "addMember", "adding", "join", "start", "served",
                              "stop", "failed"}]
    /\ listen \in [Members -> {"none", "ready", "recv", "write", "done"}]
    /\ bcast \in [Members -> {"none", "ready", "waitStart", "poll", "read",
                              "sendChat", "sendLeft", "done"}]
    /\ pub \in [Members -> {"none", "select", "insert", "reply", "publish",
                            "delete", "publishLeft", "done"}]
    /\ chats \in [Members -> 0 .. MaxChats]
    /\ hand \in [Members -> Nat]
    /\ closed \subseteq Members
    /\ open \subseteq Members
    /\ seen \in [Members -> SUBSET Nat]
    /\ told \in [Members -> SUBSET (1 .. MaxChats)]
    /\ status \in [Nodes -> {"up", "crashed", "raced", "panicked"}]
    /\ setup \in [Nodes -> {"pending", "ok", "closed", "evicted"}]
    /\ room \in [Nodes -> RoomState]
    /\ members \in [Nodes -> SUBSET Members]
    /\ sub \in [Nodes -> SUBSET Nat]
    /\ expired \subseteq Members \cup Nodes
    /\ topic \in Seq(Message)
    /\ gaveUp \subseteq Message
    /\ row \in [Members -> {"none", "live", "deleted"}]
    /\ stored \subseteq Message

\* README.md:94: "messages are always written to the Repository before being
\* published to the Queue".
PersistBeforePublish == \A i \in DOMAIN topic : topic[i] \in stored

\* The topic holds each member's messages in the order the member produced
\* them (joined, chats as sent, left) and each of them once.  Only a message of
\* which go-redis gave up an attempt can come late or again.
SenderOrder ==
    \A i, j \in DOMAIN topic :
        i < j /\ topic[i].member = topic[j].member /\ topic[i].n >= topic[j].n =>
            topic[j] \in gaveUp

\* A member's departure is the last it could hear of: it never reads it, and
\* once anybody in its room has, it reads nothing behind it.
NothingAfterLeave ==
    \A m, o \in Members : Home[m] = Home[o] =>
        \A i \in seen[m], j \in seen[o] : topic[j] = Left(m) => i < j

\* Without lost messages, a member reads the topic without gaps from its
\* first message to its last: joining while the room is being notified, and
\* slow or departing neighbours, skip nothing.
NoGaps ==
    \A m \in Members : \A i, k \in seen[m] : \A j \in i .. k : j \in seen[m]

\* No goroutine stands at a send on a closed inbound channel.
NoSendOnClosed ==
    /\ \A n \in Nodes : room[n].at = "notify" => room[n].cur \notin closed
    /\ \A m \in Members : pub[m] = "reply" => m \notin closed

\* Who stands at a send to another goroutine of its process, and for whom.
\* Four sends may last for good: that of Listen and that of Broadcast at a
\* handshake whose ServeRoom call was aborted; after a failed Subscribe, that of
\* Broadcast at outbound if the closing loop has halted its Publish, and that of
\* the closing loop at stopBroadcast if Publish and Broadcast had both ended.
SendersMeet ==
    /\ \A m \in Members :
        \* readyListen, readyBroadcast
        /\ listen[m] = "ready" => serve[m] \in {"listenReady", "failed"}
        /\ bcast[m] = "ready" => serve[m] \in {"broadcastReady", "stop", "failed"}
        \* startBroadcast; stopBroadcast of an aborted call
        /\ serve[m] = "start" => bcast[m] = "waitStart"
        /\ serve[m] = "stop" => pub[m] = "select"
        \* inbound, if it is open: Listen is there or comes back to it
        /\ pub[m] = "reply" /\ m \notin closed => listen[m] \in {"recv", "write"}
        \* outbound: Publish is there or comes back to it
        /\ bcast[m] \in {"sendChat", "sendLeft"} =>
             \/ pub[m] \in {"select", "insert", "reply", "publish"}
             \/ pub[m] = "done" /\ setup[Home[m]] \notin {"pending", "ok"}
    /\ \A n \in Nodes :
        /\ room[n].at = "notify" => listen[room[n].cur] \in {"recv", "write"}
        \* stopBroadcast of the closing loop
        /\ room[n].at = "stop" /\ pub[room[n].cur] = "done" => bcast[room[n].cur] = "done"

\* controller.go:113: a ServeRoom call that gives up has halted its Publish
\* goroutine, and its member takes no part in the room.
FailedNotServed ==
    \A m \in Members : serve[m] = "failed" =>
        /\ pub[m] \in {"none", "done"}
        /\ m \notin members[Home[m]] /\ seen[m] = {}
        /\ \A i \in DOMAIN topic : topic[i].member # m

\* What Listen takes to write to a connection comes strictly in topic order: never
\* twice, never an older message after a newer one.
DeliveryOrder ==
    [][\A m \in Members : hand'[m] \notin {hand[m], NoIndex} =>
         \A i \in seen[m] : i < hand'[m]]_vars

\* Once a member's departure is stored, nothing more of that member is.
LeftIsLast ==
    [][\A m \in Members : Left(m) \in stored =>
         \A msg \in stored' \ stored : msg.member # m]_vars

\* The room implements the feed of RoomFeed.
Feed == INSTANCE RoomFeed WITH store <- stored, feed <- topic, late <- gaveUp, read <- seen
RoomIsFeed == Feed!Spec

-----------------------------------------------------------------------------
(* Liveness                                                                *)

Down(n) == status[n] # "up"

\* ServeRoom returns, also on the paths that abort it: StopBroadcast finds a
\* receiver, and the deferred send on startBroadcast does.
ServeReturns ==
    \A m \in Members :
        serve[m] = "listenReady" ~>
            serve[m] \in {"served", "failed"} \/ Down(Home[m])

\* An aborted ServeRoom call leaves nothing running: Publish and Listen end,
\* and Broadcast stands at a handshake it never gets past, so that the client
\* is not read.  (Before ListenReady, only Listen was there; it stays at its
\* own handshake.)
AbortSettles ==
    \A m \in Members :
        serve[m] = "stop" ~>
            \/ /\ serve[m] = "failed" /\ pub[m] = "done" /\ listen[m] = "done"
               /\ bcast[m] \in {"ready", "waitStart"}
            \/ Down(Home[m])

\* README.md:104: "Messages posted to a Room are forwarded to all Members of
\* that Room": what reaches a node's subscription is written to every member
\* the room then has, unless the member leaves or the room's deadline passes
\* first.
Forwarded ==
    \A m \in Members : \A i \in 1 .. 2 * Cardinality(Members) + MaxChats * Cardinality(Talkers) :
        (i \in sub[Home[m]] /\ m \in members[Home[m]]) ~>
            \/ i \in seen[m] \/ m \notin members[Home[m]]
            \/ Home[m] \in expired \/ Down(Home[m])

\* A client learns the fate of each chat it sent once its node is
\* subscribed: it reads the chat in the room, or is told that it failed,
\* unless the deadline of its connection's context or of the room's passes.
ChatAnswered ==
    \A m \in Members : \A k \in 1 .. MaxChats :
        (pub[m] = "insert" /\ chats[m] = k /\ setup[Home[m]] = "ok") ~>
            \/ \E i \in seen[m] : topic[i] = Chat(m, k)
            \/ k \in told[m]
            \/ {m, Home[m]} \cap expired # {} \/ Down(Home[m])

\* Once a client is gone, its member's row is deleted and its node's room
\* forgets it.
LeaveSettles ==
    \A m \in Members :
        (m \notin open /\ row[m] = "live" /\ serve[m] = "served" /\ setup[Home[m]] = "ok") ~>
            (row[m] = "deleted" /\ m \notin members[Home[m]]) \/ Down(Home[m])

-----------------------------------------------------------------------------
(* What the documentation says and the code does not do                    *)

\* room.go:33: the mutex makes Room.members thread-safe.
MembersThreadSafe == \A n \in Nodes : status[n] # "raced"

\* room.go:147: "if the send blocks, log it and move on": Room.Start comes back
\* from every message.  It does unless a WriteMessage blocks for ever, also
\* when the members it notifies are gone and could not be deleted.
NotifyMovesOn ==
    \A n \in Nodes : room[n].at = "notify" ~> room[n].at = "recv" \/ Down(n)

=============================================================================
