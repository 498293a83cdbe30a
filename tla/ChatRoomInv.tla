----------------------------- MODULE ChatRoomInv -----------------------------
(***************************************************************************)
(* The inductive invariant of ChatRoom, in parts.  ChatRoomProofs proves   *)
(* it; README.md explains why each part is needed.                         *)
(***************************************************************************)
EXTENDS ChatRoom

\* From AddMember on, a member is in its room.
InRoom == {"join", "start", "served"}

\* Counting: Broadcast offers a chat only below the bound, and Publish works
\* on a chat only after taking one.
CountInv ==
    \A m \in Members :
        /\ bcast[m] = "sendChat" => chats[m] < MaxChats
        /\ pub[m] \in {"insert", "reply", "publish"} => chats[m] >= 1

\* The gate: nothing is read from the connection, and Publish handles
\* nothing, before the deferred send on startBroadcast.
GateInv ==
    \A m \in Members :
        /\ bcast[m] \in {"poll", "read", "sendChat", "sendLeft"} => serve[m] = "served"
        /\ serve[m] # "served" => chats[m] = 0 /\ pub[m] \in {"none", "select", "done"}

\* What is about to be published, or may be published late, is stored; a stored
\* departure is the last thing its member does.
StoreInv ==
    /\ PersistBeforePublish
    /\ gaveUp \subseteq stored
    /\ \A m \in Members :
        /\ serve[m] \in {"addMember", "adding"} \cup InRoom => Joined(m) \in stored
        /\ pub[m] = "publish" => Chat(m, chats[m]) \in stored
        /\ pub[m] = "publishLeft" => Left(m) \in stored
        /\ Left(m) \in stored => serve[m] = "served" /\ pub[m] \in {"publishLeft", "done"}

\* A stored message is known by its member and number.
NumberInv ==
    \A msg \in stored :
        \/ msg = Joined(msg.member) \/ msg = Left(msg.member)
        \/ msg.n \in 1 .. MaxChats /\ msg = Chat(msg.member, msg.n)

\* Nothing in the topic, and nothing that may come late, is ahead of its member.
Reached(msg) == msg.n <= chats[msg.member] \/ Left(msg.member) \in stored
NotAhead ==
    /\ \A i \in DOMAIN topic : Reached(topic[i])
    /\ \A msg \in gaveUp : Reached(msg)
OrderInv == SenderOrder /\ NotAhead

\* What is in the topic without an attempt having been given up is not what
\* its member is about to publish.
Behind(msg) ==
    LET m == msg.member IN
    /\ serve[m] \in {"start", "served"}
    /\ pub[m] \in {"insert", "publish"} => msg.n < chats[m]
    /\ pub[m] \in {"delete", "publishLeft"} => msg.n <= chats[m]
FreshInv == \A i \in DOMAIN topic : topic[i] \in gaveUp \/ Behind(topic[i])

\* Whom a room knows: its own residents, after they were added.
Attending(n) == members[n] \cup room[n].todo \cup ({room[n].cur} \ {NoMember})
RoomOK(n) ==
    /\ \A m \in Attending(n) : Home[m] = n /\ serve[m] \in InRoom
    /\ room[n].at \in {"notify", "stop"} =>
         room[n].cur \in Members /\ room[n].cur \notin room[n].todo
RoomInv == \A n \in Nodes : RoomOK(n)

\* What member m has read, or Listen is writing to it ...
Got(m) == seen[m] \cup ({hand[m]} \ {NoIndex})

\* ... comes before everything its node still has to deliver.
ReaderOK(m) ==
    /\ serve[m] \notin InRoom => Got(m) = {}
    /\ hand[m] # NoIndex => listen[m] = "write" /\ \A i \in seen[m] : i < hand[m]
    /\ \A i \in Got(m) :
         /\ i \in DOMAIN topic /\ topic[i] # Left(m)
         /\ \A j \in sub[Home[m]] : i < j
ReaderInv == \A m \in Members : ReaderOK(m)

\* The message a room is distributing lies between the two.
NotifyOK(n) ==
    /\ sub[n] \subseteq DOMAIN topic
    /\ room[n].at = "notify" =>
         /\ room[n].msg \in DOMAIN topic
         /\ \A j \in sub[n] : room[n].msg < j
         /\ \A m \in room[n].todo \cup {room[n].cur} :
              /\ topic[room[n].msg] # Left(m)
              /\ \A i \in Got(m) : i < room[n].msg
NotifyInv == \A n \in Nodes : NotifyOK(n)

IInv ==
    /\ TypeOK /\ CountInv
    /\ GateInv /\ StoreInv /\ NumberInv /\ OrderInv /\ FreshInv
    /\ RoomInv /\ ReaderInv /\ NotifyInv

-----------------------------------------------------------------------------
(* Who is there to receive.  ThreadInv is inductive together with IInv.    *)

\* The room's inbound channel was closed because Subscribe failed.
SetupFailed(n) == setup[n] \in {"closed", "evicted"}

\* Before ListenReady there is no Publish, after an abort it is halted, and
\* nothing is published for a member outside the room.
AbortInv ==
    \A m \in Members :
        /\ serve[m] \in {"idle", "listenReady"} => pub[m] = "none"
        /\ serve[m] = "failed" => pub[m] \in {"none", "done"}
        /\ serve[m] \notin InRoom =>
             /\ \A i \in DOMAIN topic : topic[i].member # m
             /\ \A msg \in gaveUp : msg.member # m

\* A member's inbound channel is closed by its aborted ServeRoom call or by
\* the closing loop of a room that failed to subscribe.
ClosedInv ==
    /\ \A n \in Nodes :
        /\ room[n].at = "notify" => setup[n] = "ok"
        /\ room[n].at \in {"stop", "done"} => SetupFailed(n)
        /\ status[n] = "panicked" => SetupFailed(n)
    /\ \A m \in closed :
        serve[m] \in {"stop", "failed"} \/ room[Home[m]].at \in {"stop", "done"}

\* Where Listen, Broadcast and Publish are while ServeRoom goes on.
HandshakeInv ==
    \A m \in Members :
        /\ serve[m] = "listenReady" => listen[m] = "ready"
        /\ listen[m] = "ready" => serve[m] \in {"listenReady", "failed"}
        /\ bcast[m] = "ready" => serve[m] \in {"broadcastReady", "stop", "failed"}
        /\ serve[m] \notin {"idle", "listenReady"} /\ m \notin closed =>
             listen[m] \in {"recv", "write"}
        /\ listen[m] = "done" => m \in closed
        /\ serve[m] \in {"idle", "listenReady"} => bcast[m] = "none"
        /\ serve[m] = "broadcastReady" => bcast[m] = "ready"
        /\ serve[m] \in {"insert", "addMember", "adding", "join", "start"} =>
             bcast[m] = "waitStart"
        /\ serve[m] \in {"stop", "failed"} => bcast[m] \in {"none", "ready", "waitStart"}
        /\ serve[m] \in {"broadcastReady", "insert", "addMember", "adding", "stop"} =>
             pub[m] = "select"

\* Publish outlives Broadcast, unless the closing loop halts one of them.
OutboundInv ==
    \A m \in Members : ~SetupFailed(Home[m]) =>
        /\ serve[m] \in {"join", "start"} => pub[m] = "select"
        /\ bcast[m] \in {"poll", "read", "sendChat", "sendLeft"} =>
             pub[m] \in {"select", "insert", "reply", "publish"}

\* Publish handles the departure when Broadcast is over.  Of a member in the room,
\* only the closing loop halts Publish before, and is then done with it.
HaltInv ==
    \A m \in Members :
        /\ pub[m] \in {"delete", "publishLeft"} => bcast[m] = "done"
        /\ serve[m] \in InRoom => pub[m] # "none"
        /\ serve[m] \in InRoom /\ pub[m] = "done" /\ bcast[m] # "done" =>
             LET r == room[Home[m]] IN
             r.at \in {"stop", "done"} /\ m \notin r.todo \cup {r.cur}

ThreadInv == AbortInv /\ ClosedInv /\ HandshakeInv /\ OutboundInv /\ HaltInv

\* What holds of sends on inbound channels whatever the faults: Room.Start
\* never sends on a closed one, and Publish only, taking the process down,
\* on an instance whose Subscribe failed.
PanicNeedsFailedSetup ==
    /\ \A n \in Nodes :
        /\ room[n].at = "notify" => room[n].cur \notin closed
        /\ status[n] = "panicked" => SetupFailed(n)
    /\ \A m \in Members : pub[m] = "reply" /\ m \in closed => SetupFailed(Home[m])

-----------------------------------------------------------------------------
(* What is still to come.  Without lost messages, GapInv is inductive      *)
(* together with IInv and ThreadInv.                                       *)

\* A running instance that is subscribed.
Hears(n) == setup[n] = "ok" /\ status[n] = "up"

\* Whom a room has yet to notify of the message it is distributing.
Waiting(n) == IF room[n].at = "notify" THEN room[n].todo \cup {room[n].cur} ELSE {}

\* What is on its way to a room is the end of the topic: after the message
\* the room is distributing, if it is distributing one, nothing is missing.
TailOK(n) ==
    /\ setup[n] # "ok" => sub[n] = {}
    /\ Hears(n) =>
        /\ \A i \in sub[n] : i .. Len(topic) \subseteq sub[n]
        /\ room[n].at = "notify" => room[n].msg + 1 .. Len(topic) \subseteq sub[n]
TailInv == \A n \in Nodes : TailOK(n)

\* Who takes part in the room, and what is on its way to them.
Attends(m) == m \in members[Home[m]] \cup Waiting(Home[m])
Coming(m)  ==
    sub[Home[m]] \cup {i \in {room[Home[m]].msg} : m \in Waiting(Home[m])}

\* Until the room's deadline passes, what a member got has no gaps, and
\* everything behind it is still to come.
GapOK(m) ==
    /\ setup[Home[m]] # "ok" => Got(m) = {}
    /\ Home[m] \notin expired =>
        /\ \A i, k \in Got(m) : i .. k \subseteq Got(m)
        /\ Hears(Home[m]) /\ Attends(m) =>
             \A i \in Got(m) : i + 1 .. Len(topic) \subseteq Got(m) \cup Coming(m)
GapInv == \A m \in Members : GapOK(m)

\* NoGaps, up to the deadline of a room that has one.
NoGapsInTime ==
    \A m \in Members : Home[m] \notin expired =>
        \A i, k \in seen[m] : i .. k \subseteq seen[m]

\* Once it has read anything, a member reads nothing behind its own departure.
SilentAfterLeave ==
    \A m \in Members : Home[m] \notin expired =>
        \A i, k \in seen[m] : \A j \in DOMAIN topic :
            i < j /\ topic[j] = Left(m) => k < j

\* A room on a running, subscribed instance to which nothing is on its way,
\* and which is not distributing anything.
Settled(n) ==
    /\ Hears(n) /\ n \notin expired
    /\ sub[n] = {} /\ room[n].at # "notify"

\* In a settled room, every member whose Listen is not writing has read the
\* whole topic from the first message it read.
CaughtUp ==
    \A m \in Members :
        Settled(Home[m]) /\ m \in members[Home[m]] /\ hand[m] = NoIndex =>
            \A i \in seen[m] : i .. Len(topic) \subseteq seen[m]

\* A settled room has no member that departed after it had read something.
Forgotten ==
    \A m \in Members :
        Settled(Home[m]) /\ m \in members[Home[m]] =>
            \A i \in Got(m) : \A j \in DOMAIN topic : i < j => topic[j] # Left(m)

-----------------------------------------------------------------------------
(* What the members of one room have in common, lost messages or not.      *)
(* AgreeInv is inductive together with IInv.                               *)

\* What m got lies before o's first message, or o got it too, or it is what
\* the room is about to notify o of, or it came after o's time in the room.
Agreed(o, m) ==
    /\ \A i, k \in Got(o), j \in Got(m) : i < j /\ j < k => j \in Got(o)
    /\ Attends(o) =>
         \A i \in Got(o), j \in Got(m) :
            i < j => j \in Got(o) \/ (o \in Waiting(Home[o]) /\ j = room[Home[o]].msg)

\* While a room distributes a message, nobody is ahead of it, and who takes part
\* and got anything has got it, or is yet to be notified.
AgreeAt(n) ==
    n \notin expired =>
        /\ room[n].at = "notify" =>
             \A o \in Residents(n) :
                /\ \A i \in Got(o) : i <= room[n].msg
                /\ Attends(o) /\ Got(o) # {} => room[n].msg \in Got(o) \/ o \in Waiting(n)
        /\ \A o, m \in Residents(n) : Agreed(o, m)
AgreeInv == \A n \in Nodes : AgreeAt(n)

\* Once a room distributes a departure, or a member has got it, the member who left
\* takes no part any more and has got only what came before.  LeftInv is inductive
\* together with IInv.
Departed(m, j) == ~Attends(m) /\ \A i \in Got(m) : i < j
LeftAt(n) ==
    \A m \in Residents(n) :
        /\ room[n].at = "notify" /\ topic[room[n].msg] = Left(m) => Departed(m, room[n].msg)
        /\ \A o \in Residents(n) : \A j \in Got(o) : topic[j] = Left(m) => Departed(m, j)
LeftInv == \A n \in Nodes : LeftAt(n)

\* Members of one room read the same conversation: between two messages that
\* one of them has read, it has read everything that another one has.
SameConversation ==
    \A m, o \in Members : Home[m] = Home[o] /\ Home[o] \notin expired =>
        \A i, k \in seen[o], j \in seen[m] : i < j /\ j < k => j \in seen[o]

\* While a room is not distributing, a member of it whose Listen is not writing has
\* read everything that anybody else there has read since its own first message.
NobodyIsAhead ==
    \A m, o \in Members :
        (/\ Home[m] = Home[o] /\ Home[o] \notin expired
         /\ room[Home[o]].at # "notify" /\ o \in members[Home[o]] /\ hand[o] = NoIndex) =>
            \A i \in seen[o], j \in seen[m] : i < j => j \in seen[o]

-----------------------------------------------------------------------------
(* What becomes of a chat                                                  *)

\* Publish is busy with the chat it took last.
Handling(m) == pub[m] \in {"insert", "reply", "publish"}

InTopic(msg) == \E i \in DOMAIN topic : topic[i] = msg

\* Every chat that Publish is done with is in the topic, or its sender was
\* told that it failed, unless the context of its connection has ended.
AnsweredOK(m) ==
    \A k \in 1 .. chats[m] :
        \/ Handling(m) /\ k = chats[m]
        \/ InTopic(Chat(m, k)) \/ k \in told[m]
        \/ m \in expired
AnsweredInv == \A m \in Members : AnsweredOK(m)

\* In a settled room, a member that has read its own arrival, of which no attempt
\* was given up, has read every chat that Publish is done with, or was told that it
\* failed.
ChatsAnswered ==
    \A m \in Members :
        (/\ Settled(Home[m]) /\ m \in members[Home[m]] /\ hand[m] = NoIndex
         /\ m \notin expired /\ ~Handling(m) /\ Joined(m) \notin gaveUp
         /\ \E i \in seen[m] : topic[i] = Joined(m)) =>
            \A k \in 1 .. chats[m] :
                k \in told[m] \/ \E i \in seen[m] : topic[i] = Chat(m, k)
=============================================================================
