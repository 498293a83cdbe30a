------------------------- MODULE ChatRoomThreadProofs -------------------------
(***************************************************************************)
(* Proofs that the goroutines of a room meet: ThreadInv is inductive       *)
(* together with IInv, and with it nobody waits for a goroutine that is    *)
(* gone, and a send on a closed channel needs a failed Subscribe.          *)
(***************************************************************************)
EXTENDS ChatRoomProofs

USE DEF envVars, dbVars, queueVars, readVars, nodeVars

-----------------------------------------------------------------------------
(* An aborted call                                                         *)

\* A member publishes only from its room.
LEMMA PublishersInRoom ==
    ASSUME GateInv, NEW m \in Members, NEW msg \in Publishing(m)
    PROVE  serve[m] \in InRoom /\ msg.member = m
BY DEF GateInv, Publishing, InRoom, Joined, Chat, Left

\* What is accepted for a member inside the room adds nothing of those outside.
LEMMA AcceptInRoom ==
    ASSUME TypeOK, AbortInv, NEW m \in Members, NEW msg \in Message, Accept(msg),
           msg.member = m, serve'[m] \in InRoom, UNCHANGED gaveUp,
           \A o \in Members : serve'[o] \in InRoom <=> serve[o] \in InRoom
    PROVE  \A o \in Members : serve'[o] \notin InRoom =>
              /\ \A i \in DOMAIN topic' : topic'[i].member # o
              /\ \A x \in gaveUp' : x.member # o
<1>0. \A o \in Members : serve'[o] \notin InRoom => \A x \in gaveUp' : x.member # o
  BY DEF AbortInv
<1> SUFFICES ASSUME NEW o \in Members, serve'[o] \notin InRoom, NEW i \in DOMAIN topic'
             PROVE  topic'[i].member # o
  BY <1>0
<1>1. topic \in Seq(Message) /\ sub \in [Nodes -> SUBSET Nat]
  BY DEF TypeOK
<1>2. i \in DOMAIN topic \/ i = Len(topic) + 1
  BY <1>1, AcceptTopic
<1>3. CASE i \in DOMAIN topic
  BY <1>1, <1>3, AcceptTopic DEF AbortInv
<1>4. CASE i = Len(topic) + 1
  BY <1>1, <1>4, AcceptTopic
<1>5. QED
  BY <1>2, <1>3, <1>4

\* Every step keeps an aborted call out of the room.
LEMMA AbortStep == TypeOK /\ GateInv /\ AbortInv /\ [Next]_vars => AbortInv'
<1> SUFFICES ASSUME TypeOK, GateInv, AbortInv, [Next]_vars PROVE AbortInv'
  OBVIOUS
<1>1. CASE UNCHANGED <<serve, pub, topic, gaveUp>>
  BY <1>1 DEF TypeOK, GateInv, AbortInv, InRoom
<1>2. ASSUME NEW m \in Members, ServeRoom(m) PROVE AbortInv'
  BY <1>2 DEF ServeRoom, TypeOK, GateInv, AbortInv, InRoom
<1>3. ASSUME NEW m \in Members, ListenReady(m) PROVE AbortInv'
  BY <1>3 DEF ListenReady, TypeOK, GateInv, AbortInv, InRoom
<1>4. ASSUME NEW m \in Members, ListenTimeout(m) PROVE AbortInv'
  BY <1>4 DEF ListenTimeout, TypeOK, GateInv, AbortInv, InRoom
<1>5. ASSUME NEW m \in Members, BroadcastReady(m) PROVE AbortInv'
  BY <1>5 DEF BroadcastReady, TypeOK, GateInv, AbortInv, InRoom
<1>6. ASSUME NEW m \in Members, BroadcastTimeout(m) PROVE AbortInv'
  BY <1>6 DEF BroadcastTimeout, TypeOK, GateInv, AbortInv, InRoom
<1>7. ASSUME NEW m \in Members, InsertMember(m) PROVE AbortInv'
  BY <1>7 DEF InsertMember, TypeOK, GateInv, AbortInv, InRoom
<1>8. ASSUME NEW m \in Members, InsertMemberFails(m) PROVE AbortInv'
  BY <1>8 DEF InsertMemberFails, TypeOK, GateInv, AbortInv, InRoom
<1>9. ASSUME NEW m \in Members, ServeStops(m) PROVE AbortInv'
  BY <1>9 DEF ServeStops, TypeOK, GateInv, AbortInv, InRoom
<1>10. ASSUME NEW m \in Members, BeginAddMember(m) PROVE AbortInv'
  BY <1>10 DEF BeginAddMember, TypeOK, GateInv, AbortInv, InRoom
<1>11. ASSUME NEW m \in Members, EndAddMember(m) PROVE AbortInv'
  BY <1>11 DEF EndAddMember, TypeOK, GateInv, AbortInv, InRoom
<1>12. ASSUME NEW m \in Members, PublishJoined(m) PROVE AbortInv'
  <2>1. /\ serve[m] \in InRoom /\ serve'[m] \in InRoom
        /\ Joined(m) \in Message /\ Joined(m).member = m
    BY <1>12, MessageTypes DEF PublishJoined, GateInv, TypeOK, InRoom, Joined, Chat, Left
  <2>2. \A o \in Members :
          /\ serve'[o] \in InRoom <=> serve[o] \in InRoom
          /\ serve'[o] \in {"idle", "listenReady", "failed"} =>
               serve'[o] = serve[o] /\ pub'[o] \in {pub[o], "done"}
    BY <1>12, <2>1 DEF PublishJoined, GateInv, TypeOK, InRoom
  <2>3. \A o \in Members : serve'[o] \notin InRoom =>
            /\ \A i \in DOMAIN topic' : topic'[i].member # o
            /\ \A msg \in gaveUp' : msg.member # o
    <3>0. UNCHANGED gaveUp
      BY <1>12 DEF PublishJoined, QueuePublish
    <3>1. CASE Accept(Joined(m))
      BY <2>1, <2>2, <3>0, <3>1, AcceptInRoom
    <3>2. CASE UNCHANGED topic
      BY <2>2, <3>0, <3>2 DEF AbortInv
    <3>3. QED
      BY <1>12, <3>1, <3>2 DEF PublishJoined, QueuePublish
  <2>4. \A o \in Members : serve'[o] \in {"idle", "listenReady"} => pub'[o] = "none"
    BY <1>12, <2>1, <2>2 DEF PublishJoined, AbortInv, InRoom, TypeOK
  <2>5. QED
    BY <2>2, <2>3, <2>4 DEF AbortInv
<1>13. ASSUME NEW m \in Members, StartBroadcast(m) PROVE AbortInv'
  BY <1>13 DEF StartBroadcast, TypeOK, GateInv, AbortInv, InRoom
<1>14. ASSUME NEW m \in Members, TakeChat(m) PROVE AbortInv'
  BY <1>14 DEF TakeChat, TypeOK, GateInv, AbortInv, InRoom
<1>15. ASSUME NEW m \in Members, TakeLeft(m) PROVE AbortInv'
  BY <1>15 DEF TakeLeft, TypeOK, GateInv, AbortInv, InRoom
<1>16. ASSUME NEW m \in Members, InsertMessage(m) PROVE AbortInv'
  BY <1>16 DEF InsertMessage, TypeOK, GateInv, AbortInv, InRoom
<1>17. ASSUME NEW m \in Members, InsertMessageFails(m) PROVE AbortInv'
  BY <1>17 DEF InsertMessageFails, TypeOK, GateInv, AbortInv, InRoom
<1>18. ASSUME NEW m \in Members, PublishChat(m) PROVE AbortInv'
  <2>1. /\ serve[m] \in InRoom /\ serve'[m] \in InRoom
        /\ Chat(m, chats[m]) \in Message /\ Chat(m, chats[m]).member = m
    BY <1>18, MessageTypes DEF PublishChat, GateInv, TypeOK, InRoom, Joined, Chat, Left
  <2>2. \A o \in Members :
          /\ serve'[o] \in InRoom <=> serve[o] \in InRoom
          /\ serve'[o] \in {"idle", "listenReady", "failed"} =>
               serve'[o] = serve[o] /\ pub'[o] \in {pub[o], "done"}
    BY <1>18, <2>1 DEF PublishChat, GateInv, TypeOK, InRoom
  <2>3. \A o \in Members : serve'[o] \notin InRoom =>
            /\ \A i \in DOMAIN topic' : topic'[i].member # o
            /\ \A msg \in gaveUp' : msg.member # o
    <3>0. UNCHANGED gaveUp
      BY <1>18 DEF PublishChat, QueuePublish
    <3>1. CASE Accept(Chat(m, chats[m]))
      BY <2>1, <2>2, <3>0, <3>1, AcceptInRoom
    <3>2. CASE UNCHANGED topic
      BY <2>2, <3>0, <3>2 DEF AbortInv
    <3>3. QED
      BY <1>18, <3>1, <3>2 DEF PublishChat, QueuePublish
  <2>4. \A o \in Members : serve'[o] \in {"idle", "listenReady"} => pub'[o] = "none"
    BY <1>18, <2>1, <2>2 DEF PublishChat, AbortInv, InRoom, TypeOK
  <2>5. QED
    BY <2>2, <2>3, <2>4 DEF AbortInv
<1>19. ASSUME NEW m \in Members, SendFailed(m) PROVE AbortInv'
  BY <1>19 DEF SendFailed, TypeOK, GateInv, AbortInv, InRoom
<1>20. ASSUME NEW m \in Members, DeleteMember(m) PROVE AbortInv'
  BY <1>20 DEF DeleteMember, TypeOK, GateInv, AbortInv, InRoom
<1>21. ASSUME NEW m \in Members, DeleteMemberFails(m) PROVE AbortInv'
  BY <1>21 DEF DeleteMemberFails, TypeOK, GateInv, AbortInv, InRoom
<1>22. ASSUME NEW m \in Members, PublishLeft(m) PROVE AbortInv'
  <2>1. /\ serve[m] \in InRoom /\ serve'[m] \in InRoom
        /\ Left(m) \in Message /\ Left(m).member = m
    BY <1>22, MessageTypes DEF PublishLeft, GateInv, TypeOK, InRoom, Joined, Chat, Left
  <2>2. \A o \in Members :
          /\ serve'[o] \in InRoom <=> serve[o] \in InRoom
          /\ serve'[o] \in {"idle", "listenReady", "failed"} =>
               serve'[o] = serve[o] /\ pub'[o] \in {pub[o], "done"}
    BY <1>22, <2>1 DEF PublishLeft, GateInv, TypeOK, InRoom
  <2>3. \A o \in Members : serve'[o] \notin InRoom =>
            /\ \A i \in DOMAIN topic' : topic'[i].member # o
            /\ \A msg \in gaveUp' : msg.member # o
    <3>0. UNCHANGED gaveUp
      BY <1>22 DEF PublishLeft, QueuePublish
    <3>1. CASE Accept(Left(m))
      BY <2>1, <2>2, <3>0, <3>1, AcceptInRoom
    <3>2. CASE UNCHANGED topic
      BY <2>2, <3>0, <3>2 DEF AbortInv
    <3>3. QED
      BY <1>22, <3>1, <3>2 DEF PublishLeft, QueuePublish
  <2>4. \A o \in Members : serve'[o] \in {"idle", "listenReady"} => pub'[o] = "none"
    BY <1>22, <2>1, <2>2 DEF PublishLeft, AbortInv, InRoom, TypeOK
  <2>5. QED
    BY <2>2, <2>3, <2>4 DEF AbortInv
<1>23. ASSUME NEW m \in Members, GiveUp(m) PROVE AbortInv'
  <2>1. gaveUp' = gaveUp \cup Publishing(m) /\ UNCHANGED <<serve, pub, topic>>
    BY <1>23 DEF GiveUp
  <2>2. \A msg \in Publishing(m) : msg.member = m /\ serve[m] \in InRoom
    BY PublishersInRoom
  <2>3. QED
    BY <2>1, <2>2 DEF AbortInv
<1>24. ASSUME NEW n \in Nodes, StopMember(n) PROVE AbortInv'
  BY <1>24 DEF StopMember, TypeOK, GateInv, AbortInv, InRoom
<1>25. ASSUME NEW m \in Members,
             WriteMessage(m) \/ ListenClosed(m) \/ Poll(m) \/ ReadError(m) \/
             SendFailedPanics(m) \/ ReadChat(m) \/ Close(m)
      PROVE  UNCHANGED <<serve, pub, topic, gaveUp>>
  BY <1>25 DEF WriteMessage, ListenClosed, Poll, ReadError, SendFailedPanics, ReadChat,
         Close, Die
<1>26. ASSUME NEW n \in Nodes,
             Subscribe(n) \/ SubscribeFails(n) \/ Evict(n) \/ Receive(n) \/
             Notify(n) \/ NotifyTimeout(n) \/ ReceiveClosed(n) \/ Crash(n) \/
             MapFault(n)
      PROVE  UNCHANGED <<serve, pub, topic, gaveUp>>
  BY <1>26 DEF Subscribe, SubscribeFails, Evict, Receive, Notify, NotifyTimeout,
         ReceiveClosed, Crash, MapFault, Die, HandTo
<1>27. CASE (\E x \in Deadlines : Expire(x)) \/ UNCHANGED vars
  BY <1>1, <1>27 DEF Expire, vars
<1>28. ASSUME NEW msg \in gaveUp, ExecuteLate(msg) PROVE AbortInv'
  <2>1. Accept(msg) /\ UNCHANGED <<serve, pub, gaveUp>>
    BY <1>28 DEF ExecuteLate
  <2>2. msg \in Message /\ msg.member \in Members
    BY DEF TypeOK, Message
  <2>3. serve[msg.member] \in InRoom
    BY <2>2 DEF AbortInv
  <2>4. QED
    BY <2>1, <2>2, <2>3, AcceptInRoom DEF AbortInv
<1>29. QED
  BY <1>1, <1>2, <1>3, <1>4, <1>5, <1>6, <1>7, <1>8, <1>9, <1>10, <1>11, <1>12,
     <1>13, <1>14, <1>15, <1>16, <1>17, <1>18, <1>19, <1>20, <1>21, <1>22, <1>23,
     <1>24, <1>25, <1>26, <1>27, <1>28
  DEF Next, ServeStep, ListenStep, BroadcastStep, PublishStep, SetupStep, RoomStep

-----------------------------------------------------------------------------
(* Closed channels                                                         *)

\* The notification loop leaves a room notifying or waiting.
LEMMA NextNotifyAt ==
    ASSUME NEW n \in Nodes, NEW i, NEW rest, room \in [Nodes -> RoomState],
           NextNotify(n, i, rest)
    PROVE  /\ room'[n].at \in {"recv", "notify"}
           /\ \A o \in Nodes \ {n} : room'[o] = room[o]
BY DEF NextNotify, Idle

\* The closing loop closes the channel of the members it visits, and leaves
\* the room closing or closed.
LEMMA NextStopAt ==
    ASSUME NEW n \in Nodes, NEW rest, room \in [Nodes -> RoomState],
           NextStop(n, rest)
    PROVE  /\ room'[n].at \in {"stop", "done"}
           /\ \A o \in Nodes \ {n} : room'[o] = room[o]
           /\ closed \subseteq closed' /\ closed' \subseteq closed \cup rest
BY DEF NextStop, Idle

\* A step of the notification loop of a subscribed room closes nothing.
LEMMA NotifyingKeepsClosed ==
    ASSUME TypeOK, ClosedInv, NEW n \in Nodes, setup[n] = "ok",
           \A o \in Nodes \ {n} : room'[o] = room[o],
           room'[n].at \in {"recv", "notify"},
           UNCHANGED <<serve, status, setup, closed>>
    PROVE  ClosedInv'
<1>1. ~SetupFailed(n) /\ room[n].at \notin {"stop", "done"}
  BY DEF SetupFailed, ClosedInv
<1>2. \A m \in closed : Home[m] \in Nodes
  BY HomeAssumption DEF TypeOK
<1>3. ASSUME NEW o \in Nodes
      PROVE  /\ room'[o].at = "notify" => setup'[o] = "ok"
             /\ room'[o].at \in {"stop", "done"} => SetupFailed(o)'
             /\ status'[o] = "panicked" => SetupFailed(o)'
  BY <1>1 DEF ClosedInv, SetupFailed
<1>4. ASSUME NEW m \in closed'
      PROVE  serve'[m] \in {"stop", "failed"} \/ room'[Home[m]].at \in {"stop", "done"}
  BY <1>1, <1>2 DEF ClosedInv
<1>5. QED
  BY <1>3, <1>4 DEF ClosedInv

\* A step of the closing loop closes channels of the room's own members.
LEMMA ClosingKeepsClosed ==
    ASSUME TypeOK, ClosedInv, NEW n \in Nodes, SetupFailed(n),
           \A o \in Nodes \ {n} : room'[o] = room[o],
           room'[n].at \in {"stop", "done"},
           NEW rest, closed' \subseteq closed \cup rest, \A m \in rest : Home[m] = n,
           UNCHANGED <<serve, status, setup>>
    PROVE  ClosedInv'
<1>1. \A m \in closed : Home[m] \in Nodes
  BY HomeAssumption DEF TypeOK
<1>2. ASSUME NEW o \in Nodes
      PROVE  /\ room'[o].at = "notify" => setup'[o] = "ok"
             /\ room'[o].at \in {"stop", "done"} => SetupFailed(o)'
             /\ status'[o] = "panicked" => SetupFailed(o)'
  BY DEF ClosedInv, SetupFailed
<1>3. ASSUME NEW m \in closed'
      PROVE  serve'[m] \in {"stop", "failed"} \/ room'[Home[m]].at \in {"stop", "done"}
  BY <1>1 DEF ClosedInv
<1>4. QED
  BY <1>2, <1>3 DEF ClosedInv

\* Every step closes only the channels of aborted calls and of failed rooms.
LEMMA ClosedStep == TypeOK /\ GateInv /\ RoomInv /\ ClosedInv /\ [Next]_vars => ClosedInv'
<1> SUFFICES ASSUME TypeOK, GateInv, RoomInv, ClosedInv, [Next]_vars PROVE ClosedInv'
  OBVIOUS
<1>1. CASE UNCHANGED <<serve, status, setup, room, closed>>
  BY <1>1 DEF TypeOK, ClosedInv, SetupFailed, Die
<1>2. ASSUME NEW m \in Members, ServeRoom(m) PROVE ClosedInv'
  BY <1>2 DEF ServeRoom, TypeOK, ClosedInv, SetupFailed, Die
<1>3. ASSUME NEW m \in Members, ListenReady(m) PROVE ClosedInv'
  BY <1>3 DEF ListenReady, TypeOK, ClosedInv, SetupFailed, Die
<1>4. ASSUME NEW m \in Members, ListenTimeout(m) PROVE ClosedInv'
  BY <1>4 DEF ListenTimeout, TypeOK, ClosedInv, SetupFailed, Die
<1>5. ASSUME NEW m \in Members, BroadcastReady(m) PROVE ClosedInv'
  BY <1>5 DEF BroadcastReady, TypeOK, ClosedInv, SetupFailed, Die
<1>6. ASSUME NEW m \in Members, BroadcastTimeout(m) PROVE ClosedInv'
  BY <1>6 DEF BroadcastTimeout, TypeOK, ClosedInv, SetupFailed, Die
<1>7. ASSUME NEW m \in Members, InsertMember(m) PROVE ClosedInv'
  BY <1>7 DEF InsertMember, TypeOK, ClosedInv, SetupFailed
<1>8. ASSUME NEW m \in Members, InsertMemberFails(m) PROVE ClosedInv'
  BY <1>8 DEF InsertMemberFails, TypeOK, ClosedInv, SetupFailed, Die
<1>9. ASSUME NEW m \in Members, ServeStops(m) PROVE ClosedInv'
  BY <1>9 DEF ServeStops, TypeOK, ClosedInv, SetupFailed, Die
<1>10. ASSUME NEW m \in Members, BeginAddMember(m) PROVE ClosedInv'
  BY <1>10 DEF BeginAddMember, TypeOK, ClosedInv, SetupFailed, Die
<1>11. ASSUME NEW m \in Members, EndAddMember(m) PROVE ClosedInv'
  <2>1. Home[m] \in Nodes /\ room \in [Nodes -> RoomState] /\ room[Home[m]] \in RoomState
    BY HomeAssumption DEF TypeOK
  <2>2. \A o \in Nodes : room'[o].at = room[o].at
    <3>1. CASE UNCHANGED room
      BY <3>1
    <3>2. CASE room' = [room EXCEPT ![Home[m]] = [room[Home[m]] EXCEPT !.todo = @ \cup {m}]]
      BY <2>1, <3>2 DEF RoomState
    <3>3. QED
      BY <1>11, <3>1, <3>2 DEF EndAddMember
  <2>3. UNCHANGED <<status, setup, closed>>
    BY <1>11 DEF EndAddMember
  <2>4. \A o \in Members : serve[o] \in {"stop", "failed"} => serve'[o] = serve[o]
    BY <1>11 DEF EndAddMember, TypeOK
  <2>5. QED
    BY <2>2, <2>3, <2>4, HomeAssumption DEF ClosedInv, SetupFailed, TypeOK
<1>12. ASSUME NEW m \in Members, PublishJoined(m) PROVE ClosedInv'
  BY <1>12 DEF PublishJoined, TypeOK, ClosedInv, SetupFailed, Die
<1>13. ASSUME NEW m \in Members, StartBroadcast(m) PROVE ClosedInv'
  BY <1>13 DEF StartBroadcast, TypeOK, ClosedInv, SetupFailed, Die
<1>14. ASSUME NEW m \in Members, SendFailedPanics(m) PROVE ClosedInv'
  <2>1. /\ status' = [status EXCEPT ![Home[m]] = "panicked"]
        /\ UNCHANGED <<serve, setup, room, closed>>
    BY <1>14 DEF SendFailedPanics, Die
  <2>2. Home[m] \in Nodes /\ SetupFailed(Home[m])
    BY <1>14, HomeAssumption DEF SendFailedPanics, GateInv, ClosedInv
  <2>3. QED
    BY <2>1, <2>2 DEF ClosedInv, SetupFailed, TypeOK
<1>15. ASSUME NEW n \in Nodes, Subscribe(n) PROVE ClosedInv'
  BY <1>15 DEF Subscribe, TypeOK, ClosedInv, SetupFailed, Die
<1>16. ASSUME NEW n \in Nodes, SubscribeFails(n) PROVE ClosedInv'
  BY <1>16 DEF SubscribeFails, TypeOK, ClosedInv, SetupFailed, Die
<1>17. ASSUME NEW n \in Nodes, Evict(n) PROVE ClosedInv'
  BY <1>17 DEF Evict, TypeOK, ClosedInv, SetupFailed, Die
<1>18. ASSUME NEW n \in Nodes, Receive(n) PROVE ClosedInv'
  <2>1. setup[n] = "ok" /\ UNCHANGED <<serve, status, setup, closed>>
    BY <1>18 DEF Receive
  <2>2. \E i \in sub[n] : NextNotify(n, i, members'[n])
    BY <1>18 DEF Receive
  <2>3. QED
    BY <2>1, <2>2, NextNotifyAt, NotifyingKeepsClosed DEF TypeOK
<1>19. ASSUME NEW n \in Nodes, Notify(n) PROVE ClosedInv'
  <2>1. setup[n] = "ok" /\ UNCHANGED <<serve, status, setup, closed>>
    BY <1>19 DEF Notify, ClosedInv
  <2>2. NextNotify(n, room[n].msg, room[n].todo)
    BY <1>19 DEF Notify
  <2>3. QED
    BY <2>1, <2>2, NextNotifyAt, NotifyingKeepsClosed DEF TypeOK
<1>20. ASSUME NEW n \in Nodes, NotifyTimeout(n) PROVE ClosedInv'
  <2>1. setup[n] = "ok" /\ UNCHANGED <<serve, status, setup, closed>>
    BY <1>20 DEF NotifyTimeout, ClosedInv
  <2>2. NextNotify(n, room[n].msg, room[n].todo)
    BY <1>20 DEF NotifyTimeout
  <2>3. QED
    BY <2>1, <2>2, NextNotifyAt, NotifyingKeepsClosed DEF TypeOK
<1>21. ASSUME NEW n \in Nodes, ReceiveClosed(n) PROVE ClosedInv'
  <2>1. /\ SetupFailed(n) /\ NextStop(n, members[n])
        /\ UNCHANGED <<serve, status, setup>>
    BY <1>21 DEF ReceiveClosed, SetupFailed
  <2>2. \A m \in members[n] : Home[m] = n
    BY DEF RoomInv, RoomOK, Attending
  <2>3. QED
    BY <2>1, <2>2, NextStopAt, ClosingKeepsClosed DEF TypeOK
<1>22. ASSUME NEW n \in Nodes, StopMember(n) PROVE ClosedInv'
  <2>1. /\ SetupFailed(n) /\ NextStop(n, room[n].todo)
        /\ UNCHANGED <<serve, status, setup>>
    BY <1>22 DEF StopMember, ClosedInv
  <2>2. \A m \in room[n].todo : Home[m] = n
    BY DEF RoomInv, RoomOK, Attending
  <2>3. QED
    BY <2>1, <2>2, NextStopAt, ClosingKeepsClosed DEF TypeOK
<1>23. ASSUME NEW n \in Nodes, Crash(n) PROVE ClosedInv'
  BY <1>23 DEF Crash, TypeOK, ClosedInv, SetupFailed, Die
<1>24. ASSUME NEW n \in Nodes, MapFault(n) PROVE ClosedInv'
  BY <1>24 DEF MapFault, TypeOK, ClosedInv, SetupFailed, Die
<1>25. ASSUME NEW m \in Members,
             WriteMessage(m) \/ ListenClosed(m) \/ Poll(m) \/ ReadError(m) \/
             TakeChat(m) \/ TakeLeft(m) \/ InsertMessage(m) \/ InsertMessageFails(m)
             \/ PublishChat(m) \/ SendFailed(m) \/ DeleteMember(m) \/
             DeleteMemberFails(m) \/ PublishLeft(m) \/ GiveUp(m) \/
             ReadChat(m) \/ Close(m)
      PROVE  UNCHANGED <<serve, status, setup, room, closed>>
  BY <1>25 DEF WriteMessage, ListenClosed, Poll, ReadError, TakeChat, TakeLeft,
         InsertMessage, InsertMessageFails, PublishChat, SendFailed, DeleteMember,
         DeleteMemberFails, PublishLeft, GiveUp, ReadChat, Close, HandTo
<1>26. CASE \/ \E x \in Deadlines : Expire(x)
            \/ \E msg \in gaveUp : ExecuteLate(msg)
            \/ UNCHANGED vars
  BY <1>1, <1>26 DEF Expire, ExecuteLate, vars
<1>27. QED
  BY <1>1, <1>2, <1>3, <1>4, <1>5, <1>6, <1>7, <1>8, <1>9, <1>10, <1>11, <1>12,
     <1>13, <1>14, <1>15, <1>16, <1>17, <1>18, <1>19, <1>20, <1>21, <1>22, <1>23,
     <1>24, <1>25, <1>26
  DEF Next, ServeStep, ListenStep, BroadcastStep, PublishStep, SetupStep, RoomStep

-----------------------------------------------------------------------------
(* Handshakes                                                              *)

\* Every step keeps the receivers of a ServeRoom call in their places.
LEMMA HandshakeStep == TypeOK /\ GateInv /\ RoomInv /\ HandshakeInv /\ [Next]_vars => HandshakeInv'
<1> SUFFICES ASSUME TypeOK, GateInv, RoomInv, HandshakeInv, [Next]_vars PROVE HandshakeInv'
  OBVIOUS
<1>0. /\ DOMAIN serve = Members /\ DOMAIN listen = Members
      /\ DOMAIN bcast = Members /\ DOMAIN pub = Members
  BY DEF TypeOK
<1>1. CASE UNCHANGED <<serve, listen, bcast, pub, closed>>
  BY <1>1 DEF GateInv, HandshakeInv
<1>2. ASSUME NEW m \in Members, ServeRoom(m) PROVE HandshakeInv'
  BY <1>0, <1>2 DEF ServeRoom, GateInv, HandshakeInv
<1>3. ASSUME NEW m \in Members, ListenReady(m) PROVE HandshakeInv'
  BY <1>0, <1>3 DEF ListenReady, GateInv, HandshakeInv
<1>4. ASSUME NEW m \in Members, ListenTimeout(m) PROVE HandshakeInv'
  BY <1>0, <1>4 DEF ListenTimeout, GateInv, HandshakeInv
<1>5. ASSUME NEW m \in Members, BroadcastReady(m) PROVE HandshakeInv'
  BY <1>0, <1>5 DEF BroadcastReady, GateInv, HandshakeInv
<1>6. ASSUME NEW m \in Members, BroadcastTimeout(m) PROVE HandshakeInv'
  BY <1>0, <1>6 DEF BroadcastTimeout, GateInv, HandshakeInv
<1>7. ASSUME NEW m \in Members, InsertMember(m) PROVE HandshakeInv'
  BY <1>0, <1>7 DEF InsertMember, GateInv, HandshakeInv
<1>8. ASSUME NEW m \in Members, InsertMemberFails(m) PROVE HandshakeInv'
  BY <1>0, <1>8 DEF InsertMemberFails, GateInv, HandshakeInv
<1>9. ASSUME NEW m \in Members, ServeStops(m) PROVE HandshakeInv'
  BY <1>0, <1>9 DEF ServeStops, GateInv, HandshakeInv
<1>10. ASSUME NEW m \in Members, BeginAddMember(m) PROVE HandshakeInv'
  BY <1>0, <1>10 DEF BeginAddMember, GateInv, HandshakeInv
<1>11. ASSUME NEW m \in Members, EndAddMember(m) PROVE HandshakeInv'
  BY <1>0, <1>11 DEF EndAddMember, GateInv, HandshakeInv
<1>12. ASSUME NEW m \in Members, PublishJoined(m) PROVE HandshakeInv'
  BY <1>0, <1>12 DEF PublishJoined, GateInv, HandshakeInv
<1>13. ASSUME NEW m \in Members, StartBroadcast(m) PROVE HandshakeInv'
  BY <1>0, <1>13 DEF StartBroadcast, GateInv, HandshakeInv
<1>14. ASSUME NEW m \in Members, WriteMessage(m) PROVE HandshakeInv'
  BY <1>0, <1>14 DEF WriteMessage, GateInv, HandshakeInv
<1>15. ASSUME NEW m \in Members, ListenClosed(m) PROVE HandshakeInv'
  BY <1>0, <1>15 DEF ListenClosed, GateInv, HandshakeInv
<1>16. ASSUME NEW m \in Members, Poll(m) PROVE HandshakeInv'
  BY <1>0, <1>16 DEF Poll, GateInv, HandshakeInv
<1>17. ASSUME NEW m \in Members, ReadError(m) PROVE HandshakeInv'
  BY <1>0, <1>17 DEF ReadError, GateInv, HandshakeInv
<1>18. ASSUME NEW m \in Members, TakeChat(m) PROVE HandshakeInv'
  BY <1>0, <1>18 DEF TakeChat, GateInv, HandshakeInv
<1>19. ASSUME NEW m \in Members, TakeLeft(m) PROVE HandshakeInv'
  BY <1>0, <1>19 DEF TakeLeft, GateInv, HandshakeInv
<1>20. ASSUME NEW m \in Members, InsertMessage(m) PROVE HandshakeInv'
  BY <1>0, <1>20 DEF InsertMessage, GateInv, HandshakeInv
<1>21. ASSUME NEW m \in Members, InsertMessageFails(m) PROVE HandshakeInv'
  BY <1>0, <1>21 DEF InsertMessageFails, GateInv, HandshakeInv
<1>22. ASSUME NEW m \in Members, PublishChat(m) PROVE HandshakeInv'
  BY <1>0, <1>22 DEF PublishChat, GateInv, HandshakeInv
<1>23. ASSUME NEW m \in Members, SendFailed(m) PROVE HandshakeInv'
  BY <1>23 DEF SendFailed, HandTo, TypeOK, GateInv, HandshakeInv
<1>24. ASSUME NEW m \in Members, DeleteMember(m) PROVE HandshakeInv'
  BY <1>0, <1>24 DEF DeleteMember, GateInv, HandshakeInv
<1>25. ASSUME NEW m \in Members, DeleteMemberFails(m) PROVE HandshakeInv'
  BY <1>0, <1>25 DEF DeleteMemberFails, GateInv, HandshakeInv
<1>26. ASSUME NEW m \in Members, PublishLeft(m) PROVE HandshakeInv'
  BY <1>0, <1>26 DEF PublishLeft, GateInv, HandshakeInv
<1>27. ASSUME NEW m \in Members, ReadChat(m) PROVE HandshakeInv'
  BY <1>0, <1>27 DEF ReadChat, GateInv, HandshakeInv
<1>28. ASSUME NEW n \in Nodes, Notify(n) PROVE HandshakeInv'
  <2>1. PICK c \in Members : c = room[n].cur
    BY <1>28 DEF Notify, RoomInv, RoomOK
  <2>2. /\ listen[c] = "recv" /\ listen' = [listen EXCEPT ![c] = "write"]
        /\ UNCHANGED <<serve, bcast, pub, closed>>
    BY <1>28, <2>1 DEF Notify, HandTo
  <2>3. QED
    BY <2>2 DEF HandshakeInv, TypeOK
<1>29. ASSUME NEW n \in Nodes, ReceiveClosed(n) PROVE HandshakeInv'
  <2>1. closed \subseteq closed' /\ UNCHANGED <<serve, listen, bcast, pub>>
    BY <1>29, NextStopAt DEF ReceiveClosed, TypeOK
  <2>2. QED
    BY <2>1 DEF HandshakeInv
<1>30. ASSUME NEW n \in Nodes, StopMember(n) PROVE HandshakeInv'
  <2> DEFINE c == room[n].cur
  <2>1. closed \subseteq closed' /\ UNCHANGED <<serve, listen>>
    BY <1>30, NextStopAt DEF StopMember, TypeOK
  <2>2. c \in Members => serve[c] \in InRoom
    BY NoMemberAssumption DEF RoomInv, RoomOK, Attending
  <2>3. \/ pub[c] = "select" /\ pub' = [pub EXCEPT ![c] = "done"] /\ UNCHANGED bcast
        \/ bcast[c] = "poll" /\ bcast' = [bcast EXCEPT ![c] = "done"] /\ UNCHANGED pub
    BY <1>30 DEF StopMember
  <2>4. ASSUME NEW m \in Members
        PROVE  /\ serve[m] \notin InRoom => pub'[m] = pub[m] /\ bcast'[m] = bcast[m]
               /\ serve[m] # "served" => bcast'[m] = bcast[m]
               /\ bcast'[m] \in {bcast[m], "done"}
    BY <2>2, <2>3 DEF GateInv, TypeOK
  <2>5. ASSUME NEW m \in Members, bcast'[m] = "ready"
        PROVE  serve'[m] \in {"broadcastReady", "stop", "failed"}
    BY <2>1, <2>4, <2>5 DEF HandshakeInv
  <2>6. QED
    BY <2>1, <2>4, <2>5 DEF HandshakeInv, InRoom
<1>31. ASSUME NEW m \in Members,
             SendFailedPanics(m) \/ GiveUp(m) \/ Close(m)
      PROVE  UNCHANGED <<serve, listen, bcast, pub, closed>>
  BY <1>31 DEF SendFailedPanics, GiveUp, Close, Die
<1>32. ASSUME NEW n \in Nodes,
             Subscribe(n) \/ SubscribeFails(n) \/ Evict(n) \/ Receive(n) \/
             NotifyTimeout(n) \/ Crash(n) \/ MapFault(n)
      PROVE  UNCHANGED <<serve, listen, bcast, pub, closed>>
  BY <1>32 DEF Subscribe, SubscribeFails, Evict, Receive, NotifyTimeout, Crash, MapFault,
         Die
<1>33. CASE \/ \E x \in Deadlines : Expire(x)
            \/ \E msg \in gaveUp : ExecuteLate(msg)
            \/ UNCHANGED vars
  BY <1>1, <1>33 DEF Expire, ExecuteLate, vars
<1>34. QED
  BY <1>1, <1>2, <1>3, <1>4, <1>5, <1>6, <1>7, <1>8, <1>9, <1>10, <1>11, <1>12,
     <1>13, <1>14, <1>15, <1>16, <1>17, <1>18, <1>19, <1>20, <1>21, <1>22, <1>23,
     <1>24, <1>25, <1>26, <1>27, <1>28, <1>29, <1>30, <1>31, <1>32, <1>33
  DEF Next, ServeStep, ListenStep, BroadcastStep, PublishStep, SetupStep, RoomStep

\* Every step keeps Publish there as long as Broadcast may send to it.
LEMMA OutboundStep ==
    ASSUME TypeOK, GateInv, RoomInv, ClosedInv, HandshakeInv, OutboundInv, [Next]_vars
    PROVE  OutboundInv'
<1>0. DOMAIN serve = Members /\ DOMAIN bcast = Members /\ DOMAIN pub = Members
  BY DEF TypeOK
<1>1. CASE UNCHANGED <<serve, bcast, pub, setup>>
  BY <1>1 DEF GateInv, HandshakeInv, OutboundInv, SetupFailed
<1>2. ASSUME NEW m \in Members, ServeRoom(m) PROVE OutboundInv'
  BY <1>0, <1>2 DEF ServeRoom, GateInv, HandshakeInv, OutboundInv, SetupFailed
<1>3. ASSUME NEW m \in Members, ListenReady(m) PROVE OutboundInv'
  BY <1>0, <1>3 DEF ListenReady, GateInv, HandshakeInv, OutboundInv, SetupFailed
<1>4. ASSUME NEW m \in Members, ListenTimeout(m) PROVE OutboundInv'
  BY <1>0, <1>4 DEF ListenTimeout, GateInv, HandshakeInv, OutboundInv, SetupFailed
<1>5. ASSUME NEW m \in Members, BroadcastReady(m) PROVE OutboundInv'
  BY <1>0, <1>5 DEF BroadcastReady, GateInv, HandshakeInv, OutboundInv, SetupFailed
<1>6. ASSUME NEW m \in Members, BroadcastTimeout(m) PROVE OutboundInv'
  BY <1>0, <1>6 DEF BroadcastTimeout, GateInv, HandshakeInv, OutboundInv, SetupFailed
<1>7. ASSUME NEW m \in Members, InsertMember(m) PROVE OutboundInv'
  BY <1>0, <1>7 DEF InsertMember, GateInv, HandshakeInv, OutboundInv, SetupFailed
<1>8. ASSUME NEW m \in Members, InsertMemberFails(m) PROVE OutboundInv'
  BY <1>0, <1>8 DEF InsertMemberFails, GateInv, HandshakeInv, OutboundInv, SetupFailed
<1>9. ASSUME NEW m \in Members, ServeStops(m) PROVE OutboundInv'
  BY <1>0, <1>9 DEF ServeStops, GateInv, HandshakeInv, OutboundInv, SetupFailed
<1>10. ASSUME NEW m \in Members, BeginAddMember(m) PROVE OutboundInv'
  BY <1>0, <1>10 DEF BeginAddMember, GateInv, HandshakeInv, OutboundInv, SetupFailed
<1>11. ASSUME NEW m \in Members, EndAddMember(m) PROVE OutboundInv'
  BY <1>0, <1>11 DEF EndAddMember, GateInv, HandshakeInv, OutboundInv, SetupFailed
<1>12. ASSUME NEW m \in Members, PublishJoined(m) PROVE OutboundInv'
  BY <1>0, <1>12 DEF PublishJoined, GateInv, HandshakeInv, OutboundInv, SetupFailed
<1>13. ASSUME NEW m \in Members, StartBroadcast(m) PROVE OutboundInv'
  BY <1>0, <1>13 DEF StartBroadcast, GateInv, HandshakeInv, OutboundInv, SetupFailed
<1>14. ASSUME NEW m \in Members, Poll(m) PROVE OutboundInv'
  BY <1>0, <1>14 DEF Poll, GateInv, HandshakeInv, OutboundInv, SetupFailed
<1>15. ASSUME NEW m \in Members, ReadError(m) PROVE OutboundInv'
  BY <1>0, <1>15 DEF ReadError, GateInv, HandshakeInv, OutboundInv, SetupFailed
<1>16. ASSUME NEW m \in Members, TakeChat(m) PROVE OutboundInv'
  BY <1>0, <1>16 DEF TakeChat, GateInv, HandshakeInv, OutboundInv, SetupFailed
<1>17. ASSUME NEW m \in Members, TakeLeft(m) PROVE OutboundInv'
  BY <1>0, <1>17 DEF TakeLeft, GateInv, HandshakeInv, OutboundInv, SetupFailed
<1>18. ASSUME NEW m \in Members, InsertMessage(m) PROVE OutboundInv'
  BY <1>0, <1>18 DEF InsertMessage, GateInv, HandshakeInv, OutboundInv, SetupFailed
<1>19. ASSUME NEW m \in Members, InsertMessageFails(m) PROVE OutboundInv'
  BY <1>0, <1>19 DEF InsertMessageFails, GateInv, HandshakeInv, OutboundInv, SetupFailed
<1>20. ASSUME NEW m \in Members, PublishChat(m) PROVE OutboundInv'
  BY <1>0, <1>20 DEF PublishChat, GateInv, HandshakeInv, OutboundInv, SetupFailed
<1>21. ASSUME NEW m \in Members, SendFailed(m) PROVE OutboundInv'
  BY <1>0, <1>21 DEF SendFailed, GateInv, HandshakeInv, OutboundInv, SetupFailed
<1>22. ASSUME NEW m \in Members, DeleteMember(m) PROVE OutboundInv'
  BY <1>0, <1>22 DEF DeleteMember, GateInv, HandshakeInv, OutboundInv, SetupFailed
<1>23. ASSUME NEW m \in Members, DeleteMemberFails(m) PROVE OutboundInv'
  BY <1>0, <1>23 DEF DeleteMemberFails, GateInv, HandshakeInv, OutboundInv, SetupFailed
<1>24. ASSUME NEW m \in Members, PublishLeft(m) PROVE OutboundInv'
  BY <1>0, <1>24 DEF PublishLeft, GateInv, HandshakeInv, OutboundInv, SetupFailed
<1>25. ASSUME NEW m \in Members, ReadChat(m) PROVE OutboundInv'
  BY <1>0, <1>25 DEF ReadChat, GateInv, HandshakeInv, OutboundInv, SetupFailed
<1>26. ASSUME NEW n \in Nodes, Subscribe(n) PROVE OutboundInv'
  <2>1. UNCHANGED <<serve, bcast, pub>> /\ \A o \in Nodes : SetupFailed(o) => SetupFailed(o)'
    BY <1>26 DEF Subscribe, SetupFailed, TypeOK
  <2>2. QED
    BY <2>1, HomeAssumption DEF OutboundInv
<1>27. ASSUME NEW n \in Nodes, SubscribeFails(n) PROVE OutboundInv'
  <2>1. UNCHANGED <<serve, bcast, pub>> /\ \A o \in Nodes : SetupFailed(o) => SetupFailed(o)'
    BY <1>27 DEF SubscribeFails, SetupFailed, TypeOK
  <2>2. QED
    BY <2>1, HomeAssumption DEF OutboundInv
<1>28. ASSUME NEW n \in Nodes, Evict(n) PROVE OutboundInv'
  <2>1. UNCHANGED <<serve, bcast, pub>> /\ \A o \in Nodes : SetupFailed(o) => SetupFailed(o)'
    BY <1>28 DEF Evict, SetupFailed, TypeOK
  <2>2. QED
    BY <2>1, HomeAssumption DEF OutboundInv
<1>29. ASSUME NEW n \in Nodes, StopMember(n) PROVE OutboundInv'
  <2> DEFINE c == room[n].cur
  <2>1. UNCHANGED <<serve, setup>>
    BY <1>29 DEF StopMember
  <2>2. SetupFailed(n) /\ (c \in Members => Home[c] = n)
    BY <1>29, NoMemberAssumption DEF StopMember, ClosedInv, RoomInv, RoomOK, Attending
  <2>3. \/ pub' = [pub EXCEPT ![c] = "done"] /\ UNCHANGED bcast
        \/ bcast' = [bcast EXCEPT ![c] = "done"] /\ UNCHANGED pub
    BY <1>29 DEF StopMember
  <2>4. ASSUME NEW m \in Members, ~SetupFailed(Home[m])
        PROVE  pub'[m] = pub[m] /\ bcast'[m] = bcast[m]
    BY <2>2, <2>3, <2>4 DEF TypeOK
  <2>5. QED
    BY <2>1, <2>4 DEF OutboundInv, SetupFailed
<1>30. ASSUME NEW m \in Members,
             WriteMessage(m) \/ ListenClosed(m) \/ SendFailedPanics(m) \/
             GiveUp(m) \/ Close(m)
      PROVE  UNCHANGED <<serve, bcast, pub, setup>>
  BY <1>30 DEF WriteMessage, ListenClosed, SendFailedPanics, GiveUp, Close, Die
<1>31. ASSUME NEW n \in Nodes,
             Receive(n) \/ Notify(n) \/ NotifyTimeout(n) \/ ReceiveClosed(n) \/
             Crash(n) \/ MapFault(n)
      PROVE  UNCHANGED <<serve, bcast, pub, setup>>
  BY <1>31 DEF Receive, Notify, NotifyTimeout, ReceiveClosed, Crash, MapFault, Die, HandTo
<1>32. CASE \/ \E x \in Deadlines : Expire(x)
            \/ \E msg \in gaveUp : ExecuteLate(msg)
            \/ UNCHANGED vars
  BY <1>1, <1>32 DEF Expire, ExecuteLate, vars
<1>33. QED
  BY <1>1, <1>2, <1>3, <1>4, <1>5, <1>6, <1>7, <1>8, <1>9, <1>10, <1>11, <1>12,
     <1>13, <1>14, <1>15, <1>16, <1>17, <1>18, <1>19, <1>20, <1>21, <1>22, <1>23,
     <1>24, <1>25, <1>26, <1>27, <1>28, <1>29, <1>30, <1>31, <1>32
  DEF Next, ServeStep, ListenStep, BroadcastStep, PublishStep, SetupStep, RoomStep

-----------------------------------------------------------------------------
(* Halting Publish                                                         *)

\* What HaltInv says of a member.
HaltOK(m) ==
    /\ pub[m] \in {"delete", "publishLeft"} => bcast[m] = "done"
    /\ serve[m] \in InRoom => pub[m] # "none"
    /\ serve[m] \in InRoom /\ pub[m] = "done" /\ bcast[m] # "done" =>
         LET r == room[Home[m]] IN
         r.at \in {"stop", "done"} /\ m \notin r.todo \cup {r.cur}

\* It is enough to look at the member whose thread moved.
LEMMA HaltMoved ==
    ASSUME TypeOK, HaltInv, NEW m \in Members, UNCHANGED room,
           \A o \in Members \ {m} : serve'[o] = serve[o] /\ bcast'[o] = bcast[o] /\ pub'[o] = pub[o],
           HaltOK(m)'
    PROVE  HaltInv'
<1>1. ASSUME NEW o \in Members PROVE HaltOK(o)'
  <2>1. CASE o = m
    BY <2>1
  <2>2. CASE o # m
    BY <2>2 DEF HaltInv, HaltOK
  <2>3. QED
    BY <2>1, <2>2
<1>2. QED
  BY <1>1 DEF HaltOK, HaltInv

\* A room that was not closing has nobody who was halted, and may go on as it likes.
LEMMA HaltNotClosing ==
    ASSUME HaltInv, NEW n \in Nodes, room[n].at \notin {"stop", "done"},
           \A o \in Nodes \ {n} : room'[o] = room[o],
           UNCHANGED <<serve, bcast, pub>>
    PROVE  HaltInv'
<1>1. \A m \in Members : Home[m] \in Nodes
  BY HomeAssumption
<1>2. ASSUME NEW m \in Members PROVE HaltOK(m)'
  BY <1>1 DEF HaltInv, HaltOK
<1>3. QED
  BY <1>2 DEF HaltOK, HaltInv

\* Every step keeps it so.
LEMMA HaltStep ==
    ASSUME TypeOK, GateInv, RoomInv, ClosedInv, HandshakeInv, HaltInv, [Next]_vars
    PROVE  HaltInv'
<1>0. /\ DOMAIN serve = Members /\ DOMAIN bcast = Members /\ DOMAIN pub = Members
      /\ DOMAIN room = Nodes
  BY DEF TypeOK
<1>1. CASE UNCHANGED <<serve, bcast, pub, room>>
  BY <1>1 DEF HaltInv
<1>2. ASSUME NEW m \in Members, ServeRoom(m) PROVE HaltInv'
  <2>1. HaltOK(m)'
    BY <1>0, <1>2 DEF ServeRoom, GateInv, HandshakeInv, HaltInv, HaltOK, InRoom
  <2>2. QED
    BY <1>0, <1>2, <2>1, HaltMoved DEF ServeRoom
<1>3. ASSUME NEW m \in Members, ListenReady(m) PROVE HaltInv'
  <2>1. HaltOK(m)'
    BY <1>0, <1>3 DEF ListenReady, GateInv, HandshakeInv, HaltInv, HaltOK, InRoom
  <2>2. QED
    BY <1>0, <1>3, <2>1, HaltMoved DEF ListenReady
<1>4. ASSUME NEW m \in Members, ListenTimeout(m) PROVE HaltInv'
  <2>1. HaltOK(m)'
    BY <1>0, <1>4 DEF ListenTimeout, GateInv, HandshakeInv, HaltInv, HaltOK, InRoom
  <2>2. QED
    BY <1>0, <1>4, <2>1, HaltMoved DEF ListenTimeout
<1>5. ASSUME NEW m \in Members, BroadcastReady(m) PROVE HaltInv'
  <2>1. HaltOK(m)'
    BY <1>0, <1>5 DEF BroadcastReady, GateInv, HandshakeInv, HaltInv, HaltOK, InRoom
  <2>2. QED
    BY <1>0, <1>5, <2>1, HaltMoved DEF BroadcastReady
<1>6. ASSUME NEW m \in Members, BroadcastTimeout(m) PROVE HaltInv'
  <2>1. HaltOK(m)'
    BY <1>0, <1>6 DEF BroadcastTimeout, GateInv, HandshakeInv, HaltInv, HaltOK, InRoom
  <2>2. QED
    BY <1>0, <1>6, <2>1, HaltMoved DEF BroadcastTimeout
<1>7. ASSUME NEW m \in Members, InsertMember(m) PROVE HaltInv'
  <2>1. HaltOK(m)'
    BY <1>0, <1>7 DEF InsertMember, GateInv, HandshakeInv, HaltInv, HaltOK, InRoom
  <2>2. QED
    BY <1>0, <1>7, <2>1, HaltMoved DEF InsertMember
<1>8. ASSUME NEW m \in Members, InsertMemberFails(m) PROVE HaltInv'
  <2>1. HaltOK(m)'
    BY <1>0, <1>8 DEF InsertMemberFails, GateInv, HandshakeInv, HaltInv, HaltOK, InRoom
  <2>2. QED
    BY <1>0, <1>8, <2>1, HaltMoved DEF InsertMemberFails
<1>9. ASSUME NEW m \in Members, ServeStops(m) PROVE HaltInv'
  <2>1. HaltOK(m)'
    BY <1>0, <1>9 DEF ServeStops, GateInv, HandshakeInv, HaltInv, HaltOK, InRoom
  <2>2. QED
    BY <1>0, <1>9, <2>1, HaltMoved DEF ServeStops
<1>10. ASSUME NEW m \in Members, BeginAddMember(m) PROVE HaltInv'
  <2>1. HaltOK(m)'
    BY <1>0, <1>10 DEF BeginAddMember, GateInv, HandshakeInv, HaltInv, HaltOK, InRoom
  <2>2. QED
    BY <1>0, <1>10, <2>1, HaltMoved DEF BeginAddMember
<1>11. ASSUME NEW m \in Members, PublishJoined(m) PROVE HaltInv'
  <2>1. HaltOK(m)'
    BY <1>0, <1>11 DEF PublishJoined, GateInv, HandshakeInv, HaltInv, HaltOK, InRoom
  <2>2. QED
    BY <1>0, <1>11, <2>1, HaltMoved DEF PublishJoined
<1>12. ASSUME NEW m \in Members, StartBroadcast(m) PROVE HaltInv'
  <2>1. HaltOK(m)'
    BY <1>0, <1>12 DEF StartBroadcast, GateInv, HandshakeInv, HaltInv, HaltOK, InRoom
  <2>2. QED
    BY <1>0, <1>12, <2>1, HaltMoved DEF StartBroadcast
<1>13. ASSUME NEW m \in Members, Poll(m) PROVE HaltInv'
  <2>1. HaltOK(m)'
    BY <1>0, <1>13 DEF Poll, GateInv, HandshakeInv, HaltInv, HaltOK, InRoom
  <2>2. QED
    BY <1>0, <1>13, <2>1, HaltMoved DEF Poll
<1>14. ASSUME NEW m \in Members, ReadChat(m) PROVE HaltInv'
  <2>1. HaltOK(m)'
    BY <1>0, <1>14 DEF ReadChat, GateInv, HandshakeInv, HaltInv, HaltOK, InRoom
  <2>2. QED
    BY <1>0, <1>14, <2>1, HaltMoved DEF ReadChat
<1>15. ASSUME NEW m \in Members, ReadError(m) PROVE HaltInv'
  <2>1. HaltOK(m)'
    BY <1>0, <1>15 DEF ReadError, GateInv, HandshakeInv, HaltInv, HaltOK, InRoom
  <2>2. QED
    BY <1>0, <1>15, <2>1, HaltMoved DEF ReadError
<1>16. ASSUME NEW m \in Members, TakeChat(m) PROVE HaltInv'
  <2>1. HaltOK(m)'
    BY <1>0, <1>16 DEF TakeChat, GateInv, HandshakeInv, HaltInv, HaltOK, InRoom
  <2>2. QED
    BY <1>0, <1>16, <2>1, HaltMoved DEF TakeChat
<1>17. ASSUME NEW m \in Members, TakeLeft(m) PROVE HaltInv'
  <2>1. HaltOK(m)'
    BY <1>0, <1>17 DEF TakeLeft, GateInv, HandshakeInv, HaltInv, HaltOK, InRoom
  <2>2. QED
    BY <1>0, <1>17, <2>1, HaltMoved DEF TakeLeft
<1>18. ASSUME NEW m \in Members, InsertMessage(m) PROVE HaltInv'
  <2>1. HaltOK(m)'
    BY <1>0, <1>18 DEF InsertMessage, GateInv, HandshakeInv, HaltInv, HaltOK, InRoom
  <2>2. QED
    BY <1>0, <1>18, <2>1, HaltMoved DEF InsertMessage
<1>19. ASSUME NEW m \in Members, InsertMessageFails(m) PROVE HaltInv'
  <2>1. HaltOK(m)'
    BY <1>0, <1>19 DEF InsertMessageFails, GateInv, HandshakeInv, HaltInv, HaltOK, InRoom
  <2>2. QED
    BY <1>0, <1>19, <2>1, HaltMoved DEF InsertMessageFails
<1>20. ASSUME NEW m \in Members, PublishChat(m) PROVE HaltInv'
  <2>1. HaltOK(m)'
    BY <1>0, <1>20 DEF PublishChat, GateInv, HandshakeInv, HaltInv, HaltOK, InRoom
  <2>2. QED
    BY <1>0, <1>20, <2>1, HaltMoved DEF PublishChat
<1>21. ASSUME NEW m \in Members, SendFailed(m) PROVE HaltInv'
  <2>1. HaltOK(m)'
    BY <1>0, <1>21 DEF SendFailed, GateInv, HandshakeInv, HaltInv, HaltOK, InRoom
  <2>2. QED
    BY <1>0, <1>21, <2>1, HaltMoved DEF SendFailed
<1>22. ASSUME NEW m \in Members, DeleteMember(m) PROVE HaltInv'
  <2>1. HaltOK(m)'
    BY <1>0, <1>22 DEF DeleteMember, GateInv, HandshakeInv, HaltInv, HaltOK, InRoom
  <2>2. QED
    BY <1>0, <1>22, <2>1, HaltMoved DEF DeleteMember
<1>23. ASSUME NEW m \in Members, DeleteMemberFails(m) PROVE HaltInv'
  <2>1. HaltOK(m)'
    BY <1>0, <1>23 DEF DeleteMemberFails, GateInv, HandshakeInv, HaltInv, HaltOK, InRoom
  <2>2. QED
    BY <1>0, <1>23, <2>1, HaltMoved DEF DeleteMemberFails
<1>24. ASSUME NEW m \in Members, PublishLeft(m) PROVE HaltInv'
  <2>1. HaltOK(m)'
    BY <1>0, <1>24 DEF PublishLeft, GateInv, HandshakeInv, HaltInv, HaltOK, InRoom
  <2>2. QED
    BY <1>0, <1>24, <2>1, HaltMoved DEF PublishLeft
<1>25. ASSUME NEW m \in Members, EndAddMember(m) PROVE HaltInv'
  <2> DEFINE h == Home[m]
  <2>1. /\ serve[m] = "adding" /\ serve' = [serve EXCEPT ![m] = "join"]
        /\ UNCHANGED <<bcast, pub>> /\ pub[m] = "select"
    BY <1>25 DEF EndAddMember, HandshakeInv
  <2>2. h \in Nodes /\ room[h] \in RoomState
    BY HomeAssumption DEF TypeOK
  <2>3. /\ \A o \in Nodes : room'[o].at = room[o].at /\ room'[o].cur = room[o].cur
        /\ \A o \in Nodes : room'[o].todo \subseteq room[o].todo \cup {m}
    <3>1. CASE UNCHANGED room
      BY <3>1
    <3>2. CASE room' = [room EXCEPT ![h] = [room[h] EXCEPT !.todo = @ \cup {m}]]
      BY <2>2, <3>2, <1>0 DEF RoomState
    <3>3. QED
      BY <1>25, <3>1, <3>2 DEF EndAddMember
  <2>4. ASSUME NEW o \in Members PROVE HaltOK(o)'
    <3>1. CASE o = m
      BY <2>1, <3>1 DEF HaltOK
    <3>2. CASE o # m
      <4>1. serve'[o] = serve[o] /\ Home[o] \in Nodes
        BY <1>0, <2>1, <3>2, HomeAssumption
      <4>2. QED
        BY <2>1, <2>3, <3>2, <4>1 DEF HaltInv, HaltOK
    <3>3. QED
      BY <3>1, <3>2
  <2>5. QED
    BY <2>4 DEF HaltInv, HaltOK
<1>26. ASSUME NEW n \in Nodes, Receive(n) PROVE HaltInv'
  <2>1. PICK i \in sub[n] : NextNotify(n, i, members'[n])
    BY <1>26 DEF Receive
  <2>2. QED
    BY <1>26, <2>1, NextNotifyAt, HaltNotClosing DEF Receive, TypeOK
<1>27. ASSUME NEW n \in Nodes, Notify(n) PROVE HaltInv'
  BY <1>27, NextNotifyAt, HaltNotClosing DEF Notify, TypeOK
<1>28. ASSUME NEW n \in Nodes, NotifyTimeout(n) PROVE HaltInv'
  BY <1>28, NextNotifyAt, HaltNotClosing DEF NotifyTimeout, TypeOK
<1>29. ASSUME NEW n \in Nodes, ReceiveClosed(n) PROVE HaltInv'
  BY <1>29, NextStopAt, HaltNotClosing DEF ReceiveClosed, TypeOK
<1>30. ASSUME NEW n \in Nodes, StopMember(n) PROVE HaltInv'
  <2> DEFINE c == room[n].cur
  <2>1. /\ room[n].at = "stop" /\ NextStop(n, room[n].todo)
        /\ UNCHANGED serve
    BY <1>30 DEF StopMember
  <2>2. c \in Members /\ c \notin room[n].todo /\ Home[c] = n
    BY <2>1, NoMemberAssumption DEF RoomInv, RoomOK, Attending
  <2>3. /\ room'[n].at \in {"stop", "done"}
        /\ room'[n].todo \cup ({room'[n].cur} \ {NoMember}) \subseteq room[n].todo
        /\ \A o \in Nodes \ {n} : room'[o] = room[o]
    BY <2>1, <1>0 DEF NextStop, Idle
  <2>4. /\ \/ pub' = [pub EXCEPT ![c] = "done"] /\ bcast' = bcast
           \/ bcast' = [bcast EXCEPT ![c] = "done"] /\ pub' = pub
    BY <1>30 DEF StopMember
  <2>5. ASSUME NEW o \in Members PROVE HaltOK(o)'
    <3>1. CASE o = c
      <4>1. o \notin room'[n].todo \cup {room'[n].cur}
        BY <2>2, <2>3, <3>1, NoMemberAssumption
      <4>2. QED
        BY <1>0, <2>1, <2>2, <2>3, <2>4, <3>1, <4>1 DEF HaltInv, HaltOK
    <3>2. CASE o # c
      <4>1. pub'[o] = pub[o] /\ bcast'[o] = bcast[o] /\ Home[o] \in Nodes
        BY <1>0, <2>4, <3>2, HomeAssumption
      <4>2. CASE Home[o] = n
        <5>1. o \notin room[n].todo => o \notin room'[n].todo \cup {room'[n].cur}
          BY <2>3, NoMemberAssumption
        <5>2. QED
          BY <2>1, <2>3, <4>1, <4>2, <5>1 DEF HaltInv, HaltOK
      <4>3. CASE Home[o] # n
        BY <2>1, <2>3, <4>1, <4>3 DEF HaltInv, HaltOK
      <4>4. QED
        BY <4>2, <4>3
    <3>3. QED
      BY <3>1, <3>2
  <2>6. QED
    BY <2>5 DEF HaltInv, HaltOK
<1>31. ASSUME NEW m \in Members,
             WriteMessage(m) \/ ListenClosed(m) \/ SendFailedPanics(m) \/ GiveUp(m) \/ Close(m)
      PROVE  UNCHANGED <<serve, bcast, pub, room>>
  BY <1>31 DEF WriteMessage, ListenClosed, SendFailedPanics, GiveUp, Close, Die
<1>32. ASSUME NEW n \in Nodes,
             Subscribe(n) \/ SubscribeFails(n) \/ Evict(n) \/ Crash(n) \/ MapFault(n)
      PROVE  UNCHANGED <<serve, bcast, pub, room>>
  BY <1>32 DEF Subscribe, SubscribeFails, Evict, Crash, MapFault, Die
<1>33. CASE \/ \E x \in Deadlines : Expire(x)
            \/ \E msg \in gaveUp : ExecuteLate(msg)
            \/ UNCHANGED vars
  BY <1>1, <1>33 DEF Expire, ExecuteLate, vars
<1>34. QED
  BY <1>1, <1>2, <1>3, <1>4, <1>5, <1>6, <1>7, <1>8, <1>9, <1>10, <1>11, <1>12,
     <1>13, <1>14, <1>15, <1>16, <1>17, <1>18, <1>19, <1>20, <1>21, <1>22, <1>23, <1>24,
     <1>25, <1>26, <1>27, <1>28, <1>29, <1>30, <1>31, <1>32, <1>33
  DEF Next, ServeStep, ListenStep, BroadcastStep, PublishStep, SetupStep, RoomStep

-----------------------------------------------------------------------------
(* The theorems                                                            *)

\* ThreadInv is an inductive invariant of the room, together with IInv.
THEOREM ThreadsInductive == Spec => []ThreadInv
<1>1. Init => ThreadInv
  <2> SUFFICES ASSUME Init PROVE ThreadInv
    OBVIOUS
  <2>1. Idle.at = "recv"
    BY DEF Idle
  <2>2. AbortInv /\ HandshakeInv /\ OutboundInv /\ HaltInv
    BY DEF Init, AbortInv, HandshakeInv, OutboundInv, HaltInv, InRoom
  <2>3. ClosedInv
    BY <2>1 DEF Init, ClosedInv
  <2>4. QED
    BY <2>2, <2>3 DEF ThreadInv
<1>2. IInv /\ ThreadInv /\ [Next]_vars => ThreadInv'
  BY AbortStep, ClosedStep, HandshakeStep, OutboundStep, HaltStep DEF IInv, ThreadInv
<1>3. QED
  BY <1>1, <1>2, Inductive, PTL DEF Spec

\* A ServeRoom call that returned an error has halted its Publish goroutine, and
\* its member is not in the room, and has neither read nor published anything.
THEOREM AbortedTakesNoPart == Spec => []FailedNotServed
<1>1. IInv /\ ThreadInv => FailedNotServed
  <2> SUFFICES ASSUME IInv, ThreadInv, NEW m \in Members, serve[m] = "failed"
               PROVE  /\ pub[m] \in {"none", "done"}
                      /\ m \notin members[Home[m]] /\ seen[m] = {}
                      /\ \A i \in DOMAIN topic : topic[i].member # m
    BY DEF FailedNotServed
  <2>1. seen[m] = {}
    BY DEF IInv, ReaderInv, ReaderOK, Got, InRoom
  <2>2. m \notin members[Home[m]]
    BY HomeAssumption DEF IInv, RoomInv, RoomOK, Attending, InRoom
  <2>3. QED
    BY <2>1, <2>2 DEF ThreadInv, AbortInv, InRoom
<1>2. QED
  BY <1>1, Inductive, ThreadsInductive, PTL

\* Of every send from goroutine to goroutine it is known who stands there and what
\* its receiver does.  A sender without a receiver is the Listen or the Broadcast of an
\* aborted ServeRoom call, at its handshake, or one of an instance whose Subscribe failed.
THEOREM SendersAreMet == Spec => []SendersMeet
<1>1. IInv /\ ThreadInv => SendersMeet
  <2> SUFFICES ASSUME IInv, ThreadInv PROVE SendersMeet
    OBVIOUS
  <2>1. ASSUME NEW m \in Members
        PROVE  /\ listen[m] = "ready" => serve[m] \in {"listenReady", "failed"}
               /\ bcast[m] = "ready" => serve[m] \in {"broadcastReady", "stop", "failed"}
               /\ serve[m] = "start" => bcast[m] = "waitStart"
               /\ serve[m] = "stop" => pub[m] = "select"
    BY DEF ThreadInv, HandshakeInv
  <2>2. ASSUME NEW m \in Members, pub[m] = "reply", m \notin closed
        PROVE  listen[m] \in {"recv", "write"}
    BY <2>2 DEF IInv, GateInv, ThreadInv, HandshakeInv
  <2>3. ASSUME NEW m \in Members, bcast[m] \in {"sendChat", "sendLeft"}
        PROVE  \/ pub[m] \in {"select", "insert", "reply", "publish"}
               \/ pub[m] = "done" /\ setup[Home[m]] \notin {"pending", "ok"}
    <3>1. serve[m] = "served" /\ Home[m] \in Nodes
      BY <2>3, HomeAssumption DEF IInv, GateInv
    <3>2. pub[m] \in {"select", "insert", "reply", "publish", "done"}
      BY <2>3, <3>1 DEF IInv, TypeOK, ThreadInv, HaltInv, InRoom
    <3>3. pub[m] = "done" => SetupFailed(Home[m])
      BY <2>3 DEF ThreadInv, OutboundInv
    <3>4. QED
      BY <3>2, <3>3 DEF SetupFailed
  <2>4. ASSUME NEW n \in Nodes, room[n].at = "notify"
        PROVE  listen[room[n].cur] \in {"recv", "write"}
    <3> DEFINE c == room[n].cur
    <3>1. c \in Members /\ Home[c] = n /\ serve[c] \in InRoom
      BY <2>4, NoMemberAssumption DEF IInv, RoomInv, RoomOK, Attending
    <3>2. c \notin closed
      BY <2>4, <3>1 DEF ThreadInv, ClosedInv, InRoom
    <3>3. QED
      BY <3>1, <3>2 DEF ThreadInv, HandshakeInv, InRoom
  <2>5. ASSUME NEW n \in Nodes, room[n].at = "stop", pub[room[n].cur] = "done"
        PROVE  bcast[room[n].cur] = "done"
    <3> DEFINE c == room[n].cur
    <3>1. c \in Members /\ Home[c] = n /\ serve[c] \in InRoom
      BY <2>5, NoMemberAssumption DEF IInv, RoomInv, RoomOK, Attending
    <3>2. QED
      BY <2>5, <3>1 DEF ThreadInv, HaltInv
  <2>6. QED
    BY <2>1, <2>2, <2>3, <2>4, <2>5 DEF SendersMeet
<1>2. QED
  BY <1>1, Inductive, ThreadsInductive, PTL

\* Only the room.CloseInbound of a failed Subscribe makes a send panic.
THEOREM OnlyFailedSetupPanics == Spec => []PanicNeedsFailedSetup
<1>1. IInv /\ ThreadInv => PanicNeedsFailedSetup
  <2> SUFFICES ASSUME IInv, ThreadInv PROVE PanicNeedsFailedSetup
    OBVIOUS
  <2>1. ASSUME NEW n \in Nodes, room[n].at = "notify"
        PROVE  room[n].cur \notin closed
    <3> DEFINE c == room[n].cur
    <3>1. c \in Members /\ Home[c] = n /\ serve[c] \in InRoom
      BY <2>1, NoMemberAssumption DEF IInv, RoomInv, RoomOK, Attending
    <3>2. QED
      BY <2>1, <3>1 DEF ThreadInv, ClosedInv, InRoom
  <2>2. ASSUME NEW m \in Members, pub[m] = "reply", m \in closed
        PROVE  SetupFailed(Home[m])
    BY <2>2, HomeAssumption DEF IInv, GateInv, ThreadInv, ClosedInv
  <2>3. QED
    BY <2>1, <2>2 DEF PanicNeedsFailedSetup, ThreadInv, ClosedInv
<1>2. QED
  BY <1>1, Inductive, ThreadsInductive, PTL

\* Deadlines pass by Expire alone, and setup ends by the steps of Subscribe.
LEMMA ExpiredOnly ==
    ASSUME [Next]_vars
    PROVE  /\ UNCHANGED expired \/ \E x \in Deadlines : expired' = expired \cup {x}
           /\ UNCHANGED setup \/ \E n \in Nodes : SetupStep(n)
<1>1. ASSUME NEW m \in Members,
             ServeRoom(m) \/ ListenReady(m) \/ ListenTimeout(m) \/ BroadcastReady(m)
             \/ BroadcastTimeout(m) \/ InsertMember(m) \/ InsertMemberFails(m) \/
             ServeStops(m) \/ BeginAddMember(m) \/ EndAddMember(m) \/
             PublishJoined(m) \/ StartBroadcast(m) \/ WriteMessage(m) \/
             ListenClosed(m) \/ Poll(m) \/ ReadError(m) \/ TakeChat(m) \/
             TakeLeft(m) \/ InsertMessage(m) \/ InsertMessageFails(m) \/
             PublishChat(m) \/ SendFailed(m) \/ SendFailedPanics(m) \/
             DeleteMember(m) \/ DeleteMemberFails(m) \/ PublishLeft(m) \/
             GiveUp(m) \/ ReadChat(m) \/ Close(m)
      PROVE  UNCHANGED <<expired, setup>>
  BY <1>1 DEF ServeRoom, ListenReady, ListenTimeout, BroadcastReady, BroadcastTimeout,
         InsertMember, InsertMemberFails, ServeStops, BeginAddMember, EndAddMember,
         PublishJoined, StartBroadcast, WriteMessage, ListenClosed, Poll, ReadError,
         TakeChat, TakeLeft, InsertMessage, InsertMessageFails, PublishChat,
         SendFailed, SendFailedPanics, DeleteMember, DeleteMemberFails, PublishLeft,
         GiveUp, ReadChat, Close, HandTo, Die
<1>2. ASSUME NEW n \in Nodes,
             Receive(n) \/ Notify(n) \/ NotifyTimeout(n) \/ ReceiveClosed(n) \/
             StopMember(n) \/ Crash(n) \/ MapFault(n)
      PROVE  UNCHANGED <<expired, setup>>
  BY <1>2 DEF Receive, Notify, NotifyTimeout, ReceiveClosed, StopMember, Crash, MapFault,
         HandTo, Die
<1>3. ASSUME NEW n \in Nodes, Subscribe(n) \/ SubscribeFails(n) \/ Evict(n)
      PROVE  UNCHANGED expired /\ SetupStep(n)
  BY <1>3 DEF Subscribe, SubscribeFails, Evict, SetupStep
<1>4. ASSUME NEW x \in Deadlines, Expire(x)
      PROVE  expired' = expired \cup {x} /\ UNCHANGED setup
  BY <1>4 DEF Expire
<1>5. CASE (\E msg \in gaveUp : ExecuteLate(msg)) \/ UNCHANGED vars
  BY <1>5 DEF ExecuteLate, vars
<1>6. QED
  BY <1>1, <1>2, <1>3, <1>4, <1>5
  DEF Next, ServeStep, ListenStep, BroadcastStep, PublishStep, SetupStep, RoomStep

\* Without an error or a timeout of Subscribe, no instance's setup fails.
LEMMA SetupSucceeds ==
    ASSUME "setup" \notin Faults, Deadlines \cap Nodes = {}
    PROVE  Spec => [](\A n \in Nodes : ~SetupFailed(n))
<1> DEFINE SetupInv == expired \subseteq Deadlines /\ \A n \in Nodes : ~SetupFailed(n)
<1>1. Init => SetupInv
  BY DEF Init, SetupFailed
<1>2. TypeOK /\ SetupInv /\ [Next]_vars => SetupInv'
  <2> SUFFICES ASSUME TypeOK, SetupInv, [Next]_vars PROVE SetupInv'
    OBVIOUS
  <2>1. expired' \subseteq Deadlines
    BY ExpiredOnly
  <2>2. ASSUME NEW n \in Nodes, SetupStep(n) PROVE \A o \in Nodes : ~SetupFailed(o)'
    <3>1. Subscribe(n)
      BY <2>2 DEF SetupStep, SubscribeFails, Evict, SetupFailed
    <3>2. QED
      BY <3>1 DEF Subscribe, SetupFailed, TypeOK
  <2>3. CASE UNCHANGED setup
    BY <2>1, <2>3 DEF SetupFailed
  <2>4. QED
    BY <2>1, <2>2, <2>3, ExpiredOnly
<1>3. SetupInv => \A n \in Nodes : ~SetupFailed(n)
  OBVIOUS
<1>4. QED
  BY <1>1, <1>2, <1>3, TypeCorrect, PTL DEF Spec

\* When Subscribe succeeds, no goroutine sends on a closed inbound channel.
THEOREM NoPanicAfterSetup ==
    ASSUME "setup" \notin Faults, Deadlines \cap Nodes = {}
    PROVE  Spec => []NoSendOnClosed
<1>1. PanicNeedsFailedSetup /\ (\A n \in Nodes : ~SetupFailed(n)) => NoSendOnClosed
  BY HomeAssumption DEF PanicNeedsFailedSetup, NoSendOnClosed
<1>2. QED
  BY <1>1, OnlyFailedSetupPanics, SetupSucceeds, PTL
==============================================================================
