--------------------------- MODULE ChatRoomProofs ---------------------------
(***************************************************************************)
(* Proofs about ChatRoom for every set of nodes and members, every number  *)
(* of chats and every combination of faults, deadlines and stalled         *)
(* clients.  One lemma per part of the inductive invariant IInv shows that *)
(* every step preserves it; the theorems follow from IInv.                 *)
(***************************************************************************)
EXTENDS ChatRoomInv, TLAPS

USE DEF envVars, dbVars, queueVars, readVars, nodeVars

TypeInv == TypeOK /\ CountInv

-----------------------------------------------------------------------------
(* Facts about the operators                                               *)

\* The three messages a member produces are messages of the room.
LEMMA MessageTypes ==
    ASSUME NEW m \in Members
    PROVE  /\ Joined(m) \in Message /\ Left(m) \in Message
           /\ \A k \in 0 .. MaxChats : Chat(m, k) \in Message
BY MaxChatsAssumption DEF Joined, Left, Chat, Message

\* A PUBLISH Redis executes keeps the topic a sequence of messages and the
\* subscriptions sets of indexes.
LEMMA AcceptType ==
    ASSUME NEW msg \in Message, topic \in Seq(Message),
           sub \in [Nodes -> SUBSET Nat], Accept(msg)
    PROVE  topic' \in Seq(Message) /\ sub' \in [Nodes -> SUBSET Nat]
BY DEF Accept

\* The next step of a room's notification loop leaves the room in a typed
\* state.
LEMMA NextNotifyType ==
    ASSUME NEW n \in Nodes, NEW i \in Nat, NEW rest \in SUBSET Members,
           room \in [Nodes -> RoomState], NextNotify(n, i, rest)
    PROVE  room' \in [Nodes -> RoomState]
<1>1. Idle \in RoomState
  BY DEF Idle, RoomState, NoIndex
<1>2. \A m \in rest :
        [at |-> "notify", msg |-> i, cur |-> m, todo |-> rest \ {m}] \in RoomState
  BY DEF RoomState
<1>3. QED
  BY <1>1, <1>2 DEF NextNotify

\* The next step of a room's closing loop leaves the room in a typed state.
LEMMA NextStopType ==
    ASSUME NEW n \in Nodes, NEW rest \in SUBSET Members, closed \in SUBSET Members,
           room \in [Nodes -> RoomState], NextStop(n, rest)
    PROVE  room' \in [Nodes -> RoomState] /\ closed' \in SUBSET Members
<1>1. [Idle EXCEPT !.at = "done"] \in RoomState
  BY DEF Idle, RoomState, NoIndex
<1>2. \A m \in rest :
        [at |-> "stop", msg |-> NoIndex, cur |-> m, todo |-> rest \ {m}] \in RoomState
  BY DEF RoomState, NoIndex
<1>3. QED
  BY <1>1, <1>2 DEF NextStop

-----------------------------------------------------------------------------
(* Types                                                                   *)

\* Every step keeps the types, and the counting they rest on.
LEMMA TypeInvStep == TypeInv /\ [Next]_vars => TypeInv'
<1> SUFFICES ASSUME TypeInv, [Next]_vars PROVE TypeInv'
  OBVIOUS
<1> USE HomeAssumption, BoundAssumption, ChoiceAssumption, MaxChatsAssumption DEF TypeInv, CountInv, TypeOK, Up
<1>1. ASSUME NEW m \in Members, ServeRoom(m) PROVE TypeInv'
  BY <1>1 DEF ServeRoom
<1>2. ASSUME NEW m \in Members, ListenReady(m) PROVE TypeInv'
  BY <1>2 DEF ListenReady
<1>3. ASSUME NEW m \in Members, ListenTimeout(m) PROVE TypeInv'
  BY <1>3 DEF ListenTimeout
<1>4. ASSUME NEW m \in Members, BroadcastReady(m) PROVE TypeInv'
  BY <1>4 DEF BroadcastReady
<1>5. ASSUME NEW m \in Members, BroadcastTimeout(m) PROVE TypeInv'
  BY <1>5 DEF BroadcastTimeout
<1>6. ASSUME NEW m \in Members, InsertMember(m) PROVE TypeInv'
  BY <1>6, MessageTypes DEF InsertMember
<1>7. ASSUME NEW m \in Members, InsertMemberFails(m) PROVE TypeInv'
  <2>1. CASE UNCHANGED dbVars
    BY <1>7, <2>1 DEF InsertMemberFails
  <2>2. CASE /\ row' = [row EXCEPT ![m] = "live"]
             /\ stored' = stored \cup {Joined(m)}
    BY <1>7, <2>2, MessageTypes DEF InsertMemberFails
  <2>3. QED
    BY <1>7, <2>1, <2>2 DEF InsertMemberFails
<1>8. ASSUME NEW m \in Members, ServeStops(m) PROVE TypeInv'
  BY <1>8 DEF ServeStops
<1>9. ASSUME NEW m \in Members, BeginAddMember(m) PROVE TypeInv'
  BY <1>9 DEF BeginAddMember
<1>10. ASSUME NEW m \in Members, EndAddMember(m) PROVE TypeInv'
  <2> DEFINE n == Home[m]
  <2>1. n \in Nodes /\ members' \in [Nodes -> SUBSET Members]
    BY <1>10 DEF EndAddMember
  <2>2. room' \in [Nodes -> RoomState]
    <3>1. room[n] \in RoomState
      BY <2>1
    <3>2. [room[n] EXCEPT !.todo = @ \cup {m}] \in RoomState
      BY ONLY <3>1, m \in Members DEF RoomState
    <3>3. CASE UNCHANGED room
      BY <3>3
    <3>4. CASE room' = [room EXCEPT ![n] = [room[n] EXCEPT !.todo = @ \cup {m}]]
      BY <3>2, <3>4
    <3>5. QED
      BY <1>10, <3>3, <3>4 DEF EndAddMember
  <2>3. QED
    BY <1>10, <2>1, <2>2 DEF EndAddMember
<1>11. ASSUME NEW m \in Members, PublishJoined(m) PROVE TypeInv'
  BY <1>11, MessageTypes, AcceptType DEF PublishJoined, QueuePublish
<1>12. ASSUME NEW m \in Members, StartBroadcast(m) PROVE TypeInv'
  BY <1>12 DEF StartBroadcast
<1>13. ASSUME NEW m \in Members, WriteMessage(m) PROVE TypeInv'
  BY <1>13 DEF WriteMessage, NoIndex
<1>14. ASSUME NEW m \in Members, ListenClosed(m) PROVE TypeInv'
  BY <1>14 DEF ListenClosed
<1>15. ASSUME NEW m \in Members, Poll(m) PROVE TypeInv'
  BY <1>15 DEF Poll
<1>16. ASSUME NEW m \in Members, ReadError(m) PROVE TypeInv'
  BY <1>16 DEF ReadError
<1>17. ASSUME NEW m \in Members, TakeChat(m) PROVE TypeInv'
  BY <1>17 DEF TakeChat
<1>18. ASSUME NEW m \in Members, TakeLeft(m) PROVE TypeInv'
  BY <1>18 DEF TakeLeft
<1>19. ASSUME NEW m \in Members, InsertMessage(m) PROVE TypeInv'
  BY <1>19, MessageTypes DEF InsertMessage
<1>20. ASSUME NEW m \in Members, InsertMessageFails(m) PROVE TypeInv'
  BY <1>20, MessageTypes DEF InsertMessageFails
<1>21. ASSUME NEW m \in Members, PublishChat(m) PROVE TypeInv'
  BY <1>21, MessageTypes, AcceptType DEF PublishChat, QueuePublish
<1>22. ASSUME NEW m \in Members, SendFailed(m) PROVE TypeInv'
  BY <1>22 DEF SendFailed, HandTo, NoIndex
<1>23. ASSUME NEW m \in Members, SendFailedPanics(m) PROVE TypeInv'
  BY <1>23 DEF SendFailedPanics, Die
<1>24. ASSUME NEW m \in Members, DeleteMember(m) PROVE TypeInv'
  BY <1>24, MessageTypes DEF DeleteMember
<1>25. ASSUME NEW m \in Members, DeleteMemberFails(m) PROVE TypeInv'
  <2>1. CASE UNCHANGED dbVars
    BY <1>25, <2>1 DEF DeleteMemberFails
  <2>2. CASE /\ row' = [row EXCEPT ![m] = "deleted"]
             /\ stored' = stored \cup {Left(m)}
    BY <1>25, <2>2, MessageTypes DEF DeleteMemberFails
  <2>3. QED
    BY <1>25, <2>1, <2>2 DEF DeleteMemberFails
<1>26. ASSUME NEW m \in Members, PublishLeft(m) PROVE TypeInv'
  BY <1>26, MessageTypes, AcceptType DEF PublishLeft, QueuePublish
<1>27. ASSUME NEW m \in Members, GiveUp(m) PROVE TypeInv'
  BY <1>27, MessageTypes DEF GiveUp, Publishing
<1>28. ASSUME NEW m \in Members, ReadChat(m) PROVE TypeInv'
  BY <1>28 DEF ReadChat
<1>29. ASSUME NEW m \in Members, Close(m) PROVE TypeInv'
  BY <1>29 DEF Close
<1>30. ASSUME NEW n \in Nodes, Subscribe(n) PROVE TypeInv'
  BY <1>30 DEF Subscribe
<1>31. ASSUME NEW n \in Nodes, SubscribeFails(n) PROVE TypeInv'
  BY <1>31 DEF SubscribeFails
<1>32. ASSUME NEW n \in Nodes, Evict(n) PROVE TypeInv'
  BY <1>32 DEF Evict
<1>33. ASSUME NEW n \in Nodes, Receive(n) PROVE TypeInv'
  <2>1. PICK i \in sub[n] : /\ sub' = [sub EXCEPT ![n] = @ \ {i}]
                            /\ members' = [members EXCEPT ![n] = @ \ Departs(i)]
                            /\ NextNotify(n, i, members'[n])
    BY <1>33 DEF Receive
  <2>2. /\ i \in Nat
        /\ sub' \in [Nodes -> SUBSET Nat]
        /\ members' \in [Nodes -> SUBSET Members]
    BY <2>1
  <2>3. room' \in [Nodes -> RoomState]
    BY <2>1, <2>2, NextNotifyType
  <2>4. QED
    BY <1>33, <2>2, <2>3 DEF Receive
<1>34. ASSUME NEW n \in Nodes, Notify(n) PROVE TypeInv'
  <2>1. room[n].cur \in Members \cup {NoMember} /\ room[n].msg \in Nat /\ room[n].todo \in SUBSET Members
    BY DEF RoomState
  <2>2. room' \in [Nodes -> RoomState]
    BY <1>34, <2>1, NextNotifyType DEF Notify
  <2>3. /\ listen' \in [Members -> {"none", "ready", "recv", "write", "done"}]
        /\ hand' \in [Members -> Nat]
    BY <1>34, <2>1 DEF Notify, HandTo
  <2>4. QED
    BY <1>34, <2>2, <2>3 DEF Notify
<1>35. ASSUME NEW n \in Nodes, NotifyTimeout(n) PROVE TypeInv'
  <2>1. room[n].msg \in Nat /\ room[n].todo \in SUBSET Members
    BY DEF RoomState
  <2>2. room' \in [Nodes -> RoomState]
    BY <1>35, <2>1, NextNotifyType DEF NotifyTimeout
  <2>3. QED
    BY <1>35, <2>2 DEF NotifyTimeout
<1>36. ASSUME NEW n \in Nodes, ReceiveClosed(n) PROVE TypeInv'
  BY <1>36, NextStopType DEF ReceiveClosed
<1>37. ASSUME NEW n \in Nodes, StopMember(n) PROVE TypeInv'
  <2>1. room' \in [Nodes -> RoomState] /\ closed' \in SUBSET Members
    BY <1>37, NextStopType DEF StopMember, RoomState
  <2>2. CASE pub' = [pub EXCEPT ![room[n].cur] = "done"] /\ UNCHANGED bcast
    <3>1. UNCHANGED <<serve, chats, status, setup, members, readVars, queueVars, dbVars, envVars>>
      BY <1>37 DEF StopMember
    <3>2. \A m \in Members : pub'[m] \in {pub[m], "done"}
      BY <2>2
    <3>3. QED
      BY <2>1, <2>2, <3>1, <3>2
  <2>3. CASE bcast' = [bcast EXCEPT ![room[n].cur] = "done"] /\ UNCHANGED pub
    <3>1. UNCHANGED <<serve, chats, status, setup, members, readVars, queueVars, dbVars, envVars>>
      BY <1>37 DEF StopMember
    <3>2. \A m \in Members : bcast'[m] \in {bcast[m], "done"}
      BY <2>3
    <3>3. QED
      BY <2>1, <2>3, <3>1, <3>2
  <2>4. QED
    BY <1>37, <2>2, <2>3 DEF StopMember
<1>38. ASSUME NEW n \in Nodes, Crash(n) PROVE TypeInv'
  BY <1>38 DEF Crash, Die, Residents
<1>39. ASSUME NEW n \in Nodes, MapFault(n) PROVE TypeInv'
  BY <1>39 DEF MapFault, Die, Residents
<1>40. ASSUME NEW x \in Deadlines, Expire(x) PROVE TypeInv'
  BY <1>40 DEF Expire
<1>41. ASSUME NEW msg \in gaveUp, ExecuteLate(msg) PROVE TypeInv'
  BY <1>41, AcceptType DEF ExecuteLate
<1>42. CASE UNCHANGED vars
  BY <1>42 DEF vars
<1>43. QED
  BY <1>1, <1>2, <1>3, <1>4, <1>5, <1>6, <1>7, <1>8, <1>9, <1>10, <1>11, <1>12, <1>13, <1>14, <1>15, <1>16, <1>17, <1>18, <1>19, <1>20, <1>21, <1>22, <1>23, <1>24, <1>25, <1>26, <1>27, <1>28, <1>29, <1>30, <1>31, <1>32, <1>33, <1>34, <1>35, <1>36, <1>37, <1>38, <1>39, <1>40, <1>41, <1>42 DEF Next, ServeStep, ListenStep, BroadcastStep, PublishStep, SetupStep, RoomStep

-----------------------------------------------------------------------------
(* The gate                                                                *)

\* Every step keeps the gate: nothing is read or handled before the member's
\* ServeRoom call has sent on startBroadcast.
LEMMA GateStep == TypeOK /\ GateInv /\ [Next]_vars => GateInv'
<1> SUFFICES ASSUME TypeOK, GateInv, [Next]_vars PROVE GateInv'
  OBVIOUS
<1> USE DEF TypeOK, GateInv
<1>1. CASE UNCHANGED <<serve, bcast, pub, chats>>
  BY <1>1 DEF GateInv
<1>2. ASSUME NEW m \in Members, ServeRoom(m) PROVE GateInv'
  BY <1>2 DEF ServeRoom
<1>3. ASSUME NEW m \in Members, ListenReady(m) PROVE GateInv'
  BY <1>3 DEF ListenReady
<1>4. ASSUME NEW m \in Members, ListenTimeout(m) PROVE GateInv'
  BY <1>4 DEF ListenTimeout
<1>5. ASSUME NEW m \in Members, BroadcastReady(m) PROVE GateInv'
  BY <1>5 DEF BroadcastReady
<1>6. ASSUME NEW m \in Members, BroadcastTimeout(m) PROVE GateInv'
  BY <1>6 DEF BroadcastTimeout
<1>7. ASSUME NEW m \in Members, InsertMember(m) PROVE GateInv'
  BY <1>7 DEF InsertMember
<1>8. ASSUME NEW m \in Members, InsertMemberFails(m) PROVE GateInv'
  BY <1>8 DEF InsertMemberFails
<1>9. ASSUME NEW m \in Members, ServeStops(m) PROVE GateInv'
  BY <1>9 DEF ServeStops
<1>10. ASSUME NEW m \in Members, BeginAddMember(m) PROVE GateInv'
  BY <1>10 DEF BeginAddMember
<1>11. ASSUME NEW m \in Members, EndAddMember(m) PROVE GateInv'
  BY <1>11 DEF EndAddMember
<1>12. ASSUME NEW m \in Members, PublishJoined(m) PROVE GateInv'
  BY <1>12 DEF PublishJoined
<1>13. ASSUME NEW m \in Members, StartBroadcast(m) PROVE GateInv'
  BY <1>13 DEF StartBroadcast
<1>14. ASSUME NEW m \in Members, Poll(m) PROVE GateInv'
  BY <1>14 DEF Poll
<1>15. ASSUME NEW m \in Members, ReadError(m) PROVE GateInv'
  BY <1>15 DEF ReadError
<1>16. ASSUME NEW m \in Members, ReadChat(m) PROVE GateInv'
  BY <1>16 DEF ReadChat
<1>17. ASSUME NEW m \in Members, TakeChat(m) PROVE GateInv'
  BY <1>17 DEF TakeChat
<1>18. ASSUME NEW m \in Members, TakeLeft(m) PROVE GateInv'
  BY <1>18 DEF TakeLeft
<1>19. ASSUME NEW m \in Members, InsertMessage(m) PROVE GateInv'
  BY <1>19 DEF InsertMessage
<1>20. ASSUME NEW m \in Members, InsertMessageFails(m) PROVE GateInv'
  BY <1>20 DEF InsertMessageFails
<1>21. ASSUME NEW m \in Members, PublishChat(m) PROVE GateInv'
  BY <1>21 DEF PublishChat
<1>22. ASSUME NEW m \in Members, SendFailed(m) PROVE GateInv'
  BY <1>22 DEF SendFailed
<1>23. ASSUME NEW m \in Members, DeleteMember(m) PROVE GateInv'
  BY <1>23 DEF DeleteMember
<1>24. ASSUME NEW m \in Members, DeleteMemberFails(m) PROVE GateInv'
  BY <1>24 DEF DeleteMemberFails
<1>25. ASSUME NEW m \in Members, PublishLeft(m) PROVE GateInv'
  BY <1>25 DEF PublishLeft
<1>26. ASSUME NEW n \in Nodes, StopMember(n) PROVE GateInv'
  BY <1>26 DEF StopMember
<1>27. ASSUME NEW m \in Members,
             WriteMessage(m) \/ ListenClosed(m) \/ SendFailedPanics(m) \/
             GiveUp(m) \/ Close(m)
      PROVE  UNCHANGED <<serve, bcast, pub, chats>>
  BY <1>27 DEF WriteMessage, ListenClosed, SendFailedPanics, GiveUp, Close, Die
<1>28. ASSUME NEW n \in Nodes,
             Subscribe(n) \/ SubscribeFails(n) \/ Evict(n) \/ Receive(n) \/
             Notify(n) \/ NotifyTimeout(n) \/ ReceiveClosed(n) \/ Crash(n) \/
             MapFault(n)
      PROVE  UNCHANGED <<serve, bcast, pub, chats>>
  BY <1>28 DEF Subscribe, SubscribeFails, Evict, Receive, Notify, NotifyTimeout,
         ReceiveClosed, Crash, MapFault, Die
<1>29. CASE (\E x \in Deadlines : Expire(x)) \/ (\E msg \in gaveUp : ExecuteLate(msg)) \/ UNCHANGED vars
  BY <1>1, <1>29 DEF Expire, ExecuteLate, vars
<1>30. QED
  BY <1>1, <1>2, <1>3, <1>4, <1>5, <1>6, <1>7, <1>8, <1>9, <1>10, <1>11, <1>12, <1>13, <1>14, <1>15, <1>16, <1>17, <1>18, <1>19, <1>20, <1>21, <1>22, <1>23, <1>24, <1>25, <1>26, <1>27, <1>28, <1>29
  DEF Next, ServeStep, ListenStep, BroadcastStep, PublishStep, SetupStep, RoomStep

-----------------------------------------------------------------------------
(* Storing before publishing                                               *)

\* Joined, chat and left messages are told apart, and by their member.
LEMMA MessagesDiffer ==
    /\ \A m1, m2 : Joined(m1) # Left(m2)
    /\ \A m1, m2, k : Chat(m1, k) # Left(m2)
    /\ \A m1, m2 : Left(m1) = Left(m2) => m1 = m2
BY DEF Joined, Chat, Left

\* An accepted message is the last of the topic, which otherwise stays.
LEMMA AcceptTopic ==
    ASSUME NEW msg \in Message, topic \in Seq(Message),
           sub \in [Nodes -> SUBSET Nat], Accept(msg)
    PROVE  /\ Len(topic) \in Nat
           /\ DOMAIN topic = 1 .. Len(topic)
           /\ DOMAIN topic' = 1 .. Len(topic) + 1
           /\ \A i \in DOMAIN topic : topic'[i] = topic[i]
           /\ topic'[Len(topic) + 1] = msg
           /\ \A n \in Nodes : sub'[n] \in {sub[n], sub[n] \cup {Len(topic) + 1}}
BY DEF Accept

\* Publishing a stored message keeps the topic within the store.
LEMMA AcceptPersists ==
    ASSUME NEW msg \in Message, topic \in Seq(Message),
           sub \in [Nodes -> SUBSET Nat], Accept(msg),
           PersistBeforePublish, msg \in stored, stored' = stored
    PROVE  PersistBeforePublish'
<1> SUFFICES ASSUME NEW i \in DOMAIN topic' PROVE topic'[i] \in stored'
  BY DEF PersistBeforePublish
<1>1. CASE i \in DOMAIN topic
  BY <1>1, AcceptTopic DEF PersistBeforePublish
<1>2. CASE i = Len(topic) + 1
  BY <1>2, AcceptTopic
<1>3. QED
  BY <1>1, <1>2, AcceptTopic

\* Every step keeps StoreInv: insertions come before publications, and the
\* departure after everything else.
LEMMA StoreStep == TypeOK /\ GateInv /\ StoreInv /\ [Next]_vars => StoreInv'
<1> SUFFICES ASSUME TypeOK, GateInv, StoreInv, [Next]_vars PROVE StoreInv'
  OBVIOUS
<1>1. CASE UNCHANGED <<serve, pub, chats, topic, gaveUp, stored>>
  BY <1>1 DEF StoreInv, PersistBeforePublish
<1>2. ASSUME NEW m \in Members, ServeRoom(m) PROVE StoreInv'
  BY <1>2 DEF ServeRoom, TypeOK, GateInv, StoreInv, PersistBeforePublish, InRoom
<1>3. ASSUME NEW m \in Members, ListenReady(m) PROVE StoreInv'
  BY <1>3 DEF ListenReady, TypeOK, GateInv, StoreInv, PersistBeforePublish, InRoom
<1>4. ASSUME NEW m \in Members, ListenTimeout(m) PROVE StoreInv'
  BY <1>4 DEF ListenTimeout, TypeOK, GateInv, StoreInv, PersistBeforePublish, InRoom
<1>5. ASSUME NEW m \in Members, BroadcastReady(m) PROVE StoreInv'
  BY <1>5 DEF BroadcastReady, TypeOK, GateInv, StoreInv, PersistBeforePublish, InRoom
<1>6. ASSUME NEW m \in Members, BroadcastTimeout(m) PROVE StoreInv'
  BY <1>6 DEF BroadcastTimeout, TypeOK, GateInv, StoreInv, PersistBeforePublish, InRoom
<1>7. ASSUME NEW m \in Members, InsertMember(m) PROVE StoreInv'
  BY <1>7, MessagesDiffer DEF InsertMember, TypeOK, GateInv, StoreInv, PersistBeforePublish, InRoom
<1>8. ASSUME NEW m \in Members, InsertMemberFails(m) PROVE StoreInv'
  BY <1>8, MessagesDiffer DEF InsertMemberFails, TypeOK, GateInv, StoreInv, PersistBeforePublish, InRoom
<1>9. ASSUME NEW m \in Members, ServeStops(m) PROVE StoreInv'
  BY <1>9 DEF ServeStops, TypeOK, GateInv, StoreInv, PersistBeforePublish, InRoom
<1>10. ASSUME NEW m \in Members, BeginAddMember(m) PROVE StoreInv'
  BY <1>10 DEF BeginAddMember, TypeOK, GateInv, StoreInv, PersistBeforePublish, InRoom
<1>11. ASSUME NEW m \in Members, EndAddMember(m) PROVE StoreInv'
  BY <1>11 DEF EndAddMember, TypeOK, GateInv, StoreInv, PersistBeforePublish, InRoom
<1>12. ASSUME NEW m \in Members, PublishJoined(m) PROVE StoreInv'
  <2>1. Joined(m) \in Message /\ Joined(m) \in stored
    BY <1>12, MessageTypes DEF PublishJoined, TypeOK, StoreInv, InRoom
  <2>2. gaveUp' = gaveUp /\ (Accept(Joined(m)) \/ UNCHANGED topic)
    BY <1>12 DEF PublishJoined, QueuePublish
  <2>3. PersistBeforePublish'
    <3>1. CASE Accept(Joined(m))
      BY <1>12, <2>1, <3>1, AcceptPersists DEF PublishJoined, TypeOK, StoreInv
    <3>2. CASE UNCHANGED topic
      BY <1>12, <3>2 DEF PublishJoined, StoreInv, PersistBeforePublish
    <3>3. QED
      BY <2>2, <3>1, <3>2
  <2>4. QED
    BY <1>12, <2>2, <2>3 DEF PublishJoined, TypeOK, GateInv, StoreInv, InRoom
<1>13. ASSUME NEW m \in Members, StartBroadcast(m) PROVE StoreInv'
  BY <1>13 DEF StartBroadcast, TypeOK, GateInv, StoreInv, PersistBeforePublish, InRoom
<1>14. ASSUME NEW m \in Members, TakeChat(m) PROVE StoreInv'
  BY <1>14 DEF TakeChat, TypeOK, GateInv, StoreInv, PersistBeforePublish, InRoom
<1>15. ASSUME NEW m \in Members, TakeLeft(m) PROVE StoreInv'
  BY <1>15 DEF TakeLeft, TypeOK, GateInv, StoreInv, PersistBeforePublish, InRoom
<1>16. ASSUME NEW m \in Members, InsertMessage(m) PROVE StoreInv'
  BY <1>16, MessagesDiffer DEF InsertMessage, TypeOK, GateInv, StoreInv, PersistBeforePublish, InRoom
<1>17. ASSUME NEW m \in Members, InsertMessageFails(m) PROVE StoreInv'
  BY <1>17, MessagesDiffer DEF InsertMessageFails, TypeOK, GateInv, StoreInv, PersistBeforePublish, InRoom
<1>18. ASSUME NEW m \in Members, PublishChat(m) PROVE StoreInv'
  <2>1. Chat(m, chats[m]) \in Message /\ Chat(m, chats[m]) \in stored
    BY <1>18, MessageTypes DEF PublishChat, TypeOK, StoreInv, InRoom
  <2>2. gaveUp' = gaveUp /\ (Accept(Chat(m, chats[m])) \/ UNCHANGED topic)
    BY <1>18 DEF PublishChat, QueuePublish
  <2>3. PersistBeforePublish'
    <3>1. CASE Accept(Chat(m, chats[m]))
      BY <1>18, <2>1, <3>1, AcceptPersists DEF PublishChat, TypeOK, StoreInv
    <3>2. CASE UNCHANGED topic
      BY <1>18, <3>2 DEF PublishChat, StoreInv, PersistBeforePublish
    <3>3. QED
      BY <2>2, <3>1, <3>2
  <2>4. QED
    BY <1>18, <2>2, <2>3 DEF PublishChat, TypeOK, GateInv, StoreInv, InRoom
<1>19. ASSUME NEW m \in Members, SendFailed(m) PROVE StoreInv'
  BY <1>19 DEF SendFailed, TypeOK, GateInv, StoreInv, PersistBeforePublish, InRoom
<1>20. ASSUME NEW m \in Members, DeleteMember(m) PROVE StoreInv'
  <2>1. PersistBeforePublish' /\ gaveUp' \subseteq stored'
    BY <1>20 DEF DeleteMember, StoreInv, PersistBeforePublish
  <2>2. serve[m] = "served" /\ pub'[m] = "publishLeft" /\ UNCHANGED <<serve, chats>>
    BY <1>20 DEF DeleteMember, TypeOK, GateInv
  <2>3. ASSUME NEW o \in Members \ {m}
        PROVE  pub'[o] = pub[o] /\ (Left(o) \in stored' <=> Left(o) \in stored)
    BY <1>20, MessagesDiffer DEF DeleteMember, TypeOK
  <2>4. stored' = stored \cup {Left(m)}
    BY <1>20 DEF DeleteMember
  <2>5. QED
    BY <2>1, <2>2, <2>3, <2>4 DEF StoreInv
<1>21. ASSUME NEW m \in Members, DeleteMemberFails(m) PROVE StoreInv'
  <2>1. CASE UNCHANGED dbVars
    BY <1>21, <2>1 DEF DeleteMemberFails, TypeOK, GateInv, StoreInv, PersistBeforePublish, InRoom
  <2>2. CASE stored' = stored \cup {Left(m)}
    <3>1. PersistBeforePublish' /\ gaveUp' \subseteq stored'
      BY <1>21, <2>2 DEF DeleteMemberFails, StoreInv, PersistBeforePublish
    <3>2. serve[m] = "served" /\ pub'[m] = "done" /\ UNCHANGED <<serve, chats>>
      BY <1>21 DEF DeleteMemberFails, TypeOK, GateInv
    <3>3. ASSUME NEW o \in Members \ {m}
          PROVE  pub'[o] = pub[o] /\ (Left(o) \in stored' <=> Left(o) \in stored)
      BY <1>21, <2>2, MessagesDiffer DEF DeleteMemberFails, TypeOK
    <3>4. stored \subseteq stored'
      BY <2>2
    <3>5. ASSUME NEW o \in Members \ {m}
          PROVE  /\ serve'[o] \in {"addMember", "adding"} \cup InRoom => Joined(o) \in stored'
                 /\ pub'[o] = "publish" => Chat(o, chats'[o]) \in stored'
                 /\ pub'[o] = "publishLeft" => Left(o) \in stored'
                 /\ Left(o) \in stored' => serve'[o] = "served" /\ pub'[o] \in {"publishLeft", "done"}
      BY <3>2, <3>3, <3>4 DEF StoreInv
    <3>6. Joined(m) \in stored
      BY <3>2 DEF StoreInv, InRoom
    <3>7. QED
      BY <3>1, <3>2, <3>4, <3>5, <3>6 DEF StoreInv
  <2>3. QED
    BY <1>21, <2>1, <2>2 DEF DeleteMemberFails
<1>22. ASSUME NEW m \in Members, PublishLeft(m) PROVE StoreInv'
  <2>1. Left(m) \in Message /\ Left(m) \in stored
    BY <1>22, MessageTypes DEF PublishLeft, TypeOK, StoreInv, InRoom
  <2>2. gaveUp' = gaveUp /\ (Accept(Left(m)) \/ UNCHANGED topic)
    BY <1>22 DEF PublishLeft, QueuePublish
  <2>3. PersistBeforePublish'
    <3>1. CASE Accept(Left(m))
      BY <1>22, <2>1, <3>1, AcceptPersists DEF PublishLeft, TypeOK, StoreInv
    <3>2. CASE UNCHANGED topic
      BY <1>22, <3>2 DEF PublishLeft, StoreInv, PersistBeforePublish
    <3>3. QED
      BY <2>2, <3>1, <3>2
  <2>4. QED
    BY <1>22, <2>2, <2>3 DEF PublishLeft, TypeOK, GateInv, StoreInv, InRoom
<1>23. ASSUME NEW n \in Nodes, StopMember(n) PROVE StoreInv'
  BY <1>23 DEF StopMember, TypeOK, GateInv, StoreInv, PersistBeforePublish, InRoom
<1>24. ASSUME NEW m \in Members, GiveUp(m) PROVE StoreInv'
  <2>1. Publishing(m) \subseteq stored
    BY DEF Publishing, StoreInv, InRoom
  <2>2. QED
    BY <1>24, <2>1 DEF GiveUp, StoreInv, PersistBeforePublish
<1>25. ASSUME NEW m \in Members,
             WriteMessage(m) \/ ListenClosed(m) \/ Poll(m) \/ ReadError(m) \/
             SendFailedPanics(m) \/ ReadChat(m) \/ Close(m)
      PROVE  UNCHANGED <<serve, pub, chats, topic, gaveUp, stored>>
  BY <1>25 DEF WriteMessage, ListenClosed, Poll, ReadError, SendFailedPanics,
         ReadChat, Close, Die
<1>26. ASSUME NEW n \in Nodes,
             Subscribe(n) \/ SubscribeFails(n) \/ Evict(n) \/ Receive(n) \/
             Notify(n) \/ NotifyTimeout(n) \/ ReceiveClosed(n) \/ Crash(n) \/
             MapFault(n)
      PROVE  UNCHANGED <<serve, pub, chats, topic, gaveUp, stored>>
  BY <1>26 DEF Subscribe, SubscribeFails, Evict, Receive, Notify, NotifyTimeout,
         ReceiveClosed, Crash, MapFault, Die
<1>27. ASSUME NEW msg \in gaveUp, ExecuteLate(msg) PROVE StoreInv'
  <2>1. msg \in Message /\ msg \in stored
    BY DEF TypeOK, StoreInv
  <2>2. PersistBeforePublish'
    BY <1>27, <2>1, AcceptPersists DEF ExecuteLate, TypeOK, StoreInv
  <2>3. QED
    BY <1>27, <2>2 DEF ExecuteLate, StoreInv
<1>28. CASE (\E x \in Deadlines : Expire(x)) \/ UNCHANGED vars
  BY <1>1, <1>28 DEF Expire, vars
<1>29. QED
  BY <1>1, <1>2, <1>3, <1>4, <1>5, <1>6, <1>7, <1>8, <1>9, <1>10, <1>11, <1>12, <1>13, <1>14, <1>15, <1>16, <1>17, <1>18, <1>19, <1>20, <1>21, <1>22, <1>23, <1>24, <1>25, <1>26, <1>27, <1>28
  DEF Next, ServeStep, ListenStep, BroadcastStep, PublishStep, SetupStep, RoomStep

\* What can change the store, the topic and what has been read: the transactions
\* of the repository, calls of queue.Publish, attempts that were given up, and
\* writes to a connection.
LEMMA SilentStep ==
    ASSUME [Next]_vars
    PROVE  \/ UNCHANGED <<stored, topic, gaveUp, seen>>
           \/ \E m \in Members :
                \/ InsertMember(m) \/ InsertMemberFails(m)
                \/ InsertMessage(m) \/ InsertMessageFails(m)
                \/ DeleteMember(m) \/ DeleteMemberFails(m)
           \/ \E m \in Members :
                PublishJoined(m) \/ PublishChat(m) \/ PublishLeft(m)
           \/ \E m \in Members : GiveUp(m)
           \/ \E msg \in gaveUp : ExecuteLate(msg)
           \/ \E m \in Members : WriteMessage(m)
<1>1. ASSUME NEW m \in Members,
             ServeRoom(m) \/ ListenReady(m) \/ ListenTimeout(m) \/
             BroadcastReady(m) \/ BroadcastTimeout(m) \/ ServeStops(m) \/
             BeginAddMember(m) \/ EndAddMember(m) \/ StartBroadcast(m) \/
             ListenClosed(m) \/ Poll(m) \/ ReadError(m) \/ TakeChat(m) \/
             TakeLeft(m) \/ SendFailed(m) \/ SendFailedPanics(m) \/
             ReadChat(m) \/ Close(m)
      PROVE  UNCHANGED <<stored, topic, gaveUp, seen>>
  BY <1>1 DEF ServeRoom, ListenReady, ListenTimeout, BroadcastReady,
              BroadcastTimeout, ServeStops, BeginAddMember, EndAddMember,
              StartBroadcast, ListenClosed, Poll, ReadError, TakeChat,
              TakeLeft, SendFailed, SendFailedPanics, ReadChat, Close,
              HandTo, Die
<1>2. ASSUME NEW n \in Nodes,
             Subscribe(n) \/ SubscribeFails(n) \/ Evict(n) \/ Receive(n) \/
             Notify(n) \/ NotifyTimeout(n) \/ ReceiveClosed(n) \/
             StopMember(n) \/ Crash(n) \/ MapFault(n)
      PROVE  UNCHANGED <<stored, topic, gaveUp, seen>>
  BY <1>2 DEF Subscribe, SubscribeFails, Evict, Receive, Notify,
              NotifyTimeout, ReceiveClosed, StopMember, Crash, MapFault,
              HandTo, Die
<1>3. CASE (\E x \in Deadlines : Expire(x)) \/ UNCHANGED vars
  BY <1>3 DEF Expire, vars
<1>4. QED
  BY <1>1, <1>2, <1>3
  DEF Next, ServeStep, ListenStep, BroadcastStep, PublishStep, SetupStep, RoomStep

\* Every step stores messages that are known by their member and number.
LEMMA NumberStep == TypeInv /\ NumberInv /\ [Next]_vars => NumberInv'
<1> SUFFICES ASSUME TypeInv, NumberInv, [Next]_vars, NEW msg \in stored' \ stored
             PROVE  \/ msg = Joined(msg.member) \/ msg = Left(msg.member)
                    \/ msg.n \in 1 .. MaxChats /\ msg = Chat(msg.member, msg.n)
  BY DEF NumberInv
<1>1. ASSUME NEW m \in Members, InsertMember(m) \/ InsertMemberFails(m)
      PROVE  msg = Joined(msg.member)
  <2>1. msg = Joined(m)
    BY <1>1 DEF InsertMember, InsertMemberFails
  <2>2. QED
    BY <2>1 DEF Joined
<1>2. ASSUME NEW m \in Members, InsertMessage(m) \/ InsertMessageFails(m)
      PROVE  msg.n \in 1 .. MaxChats /\ msg = Chat(msg.member, msg.n)
  <2>1. msg = Chat(m, chats[m]) /\ pub[m] = "insert"
    BY <1>2 DEF InsertMessage, InsertMessageFails
  <2>2. chats[m] \in 1 .. MaxChats
    BY <2>1, MaxChatsAssumption DEF TypeInv, TypeOK, CountInv
  <2>3. QED
    BY <2>1, <2>2 DEF Chat
<1>3. ASSUME NEW m \in Members, DeleteMember(m) \/ DeleteMemberFails(m)
      PROVE  msg = Left(msg.member)
  <2>1. msg = Left(m)
    BY <1>3 DEF DeleteMember, DeleteMemberFails
  <2>2. QED
    BY <2>1 DEF Left
<1>4. ASSUME \/ \E m \in Members :
                  \/ PublishJoined(m) \/ PublishChat(m) \/ PublishLeft(m)
                  \/ GiveUp(m) \/ WriteMessage(m)
             \/ \E late \in gaveUp : ExecuteLate(late)
      PROVE  UNCHANGED stored
  BY <1>4 DEF PublishJoined, PublishChat, PublishLeft, GiveUp, WriteMessage, ExecuteLate
<1>5. QED
  BY <1>1, <1>2, <1>3, <1>4, SilentStep

-----------------------------------------------------------------------------
(* Order in the topic                                                      *)

\* Publishing a message keeps the order of the topic, if it comes after its
\* member's others, or an attempt at it was given up.
LEMMA AcceptOrders ==
    ASSUME NEW msg \in Message, topic \in Seq(Message),
           sub \in [Nodes -> SUBSET Nat], Accept(msg), SenderOrder,
           gaveUp' = gaveUp,
           \A i \in DOMAIN topic :
              topic[i].member = msg.member /\ topic[i].n >= msg.n => msg \in gaveUp
    PROVE  SenderOrder'
<1> SUFFICES ASSUME NEW i \in DOMAIN topic', NEW j \in DOMAIN topic', i < j,
                    topic'[i].member = topic'[j].member, topic'[i].n >= topic'[j].n
             PROVE  topic'[j] \in gaveUp
  BY DEF SenderOrder
<1>1. i \in DOMAIN topic
  BY AcceptTopic
<1>2. CASE j \in DOMAIN topic
  BY <1>1, <1>2, AcceptTopic DEF SenderOrder
<1>3. CASE j = Len(topic) + 1
  BY <1>1, <1>3, AcceptTopic
<1>4. QED
  BY <1>2, <1>3, AcceptTopic

\* Publishing a message its member has produced keeps the topic not ahead.
LEMMA AcceptNotAhead ==
    ASSUME NEW msg \in Message, topic \in Seq(Message),
           sub \in [Nodes -> SUBSET Nat], Accept(msg), NotAhead,
           UNCHANGED <<chats, stored, gaveUp>>, Reached(msg)
    PROVE  NotAhead'
<1> SUFFICES ASSUME NEW i \in DOMAIN topic' PROVE Reached(topic'[i])
  BY DEF NotAhead, Reached
<1>1. CASE i \in DOMAIN topic
  BY <1>1, AcceptTopic DEF NotAhead
<1>2. CASE i = Len(topic) + 1
  BY <1>2, AcceptTopic
<1>3. QED
  BY <1>1, <1>2, AcceptTopic

\* Whatever a member's threads publish is a message, is stored, is not ahead
\* of the member, and comes after what the topic holds of it, or an attempt at it
\* was given up.
LEMMA PublishingFacts ==
    ASSUME TypeInv, GateInv, StoreInv, NumberInv, NotAhead, FreshInv,
           NEW m \in Members, NEW msg \in Publishing(m)
    PROVE  /\ msg \in Message /\ msg \in stored /\ msg.member = m /\ Reached(msg)
           /\ \A i \in DOMAIN topic :
                topic[i].member = m /\ topic[i].n >= msg.n => msg \in gaveUp
<1>1. chats[m] \in 0 .. MaxChats /\ MaxChats \in Nat
  BY MaxChatsAssumption DEF TypeInv, TypeOK
<1>2. ASSUME NEW i \in DOMAIN topic, topic[i].member = m
      PROVE  /\ topic[i].n \in 0 .. MaxChats + 1
             /\ \/ topic[i] = Joined(m) \/ topic[i] = Left(m)
                \/ topic[i].n \in 1 .. MaxChats /\ topic[i] = Chat(m, topic[i].n)
             /\ topic[i].n <= chats[m] \/ Left(m) \in stored
             /\ \/ topic[i] \in gaveUp
                \/ /\ serve[m] \in {"start", "served"}
                   /\ pub[m] \in {"insert", "publish"} => topic[i].n < chats[m]
                   /\ pub[m] \in {"delete", "publishLeft"} => topic[i].n <= chats[m]
  <2>1. topic[i] \in Message /\ topic[i] \in stored
    BY DEF TypeInv, TypeOK, StoreInv, PersistBeforePublish
  <2>2. topic[i].n \in 0 .. MaxChats + 1
    BY <2>1 DEF Message
  <2>3. QED
    BY <1>2, <2>1, <2>2 DEF NumberInv, NotAhead, Reached, FreshInv, Behind
<1>3. Joined(m).n = 0 /\ Left(m).n = MaxChats + 1
  BY DEF Joined, Left
<1>4. CASE serve[m] = "join"
  <2>1. /\ msg = Joined(m) /\ Left(m) \notin stored /\ chats[m] = 0
        /\ msg \in stored
    BY <1>4 DEF Publishing, GateInv, StoreInv, InRoom
  <2>2. msg \in Message /\ msg.member = m /\ msg.n = 0 /\ Reached(msg)
    BY <2>1, MessageTypes DEF Joined, Reached
  <2>3. ASSUME NEW i \in DOMAIN topic, topic[i].member = m PROVE msg \in gaveUp
    <3>1. topic[i].n = 0 /\ topic[i] \in gaveUp
      BY <1>1, <1>2, <1>4, <2>1, <2>3
    <3>2. topic[i] = msg
      BY <1>1, <1>2, <1>3, <2>1, <2>3, <3>1
    <3>3. QED
      BY <3>1, <3>2
  <2>4. QED
    BY <2>1, <2>2, <2>3
<1>5. CASE serve[m] # "join" /\ pub[m] = "publish"
  <2>1. /\ msg = Chat(m, chats[m]) /\ Left(m) \notin stored /\ chats[m] \in 1 .. MaxChats
        /\ msg \in stored
    BY <1>1, <1>5 DEF Publishing, StoreInv, TypeInv, CountInv
  <2>2. msg \in Message /\ msg.member = m /\ msg.n = chats[m] /\ Reached(msg)
    BY <1>1, <2>1, MessageTypes DEF Chat, Reached
  <2>3. ASSUME NEW i \in DOMAIN topic, topic[i].member = m, topic[i].n >= msg.n PROVE msg \in gaveUp
    <3>1. topic[i].n = chats[m] /\ topic[i] \in gaveUp
      BY <1>1, <1>2, <1>5, <2>1, <2>2, <2>3
    <3>2. topic[i] = msg
      BY <1>1, <1>2, <1>3, <2>1, <2>3, <3>1
    <3>3. QED
      BY <3>1, <3>2
  <2>4. QED
    BY <2>1, <2>2, <2>3
<1>6. CASE serve[m] # "join" /\ pub[m] = "publishLeft"
  <2>1. msg = Left(m) /\ msg \in stored
    BY <1>6 DEF Publishing, StoreInv
  <2>2. msg \in Message /\ msg.member = m /\ msg.n = MaxChats + 1 /\ Reached(msg)
    BY <2>1, MessageTypes DEF Left, Reached
  <2>3. ASSUME NEW i \in DOMAIN topic, topic[i].member = m, topic[i].n >= msg.n PROVE msg \in gaveUp
    <3>1. topic[i].n = MaxChats + 1 /\ topic[i] \in gaveUp
      BY <1>1, <1>2, <1>6, <2>2, <2>3
    <3>2. topic[i] = msg
      BY <1>1, <1>2, <1>3, <2>1, <2>3, <3>1
    <3>3. QED
      BY <3>1, <3>2
  <2>4. QED
    BY <2>1, <2>2, <2>3
<1>7. QED
  BY <1>4, <1>5, <1>6 DEF Publishing

\* Every step keeps the topic in the order of each sender.
LEMMA OrderStep ==
    TypeInv /\ GateInv /\ StoreInv /\ NumberInv /\ OrderInv /\ FreshInv /\ [Next]_vars
        => OrderInv'
<1> SUFFICES ASSUME TypeInv, GateInv, StoreInv, NumberInv, OrderInv, FreshInv, [Next]_vars PROVE OrderInv'
  OBVIOUS
<1> USE DEF TypeInv, Reached
<1>1. CASE UNCHANGED <<chats, topic, gaveUp, stored>>
  BY <1>1 DEF OrderInv, SenderOrder, NotAhead
<1>2. ASSUME NEW m \in Members, InsertMember(m) PROVE OrderInv'
  BY <1>2 DEF InsertMember, TypeOK, OrderInv, SenderOrder, NotAhead
<1>3. ASSUME NEW m \in Members, InsertMemberFails(m) PROVE OrderInv'
  BY <1>3 DEF InsertMemberFails, TypeOK, OrderInv, SenderOrder, NotAhead
<1>4. ASSUME NEW m \in Members, PublishJoined(m) PROVE OrderInv'
  <2>1. Joined(m) \in Publishing(m) /\ UNCHANGED <<chats, stored, gaveUp>>
    BY <1>4 DEF PublishJoined, QueuePublish, Publishing, GateInv
  <2>2. CASE Accept(Joined(m))
    <3>1. SenderOrder'
      BY <2>1, <2>2, PublishingFacts, AcceptOrders DEF TypeOK, OrderInv
    <3>2. NotAhead'
      BY <2>1, <2>2, PublishingFacts, AcceptNotAhead DEF TypeOK, OrderInv
    <3>3. QED
      BY <3>1, <3>2 DEF OrderInv
  <2>3. CASE UNCHANGED topic
    BY <2>1, <2>3 DEF OrderInv, SenderOrder, NotAhead
  <2>4. QED
    BY <1>4, <2>2, <2>3 DEF PublishJoined, QueuePublish
<1>5. ASSUME NEW m \in Members, TakeChat(m) PROVE OrderInv'
  <2>1. SenderOrder' /\ UNCHANGED <<topic, gaveUp, stored>>
    BY <1>5 DEF TakeChat, OrderInv, SenderOrder
  <2>2. ASSUME NEW msg \in Message, Reached(msg)
        PROVE  msg.n <= chats'[msg.member] \/ Left(msg.member) \in stored
    <3>1. msg.n \in Nat /\ msg.member \in Members
      BY MaxChatsAssumption DEF Message
    <3>2. chats'[msg.member] \in {chats[msg.member], chats[msg.member] + 1}
      BY <1>5, <3>1 DEF TakeChat, TypeOK
    <3>3. chats[msg.member] \in Nat
      BY <3>1, MaxChatsAssumption DEF TypeOK
    <3>4. QED
      BY <2>2, <3>1, <3>2, <3>3
  <2>3. gaveUp \subseteq Message /\ \A i \in DOMAIN topic : topic[i] \in Message
    BY DEF TypeOK
  <2>4. NotAhead'
    BY <2>1, <2>2, <2>3 DEF OrderInv, NotAhead
  <2>5. QED
    BY <2>1, <2>4 DEF OrderInv
<1>6. ASSUME NEW m \in Members, InsertMessage(m) PROVE OrderInv'
  BY <1>6 DEF InsertMessage, TypeOK, OrderInv, SenderOrder, NotAhead
<1>7. ASSUME NEW m \in Members, InsertMessageFails(m) PROVE OrderInv'
  BY <1>7 DEF InsertMessageFails, TypeOK, OrderInv, SenderOrder, NotAhead
<1>8. ASSUME NEW m \in Members, PublishChat(m) PROVE OrderInv'
  <2>1. Chat(m, chats[m]) \in Publishing(m) /\ UNCHANGED <<chats, stored, gaveUp>>
    BY <1>8 DEF PublishChat, QueuePublish, Publishing, GateInv
  <2>2. CASE Accept(Chat(m, chats[m]))
    <3>1. SenderOrder'
      BY <2>1, <2>2, PublishingFacts, AcceptOrders DEF TypeOK, OrderInv
    <3>2. NotAhead'
      BY <2>1, <2>2, PublishingFacts, AcceptNotAhead DEF TypeOK, OrderInv
    <3>3. QED
      BY <3>1, <3>2 DEF OrderInv
  <2>3. CASE UNCHANGED topic
    BY <2>1, <2>3 DEF OrderInv, SenderOrder, NotAhead
  <2>4. QED
    BY <1>8, <2>2, <2>3 DEF PublishChat, QueuePublish
<1>9. ASSUME NEW m \in Members, DeleteMember(m) PROVE OrderInv'
  BY <1>9 DEF DeleteMember, TypeOK, OrderInv, SenderOrder, NotAhead
<1>10. ASSUME NEW m \in Members, DeleteMemberFails(m) PROVE OrderInv'
  BY <1>10 DEF DeleteMemberFails, TypeOK, OrderInv, SenderOrder, NotAhead
<1>11. ASSUME NEW m \in Members, PublishLeft(m) PROVE OrderInv'
  <2>1. Left(m) \in Publishing(m) /\ UNCHANGED <<chats, stored, gaveUp>>
    BY <1>11 DEF PublishLeft, QueuePublish, Publishing, GateInv
  <2>2. CASE Accept(Left(m))
    <3>1. SenderOrder'
      BY <2>1, <2>2, PublishingFacts, AcceptOrders DEF TypeOK, OrderInv
    <3>2. NotAhead'
      BY <2>1, <2>2, PublishingFacts, AcceptNotAhead DEF TypeOK, OrderInv
    <3>3. QED
      BY <3>1, <3>2 DEF OrderInv
  <2>3. CASE UNCHANGED topic
    BY <2>1, <2>3 DEF OrderInv, SenderOrder, NotAhead
  <2>4. QED
    BY <1>11, <2>2, <2>3 DEF PublishLeft, QueuePublish
<1>12. ASSUME NEW m \in Members, GiveUp(m) PROVE OrderInv'
  <2>1. gaveUp' = gaveUp \cup Publishing(m) /\ UNCHANGED <<chats, topic, stored>>
    BY <1>12 DEF GiveUp
  <2>2. \A msg \in Publishing(m) : Reached(msg)
    BY PublishingFacts DEF OrderInv
  <2>3. QED
    BY <2>1, <2>2 DEF OrderInv, SenderOrder, NotAhead
<1>13. ASSUME NEW m \in Members,
             ServeRoom(m) \/ ListenReady(m) \/ ListenTimeout(m) \/
             BroadcastReady(m) \/ BroadcastTimeout(m) \/ ServeStops(m) \/
             BeginAddMember(m) \/ EndAddMember(m) \/ StartBroadcast(m) \/
             WriteMessage(m) \/ ListenClosed(m) \/ Poll(m) \/ ReadError(m) \/
             TakeLeft(m) \/ SendFailed(m) \/ SendFailedPanics(m) \/
             ReadChat(m) \/ Close(m)
      PROVE  UNCHANGED <<chats, topic, gaveUp, stored>>
  BY <1>13 DEF ServeRoom, ListenReady, ListenTimeout, BroadcastReady,
         BroadcastTimeout, ServeStops, BeginAddMember, EndAddMember,
         StartBroadcast, WriteMessage, ListenClosed, Poll, ReadError,
         TakeLeft, SendFailed, SendFailedPanics, ReadChat, Close, Die
<1>14. ASSUME NEW n \in Nodes,
             Subscribe(n) \/ SubscribeFails(n) \/ Evict(n) \/ Receive(n) \/
             Notify(n) \/ NotifyTimeout(n) \/ ReceiveClosed(n) \/
             StopMember(n) \/ Crash(n) \/ MapFault(n)
      PROVE  UNCHANGED <<chats, topic, gaveUp, stored>>
  BY <1>14 DEF Subscribe, SubscribeFails, Evict, Receive, Notify, NotifyTimeout,
         ReceiveClosed, StopMember, Crash, MapFault, Die
<1>15. ASSUME NEW msg \in gaveUp, ExecuteLate(msg) PROVE OrderInv'
  <2>1. /\ msg \in Message /\ Accept(msg) /\ Reached(msg)
        /\ UNCHANGED <<chats, stored, gaveUp>>
    BY <1>15 DEF ExecuteLate, TypeOK, OrderInv, NotAhead
  <2>2. SenderOrder'
    BY <2>1, AcceptOrders DEF TypeOK, OrderInv
  <2>3. NotAhead'
    BY <2>1, AcceptNotAhead DEF TypeOK, OrderInv
  <2>4. QED
    BY <2>2, <2>3 DEF OrderInv
<1>16. CASE (\E x \in Deadlines : Expire(x)) \/ UNCHANGED vars
  BY <1>1, <1>16 DEF Expire, vars
<1>17. QED
  BY <1>1, <1>2, <1>3, <1>4, <1>5, <1>6, <1>7, <1>8, <1>9, <1>10, <1>11, <1>12, <1>13, <1>14, <1>15, <1>16
  DEF Next, ServeStep, ListenStep, BroadcastStep, PublishStep, SetupStep, RoomStep

-----------------------------------------------------------------------------
(* What is in the topic already                                            *)

\* Who has published a message and is not about to publish it again stays so, if
\* its threads go on to neither a publication nor a departure.
GoesOn(m) ==
    /\ serve[m] \in {"start", "served"} => serve'[m] \in {"start", "served"}
    /\ pub'[m] \in {"insert", "publish"} => pub[m] \in {"insert", "publish"}
    /\ pub'[m] \in {"delete", "publishLeft"} => pub[m] \in {"delete", "publishLeft"}

LEMMA FreshKept ==
    ASSUME TypeOK, FreshInv, UNCHANGED <<topic, chats>>, gaveUp \subseteq gaveUp',
           \A m \in Members : GoesOn(m)
    PROVE  FreshInv'
<1> SUFFICES ASSUME NEW i \in DOMAIN topic, NEW msg, msg = topic[i], msg \notin gaveUp
             PROVE  Behind(msg)'
  BY DEF FreshInv
<1>1. msg \in Message /\ Behind(msg)
  BY DEF TypeOK, FreshInv
<1>2. msg.member \in Members
  BY <1>1 DEF Message
<1>3. QED
  BY <1>1, <1>2 DEF Behind, GoesOn

\* A publication adds a message that its member is done with, or that was given
\* up.
LEMMA FreshAccept ==
    ASSUME TypeOK, FreshInv, NEW new \in Message, Accept(new),
           UNCHANGED <<chats, gaveUp>>, \A m \in Members : GoesOn(m),
           new \in gaveUp \/ Behind(new)'
    PROVE  FreshInv'
<1>1. topic \in Seq(Message) /\ sub \in [Nodes -> SUBSET Nat]
  BY DEF TypeOK
<1> SUFFICES ASSUME NEW i \in DOMAIN topic', NEW msg, msg = topic'[i], msg \notin gaveUp
             PROVE  Behind(msg)'
  BY DEF FreshInv
<1>2. CASE i \in DOMAIN topic
  <2>1. msg = topic[i]
    BY <1>1, <1>2, AcceptTopic
  <2>2. msg \in Message /\ Behind(msg)
    BY <1>1, <1>2, <2>1 DEF FreshInv
  <2>3. msg.member \in Members
    BY <2>2 DEF Message
  <2>4. QED
    BY <2>2, <2>3 DEF Behind, GoesOn
<1>3. CASE i = Len(topic) + 1
  BY <1>1, <1>3, AcceptTopic
<1>4. QED
  BY <1>1, <1>2, <1>3, AcceptTopic

\* Every step keeps what a member is about to publish out of the topic, unless
\* an attempt was given up.
LEMMA FreshStep ==
    TypeOK /\ GateInv /\ StoreInv /\ OrderInv /\ FreshInv /\ [Next]_vars => FreshInv'
<1> SUFFICES ASSUME TypeOK, GateInv, StoreInv, OrderInv, FreshInv, [Next]_vars PROVE FreshInv'
  OBVIOUS
<1>1. CASE UNCHANGED <<serve, pub, chats, topic, gaveUp>>
  BY <1>1, FreshKept DEF GoesOn
<1>2. ASSUME NEW m \in Members,
             \/ ServeRoom(m) \/ ListenReady(m) \/ ListenTimeout(m)
             \/ BroadcastReady(m) \/ BroadcastTimeout(m)
             \/ InsertMember(m) \/ InsertMemberFails(m) \/ ServeStops(m)
             \/ BeginAddMember(m) \/ EndAddMember(m) \/ StartBroadcast(m)
      PROVE  FreshInv'
  <2>1. UNCHANGED <<topic, chats, gaveUp>>
    BY <1>2 DEF ServeRoom, ListenReady, ListenTimeout, BroadcastReady, BroadcastTimeout,
           InsertMember, InsertMemberFails, ServeStops, BeginAddMember, EndAddMember, StartBroadcast
  <2>2. \A o \in Members : pub'[o] \in {pub[o], "select", "done"}
    BY <1>2 DEF TypeOK, ServeRoom, ListenReady, ListenTimeout, BroadcastReady, BroadcastTimeout,
           InsertMember, InsertMemberFails, ServeStops, BeginAddMember, EndAddMember, StartBroadcast
  <2>3. \A o \in Members : serve[o] \in {"start", "served"} => serve'[o] \in {"start", "served"}
    BY <1>2 DEF TypeOK, ServeRoom, ListenReady, ListenTimeout, BroadcastReady, BroadcastTimeout,
           InsertMember, InsertMemberFails, ServeStops, BeginAddMember, EndAddMember, StartBroadcast
  <2>4. QED
    BY <2>1, <2>2, <2>3, FreshKept DEF GoesOn
<1>3. ASSUME NEW m \in Members,
             \/ InsertMessage(m) \/ InsertMessageFails(m) \/ SendFailed(m)
             \/ DeleteMember(m) \/ DeleteMemberFails(m)
      PROVE  FreshInv'
  <2>1. UNCHANGED <<serve, topic, chats, gaveUp>>
    BY <1>3 DEF InsertMessage, InsertMessageFails, SendFailed, DeleteMember, DeleteMemberFails
  <2>2. /\ \A o \in Members \ {m} : pub'[o] = pub[o]
        /\ pub'[m] \in {"publish"} => pub[m] = "insert"
        /\ pub'[m] \in {"publishLeft"} => pub[m] = "delete"
        /\ pub'[m] \notin {"insert", "delete"}
    BY <1>3 DEF TypeOK, InsertMessage, InsertMessageFails, SendFailed, DeleteMember, DeleteMemberFails
  <2>3. QED
    BY <2>1, <2>2, FreshKept DEF GoesOn
<1>4. ASSUME NEW n \in Nodes, StopMember(n) PROVE FreshInv'
  <2>1. UNCHANGED <<serve, topic, chats, gaveUp>> /\ \A o \in Members : pub'[o] \in {pub[o], "done"}
    BY <1>4 DEF StopMember, TypeOK
  <2>2. QED
    BY <2>1, FreshKept DEF GoesOn
<1>5. ASSUME NEW m \in Members, TakeChat(m) \/ TakeLeft(m) PROVE FreshInv'
  <2>0. chats[m] \in Nat
    BY MaxChatsAssumption DEF TypeOK
  <2>1. Left(m) \notin stored /\ UNCHANGED <<serve, topic, gaveUp>>
    BY <1>5 DEF TakeChat, TakeLeft, StoreInv
  <2>2. \A o \in Members \ {m} : pub'[o] = pub[o] /\ chats'[o] = chats[o]
    BY <1>5 DEF TakeChat, TakeLeft, TypeOK
  <2>3. \/ pub'[m] = "insert" /\ chats'[m] = chats[m] + 1
        \/ pub'[m] = "delete" /\ chats'[m] = chats[m]
    BY <1>5 DEF TakeChat, TakeLeft, TypeOK
  <2>4. ASSUME NEW i \in DOMAIN topic, NEW msg, msg = topic[i], msg \notin gaveUp
        PROVE  Behind(msg)'
    <3>1. msg \in Message /\ Behind(msg) /\ Reached(msg)
      BY <2>4 DEF TypeOK, FreshInv, OrderInv, NotAhead
    <3>2. msg.member \in Members /\ msg.n \in Nat
      BY <3>1, MaxChatsAssumption DEF Message
    <3>3. CASE msg.member = m
      BY <2>0, <2>1, <2>3, <3>1, <3>2, <3>3 DEF Behind, Reached
    <3>4. CASE msg.member # m
      BY <2>1, <2>2, <3>1, <3>2, <3>4 DEF Behind
    <3>5. QED
      BY <3>3, <3>4
  <2>5. QED
    BY <2>1, <2>4 DEF FreshInv
<1>6. ASSUME NEW m \in Members, PublishJoined(m) PROVE FreshInv'
  <2>1. /\ UNCHANGED <<chats, gaveUp, pub>> /\ serve' = [serve EXCEPT ![m] = "start"]
        /\ pub[m] \in {"none", "select", "done"}
        /\ Accept(Joined(m)) \/ UNCHANGED topic
    BY <1>6 DEF PublishJoined, QueuePublish, GateInv
  <2>2. (\A o \in Members : GoesOn(o)) /\ Behind(Joined(m))'
    BY <2>1 DEF TypeOK, GoesOn, Behind, Joined
  <2>3. QED
    BY <2>1, <2>2, FreshAccept, FreshKept, MessageTypes
<1>7. ASSUME NEW m \in Members, PublishChat(m) PROVE FreshInv'
  <2>1. /\ UNCHANGED <<chats, gaveUp, serve>> /\ pub' = [pub EXCEPT ![m] = "select"]
        /\ serve[m] = "served" /\ Chat(m, chats[m]) \in Message
        /\ Accept(Chat(m, chats[m])) \/ UNCHANGED topic
    BY <1>7, MessageTypes DEF PublishChat, QueuePublish, GateInv, TypeOK
  <2>2. (\A o \in Members : GoesOn(o)) /\ Behind(Chat(m, chats[m]))'
    BY <2>1 DEF TypeOK, GoesOn, Behind, Chat
  <2>3. QED
    BY <2>1, <2>2, FreshAccept, FreshKept
<1>8. ASSUME NEW m \in Members, PublishLeft(m) PROVE FreshInv'
  <2>1. /\ UNCHANGED <<chats, gaveUp, serve>> /\ pub' = [pub EXCEPT ![m] = "done"]
        /\ serve[m] = "served"
        /\ Accept(Left(m)) \/ UNCHANGED topic
    BY <1>8 DEF PublishLeft, QueuePublish, GateInv
  <2>2. \A o \in Members : GoesOn(o)
    BY <2>1 DEF TypeOK, GoesOn
  <2>3. Behind(Left(m))'
    <3>0. m \in DOMAIN pub
      BY DEF TypeOK
    <3>1. pub'[m] = "done" /\ serve'[m] = "served"
      BY <2>1, <3>0
    <3>2. ASSUME NEW msg, msg.member = m PROVE Behind(msg)'
      BY <3>1, <3>2 DEF Behind
    <3>3. QED
      BY <3>2 DEF Left
  <2>4. QED
    BY <2>1, <2>2, <2>3, FreshAccept, FreshKept, MessageTypes
<1>9. ASSUME NEW m \in Members, GiveUp(m) PROVE FreshInv'
  BY <1>9, FreshKept DEF GiveUp, GoesOn
<1>10. ASSUME NEW msg \in gaveUp, ExecuteLate(msg) PROVE FreshInv'
  <2>1. /\ msg \in Message /\ Accept(msg)
        /\ UNCHANGED <<chats, gaveUp, serve, pub>>
    BY <1>10 DEF ExecuteLate, TypeOK
  <2>2. QED
    BY <2>1, FreshAccept DEF GoesOn
<1>11. ASSUME NEW m \in Members,
              WriteMessage(m) \/ ListenClosed(m) \/ Poll(m) \/ ReadError(m) \/
              SendFailedPanics(m) \/ ReadChat(m) \/ Close(m)
       PROVE  UNCHANGED <<serve, pub, chats, topic, gaveUp>>
  BY <1>11 DEF WriteMessage, ListenClosed, Poll, ReadError, SendFailedPanics, ReadChat, Close, Die
<1>12. ASSUME NEW n \in Nodes,
              Subscribe(n) \/ SubscribeFails(n) \/ Evict(n) \/ Receive(n) \/
              Notify(n) \/ NotifyTimeout(n) \/ ReceiveClosed(n) \/ Crash(n) \/
              MapFault(n)
       PROVE  UNCHANGED <<serve, pub, chats, topic, gaveUp>>
  BY <1>12 DEF Subscribe, SubscribeFails, Evict, Receive, Notify, NotifyTimeout,
         ReceiveClosed, Crash, MapFault, Die
<1>13. CASE (\E x \in Deadlines : Expire(x)) \/ UNCHANGED vars
  BY <1>1, <1>13 DEF Expire, vars
<1>14. QED
  BY <1>1, <1>2, <1>3, <1>4, <1>5, <1>6, <1>7, <1>8, <1>9, <1>10, <1>11, <1>12, <1>13
  DEF Next, ServeStep, ListenStep, BroadcastStep, PublishStep, SetupStep, RoomStep

-----------------------------------------------------------------------------
(* Whom a room knows                                                       *)

\* What the loops over Room.members leave of a Room: those still to visit
\* were in the loop before.
LEMMA NextNotifyRoom ==
    ASSUME NEW n \in Nodes, NEW i, NEW rest \in SUBSET Members,
           room \in [Nodes -> RoomState], NextNotify(n, i, rest)
    PROVE  /\ \A o \in Nodes \ {n} : room'[o] = room[o]
           /\ room'[n].at \in {"recv", "notify"}
           /\ room'[n].todo \subseteq rest
           /\ room'[n].cur \in rest \cup {NoMember}
           /\ room'[n].at = "notify" =>
                room'[n].msg = i /\ room'[n].cur \in rest /\ room'[n].cur \notin room'[n].todo
<1>1. CASE room' = [room EXCEPT ![n] = Idle]
  BY <1>1 DEF Idle
<1>2. ASSUME NEW m \in rest,
             room' = [room EXCEPT ![n] =
                        [at |-> "notify", msg |-> i, cur |-> m, todo |-> rest \ {m}]]
      PROVE  /\ room'[n].at = "notify" /\ room'[n].msg = i
             /\ room'[n].cur = m /\ room'[n].todo = rest \ {m}
             /\ \A o \in Nodes \ {n} : room'[o] = room[o]
  BY <1>2
<1>3. QED
  BY <1>1, <1>2 DEF NextNotify

\* The closing loop visits only members that were in the room.
LEMMA NextStopRoom ==
    ASSUME NEW n \in Nodes, NEW rest \in SUBSET Members,
           room \in [Nodes -> RoomState], NextStop(n, rest)
    PROVE  /\ \A o \in Nodes \ {n} : room'[o] = room[o]
           /\ room'[n].at \in {"stop", "done"}
           /\ room'[n].todo \subseteq rest
           /\ room'[n].cur \in rest \cup {NoMember}
           /\ room'[n].at = "stop" => room'[n].cur \in rest /\ room'[n].cur \notin room'[n].todo
BY DEF NextStop, Idle

\* Whom a room knows is a member.
LEMMA AttendingTypes ==
    ASSUME TypeOK, NEW n \in Nodes
    PROVE  Attending(n) \subseteq Members
BY DEF TypeOK, RoomState, Attending

\* A step that leaves a room's members and loop within what they were, and
\* takes no member out of its room, keeps RoomInv.
LEMMA RoomOnly ==
    ASSUME RoomInv, NEW n \in Nodes, UNCHANGED serve,
           \A o \in Nodes \ {n} : room'[o] = room[o] /\ members'[o] = members[o],
           Attending(n)' \subseteq Attending(n),
           room'[n].at \in {"notify", "stop"} =>
              room'[n].cur \in Members /\ room'[n].cur \notin room'[n].todo
    PROVE  RoomInv'
<1>1. ASSUME NEW o \in Nodes \ {n} PROVE RoomOK(o)'
  BY DEF RoomInv, RoomOK, Attending
<1>2. RoomOK(n)'
  BY DEF RoomInv, RoomOK
<1>3. QED
  BY <1>1, <1>2 DEF RoomInv

\* Every step keeps a room's members its own, admitted residents.
LEMMA RoomInvStep == TypeOK /\ RoomInv /\ [Next]_vars => RoomInv'
<1> SUFFICES ASSUME TypeOK, RoomInv, [Next]_vars PROVE RoomInv'
  OBVIOUS
<1>1. CASE UNCHANGED <<serve, members, room>>
  BY <1>1 DEF RoomInv, RoomOK, Attending
<1>2. ASSUME NEW m \in Members, ServeRoom(m) PROVE RoomInv'
  BY <1>2 DEF ServeRoom, TypeOK, RoomInv, RoomOK, Attending, InRoom
<1>3. ASSUME NEW m \in Members, ListenReady(m) PROVE RoomInv'
  BY <1>3 DEF ListenReady, TypeOK, RoomInv, RoomOK, Attending, InRoom
<1>4. ASSUME NEW m \in Members, ListenTimeout(m) PROVE RoomInv'
  BY <1>4 DEF ListenTimeout, TypeOK, RoomInv, RoomOK, Attending, InRoom
<1>5. ASSUME NEW m \in Members, BroadcastReady(m) PROVE RoomInv'
  BY <1>5 DEF BroadcastReady, TypeOK, RoomInv, RoomOK, Attending, InRoom
<1>6. ASSUME NEW m \in Members, BroadcastTimeout(m) PROVE RoomInv'
  BY <1>6 DEF BroadcastTimeout, TypeOK, RoomInv, RoomOK, Attending, InRoom
<1>7. ASSUME NEW m \in Members, InsertMember(m) PROVE RoomInv'
  BY <1>7 DEF InsertMember, TypeOK, RoomInv, RoomOK, Attending, InRoom
<1>8. ASSUME NEW m \in Members, InsertMemberFails(m) PROVE RoomInv'
  BY <1>8 DEF InsertMemberFails, TypeOK, RoomInv, RoomOK, Attending, InRoom
<1>9. ASSUME NEW m \in Members, ServeStops(m) PROVE RoomInv'
  BY <1>9 DEF ServeStops, TypeOK, RoomInv, RoomOK, Attending, InRoom
<1>10. ASSUME NEW m \in Members, BeginAddMember(m) PROVE RoomInv'
  BY <1>10 DEF BeginAddMember, TypeOK, RoomInv, RoomOK, Attending, InRoom
<1>11. ASSUME NEW m \in Members, EndAddMember(m) PROVE RoomInv'
  <2> DEFINE n == Home[m]
  <2>1. n \in Nodes /\ m /= NoMember
    BY HomeAssumption, NoMemberAssumption
  <2>2. /\ members' = [members EXCEPT ![n] = @ \cup {m}]
        /\ room'[n].at = room[n].at /\ room'[n].cur = room[n].cur
        /\ room'[n].todo \in {room[n].todo, room[n].todo \cup {m}}
        /\ \A o \in Nodes \ {n} : room'[o] = room[o]
    <3>1. room \in [Nodes -> RoomState] /\ room[n] \in RoomState
      BY <2>1 DEF TypeOK
    <3>2. CASE room' = [room EXCEPT ![n] = [room[n] EXCEPT !.todo = @ \cup {m}]]
      BY <1>11, <2>1, <3>1, <3>2 DEF EndAddMember, RoomState
    <3>3. CASE UNCHANGED room
      BY <1>11, <3>3 DEF EndAddMember
    <3>4. QED
      BY <1>11, <3>2, <3>3 DEF EndAddMember
  <2>3. serve[m] \notin InRoom /\ serve' = [serve EXCEPT ![m] = "join"]
    BY <1>11 DEF EndAddMember, InRoom
  <2>4. m \notin Attending(n) /\ Attending(n)' \subseteq Attending(n) \cup {m}
    BY <2>1, <2>2, <2>3 DEF RoomInv, RoomOK, Attending, TypeOK
  <2>5. ASSUME NEW o \in Nodes \ {n} PROVE RoomOK(o)'
    BY <2>1, <2>2, <2>3 DEF RoomInv, RoomOK, Attending, TypeOK, InRoom
  <2>6. RoomOK(n)'
    <3>1. \A a \in Attending(n)' : Home[a] = n /\ serve'[a] \in InRoom
      BY <2>1, <2>3, <2>4, AttendingTypes DEF RoomInv, RoomOK, TypeOK, InRoom
    <3>2. room'[n].at \in {"notify", "stop"} => room'[n].cur \in Members /\ room'[n].cur \notin room'[n].todo
      <4> HAVE room'[n].at \in {"notify", "stop"}
      <4>1. room[n].cur \in Members /\ room[n].cur \notin room[n].todo
        BY <2>1, <2>2 DEF RoomInv, RoomOK
      <4>2. room[n].cur /= m
        BY <2>4, <4>1, NoMemberAssumption DEF Attending
      <4>3. QED
        BY <2>2, <4>1, <4>2
    <3>3. QED
      BY <3>1, <3>2 DEF RoomOK
  <2>7. QED
    BY <2>5, <2>6 DEF RoomInv
<1>12. ASSUME NEW m \in Members, PublishJoined(m) PROVE RoomInv'
  BY <1>12 DEF PublishJoined, TypeOK, RoomInv, RoomOK, Attending, InRoom
<1>13. ASSUME NEW m \in Members, StartBroadcast(m) PROVE RoomInv'
  BY <1>13 DEF StartBroadcast, TypeOK, RoomInv, RoomOK, Attending, InRoom
<1>14. ASSUME NEW n \in Nodes, Receive(n) PROVE RoomInv'
  <2>1. PICK i \in sub[n] : /\ members' = [members EXCEPT ![n] = @ \ Departs(i)]
                            /\ NextNotify(n, i, members'[n])
    BY <1>14 DEF Receive
  <2>2. members'[n] \in SUBSET Members /\ room \in [Nodes -> RoomState]
    BY <2>1 DEF TypeOK, RoomState
  <2>3. /\ \A o \in Nodes \ {n} : room'[o] = room[o]
        /\ room'[n].todo \subseteq members'[n]
        /\ room'[n].cur \in members'[n] \cup {NoMember}
        /\ room'[n].at \in {"notify", "stop"} => room'[n].cur \in members'[n] /\ room'[n].cur \notin room'[n].todo
    BY ONLY <2>1, <2>2, NextNotifyRoom, n \in Nodes
  <2>4. /\ UNCHANGED serve
        /\ \A o \in Nodes \ {n} : members'[o] = members[o]
        /\ members'[n] \subseteq members[n]
    BY <1>14, <2>1 DEF Receive, TypeOK
  <2>5. Attending(n)' \subseteq Attending(n)
    BY <2>3, <2>4 DEF Attending
  <2>6. QED
    BY <2>2, <2>3, <2>4, <2>5, RoomOnly
<1>15. ASSUME NEW n \in Nodes, Notify(n) PROVE RoomInv'
  <2>1. NextNotify(n, room[n].msg, room[n].todo) /\ UNCHANGED <<serve, members>>
    BY <1>15 DEF Notify
  <2>2. room[n].todo \in SUBSET Members /\ room \in [Nodes -> RoomState]
    BY DEF TypeOK, RoomState
  <2>3. /\ \A o \in Nodes \ {n} : room'[o] = room[o]
        /\ room'[n].todo \subseteq room[n].todo
        /\ room'[n].cur \in room[n].todo \cup {NoMember}
        /\ room'[n].at \in {"notify", "stop"} => room'[n].cur \in room[n].todo /\ room'[n].cur \notin room'[n].todo
    BY ONLY <2>1, <2>2, NextNotifyRoom, n \in Nodes
  <2>4. /\ UNCHANGED serve
        /\ \A o \in Nodes \ {n} : members'[o] = members[o]
        /\ members'[n] \subseteq members[n]
    BY <1>15, <2>1 DEF Notify, TypeOK
  <2>5. Attending(n)' \subseteq Attending(n)
    BY <2>3, <2>4 DEF Attending
  <2>6. QED
    BY <2>2, <2>3, <2>4, <2>5, RoomOnly
<1>16. ASSUME NEW n \in Nodes, NotifyTimeout(n) PROVE RoomInv'
  <2>1. NextNotify(n, room[n].msg, room[n].todo) /\ UNCHANGED <<serve, members>>
    BY <1>16 DEF NotifyTimeout
  <2>2. room[n].todo \in SUBSET Members /\ room \in [Nodes -> RoomState]
    BY DEF TypeOK, RoomState
  <2>3. /\ \A o \in Nodes \ {n} : room'[o] = room[o]
        /\ room'[n].todo \subseteq room[n].todo
        /\ room'[n].cur \in room[n].todo \cup {NoMember}
        /\ room'[n].at \in {"notify", "stop"} => room'[n].cur \in room[n].todo /\ room'[n].cur \notin room'[n].todo
    BY ONLY <2>1, <2>2, NextNotifyRoom, n \in Nodes
  <2>4. /\ UNCHANGED serve
        /\ \A o \in Nodes \ {n} : members'[o] = members[o]
        /\ members'[n] \subseteq members[n]
    BY <1>16, <2>1 DEF NotifyTimeout, TypeOK
  <2>5. Attending(n)' \subseteq Attending(n)
    BY <2>3, <2>4 DEF Attending
  <2>6. QED
    BY <2>2, <2>3, <2>4, <2>5, RoomOnly
<1>17. ASSUME NEW n \in Nodes, ReceiveClosed(n) PROVE RoomInv'
  <2>1. NextStop(n, members[n]) /\ UNCHANGED <<serve, members>>
    BY <1>17 DEF ReceiveClosed
  <2>2. members[n] \in SUBSET Members /\ room \in [Nodes -> RoomState]
    BY DEF TypeOK, RoomState
  <2>3. /\ \A o \in Nodes \ {n} : room'[o] = room[o]
        /\ room'[n].todo \subseteq members[n]
        /\ room'[n].cur \in members[n] \cup {NoMember}
        /\ room'[n].at \in {"notify", "stop"} => room'[n].cur \in members[n] /\ room'[n].cur \notin room'[n].todo
    BY ONLY <2>1, <2>2, NextStopRoom, n \in Nodes
  <2>4. /\ UNCHANGED serve
        /\ \A o \in Nodes \ {n} : members'[o] = members[o]
        /\ members'[n] \subseteq members[n]
    BY <1>17, <2>1 DEF ReceiveClosed, TypeOK
  <2>5. Attending(n)' \subseteq Attending(n)
    BY <2>3, <2>4 DEF Attending
  <2>6. QED
    BY <2>2, <2>3, <2>4, <2>5, RoomOnly
<1>18. ASSUME NEW n \in Nodes, StopMember(n) PROVE RoomInv'
  <2>1. NextStop(n, room[n].todo) /\ UNCHANGED <<serve, members>>
    BY <1>18 DEF StopMember
  <2>2. room[n].todo \in SUBSET Members /\ room \in [Nodes -> RoomState]
    BY DEF TypeOK, RoomState
  <2>3. /\ \A o \in Nodes \ {n} : room'[o] = room[o]
        /\ room'[n].todo \subseteq room[n].todo
        /\ room'[n].cur \in room[n].todo \cup {NoMember}
        /\ room'[n].at \in {"notify", "stop"} => room'[n].cur \in room[n].todo /\ room'[n].cur \notin room'[n].todo
    BY ONLY <2>1, <2>2, NextStopRoom, n \in Nodes
  <2>4. /\ UNCHANGED serve
        /\ \A o \in Nodes \ {n} : members'[o] = members[o]
        /\ members'[n] \subseteq members[n]
    BY <1>18, <2>1 DEF StopMember, TypeOK
  <2>5. Attending(n)' \subseteq Attending(n)
    BY <2>3, <2>4 DEF Attending
  <2>6. QED
    BY <2>2, <2>3, <2>4, <2>5, RoomOnly
<1>19. ASSUME NEW m \in Members,
             WriteMessage(m) \/ ListenClosed(m) \/ Poll(m) \/ ReadError(m) \/
             TakeChat(m) \/ TakeLeft(m) \/ InsertMessage(m) \/
             InsertMessageFails(m) \/ PublishChat(m) \/ SendFailed(m) \/
             SendFailedPanics(m) \/ DeleteMember(m) \/ DeleteMemberFails(m) \/
             PublishLeft(m) \/ GiveUp(m) \/ ReadChat(m) \/ Close(m)
      PROVE  UNCHANGED <<serve, members, room>>
  BY <1>19 DEF WriteMessage, ListenClosed, Poll, ReadError, TakeChat, TakeLeft,
         InsertMessage, InsertMessageFails, PublishChat, SendFailed,
         SendFailedPanics, DeleteMember, DeleteMemberFails, PublishLeft,
         GiveUp, ReadChat, Close, Die
<1>20. ASSUME NEW n \in Nodes,
             Subscribe(n) \/ SubscribeFails(n) \/ Evict(n) \/ Crash(n) \/
             MapFault(n)
      PROVE  UNCHANGED <<serve, members, room>>
  BY <1>20 DEF Subscribe, SubscribeFails, Evict, Crash, MapFault, Die
<1>21. CASE (\E x \in Deadlines : Expire(x)) \/ (\E msg \in gaveUp : ExecuteLate(msg)) \/ UNCHANGED vars
  BY <1>1, <1>21 DEF Expire, ExecuteLate, vars
<1>22. QED
  BY <1>1, <1>2, <1>3, <1>4, <1>5, <1>6, <1>7, <1>8, <1>9, <1>10, <1>11, <1>12, <1>13, <1>14, <1>15, <1>16, <1>17, <1>18, <1>19, <1>20, <1>21
  DEF Next, ServeStep, ListenStep, BroadcastStep, PublishStep, SetupStep, RoomStep

-----------------------------------------------------------------------------
(* What has been read, and what is being distributed                       *)

\* A publication appends a message that every reader has yet to get.
LEMMA AcceptReader ==
    ASSUME TypeOK, ReaderInv, NotifyInv, NEW msg \in Message, Accept(msg),
           UNCHANGED <<seen, hand, listen, room>>,
           NEW m \in Members,
           serve'[m] \in InRoom <=> serve[m] \in InRoom
    PROVE  ReaderOK(m)'
<1>1. topic \in Seq(Message) /\ sub \in [Nodes -> SUBSET Nat] /\ Home[m] \in Nodes
  BY HomeAssumption DEF TypeOK
<1>2. ReaderOK(m) /\ Got(m)' = Got(m)
  BY DEF ReaderInv, Got
<1>3. ASSUME NEW i \in Got(m)
      PROVE  /\ i \in DOMAIN topic' /\ topic'[i] # Left(m)
             /\ \A j \in sub'[Home[m]] : i < j
  <2>1. i \in DOMAIN topic /\ topic[i] # Left(m) /\ \A j \in sub[Home[m]] : i < j
    BY <1>2 DEF ReaderOK
  <2>2. QED
    BY <1>1, <2>1, AcceptTopic
<1>4. QED
  BY <1>2, <1>3 DEF ReaderOK

\* A publication appends a message after the one a room is distributing.
LEMMA AcceptNotify ==
    ASSUME TypeOK, NotifyInv, NEW msg \in Message, Accept(msg),
           UNCHANGED <<seen, hand, room>>, NEW n \in Nodes
    PROVE  NotifyOK(n)'
<1>1. topic \in Seq(Message) /\ sub \in [Nodes -> SUBSET Nat]
  BY DEF TypeOK
<1>2. NotifyOK(n) /\ \A m : Got(m)' = Got(m)
  BY DEF NotifyInv, Got
<1>3. sub'[n] \subseteq DOMAIN topic'
  BY <1>1, <1>2, AcceptTopic DEF NotifyOK
<1>4. ASSUME room'[n].at = "notify"
      PROVE  /\ room[n].msg \in DOMAIN topic
             /\ room[n].msg \in DOMAIN topic'
             /\ topic'[room[n].msg] = topic[room[n].msg]
             /\ \A j \in sub'[n] : room[n].msg < j
  BY <1>1, <1>2, <1>4, AcceptTopic DEF NotifyOK
<1>5. QED
  BY <1>2, <1>3, <1>4 DEF NotifyOK

\* Every step keeps what members have read ahead of nothing still to come.
LEMMA ReaderStep == TypeOK /\ RoomInv /\ ReaderInv /\ NotifyInv /\ [Next]_vars => ReaderInv'
<1> SUFFICES ASSUME TypeOK, RoomInv, ReaderInv, NotifyInv, [Next]_vars PROVE ReaderInv'
  OBVIOUS
<1>1. CASE UNCHANGED <<serve, seen, hand, listen, topic, sub>>
  BY <1>1 DEF ReaderInv, ReaderOK, Got
<1>2. ASSUME NEW m \in Members, ServeRoom(m) PROVE ReaderInv'
  BY <1>2 DEF ServeRoom, TypeOK, ReaderInv, ReaderOK, Got, InRoom
<1>3. ASSUME NEW m \in Members, ListenReady(m) PROVE ReaderInv'
  BY <1>3 DEF ListenReady, TypeOK, ReaderInv, ReaderOK, Got, InRoom
<1>4. ASSUME NEW m \in Members, ListenTimeout(m) PROVE ReaderInv'
  BY <1>4 DEF ListenTimeout, TypeOK, ReaderInv, ReaderOK, Got, InRoom
<1>5. ASSUME NEW m \in Members, BroadcastReady(m) PROVE ReaderInv'
  BY <1>5 DEF BroadcastReady, TypeOK, ReaderInv, ReaderOK, Got, InRoom
<1>6. ASSUME NEW m \in Members, BroadcastTimeout(m) PROVE ReaderInv'
  BY <1>6 DEF BroadcastTimeout, TypeOK, ReaderInv, ReaderOK, Got, InRoom
<1>7. ASSUME NEW m \in Members, InsertMember(m) PROVE ReaderInv'
  BY <1>7 DEF InsertMember, TypeOK, ReaderInv, ReaderOK, Got, InRoom
<1>8. ASSUME NEW m \in Members, InsertMemberFails(m) PROVE ReaderInv'
  BY <1>8 DEF InsertMemberFails, TypeOK, ReaderInv, ReaderOK, Got, InRoom
<1>9. ASSUME NEW m \in Members, ServeStops(m) PROVE ReaderInv'
  BY <1>9 DEF ServeStops, TypeOK, ReaderInv, ReaderOK, Got, InRoom
<1>10. ASSUME NEW m \in Members, BeginAddMember(m) PROVE ReaderInv'
  BY <1>10 DEF BeginAddMember, TypeOK, ReaderInv, ReaderOK, Got, InRoom
<1>11. ASSUME NEW m \in Members, EndAddMember(m) PROVE ReaderInv'
  BY <1>11 DEF EndAddMember, TypeOK, ReaderInv, ReaderOK, Got, InRoom
<1>12. ASSUME NEW m \in Members, PublishJoined(m) PROVE ReaderInv'
  <2>1. Joined(m) \in Message
    BY MessageTypes DEF TypeOK
  <2>2. /\ UNCHANGED <<seen, hand, listen, room>>
        /\ \A r \in Members : serve'[r] \in InRoom <=> serve[r] \in InRoom
    BY <1>12 DEF PublishJoined, TypeOK, InRoom
  <2>3. CASE Accept(Joined(m))
    BY <2>1, <2>2, <2>3, AcceptReader DEF ReaderInv
  <2>4. CASE UNCHANGED <<topic, sub>>
    BY <2>2, <2>4 DEF ReaderInv, ReaderOK, Got
  <2>5. QED
    BY <1>12, <2>3, <2>4 DEF PublishJoined, QueuePublish
<1>13. ASSUME NEW m \in Members, StartBroadcast(m) PROVE ReaderInv'
  BY <1>13 DEF StartBroadcast, TypeOK, ReaderInv, ReaderOK, Got, InRoom
<1>14. ASSUME NEW m \in Members, PublishChat(m) PROVE ReaderInv'
  <2>1. Chat(m, chats[m]) \in Message
    BY MessageTypes DEF TypeOK
  <2>2. /\ UNCHANGED <<seen, hand, listen, room>>
        /\ \A r \in Members : serve'[r] \in InRoom <=> serve[r] \in InRoom
    BY <1>14 DEF PublishChat, TypeOK, InRoom
  <2>3. CASE Accept(Chat(m, chats[m]))
    BY <2>1, <2>2, <2>3, AcceptReader DEF ReaderInv
  <2>4. CASE UNCHANGED <<topic, sub>>
    BY <2>2, <2>4 DEF ReaderInv, ReaderOK, Got
  <2>5. QED
    BY <1>14, <2>3, <2>4 DEF PublishChat, QueuePublish
<1>15. ASSUME NEW m \in Members, PublishLeft(m) PROVE ReaderInv'
  <2>1. Left(m) \in Message
    BY MessageTypes DEF TypeOK
  <2>2. /\ UNCHANGED <<seen, hand, listen, room>>
        /\ \A r \in Members : serve'[r] \in InRoom <=> serve[r] \in InRoom
    BY <1>15 DEF PublishLeft, TypeOK, InRoom
  <2>3. CASE Accept(Left(m))
    BY <2>1, <2>2, <2>3, AcceptReader DEF ReaderInv
  <2>4. CASE UNCHANGED <<topic, sub>>
    BY <2>2, <2>4 DEF ReaderInv, ReaderOK, Got
  <2>5. QED
    BY <1>15, <2>3, <2>4 DEF PublishLeft, QueuePublish
<1>16. ASSUME NEW msg \in gaveUp, ExecuteLate(msg) PROVE ReaderInv'
  <2>1. msg \in Message /\ Accept(msg) /\ UNCHANGED <<seen, hand, listen, room, serve>>
    BY <1>16 DEF ExecuteLate, TypeOK
  <2>2. QED
    BY <2>1, AcceptReader DEF ReaderInv
<1>17. ASSUME NEW m \in Members, WriteMessage(m) PROVE ReaderInv'
  <2>1. /\ seen' = [seen EXCEPT ![m] = @ \cup ({hand[m]} \ {NoIndex})]
        /\ hand' = [hand EXCEPT ![m] = NoIndex]
        /\ listen' = [listen EXCEPT ![m] = "recv"]
        /\ UNCHANGED <<serve, topic, sub>>
    BY <1>17 DEF WriteMessage
  <2>2. ASSUME NEW r \in Members
        PROVE  /\ Got(r)' = Got(r)
               /\ hand'[r] /= NoIndex =>
                    hand'[r] = hand[r] /\ seen'[r] = seen[r] /\ listen'[r] = listen[r]
    BY <2>1 DEF TypeOK, Got
  <2>3. QED
    BY <2>1, <2>2 DEF ReaderInv, ReaderOK
<1>18. ASSUME NEW m \in Members, ListenClosed(m) PROVE ReaderInv'
  BY <1>18 DEF ListenClosed, TypeOK, ReaderInv, ReaderOK, Got, InRoom
<1>19. ASSUME NEW m \in Members, SendFailed(m) PROVE ReaderInv'
  BY <1>19 DEF SendFailed, TypeOK, ReaderInv, ReaderOK, Got, InRoom, HandTo
<1>20. ASSUME NEW m \in Members, SendFailedPanics(m) PROVE ReaderInv'
  BY <1>20, HomeAssumption DEF SendFailedPanics, TypeOK, ReaderInv, ReaderOK, Got, InRoom, Die
<1>21. ASSUME NEW n \in Nodes, Receive(n) PROVE ReaderInv'
  <2>1. /\ \A o \in Nodes : sub'[o] \subseteq sub[o]
        /\ UNCHANGED <<serve, seen, hand, listen, topic>>
    BY <1>21 DEF Receive, TypeOK
  <2>2. QED
    BY <2>1, HomeAssumption DEF ReaderInv, ReaderOK, Got
<1>22. ASSUME NEW n \in Nodes, Notify(n) PROVE ReaderInv'
  <2>1. PICK c \in Members, i \in DOMAIN topic : c = room[n].cur /\ i = room[n].msg
    BY <1>22 DEF Notify, RoomInv, RoomOK, NotifyInv, NotifyOK
  <2>2. /\ room[n].at = "notify" /\ listen[c] = "recv"
        /\ listen' = [listen EXCEPT ![c] = "write"]
        /\ hand' = [hand EXCEPT ![c] = i]
        /\ UNCHANGED <<serve, seen, topic, sub>>
    BY <1>22, <2>1 DEF Notify, HandTo
  <2>3. Home[c] = n /\ serve[c] \in InRoom
    BY <2>1, NoMemberAssumption DEF RoomInv, RoomOK, Attending
  <2>4. /\ topic[i] /= Left(c)
        /\ \A j \in sub[n] : i < j
        /\ \A j \in Got(c) : j < i
    BY <2>1, <2>2 DEF NotifyInv, NotifyOK
  <2>5. ReaderOK(c)'
    <3>1. Got(c)' \subseteq Got(c) \cup {i} /\ hand'[c] = i
      BY <2>2 DEF Got, TypeOK
    <3>2. \A j \in seen[c] : j < i
      BY <2>4 DEF Got
    <3>3. ReaderOK(c)
      BY DEF ReaderInv
    <3>4. listen'[c] = "write"
      BY <2>2 DEF TypeOK
    <3>5. QED
      BY <2>2, <2>3, <2>4, <3>1, <3>2, <3>3, <3>4 DEF ReaderOK
  <2>6. ASSUME NEW r \in Members \ {c} PROVE ReaderOK(r)'
    BY <2>2 DEF ReaderInv, ReaderOK, Got, TypeOK
  <2>7. QED
    BY <2>5, <2>6 DEF ReaderInv
<1>23. ASSUME NEW n \in Nodes, Crash(n) PROVE ReaderInv'
  BY <1>23, HomeAssumption DEF Crash, TypeOK, ReaderInv, ReaderOK, Got, InRoom, Die
<1>24. ASSUME NEW n \in Nodes, MapFault(n) PROVE ReaderInv'
  BY <1>24, HomeAssumption DEF MapFault, TypeOK, ReaderInv, ReaderOK, Got, InRoom, Die
<1>25. ASSUME NEW m \in Members,
             Poll(m) \/ ReadError(m) \/ TakeChat(m) \/ TakeLeft(m) \/
             InsertMessage(m) \/ InsertMessageFails(m) \/ DeleteMember(m) \/
             DeleteMemberFails(m) \/ GiveUp(m) \/ ReadChat(m) \/ Close(m)
      PROVE  UNCHANGED <<serve, seen, hand, listen, topic, sub>>
  BY <1>25 DEF Poll, ReadError, TakeChat, TakeLeft, InsertMessage,
         InsertMessageFails, DeleteMember, DeleteMemberFails, GiveUp,
         ReadChat, Close
<1>26. ASSUME NEW n \in Nodes,
             Subscribe(n) \/ SubscribeFails(n) \/ Evict(n) \/
             NotifyTimeout(n) \/ ReceiveClosed(n) \/ StopMember(n)
      PROVE  UNCHANGED <<serve, seen, hand, listen, topic, sub>>
  BY <1>26 DEF Subscribe, SubscribeFails, Evict, NotifyTimeout, ReceiveClosed,
         StopMember
<1>27. CASE (\E x \in Deadlines : Expire(x)) \/ UNCHANGED vars
  BY <1>1, <1>27 DEF Expire, vars
<1>28. QED
  BY <1>1, <1>2, <1>3, <1>4, <1>5, <1>6, <1>7, <1>8, <1>9, <1>10, <1>11, <1>12, <1>13, <1>14, <1>15, <1>16, <1>17, <1>18, <1>19, <1>20, <1>21, <1>22, <1>23, <1>24, <1>25, <1>26, <1>27
  DEF Next, ServeStep, ListenStep, BroadcastStep, PublishStep, SetupStep, RoomStep

\* A step keeps NotifyInv if it keeps NotifyOK for one node and disturbs no
\* member that another node is notifying.
LEMMA NotifyOnly ==
    ASSUME NotifyInv, NEW n \in Nodes, UNCHANGED topic, NotifyOK(n)',
           \A o \in Nodes \ {n} : room'[o] = room[o] /\ sub'[o] = sub[o],
           \A o \in Nodes \ {n} : room[o].at = "notify" =>
              \A m \in room[o].todo \cup {room[o].cur} : Got(m)' = Got(m)
    PROVE  NotifyInv'
<1>1. ASSUME NEW o \in Nodes \ {n} PROVE NotifyOK(o)'
  BY DEF NotifyInv, NotifyOK
<1>2. QED
  BY <1>1 DEF NotifyInv

\* The loop of a notifying room holds members it knows.
LEMMA AttendingMembers ==
    ASSUME TypeOK, RoomInv, NEW n \in Nodes, room[n].at = "notify",
           NEW m \in room[n].todo \cup {room[n].cur}
    PROVE  m \in Members /\ Home[m] = n
BY NoMemberAssumption DEF RoomInv, RoomOK, Attending, TypeOK, RoomState

\* Every step keeps the message a room distributes between what its members
\* have read and what is still to come.
LEMMA NotifyStep == TypeOK /\ StoreInv /\ RoomInv /\ ReaderInv /\ NotifyInv /\ [Next]_vars => NotifyInv'
<1> SUFFICES ASSUME TypeOK, StoreInv, RoomInv, ReaderInv, NotifyInv, [Next]_vars PROVE NotifyInv'
  OBVIOUS
<1>1. CASE UNCHANGED <<seen, hand, room, topic, sub>>
  BY <1>1 DEF NotifyInv, NotifyOK, Got
<1>2. ASSUME NEW m \in Members, EndAddMember(m) PROVE NotifyInv'
  <2> DEFINE n == Home[m]
  <2>1. n \in Nodes /\ UNCHANGED <<seen, hand, topic, sub>>
    BY <1>2, HomeAssumption DEF EndAddMember
  <2>2. /\ room'[n].at = room[n].at /\ room'[n].cur = room[n].cur /\ room'[n].msg = room[n].msg
        /\ room'[n].todo \subseteq room[n].todo \cup {m}
        /\ \A o \in Nodes \ {n} : room'[o] = room[o]
    <3>1. room \in [Nodes -> RoomState] /\ room[n] \in RoomState
      BY <2>1 DEF TypeOK
    <3>2. CASE room' = [room EXCEPT ![n] = [room[n] EXCEPT !.todo = @ \cup {m}]]
      BY <1>2, <2>1, <3>1, <3>2 DEF EndAddMember, RoomState
    <3>3. CASE UNCHANGED room
      BY <1>2, <3>3 DEF EndAddMember
    <3>4. QED
      BY <1>2, <3>2, <3>3 DEF EndAddMember
  <2>3. \A r : Got(r)' = Got(r)
    BY <2>1 DEF Got
  <2>4. Got(m) = {} /\ Left(m) \notin stored
    BY <1>2 DEF EndAddMember, ReaderInv, ReaderOK, InRoom, StoreInv
  <2>5. \A i \in DOMAIN topic : topic[i] /= Left(m)
    BY <2>4 DEF StoreInv, PersistBeforePublish
  <2>6. NotifyOK(n)'
    BY <2>1, <2>2, <2>3, <2>4, <2>5 DEF NotifyInv, NotifyOK
  <2>7. QED
    BY <2>1, <2>2, <2>3, <2>6, NotifyOnly
<1>3. ASSUME NEW m \in Members, PublishJoined(m) PROVE NotifyInv'
  <2>1. Joined(m) \in Message
    BY MessageTypes DEF TypeOK
  <2>2. UNCHANGED <<seen, hand, room>>
    BY <1>3 DEF PublishJoined
  <2>3. CASE Accept(Joined(m))
    BY <2>1, <2>2, <2>3, AcceptNotify DEF NotifyInv
  <2>4. CASE UNCHANGED <<topic, sub>>
    BY <2>2, <2>4 DEF NotifyInv, NotifyOK, Got
  <2>5. QED
    BY <1>3, <2>3, <2>4 DEF PublishJoined, QueuePublish
<1>4. ASSUME NEW m \in Members, PublishChat(m) PROVE NotifyInv'
  <2>1. Chat(m, chats[m]) \in Message
    BY MessageTypes DEF TypeOK
  <2>2. UNCHANGED <<seen, hand, room>>
    BY <1>4 DEF PublishChat
  <2>3. CASE Accept(Chat(m, chats[m]))
    BY <2>1, <2>2, <2>3, AcceptNotify DEF NotifyInv
  <2>4. CASE UNCHANGED <<topic, sub>>
    BY <2>2, <2>4 DEF NotifyInv, NotifyOK, Got
  <2>5. QED
    BY <1>4, <2>3, <2>4 DEF PublishChat, QueuePublish
<1>5. ASSUME NEW m \in Members, PublishLeft(m) PROVE NotifyInv'
  <2>1. Left(m) \in Message
    BY MessageTypes DEF TypeOK
  <2>2. UNCHANGED <<seen, hand, room>>
    BY <1>5 DEF PublishLeft
  <2>3. CASE Accept(Left(m))
    BY <2>1, <2>2, <2>3, AcceptNotify DEF NotifyInv
  <2>4. CASE UNCHANGED <<topic, sub>>
    BY <2>2, <2>4 DEF NotifyInv, NotifyOK, Got
  <2>5. QED
    BY <1>5, <2>3, <2>4 DEF PublishLeft, QueuePublish
<1>6. ASSUME NEW msg \in gaveUp, ExecuteLate(msg) PROVE NotifyInv'
  <2>1. msg \in Message /\ Accept(msg) /\ UNCHANGED <<seen, hand, room>>
    BY <1>6 DEF ExecuteLate, TypeOK
  <2>2. QED
    BY <2>1, AcceptNotify DEF NotifyInv
<1>7. ASSUME NEW m \in Members, WriteMessage(m) PROVE NotifyInv'
  <2>1. /\ seen' = [seen EXCEPT ![m] = @ \cup ({hand[m]} \ {NoIndex})]
        /\ hand' = [hand EXCEPT ![m] = NoIndex]
        /\ UNCHANGED <<room, topic, sub>>
    BY <1>7 DEF WriteMessage
  <2>2. \A r \in Members : Got(r)' = Got(r)
    BY <2>1 DEF TypeOK, Got
  <2>3. QED
    BY <2>1, <2>2, AttendingMembers DEF NotifyInv, NotifyOK
<1>8. ASSUME NEW m \in Members, SendFailed(m) PROVE NotifyInv'
  <2>1. /\ listen[m] = "recv" /\ hand' = [hand EXCEPT ![m] = NoIndex]
        /\ UNCHANGED <<seen, room, topic, sub>>
    BY <1>8 DEF SendFailed, HandTo
  <2>2. \A r \in Members : Got(r)' = Got(r)
    BY <2>1 DEF TypeOK, Got, ReaderInv, ReaderOK
  <2>3. QED
    BY <2>1, <2>2, AttendingMembers DEF NotifyInv, NotifyOK
<1>9. ASSUME NEW m \in Members, SendFailedPanics(m) PROVE NotifyInv'
  BY <1>9, HomeAssumption DEF SendFailedPanics, TypeOK, NotifyInv, NotifyOK, Got, Die
<1>10. ASSUME NEW n \in Nodes, Receive(n) PROVE NotifyInv'
  <2>1. PICK i \in sub[n] : /\ \A j \in sub[n] : i <= j
                            /\ sub' = [sub EXCEPT ![n] = @ \ {i}]
                            /\ members' = [members EXCEPT ![n] = @ \ Departs(i)]
                            /\ NextNotify(n, i, members'[n])
    BY <1>10 DEF Receive, IsNext
  <2>2. /\ members'[n] \in SUBSET Members /\ room \in [Nodes -> RoomState]
        /\ members'[n] = members[n] \ Departs(i)
        /\ sub'[n] = sub[n] \ {i}
        /\ \A o \in Nodes \ {n} : sub'[o] = sub[o]
    BY <2>1 DEF TypeOK
  <2>3. UNCHANGED <<seen, hand, topic>> /\ \A m : Got(m)' = Got(m)
    BY <1>10 DEF Receive, Got
  <2>4. /\ \A o \in Nodes \ {n} : room'[o] = room[o]
        /\ room'[n].at = "notify" =>
             room'[n].msg = i /\ room'[n].todo \cup {room'[n].cur} \subseteq members'[n]
    BY ONLY <2>1, <2>2, NextNotifyRoom, n \in Nodes
  <2>5. /\ i \in DOMAIN topic /\ i \in Nat
        /\ \A j \in sub'[n] : i < j
        /\ sub'[n] \subseteq DOMAIN topic
    BY <2>1, <2>2 DEF NotifyInv, NotifyOK, TypeOK
  <2>6. ASSUME NEW m \in members'[n]
        PROVE  topic[i] /= Left(m) /\ \A j \in Got(m) : j < i
    <3>1. m \in Members /\ Home[m] = n
      BY <2>2 DEF RoomInv, RoomOK, Attending
    <3>2. \A j \in Got(m) : j < i
      BY <2>1, <3>1 DEF ReaderInv, ReaderOK
    <3>3. topic[i] /= Left(m)
      BY <2>2 DEF Departs, Left
    <3>4. QED
      BY <3>2, <3>3
  <2>7. NotifyOK(n)'
    BY <2>3, <2>4, <2>5, <2>6 DEF NotifyOK
  <2>8. QED
    BY <2>2, <2>3, <2>4, <2>7, NotifyOnly
<1>11. ASSUME NEW n \in Nodes, Notify(n) PROVE NotifyInv'
  <2>1. NextNotify(n, room[n].msg, room[n].todo) /\ UNCHANGED <<seen, topic, sub>>
    BY <1>11 DEF Notify
  <2>2. room[n].todo \in SUBSET Members /\ room \in [Nodes -> RoomState] /\ room[n].at = "notify"
    BY <1>11 DEF Notify, TypeOK, RoomState
  <2>3. /\ \A o \in Nodes \ {n} : room'[o] = room[o]
        /\ room'[n].at = "notify" =>
             /\ room'[n].msg = room[n].msg
             /\ room'[n].todo \cup {room'[n].cur} \subseteq room[n].todo
    BY ONLY <2>1, <2>2, NextNotifyRoom, n \in Nodes
  <2>4. PICK c \in Members : c = room[n].cur /\ c \notin room[n].todo /\ Home[c] = n
    BY <2>2, NoMemberAssumption DEF RoomInv, RoomOK, Attending
  <2>5. \A m \in Members \ {c} : Got(m)' = Got(m)
    BY <1>11, <2>4 DEF Notify, HandTo, Got, TypeOK
  <2>6. NotifyOK(n)'
    BY <2>1, <2>2, <2>3, <2>4, <2>5 DEF NotifyInv, NotifyOK
  <2>7. ASSUME NEW o \in Nodes \ {n}, room[o].at = "notify",
               NEW m \in room[o].todo \cup {room[o].cur}
        PROVE  Got(m)' = Got(m)
    <3>1. m \in Members /\ Home[m] = o
      BY <2>7, AttendingMembers
    <3>2. QED
      BY <2>4, <2>5, <3>1
  <2>8. QED
    BY <2>1, <2>3, <2>6, <2>7, NotifyOnly
<1>12. ASSUME NEW n \in Nodes, NotifyTimeout(n) PROVE NotifyInv'
  <2>1. NextNotify(n, room[n].msg, room[n].todo) /\ UNCHANGED <<seen, topic, sub>>
    BY <1>12 DEF NotifyTimeout
  <2>2. room[n].todo \in SUBSET Members /\ room \in [Nodes -> RoomState] /\ room[n].at = "notify"
    BY <1>12 DEF NotifyTimeout, TypeOK, RoomState
  <2>3. /\ \A o \in Nodes \ {n} : room'[o] = room[o]
        /\ room'[n].at = "notify" =>
             /\ room'[n].msg = room[n].msg
             /\ room'[n].todo \cup {room'[n].cur} \subseteq room[n].todo
    BY ONLY <2>1, <2>2, NextNotifyRoom, n \in Nodes
  <2>4. \A m : Got(m)' = Got(m)
    BY <1>12 DEF NotifyTimeout, Got
  <2>5. NotifyOK(n)'
    BY <2>1, <2>2, <2>3, <2>4 DEF NotifyInv, NotifyOK
  <2>6. QED
    BY <2>1, <2>3, <2>4, <2>5, NotifyOnly
<1>13. ASSUME NEW n \in Nodes, ReceiveClosed(n) PROVE NotifyInv'
  <2>1. NextStop(n, members[n]) /\ UNCHANGED <<seen, hand, topic, sub>>
    BY <1>13 DEF ReceiveClosed
  <2>2. members[n] \in SUBSET Members /\ room \in [Nodes -> RoomState]
    BY DEF TypeOK, RoomState
  <2>3. /\ \A o \in Nodes \ {n} : room'[o] = room[o]
        /\ room'[n].at /= "notify"
    BY ONLY <2>1, <2>2, NextStopRoom, n \in Nodes
  <2>4. QED
    BY <2>1, <2>3 DEF NotifyInv, NotifyOK, Got
<1>14. ASSUME NEW n \in Nodes, StopMember(n) PROVE NotifyInv'
  <2>1. NextStop(n, room[n].todo) /\ UNCHANGED <<seen, hand, topic, sub>>
    BY <1>14 DEF StopMember
  <2>2. room[n].todo \in SUBSET Members /\ room \in [Nodes -> RoomState]
    BY DEF TypeOK, RoomState
  <2>3. /\ \A o \in Nodes \ {n} : room'[o] = room[o]
        /\ room'[n].at /= "notify"
    BY ONLY <2>1, <2>2, NextStopRoom, n \in Nodes
  <2>4. QED
    BY <2>1, <2>3 DEF NotifyInv, NotifyOK, Got
<1>15. ASSUME NEW n \in Nodes, Crash(n) PROVE NotifyInv'
  BY <1>15, HomeAssumption DEF Crash, TypeOK, NotifyInv, NotifyOK, Got, Die
<1>16. ASSUME NEW n \in Nodes, MapFault(n) PROVE NotifyInv'
  BY <1>16, HomeAssumption DEF MapFault, TypeOK, NotifyInv, NotifyOK, Got, Die
<1>17. ASSUME NEW m \in Members,
             ServeRoom(m) \/ ListenReady(m) \/ ListenTimeout(m) \/
             BroadcastReady(m) \/ BroadcastTimeout(m) \/ InsertMember(m) \/
             InsertMemberFails(m) \/ ServeStops(m) \/ BeginAddMember(m) \/
             StartBroadcast(m) \/ ListenClosed(m) \/ Poll(m) \/
             ReadError(m) \/ TakeChat(m) \/ TakeLeft(m) \/ InsertMessage(m) \/
             InsertMessageFails(m) \/ DeleteMember(m) \/
             DeleteMemberFails(m) \/ GiveUp(m) \/ ReadChat(m) \/ Close(m)
      PROVE  UNCHANGED <<seen, hand, room, topic, sub>>
  BY <1>17 DEF ServeRoom, ListenReady, ListenTimeout, BroadcastReady,
         BroadcastTimeout, InsertMember, InsertMemberFails, ServeStops,
         BeginAddMember, StartBroadcast, ListenClosed, Poll, ReadError,
         TakeChat, TakeLeft, InsertMessage, InsertMessageFails,
         DeleteMember, DeleteMemberFails, GiveUp, ReadChat, Close
<1>18. ASSUME NEW n \in Nodes,
             Subscribe(n) \/ SubscribeFails(n) \/ Evict(n)
      PROVE  UNCHANGED <<seen, hand, room, topic, sub>>
  BY <1>18 DEF Subscribe, SubscribeFails, Evict
<1>19. CASE (\E x \in Deadlines : Expire(x)) \/ UNCHANGED vars
  BY <1>1, <1>19 DEF Expire, vars
<1>20. QED
  BY <1>1, <1>2, <1>3, <1>4, <1>5, <1>6, <1>7, <1>8, <1>9, <1>10, <1>11, <1>12, <1>13, <1>14, <1>15, <1>16, <1>17, <1>18, <1>19
  DEF Next, ServeStep, ListenStep, BroadcastStep, PublishStep, SetupStep, RoomStep

-----------------------------------------------------------------------------
(* The theorems                                                            *)

\* IInv is an inductive invariant of the room.
THEOREM Inductive == Spec => []IInv
<1>1. Init => IInv
  <2> SUFFICES ASSUME Init PROVE IInv
    OBVIOUS
  <2>1. Idle \in RoomState /\ Idle.at = "recv" /\ Idle.cur = NoMember /\ Idle.todo = {}
    BY DEF Idle, RoomState, NoIndex
  <2>2. TypeOK /\ CountInv
    BY <2>1, MaxChatsAssumption DEF Init, TypeOK, CountInv, NoIndex
  <2>3. GateInv /\ StoreInv /\ NumberInv /\ OrderInv /\ FreshInv
    BY DEF Init, GateInv, StoreInv, NumberInv, OrderInv, SenderOrder, NotAhead, FreshInv,
           PersistBeforePublish, InRoom
  <2>4. RoomInv
    BY <2>1, NoMemberAssumption DEF Init, RoomInv, RoomOK, Attending
  <2>5. ReaderInv /\ NotifyInv
    BY <2>1, HomeAssumption DEF Init, ReaderInv, ReaderOK, NotifyInv, NotifyOK, Got, InRoom
  <2>6. QED
    BY <2>2, <2>3, <2>4, <2>5 DEF IInv
<1>2. IInv /\ [Next]_vars => IInv'
  BY TypeInvStep, GateStep, StoreStep, NumberStep, OrderStep, FreshStep, RoomInvStep, ReaderStep,
     NotifyStep
  DEF IInv, TypeInv
<1>3. QED
  BY <1>1, <1>2, PTL DEF Spec

\* Every variable keeps its type, whatever the faults.
THEOREM TypeCorrect == Spec => []TypeOK
BY Inductive, PTL DEF IInv

\* Controller.ServeRoom and Controller.Publish publish only what a
\* repository call has stored.
THEOREM PersistFirst == Spec => []PersistBeforePublish
<1>1. IInv => PersistBeforePublish
  BY DEF IInv, StoreInv
<1>2. QED
  BY <1>1, Inductive, PTL

\* The messages of a member enter the topic in the order it produced them and
\* once, but for those of which the Redis client gave up an attempt.
THEOREM OrderedBySender == Spec => []SenderOrder
<1>1. IInv => SenderOrder
  BY DEF IInv, OrderInv
<1>2. QED
  BY <1>1, Inductive, PTL

-----------------------------------------------------------------------------
(* Refinement: what one step of the room is in RoomFeed.                   *)

\* The refinement mapping leaves the messages as they are.
LEMMA FeedMessages == Feed!Message = Message /\ \A m : Feed!Left(m) = Left(m)
BY DEF Feed!Message, Message, Feed!Left, Left

\* The transactions of the repository store one message of a member whose
\* departure is not stored.
LEMMA StoringStep ==
    ASSUME IInv, NEW m \in Members,
           \/ InsertMember(m) \/ InsertMemberFails(m)
           \/ InsertMessage(m) \/ InsertMessageFails(m)
           \/ DeleteMember(m) \/ DeleteMemberFails(m)
    PROVE  /\ UNCHANGED <<topic, gaveUp, seen>>
           /\ Left(m) \notin stored
           /\ \/ UNCHANGED stored
              \/ \E msg \in Message : msg.member = m /\ stored' = stored \cup {msg}
<1>1. UNCHANGED <<topic, gaveUp, seen>>
  BY DEF InsertMember, InsertMemberFails, InsertMessage, InsertMessageFails,
         DeleteMember, DeleteMemberFails
<1>2. Left(m) \notin stored
  BY DEF IInv, StoreInv, InsertMember, InsertMemberFails, InsertMessage,
         InsertMessageFails, DeleteMember, DeleteMemberFails
<1>3. /\ Joined(m) \in Message /\ Chat(m, chats[m]) \in Message /\ Left(m) \in Message
      /\ Joined(m).member = m /\ Chat(m, chats[m]).member = m /\ Left(m).member = m
  BY MessageTypes DEF IInv, TypeOK, Joined, Chat, Left
<1>4. \/ UNCHANGED stored
      \/ stored' = stored \cup {Joined(m)}
      \/ stored' = stored \cup {Chat(m, chats[m])}
      \/ stored' = stored \cup {Left(m)}
  BY DEF InsertMember, InsertMemberFails, InsertMessage, InsertMessageFails,
         DeleteMember, DeleteMemberFails
<1>5. QED
  BY <1>1, <1>2, <1>3, <1>4

\* A call of queue.Publish publishes at most one message, and in order.
LEMMA PublishingStep ==
    ASSUME IInv, NEW m \in Members,
           PublishJoined(m) \/ PublishChat(m) \/ PublishLeft(m)
    PROVE  /\ UNCHANGED <<stored, gaveUp, seen>>
           /\ UNCHANGED topic \/ \E msg \in Message : Feed!Publish(msg)
<1>1. UNCHANGED <<stored, gaveUp, seen>>
  BY DEF PublishJoined, PublishChat, PublishLeft, QueuePublish
<1>2. UNCHANGED topic \/ \E msg \in Publishing(m) : Accept(msg)
  BY DEF PublishJoined, PublishChat, PublishLeft, QueuePublish, Publishing, IInv, GateInv
<1>3. ASSUME NEW msg \in Publishing(m), Accept(msg)
      PROVE  msg \in Message /\ Feed!Publish(msg)
  <2>1. /\ msg \in Message /\ msg \in stored /\ msg.member = m
        /\ \A i \in DOMAIN topic :
             topic[i].member = m /\ topic[i].n >= msg.n => msg \in gaveUp
    BY PublishingFacts DEF IInv, TypeInv, OrderInv
  <2>2. \A i \in DOMAIN topic : topic[i] \in Message
    BY DEF IInv, TypeOK
  <2>3. \A other \in Message : other.n \in Nat
    BY MaxChatsAssumption DEF Message
  <2>4. QED
    BY <1>1, <1>3, <2>1, <2>2, <2>3 DEF Accept, Feed!Publish
<1>4. QED
  BY <1>1, <1>2, <1>3

\* Giving up an attempt, and executing one, are steps of the feed.
LEMMA LateStep ==
    ASSUME IInv
    PROVE  /\ \A m \in Members : GiveUp(m) =>
                /\ UNCHANGED <<stored, topic, seen>>
                /\ \E msg \in Message : Feed!GiveUp(msg)
           /\ \A msg \in gaveUp : ExecuteLate(msg) =>
                UNCHANGED <<stored, gaveUp, seen>> /\ msg \in Message /\ Feed!Publish(msg)
<1>1. ASSUME NEW m \in Members, GiveUp(m)
      PROVE  /\ UNCHANGED <<stored, topic, seen>>
             /\ \E msg \in Message : Feed!GiveUp(msg)
  <2>1. PICK msg : Publishing(m) = {msg}
    BY <1>1 DEF GiveUp, Publishing
  <2>2. msg \in Message /\ msg \in stored
    BY <2>1, PublishingFacts DEF IInv, TypeInv, OrderInv
  <2>3. QED
    BY <1>1, <2>1, <2>2 DEF GiveUp, Feed!GiveUp
<1>2. ASSUME NEW msg \in gaveUp, ExecuteLate(msg)
      PROVE  UNCHANGED <<stored, gaveUp, seen>> /\ msg \in Message /\ Feed!Publish(msg)
  BY <1>2 DEF ExecuteLate, Accept, Feed!Publish, IInv, TypeOK, StoreInv
<1>3. QED
  BY <1>1, <1>2

\* conn.WriteMessage of a topic message is a read; of SendFailed it is not.
LEMMA ReadingStep ==
    ASSUME IInv, NEW m \in Members, WriteMessage(m)
    PROVE  /\ UNCHANGED <<stored, topic, gaveUp>>
           /\ UNCHANGED seen \/ \E i \in DOMAIN topic : Feed!Read(m, i)
<1>1. /\ UNCHANGED <<stored, topic, gaveUp>>
      /\ seen' = [seen EXCEPT ![m] = @ \cup ({hand[m]} \ {NoIndex})]
  BY DEF WriteMessage
<1>2. CASE hand[m] = NoIndex
  BY <1>1, <1>2 DEF IInv, TypeOK
<1>3. CASE hand[m] # NoIndex
  <2>1. /\ hand[m] \in DOMAIN topic /\ topic[hand[m]] # Left(m)
        /\ \A j \in seen[m] : j < hand[m]
    BY <1>3 DEF IInv, ReaderInv, ReaderOK, Got
  <2>2. seen' = [seen EXCEPT ![m] = @ \cup {hand[m]}]
    BY <1>1, <1>3
  <2>3. QED
    BY <1>1, <2>1, <2>2, FeedMessages DEF Feed!Read
<1>4. QED
  BY <1>1, <1>2, <1>3

\* Nothing of a member is stored after its departure.
THEOREM LeaveIsFinal == Spec => LeftIsLast
<1>1. IInv /\ [Next]_vars =>
        \A m \in Members : Left(m) \in stored =>
          \A msg \in stored' \ stored : msg.member # m
  <2> SUFFICES ASSUME IInv, [Next]_vars, NEW m \in Members, Left(m) \in stored,
                      NEW msg \in stored' \ stored
               PROVE  msg.member # m
    OBVIOUS
  <2>1. CASE \E r \in Members :
               \/ InsertMember(r) \/ InsertMemberFails(r)
               \/ InsertMessage(r) \/ InsertMessageFails(r)
               \/ DeleteMember(r) \/ DeleteMemberFails(r)
    BY <2>1, StoringStep
  <2>2. QED
    BY <2>1, SilentStep, PublishingStep, LateStep, ReadingStep
<1>2. QED
  BY <1>1, Inductive, PTL DEF Spec, LeftIsLast

\* A member's connection is written in topic order, each message at most once.
THEOREM DeliveredInOrder == Spec => DeliveryOrder
<1>1. IInv /\ IInv' /\ [Next]_vars =>
        \A m \in Members : hand'[m] \notin {hand[m], NoIndex} =>
          \A i \in seen[m] : i < hand'[m]
  <2> SUFFICES ASSUME IInv, IInv', [Next]_vars, NEW m \in Members,
                      hand'[m] # NoIndex, NEW i \in seen[m]
               PROVE  i < hand'[m]
    OBVIOUS
  <2>1. seen[m] \subseteq seen'[m]
    <3>1. CASE \E r \in Members : WriteMessage(r)
      BY <3>1 DEF WriteMessage, IInv, TypeOK
    <3>2. QED
      BY <3>1, SilentStep, StoringStep, PublishingStep, LateStep
  <2>2. QED
    BY <2>1 DEF IInv, ReaderInv, ReaderOK
<1>2. QED
  BY <1>1, Inductive, PTL DEF Spec, DeliveryOrder

\* The room implements the feed: stored, then published in each sender's
\* order, then read by every member in the order of the topic.
THEOREM Refinement == Spec => RoomIsFeed
<1>1. Init => Feed!Init
  BY DEF Init, Feed!Init
<1>2. IInv /\ [Next]_vars => [Feed!Next]_(Feed!feedVars)
  <2> SUFFICES ASSUME IInv, [Next]_vars PROVE [Feed!Next]_(Feed!feedVars)
    OBVIOUS
  <2>1. CASE UNCHANGED <<stored, topic, gaveUp, seen>>
    BY <2>1 DEF Feed!feedVars
  <2>2. ASSUME NEW m \in Members,
               \/ InsertMember(m) \/ InsertMemberFails(m)
               \/ InsertMessage(m) \/ InsertMessageFails(m)
               \/ DeleteMember(m) \/ DeleteMemberFails(m)
        PROVE  [Feed!Next]_(Feed!feedVars)
    <3>1. CASE UNCHANGED stored
      BY <2>2, <3>1, StoringStep DEF Feed!feedVars
    <3>2. ASSUME NEW msg \in Message, msg.member = m, stored' = stored \cup {msg}
          PROVE  Feed!Store(msg)
      BY <2>2, <3>2, StoringStep, FeedMessages DEF Feed!Store
    <3>3. QED
      BY <2>2, <3>1, <3>2, StoringStep, FeedMessages DEF Feed!Next
  <2>3. ASSUME NEW m \in Members, PublishJoined(m) \/ PublishChat(m) \/ PublishLeft(m)
        PROVE  [Feed!Next]_(Feed!feedVars)
    BY <2>3, PublishingStep, FeedMessages DEF Feed!Next, Feed!feedVars
  <2>4. ASSUME NEW m \in Members, WriteMessage(m)
        PROVE  [Feed!Next]_(Feed!feedVars)
    BY <2>4, ReadingStep DEF Feed!Next, Feed!feedVars
  <2>5. ASSUME \/ \E m \in Members : GiveUp(m)
               \/ \E msg \in gaveUp : ExecuteLate(msg)
        PROVE  [Feed!Next]_(Feed!feedVars)
    BY <2>5, LateStep, FeedMessages DEF Feed!Next
  <2>6. QED
    BY <2>1, <2>2, <2>3, <2>4, <2>5, SilentStep
<1>3. QED
  BY <1>1, <1>2, Inductive, PTL DEF Spec, RoomIsFeed, Feed!Spec
=============================================================================
