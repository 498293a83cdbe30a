-------------------------- MODULE ChatRoomGapProofs --------------------------
(***************************************************************************)
(* Proofs that, while Redis loses no message of a subscription, a member   *)
(* reads the topic without gaps: what it got, what its room is             *)
(* distributing and what is on its way adjoin; and what follows for rooms  *)
(* to which nothing is on its way, and for the chats of their members.     *)
(* At the end: what holds of the members of one room although messages are *)
(* lost.                                                                   *)
(***************************************************************************)
EXTENDS ChatRoomThreadProofs

USE DEF envVars, dbVars, queueVars, readVars, nodeVars

NoLoss == "loss" \notin Faults

-----------------------------------------------------------------------------
(* Facts about the operators                                               *)

\* Without loss, an accepted message is on its way to every instance that
\* hears.
LEMMA AcceptReaches ==
    ASSUME NoLoss, NEW msg \in Message, topic \in Seq(Message),
           sub \in [Nodes -> SUBSET Nat], Accept(msg), NEW n \in Nodes
    PROVE  /\ Len(topic) \in Nat /\ Len(topic') = Len(topic) + 1
           /\ Hears(n) => sub'[n] = sub[n] \cup {Len(topic) + 1}
           /\ ~Hears(n) => sub'[n] = sub[n]
BY DEF NoLoss, Accept, Hears

\* The notification loop has exactly the rest of its round to notify.
LEMMA NextNotifyWaiting ==
    ASSUME NEW n \in Nodes, NEW i, NEW rest,
           room \in [Nodes -> RoomState], NextNotify(n, i, rest)
    PROVE  /\ Waiting(n)' = rest
           /\ room'[n].at = "notify" => room'[n].msg = i
           /\ rest # {} => room'[n].at = "notify"
           /\ \A o \in Nodes \ {n} : room'[o] = room[o]
<1>1. CASE rest = {} /\ room' = [room EXCEPT ![n] = Idle]
  BY <1>1 DEF Idle, Waiting
<1>2. ASSUME NEW m \in rest,
             room' = [room EXCEPT ![n] =
                        [at |-> "notify", msg |-> i, cur |-> m, todo |-> rest \ {m}]]
      PROVE  /\ Waiting(n)' = rest
             /\ room'[n].at = "notify" /\ room'[n].msg = i
             /\ \A o \in Nodes \ {n} : room'[o] = room[o]
  BY <1>2 DEF Waiting
<1>3. QED
  BY <1>1, <1>2 DEF NextNotify

\* AddMember adds its member, to the running round perhaps, and nobody else.
LEMMA EndAddMemberRoom ==
    ASSUME TypeOK, NEW m \in Members, EndAddMember(m)
    PROVE  /\ \A n \in Nodes :
                /\ room'[n].at = room[n].at /\ room'[n].msg = room[n].msg
                /\ members'[n] \subseteq members[n] \cup {m}
                /\ Waiting(n) \subseteq Waiting(n)' /\ Waiting(n)' \subseteq Waiting(n) \cup {m}
           /\ UNCHANGED <<setup, status, sub, topic, expired, seen, hand>>
<1> DEFINE n == Home[m]
<1>1. n \in Nodes /\ room \in [Nodes -> RoomState] /\ room[n] \in RoomState
  BY HomeAssumption DEF TypeOK
<1>2. ASSUME NEW o \in Nodes
      PROVE  /\ room'[o].at = room[o].at /\ room'[o].msg = room[o].msg
             /\ Waiting(o) \subseteq Waiting(o)' /\ Waiting(o)' \subseteq Waiting(o) \cup {m}
  <2>1. CASE room' = [room EXCEPT ![n] = [room[n] EXCEPT !.todo = @ \cup {m}]]
    <3>1. /\ room'[o].at = room[o].at /\ room'[o].msg = room[o].msg /\ room'[o].cur = room[o].cur
          /\ room[o].todo \subseteq room'[o].todo /\ room'[o].todo \subseteq room[o].todo \cup {m}
      BY <1>1, <2>1 DEF RoomState
    <3>2. QED
      BY <3>1 DEF Waiting
  <2>2. CASE UNCHANGED room
    BY <2>2 DEF Waiting
  <2>3. QED
    BY <2>1, <2>2 DEF EndAddMember
<1>3. \A o \in Nodes : members'[o] \subseteq members[o] \cup {m}
  BY <1>1 DEF EndAddMember, TypeOK
<1>4. UNCHANGED <<setup, status, sub, topic, expired, seen, hand>>
  BY DEF EndAddMember
<1>5. QED
  BY <1>2, <1>3, <1>4

\* A process that dies takes its subscription and its connections with it.
LEMMA DieRoom ==
    ASSUME TypeOK, NEW n \in Nodes, NEW why, why # "up", Die(n, why)
    PROVE  /\ \A o \in Nodes \ {n} : status'[o] = status[o] /\ sub'[o] = sub[o]
           /\ status'[n] # "up" /\ sub'[n] = {}
           /\ UNCHANGED <<setup, room, members, topic, expired, seen, hand>>
BY DEF Die, TypeOK

\* A member's thread is publishing messages of the room.
LEMMA PublishingMessages ==
    ASSUME TypeOK, NEW m \in Members
    PROVE  /\ Publishing(m) \subseteq Message
           /\ Joined(m) \in Message /\ Left(m) \in Message /\ Chat(m, chats[m]) \in Message
BY MessageTypes DEF Publishing, TypeOK

\* The calls of queue.Publish: a message is accepted, or nothing happens.
LEMMA PublishSteps ==
    ASSUME TypeOK, NEW m \in Members,
           PublishJoined(m) \/ PublishChat(m) \/ PublishLeft(m) \/ GiveUp(m)
    PROVE  /\ UNCHANGED <<setup, status, room, members, expired, seen, hand>>
           /\ UNCHANGED <<topic, sub>> \/ \E msg \in Message : Accept(msg)
<1>1. CASE PublishJoined(m)
  BY <1>1, PublishingMessages DEF PublishJoined, QueuePublish
<1>2. CASE PublishChat(m)
  BY <1>2, PublishingMessages DEF PublishChat, QueuePublish
<1>3. CASE PublishLeft(m)
  BY <1>3, PublishingMessages DEF PublishLeft, QueuePublish
<1>4. CASE GiveUp(m)
  BY <1>4 DEF GiveUp
<1>5. QED
  BY <1>1, <1>2, <1>3, <1>4

\* So does an attempt that is executed late.
LEMMA LateExecution ==
    ASSUME TypeOK, NEW msg \in gaveUp, ExecuteLate(msg)
    PROVE  /\ UNCHANGED <<setup, status, room, members, expired, seen, hand>>
           /\ UNCHANGED <<serve, pub, chats, told, stored>>
           /\ msg \in Message /\ Accept(msg)
BY DEF ExecuteLate, TypeOK

-----------------------------------------------------------------------------
(* The end of the topic                                                    *)

\* A publication extends every tail that is heard.
LEMMA AcceptTail ==
    ASSUME NoLoss, TypeOK, NotifyInv, TailInv, NEW msg \in Message, Accept(msg),
           UNCHANGED <<setup, status, room>>
    PROVE  TailInv'
<1> SUFFICES ASSUME NEW n \in Nodes PROVE TailOK(n)'
  BY DEF TailInv
<1>1. topic \in Seq(Message) /\ sub \in [Nodes -> SUBSET Nat] /\ room[n].msg \in Nat
  BY DEF TypeOK, RoomState
<1>2. /\ Len(topic) \in Nat /\ Len(topic') = Len(topic) + 1
      /\ Hears(n) => sub'[n] = sub[n] \cup {Len(topic) + 1}
      /\ ~Hears(n) => sub'[n] = sub[n]
  BY <1>1, AcceptReaches
<1>3. TailOK(n) /\ (Hears(n)' <=> Hears(n))
  BY DEF TailInv, Hears
<1>4. CASE Hears(n)
  <2>1. /\ \A i \in sub[n] : i .. Len(topic) \subseteq sub[n]
        /\ room[n].at = "notify" => room[n].msg + 1 .. Len(topic) \subseteq sub[n]
        /\ sub[n] \subseteq Nat
    BY <1>1, <1>3, <1>4 DEF TailOK
  <2>2. \A i \in sub'[n] : i .. Len(topic') \subseteq sub'[n]
    BY <1>2, <1>4, <2>1
  <2>3. room'[n].at = "notify" => room'[n].msg + 1 .. Len(topic') \subseteq sub'[n]
    BY <1>1, <1>2, <1>4, <2>1
  <2>4. setup'[n] = "ok"
    BY <1>4 DEF Hears
  <2>5. QED
    BY <2>2, <2>3, <2>4 DEF TailOK
<1>5. CASE ~Hears(n)
  BY <1>2, <1>3, <1>5 DEF TailOK
<1>6. QED
  BY <1>4, <1>5

\* The tail of an instance stays if its subscription does, and the room goes
\* on with the message it has or none.
LEMMA TailKept ==
    ASSUME NEW n \in Nodes, TailOK(n), UNCHANGED topic, sub'[n] = sub[n],
           setup[n] = "ok" => setup'[n] = "ok", status'[n] = "up" => status[n] = "up",
           Hears(n) /\ room'[n].at = "notify" => room[n].at = "notify" /\ room'[n].msg = room[n].msg,
           setup[n] # "ok" => room'[n].at # "notify"
    PROVE  TailOK(n)'
<1>1. CASE setup[n] = "ok"
  BY <1>1 DEF TailOK, Hears
<1>2. CASE setup[n] # "ok"
  BY <1>2 DEF TailOK
<1>3. QED
  BY <1>1, <1>2

\* Every step keeps what is on its way the end of the topic.
LEMMA TailStep == NoLoss /\ TypeOK /\ NotifyInv /\ ClosedInv /\ TailInv /\ [Next]_vars => TailInv'
<1> SUFFICES ASSUME NoLoss, TypeOK, NotifyInv, ClosedInv, TailInv, [Next]_vars PROVE TailInv'
  OBVIOUS
<1>1. CASE UNCHANGED <<setup, status, sub, room, topic>>
  BY <1>1 DEF TailInv, TailOK, Hears
<1>2. ASSUME NEW m \in Members, EndAddMember(m) PROVE TailInv'
  <2>1. /\ UNCHANGED <<setup, status, sub, topic>>
        /\ \A o \in Nodes : room'[o].at = room[o].at /\ room'[o].msg = room[o].msg
    BY <1>2, EndAddMemberRoom
  <2>2. ASSUME NEW o \in Nodes PROVE TailOK(o)'
    BY <2>1, TailKept DEF TailInv, ClosedInv
  <2>3. QED
    BY <2>2 DEF TailInv
<1>3. ASSUME NEW m \in Members, PublishJoined(m) PROVE TailInv'
  <2>1. /\ UNCHANGED <<setup, status, room>>
        /\ UNCHANGED <<topic, sub>> \/ \E msg \in Message : Accept(msg)
    BY <1>3, PublishSteps
  <2>2. CASE UNCHANGED <<topic, sub>>
    BY <1>1, <2>1, <2>2
  <2>3. ASSUME NEW msg \in Message, Accept(msg) PROVE TailInv'
    BY <2>1, <2>3, AcceptTail
  <2>4. QED
    BY <2>1, <2>2, <2>3
<1>4. ASSUME NEW m \in Members, PublishChat(m) PROVE TailInv'
  <2>1. /\ UNCHANGED <<setup, status, room>>
        /\ UNCHANGED <<topic, sub>> \/ \E msg \in Message : Accept(msg)
    BY <1>4, PublishSteps
  <2>2. CASE UNCHANGED <<topic, sub>>
    BY <1>1, <2>1, <2>2
  <2>3. ASSUME NEW msg \in Message, Accept(msg) PROVE TailInv'
    BY <2>1, <2>3, AcceptTail
  <2>4. QED
    BY <2>1, <2>2, <2>3
<1>5. ASSUME NEW m \in Members, SendFailedPanics(m) PROVE TailInv'
  <2>1. Home[m] \in Nodes /\ Die(Home[m], "panicked")
    BY <1>5, HomeAssumption DEF SendFailedPanics
  <2>2. /\ \A o \in Nodes \ {Home[m]} : status'[o] = status[o] /\ sub'[o] = sub[o]
        /\ status'[Home[m]] # "up" /\ sub'[Home[m]] = {} /\ UNCHANGED <<setup, room, topic>>
    BY <2>1, DieRoom
  <2>3. TailOK(Home[m])'
    BY <2>2 DEF TailOK, Hears
  <2>4. ASSUME NEW o \in Nodes \ {Home[m]} PROVE TailOK(o)'
    BY <2>2, TailKept DEF TailInv, ClosedInv
  <2>5. QED
    BY <2>1, <2>3, <2>4 DEF TailInv
<1>6. ASSUME NEW m \in Members, PublishLeft(m) PROVE TailInv'
  <2>1. /\ UNCHANGED <<setup, status, room>>
        /\ UNCHANGED <<topic, sub>> \/ \E msg \in Message : Accept(msg)
    BY <1>6, PublishSteps
  <2>2. CASE UNCHANGED <<topic, sub>>
    BY <1>1, <2>1, <2>2
  <2>3. ASSUME NEW msg \in Message, Accept(msg) PROVE TailInv'
    BY <2>1, <2>3, AcceptTail
  <2>4. QED
    BY <2>1, <2>2, <2>3
<1>7. ASSUME NEW m \in Members, GiveUp(m) PROVE TailInv'
  <2>1. /\ UNCHANGED <<setup, status, room>>
        /\ UNCHANGED <<topic, sub>> \/ \E msg \in Message : Accept(msg)
    BY <1>7, PublishSteps
  <2>2. CASE UNCHANGED <<topic, sub>>
    BY <1>1, <2>1, <2>2
  <2>3. ASSUME NEW msg \in Message, Accept(msg) PROVE TailInv'
    BY <2>1, <2>3, AcceptTail
  <2>4. QED
    BY <2>1, <2>2, <2>3
<1>8. ASSUME NEW n \in Nodes, Subscribe(n) PROVE TailInv'
  <2>1. /\ UNCHANGED <<status, sub, topic, room>> /\ setup[n] # "ok"
        /\ \A o \in Nodes \ {n} : setup'[o] = setup[o]
    BY <1>8 DEF Subscribe, TypeOK
  <2>2. ASSUME NEW o \in Nodes PROVE TailOK(o)'
    BY <2>1, TailKept DEF TailInv, ClosedInv
  <2>3. QED
    BY <2>2 DEF TailInv
<1>9. ASSUME NEW n \in Nodes, SubscribeFails(n) PROVE TailInv'
  <2>1. /\ UNCHANGED <<status, sub, topic, room>> /\ setup[n] # "ok"
        /\ \A o \in Nodes \ {n} : setup'[o] = setup[o]
    BY <1>9 DEF SubscribeFails, TypeOK
  <2>2. ASSUME NEW o \in Nodes PROVE TailOK(o)'
    BY <2>1, TailKept DEF TailInv, ClosedInv
  <2>3. QED
    BY <2>2 DEF TailInv
<1>10. ASSUME NEW n \in Nodes, Evict(n) PROVE TailInv'
  <2>1. /\ UNCHANGED <<status, sub, topic, room>> /\ setup[n] # "ok"
        /\ \A o \in Nodes \ {n} : setup'[o] = setup[o]
    BY <1>10 DEF Evict, TypeOK
  <2>2. ASSUME NEW o \in Nodes PROVE TailOK(o)'
    BY <2>1, TailKept DEF TailInv, ClosedInv
  <2>3. QED
    BY <2>2 DEF TailInv
<1>11. ASSUME NEW n \in Nodes, Receive(n) PROVE TailInv'
  <2>1. PICK i \in sub[n] : /\ \A j \in sub[n] : i <= j
                            /\ sub' = [sub EXCEPT ![n] = @ \ {i}]
                            /\ NextNotify(n, i, members'[n])
    BY <1>11 DEF Receive, IsNext
  <2>2. UNCHANGED <<setup, status, topic>> /\ Hears(n)
    BY <1>11 DEF Receive, Hears
  <2>3. /\ sub'[n] = sub[n] \ {i} /\ \A o \in Nodes \ {n} : sub'[o] = sub[o]
        /\ sub[n] \subseteq Nat /\ Len(topic) \in Nat
    BY <2>1 DEF TypeOK
  <2>4. /\ room'[n].at = "notify" => room'[n].msg = i
        /\ \A o \in Nodes \ {n} : room'[o] = room[o]
    BY <2>1, NextNotifyWaiting DEF TypeOK
  <2>5. TailOK(n)'
    <3>1. \A j \in sub[n] : j .. Len(topic) \subseteq sub[n]
      BY <2>2 DEF TailInv, TailOK
    <3>2. \A j \in sub'[n] : j .. Len(topic) \subseteq sub'[n]
      BY <2>1, <2>3, <3>1
    <3>3. i + 1 .. Len(topic) \subseteq sub'[n]
      BY <2>1, <2>3, <3>1
    <3>4. QED
      BY <2>2, <2>4, <3>2, <3>3 DEF TailOK, Hears
  <2>6. ASSUME NEW o \in Nodes \ {n} PROVE TailOK(o)'
    BY <2>2, <2>3, <2>4, TailKept DEF TailInv, ClosedInv
  <2>7. QED
    BY <2>5, <2>6 DEF TailInv
<1>12. ASSUME NEW n \in Nodes, Notify(n) PROVE TailInv'
  <2>1. UNCHANGED <<setup, status, sub, topic>> /\ room[n].at = "notify" /\ setup[n] = "ok"
    BY <1>12 DEF Notify, ClosedInv
  <2>2. /\ room'[n].at = "notify" => room'[n].msg = room[n].msg
        /\ \A o \in Nodes \ {n} : room'[o] = room[o]
    BY <1>12, NextNotifyWaiting DEF Notify, TypeOK
  <2>3. ASSUME NEW o \in Nodes PROVE TailOK(o)'
    BY <2>1, <2>2, TailKept DEF TailInv, ClosedInv
  <2>4. QED
    BY <2>3 DEF TailInv
<1>13. ASSUME NEW n \in Nodes, NotifyTimeout(n) PROVE TailInv'
  <2>1. UNCHANGED <<setup, status, sub, topic>> /\ room[n].at = "notify" /\ setup[n] = "ok"
    BY <1>13 DEF NotifyTimeout, ClosedInv
  <2>2. /\ room'[n].at = "notify" => room'[n].msg = room[n].msg
        /\ \A o \in Nodes \ {n} : room'[o] = room[o]
    BY <1>13, NextNotifyWaiting DEF NotifyTimeout, TypeOK
  <2>3. ASSUME NEW o \in Nodes PROVE TailOK(o)'
    BY <2>1, <2>2, TailKept DEF TailInv, ClosedInv
  <2>4. QED
    BY <2>3 DEF TailInv
<1>14. ASSUME NEW n \in Nodes, ReceiveClosed(n) PROVE TailInv'
  <2>1. UNCHANGED <<setup, status, sub, topic>> /\ setup[n] # "ok"
    BY <1>14 DEF ReceiveClosed, ClosedInv, SetupFailed
  <2>2. /\ room'[n].at # "notify"
        /\ \A o \in Nodes \ {n} : room'[o] = room[o]
    BY <1>14, NextStopAt DEF ReceiveClosed, TypeOK
  <2>3. ASSUME NEW o \in Nodes PROVE TailOK(o)'
    BY <2>1, <2>2, TailKept DEF TailInv, ClosedInv
  <2>4. QED
    BY <2>3 DEF TailInv
<1>15. ASSUME NEW n \in Nodes, StopMember(n) PROVE TailInv'
  <2>1. UNCHANGED <<setup, status, sub, topic>> /\ setup[n] # "ok"
    BY <1>15 DEF StopMember, ClosedInv, SetupFailed
  <2>2. /\ room'[n].at # "notify"
        /\ \A o \in Nodes \ {n} : room'[o] = room[o]
    BY <1>15, NextStopAt DEF StopMember, TypeOK
  <2>3. ASSUME NEW o \in Nodes PROVE TailOK(o)'
    BY <2>1, <2>2, TailKept DEF TailInv, ClosedInv
  <2>4. QED
    BY <2>3 DEF TailInv
<1>16. ASSUME NEW n \in Nodes, Crash(n) PROVE TailInv'
  <2>1. n \in Nodes /\ Die(n, "crashed")
    BY <1>16, HomeAssumption DEF Crash
  <2>2. /\ \A o \in Nodes \ {n} : status'[o] = status[o] /\ sub'[o] = sub[o]
        /\ status'[n] # "up" /\ sub'[n] = {} /\ UNCHANGED <<setup, room, topic>>
    BY <2>1, DieRoom
  <2>3. TailOK(n)'
    BY <2>2 DEF TailOK, Hears
  <2>4. ASSUME NEW o \in Nodes \ {n} PROVE TailOK(o)'
    BY <2>2, TailKept DEF TailInv, ClosedInv
  <2>5. QED
    BY <2>1, <2>3, <2>4 DEF TailInv
<1>17. ASSUME NEW n \in Nodes, MapFault(n) PROVE TailInv'
  <2>1. n \in Nodes /\ Die(n, "raced")
    BY <1>17, HomeAssumption DEF MapFault
  <2>2. /\ \A o \in Nodes \ {n} : status'[o] = status[o] /\ sub'[o] = sub[o]
        /\ status'[n] # "up" /\ sub'[n] = {} /\ UNCHANGED <<setup, room, topic>>
    BY <2>1, DieRoom
  <2>3. TailOK(n)'
    BY <2>2 DEF TailOK, Hears
  <2>4. ASSUME NEW o \in Nodes \ {n} PROVE TailOK(o)'
    BY <2>2, TailKept DEF TailInv, ClosedInv
  <2>5. QED
    BY <2>1, <2>3, <2>4 DEF TailInv
<1>18. ASSUME NEW m \in Members,
             ServeRoom(m) \/ ListenReady(m) \/ ListenTimeout(m) \/ BroadcastReady(m)
             \/ BroadcastTimeout(m) \/ InsertMember(m) \/ InsertMemberFails(m) \/
             ServeStops(m) \/ BeginAddMember(m) \/ StartBroadcast(m) \/
             WriteMessage(m) \/ ListenClosed(m) \/ Poll(m) \/ ReadError(m) \/
             TakeChat(m) \/ TakeLeft(m) \/ InsertMessage(m) \/ InsertMessageFails(m)
             \/ SendFailed(m) \/ DeleteMember(m) \/ DeleteMemberFails(m) \/
             ReadChat(m) \/ Close(m)
      PROVE  UNCHANGED <<setup, status, sub, room, topic>>
  BY <1>18 DEF ServeRoom, ListenReady, ListenTimeout, BroadcastReady, BroadcastTimeout,
         InsertMember, InsertMemberFails, ServeStops, BeginAddMember,
         StartBroadcast, WriteMessage, ListenClosed, Poll, ReadError, TakeChat,
         TakeLeft, InsertMessage, InsertMessageFails, SendFailed, DeleteMember,
         DeleteMemberFails, ReadChat, Close, HandTo
<1>19. CASE (\E x \in Deadlines : Expire(x)) \/ UNCHANGED vars
  BY <1>1, <1>19 DEF Expire, vars
<1>20. ASSUME NEW msg \in gaveUp, ExecuteLate(msg) PROVE TailInv'
  BY <1>20, LateExecution, AcceptTail
<1>21. QED
  BY <1>1, <1>2, <1>3, <1>4, <1>5, <1>6, <1>7, <1>8, <1>9, <1>10, <1>11, <1>12,
     <1>13, <1>14, <1>15, <1>16, <1>17, <1>18, <1>19, <1>20
  DEF Next, ServeStep, ListenStep, BroadcastStep, PublishStep, SetupStep, RoomStep

-----------------------------------------------------------------------------
(* What members got                                                        *)

\* A member that has got nothing has no gap.
LEMMA GapEmpty ==
    ASSUME NEW m, Got(m) = {}
    PROVE  GapOK(m)
BY DEF GapOK

\* Nothing a member got is beyond the topic.
LEMMA GotIndexes ==
    ASSUME TypeOK, ReaderInv, NEW m \in Members
    PROVE  /\ topic \in Seq(Message) /\ Len(topic) \in Nat
           /\ \A i \in Got(m) : i \in Nat /\ i <= Len(topic)
BY DEF TypeOK, ReaderInv, ReaderOK

\* A step that hands a member nothing keeps it free of gaps if what was to
\* come for it still is.
LEMMA GapKept ==
    ASSUME NEW m \in Members, GapOK(m), Got(m)' = Got(m), Len(topic') = Len(topic),
           setup[Home[m]] = "ok" => setup'[Home[m]] = "ok",
           Home[m] \notin expired' => Home[m] \notin expired,
           Hears(Home[m])' /\ setup[Home[m]] = "ok" => Hears(Home[m]),
           Home[m] \notin expired' /\ Hears(Home[m])' /\ Hears(Home[m]) /\ Attends(m)' =>
             Attends(m) /\ Coming(m) \subseteq Coming(m)'
    PROVE  GapOK(m)'
<1>1. setup'[Home[m]] # "ok" => Got(m)' = {}
  BY DEF GapOK
<1>2. ASSUME Home[m] \notin expired'
      PROVE  \A i, k \in Got(m)' : i .. k \subseteq Got(m)'
  BY <1>2 DEF GapOK
<1>3. ASSUME Home[m] \notin expired', Hears(Home[m])', Attends(m)', NEW i \in Got(m)'
      PROVE  i + 1 .. Len(topic') \subseteq Got(m)' \cup Coming(m)'
  <2>1. setup[Home[m]] = "ok"
    BY <1>3 DEF GapOK
  <2>2. Hears(Home[m]) /\ Attends(m) /\ Coming(m) \subseteq Coming(m)'
    BY <1>3, <2>1
  <2>3. i + 1 .. Len(topic) \subseteq Got(m) \cup Coming(m)
    BY <1>3, <2>2 DEF GapOK
  <2>4. QED
    BY <2>2, <2>3
<1>4. QED
  BY <1>1, <1>2, <1>3 DEF GapOK

\* Attending and coming depend on the member's room and subscription alone.
LEMMA SameComing ==
    ASSUME NEW m, NEW n, Home[m] = n, room'[n] = room[n],
           members'[n] = members[n], sub'[n] = sub[n]
    PROVE  Attends(m)' = Attends(m) /\ Coming(m)' = Coming(m)
BY DEF Attends, Coming, Waiting

\* A publication is still to come for whoever takes part.
LEMMA AcceptGap ==
    ASSUME NoLoss, TypeOK, ReaderInv, GapInv, NEW msg \in Message, Accept(msg),
           UNCHANGED <<setup, status, room, members, expired, seen, hand>>
    PROVE  GapInv'
<1> SUFFICES ASSUME NEW m \in Members PROVE GapOK(m)'
  BY DEF GapInv
<1> DEFINE n == Home[m]
<1>1. /\ n \in Nodes /\ topic \in Seq(Message) /\ sub \in [Nodes -> SUBSET Nat]
      /\ \A i \in Got(m) : i \in Nat
  BY HomeAssumption, GotIndexes DEF TypeOK
<1>2. /\ Len(topic) \in Nat /\ Len(topic') = Len(topic) + 1
      /\ Hears(n) => sub'[n] = sub[n] \cup {Len(topic) + 1}
  BY <1>1, AcceptReaches
<1>3. GapOK(m) /\ Got(m)' = Got(m) /\ (Hears(n)' <=> Hears(n)) /\ (Attends(m)' <=> Attends(m))
  BY DEF GapInv, Got, Hears, Attends, Waiting
<1>4. ASSUME n \notin expired, Hears(n), Attends(m), NEW i \in Got(m)
      PROVE  i + 1 .. Len(topic') \subseteq Got(m)' \cup Coming(m)'
  <2>1. i + 1 .. Len(topic) \subseteq Got(m) \cup Coming(m)
    BY <1>3, <1>4 DEF GapOK
  <2>2. Coming(m)' = Coming(m) \cup {Len(topic) + 1}
    BY <1>2, <1>4 DEF Coming, Waiting
  <2>3. i + 1 .. Len(topic') \subseteq (i + 1 .. Len(topic)) \cup {Len(topic) + 1}
    BY <1>1, <1>2
  <2>4. QED
    BY <1>3, <2>1, <2>2, <2>3
<1>5. QED
  BY <1>3, <1>4 DEF GapOK

\* Every step hands each member the next of what was to come for it.
LEMMA GapStep ==
    ASSUME NoLoss, TypeOK, RoomInv, ReaderInv, NotifyInv, ClosedInv, TailInv, GapInv,
           [Next]_vars
    PROVE  GapInv'
<1>1. CASE UNCHANGED <<setup, status, sub, room, members, expired,
                     topic, seen, hand>>
  <2>1. ASSUME NEW r \in Members PROVE GapOK(r)'
    BY <1>1, SameComing, GapKept DEF GapInv, Got, Hears
  <2>2. QED
    BY <2>1 DEF GapInv
<1>2. ASSUME NEW m \in Members, EndAddMember(m) PROVE GapInv'
  <2>1. /\ \A o \in Nodes :
             /\ room'[o].msg = room[o].msg /\ members'[o] \subseteq members[o] \cup {m}
             /\ Waiting(o) \subseteq Waiting(o)' /\ Waiting(o)' \subseteq Waiting(o) \cup {m}
        /\ UNCHANGED <<setup, status, sub, topic, expired, seen, hand>>
    BY <1>2, EndAddMemberRoom
  <2>2. ASSUME NEW r \in Members \ {m} PROVE GapOK(r)'
    <3>1. (Attends(r)' => Attends(r)) /\ Coming(r) \subseteq Coming(r)'
      BY <2>1, HomeAssumption DEF Attends, Coming
    <3>2. QED
      BY <2>1, <3>1, GapKept DEF GapInv, Got, Hears
  <2>3. GapOK(m)'
    <3>1. Got(m) = {}
      BY <1>2 DEF EndAddMember, ReaderInv, ReaderOK, InRoom
    <3>2. Got(m)' = {}
      BY <2>1, <3>1 DEF Got
    <3>3. QED
      BY <3>2 DEF GapOK
  <2>4. QED
    BY <2>2, <2>3 DEF GapInv
<1>3. ASSUME NEW m \in Members, PublishJoined(m) PROVE GapInv'
  <2>1. /\ UNCHANGED <<setup, status, room, members, expired, seen, hand>>
        /\ UNCHANGED <<topic, sub>> \/ \E msg \in Message : Accept(msg)
    BY <1>3, PublishSteps
  <2>2. CASE UNCHANGED <<topic, sub>>
    BY <1>1, <2>1, <2>2
  <2>3. ASSUME NEW msg \in Message, Accept(msg) PROVE GapInv'
    BY <2>1, <2>3, AcceptGap
  <2>4. QED
    BY <2>1, <2>2, <2>3
<1>4. ASSUME NEW m \in Members, WriteMessage(m) PROVE GapInv'
  <2>1. UNCHANGED <<setup, status, sub, room, members, topic, expired>>
    BY <1>4 DEF WriteMessage
  <2>2. \A r \in Members : Got(r)' = Got(r)
    BY <1>4 DEF WriteMessage, TypeOK, Got
  <2>3. ASSUME NEW r \in Members PROVE GapOK(r)'
    BY <2>1, <2>2, SameComing, GapKept DEF GapInv, Hears
  <2>4. QED
    BY <2>3 DEF GapInv
<1>5. ASSUME NEW m \in Members, PublishChat(m) PROVE GapInv'
  <2>1. /\ UNCHANGED <<setup, status, room, members, expired, seen, hand>>
        /\ UNCHANGED <<topic, sub>> \/ \E msg \in Message : Accept(msg)
    BY <1>5, PublishSteps
  <2>2. CASE UNCHANGED <<topic, sub>>
    BY <1>1, <2>1, <2>2
  <2>3. ASSUME NEW msg \in Message, Accept(msg) PROVE GapInv'
    BY <2>1, <2>3, AcceptGap
  <2>4. QED
    BY <2>1, <2>2, <2>3
<1>6. ASSUME NEW m \in Members, SendFailed(m) PROVE GapInv'
  <2>1. UNCHANGED <<setup, status, sub, room, members, topic, expired>>
    BY <1>6 DEF SendFailed
  <2>2. \A r \in Members : Got(r)' = Got(r)
    BY <1>6 DEF SendFailed, HandTo, TypeOK, Got, ReaderInv, ReaderOK
  <2>3. ASSUME NEW r \in Members PROVE GapOK(r)'
    BY <2>1, <2>2, SameComing, GapKept DEF GapInv, Hears
  <2>4. QED
    BY <2>3 DEF GapInv
<1>7. ASSUME NEW m \in Members, SendFailedPanics(m) PROVE GapInv'
  <2>1. Home[m] \in Nodes /\ Die(Home[m], "panicked")
    BY <1>7, HomeAssumption DEF SendFailedPanics
  <2>2. /\ \A o \in Nodes \ {Home[m]} : status'[o] = status[o] /\ sub'[o] = sub[o]
        /\ status'[Home[m]] # "up"
        /\ UNCHANGED <<setup, room, members, topic, expired, seen, hand>>
    BY <2>1, DieRoom
  <2>3. ASSUME NEW r \in Members PROVE GapOK(r)'
    <3>1. Home[r] \in Nodes /\ GapOK(r) /\ Got(r)' = Got(r)
      BY <2>2, HomeAssumption DEF GapInv, Got
    <3>2. CASE Home[r] = Home[m]
      BY <2>2, <3>1, <3>2, GapKept DEF Hears
    <3>3. CASE Home[r] # Home[m]
      BY <2>2, <3>1, <3>3, SameComing, GapKept DEF Hears
    <3>4. QED
      BY <3>2, <3>3
  <2>4. QED
    BY <2>3 DEF GapInv
<1>8. ASSUME NEW m \in Members, PublishLeft(m) PROVE GapInv'
  <2>1. /\ UNCHANGED <<setup, status, room, members, expired, seen, hand>>
        /\ UNCHANGED <<topic, sub>> \/ \E msg \in Message : Accept(msg)
    BY <1>8, PublishSteps
  <2>2. CASE UNCHANGED <<topic, sub>>
    BY <1>1, <2>1, <2>2
  <2>3. ASSUME NEW msg \in Message, Accept(msg) PROVE GapInv'
    BY <2>1, <2>3, AcceptGap
  <2>4. QED
    BY <2>1, <2>2, <2>3
<1>9. ASSUME NEW m \in Members, GiveUp(m) PROVE GapInv'
  <2>1. /\ UNCHANGED <<setup, status, room, members, expired, seen, hand>>
        /\ UNCHANGED <<topic, sub>> \/ \E msg \in Message : Accept(msg)
    BY <1>9, PublishSteps
  <2>2. CASE UNCHANGED <<topic, sub>>
    BY <1>1, <2>1, <2>2
  <2>3. ASSUME NEW msg \in Message, Accept(msg) PROVE GapInv'
    BY <2>1, <2>3, AcceptGap
  <2>4. QED
    BY <2>1, <2>2, <2>3
<1>10. ASSUME NEW n \in Nodes, Subscribe(n) PROVE GapInv'
  <2>1. /\ UNCHANGED <<status, sub, room, members, topic, expired, seen, hand>>
        /\ \A o \in Nodes : setup[o] = "ok" => setup'[o] = "ok"
    BY <1>10 DEF Subscribe, TypeOK
  <2>2. ASSUME NEW r \in Members PROVE GapOK(r)'
    BY <2>1, HomeAssumption, SameComing, GapKept DEF GapInv, Got, Hears
  <2>3. QED
    BY <2>2 DEF GapInv
<1>11. ASSUME NEW n \in Nodes, SubscribeFails(n) PROVE GapInv'
  <2>1. /\ UNCHANGED <<status, sub, room, members, topic, expired, seen, hand>>
        /\ \A o \in Nodes : setup[o] = "ok" => setup'[o] = "ok"
    BY <1>11 DEF SubscribeFails, TypeOK
  <2>2. ASSUME NEW r \in Members PROVE GapOK(r)'
    BY <2>1, HomeAssumption, SameComing, GapKept DEF GapInv, Got, Hears
  <2>3. QED
    BY <2>2 DEF GapInv
<1>12. ASSUME NEW n \in Nodes, Evict(n) PROVE GapInv'
  <2>1. /\ UNCHANGED <<status, sub, room, members, topic, expired, seen, hand>>
        /\ \A o \in Nodes : setup[o] = "ok" => setup'[o] = "ok"
    BY <1>12 DEF Evict, TypeOK
  <2>2. ASSUME NEW r \in Members PROVE GapOK(r)'
    BY <2>1, HomeAssumption, SameComing, GapKept DEF GapInv, Got, Hears
  <2>3. QED
    BY <2>2 DEF GapInv
<1>13. ASSUME NEW n \in Nodes, Receive(n) PROVE GapInv'
  <2>1. PICK i \in sub[n] : /\ sub' = [sub EXCEPT ![n] = @ \ {i}]
                            /\ members' = [members EXCEPT ![n] = @ \ Departs(i)]
                            /\ NextNotify(n, i, members'[n])
    BY <1>13 DEF Receive
  <2>2. /\ UNCHANGED <<setup, status, topic, expired, seen, hand>>
        /\ room[n].at = "recv"
    BY <1>13 DEF Receive
  <2>3. /\ sub'[n] = sub[n] \ {i} /\ members'[n] \subseteq members[n]
        /\ \A o \in Nodes \ {n} : sub'[o] = sub[o] /\ members'[o] = members[o]
    BY <2>1 DEF TypeOK
  <2>4. /\ Waiting(n)' = members'[n]
        /\ members'[n] # {} => room'[n].msg = i
        /\ \A o \in Nodes \ {n} : room'[o] = room[o]
    <3>1. room \in [Nodes -> RoomState]
      BY DEF TypeOK
    <3>2. QED
      BY ONLY <2>1, <3>1, NextNotifyWaiting, n \in Nodes
  <2>5. ASSUME NEW r \in Members PROVE GapOK(r)'
    <3>1. Home[r] \in Nodes /\ GapOK(r) /\ Got(r)' = Got(r)
      BY <2>2, HomeAssumption DEF GapInv, Got
    <3>2. CASE Home[r] = n
      <4>1. ASSUME Attends(r)' PROVE Attends(r) /\ Coming(r) \subseteq Coming(r)'
        <5>1. r \in members'[n] /\ r \in members[n]
          BY <2>3, <2>4, <3>2, <4>1 DEF Attends
        <5>2. r \in Waiting(n)' /\ i \in Coming(r)'
          BY <2>4, <3>2, <5>1 DEF Coming
        <5>3. Coming(r) = sub[n] /\ sub'[n] \subseteq Coming(r)'
          BY <2>2, <3>2 DEF Coming, Waiting
        <5>4. QED
          BY <2>3, <3>2, <5>1, <5>2, <5>3 DEF Attends
      <4>2. QED
        BY <2>2, <3>1, <4>1, GapKept DEF Hears
    <3>3. CASE Home[r] # n
      BY <2>2, <2>3, <2>4, <3>1, <3>3, SameComing, GapKept DEF Hears
    <3>4. QED
      BY <3>2, <3>3
  <2>6. QED
    BY <2>5 DEF GapInv
<1>14. ASSUME NEW n \in Nodes, Notify(n) PROVE GapInv'
  <2>1. PICK c \in Members : c = room[n].cur /\ c \notin room[n].todo /\ Home[c] = n
    BY <1>14, NoMemberAssumption DEF Notify, RoomInv, RoomOK, Attending
  <2> DEFINE i == room[n].msg
  <2>2. /\ room[n].at = "notify" /\ listen[c] = "recv" /\ hand' = [hand EXCEPT ![c] = i]
        /\ UNCHANGED <<setup, status, sub, members, topic, expired, seen>>
    BY <1>14, <2>1 DEF Notify, HandTo
  <2>3. /\ Waiting(n)' = room[n].todo
        /\ room[n].todo # {} => room'[n].msg = i
        /\ \A o \in Nodes \ {n} : room'[o] = room[o]
    <3>1. room \in [Nodes -> RoomState] /\ NextNotify(n, i, room[n].todo)
      BY <1>14 DEF Notify, TypeOK
    <3>2. QED
      BY ONLY <3>1, NextNotifyWaiting, n \in Nodes
  <2>4. Waiting(n) = room[n].todo \cup {c}
    BY <2>1, <2>2 DEF Waiting
  <2>5. ASSUME NEW r \in Members \ {c} PROVE GapOK(r)'
    <3>1. Home[r] \in Nodes /\ GapOK(r) /\ Got(r)' = Got(r)
      BY <2>2, HomeAssumption DEF GapInv, Got, TypeOK
    <3>2. CASE Home[r] = n
      <4>1. r \in Waiting(n)' <=> r \in Waiting(n)
        BY <2>3, <2>4
      <4>2. (Attends(r)' <=> Attends(r)) /\ Coming(r)' = Coming(r)
        BY <2>2, <2>3, <3>2, <4>1 DEF Attends, Coming
      <4>3. QED
        BY <2>2, <3>1, <4>2, GapKept DEF Hears
    <3>3. CASE Home[r] # n
      BY <2>2, <2>3, <3>1, <3>3, SameComing, GapKept DEF Hears
    <3>4. QED
      BY <3>2, <3>3
  <2>6. GapOK(c)'
    <3>1. /\ i \in DOMAIN topic /\ i \in Nat /\ Len(topic) \in Nat /\ i <= Len(topic) /\ i # NoIndex
          /\ \A j \in sub[n] : i < j
          /\ \A j \in Got(c) : j < i /\ j \in Nat
      BY <2>1, <2>2, GotIndexes DEF NotifyInv, NotifyOK, TypeOK, NoIndex
    <3>2. hand[c] = NoIndex
      BY <2>2 DEF ReaderInv, ReaderOK
    <3>3. Got(c)' = Got(c) \cup {i}
      BY <2>2, <3>1, <3>2 DEF Got, TypeOK
    <3>4. setup[n] = "ok" /\ Hears(n) /\ Attends(c)
      BY <1>14, <2>1, <2>4 DEF Notify, ClosedInv, Hears, Attends
    <3>5. Coming(c) = sub[n] \cup {i}
      BY <2>1, <2>4 DEF Coming
    <3>6. sub[n] \subseteq Coming(c)'
      BY <2>1, <2>2 DEF Coming
    <3>7. i + 1 .. Len(topic) \subseteq sub[n]
      BY <2>2, <3>4 DEF TailInv, TailOK
    <3>8. ASSUME n \notin expired
          PROVE  /\ \A j, k \in Got(c) : j .. k \subseteq Got(c)
                 /\ \A j \in Got(c) : j + 1 .. Len(topic) \subseteq Got(c) \cup sub[n] \cup {i}
      BY <2>1, <3>4, <3>5, <3>8 DEF GapInv, GapOK
    <3>9. ASSUME n \notin expired, NEW j \in Got(c)' PROVE j .. i \subseteq Got(c)'
      <4>1. CASE j = i
        BY <3>1, <3>3, <4>1
      <4>2. CASE j \in Got(c)
        <5>1. j + 1 .. i \subseteq Got(c) \cup sub[n] \cup {i}
          BY <3>1, <3>8, <3>9, <4>2
        <5>2. j + 1 .. i \subseteq Got(c)'
          BY <3>1, <3>3, <5>1
        <5>3. QED
          BY <3>1, <3>3, <4>2, <5>2
      <4>3. QED
        BY <3>3, <3>9, <4>1, <4>2
    <3>10. ASSUME n \notin expired, NEW j \in Got(c)', NEW k \in Got(c)' PROVE j .. k \subseteq Got(c)'
      <4>1. CASE k = i
        BY <3>9, <3>10, <4>1
      <4>2. CASE k \in Got(c) /\ j \in Got(c)
        BY <3>3, <3>8, <3>10, <4>2
      <4>3. CASE k \in Got(c) /\ j = i
        BY <3>1, <4>3
      <4>4. QED
        BY <3>3, <3>10, <4>1, <4>2, <4>3
    <3>11. ASSUME n \notin expired, NEW j \in Got(c)'
           PROVE  j + 1 .. Len(topic) \subseteq Got(c)' \cup Coming(c)'
      BY <3>1, <3>3, <3>6, <3>7, <3>8, <3>11
    <3>12. QED
      BY <2>1, <2>2, <3>4, <3>10, <3>11 DEF GapOK
  <2>7. QED
    BY <2>5, <2>6 DEF GapInv
<1>15. ASSUME NEW n \in Nodes, NotifyTimeout(n) PROVE GapInv'
  <2>1. /\ UNCHANGED <<setup, status, sub, members, topic, expired, seen, hand>>
        /\ n \in expired
    BY <1>15 DEF NotifyTimeout
  <2>2. \A o \in Nodes \ {n} : room'[o] = room[o]
    BY <1>15, NextNotifyAt DEF NotifyTimeout, TypeOK
  <2>3. ASSUME NEW r \in Members PROVE GapOK(r)'
    <3>1. Home[r] \in Nodes /\ GapOK(r) /\ Got(r)' = Got(r)
      BY <2>1, HomeAssumption DEF GapInv, Got
    <3>2. CASE Home[r] = n
      BY <2>1, <3>1, <3>2, GapKept DEF Hears
    <3>3. CASE Home[r] # n
      BY <2>1, <2>2, <3>1, <3>3, SameComing, GapKept DEF Hears
    <3>4. QED
      BY <3>2, <3>3
  <2>4. QED
    BY <2>3 DEF GapInv
<1>16. ASSUME NEW n \in Nodes, ReceiveClosed(n) PROVE GapInv'
  <2>1. /\ UNCHANGED <<setup, status, sub, members, topic, expired, seen, hand>>
        /\ setup[n] # "ok"
    BY <1>16 DEF ReceiveClosed, ClosedInv, SetupFailed
  <2>2. \A o \in Nodes \ {n} : room'[o] = room[o]
    BY <1>16, NextStopAt DEF ReceiveClosed, TypeOK
  <2>3. ASSUME NEW r \in Members PROVE GapOK(r)'
    <3>1. Home[r] \in Nodes /\ GapOK(r) /\ Got(r)' = Got(r)
      BY <2>1, HomeAssumption DEF GapInv, Got
    <3>2. CASE Home[r] = n
      BY <2>1, <3>1, <3>2, GapKept DEF Hears
    <3>3. CASE Home[r] # n
      BY <2>1, <2>2, <3>1, <3>3, SameComing, GapKept DEF Hears
    <3>4. QED
      BY <3>2, <3>3
  <2>4. QED
    BY <2>3 DEF GapInv
<1>17. ASSUME NEW n \in Nodes, StopMember(n) PROVE GapInv'
  <2>1. /\ UNCHANGED <<setup, status, sub, members, topic, expired, seen, hand>>
        /\ setup[n] # "ok"
    BY <1>17 DEF StopMember, ClosedInv, SetupFailed
  <2>2. \A o \in Nodes \ {n} : room'[o] = room[o]
    BY <1>17, NextStopAt DEF StopMember, TypeOK
  <2>3. ASSUME NEW r \in Members PROVE GapOK(r)'
    <3>1. Home[r] \in Nodes /\ GapOK(r) /\ Got(r)' = Got(r)
      BY <2>1, HomeAssumption DEF GapInv, Got
    <3>2. CASE Home[r] = n
      BY <2>1, <3>1, <3>2, GapKept DEF Hears
    <3>3. CASE Home[r] # n
      BY <2>1, <2>2, <3>1, <3>3, SameComing, GapKept DEF Hears
    <3>4. QED
      BY <3>2, <3>3
  <2>4. QED
    BY <2>3 DEF GapInv
<1>18. ASSUME NEW n \in Nodes, Crash(n) PROVE GapInv'
  <2>1. n \in Nodes /\ Die(n, "crashed")
    BY <1>18, HomeAssumption DEF Crash
  <2>2. /\ \A o \in Nodes \ {n} : status'[o] = status[o] /\ sub'[o] = sub[o]
        /\ status'[n] # "up"
        /\ UNCHANGED <<setup, room, members, topic, expired, seen, hand>>
    BY <2>1, DieRoom
  <2>3. ASSUME NEW r \in Members PROVE GapOK(r)'
    <3>1. Home[r] \in Nodes /\ GapOK(r) /\ Got(r)' = Got(r)
      BY <2>2, HomeAssumption DEF GapInv, Got
    <3>2. CASE Home[r] = n
      BY <2>2, <3>1, <3>2, GapKept DEF Hears
    <3>3. CASE Home[r] # n
      BY <2>2, <3>1, <3>3, SameComing, GapKept DEF Hears
    <3>4. QED
      BY <3>2, <3>3
  <2>4. QED
    BY <2>3 DEF GapInv
<1>19. ASSUME NEW n \in Nodes, MapFault(n) PROVE GapInv'
  <2>1. n \in Nodes /\ Die(n, "raced")
    BY <1>19, HomeAssumption DEF MapFault
  <2>2. /\ \A o \in Nodes \ {n} : status'[o] = status[o] /\ sub'[o] = sub[o]
        /\ status'[n] # "up"
        /\ UNCHANGED <<setup, room, members, topic, expired, seen, hand>>
    BY <2>1, DieRoom
  <2>3. ASSUME NEW r \in Members PROVE GapOK(r)'
    <3>1. Home[r] \in Nodes /\ GapOK(r) /\ Got(r)' = Got(r)
      BY <2>2, HomeAssumption DEF GapInv, Got
    <3>2. CASE Home[r] = n
      BY <2>2, <3>1, <3>2, GapKept DEF Hears
    <3>3. CASE Home[r] # n
      BY <2>2, <3>1, <3>3, SameComing, GapKept DEF Hears
    <3>4. QED
      BY <3>2, <3>3
  <2>4. QED
    BY <2>3 DEF GapInv
<1>20. ASSUME NEW m \in Members,
             ServeRoom(m) \/ ListenReady(m) \/ ListenTimeout(m) \/ BroadcastReady(m)
             \/ BroadcastTimeout(m) \/ InsertMember(m) \/ InsertMemberFails(m) \/
             ServeStops(m) \/ BeginAddMember(m) \/ StartBroadcast(m) \/
             ListenClosed(m) \/ Poll(m) \/ ReadError(m) \/ TakeChat(m) \/
             TakeLeft(m) \/ InsertMessage(m) \/ InsertMessageFails(m) \/
             DeleteMember(m) \/ DeleteMemberFails(m) \/ ReadChat(m) \/ Close(m)
      PROVE  UNCHANGED <<setup, status, sub, room, members, expired,
                     topic, seen, hand>>
  BY <1>20 DEF ServeRoom, ListenReady, ListenTimeout, BroadcastReady, BroadcastTimeout,
         InsertMember, InsertMemberFails, ServeStops, BeginAddMember,
         StartBroadcast, ListenClosed, Poll, ReadError, TakeChat, TakeLeft,
         InsertMessage, InsertMessageFails, DeleteMember, DeleteMemberFails,
         ReadChat, Close
<1>21. CASE (\E x \in Deadlines : Expire(x)) \/ UNCHANGED vars
  <2>1. /\ UNCHANGED <<setup, status, sub, room, members, topic, seen, hand>>
        /\ expired \subseteq expired'
    BY <1>21 DEF Expire, vars
  <2>2. ASSUME NEW r \in Members PROVE GapOK(r)'
    BY <2>1, SameComing, GapKept DEF GapInv, Got, Hears
  <2>3. QED
    BY <2>2 DEF GapInv
<1>22. ASSUME NEW msg \in gaveUp, ExecuteLate(msg) PROVE GapInv'
  BY <1>22, LateExecution, AcceptGap
<1>23. QED
  BY <1>1, <1>2, <1>3, <1>4, <1>5, <1>6, <1>7, <1>8, <1>9, <1>10, <1>11, <1>12,
     <1>13, <1>14, <1>15, <1>16, <1>17, <1>18, <1>19, <1>20, <1>21, <1>22
  DEF Next, ServeStep, ListenStep, BroadcastStep, PublishStep, SetupStep, RoomStep

-----------------------------------------------------------------------------
(* The theorems                                                            *)

\* TailInv and GapInv are inductive invariants of a room whose messages are
\* not lost, together with IInv and ThreadInv.
THEOREM GapsInductive ==
    ASSUME NoLoss
    PROVE  Spec => [](TailInv /\ GapInv)
<1>1. Init => TailInv /\ GapInv
  <2> SUFFICES ASSUME Init PROVE TailInv /\ GapInv
    OBVIOUS
  <2>1. ASSUME NEW n \in Nodes PROVE TailOK(n)
    BY DEF Init, TailOK, Hears
  <2>2. ASSUME NEW m \in Members PROVE GapOK(m)
    BY GapEmpty DEF Init, Got
  <2>3. QED
    BY <2>1, <2>2 DEF TailInv, GapInv
<1>2. IInv /\ ThreadInv /\ (TailInv /\ GapInv) /\ [Next]_vars => (TailInv /\ GapInv)'
  BY TailStep, GapStep DEF IInv, ThreadInv
<1>3. QED
  BY <1>1, <1>2, Inductive, ThreadsInductive, PTL DEF Spec

\* Until the deadline of its room, if it has one, a member reads the topic
\* without gaps from the first message it reads to the last.
THEOREM NoGapsBeforeDeadline ==
    ASSUME NoLoss
    PROVE  Spec => []NoGapsInTime
<1>1. IInv /\ TailInv /\ GapInv => NoGapsInTime
  <2> SUFFICES ASSUME IInv, GapInv, NEW m \in Members, Home[m] \notin expired,
                      NEW i \in seen[m], NEW k \in seen[m], NEW j \in i .. k
               PROVE  j \in seen[m]
    BY DEF NoGapsInTime
  <2>1. i \in Got(m) /\ k \in Got(m) /\ i \in Nat /\ k \in Nat
    BY GotIndexes DEF IInv, Got
  <2>2. j \in Got(m)
    BY <2>1 DEF GapInv, GapOK
  <2>3. hand[m] # NoIndex => k < hand[m] /\ hand[m] \in Nat
    BY DEF IInv, ReaderInv, ReaderOK, TypeOK
  <2>4. QED
    BY <2>1, <2>2, <2>3 DEF Got
<1>2. QED
  BY <1>1, Inductive, GapsInductive, PTL

\* When nothing is on its way, being distributed or being written, a member
\* of the room has read the topic to its end.
THEOREM SettledIsCaughtUp ==
    ASSUME NoLoss
    PROVE  Spec => []CaughtUp
<1>1. IInv /\ TailInv /\ GapInv => CaughtUp
  <2> SUFFICES ASSUME IInv, GapInv, NEW m \in Members, Settled(Home[m]),
                      m \in members[Home[m]], hand[m] = NoIndex, NEW i \in seen[m]
               PROVE  i .. Len(topic) \subseteq seen[m]
    BY DEF CaughtUp
  <2>1. Attends(m) /\ Coming(m) = {} /\ Got(m) = seen[m]
    BY DEF Settled, Attends, Coming, Waiting, Got
  <2>2. i + 1 .. Len(topic) \subseteq seen[m]
    BY <2>1 DEF Settled, GapInv, GapOK
  <2>3. i \in Nat /\ Len(topic) \in Nat
    BY <2>1, GotIndexes DEF IInv
  <2>4. QED
    BY <2>2, <2>3
<1>2. QED
  BY <1>1, Inductive, GapsInductive, PTL

\* Where no room has a deadline and no message is lost, no member ever skips
\* a message, whatever its neighbours do.
THEOREM NothingIsSkipped ==
    ASSUME NoLoss, Deadlines \cap Nodes = {}
    PROVE  Spec => []NoGaps
<1>1. Spec => [](expired \subseteq Deadlines)
  <2>1. Init => expired \subseteq Deadlines
    BY DEF Init
  <2>2. expired \subseteq Deadlines /\ [Next]_vars => (expired \subseteq Deadlines)'
    BY ExpiredOnly
  <2>3. QED
    BY <2>1, <2>2, PTL DEF Spec
<1>2. expired \subseteq Deadlines /\ NoGapsInTime => NoGaps
  BY HomeAssumption DEF NoGapsInTime, NoGaps
<1>3. QED
  BY <1>1, <1>2, NoGapsBeforeDeadline, PTL

\* A member that has read anything reads nothing behind its own departure:
\* between the two there is no gap to jump over.
THEOREM SilenceFollowsLeave ==
    ASSUME NoLoss
    PROVE  Spec => []SilentAfterLeave
<1>1. IInv /\ NoGapsInTime => SilentAfterLeave
  <2> SUFFICES ASSUME IInv, NoGapsInTime, NEW m \in Members, Home[m] \notin expired,
                      NEW i \in seen[m], NEW k \in seen[m], NEW j \in DOMAIN topic,
                      i < j, topic[j] = Left(m), ~(k < j)
               PROVE  FALSE
    BY DEF SilentAfterLeave
  <2>1. i \in Nat /\ k \in Nat /\ j \in Nat
    BY DEF IInv, TypeOK
  <2>2. j \in i .. k
    BY <2>1
  <2>3. j \in seen[m]
    BY <2>2 DEF NoGapsInTime
  <2>4. QED
    BY <2>3 DEF IInv, ReaderInv, ReaderOK, Got
<1>2. QED
  BY <1>1, Inductive, NoGapsBeforeDeadline, PTL

\* Room.members keeps nobody whose departure a settled room has received,
\* if it was a reader of the room before.
THEOREM DepartedAreForgotten ==
    ASSUME NoLoss
    PROVE  Spec => []Forgotten
<1>1. IInv /\ GapInv => Forgotten
  <2> SUFFICES ASSUME IInv, GapInv, NEW m \in Members, Settled(Home[m]),
                      m \in members[Home[m]], NEW i \in Got(m), NEW j \in DOMAIN topic,
                      i < j
               PROVE  topic[j] # Left(m)
    BY DEF Forgotten
  <2>1. Attends(m) /\ Coming(m) = {}
    BY DEF Settled, Attends, Coming, Waiting
  <2>2. i + 1 .. Len(topic) \subseteq Got(m)
    BY <2>1 DEF Settled, GapInv, GapOK
  <2>3. i \in Nat /\ j \in i + 1 .. Len(topic)
    BY GotIndexes DEF IInv
  <2>4. QED
    BY <2>2, <2>3 DEF IInv, ReaderInv, ReaderOK
<1>2. QED
  BY <1>1, Inductive, GapsInductive, PTL

-----------------------------------------------------------------------------
(* What becomes of a chat                                                  *)

\* PUBLISH fails only at the deadline of its member's connection.
Reliable == "queue" \notin Faults

\* A step that takes nothing from the topic, and after which Publish is busy
\* with the chat it was busy with, leaves the chats of a member answered.
LEMMA AnsweredKept ==
    ASSUME NEW m \in Members, AnsweredOK(m), chats'[m] = chats[m],
           Handling(m) => Handling(m)',
           told[m] \subseteq told'[m], expired \subseteq expired',
           \A i \in DOMAIN topic : i \in DOMAIN topic' /\ topic'[i] = topic[i]
    PROVE  AnsweredOK(m)'
<1>1. \A k : InTopic(Chat(m, k)) => InTopic(Chat(m, k))'
  BY DEF InTopic, Chat
<1>2. QED
  BY <1>1 DEF AnsweredOK

\* An accepted message is in the topic, and the others stay there.
LEMMA AcceptInTopic ==
    ASSUME TypeOK, NEW msg \in Message, Accept(msg)
    PROVE  /\ \A i \in DOMAIN topic : i \in DOMAIN topic' /\ topic'[i] = topic[i]
           /\ \E i \in DOMAIN topic' : topic'[i] = msg
<1>1. topic \in Seq(Message) /\ sub \in [Nodes -> SUBSET Nat]
  BY DEF TypeOK
<1>2. Len(topic) + 1 \in DOMAIN topic' /\ topic'[Len(topic) + 1] = msg
  BY <1>1, AcceptTopic
<1>3. QED
  BY <1>1, <1>2, AcceptTopic

\* Every step keeps each chat that was taken answered or in hand.
LEMMA AnsweredStep ==
    ASSUME Reliable, TypeOK, GateInv, AbortInv, AnsweredInv, [Next]_vars
    PROVE  AnsweredInv'
<1>0. DOMAIN pub = Members /\ DOMAIN chats = Members /\ DOMAIN told = Members
  BY DEF TypeOK
<1>1. CASE UNCHANGED <<pub, chats, told, expired, topic>>
  BY <1>1, AnsweredKept DEF AnsweredInv, Handling
<1>2. ASSUME NEW m \in Members, ListenReady(m) PROVE AnsweredInv'
  <2>1. \A o \in Members : Handling(o) => Handling(o)'
    BY <1>0, <1>2 DEF ListenReady, Handling, AbortInv
  <2>2. UNCHANGED <<chats, told, expired, topic>>
    BY <1>2 DEF ListenReady
  <2>3. QED
    BY <2>1, <2>2, AnsweredKept DEF AnsweredInv
<1>3. ASSUME NEW m \in Members, ServeStops(m) PROVE AnsweredInv'
  <2>1. \A o \in Members : Handling(o) => Handling(o)'
    BY <1>0, <1>3 DEF ServeStops, Handling
  <2>2. UNCHANGED <<chats, told, expired, topic>>
    BY <1>3 DEF ServeStops
  <2>3. QED
    BY <2>1, <2>2, AnsweredKept DEF AnsweredInv
<1>4. ASSUME NEW m \in Members, TakeLeft(m) PROVE AnsweredInv'
  <2>1. \A o \in Members : Handling(o) => Handling(o)'
    BY <1>0, <1>4 DEF TakeLeft, Handling
  <2>2. UNCHANGED <<chats, told, expired, topic>>
    BY <1>4 DEF TakeLeft
  <2>3. QED
    BY <2>1, <2>2, AnsweredKept DEF AnsweredInv
<1>5. ASSUME NEW m \in Members, InsertMessage(m) PROVE AnsweredInv'
  <2>1. \A o \in Members : Handling(o) => Handling(o)'
    BY <1>0, <1>5 DEF InsertMessage, Handling
  <2>2. UNCHANGED <<chats, told, expired, topic>>
    BY <1>5 DEF InsertMessage
  <2>3. QED
    BY <2>1, <2>2, AnsweredKept DEF AnsweredInv
<1>6. ASSUME NEW m \in Members, InsertMessageFails(m) PROVE AnsweredInv'
  <2>1. \A o \in Members : Handling(o) => Handling(o)'
    BY <1>0, <1>6 DEF InsertMessageFails, Handling
  <2>2. UNCHANGED <<chats, told, expired, topic>>
    BY <1>6 DEF InsertMessageFails
  <2>3. QED
    BY <2>1, <2>2, AnsweredKept DEF AnsweredInv
<1>7. ASSUME NEW m \in Members, DeleteMember(m) PROVE AnsweredInv'
  <2>1. \A o \in Members : Handling(o) => Handling(o)'
    BY <1>0, <1>7 DEF DeleteMember, Handling
  <2>2. UNCHANGED <<chats, told, expired, topic>>
    BY <1>7 DEF DeleteMember
  <2>3. QED
    BY <2>1, <2>2, AnsweredKept DEF AnsweredInv
<1>8. ASSUME NEW m \in Members, DeleteMemberFails(m) PROVE AnsweredInv'
  <2>1. \A o \in Members : Handling(o) => Handling(o)'
    BY <1>0, <1>8 DEF DeleteMemberFails, Handling
  <2>2. UNCHANGED <<chats, told, expired, topic>>
    BY <1>8 DEF DeleteMemberFails
  <2>3. QED
    BY <2>1, <2>2, AnsweredKept DEF AnsweredInv
<1>9. ASSUME NEW m \in Members, TakeChat(m) PROVE AnsweredInv'
  <2>1. /\ pub' = [pub EXCEPT ![m] = "insert"] /\ chats' = [chats EXCEPT ![m] = @ + 1]
        /\ pub[m] = "select" /\ UNCHANGED <<told, expired, topic>>
    BY <1>9 DEF TakeChat
  <2>2. ASSUME NEW o \in Members \ {m} PROVE AnsweredOK(o)'
    BY <1>0, <2>1, AnsweredKept DEF AnsweredInv, Handling
  <2>3. AnsweredOK(m)'
    <3>1. chats[m] \in Nat /\ chats'[m] = chats[m] + 1 /\ Handling(m)'
      BY <1>0, <2>1, MaxChatsAssumption DEF TypeOK, Handling
    <3>2. SUFFICES ASSUME NEW k \in 1 .. chats'[m], k # chats'[m]
                   PROVE  InTopic(Chat(m, k))' \/ k \in told'[m] \/ m \in expired'
      BY <3>1 DEF AnsweredOK, Chat
    <3>3. k \in 1 .. chats[m] /\ ~Handling(m)
      BY <2>1, <3>1, <3>2 DEF Handling
    <3>4. InTopic(Chat(m, k)) \/ k \in told[m] \/ m \in expired
      BY <3>3 DEF AnsweredInv, AnsweredOK
    <3>5. QED
      BY <2>1, <3>4 DEF InTopic, Chat
  <2>4. QED
    BY <2>2, <2>3 DEF AnsweredInv
<1>10. ASSUME NEW m \in Members, PublishChat(m) PROVE AnsweredInv'
  <2>1. /\ pub' = [pub EXCEPT ![m] = "select"] /\ UNCHANGED <<chats, told, expired>>
        /\ QueuePublish(m, Chat(m, chats[m]))
    BY <1>10 DEF PublishChat
  <2>2. Chat(m, chats[m]) \in Message
    BY PublishingMessages
  <2>3. \A i \in DOMAIN topic : i \in DOMAIN topic' /\ topic'[i] = topic[i]
    BY <2>1, <2>2, AcceptInTopic DEF QueuePublish
  <2>4. ASSUME NEW o \in Members \ {m} PROVE AnsweredOK(o)'
    BY <1>0, <2>1, <2>3, AnsweredKept DEF AnsweredInv, Handling
  <2>5. (\E i \in DOMAIN topic' : topic'[i] = Chat(m, chats[m])) \/ m \in expired'
    BY <2>1, <2>2, AcceptInTopic DEF QueuePublish, Reliable
  <2>6. \A k \in 1 .. chats[m] : InTopic(Chat(m, k))' \/ k \in told'[m] \/ m \in expired'
    BY <2>1, <2>3, <2>5 DEF AnsweredInv, AnsweredOK, InTopic, Chat
  <2>7. QED
    BY <2>1, <2>4, <2>6 DEF AnsweredInv, AnsweredOK, Chat
<1>11. ASSUME NEW m \in Members, SendFailed(m) PROVE AnsweredInv'
  <2>1. /\ pub' = [pub EXCEPT ![m] = "select"] /\ UNCHANGED <<chats, expired, topic>>
        /\ told' = [told EXCEPT ![m] = @ \cup {chats[m]}]
    BY <1>11 DEF SendFailed
  <2>2. ASSUME NEW o \in Members \ {m} PROVE AnsweredOK(o)'
    BY <1>0, <2>1, AnsweredKept DEF AnsweredInv, Handling
  <2>3. told'[m] = told[m] \cup {chats[m]}
    BY <1>0, <2>1
  <2>4. \A k \in 1 .. chats[m] : InTopic(Chat(m, k))' \/ k \in told'[m] \/ m \in expired'
    BY <2>1, <2>3 DEF AnsweredInv, AnsweredOK, InTopic, Chat
  <2>5. QED
    BY <2>1, <2>2, <2>4 DEF AnsweredInv, AnsweredOK, Chat
<1>12. ASSUME NEW m \in Members, PublishJoined(m) \/ PublishLeft(m) \/ GiveUp(m)
      PROVE  AnsweredInv'
  <2>1. UNCHANGED topic \/ \E msg \in Message : Accept(msg)
    BY <1>12, PublishSteps
  <2>2. \A i \in DOMAIN topic : i \in DOMAIN topic' /\ topic'[i] = topic[i]
    BY <2>1, AcceptInTopic
  <2>3. /\ UNCHANGED <<chats, told, expired>>
        /\ \A o \in Members : Handling(o) => Handling(o)'
    BY <1>0, <1>12 DEF PublishJoined, PublishLeft, GiveUp, Handling
  <2>4. QED
    BY <2>2, <2>3, AnsweredKept DEF AnsweredInv
<1>13. ASSUME NEW n \in Nodes, StopMember(n) PROVE AnsweredInv'
  <2>1. \A o \in Members : Handling(o) => Handling(o)'
    BY <1>0, <1>13 DEF StopMember, Handling
  <2>2. UNCHANGED <<chats, told, expired, topic>>
    BY <1>13 DEF StopMember
  <2>3. QED
    BY <2>1, <2>2, AnsweredKept DEF AnsweredInv
<1>14. ASSUME NEW m \in Members,
             ServeRoom(m) \/ ListenTimeout(m) \/ BroadcastReady(m) \/ BroadcastTimeout(m)
             \/ InsertMember(m) \/ InsertMemberFails(m) \/ BeginAddMember(m) \/
             EndAddMember(m) \/ StartBroadcast(m) \/ WriteMessage(m) \/ ListenClosed(m)
             \/ Poll(m) \/ ReadError(m) \/ SendFailedPanics(m) \/ ReadChat(m) \/ Close(m)
      PROVE  UNCHANGED <<pub, chats, told, expired, topic>>
  BY <1>14 DEF ServeRoom, ListenTimeout, BroadcastReady, BroadcastTimeout, InsertMember,
         InsertMemberFails, BeginAddMember, EndAddMember, StartBroadcast, WriteMessage,
         ListenClosed, Poll, ReadError, SendFailedPanics, ReadChat, Close, Die
<1>15. ASSUME NEW n \in Nodes,
             Subscribe(n) \/ SubscribeFails(n) \/ Evict(n) \/ Receive(n) \/ Notify(n)
             \/ NotifyTimeout(n) \/ ReceiveClosed(n) \/ Crash(n) \/ MapFault(n)
      PROVE  UNCHANGED <<pub, chats, told, expired, topic>>
  BY <1>15 DEF Subscribe, SubscribeFails, Evict, Receive, Notify, NotifyTimeout,
         ReceiveClosed, Crash, MapFault, Die, HandTo
<1>16. CASE \E x \in Deadlines : Expire(x)
  <2>1. expired \subseteq expired' /\ UNCHANGED <<pub, chats, told, topic>>
    BY <1>16 DEF Expire
  <2>2. QED
    BY <2>1, AnsweredKept DEF AnsweredInv, Handling
<1>17. CASE UNCHANGED vars
  BY <1>1, <1>17 DEF vars
<1>18. ASSUME NEW msg \in gaveUp, ExecuteLate(msg) PROVE AnsweredInv'
  <2>1. \A i \in DOMAIN topic : i \in DOMAIN topic' /\ topic'[i] = topic[i]
    BY <1>18, LateExecution, AcceptInTopic
  <2>2. UNCHANGED <<pub, chats, told, expired>>
    BY <1>18, LateExecution
  <2>3. QED
    BY <2>1, <2>2, AnsweredKept DEF AnsweredInv, Handling
<1>19. QED
  BY <1>1, <1>2, <1>3, <1>4, <1>5, <1>6, <1>7, <1>8, <1>9, <1>10, <1>11, <1>12,
     <1>13, <1>14, <1>15, <1>16, <1>17, <1>18
  DEF Next, ServeStep, ListenStep, BroadcastStep, PublishStep, SetupStep, RoomStep

\* Publish answers every chat it takes: by putting it into the topic, or by
\* SendFailed.
THEOREM ChatsAreHandled ==
    ASSUME Reliable
    PROVE  Spec => []AnsweredInv
<1>1. Init => AnsweredInv
  BY DEF Init, AnsweredInv, AnsweredOK
<1>2. IInv /\ ThreadInv /\ AnsweredInv /\ [Next]_vars => AnsweredInv'
  BY AnsweredStep DEF IInv, ThreadInv
<1>3. QED
  BY <1>1, <1>2, Inductive, ThreadsInductive, PTL DEF Spec

\* In a settled room, whoever has read its own arrival, of which no attempt was
\* given up, has read each of its chats or was told that it failed.
THEOREM ChatsAreAnswered ==
    ASSUME NoLoss, Reliable
    PROVE  Spec => []ChatsAnswered
<1>1. IInv /\ CaughtUp /\ AnsweredInv => ChatsAnswered
  <2> SUFFICES ASSUME IInv, CaughtUp, AnsweredInv, NEW m \in Members,
                      Settled(Home[m]), m \in members[Home[m]], hand[m] = NoIndex,
                      m \notin expired, ~Handling(m), Joined(m) \notin gaveUp,
                      NEW i \in seen[m], topic[i] = Joined(m),
                      NEW k \in 1 .. chats[m], k \notin told[m]
               PROVE  \E j \in seen[m] : topic[j] = Chat(m, k)
    BY DEF ChatsAnswered
  <2>1. PICK j \in DOMAIN topic : topic[j] = Chat(m, k)
    BY DEF AnsweredInv, AnsweredOK, InTopic
  <2>2. i \in DOMAIN topic /\ topic \in Seq(Message)
    BY DEF IInv, TypeOK, ReaderInv, ReaderOK, Got
  <2>3. i <= j
    <3>1. /\ topic[i].member = topic[j].member
          /\ topic[i].n = 0 /\ topic[j].n = k
      BY <2>1 DEF Joined, Chat
    <3>2. ~(j < i)
      BY <2>1, <2>2, <3>1 DEF IInv, OrderInv, SenderOrder
    <3>3. QED
      BY <2>1, <2>2, <3>2
  <2>4. i .. Len(topic) \subseteq seen[m]
    BY DEF CaughtUp
  <2>5. j \in i .. Len(topic)
    BY <2>1, <2>2, <2>3
  <2>6. QED
    BY <2>1, <2>4, <2>5
<1>2. QED
  BY <1>1, Inductive, SettledIsCaughtUp, ChatsAreHandled, PTL
-----------------------------------------------------------------------------
(* The members of one room                                                 *)

\* A step that hands nobody anything, and changes neither the message nor who
\* got something and takes part, leaves them in agreement.
LEMMA AgreeKept ==
    ASSUME NEW n \in Nodes, AgreeAt(n), n \notin expired' => n \notin expired,
           \A o \in Residents(n) : /\ Got(o)' = Got(o)
                                   /\ Attends(o)' /\ Got(o) # {} => Attends(o),
           Waiting(n) \subseteq Waiting(n)',
           room'[n].at = "notify" => room[n].at = "notify",
           room[n].at = "notify" => room'[n].msg = room[n].msg
    PROVE  AgreeAt(n)'
<1> SUFFICES ASSUME n \notin expired' PROVE AgreeAt(n)'
  BY DEF AgreeAt
<1>1. Residents(n)' = Residents(n) /\ \A o \in Residents(n) : Home[o] = n
  BY DEF Residents
<1>2. \A o, m \in Residents(n) : Agreed(o, m)
  BY DEF AgreeAt
<1>3. ASSUME NEW o \in Residents(n), NEW m \in Residents(n) PROVE Agreed(o, m)'
  <2>1. Agreed(o, m) /\ Got(o)' = Got(o) /\ Got(m)' = Got(m) /\ Home[o] = n
    BY <1>1, <1>2, <1>3
  <2>2. ASSUME Attends(o)', NEW i \in Got(o), NEW j \in Got(m), i < j
        PROVE  j \in Got(o) \/ (o \in Waiting(n)' /\ j = room'[n].msg)
    <3>1. j \in Got(o) \/ (o \in Waiting(n) /\ j = room[n].msg)
      BY <1>3, <2>1, <2>2 DEF Agreed
    <3>2. o \in Waiting(n) => room[n].at = "notify"
      BY DEF Waiting
    <3>3. QED
      BY <3>1, <3>2
  <2>3. QED
    BY <2>1, <2>2 DEF Agreed
<1>4. ASSUME room'[n].at = "notify", NEW o \in Residents(n)
      PROVE  /\ \A i \in Got(o)' : i <= room'[n].msg
             /\ Attends(o)' /\ Got(o)' # {} => room'[n].msg \in Got(o)' \/ o \in Waiting(n)'
  BY <1>4 DEF AgreeAt
<1>5. QED
  BY <1>1, <1>3, <1>4 DEF AgreeAt

\* What does not concern a room leaves its members in agreement.
LEMMA AgreeElsewhere ==
    ASSUME NEW n \in Nodes, AgreeAt(n), n \notin expired' => n \notin expired,
           \A o \in Residents(n) : Got(o)' = Got(o),
           room'[n] = room[n], members'[n] = members[n]
    PROVE  AgreeAt(n)'
<1>1. \A o \in Residents(n) : Attends(o)' = Attends(o)
  BY DEF Residents, Attends, Waiting
<1>2. Waiting(n)' = Waiting(n)
  BY DEF Waiting
<1>3. QED
  BY <1>1, <1>2, AgreeKept

\* A room starts to distribute: everybody in it waits, and the message is behind
\* whatever anybody got.
LEMMA ReceiveAgrees ==
    ASSUME TypeOK, ReaderInv, AgreeInv, NEW n \in Nodes, Receive(n)
    PROVE  AgreeAt(n)'
<1>1. PICK i \in sub[n] : /\ members' = [members EXCEPT ![n] = @ \ Departs(i)]
                          /\ NextNotify(n, i, members'[n])
  BY DEF Receive
<1>2. UNCHANGED <<expired, seen, hand>> /\ room[n].at = "recv" /\ Waiting(n) = {}
  BY DEF Receive, Waiting
<1>3. members'[n] \subseteq members[n]
  BY <1>1 DEF TypeOK
<1>4. Waiting(n)' = members'[n] /\ (room'[n].at = "notify" => room'[n].msg = i)
  <2>1. room \in [Nodes -> RoomState]
    BY DEF TypeOK
  <2>2. QED
    BY ONLY <1>1, <2>1, NextNotifyWaiting, n \in Nodes
<1>5. /\ \A m : Got(m)' = Got(m)
      /\ \A m \in Residents(n) : Home[m] = n /\ m \in Members
      /\ Residents(n)' = Residents(n)
  BY <1>2 DEF Got, Residents
<1>6. ASSUME NEW m \in Residents(n) PROVE \A j \in Got(m) : j <= i
  <2>1. Home[m] = n /\ m \in Members /\ i \in sub[n] /\ i \in Nat
    BY <1>5 DEF TypeOK
  <2>2. \A j \in Got(m) : j < i /\ j \in Nat
    BY <2>1, GotIndexes DEF ReaderInv, ReaderOK
  <2>3. QED
    BY <2>1, <2>2
<1>7. ASSUME NEW o \in Residents(n), Attends(o)' PROVE Attends(o) /\ o \in Waiting(n)'
  BY <1>3, <1>4, <1>5, <1>7 DEF Attends
<1>8. ASSUME n \notin expired, NEW o \in Residents(n), NEW m \in Residents(n)
      PROVE  Agreed(o, m)'
  <2>1. Agreed(o, m)
    BY <1>8 DEF AgreeInv, AgreeAt
  <2>2. Attends(o) => \A j \in Got(o), k \in Got(m) : j < k => k \in Got(o)
    BY <1>2, <1>5, <2>1 DEF Agreed
  <2>3. QED
    BY <1>5, <1>7, <2>1, <2>2 DEF Agreed
<1>9. QED
  BY <1>2, <1>4, <1>5, <1>6, <1>7, <1>8 DEF AgreeAt

\* A member is notified of what the others got, or wait for.
LEMMA NotifyAgrees ==
    ASSUME TypeOK, RoomInv, ReaderInv, NotifyInv, AgreeInv, NEW n \in Nodes, Notify(n)
    PROVE  AgreeAt(n)'
<1>1. PICK c \in Members : c = room[n].cur /\ c \notin room[n].todo /\ Home[c] = n
  BY NoMemberAssumption DEF Notify, RoomInv, RoomOK, Attending
<1> DEFINE msg == room[n].msg
<1>2. /\ room[n].at = "notify" /\ listen[c] = "recv" /\ hand' = [hand EXCEPT ![c] = msg]
      /\ UNCHANGED <<members, expired, seen>>
  BY <1>1 DEF Notify, HandTo
<1>3. /\ Waiting(n)' = room[n].todo /\ Waiting(n) = room[n].todo \cup {c}
      /\ room[n].todo # {} => room'[n].msg = msg
      /\ room'[n].at = "notify" => room'[n].msg = msg
  <2>1. room \in [Nodes -> RoomState] /\ NextNotify(n, msg, room[n].todo)
    BY DEF Notify, TypeOK
  <2>2. /\ Waiting(n)' = room[n].todo
        /\ room[n].todo # {} => room'[n].msg = msg
        /\ room'[n].at = "notify" => room'[n].msg = msg
    BY ONLY <2>1, NextNotifyWaiting, n \in Nodes
  <2>3. QED
    BY <1>1, <1>2, <2>2 DEF Waiting
<1>4. /\ \A m \in Residents(n) : Home[m] = n /\ m \in Members
      /\ Residents(n)' = Residents(n)
  BY DEF Residents
<1>5. /\ msg \in Nat /\ \A m \in Residents(n) : \A j \in Got(m) : j \in Nat
      /\ msg # NoIndex
  BY <1>1, <1>2, <1>4, GotIndexes DEF NotifyInv, NotifyOK, TypeOK, NoIndex
<1>6. /\ Got(c)' = Got(c) \cup {msg}
      /\ \A m \in Residents(n) \ {c} : Got(m)' = Got(m)
  BY <1>2, <1>4, <1>5 DEF Got, TypeOK, ReaderInv, ReaderOK
<1>7. \A o \in Residents(n) :
        /\ Attends(o)' => Attends(o)
        /\ o # c => (o \in Waiting(n)' <=> o \in Waiting(n))
  BY <1>2, <1>3, <1>4 DEF Attends
<1> SUFFICES ASSUME n \notin expired PROVE AgreeAt(n)'
  BY <1>2 DEF AgreeAt
<1>8. /\ \A o \in Residents(n) :
           /\ \A i \in Got(o) : i <= msg
           /\ Attends(o) /\ Got(o) # {} => msg \in Got(o) \/ o \in Waiting(n)
      /\ \A o, m \in Residents(n) : Agreed(o, m)
  BY <1>2 DEF AgreeInv, AgreeAt
<1>9. ASSUME NEW o \in Residents(n)
      PROVE  /\ \A i \in Got(o)' : i <= msg
             /\ Attends(o)' /\ Got(o)' # {} => msg \in Got(o)' \/ o \in Waiting(n)'
  BY <1>5, <1>6, <1>7, <1>8
<1>10. ASSUME NEW o \in Residents(n), NEW i \in Got(o)', NEW k \in Got(o)',
              NEW m \in Residents(n), NEW j \in Got(m)', i < j, j < k
       PROVE  j \in Got(o)'
  <2>1. j < msg
    BY <1>5, <1>6, <1>9, <1>10
  <2>2. j \in Got(m) /\ i \in Got(o)
    BY <1>5, <1>6, <1>10, <2>1
  <2>3. CASE k \in Got(o)
    BY <1>6, <1>8, <1>10, <2>2, <2>3 DEF Agreed
  <2>4. CASE k \notin Got(o)
    <3>1. o = c /\ Attends(c)
      BY <1>3, <1>4, <1>6, <1>10, <2>4 DEF Attends
    <3>2. j \in Got(o) \/ j = msg
      BY <1>4, <1>8, <1>10, <2>2, <3>1 DEF Agreed
    <3>3. QED
      BY <1>6, <3>1, <3>2
  <2>5. QED
    BY <2>3, <2>4
<1>11. ASSUME NEW o \in Residents(n), Attends(o)', NEW i \in Got(o)',
              NEW m \in Residents(n), NEW j \in Got(m)', i < j
       PROVE  j \in Got(o)' \/ (o \in Waiting(n)' /\ j = room'[n].msg)
  <2>1. i # msg
    <3>1. j \in Got(m) \cup {msg}
      BY <1>6, <1>11
    <3>2. j \in Nat /\ j <= msg
      BY <1>5, <1>8, <3>1
    <3>3. QED
      BY <1>5, <1>11, <3>2
  <2>2. i \in Got(o) /\ Attends(o)
    BY <1>6, <1>7, <1>11, <2>1
  <2>3. j = msg \/ j \in Got(m)
    BY <1>6, <1>11
  <2>4. j \in Got(o) \/ j = msg
    BY <1>4, <1>8, <1>11, <2>2, <2>3 DEF Agreed
  <2>5. j = msg /\ o # c => j \in Got(o)' \/ (o \in Waiting(n)' /\ j = room'[n].msg)
    BY <1>3, <1>6, <1>7, <1>8, <2>2
  <2>6. QED
    BY <1>6, <2>4, <2>5
<1>12. ASSUME NEW o \in Residents(n), NEW m \in Residents(n) PROVE Agreed(o, m)'
  BY <1>4, <1>10, <1>11 DEF Agreed
<1>13. QED
  BY <1>3, <1>4, <1>9, <1>12 DEF AgreeAt

\* Members of one room stay in agreement, whatever Redis loses.
LEMMA AgreeStep ==
    ASSUME TypeOK, RoomInv, ReaderInv, NotifyInv, AgreeInv, [Next]_vars
    PROVE  AgreeInv'
<1> SUFFICES ASSUME NEW n \in Nodes PROVE AgreeAt(n)'
  BY DEF AgreeInv
<1>1. AgreeAt(n) /\ \A m \in Residents(n) : m \in Members /\ Home[m] = n
  BY DEF AgreeInv, Residents
<1>2. CASE /\ UNCHANGED <<room, members>> /\ expired \subseteq expired'
           /\ \A m \in Members : Got(m)' = Got(m)
  BY <1>1, <1>2, AgreeElsewhere
<1>3. CASE UNCHANGED <<room, members, expired, seen, hand>>
  BY <1>2, <1>3 DEF Got
<1>4. ASSUME NEW m \in Members, EndAddMember(m) PROVE AgreeAt(n)'
  <2>1. /\ room'[n].at = room[n].at /\ room'[n].msg = room[n].msg
        /\ members'[n] \subseteq members[n] \cup {m}
        /\ Waiting(n) \subseteq Waiting(n)' /\ Waiting(n)' \subseteq Waiting(n) \cup {m}
        /\ UNCHANGED <<expired, seen, hand>>
    BY <1>4, EndAddMemberRoom
  <2>2. Got(m) = {}
    BY <1>4 DEF EndAddMember, ReaderInv, ReaderOK, InRoom
  <2>3. \A o \in Residents(n) : Got(o)' = Got(o) /\ (Attends(o)' /\ Got(o) # {} => Attends(o))
    BY <1>1, <2>1, <2>2 DEF Attends, Got
  <2>4. QED
    BY <1>1, <2>1, <2>3, AgreeKept
<1>5. ASSUME NEW m \in Members, WriteMessage(m) PROVE AgreeAt(n)'
  <2>1. UNCHANGED <<room, members, expired>>
    BY <1>5 DEF WriteMessage
  <2>2. \A r \in Members : Got(r)' = Got(r)
    BY <1>5 DEF WriteMessage, TypeOK, Got
  <2>3. QED
    BY <1>2, <2>1, <2>2
<1>6. ASSUME NEW m \in Members, SendFailed(m) PROVE AgreeAt(n)'
  <2>1. UNCHANGED <<room, members, expired>>
    BY <1>6 DEF SendFailed
  <2>2. \A r \in Members : Got(r)' = Got(r)
    BY <1>6 DEF SendFailed, HandTo, TypeOK, Got, ReaderInv, ReaderOK
  <2>3. QED
    BY <1>2, <2>1, <2>2
<1>7. ASSUME NEW m \in Members,
             \/ PublishJoined(m) \/ PublishChat(m) \/ PublishLeft(m) \/ GiveUp(m)
      PROVE  AgreeAt(n)'
  <2>1. UNCHANGED <<room, members, expired, seen, hand>>
    BY <1>7, PublishSteps
  <2>2. QED
    BY <1>3, <2>1
<1>8. ASSUME NEW o \in Nodes, \E why : Die(o, why) PROVE AgreeAt(n)'
  <2>1. UNCHANGED <<room, members, expired, seen, hand>>
    BY <1>8 DEF Die
  <2>2. QED
    BY <1>3, <2>1
<1>9. ASSUME NEW m \in Members, SendFailedPanics(m) PROVE AgreeAt(n)'
  BY <1>8, <1>9, HomeAssumption DEF SendFailedPanics
<1>10. ASSUME NEW o \in Nodes, Crash(o) \/ MapFault(o) PROVE AgreeAt(n)'
  BY <1>8, <1>10 DEF Crash, MapFault
<1>11. ASSUME NEW o \in Nodes, Subscribe(o) \/ SubscribeFails(o) \/ Evict(o) PROVE AgreeAt(n)'
  <2>1. UNCHANGED <<room, members, expired, seen, hand>>
    BY <1>11 DEF Subscribe, SubscribeFails, Evict
  <2>2. QED
    BY <1>3, <2>1
<1>12. ASSUME NEW o \in Nodes, Receive(o) PROVE AgreeAt(n)'
  <2>1. CASE o = n
    BY <1>12, <2>1, ReceiveAgrees
  <2>2. CASE o # n
    <3>1. UNCHANGED <<expired, seen, hand>> /\ members'[n] = members[n]
      BY <1>12, <2>2 DEF Receive, TypeOK
    <3>2. room'[n] = room[n]
      BY <1>12, <2>2, NextNotifyWaiting DEF Receive, TypeOK
    <3>3. QED
      BY <1>1, <3>1, <3>2, AgreeElsewhere DEF Got
  <2>3. QED
    BY <2>1, <2>2
<1>13. ASSUME NEW o \in Nodes, Notify(o) PROVE AgreeAt(n)'
  <2>1. CASE o = n
    BY <1>13, <2>1, NotifyAgrees
  <2>2. CASE o # n
    <3>1. Home[room[o].cur] = o
      BY <1>13, NoMemberAssumption DEF Notify, RoomInv, RoomOK, Attending
    <3>2. UNCHANGED <<expired, members, seen>> /\ hand' = [hand EXCEPT ![room[o].cur] = room[o].msg]
      BY <1>13 DEF Notify, HandTo
    <3>3. \A r \in Residents(n) : Got(r)' = Got(r)
      BY <1>1, <2>2, <3>1, <3>2 DEF Got, TypeOK
    <3>4. room'[n] = room[n]
      BY <1>13, <2>2, NextNotifyWaiting DEF Notify, TypeOK
    <3>5. QED
      BY <1>1, <3>2, <3>3, <3>4, AgreeElsewhere
  <2>3. QED
    BY <2>1, <2>2
<1>14. ASSUME NEW o \in Nodes, NotifyTimeout(o) PROVE AgreeAt(n)'
  <2>1. UNCHANGED <<members, expired, seen, hand>> /\ o \in expired
    BY <1>14 DEF NotifyTimeout
  <2>2. CASE o = n
    BY <2>1, <2>2 DEF AgreeAt
  <2>3. CASE o # n
    <3>1. room'[n] = room[n]
      BY <1>14, <2>3, NextNotifyAt DEF NotifyTimeout, TypeOK
    <3>2. QED
      BY <1>1, <2>1, <3>1, AgreeElsewhere DEF Got
  <2>4. QED
    BY <2>2, <2>3
<1>15. ASSUME NEW o \in Nodes, ReceiveClosed(o) \/ StopMember(o) PROVE AgreeAt(n)'
  <2>1. /\ UNCHANGED <<members, expired, seen, hand>> /\ room[o].at # "notify"
        /\ \E rest : NextStop(o, rest)
    BY <1>15 DEF ReceiveClosed, StopMember
  <2>2. room'[o].at # "notify" /\ \A p \in Nodes \ {o} : room'[p] = room[p]
    BY <2>1, NextStopAt DEF TypeOK
  <2>3. CASE o = n
    <3>1. Waiting(n) = {} /\ Waiting(n)' = {}
      BY <2>1, <2>2, <2>3 DEF Waiting
    <3>2. \A r \in Residents(n) : Got(r)' = Got(r) /\ (Attends(r)' => Attends(r))
      BY <1>1, <2>1, <3>1 DEF Got, Attends
    <3>3. QED
      BY <1>1, <2>1, <2>2, <2>3, <3>1, <3>2, AgreeKept
  <2>4. CASE o # n
    BY <1>1, <2>1, <2>2, <2>4, AgreeElsewhere DEF Got
  <2>5. QED
    BY <2>3, <2>4
<1>16. ASSUME NEW m \in Members,
              ServeRoom(m) \/ ListenReady(m) \/ ListenTimeout(m) \/ BroadcastReady(m)
              \/ BroadcastTimeout(m) \/ InsertMember(m) \/ InsertMemberFails(m) \/
              ServeStops(m) \/ BeginAddMember(m) \/ StartBroadcast(m) \/
              ListenClosed(m) \/ Poll(m) \/ ReadError(m) \/ TakeChat(m) \/
              TakeLeft(m) \/ InsertMessage(m) \/ InsertMessageFails(m) \/
              DeleteMember(m) \/ DeleteMemberFails(m) \/ ReadChat(m) \/ Close(m)
       PROVE  AgreeAt(n)'
  <2>1. UNCHANGED <<room, members, expired, seen, hand>>
    BY <1>16 DEF ServeRoom, ListenReady, ListenTimeout, BroadcastReady, BroadcastTimeout,
           InsertMember, InsertMemberFails, ServeStops, BeginAddMember,
           StartBroadcast, ListenClosed, Poll, ReadError, TakeChat, TakeLeft,
           InsertMessage, InsertMessageFails, DeleteMember, DeleteMemberFails,
           ReadChat, Close
  <2>2. QED
    BY <1>3, <2>1
<1>17. CASE (\E x \in Deadlines : Expire(x)) \/ UNCHANGED vars
  <2>1. UNCHANGED <<room, members, seen, hand>> /\ expired \subseteq expired'
    BY <1>17 DEF Expire, vars
  <2>2. QED
    BY <1>2, <2>1 DEF Got
<1>18. ASSUME NEW msg \in gaveUp, ExecuteLate(msg) PROVE AgreeAt(n)'
  BY <1>3, <1>18, LateExecution
<1>19. QED
  BY <1>4, <1>5, <1>6, <1>7, <1>9, <1>10, <1>11, <1>12, <1>13, <1>14, <1>15, <1>16, <1>17, <1>18
  DEF Next, ServeStep, ListenStep, BroadcastStep, PublishStep, SetupStep, RoomStep

\* Agreement is an inductive invariant, with loss, crashes and all other faults.
THEOREM AgreementInductive == Spec => []AgreeInv
<1>1. Init => AgreeInv
  <2> SUFFICES ASSUME Init PROVE AgreeInv
    OBVIOUS
  <2>1. \A m \in Members : Got(m) = {}
    BY DEF Init, Got
  <2>2. QED
    BY <2>1 DEF AgreeInv, AgreeAt, Agreed, Residents
<1>2. IInv /\ AgreeInv /\ [Next]_vars => AgreeInv'
  BY AgreeStep DEF IInv
<1>3. QED
  BY <1>1, <1>2, Inductive, PTL DEF Spec

\* The members of a room read one conversation: no notification loop skips one of
\* them, or hands it a message out of its turn (room.go:117-126).
THEOREM OneConversation == Spec => []SameConversation
<1>1. IInv /\ AgreeInv => SameConversation
  <2> SUFFICES ASSUME IInv, AgreeInv, NEW m \in Members, NEW o \in Members,
                      Home[m] = Home[o], Home[o] \notin expired,
                      NEW i \in seen[o], NEW k \in seen[o], NEW j \in seen[m], i < j, j < k
               PROVE  j \in seen[o]
    BY DEF SameConversation
  <2>1. Agreed(o, m)
    BY HomeAssumption DEF AgreeInv, AgreeAt, Residents
  <2>2. j \in Got(o)
    BY <2>1 DEF Agreed, Got
  <2>3. j \in Nat /\ k \in Nat
    BY DEF IInv, TypeOK
  <2>4. hand[o] # NoIndex => k < hand[o] /\ hand[o] \in Nat
    BY DEF IInv, ReaderInv, ReaderOK, TypeOK
  <2>5. QED
    BY <2>2, <2>3, <2>4 DEF Got
<1>2. QED
  BY <1>1, Inductive, AgreementInductive, PTL

\* Between two messages, everybody in a room has read the same, from its own
\* first message on.
THEOREM NobodyAhead == Spec => []NobodyIsAhead
<1>1. IInv /\ AgreeInv => NobodyIsAhead
  <2> SUFFICES ASSUME IInv, AgreeInv, NEW m \in Members, NEW o \in Members,
                      Home[m] = Home[o], Home[o] \notin expired,
                      room[Home[o]].at # "notify", o \in members[Home[o]], hand[o] = NoIndex,
                      NEW i \in seen[o], NEW j \in seen[m], i < j
               PROVE  j \in seen[o]
    BY DEF NobodyIsAhead
  <2>1. Agreed(o, m)
    BY HomeAssumption DEF AgreeInv, AgreeAt, Residents
  <2>2. Attends(o) /\ Waiting(Home[o]) = {} /\ Got(o) = seen[o]
    BY DEF Attends, Waiting, Got
  <2>3. QED
    BY <2>1, <2>2 DEF Agreed, Got
<1>2. QED
  BY <1>1, Inductive, AgreementInductive, PTL

-----------------------------------------------------------------------------
(* A departure is the last                                                 *)

\* A step that hands nobody of a room anything, takes in nobody whose departure is
\* stored, and changes neither the message nor the topic behind it.
LEMMA LeftKept ==
    ASSUME StoreInv, ReaderInv, NotifyInv, NEW n \in Nodes, LeftAt(n),
           \A i \in DOMAIN topic : topic'[i] = topic[i],
           \A o \in Residents(n) :
              Got(o)' = Got(o) /\ (Attends(o)' => Attends(o) \/ Left(o) \notin stored),
           room'[n].at = "notify" => room[n].at = "notify" /\ room'[n].msg = room[n].msg
    PROVE  LeftAt(n)'
<1>1. Residents(n)' = Residents(n) /\ \A o \in Residents(n) : o \in Members /\ Home[o] = n
  BY DEF Residents
<1>2. ASSUME NEW o \in Residents(n), NEW j \in Got(o)
      PROVE  topic'[j] = topic[j] /\ topic[j] \in stored
  BY <1>1 DEF ReaderInv, ReaderOK, StoreInv, PersistBeforePublish
<1>3. room[n].at = "notify" =>
        topic'[room[n].msg] = topic[room[n].msg] /\ topic[room[n].msg] \in stored
  BY DEF NotifyInv, NotifyOK, StoreInv, PersistBeforePublish
<1>4. ASSUME NEW m \in Residents(n), NEW j, Departed(m, j), Left(m) \in stored
      PROVE  ~Attends(m)' /\ \A i \in Got(m)' : i < j
  BY <1>4 DEF Departed
<1>5. ASSUME NEW m \in Residents(n), room'[n].at = "notify", topic'[room'[n].msg] = Left(m)
      PROVE  ~Attends(m)' /\ \A i \in Got(m)' : i < room'[n].msg
  <2>1. /\ room[n].at = "notify" /\ room'[n].msg = room[n].msg
        /\ topic[room[n].msg] = Left(m) /\ Left(m) \in stored
    BY <1>3, <1>5 DEF Left
  <2>2. Departed(m, room[n].msg)
    BY <2>1 DEF LeftAt
  <2>3. QED
    BY <1>4, <2>1, <2>2
<1>6. ASSUME NEW m \in Residents(n), NEW o \in Residents(n), NEW j \in Got(o)',
             topic'[j] = Left(m)
      PROVE  ~Attends(m)' /\ \A i \in Got(m)' : i < j
  <2>1. j \in Got(o) /\ topic[j] = Left(m) /\ Left(m) \in stored
    BY <1>2, <1>6 DEF Left
  <2>2. Departed(m, j)
    BY <2>1 DEF LeftAt
  <2>3. QED
    BY <1>4, <2>1, <2>2
<1>7. QED
  BY <1>1, <1>5, <1>6 DEF LeftAt, Departed, Left

\* A room that starts to distribute a departure has removed the member.
LEMMA ReceiveLeaves ==
    ASSUME TypeOK, ReaderInv, LeftInv, NEW n \in Nodes, Receive(n)
    PROVE  LeftAt(n)'
<1>1. PICK i \in sub[n] : /\ members' = [members EXCEPT ![n] = @ \ Departs(i)]
                          /\ NextNotify(n, i, members'[n])
  BY DEF Receive
<1>2. UNCHANGED <<topic, seen, hand>>
  BY DEF Receive
<1>3. members'[n] = members[n] \ Departs(i)
  BY <1>1 DEF TypeOK
<1>4. Waiting(n)' = members'[n] /\ (room'[n].at = "notify" => room'[n].msg = i)
  <2>1. room \in [Nodes -> RoomState]
    BY DEF TypeOK
  <2>2. QED
    BY ONLY <1>1, <2>1, NextNotifyWaiting, n \in Nodes
<1>5. /\ \A m : Got(m)' = Got(m)
      /\ \A m \in Residents(n) : Home[m] = n /\ m \in Members
      /\ Residents(n)' = Residents(n)
  BY <1>2 DEF Got, Residents
<1>6. ASSUME NEW m \in Residents(n)
      PROVE  /\ Attends(m)' => Attends(m) /\ m \notin Departs(i)
             /\ \A j \in Got(m) : j < i
  BY <1>3, <1>4, <1>5 DEF Attends, ReaderInv, ReaderOK
<1>7. ASSUME NEW m \in Residents(n), topic[i] = Left(m)
      PROVE  ~Attends(m)' /\ \A j \in Got(m) : j < i
  BY <1>6, <1>7 DEF Departs, Left
<1>8. ASSUME NEW m \in Residents(n), NEW o \in Residents(n), NEW j \in Got(o), topic[j] = Left(m)
      PROVE  ~Attends(m)' /\ \A k \in Got(m) : k < j
  BY <1>6, <1>8 DEF LeftInv, LeftAt, Departed
<1>9. QED
  BY <1>2, <1>4, <1>5, <1>7, <1>8 DEF LeftAt, Departed, Left

\* Whom a room notifies takes part, and so has not departed.
LEMMA NotifyLeaves ==
    ASSUME TypeOK, RoomInv, ReaderInv, LeftInv, NEW n \in Nodes, Notify(n)
    PROVE  LeftAt(n)'
<1>1. PICK c \in Members : c = room[n].cur /\ Home[c] = n
  BY NoMemberAssumption DEF Notify, RoomInv, RoomOK, Attending
<1> DEFINE msg == room[n].msg
<1>2. /\ room[n].at = "notify" /\ hand' = [hand EXCEPT ![c] = msg]
      /\ UNCHANGED <<members, seen, topic>>
  BY <1>1 DEF Notify, HandTo
<1>3. Waiting(n)' = room[n].todo /\ (room'[n].at = "notify" => room'[n].msg = msg)
  <2>1. room \in [Nodes -> RoomState] /\ NextNotify(n, msg, room[n].todo)
    BY DEF Notify, TypeOK
  <2>2. QED
    BY ONLY <2>1, NextNotifyWaiting, n \in Nodes
<1>4. /\ \A m \in Residents(n) : Home[m] = n /\ m \in Members
      /\ Residents(n)' = Residents(n) /\ c \in Residents(n)
  BY <1>1 DEF Residents
<1>5. /\ Got(c)' \subseteq Got(c) \cup {msg} /\ Attends(c)
      /\ \A m \in Residents(n) \ {c} : Got(m)' = Got(m)
      /\ \A m \in Residents(n) : Attends(m)' => Attends(m)
  <2>1. Got(c)' \subseteq Got(c) \cup {msg} /\ \A m \in Residents(n) \ {c} : Got(m)' = Got(m)
    BY <1>2, <1>4 DEF Got, TypeOK
  <2>2. Waiting(n) = room[n].todo \cup {c}
    BY <1>1, <1>2 DEF Waiting
  <2>3. QED
    BY <1>1, <1>2, <1>3, <1>4, <2>1, <2>2 DEF Attends
<1>6. ASSUME NEW m \in Residents(n), NEW j, Departed(m, j)
      PROVE  ~Attends(m)' /\ \A i \in Got(m)' : i < j
  BY <1>5, <1>6 DEF Departed
<1>7. ASSUME NEW m \in Residents(n), topic[msg] = Left(m)
      PROVE  ~Attends(m)' /\ \A i \in Got(m)' : i < msg
  <2>1. Departed(m, msg)
    BY <1>2, <1>7 DEF LeftInv, LeftAt
  <2>2. QED
    BY <1>6, <2>1
<1>8. ASSUME NEW m \in Residents(n), NEW o \in Residents(n), NEW j \in Got(o)', topic[j] = Left(m)
      PROVE  ~Attends(m)' /\ \A i \in Got(m)' : i < j
  <2>1. CASE j \in Got(o)
    <3>1. Departed(m, j)
      BY <1>8, <2>1 DEF LeftInv, LeftAt
    <3>2. QED
      BY <1>6, <3>1
  <2>2. CASE j = msg
    BY <1>7, <1>8, <2>2
  <2>3. QED
    BY <1>5, <1>8, <2>1, <2>2
<1>9. QED
  BY <1>2, <1>3, <1>4, <1>7, <1>8 DEF LeftAt, Departed, Left

\* Every step leaves those who departed out of the room.
LEMMA LeftStep ==
    ASSUME TypeOK, StoreInv, RoomInv, ReaderInv, NotifyInv, LeftInv, [Next]_vars
    PROVE  LeftInv'
<1> SUFFICES ASSUME NEW n \in Nodes PROVE LeftAt(n)'
  BY DEF LeftInv
<1>1. LeftAt(n) /\ \A m \in Residents(n) : m \in Members /\ Home[m] = n
  BY DEF LeftInv, Residents
<1>2. CASE /\ room'[n] = room[n] /\ members'[n] = members[n]
           /\ \A m \in Residents(n) : Got(m)' = Got(m)
           /\ \A i \in DOMAIN topic : topic'[i] = topic[i]
  <2>1. \A m \in Residents(n) : Attends(m)' = Attends(m)
    BY <1>1, <1>2 DEF Attends, Waiting
  <2>2. QED
    BY <1>1, <1>2, <2>1, LeftKept
<1>3. CASE UNCHANGED <<room, members, topic, seen, hand>>
  BY <1>2, <1>3 DEF Got
<1>4. ASSUME NEW m \in Members, EndAddMember(m) PROVE LeftAt(n)'
  <2>1. /\ room'[n].at = room[n].at /\ room'[n].msg = room[n].msg
        /\ members'[n] \subseteq members[n] \cup {m}
        /\ Waiting(n)' \subseteq Waiting(n) \cup {m}
        /\ UNCHANGED <<topic, seen, hand>>
    BY <1>4, EndAddMemberRoom
  <2>2. Left(m) \notin stored
    BY <1>4 DEF EndAddMember, StoreInv
  <2>3. \A o \in Residents(n) :
            Got(o)' = Got(o) /\ (Attends(o)' => Attends(o) \/ Left(o) \notin stored)
    BY <1>1, <2>1, <2>2 DEF Attends, Got
  <2>4. QED
    BY <1>1, <2>1, <2>3, LeftKept
<1>5. ASSUME NEW m \in Members, WriteMessage(m) PROVE LeftAt(n)'
  <2>1. UNCHANGED <<room, members, topic>>
    BY <1>5 DEF WriteMessage
  <2>2. \A r \in Members : Got(r)' = Got(r)
    BY <1>5 DEF WriteMessage, TypeOK, Got
  <2>3. QED
    BY <1>1, <1>2, <2>1, <2>2
<1>6. ASSUME NEW m \in Members, SendFailed(m) PROVE LeftAt(n)'
  <2>1. UNCHANGED <<room, members, topic>>
    BY <1>6 DEF SendFailed
  <2>2. \A r \in Members : Got(r)' = Got(r)
    BY <1>6 DEF SendFailed, HandTo, TypeOK, Got, ReaderInv, ReaderOK
  <2>3. QED
    BY <1>1, <1>2, <2>1, <2>2
<1>7. ASSUME UNCHANGED <<room, members, seen, hand>>,
             UNCHANGED topic \/ \E msg \in Message : Accept(msg)
      PROVE  LeftAt(n)'
  <2>1. \A i \in DOMAIN topic : topic'[i] = topic[i]
    BY <1>7, AcceptInTopic
  <2>2. \A m \in Residents(n) : Got(m)' = Got(m)
    BY <1>7 DEF Got
  <2>3. QED
    BY <1>2, <1>7, <2>1, <2>2
<1>8. ASSUME NEW m \in Members,
             PublishJoined(m) \/ PublishChat(m) \/ PublishLeft(m) \/ GiveUp(m)
      PROVE  LeftAt(n)'
  <2>1. /\ UNCHANGED <<room, members, seen, hand>>
        /\ UNCHANGED topic \/ \E msg \in Message : Accept(msg)
    BY <1>8, PublishSteps
  <2>2. QED
    BY <1>7, <2>1
<1>9. ASSUME NEW msg \in gaveUp, ExecuteLate(msg) PROVE LeftAt(n)'
  <2>1. /\ UNCHANGED <<room, members, seen, hand>>
        /\ \E x \in Message : Accept(x)
    BY <1>9, LateExecution
  <2>2. QED
    BY <1>7, <2>1
<1>10. ASSUME NEW m \in Members, SendFailedPanics(m) PROVE LeftAt(n)'
  BY <1>3, <1>10 DEF SendFailedPanics, Die
<1>11. ASSUME NEW o \in Nodes,
              Crash(o) \/ MapFault(o) \/ Subscribe(o) \/ SubscribeFails(o) \/ Evict(o)
       PROVE  LeftAt(n)'
  <2>1. UNCHANGED <<room, members, topic, seen, hand>>
    BY <1>11 DEF Crash, MapFault, Die, Subscribe, SubscribeFails, Evict
  <2>2. QED
    BY <1>3, <2>1
<1>12. ASSUME NEW o \in Nodes, Receive(o) PROVE LeftAt(n)'
  <2>1. CASE o = n
    BY <1>12, <2>1, ReceiveLeaves
  <2>2. CASE o # n
    <3>1. UNCHANGED <<topic, seen, hand>> /\ members'[n] = members[n]
      BY <1>12, <2>2 DEF Receive, TypeOK
    <3>2. room'[n] = room[n]
      BY <1>12, <2>2, NextNotifyWaiting DEF Receive, TypeOK
    <3>3. QED
      BY <1>2, <3>1, <3>2 DEF Got
  <2>3. QED
    BY <2>1, <2>2
<1>13. ASSUME NEW o \in Nodes, Notify(o) PROVE LeftAt(n)'
  <2>1. CASE o = n
    BY <1>13, <2>1, NotifyLeaves
  <2>2. CASE o # n
    <3>1. Home[room[o].cur] = o
      BY <1>13, NoMemberAssumption DEF Notify, RoomInv, RoomOK, Attending
    <3>2. UNCHANGED <<topic, members, seen>> /\ hand' = [hand EXCEPT ![room[o].cur] = room[o].msg]
      BY <1>13 DEF Notify, HandTo
    <3>3. \A r \in Residents(n) : Got(r)' = Got(r)
      BY <1>1, <2>2, <3>1, <3>2 DEF Got, TypeOK
    <3>4. room'[n] = room[n]
      BY <1>13, <2>2, NextNotifyWaiting DEF Notify, TypeOK
    <3>5. QED
      BY <1>2, <3>2, <3>3, <3>4
  <2>3. QED
    BY <2>1, <2>2
<1>14. ASSUME NEW o \in Nodes, NotifyTimeout(o) PROVE LeftAt(n)'
  <2>1. UNCHANGED <<members, topic, seen, hand>>
    BY <1>14 DEF NotifyTimeout
  <2>2. CASE o = n
    <3>1. /\ Waiting(n)' = room[n].todo
          /\ room'[n].at = "notify" => room'[n].msg = room[n].msg
      BY <1>14, <2>2, NextNotifyWaiting DEF NotifyTimeout, TypeOK
    <3>2. room[n].at = "notify" /\ room[n].todo \subseteq Waiting(n)
      BY <1>14, <2>2 DEF NotifyTimeout, Waiting
    <3>3. \A r \in Residents(n) : Got(r)' = Got(r) /\ (Attends(r)' => Attends(r))
      BY <1>1, <2>1, <3>1, <3>2 DEF Got, Attends
    <3>4. QED
      BY <1>1, <2>1, <3>1, <3>2, <3>3, LeftKept
  <2>3. CASE o # n
    <3>1. room'[n] = room[n]
      BY <1>14, <2>3, NextNotifyAt DEF NotifyTimeout, TypeOK
    <3>2. QED
      BY <1>2, <2>1, <3>1 DEF Got
  <2>4. QED
    BY <2>2, <2>3
<1>15. ASSUME NEW o \in Nodes, ReceiveClosed(o) \/ StopMember(o) PROVE LeftAt(n)'
  <2>1. /\ UNCHANGED <<members, topic, seen, hand>> /\ room[o].at # "notify"
        /\ \E rest : NextStop(o, rest)
    BY <1>15 DEF ReceiveClosed, StopMember
  <2>2. room'[o].at # "notify" /\ \A p \in Nodes \ {o} : room'[p] = room[p]
    BY <2>1, NextStopAt DEF TypeOK
  <2>3. CASE o = n
    <3>1. Waiting(n) = {} /\ Waiting(n)' = {}
      BY <2>1, <2>2, <2>3 DEF Waiting
    <3>2. \A r \in Residents(n) : Got(r)' = Got(r) /\ (Attends(r)' => Attends(r))
      BY <1>1, <2>1, <3>1 DEF Got, Attends
    <3>3. QED
      BY <1>1, <2>1, <2>2, <2>3, <3>2, LeftKept
  <2>4. CASE o # n
    BY <1>2, <2>1, <2>2, <2>4 DEF Got
  <2>5. QED
    BY <2>3, <2>4
<1>16. ASSUME NEW m \in Members,
              ServeRoom(m) \/ ListenReady(m) \/ ListenTimeout(m) \/ BroadcastReady(m)
              \/ BroadcastTimeout(m) \/ InsertMember(m) \/ InsertMemberFails(m) \/
              ServeStops(m) \/ BeginAddMember(m) \/ StartBroadcast(m) \/
              ListenClosed(m) \/ Poll(m) \/ ReadError(m) \/ TakeChat(m) \/
              TakeLeft(m) \/ InsertMessage(m) \/ InsertMessageFails(m) \/
              DeleteMember(m) \/ DeleteMemberFails(m) \/ ReadChat(m) \/ Close(m)
       PROVE  LeftAt(n)'
  <2>1. UNCHANGED <<room, members, topic, seen, hand>>
    BY <1>16 DEF ServeRoom, ListenReady, ListenTimeout, BroadcastReady, BroadcastTimeout,
           InsertMember, InsertMemberFails, ServeStops, BeginAddMember,
           StartBroadcast, ListenClosed, Poll, ReadError, TakeChat, TakeLeft,
           InsertMessage, InsertMessageFails, DeleteMember, DeleteMemberFails,
           ReadChat, Close
  <2>2. QED
    BY <1>3, <2>1
<1>17. CASE (\E x \in Deadlines : Expire(x)) \/ UNCHANGED vars
  <2>1. UNCHANGED <<room, members, topic, seen, hand>>
    BY <1>17 DEF Expire, vars
  <2>2. QED
    BY <1>3, <2>1
<1>18. QED
  BY <1>4, <1>5, <1>6, <1>8, <1>9, <1>10, <1>11, <1>12, <1>13, <1>14, <1>15, <1>16, <1>17
  DEF Next, ServeStep, ListenStep, BroadcastStep, PublishStep, SetupStep, RoomStep

\* A member never reads its own departure, and nothing behind it once anybody in its
\* room has: with late attempts, loss, crashes and all other faults.
THEOREM LeaveUnseen == Spec => []NothingAfterLeave
<1>1. Init => LeftInv
  <2> SUFFICES ASSUME Init PROVE LeftInv
    OBVIOUS
  <2>1. \A m \in Members : Got(m) = {}
    BY DEF Init, Got
  <2>2. \A n \in Nodes : room[n].at = "recv"
    BY DEF Init, Idle
  <2>3. QED
    BY <2>1, <2>2 DEF LeftInv, LeftAt, Residents
<1>2. IInv /\ LeftInv /\ [Next]_vars => LeftInv'
  BY LeftStep DEF IInv
<1>3. LeftInv => NothingAfterLeave
  <2> SUFFICES ASSUME LeftInv, NEW m \in Members, NEW o \in Members, Home[m] = Home[o],
                      NEW i \in seen[m], NEW j \in seen[o], topic[j] = Left(m)
               PROVE  i < j
    BY DEF NothingAfterLeave
  <2>1. Home[m] \in Nodes /\ m \in Residents(Home[m]) /\ o \in Residents(Home[m])
    BY HomeAssumption DEF Residents
  <2>2. QED
    BY <2>1 DEF LeftInv, LeftAt, Departed, Got
<1>4. QED
  BY <1>1, <1>2, <1>3, Inductive, PTL DEF Spec
=============================================================================
