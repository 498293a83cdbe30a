-------------------------- MODULE RoomCacheProofs --------------------------
(***************************************************************************)
(* Proofs about RoomCache for any number of calls that race each other,    *)
(* fail and give up.                                                       *)
(***************************************************************************)
EXTENDS RoomCache, TLAPS

USE DEF roomVars, mailVars

\* Before the ID is known, only the creating call is there, and no message.
UnknownInv ==
    /\ ~known => /\ \A c \in Calls \ {Creator} : pc[c] = "idle"
                 /\ pc[Creator] \notin {"fetch", "admit", "created", "served"}
                 /\ \A c \in Calls : pending[c] = {}
                 /\ pc[Creator] \in {"start", "subscribe", "insert"} => cache = Creator
    /\ known => row /\ \A c \in Calls : pc[c] # "insert"

\* What a call has done to its Room object.
ObjectInv ==
    \A c \in Calls :
        /\ pc[c] \in {"idle", "fetch"} => start[c] = "none"
        /\ pc[c] = "start" => start[c] = "ready"
        /\ pc[c] \in {"subscribe", "insert"} => start[c] = "run"
        /\ pc[c] \in {"insert", "created"} => c \in subs
        /\ pc[c] = "created" => start[c] = "run"
        /\ c \in closed => pc[c] \in {"evict", "failed"}
        /\ c \in subs \cap closed => ~known
        /\ c \in subs => pc[c] \notin {"idle", "fetch", "start", "subscribe"}
        /\ start[c] = "over" => c \in closed
        /\ c \notin subs => pending[c] = {}

\* The object in the cache works or its call is still busy with it.
CacheInv ==
    cache # NoRoom =>
        \/ pc[cache] \in Setup
        \/ start[cache] = "run" /\ cache \in subs \ closed

\* From the success of CreateRoom on, every call finds its room cached.
CreatedInv ==
    pc[Creator] = "created" =>
        /\ known /\ cache = Creator
        /\ \A c \in Calls \ {Creator} :
             /\ start[c] = "none" /\ c \notin subs
             /\ pc[c] \in {"idle", "admit", "served", "aborted"}

CachingInv == TypeOK /\ UnknownInv /\ ObjectInv /\ CacheInv /\ CreatedInv

\* A member is in the object its call took, and hears only through an object
\* that is subscribed.
MemberInv ==
    /\ \A c \in Calls : \A m \in members[c] :
        /\ pc[m] = "served" /\ using[m] = c
        /\ c \notin subs => heard[m] = {}
    /\ \A m \in Calls : pc[m] # "served" => heard[m] = {}

\* What is on its way to an object are the last messages published, and adjoins
\* what its members have heard.
TailInv ==
    \A c \in Calls :
        /\ \A i \in pending[c] : i <= sent /\ i .. sent \subseteq pending[c]
        /\ c \notin Deadlines =>
             \A m \in members[c] : \A i \in heard[m] :
                i .. sent \subseteq heard[m] \cup pending[c]

\* No member that has heard anything is in an object that was closed.
NeverCutOff == \A c \in closed : \A m \in members[c] : heard[m] = {}

\* Once a member has heard a message it hears all that follow, in whichever
\* object it is, cached, evicted or replaced: a room that is split among
\* objects tells all its members the same.
HearsOn ==
    \A c \in Calls \ Deadlines : \A m \in members[c] :
        pending[c] = {} => \A i \in heard[m] : i .. sent \subseteq heard[m]

-----------------------------------------------------------------------------
(* Steps.  One lemma per part of the invariant, one step per action.       *)

\* Types are preserved.
LEMMA TypeStep ==
    ASSUME CachingInv, [Next]_vars
    PROVE  TypeOK'
<1> USE CreatorAssumption, MaxMessagesAssumption DEF CachingInv, TypeOK
<1>1. ASSUME NEW c \in Calls, CreateRoom(c) PROVE TypeOK'
  BY <1>1 DEF CreateRoom, NewRoom, Install, Goto, Setup, Messages
<1>2. ASSUME NEW c \in Calls, ServeCached(c) PROVE TypeOK'
  BY <1>2 DEF ServeCached, Goto, Setup, Messages
<1>3. ASSUME NEW c \in Calls, ServeUncached(c) PROVE TypeOK'
  BY <1>3 DEF ServeUncached, Goto, Setup, Messages
<1>4. ASSUME NEW c \in Calls, GetRoom(c) PROVE TypeOK'
  BY <1>4 DEF GetRoom, Install, Goto, Setup, Messages
<1>5. ASSUME NEW c \in Calls, GetRoomFails(c) PROVE TypeOK'
  BY <1>5 DEF GetRoomFails, Goto, Setup, Messages
<1>6. ASSUME NEW c \in Calls, StartReady(c) PROVE TypeOK'
  BY <1>6 DEF StartReady, Goto, Setup, Messages
<1>7. ASSUME NEW c \in Calls, StartTimeout(c) PROVE TypeOK'
  BY <1>7 DEF StartTimeout, Goto, Setup, Messages
<1>8. ASSUME NEW c \in Calls, Subscribe(c) PROVE TypeOK'
  BY <1>8 DEF Subscribe, Goto, Setup, Messages
<1>9. ASSUME NEW c \in Calls, SubscribeFails(c) PROVE TypeOK'
  BY <1>9 DEF SubscribeFails, Goto, Setup, Messages
<1>10. ASSUME NEW c \in Calls, InsertRoom(c) PROVE TypeOK'
  BY <1>10 DEF InsertRoom, Goto, Setup, Messages
<1>11. ASSUME NEW c \in Calls, InsertRoomFails(c) PROVE TypeOK'
  BY <1>11 DEF InsertRoomFails, Goto, Setup, Messages
<1>12. ASSUME NEW c \in Calls, Evict(c) PROVE TypeOK'
  BY <1>12 DEF Evict, Goto, Setup, Messages
<1>13. ASSUME NEW c \in Calls, AddMember(c) PROVE TypeOK'
  BY <1>13 DEF AddMember, Goto, Setup, Messages
<1>14. ASSUME NEW c \in Calls, AdmitFails(c) PROVE TypeOK'
  BY <1>14 DEF AdmitFails, Goto, Setup, Messages
<1>15. ASSUME NEW c \in Calls, RoomStops(c) PROVE TypeOK'
  BY <1>15 DEF RoomStops, Setup, Messages
<1>16. ASSUME NEW c \in Calls, Funnel(c) PROVE TypeOK'
  BY <1>16 DEF Funnel, Setup, Messages
<1>17. CASE QueuePublish
  BY <1>17 DEF QueuePublish, Setup, Messages
<1>18. CASE UNCHANGED vars
  BY <1>18 DEF vars, Setup, Messages
<1>19. QED
  BY <1>1, <1>2, <1>3, <1>4, <1>5, <1>6, <1>7, <1>8, <1>9,
     <1>10, <1>11, <1>12, <1>13, <1>14, <1>15, <1>16, <1>17, <1>18
  DEF Next, Request, ServeRoom, Step

\* Nobody but the creating call is there before the ID is known.
LEMMA UnknownStep ==
    ASSUME CachingInv, [Next]_vars
    PROVE  UnknownInv'
<1> USE CreatorAssumption, MaxMessagesAssumption DEF CachingInv, TypeOK, UnknownInv
<1>1. ASSUME NEW c \in Calls, CreateRoom(c) PROVE UnknownInv'
  BY <1>1 DEF CreateRoom, NewRoom, Install, Goto
<1>2. ASSUME NEW c \in Calls, ServeCached(c) PROVE UnknownInv'
  BY <1>2 DEF ServeCached, Goto
<1>3. ASSUME NEW c \in Calls, ServeUncached(c) PROVE UnknownInv'
  BY <1>3 DEF ServeUncached, Goto
<1>4. ASSUME NEW c \in Calls, GetRoom(c) PROVE UnknownInv'
  BY <1>4 DEF GetRoom, Install, Goto
<1>5. ASSUME NEW c \in Calls, GetRoomFails(c) PROVE UnknownInv'
  BY <1>5 DEF GetRoomFails, Goto
<1>6. ASSUME NEW c \in Calls, StartReady(c) PROVE UnknownInv'
  BY <1>6 DEF StartReady, Goto
<1>7. ASSUME NEW c \in Calls, StartTimeout(c) PROVE UnknownInv'
  BY <1>7 DEF StartTimeout, Goto
<1>8. ASSUME NEW c \in Calls, Subscribe(c) PROVE UnknownInv'
  BY <1>8 DEF Subscribe, Goto
<1>9. ASSUME NEW c \in Calls, SubscribeFails(c) PROVE UnknownInv'
  BY <1>9 DEF SubscribeFails, Goto
<1>10. ASSUME NEW c \in Calls, InsertRoom(c) PROVE UnknownInv'
  BY <1>10 DEF InsertRoom, Goto
<1>11. ASSUME NEW c \in Calls, InsertRoomFails(c) PROVE UnknownInv'
  BY <1>11 DEF InsertRoomFails, Goto
<1>12. ASSUME NEW c \in Calls, Evict(c) PROVE UnknownInv'
  BY <1>12 DEF Evict, Goto
<1>13. ASSUME NEW c \in Calls, AddMember(c) PROVE UnknownInv'
  BY <1>13 DEF AddMember, Goto
<1>14. ASSUME NEW c \in Calls, AdmitFails(c) PROVE UnknownInv'
  BY <1>14 DEF AdmitFails, Goto
<1>15. ASSUME NEW c \in Calls, RoomStops(c) PROVE UnknownInv'
  BY <1>15 DEF RoomStops
<1>16. ASSUME NEW c \in Calls, Funnel(c) PROVE UnknownInv'
  BY <1>16 DEF Funnel
<1>17. CASE QueuePublish
  BY <1>17 DEF QueuePublish
<1>18. CASE UNCHANGED vars
  BY <1>18 DEF vars
<1>19. QED
  BY <1>1, <1>2, <1>3, <1>4, <1>5, <1>6, <1>7, <1>8, <1>9,
     <1>10, <1>11, <1>12, <1>13, <1>14, <1>15, <1>16, <1>17, <1>18
  DEF Next, Request, ServeRoom, Step

\* Calls keep their Room objects in the state their progress says.
LEMMA ObjectStep ==
    ASSUME CachingInv, [Next]_vars
    PROVE  ObjectInv'
<1> USE CreatorAssumption, MaxMessagesAssumption DEF CachingInv, TypeOK, UnknownInv, ObjectInv
<1>1. ASSUME NEW c \in Calls, CreateRoom(c) PROVE ObjectInv'
  BY <1>1 DEF CreateRoom, NewRoom, Install, Goto
<1>2. ASSUME NEW c \in Calls, ServeCached(c) PROVE ObjectInv'
  BY <1>2 DEF ServeCached, Goto
<1>3. ASSUME NEW c \in Calls, ServeUncached(c) PROVE ObjectInv'
  BY <1>3 DEF ServeUncached, Goto
<1>4. ASSUME NEW c \in Calls, GetRoom(c) PROVE ObjectInv'
  BY <1>4 DEF GetRoom, Install, Goto
<1>5. ASSUME NEW c \in Calls, GetRoomFails(c) PROVE ObjectInv'
  BY <1>5 DEF GetRoomFails, Goto
<1>6. ASSUME NEW c \in Calls, StartReady(c) PROVE ObjectInv'
  BY <1>6 DEF StartReady, Goto
<1>7. ASSUME NEW c \in Calls, StartTimeout(c) PROVE ObjectInv'
  BY <1>7 DEF StartTimeout, Goto
<1>8. ASSUME NEW c \in Calls, Subscribe(c) PROVE ObjectInv'
  BY <1>8 DEF Subscribe, Goto
<1>9. ASSUME NEW c \in Calls, SubscribeFails(c) PROVE ObjectInv'
  BY <1>9 DEF SubscribeFails, Goto
<1>10. ASSUME NEW c \in Calls, InsertRoom(c) PROVE ObjectInv'
  BY <1>10 DEF InsertRoom, Goto
<1>11. ASSUME NEW c \in Calls, InsertRoomFails(c) PROVE ObjectInv'
  BY <1>11 DEF InsertRoomFails, Goto
<1>12. ASSUME NEW c \in Calls, Evict(c) PROVE ObjectInv'
  BY <1>12 DEF Evict, Goto
<1>13. ASSUME NEW c \in Calls, AddMember(c) PROVE ObjectInv'
  BY <1>13 DEF AddMember, Goto
<1>14. ASSUME NEW c \in Calls, AdmitFails(c) PROVE ObjectInv'
  BY <1>14 DEF AdmitFails, Goto
<1>15. ASSUME NEW c \in Calls, RoomStops(c) PROVE ObjectInv'
  BY <1>15 DEF RoomStops
<1>16. ASSUME NEW c \in Calls, Funnel(c) PROVE ObjectInv'
  BY <1>16 DEF Funnel
<1>17. CASE QueuePublish
  BY <1>17 DEF QueuePublish
<1>18. CASE UNCHANGED vars
  BY <1>18 DEF vars
<1>19. QED
  BY <1>1, <1>2, <1>3, <1>4, <1>5, <1>6, <1>7, <1>8, <1>9,
     <1>10, <1>11, <1>12, <1>13, <1>14, <1>15, <1>16, <1>17, <1>18
  DEF Next, Request, ServeRoom, Step

\* What is cached works, or a call is busy with it.
LEMMA CacheStep ==
    ASSUME CachingInv, [Next]_vars
    PROVE  CacheInv'
<1> USE CreatorAssumption, MaxMessagesAssumption DEF CachingInv, TypeOK, ObjectInv, CacheInv
<1>1. ASSUME NEW c \in Calls, CreateRoom(c) PROVE CacheInv'
  BY <1>1 DEF CreateRoom, NewRoom, Install, Goto, Setup
<1>2. ASSUME NEW c \in Calls, ServeCached(c) PROVE CacheInv'
  BY <1>2 DEF ServeCached, Goto, Setup
<1>3. ASSUME NEW c \in Calls, ServeUncached(c) PROVE CacheInv'
  BY <1>3 DEF ServeUncached, Goto, Setup
<1>4. ASSUME NEW c \in Calls, GetRoom(c) PROVE CacheInv'
  BY <1>4 DEF GetRoom, Install, Goto, Setup
<1>5. ASSUME NEW c \in Calls, GetRoomFails(c) PROVE CacheInv'
  BY <1>5 DEF GetRoomFails, Goto, Setup
<1>6. ASSUME NEW c \in Calls, StartReady(c) PROVE CacheInv'
  BY <1>6 DEF StartReady, Goto, Setup
<1>7. ASSUME NEW c \in Calls, StartTimeout(c) PROVE CacheInv'
  BY <1>7 DEF StartTimeout, Goto, Setup
<1>8. ASSUME NEW c \in Calls, Subscribe(c) PROVE CacheInv'
  BY <1>8 DEF Subscribe, Goto, Setup
<1>9. ASSUME NEW c \in Calls, SubscribeFails(c) PROVE CacheInv'
  BY <1>9 DEF SubscribeFails, Goto, Setup
<1>10. ASSUME NEW c \in Calls, InsertRoom(c) PROVE CacheInv'
  BY <1>10 DEF InsertRoom, Goto, Setup
<1>11. ASSUME NEW c \in Calls, InsertRoomFails(c) PROVE CacheInv'
  BY <1>11 DEF InsertRoomFails, Goto, Setup
<1>12. ASSUME NEW c \in Calls, Evict(c) PROVE CacheInv'
  BY <1>12 DEF Evict, Goto, Setup
<1>13. ASSUME NEW c \in Calls, AddMember(c) PROVE CacheInv'
  BY <1>13 DEF AddMember, Goto, Setup
<1>14. ASSUME NEW c \in Calls, AdmitFails(c) PROVE CacheInv'
  BY <1>14 DEF AdmitFails, Goto, Setup
<1>15. ASSUME NEW c \in Calls, RoomStops(c) PROVE CacheInv'
  BY <1>15 DEF RoomStops, Setup
<1>16. ASSUME NEW c \in Calls, Funnel(c) PROVE CacheInv'
  BY <1>16 DEF Funnel, Setup
<1>17. CASE QueuePublish
  BY <1>17 DEF QueuePublish, Setup
<1>18. CASE UNCHANGED vars
  BY <1>18 DEF vars, Setup
<1>19. QED
  BY <1>1, <1>2, <1>3, <1>4, <1>5, <1>6, <1>7, <1>8, <1>9,
     <1>10, <1>11, <1>12, <1>13, <1>14, <1>15, <1>16, <1>17, <1>18
  DEF Next, Request, ServeRoom, Step

\* A created room stays the only one.
LEMMA CreatedStep ==
    ASSUME CachingInv, [Next]_vars
    PROVE  CreatedInv'
<1> USE CreatorAssumption, MaxMessagesAssumption DEF CachingInv, TypeOK, UnknownInv, ObjectInv, CreatedInv
<1>1. ASSUME NEW c \in Calls, CreateRoom(c) PROVE CreatedInv'
  BY <1>1 DEF CreateRoom, NewRoom, Install, Goto
<1>2. ASSUME NEW c \in Calls, ServeCached(c) PROVE CreatedInv'
  BY <1>2 DEF ServeCached, Goto
<1>3. ASSUME NEW c \in Calls, ServeUncached(c) PROVE CreatedInv'
  BY <1>3 DEF ServeUncached, Goto
<1>4. ASSUME NEW c \in Calls, GetRoom(c) PROVE CreatedInv'
  BY <1>4 DEF GetRoom, Install, Goto
<1>5. ASSUME NEW c \in Calls, GetRoomFails(c) PROVE CreatedInv'
  BY <1>5 DEF GetRoomFails, Goto
<1>6. ASSUME NEW c \in Calls, StartReady(c) PROVE CreatedInv'
  BY <1>6 DEF StartReady, Goto
<1>7. ASSUME NEW c \in Calls, StartTimeout(c) PROVE CreatedInv'
  BY <1>7 DEF StartTimeout, Goto
<1>8. ASSUME NEW c \in Calls, Subscribe(c) PROVE CreatedInv'
  BY <1>8 DEF Subscribe, Goto
<1>9. ASSUME NEW c \in Calls, SubscribeFails(c) PROVE CreatedInv'
  BY <1>9 DEF SubscribeFails, Goto
<1>10. ASSUME NEW c \in Calls, InsertRoom(c) PROVE CreatedInv'
  BY <1>10 DEF InsertRoom, Goto
<1>11. ASSUME NEW c \in Calls, InsertRoomFails(c) PROVE CreatedInv'
  BY <1>11 DEF InsertRoomFails, Goto
<1>12. ASSUME NEW c \in Calls, Evict(c) PROVE CreatedInv'
  BY <1>12 DEF Evict, Goto
<1>13. ASSUME NEW c \in Calls, AddMember(c) PROVE CreatedInv'
  BY <1>13 DEF AddMember, Goto
<1>14. ASSUME NEW c \in Calls, AdmitFails(c) PROVE CreatedInv'
  BY <1>14 DEF AdmitFails, Goto
<1>15. ASSUME NEW c \in Calls, RoomStops(c) PROVE CreatedInv'
  BY <1>15 DEF RoomStops
<1>16. ASSUME NEW c \in Calls, Funnel(c) PROVE CreatedInv'
  BY <1>16 DEF Funnel
<1>17. CASE QueuePublish
  BY <1>17 DEF QueuePublish
<1>18. CASE UNCHANGED vars
  BY <1>18 DEF vars
<1>19. QED
  BY <1>1, <1>2, <1>3, <1>4, <1>5, <1>6, <1>7, <1>8, <1>9,
     <1>10, <1>11, <1>12, <1>13, <1>14, <1>15, <1>16, <1>17, <1>18
  DEF Next, Request, ServeRoom, Step

-----------------------------------------------------------------------------
(* Theorems                                                                *)

\* The inductive invariant holds throughout.
THEOREM CachingInductive == Spec => []CachingInv
<1>1. Init => CachingInv
  BY CreatorAssumption, MaxMessagesAssumption
  DEF Init, CachingInv, TypeOK, UnknownInv, ObjectInv, CacheInv, CreatedInv, Setup, Messages
<1>2. CachingInv /\ [Next]_vars => CachingInv'
  BY TypeStep, UnknownStep, ObjectStep, CacheStep, CreatedStep DEF CachingInv
<1>3. QED
  BY <1>1, <1>2, PTL DEF Spec

\* Every variable keeps its type.
THEOREM CachingTypeCorrect == Spec => []TypeOK
<1>1. CachingInv => TypeOK
  BY DEF CachingInv
<1>2. QED
  BY <1>1, CachingInductive, PTL

\* OneRoomWhereCreated: an instance on which CreateRoom succeeded has one Room
\* object, with one subscription, for that room for ever after, however its
\* calls race and fail.
THEOREM OneRoom == Spec => []OneRoomWhereCreated
<1>1. CachingInv => OneRoomWhereCreated
  BY CreatorAssumption DEF CachingInv, TypeOK, ObjectInv, CreatedInv, OneRoomWhereCreated
<1>2. QED
  BY <1>1, CachingInductive, PTL

\* CachedWorks: when no call is busy getting a room ready or taking it back,
\* the cached one runs, is open and is subscribed.
THEOREM CachedRoomWorks == Spec => []CachedWorks
<1>1. CachingInv => CachedWorks
  BY DEF CachingInv, TypeOK, CacheInv, CachedWorks
<1>2. QED
  BY <1>1, CachingInductive, PTL

\* NoSendOnClosedRoom: no message comes to a funnel whose room is closed.
THEOREM FunnelsDoNotPanic == Spec => []NoSendOnClosedRoom
<1>1. CachingInv => NoSendOnClosedRoom
  BY DEF CachingInv, TypeOK, UnknownInv, ObjectInv, NoSendOnClosedRoom
<1>2. QED
  BY <1>1, CachingInductive, PTL

-----------------------------------------------------------------------------
(* What members hear                                                       *)

\* A call that is not served yet may move on without anybody's membership.
LEMMA MemberKept ==
    ASSUME TypeOK, MemberInv, UNCHANGED <<members, heard>>, subs \subseteq subs',
           \A c \in Calls : pc[c] = "served" => pc'[c] = "served" /\ using'[c] = using[c]
    PROVE  MemberInv'
BY DEF TypeOK, MemberInv

\* Every step leaves members where they are.
LEMMA MemberStep ==
    ASSUME TypeOK, ObjectInv, MemberInv, [Next]_vars
    PROVE  MemberInv'
<1>0. DOMAIN pc = Calls /\ DOMAIN using = Calls
  BY DEF TypeOK
<1>1. ASSUME NEW c \in Calls, CreateRoom(c) PROVE MemberInv'
  BY <1>0, <1>1, MemberKept DEF CreateRoom, NewRoom, Goto, Install
<1>2. ASSUME NEW c \in Calls, ServeCached(c) PROVE MemberInv'
  BY <1>0, <1>2, MemberKept DEF ServeCached, Goto
<1>3. ASSUME NEW c \in Calls, ServeUncached(c) PROVE MemberInv'
  BY <1>0, <1>3, MemberKept DEF ServeUncached, Goto
<1>4. ASSUME NEW c \in Calls, GetRoom(c) PROVE MemberInv'
  BY <1>0, <1>4, MemberKept DEF GetRoom, Goto, Install
<1>5. ASSUME NEW c \in Calls, GetRoomFails(c) PROVE MemberInv'
  BY <1>0, <1>5, MemberKept DEF GetRoomFails, Goto
<1>6. ASSUME NEW c \in Calls, StartReady(c) PROVE MemberInv'
  BY <1>0, <1>6, MemberKept DEF StartReady, Goto
<1>7. ASSUME NEW c \in Calls, StartTimeout(c) PROVE MemberInv'
  BY <1>0, <1>7, MemberKept DEF StartTimeout, Goto
<1>8. ASSUME NEW c \in Calls, Subscribe(c) PROVE MemberInv'
  BY <1>0, <1>8, MemberKept DEF Subscribe, Goto
<1>9. ASSUME NEW c \in Calls, SubscribeFails(c) PROVE MemberInv'
  BY <1>0, <1>9, MemberKept DEF SubscribeFails, Goto
<1>10. ASSUME NEW c \in Calls, InsertRoom(c) PROVE MemberInv'
  BY <1>0, <1>10, MemberKept DEF InsertRoom, Goto
<1>11. ASSUME NEW c \in Calls, InsertRoomFails(c) PROVE MemberInv'
  BY <1>0, <1>11, MemberKept DEF InsertRoomFails, Goto
<1>12. ASSUME NEW c \in Calls, Evict(c) PROVE MemberInv'
  BY <1>0, <1>12, MemberKept DEF Evict, Goto
<1>13. ASSUME NEW c \in Calls, AdmitFails(c) PROVE MemberInv'
  BY <1>0, <1>13, MemberKept DEF AdmitFails, Goto
<1>14. ASSUME NEW c \in Calls, AddMember(c) PROVE MemberInv'
  <2>1. pc[c] = "admit" /\ using[c] \in Calls /\ heard[c] = {}
    BY <1>14 DEF AddMember, Goto, TypeOK, MemberInv
  <2>2. /\ pc' = [pc EXCEPT ![c] = "served"]
        /\ members' = [members EXCEPT ![using[c]] = @ \cup {c}]
        /\ UNCHANGED <<using, subs, heard>>
    BY <1>14 DEF AddMember, Goto
  <2>3. \A o \in Calls : \A m \in members'[o] : m \in members[o] \/ (m = c /\ o = using[c])
    BY <2>1, <2>2 DEF TypeOK
  <2>4. \A o \in Calls : members'[o] \subseteq Calls
    BY <2>3 DEF TypeOK
  <2>5. QED
    BY <1>0, <2>1, <2>2, <2>3, <2>4 DEF MemberInv
<1>15. ASSUME NEW c \in Calls, Funnel(c) PROVE MemberInv'
  <2>1. c \in subs /\ UNCHANGED <<pc, using, subs, members>>
    BY <1>15 DEF Funnel, ObjectInv
  <2>2. \A m \in Calls : m \notin members[c] => heard'[m] = heard[m]
    BY <1>15 DEF Funnel, TypeOK
  <2>3. \A o \in Calls \ {c} : \A m \in members[o] : m \in Calls /\ m \notin members[c]
    BY DEF MemberInv, TypeOK
  <2>4. \A m \in members[c] : pc[m] = "served"
    BY DEF MemberInv
  <2>5. QED
    BY <2>1, <2>2, <2>3, <2>4 DEF MemberInv
<1>16. ASSUME NEW c \in Calls, RoomStops(c) PROVE MemberInv'
  BY <1>16, MemberKept DEF RoomStops
<1>17. CASE QueuePublish \/ UNCHANGED vars
  BY <1>17, MemberKept DEF QueuePublish, vars
<1>18. QED
  BY <1>1, <1>2, <1>3, <1>4, <1>5, <1>6, <1>7, <1>8, <1>9, <1>10, <1>11,
     <1>12, <1>13, <1>14, <1>15, <1>16, <1>17
  DEF Next, Request, ServeRoom, Step

\* Tails stay as long as no message is published and nobody hears or comes.
LEMMA TailKept ==
    ASSUME TailInv, UNCHANGED <<pending, sent, heard, members>>
    PROVE  TailInv'
BY DEF TailInv

\* Every step keeps what is on its way next to what was heard.
LEMMA TailStep ==
    ASSUME TypeOK, ObjectInv, MemberInv, TailInv, [Next]_vars
    PROVE  TailInv'
<1>1. ASSUME NEW c \in Calls, AddMember(c) PROVE TailInv'
  <2>1. using[c] \in Calls /\ heard[c] = {}
    BY <1>1 DEF AddMember, Goto, TypeOK, MemberInv
  <2>2. /\ members' = [members EXCEPT ![using[c]] = @ \cup {c}]
        /\ UNCHANGED <<pending, sent, heard>>
    BY <1>1 DEF AddMember
  <2>3. \A o \in Calls : \A m \in members'[o] : m \in members[o] \/ heard[m] = {}
    BY <2>1, <2>2 DEF TypeOK
  <2>4. QED
    BY <2>2, <2>3 DEF TailInv
<1>2. ASSUME NEW c \in Calls, Funnel(c) PROVE TailInv'
  <2>1. PICK i \in pending[c] :
          /\ \A j \in pending[c] : i <= j
          /\ pending' = [pending EXCEPT ![c] = @ \ {i}]
          /\ \E notified \in SUBSET members[c] :
               /\ c \in Deadlines \/ notified = members[c]
               /\ heard' = [m \in Calls |->
                              IF m \in notified THEN heard[m] \cup {i} ELSE heard[m]]
    BY <1>2 DEF Funnel
  <2>2. UNCHANGED <<sent, members>>
    BY <1>2 DEF Funnel
  <2>3. /\ pending \in [Calls -> SUBSET Nat] /\ members \in [Calls -> SUBSET Calls]
        /\ sent \in Nat /\ heard \in [Calls -> SUBSET Nat] /\ i \in Nat
    BY MaxMessagesAssumption DEF TypeOK, Messages
  <2>4. i .. sent \subseteq pending[c] /\ i <= sent
    BY DEF TailInv
  <2>5. ASSUME NEW o \in Calls, NEW j \in pending'[o]
        PROVE  j <= sent /\ j .. sent \subseteq pending'[o]
    <3>1. j \in pending[o] /\ (o = c => i < j)
      BY <2>1, <2>3
    <3>2. j <= sent /\ j .. sent \subseteq pending[o]
      BY <3>1 DEF TailInv
    <3>3. j \in Nat
      BY <2>3, <3>1
    <3>4. QED
      BY <2>1, <2>3, <3>1, <3>2, <3>3
  <2>6. ASSUME NEW o \in Calls \ {c}, NEW m \in members[o]
        PROVE  heard'[m] = heard[m] /\ pending'[o] = pending[o]
    <3>1. m \in Calls /\ m \notin members[c]
      BY <2>3 DEF MemberInv
    <3>2. QED
      BY <2>1, <2>3, <3>1
  <2>7. ASSUME c \notin Deadlines, NEW m \in members[c], NEW j \in heard'[m]
        PROVE  j .. sent \subseteq heard'[m] \cup pending'[c]
    <3>1. heard'[m] = heard[m] \cup {i} /\ pending'[c] = pending[c] \ {i}
      BY <2>1, <2>3, <2>7
    <3>2. CASE j \in heard[m]
      BY <2>7, <3>1, <3>2 DEF TailInv
    <3>3. CASE j = i
      BY <2>4, <3>1, <3>3
    <3>4. QED
      BY <2>7, <3>1, <3>2, <3>3
  <2>8. QED
    BY <2>2, <2>5, <2>6, <2>7 DEF TailInv
<1>3. CASE QueuePublish
  <2>1. /\ sent' = sent + 1 /\ UNCHANGED <<members, heard, subs>>
        /\ pending' = [c \in Calls |->
                         IF c \in subs THEN pending[c] \cup {sent'} ELSE pending[c]]
    BY <1>3 DEF QueuePublish
  <2>2. /\ pending \in [Calls -> SUBSET Nat] /\ sent \in Nat /\ heard \in [Calls -> SUBSET Nat]
        /\ \A c \in Calls : members[c] \subseteq Calls
    BY MaxMessagesAssumption DEF TypeOK, Messages
  <2>3. ASSUME NEW c \in Calls, NEW i \in pending'[c]
        PROVE  i <= sent' /\ i .. sent' \subseteq pending'[c]
    <3>1. CASE c \in subs
      <4>1. pending'[c] = pending[c] \cup {sent + 1}
        BY <2>1, <3>1
      <4>2. i \in pending[c] => i <= sent /\ i .. sent \subseteq pending[c]
        BY DEF TailInv
      <4>3. i \in Nat
        BY <2>2, <2>3, <4>1
      <4>4. QED
        BY <2>1, <2>2, <2>3, <4>1, <4>2, <4>3
    <3>2. CASE c \notin subs
      BY <2>1, <2>3, <3>2 DEF ObjectInv
    <3>3. QED
      BY <3>1, <3>2
  <2>4. ASSUME NEW c \in Calls \ Deadlines, NEW m \in members[c], NEW i \in heard[m]
        PROVE  i .. sent' \subseteq heard[m] \cup pending'[c]
    <3>1. c \in subs
      BY DEF MemberInv
    <3>2. pending'[c] = pending[c] \cup {sent + 1}
      BY <2>1, <3>1
    <3>3. i .. sent \subseteq heard[m] \cup pending[c] /\ i \in Nat
      BY <2>2 DEF TailInv
    <3>4. QED
      BY <2>1, <2>2, <3>2, <3>3
  <2>5. QED
    BY <2>1, <2>3, <2>4 DEF TailInv
<1>4. ASSUME NEW c \in Calls, CreateRoom(c) \/ ServeCached(c) \/ ServeUncached(c)
             \/ GetRoom(c) \/ GetRoomFails(c) \/ StartReady(c) \/ StartTimeout(c)
             \/ Subscribe(c) \/ SubscribeFails(c) \/ InsertRoom(c) \/ InsertRoomFails(c)
             \/ Evict(c) \/ AdmitFails(c) \/ RoomStops(c)
      PROVE  UNCHANGED <<pending, sent, heard, members>>
  BY <1>4 DEF CreateRoom, NewRoom, ServeCached, ServeUncached, GetRoom, GetRoomFails, StartReady,
         StartTimeout, Subscribe, SubscribeFails, InsertRoom, InsertRoomFails, Evict,
         AdmitFails, RoomStops
<1>5. CASE UNCHANGED vars
  BY <1>5, TailKept DEF vars
<1>6. QED
  BY <1>1, <1>2, <1>3, <1>4, <1>5, TailKept DEF Next, Request, ServeRoom, Step

\* Who hears what, in every reachable state.
THEOREM HearingInductive == Spec => [](MemberInv /\ TailInv)
<1>1. Init => MemberInv /\ TailInv
  BY DEF Init, MemberInv, TailInv
<1>2. CachingInv /\ MemberInv /\ TailInv /\ [Next]_vars => (MemberInv /\ TailInv)'
  BY MemberStep, TailStep DEF CachingInv
<1>3. QED
  BY <1>1, <1>2, CachingInductive, PTL DEF Spec

\* A Room object fails before its members have heard anything, or not at all.
THEOREM NobodyIsCutOff == Spec => []NeverCutOff
<1>1. CachingInv /\ MemberInv => NeverCutOff
  <2> SUFFICES ASSUME CachingInv, MemberInv, NEW c \in closed, NEW m \in members[c]
               PROVE  heard[m] = {}
    BY DEF NeverCutOff
  <2>1. c \in Calls /\ m \in Calls /\ pc[m] = "served"
    BY DEF CachingInv, TypeOK, MemberInv
  <2>2. known
    BY <2>1 DEF CachingInv, UnknownInv
  <2>3. c \notin subs
    BY <2>1, <2>2 DEF CachingInv, ObjectInv
  <2>4. QED
    BY <2>1, <2>3 DEF MemberInv
<1>2. QED
  BY <1>1, CachingInductive, HearingInductive, PTL

\* Evictions and second Room objects cost a member no message once it has
\* heard one: the safety half of HeardByMembers.
THEOREM SplitRoomsHearOn == Spec => []HearsOn
<1>1. MemberInv /\ TailInv => HearsOn
  BY DEF TailInv, HearsOn
<1>2. QED
  BY <1>1, HearingInductive, PTL
=============================================================================
