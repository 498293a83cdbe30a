----------------------------- MODULE RoomCache -----------------------------
(***************************************************************************)
(* The Room objects that one Controller makes for one room: the cache, the *)
(* calls of CreateRoom and ServeRoom that fill and evict it, and what      *)
(* reaches the members of each object.                                     *)
(*                                                                         *)
(* Every call makes at most one Room object, which goes by the call's      *)
(* name.  The locks of the cache make each access to it one step; nothing  *)
(* keeps two accesses together.                                            *)
(***************************************************************************)
EXTENDS Integers

CONSTANTS
    Calls,        \* calls of CreateRoom and ServeRoom
    Creator,      \* the one that may be CreateRoom
    NoRoom,       \* no entry in the cache, no room chosen
    MaxMessages,  \* bound: messages published to the room
    Deadlines     \* calls whose context may expire

ASSUME CreatorAssumption == Creator \in Calls /\ NoRoom \notin Calls
ASSUME MaxMessagesAssumption == MaxMessages \in Nat

Messages == 1 .. MaxMessages

\* A call that is getting a room ready, or taking back one that is not.
Setup == {"start", "subscribe", "insert", "evict"}

VARIABLES
    known,    \* the room's ID has been given to a client
    row,      \* the room is in the table rooms
    cache,    \* roomCache[roomID]
    pc,       \* where each call is
    using,    \* the Room object the member of a call goes to
    start,    \* Room.Start of each object
    closed,   \* objects whose inbound is closed
    subs,     \* objects with a subscription and its two funnel goroutines
    pending,  \* messages on their way to an object's inbound
    members,  \* Room.members of each object, by their calls
    sent,     \* messages published
    heard     \* messages handed to the member of each call

roomVars == <<start, closed, subs, members>>
mailVars == <<pending, sent, heard>>
vars == <<known, row, cache, pc, using, roomVars, mailVars>>

\* The room is new, or was created on another instance.
Init ==
    /\ known \in BOOLEAN /\ row = known
    /\ cache = NoRoom
    /\ pc = [c \in Calls |-> "idle"]
    /\ using = [c \in Calls |-> NoRoom]
    /\ start = [c \in Calls |-> "none"]
    /\ closed = {} /\ subs = {}
    /\ pending = [c \in Calls |-> {}]
    /\ members = [c \in Calls |-> {}]
    /\ sent = 0
    /\ heard = [c \in Calls |-> {}]

Goto(c, from, to) == pc[c] = from /\ pc' = [pc EXCEPT ![c] = to]

-----------------------------------------------------------------------------
(* Getting hold of a Room object                                           *)

\* Mutants: the new room is not started; it is started but not cached.
InstallOnly(c) == cache' = c /\ UNCHANGED start
InstallUncached(c) ==
    /\ UNCHANGED cache
    /\ start' = [start EXCEPT ![c] = "ready"]

\* addRoomToCache, and go room.Start, which waits at room.ready.
Install(c) ==
    /\ cache' = c
    /\ start' = [start EXCEPT ![c] = "ready"]

\* NewRoom draws an ID that no other room has: a hash salted with the time.
NewRoom(c) == c = Creator /\ ~known

CreateRoom(c) ==
    /\ NewRoom(c)
    /\ Goto(c, "idle", "start")
    /\ Install(c)
    /\ UNCHANGED <<known, row, using, closed, subs, members, mailVars>>

\* Mutant: a missing entry is taken for a room.
ServeUnchecked(c) ==
    /\ known
    /\ Goto(c, "idle", "admit")
    /\ using' = [using EXCEPT ![c] = cache]
    /\ UNCHANGED <<known, row, cache, roomVars, mailVars>>

\* getRoomFromCache: what is there is taken as it is.
ServeCached(c) ==
    /\ known /\ cache # NoRoom
    /\ Goto(c, "idle", "admit")
    /\ using' = [using EXCEPT ![c] = cache]
    /\ UNCHANGED <<known, row, cache, roomVars, mailVars>>

ServeUncached(c) ==
    /\ known /\ cache = NoRoom
    /\ Goto(c, "idle", "fetch")
    /\ UNCHANGED <<known, row, cache, using, roomVars, mailVars>>

\* The repository returns an object of its own, with channels and a map that
\* nobody else has.  By now another call may have filled the cache.
GetRoom(c) ==
    /\ row
    /\ Goto(c, "fetch", "start")
    /\ Install(c)
    /\ UNCHANGED <<known, row, using, closed, subs, members, mailVars>>

GetRoomFails(c) ==
    /\ Goto(c, "fetch", "failed")
    /\ UNCHANGED <<known, row, cache, using, roomVars, mailVars>>

-----------------------------------------------------------------------------
(* startRoom, Subscribe, InsertRoom                                        *)

StartReady(c) ==
    /\ start[c] = "ready"
    /\ Goto(c, "start", "subscribe")
    /\ start' = [start EXCEPT ![c] = "run"]
    /\ UNCHANGED <<known, row, cache, using, closed, subs, members, mailVars>>

\* Room.Start stays at room.ready for good.
StartTimeout(c) ==
    /\ c \in Deadlines
    /\ Goto(c, "start", "evict")
    /\ closed' = closed \cup {c}
    /\ UNCHANGED <<known, row, cache, using, start, subs, members, mailVars>>

\* CreateRoom goes on to InsertRoom, ServeRoom to its member; the ID is known
\* during the latter only.
Subscribe(c) ==
    /\ \/ /\ ~known
          /\ Goto(c, "subscribe", "insert")
          /\ UNCHANGED using
       \/ /\ known
          /\ Goto(c, "subscribe", "admit")
          /\ using' = [using EXCEPT ![c] = c]
    /\ subs' = subs \cup {c}
    /\ UNCHANGED <<known, row, cache, start, closed, members, mailVars>>

\* Mutants: a failed call keeps its subscription; it leaves the room cached.
SubscribeFailsHalfway(c) ==
    /\ Goto(c, "subscribe", "evict")
    /\ closed' = closed \cup {c}
    /\ subs' = subs \cup {c}
    /\ UNCHANGED <<known, row, cache, using, start, members, mailVars>>
SubscribeFailsCached(c) ==
    /\ Goto(c, "subscribe", "failed")
    /\ closed' = closed \cup {c}
    /\ UNCHANGED <<known, row, cache, using, start, subs, members, mailVars>>

SubscribeFails(c) ==
    /\ Goto(c, "subscribe", "evict")
    /\ closed' = closed \cup {c}
    /\ UNCHANGED <<known, row, cache, using, start, subs, members, mailVars>>

InsertRoom(c) ==
    /\ Goto(c, "insert", "created")
    /\ row' = TRUE /\ known' = TRUE
    /\ UNCHANGED <<cache, using, roomVars, mailVars>>

\* Nobody learns the ID, even if the insert was committed.
InsertRoomFails(c) ==
    /\ Goto(c, "insert", "evict")
    /\ row' \in {row, TRUE}
    /\ closed' = closed \cup {c}
    /\ UNCHANGED <<known, cache, using, start, subs, members, mailVars>>

\* Mutant: the room that is evicted is closed.
EvictCloses(c) ==
    /\ Goto(c, "evict", "failed")
    /\ cache' = NoRoom
    /\ closed' = closed \cup ({cache} \ {NoRoom})
    /\ UNCHANGED <<known, row, using, start, subs, members, mailVars>>

\* deleteRoomFromCache, whichever object is there.
Evict(c) ==
    /\ Goto(c, "evict", "failed")
    /\ cache' = NoRoom
    /\ UNCHANGED <<known, row, using, roomVars, mailVars>>

-----------------------------------------------------------------------------
(* Members and messages                                                    *)

AddMember(c) ==
    /\ Goto(c, "admit", "served")
    /\ members' = [members EXCEPT ![using[c]] = @ \cup {c}]
    /\ UNCHANGED <<known, row, cache, using, start, closed, subs, mailVars>>

\* The member's handshakes or InsertMember fail.
AdmitFails(c) ==
    /\ Goto(c, "admit", "aborted")
    /\ UNCHANGED <<known, row, cache, using, roomVars, mailVars>>

\* Room.Start finds inbound closed and stops the members it has.
RoomStops(c) ==
    /\ start[c] = "run" /\ c \in closed
    /\ start' = [start EXCEPT ![c] = "over"]
    /\ UNCHANGED <<known, row, cache, pc, using, closed, subs, members, mailVars>>

\* Anyone who knows the room, on any instance, publishes a message.
QueuePublish ==
    /\ known /\ sent < MaxMessages
    /\ sent' = sent + 1
    /\ pending' = [c \in Calls |->
                     IF c \in subs THEN pending[c] \cup {sent'} ELSE pending[c]]
    /\ UNCHANGED <<known, row, cache, pc, using, roomVars, heard>>

\* The funnel hands its first message to Room.Start, which notifies members,
\* but skips some if its context, that of the call that made it, is done.
Funnel(c) ==
    /\ start[c] = "run" /\ c \notin closed
    /\ \E i \in pending[c] :
         /\ \A j \in pending[c] : i <= j
         /\ pending' = [pending EXCEPT ![c] = @ \ {i}]
         /\ \E notified \in SUBSET members[c] :
              /\ c \in Deadlines \/ notified = members[c]
              /\ heard' = [m \in Calls |->
                             IF m \in notified THEN heard[m] \cup {i} ELSE heard[m]]
    /\ UNCHANGED <<known, row, cache, pc, using, roomVars, sent>>

-----------------------------------------------------------------------------
\* What the server does for a client, under a context that never ends.
ServeRoom(c) == ServeCached(c) \/ ServeUncached(c)
Request(c) == CreateRoom(c) \/ ServeRoom(c)

Step(c) ==
    \/ GetRoom(c) \/ GetRoomFails(c)
    \/ StartReady(c) \/ StartTimeout(c)
    \/ Subscribe(c) \/ SubscribeFails(c)
    \/ InsertRoom(c) \/ InsertRoomFails(c)
    \/ Evict(c)
    \/ AddMember(c) \/ AdmitFails(c)

Next ==
    \/ \E c \in Calls : Request(c) \/ Step(c) \/ RoomStops(c) \/ Funnel(c)
    \/ QueuePublish

Spec == Init /\ [][Next]_vars

\* Calls return and goroutines that can proceed do.
FairSpec ==
    Spec /\ \A c \in Calls : WF_vars(Step(c)) /\ WF_vars(RoomStops(c)) /\ WF_vars(Funnel(c))

-----------------------------------------------------------------------------
(* Properties                                                              *)

\* Types of the variables.
TypeOK ==
    /\ known \in BOOLEAN /\ row \in BOOLEAN
    /\ cache \in Calls \cup {NoRoom}
    /\ pc \in [Calls -> Setup \cup {"idle", "fetch", "admit", "created", "served",
                                    "aborted", "failed"}]
    /\ using \in [Calls -> Calls \cup {NoRoom}]
    /\ \A c \in Calls : pc[c] = "admit" => using[c] \in Calls
    /\ start \in [Calls -> {"none", "ready", "run", "over"}]
    /\ closed \subseteq Calls /\ subs \subseteq Calls
    /\ pending \in [Calls -> SUBSET Messages]
    /\ members \in [Calls -> SUBSET Calls]
    /\ sent \in 0 .. MaxMessages
    /\ heard \in [Calls -> SUBSET Messages]

\* A room created by this instance has one Room object here for ever after,
\* with one subscription, whatever the calls that serve it do: the premise of
\* modules ChatRoom and RoomQueue, and all that bounds the goroutines and
\* subscriptions of a room, because nothing ends them.
OneRoomWhereCreated ==
    pc[Creator] = "created" =>
        cache = Creator /\ subs = {Creator} /\ \A c \in Calls \ {Creator} : start[c] = "none"

\* When no call is busy with a room, the one in the cache works, also after
\* calls that raced each other and failed.
CachedWorks ==
    (\A c \in Calls : pc[c] \notin Setup) /\ cache # NoRoom =>
        start[cache] = "run" /\ cache \in subs \ closed

\* The funnel of an object never gets a message for a closed inbound, on which
\* its send would panic.
NoSendOnClosedRoom == \A c \in closed : pending[c] = {}

\* A member hears what reaches its object, although other calls replace or evict
\* that object in the cache.
HeardByMembers ==
    \A c \in Calls \ Deadlines, m \in Calls : \A i \in Messages :
        m \in members[c] /\ i \in pending[c] ~> i \in heard[m]

\* Every call of CreateRoom and ServeRoom returns.
CallsReturn ==
    \A c \in Calls :
        pc[c] # "idle" ~> pc[c] \in {"created", "served", "aborted", "failed"}
=============================================================================
