------------------------------ MODULE RoomFeed ------------------------------
(***************************************************************************)
(* What a chat room promises, without controllers, goroutines, Redis or    *)
(* Postgres: messages are stored, then published to one feed, and every    *)
(* member reads a subsequence of that feed, in its order.                  *)
(*                                                                         *)
(* The promise is one of safety: a feed may skip a stored message and a    *)
(* reader may skip a published one.                                        *)
(***************************************************************************)
EXTENDS RoomMessages, Sequences

VARIABLES
    store,  \* messages in the repository
    feed,   \* messages in the order the room publishes them
    late,   \* messages that may come late or again
    read    \* for each member, the positions of the feed it has read

feedVars == <<store, feed, late, read>>

Init ==
    /\ store = {}
    /\ feed  = <<>>
    /\ late  = {}
    /\ read  = [m \in Members |-> {}]

\* After a member's "left" nothing more of it is stored.
Store(msg) ==
    /\ Left(msg.member) \notin store
    /\ store' = store \cup {msg}
    /\ UNCHANGED <<feed, late, read>>

\* A publisher does not know whether it has published a stored message.
GiveUp(msg) ==
    /\ msg \in store
    /\ late' = late \cup {msg}
    /\ UNCHANGED <<store, feed, read>>

\* Only what is stored is published; a member's messages go out once and in the
\* order it produced them, but for those that may come late.
Publish(msg) ==
    /\ msg \in store
    /\ \/ \A i \in DOMAIN feed : feed[i].member = msg.member => feed[i].n < msg.n
       \/ msg \in late
    /\ feed' = Append(feed, msg)
    /\ UNCHANGED <<store, late, read>>

\* Nobody reads backwards, and nobody reads its own departure.
Read(m, i) ==
    /\ i \in DOMAIN feed
    /\ feed[i] # Left(m)
    /\ \A j \in read[m] : j < i
    /\ read' = [read EXCEPT ![m] = @ \cup {i}]
    /\ UNCHANGED <<store, feed, late>>

Next ==
    \/ \E msg \in Message : Store(msg) \/ GiveUp(msg) \/ Publish(msg)
    \/ \E m \in Members : \E i \in DOMAIN feed : Read(m, i)

Spec == Init /\ [][Next]_feedVars
=============================================================================
