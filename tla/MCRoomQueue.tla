----------------------------- MODULE MCRoomQueue -----------------------------
(* Instances of RoomQueue for TLC. *)
EXTENDS RoomQueue, TLC

CONSTANTS p1, p2, s1, s2, r1, r2

\* Two rooms, with p1 and s1 in the first and s2 in the second.
RoomsWith(r) == p1 :> r1 @@ p2 :> r @@ s1 :> r1 @@ s2 :> r2

\* Attempts that come late, but good connections.
LateAttempts ==
    [backend |-> "redis", room |-> RoomsWith(r1), retries |-> 1,
     budget |-> p1 :> 2 @@ p2 :> 0, breaks |-> s1 :> 0 @@ s2 :> 0]

\* Breaking connections, but prompt answers.
BrokenLinks ==
    [backend |-> "redis", room |-> RoomsWith(r2), retries |-> 0,
     budget |-> p1 :> 2 @@ p2 :> 1, breaks |-> s1 :> 1 @@ s2 :> 0]

InMemory ==
    [backend |-> "memory", room |-> RoomsWith(r2), retries |-> 0,
     budget |-> p1 :> 2 @@ p2 :> 2, breaks |-> s1 :> 0 @@ s2 :> 0]

AllSettings == {LateAttempts, BrokenLinks, InMemory}
=============================================================================
