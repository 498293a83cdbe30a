---------------------------- MODULE RoomMessages ----------------------------
(***************************************************************************)
(* The messages of one room that are stored and published.  A member's     *)
(* messages are numbered in the order the member produces them: 0 for      *)
(* "joined", 1 .. MaxChats for its chats, MaxChats + 1 for "left".         *)
(* Identifiers, names and texts are not modelled; two chats of a member    *)
(* differ by their number.                                                 *)
(***************************************************************************)
EXTENDS Naturals

CONSTANTS
    Members,    \* the members of the room
    MaxChats    \* bound: chats a member sends

ASSUME MaxChatsAssumption == MaxChats \in Nat

Joined(m)  == [type |-> "joined", member |-> m, n |-> 0]
Chat(m, k) == [type |-> "chat",   member |-> m, n |-> k]
Left(m)    == [type |-> "left",   member |-> m, n |-> MaxChats + 1]

Message == [type : {"joined", "chat", "left"}, member : Members,
            n : 0 .. MaxChats + 1]
=============================================================================
