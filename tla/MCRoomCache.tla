---------------------------- MODULE MCRoomCache ----------------------------
(* Instances of RoomCache for TLC. *)
EXTENDS RoomCache

CONSTANTS c1, c2, c3
=============================================================================
