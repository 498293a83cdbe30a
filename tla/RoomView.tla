------------------------------- MODULE RoomView -------------------------------
(***************************************************************************)
(* GET /api/room/{room}: who is in a room, while members come and go.      *)
(*                                                                         *)
(* The members of one room in both repositories; which one serves is fixed *)
(* at the start.  Postgres changes a member's row and stores the message   *)
(* about it in one transaction.  The memory repository does it in two      *)
(* steps, and keeps members in a map without a lock.                       *)
(***************************************************************************)
EXTENDS Naturals, FiniteSets

CONSTANTS
    Repos,  \* the repositories to consider
    People  \* members that come to the room

ASSUME ReposAssumption == Repos \subseteq {"postgres", "memory"}

VARIABLES
    repo,    \* "postgres" or "memory"
    stage,   \* how far a member's ServeRoom and Publish have come
    listed,  \* members that GetMembersByRoom finds
    joined,  \* members whose joining was published
    left,    \* members whose departure was published
    reader,  \* where the call of GetRoom is
    heard,   \* <<joined, left>> when it began
    maybe,   \* entries changed while it ranges over the map
    answer,  \* the members in its response
    dead     \* the runtime stopped the process

memberVars == <<stage, listed, joined, left>>
readerVars == <<reader, heard, answer>>
viewVars   == <<repo, memberVars, readerVars, maybe, dead>>

Stages == {"out", "inserting", "listed", "stored", "in", "leaving", "noted",
           "deleting", "deleted", "gone", "aborted"}

ViewInit ==
    /\ repo \in Repos
    /\ stage = [m \in People |-> "out"]
    /\ listed = {} /\ joined = {} /\ left = {}
    /\ reader = "idle" /\ heard = <<{}, {}>>
    /\ maybe = {} /\ answer = {}
    /\ dead = FALSE

\* The step of member m from one stage to another.
Moves(m, from, to) ==
    /\ ~dead /\ stage[m] = from
    /\ stage' = [stage EXCEPT ![m] = to]
    /\ UNCHANGED <<repo, readerVars, dead>>

-----------------------------------------------------------------------------
(* Postgres                                                                *)

InsertRow(m) ==
    /\ repo = "postgres"
    /\ Moves(m, "out", "stored")
    /\ listed' = listed \cup {m}
    /\ UNCHANGED <<joined, left, maybe>>

\* The transaction may have been committed all the same; nobody takes the row
\* back.
InsertRowFails(m) ==
    /\ repo = "postgres"
    /\ Moves(m, "out", "aborted")
    /\ listed' \in {listed, listed \cup {m}}
    /\ UNCHANGED <<joined, left, maybe>>

\* Mutant: the update has no WHERE clause.
DeleteAllRows(m) ==
    /\ repo = "postgres"
    /\ Moves(m, "leaving", "deleted")
    /\ listed' = {}
    /\ UNCHANGED <<joined, left, maybe>>

DeleteRow(m) ==
    /\ repo = "postgres"
    /\ Moves(m, "leaving", "deleted")
    /\ listed' = listed \ {m}
    /\ UNCHANGED <<joined, left, maybe>>

DeleteRowFails(m) ==
    /\ repo = "postgres"
    /\ Moves(m, "leaving", "aborted")
    /\ listed' \in {listed, listed \ {m}}
    /\ UNCHANGED <<joined, left, maybe>>

-----------------------------------------------------------------------------
(* Memory: a write to the map is two steps, the message a third.           *)

Writers == {m \in People : stage[m] \in {"inserting", "deleting"}}

\* An entry that changes while GetRoom ranges is produced or not.
Touch(m) == maybe' = IF reader = "range" THEN maybe \cup {m} ELSE maybe

BeginInsert(m) ==
    /\ repo = "memory"
    /\ Moves(m, "out", "inserting")
    /\ Touch(m)
    /\ UNCHANGED <<listed, joined, left>>

\* A writer that ends finds out whether it was alone; otherwise see MapRace.
EndInsert(m) ==
    /\ Writers = {m}
    /\ Moves(m, "inserting", "listed")
    /\ listed' = listed \cup {m}
    /\ UNCHANGED <<joined, left, maybe>>

NoteJoined(m) ==
    /\ Moves(m, "listed", "stored")
    /\ UNCHANGED <<listed, joined, left, maybe>>

\* Mutant: the map is left to a goroutine of its own.
NoteLeftOnly(m) ==
    /\ repo = "memory"
    /\ Moves(m, "leaving", "deleted")
    /\ UNCHANGED <<listed, joined, left, maybe>>

\* DeleteMember stores the message first.
NoteLeft(m) ==
    /\ repo = "memory"
    /\ Moves(m, "leaving", "noted")
    /\ UNCHANGED <<listed, joined, left, maybe>>

BeginDelete(m) ==
    /\ Moves(m, "noted", "deleting")
    /\ Touch(m)
    /\ UNCHANGED <<listed, joined, left>>

EndDelete(m) ==
    /\ Writers = {m}
    /\ Moves(m, "deleting", "deleted")
    /\ listed' = listed \ {m}
    /\ UNCHANGED <<joined, left, maybe>>

\* Two writers, or a writer and GetRoom: "concurrent map writes",
\* "concurrent map iteration and map write".
MapRace ==
    /\ ~dead
    /\ Cardinality(Writers) > 1 \/ (Writers # {} /\ reader = "range")
    /\ dead' = TRUE
    /\ UNCHANGED <<repo, memberVars, readerVars, maybe>>

-----------------------------------------------------------------------------
(* The controller publishes after the repository has returned.             *)

\* An error of the queue is no reason to take the member back.
PublishJoin(m) ==
    /\ Moves(m, "stored", "in")
    /\ joined' \in {joined, joined \cup {m}}
    /\ UNCHANGED <<listed, left, maybe>>

Leave(m) ==
    /\ Moves(m, "in", "leaving")
    /\ UNCHANGED <<listed, joined, left, maybe>>

PublishLeave(m) ==
    /\ Moves(m, "deleted", "gone")
    /\ left' \in {left, left \cup {m}}
    /\ UNCHANGED <<listed, joined, maybe>>

-----------------------------------------------------------------------------
(* GetRoom                                                                 *)

Reads(from, to) ==
    /\ ~dead /\ reader = from
    /\ reader' = to
    /\ UNCHANGED <<repo, memberVars, dead>>

Call ==
    /\ Reads("idle", "room")
    /\ heard' = <<joined, left>>
    /\ UNCHANGED <<answer, maybe>>

\* roomRepo.GetRoom finds the room or fails.
ReadRoom ==
    /\ \/ Reads("room", "members")
       \/ Reads("room", "failed")
    /\ UNCHANGED <<heard, answer, maybe>>

\* memberRepo.GetMembersByRoom: one query, ...
SelectMembers ==
    /\ repo = "postgres"
    /\ Reads("members", "done")
    /\ answer' = listed
    /\ UNCHANGED <<heard, maybe>>

\* ... or a loop over the map.
BeginRange ==
    /\ repo = "memory"
    /\ Reads("members", "range")
    /\ maybe' = Writers
    /\ UNCHANGED <<heard, answer>>

\* Mutant: members is made with the length of the map and then appended to, so that
\* it begins with zero values, whose ID is "".
EndRangePadded ==
    /\ Reads("range", "done")
    /\ \E produced \in SUBSET maybe : answer' = (listed \ maybe) \cup produced \cup {""}
    /\ maybe' = {}
    /\ UNCHANGED heard

EndRange ==
    /\ Reads("range", "done")
    /\ \E produced \in SUBSET maybe : answer' = (listed \ maybe) \cup produced
    /\ maybe' = {}
    /\ UNCHANGED heard

-----------------------------------------------------------------------------
ViewNext ==
    \/ \E m \in People :
         \/ InsertRow(m) \/ InsertRowFails(m) \/ DeleteRow(m) \/ DeleteRowFails(m)
         \/ BeginInsert(m) \/ EndInsert(m) \/ NoteJoined(m)
         \/ NoteLeft(m) \/ BeginDelete(m) \/ EndDelete(m)
         \/ PublishJoin(m) \/ Leave(m) \/ PublishLeave(m)
    \/ Call \/ ReadRoom \/ SelectMembers \/ BeginRange \/ EndRange
    \/ MapRace

ViewSpec == ViewInit /\ [][ViewNext]_viewVars

-----------------------------------------------------------------------------
(* Properties                                                              *)

\* Types of the variables.
ViewTypeOK ==
    /\ repo \in Repos
    /\ stage \in [People -> Stages]
    /\ listed \subseteq People /\ joined \subseteq People /\ left \subseteq People
    /\ reader \in {"idle", "room", "members", "range", "failed", "done"}
    /\ heard \in (SUBSET People) \X (SUBSET People)
    /\ answer \subseteq People
    /\ maybe \subseteq People /\ (reader # "range" => maybe = {})
    /\ dead \in BOOLEAN

\* e2e_test.go:111 "assert that only ws2 is still in the room": who heard that
\* a member left, and then asks, does not find it in the room.
GoneStaysGone == reader = "done" => heard[2] \cap answer = {}

\* Who heard that a member joined, and then asks, finds it, unless it is on
\* its way out by now: also while others come, go and fail.
PresentIsListed ==
    reader = "done" =>
        \A m \in heard[1] \ answer :
            stage[m] \in {"leaving", "noted", "deleting", "deleted", "gone", "aborted"}
=============================================================================
