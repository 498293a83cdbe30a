--------------------------- MODULE RoomViewProofs ---------------------------
(* What GetRoom answers, for any number of members and both repositories.   *)
EXTENDS RoomView, TLAPS

\* Where a member can still be when others have heard that it joined.
After == {"in", "leaving", "noted", "deleting", "deleted", "gone", "aborted"}
Late  == After \ {"in"}

\* A repository lists a member from its insertion to its deletion.
ListedInv ==
    \A m \in People :
        /\ stage[m] \in {"out", "inserting", "deleted", "gone"} => m \notin listed
        /\ stage[m] \in {"listed", "stored", "in"} => m \in listed

\* The controller announces what the repository has done.
AnnouncedInv ==
    /\ \A m \in joined : stage[m] \in After
    /\ \A m \in left : stage[m] = "gone"

\* What the reader had heard goes on being true; only members on their way
\* out can make it miss something.
HeardInv ==
    /\ heard[1] \subseteq joined /\ heard[2] \subseteq left
    /\ heard[2] \cap maybe = {}
    /\ \A m \in heard[1] \cap maybe : stage[m] \in Late

ViewInv ==
    ViewTypeOK /\ ListedInv /\ AnnouncedInv /\ HeardInv /\ GoneStaysGone /\ PresentIsListed

-----------------------------------------------------------------------------
\* Members only move forward: an announced one stays announced.
LEMMA MemberStep ==
    ASSUME ViewInv, NEW m \in People, NEW from \in Stages, NEW to \in Stages,
           Moves(m, from, to), joined' \subseteq joined \cup {m}, left' \subseteq left \cup {m},
           listed' \subseteq People, maybe' \subseteq People,
           reader # "range" => maybe' = {},
           \A k \in People \ {m} : k \in listed' <=> k \in listed,
           to \in {"out", "inserting", "deleted", "gone"} => m \notin listed',
           to \in {"listed", "stored", "in"} => m \in listed',
           m \in joined' => to \in After,
           m \in left' => to = "gone",
           from \in Late => to \in Late, from = "in" => to \in After,
           maybe' \subseteq maybe \cup {m},
           m \in maybe' => m \in maybe \/ (from # "gone" /\ (from \in After => to \in Late)),
           joined \subseteq joined', left \subseteq left',
           from # "gone"
    PROVE  ViewInv'
<1> USE DEF ViewInv, Moves
<1>1. /\ stage' = [stage EXCEPT ![m] = to] /\ stage \in [People -> Stages]
      /\ stage'[m] = to /\ stage[m] = from
      /\ \A k \in People \ {m} : stage'[k] = stage[k]
      BY DEF ViewTypeOK
<1>2. ViewTypeOK'
      BY <1>1 DEF ViewTypeOK, readerVars
<1>3. ListedInv'
      BY <1>1 DEF ListedInv
<1>4. AnnouncedInv'
      BY <1>1, <1>2 DEF AnnouncedInv, ViewTypeOK
<1>5. heard' = heard /\ reader' = reader /\ answer' = answer
      BY DEF readerVars
<1>6. HeardInv'
  <2>1. heard[1] \subseteq joined' /\ heard[2] \subseteq left'
        BY DEF HeardInv
  <2>2. heard[2] \cap maybe' = {}
        BY <1>1 DEF HeardInv, AnnouncedInv
  <2>3. ASSUME NEW k \in heard[1], k \in maybe' PROVE stage'[k] \in Late
    <3>1. k \in People /\ stage[k] \in After
          BY DEF HeardInv, AnnouncedInv, ViewTypeOK
    <3>2. CASE k # m
          BY <3>1, <3>2, <2>3, <1>1 DEF HeardInv
    <3>3. CASE k = m
          BY <3>1, <3>3, <2>3, <1>1 DEF HeardInv
    <3> QED BY <3>2, <3>3
  <2> QED BY <2>1, <2>2, <2>3, <1>5 DEF HeardInv
<1>7. GoneStaysGone'
      BY <1>5 DEF GoneStaysGone
<1>8. PresentIsListed'
  <2>1. ASSUME reader = "done", NEW k \in heard[1], k \notin answer PROVE stage'[k] \in Late
    <3>1. k \in People /\ stage[k] \in Late
          BY <2>1 DEF PresentIsListed, HeardInv, ViewTypeOK, Late, After
    <3> QED BY <3>1, <1>1
  <2> QED BY <2>1, <1>5 DEF PresentIsListed, Late, After
<1> QED BY <1>2, <1>3, <1>4, <1>6, <1>7, <1>8

\* Each step of a member is one MemberStep speaks of.
LEMMA ActionsOfMembers ==
    ASSUME ViewInv, NEW m \in People,
           \/ InsertRow(m) \/ InsertRowFails(m) \/ DeleteRow(m) \/ DeleteRowFails(m)
           \/ BeginInsert(m) \/ EndInsert(m) \/ NoteJoined(m)
           \/ NoteLeft(m) \/ BeginDelete(m) \/ EndDelete(m)
           \/ PublishJoin(m) \/ Leave(m) \/ PublishLeave(m)
    PROVE  ViewInv'
<1> DEFINE Facts(from, to) ==
        /\ from \in Stages /\ to \in Stages /\ Moves(m, from, to)
        /\ joined \subseteq joined' /\ joined' \subseteq joined \cup {m}
        /\ left \subseteq left' /\ left' \subseteq left \cup {m}
        /\ listed' \subseteq People /\ maybe' \subseteq People
        /\ reader # "range" => maybe' = {}
        /\ \A k \in People \ {m} : k \in listed' <=> k \in listed
        /\ to \in {"out", "inserting", "deleted", "gone"} => m \notin listed'
        /\ to \in {"listed", "stored", "in"} => m \in listed'
        /\ m \in joined' => to \in After
        /\ m \in left' => to = "gone"
        /\ from # "gone" /\ (from \in Late => to \in Late) /\ (from = "in" => to \in After)
        /\ maybe' \subseteq maybe \cup {m}
        /\ m \in maybe' => m \in maybe \/ (from # "gone" /\ (from \in After => to \in Late))
<1>0. \A from, to : Facts(from, to) => ViewInv'
      BY MemberStep
<1> HIDE DEF Facts
<1>1. ASSUME InsertRow(m) PROVE Facts("out", "stored")
      BY <1>1 DEF InsertRow, Facts, Moves, Touch, ViewInv, ViewTypeOK, ListedInv, AnnouncedInv,
              HeardInv, Stages, After, Late, Writers
<1>2. ASSUME InsertRowFails(m) PROVE Facts("out", "aborted")
      BY <1>2 DEF InsertRowFails, Facts, Moves, Touch, ViewInv, ViewTypeOK, ListedInv, AnnouncedInv,
              HeardInv, Stages, After, Late, Writers
<1>3. ASSUME DeleteRow(m) PROVE Facts("leaving", "deleted")
      BY <1>3 DEF DeleteRow, Facts, Moves, Touch, ViewInv, ViewTypeOK, ListedInv, AnnouncedInv,
              HeardInv, Stages, After, Late, Writers
<1>4. ASSUME DeleteRowFails(m) PROVE Facts("leaving", "aborted")
      BY <1>4 DEF DeleteRowFails, Facts, Moves, Touch, ViewInv, ViewTypeOK, ListedInv, AnnouncedInv,
              HeardInv, Stages, After, Late, Writers
<1>5. ASSUME BeginInsert(m) PROVE Facts("out", "inserting")
      BY <1>5 DEF BeginInsert, Facts, Moves, Touch, ViewInv, ViewTypeOK, ListedInv, AnnouncedInv,
              HeardInv, Stages, After, Late, Writers
<1>6. ASSUME EndInsert(m) PROVE Facts("inserting", "listed")
      BY <1>6 DEF EndInsert, Facts, Moves, Touch, ViewInv, ViewTypeOK, ListedInv, AnnouncedInv,
              HeardInv, Stages, After, Late, Writers
<1>7. ASSUME NoteJoined(m) PROVE Facts("listed", "stored")
      BY <1>7 DEF NoteJoined, Facts, Moves, Touch, ViewInv, ViewTypeOK, ListedInv, AnnouncedInv,
              HeardInv, Stages, After, Late, Writers
<1>8. ASSUME NoteLeft(m) PROVE Facts("leaving", "noted")
      BY <1>8 DEF NoteLeft, Facts, Moves, Touch, ViewInv, ViewTypeOK, ListedInv, AnnouncedInv,
              HeardInv, Stages, After, Late, Writers
<1>9. ASSUME BeginDelete(m) PROVE Facts("noted", "deleting")
      BY <1>9 DEF BeginDelete, Facts, Moves, Touch, ViewInv, ViewTypeOK, ListedInv, AnnouncedInv,
              HeardInv, Stages, After, Late, Writers
<1>10. ASSUME EndDelete(m) PROVE Facts("deleting", "deleted")
      BY <1>10 DEF EndDelete, Facts, Moves, Touch, ViewInv, ViewTypeOK, ListedInv, AnnouncedInv,
              HeardInv, Stages, After, Late, Writers
<1>11. ASSUME PublishJoin(m) PROVE Facts("stored", "in")
      BY <1>11 DEF PublishJoin, Facts, Moves, Touch, ViewInv, ViewTypeOK, ListedInv, AnnouncedInv,
              HeardInv, Stages, After, Late, Writers
<1>12. ASSUME Leave(m) PROVE Facts("in", "leaving")
      BY <1>12 DEF Leave, Facts, Moves, Touch, ViewInv, ViewTypeOK, ListedInv, AnnouncedInv,
              HeardInv, Stages, After, Late, Writers
<1>13. ASSUME PublishLeave(m) PROVE Facts("deleted", "gone")
      BY <1>13 DEF PublishLeave, Facts, Moves, Touch, ViewInv, ViewTypeOK, ListedInv, AnnouncedInv,
              HeardInv, Stages, After, Late, Writers
<1> QED
      BY <1>0, <1>1, <1>2, <1>3, <1>4, <1>5, <1>6, <1>7, <1>8, <1>9, <1>10, <1>11, <1>12, <1>13

LEMMA ActionsOfReader ==
    ASSUME ViewInv, Call \/ ReadRoom \/ SelectMembers \/ BeginRange \/ EndRange
    PROVE  ViewInv'
<1> USE DEF ViewInv, ViewTypeOK, ListedInv, AnnouncedInv, HeardInv, GoneStaysGone,
            PresentIsListed, Reads, memberVars
<1>1. CASE Call
      BY <1>1 DEF Call
<1>2. CASE ReadRoom
      BY <1>2 DEF ReadRoom
\* One query: who is listed has not been announced gone, ...
<1>3. CASE SelectMembers
      BY <1>3 DEF SelectMembers, After, Late
\* ... and at the start of a loop only members that are still unannounced, or
\* on their way out, are being changed.
<1>4. CASE BeginRange
      BY <1>4 DEF BeginRange, Writers, After, Late
<1>5. CASE EndRange
  <2>1. PICK produced \in SUBSET maybe : answer' = (listed \ maybe) \cup produced
        BY <1>5 DEF EndRange
  <2>2. heard[2] \cap answer' = {}
        BY <2>1
  <2>3. \A m \in heard[1] \ answer' : stage[m] \in Late
        BY <2>1 DEF After, Late
  <2>4. /\ heard' = heard /\ reader' = "done" /\ maybe' = {} /\ repo' = repo /\ dead' = dead
        /\ stage' = stage /\ listed' = listed /\ joined' = joined /\ left' = left
        BY <1>5 DEF EndRange
  <2>5. answer' \subseteq People
        BY <2>1
  <2> QED BY <2>2, <2>3, <2>4, <2>5 DEF After, Late
<1> QED BY <1>1, <1>2, <1>3, <1>4, <1>5

\* The whole invariant of GetRoom and the members around it.
THEOREM ViewInductive == ViewSpec => []ViewInv
<1>1. ASSUME ViewInit PROVE ViewInv
  <2>1. \A m \in People : stage[m] = "out" /\ stage \in [People -> Stages]
        BY <1>1 DEF ViewInit, Stages
  <2>2. ViewTypeOK
        BY <1>1, <2>1 DEF ViewInit, ViewTypeOK
  <2> QED BY <1>1, <2>1, <2>2 DEF ViewInit, ViewInv, ListedInv, AnnouncedInv, HeardInv,
                                  GoneStaysGone, PresentIsListed
<1>2. ViewInv /\ [ViewNext]_viewVars => ViewInv'
  <2> SUFFICES ASSUME ViewInv, [ViewNext]_viewVars PROVE ViewInv'
      OBVIOUS
  <2>1. CASE MapRace
        BY <2>1 DEF MapRace, memberVars, readerVars, ViewInv, ViewTypeOK, ListedInv,
                    AnnouncedInv, HeardInv, GoneStaysGone, PresentIsListed
  <2>2. CASE UNCHANGED viewVars
        BY <2>2 DEF viewVars, memberVars, readerVars, ViewInv, ViewTypeOK, ListedInv,
                    AnnouncedInv, HeardInv, GoneStaysGone, PresentIsListed
  <2> QED BY <2>1, <2>2, ActionsOfMembers, ActionsOfReader DEF ViewNext
<1> QED BY <1>1, <1>2, PTL DEF ViewSpec

\* Every variable keeps its type, and what may change under a loop over the
\* map is forgotten when the loop ends.
THEOREM ViewTypeCorrect == ViewSpec => []ViewTypeOK
<1>1. ViewInv => ViewTypeOK
      BY DEF ViewInv
<1> QED BY <1>1, ViewInductive, PTL

\* GetRoom does not list a member whose departure the client had heard of:
\* DeleteMember comes before the announcement, in both repositories.
THEOREM GoneIsNotListed == ViewSpec => []GoneStaysGone
<1>1. ViewInv => GoneStaysGone
      BY DEF ViewInv
<1> QED BY <1>1, ViewInductive, PTL

\* GetRoom lists every member that the client had heard to join and that is
\* not leaving, whoever else comes, goes or fails meanwhile.
THEOREM PresentAreListed == ViewSpec => []PresentIsListed
<1>1. ViewInv => PresentIsListed
      BY DEF ViewInv
<1> QED BY <1>1, ViewInductive, PTL
=============================================================================
