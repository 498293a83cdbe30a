------------------------- MODULE MessagePagesProofs -------------------------
(***************************************************************************)
(* Proofs about MessagePages for all IDs, times and limits: what a client  *)
(* that follows the "next" cursors receives, and what it may miss.         *)
(***************************************************************************)
EXTENDS MessagePages, FiniteSetTheorems, TLAPS

USE DEF tableVars, clientVars

\* x is not on the far side of the cursor c in the direction of paging.
Reached(x, c) ==
    IF dir = "before" THEN x.sent >= c.sent
    ELSE \/ x.sent < c.sent
         \/ x.sent = c.sent /\ (backend = "memory" \/ x.id <= c.id)

UniqueIds == \A r, x \in rows \cup inflight : r.id = x.id => r = x

\* The client has its cursor and nothing beyond it.
CursorInv ==
    /\ phase = "idle" => cursor = NoRow /\ got = {} /\ goal = {} /\ dir = "before"
    /\ dir = "after" => cursor # NoRow
    /\ cursor = NoRow => got = {}
    /\ cursor # NoRow => cursor \in got /\ \A x \in got : Reached(x, cursor)

\* What it has not received is still ahead, or, backwards, tied with
\* something it has.
Excused(r) == dir = "before" /\ \E x \in got : x.sent = r.sent
GoalInv ==
    \A r \in goal \ got : Excused(r) \/ (phase # "done" /\ r \in Beyond)

PageInv == TypeOK /\ UniqueIds /\ CursorInv /\ GoalInv

-----------------------------------------------------------------------------
(* Pages                                                                   *)

\* A row is a time and an ID, both integers.
LEMMA RowType ==
    ASSUME NEW r \in Row
    PROVE  r.sent \in Int /\ r.id \in Int
<1>1. r.sent \in 0 .. MaxTime /\ r.id \in Ids
  BY DEF Row
<1>2. r.sent \in Int
  BY <1>1, MaxTimeAssumption
<1>3. r.id \in Int
  BY <1>1, IdsAssumption
<1>4. QED
  BY <1>2, <1>3

\* A page with a valid limit is empty only if nothing is beyond the cursor.
LEMMA EmptyPage ==
    ASSUME TypeOK, NEW limit \in Limits, Validate(limit), {} \in Pages(Size(limit))
    PROVE  Beyond = {}
<1>1. Beyond \subseteq rows
  BY DEF Beyond
<1>2. /\ IsFiniteSet(rows) /\ IsFiniteSet(Beyond)
      /\ Cardinality(rows) \in Nat /\ Cardinality(Beyond) \in Nat
  BY <1>1, FS_Subset, FS_CardinalityType DEF TypeOK
<1>3. Cardinality({}) = 0 /\ (Cardinality(Beyond) = 0 <=> Beyond = {})
      /\ (Cardinality(rows) = 0 <=> rows = {})
  BY <1>2, FS_EmptySet
<1>4. CASE Cardinality(Beyond) = 0
  BY <1>3, <1>4
<1>5. CASE Cardinality(Beyond) # 0
  <2>1. Size(limit) = 0
    BY <1>2, <1>3, <1>5 DEF Pages
  <2>2. Cardinality(rows) = 0
    BY <2>1, LimitsAssumption, DefaultLimitAssumption DEF Size, Validate
  <2>3. QED
    BY <2>2, <1>1, <1>3, <1>5
<1>6. QED
  BY <1>4, <1>5

\* The last message of a page is the cursor beyond which everything lies that
\* the page left over, except rows with its time when paging backwards.
LEMMA LastMessage ==
    ASSUME TypeOK, UniqueIds, NEW k \in Int, NEW P \in Pages(k), NEW c \in LastOf(P)
    PROVE  /\ P \subseteq Beyond /\ c \in P
           /\ \A x \in P : Reached(x, c)
           /\ \A r \in Beyond \ P : dir = "before" => r.sent <= c.sent
           /\ \A r \in Beyond \ P : dir = "after" =>
                IF backend = "postgres" THEN Older(c, r)
                ELSE r.id # c.id /\ r.sent >= c.sent
<1>1. P \subseteq Beyond /\ c \in P /\ Beyond \subseteq rows /\ rows \subseteq Row
  BY DEF LastOf, Pages, Beyond, TypeOK
<1>2. backend \in {"postgres", "memory"} /\ dir \in {"before", "after"}
  BY BackendsAssumption DEF TypeOK
<1>3. ASSUME NEW x \in P PROVE Reached(x, c)
  <2>1. ~Precedes(c, x)
    BY DEF LastOf
  <2>2. QED
    BY <1>1, <1>2, <2>1, RowType DEF Precedes, Reached
<1>4. ASSUME NEW r \in Beyond \ P
      PROVE  /\ ~Precedes(r, c) /\ r.id # c.id
             /\ r.sent \in Int /\ r.id \in Int /\ c.sent \in Int /\ c.id \in Int
  BY <1>1, RowType DEF Pages, UniqueIds
<1>5. ASSUME NEW r \in Beyond \ P, dir = "before" PROVE r.sent <= c.sent
  BY <1>4, <1>5 DEF Precedes
<1>6. ASSUME NEW r \in Beyond \ P, dir = "after"
      PROVE  IF backend = "postgres" THEN Older(c, r)
             ELSE r.id # c.id /\ r.sent >= c.sent
  BY <1>2, <1>4, <1>6 DEF Precedes, Older
<1>7. QED
  BY <1>1, <1>3, <1>5, <1>6

\* What lay before the old cursor lies before every cursor beyond it.
LEMMA ReachedMonotone ==
    ASSUME TypeOK, cursor # NoRow, NEW c \in Beyond, NEW x \in rows, Reached(x, cursor)
    PROVE  Reached(x, c)
<1>1. backend \in {"postgres", "memory"} /\ dir \in {"before", "after"}
  BY BackendsAssumption DEF TypeOK
<1>2. c \in Row /\ x \in Row /\ cursor \in Row
  BY DEF TypeOK, Cursor, Beyond
<1>3. QED
  BY <1>1, <1>2, RowType DEF Beyond, Reached, Older

-----------------------------------------------------------------------------
(* The steps                                                               *)

\* A page read with a valid limit is one of the cases of GetMessages.
LEMMA FetchCases ==
    ASSUME TypeOK, NEW limit \in Limits, GetMessages(limit)
    PROVE  /\ phase = "paging" /\ UNCHANGED <<tableVars, dir, goal>>
           /\ \/ Beyond = {} /\ phase' = "done" /\ UNCHANGED <<cursor, got>>
              \/ \E k \in Int : \E P \in Pages(k) :
                    cursor' \in LastOf(P) /\ got' = got \cup P /\ UNCHANGED phase
<1>1. PICK P \in Pages(Size(limit)) :
        \/ P = {} /\ phase' = "done" /\ UNCHANGED <<cursor, got>>
        \/ cursor' \in LastOf(P) /\ got' = got \cup P /\ UNCHANGED phase
  BY DEF GetMessages
<1>2. Size(limit) \in Int
  <2>1. IsFiniteSet(rows)
    BY DEF TypeOK
  <2>2. Cardinality(rows) \in Int
    BY <2>1, FS_CardinalityType
  <2>3. QED
    BY <2>2, LimitsAssumption, DefaultLimitAssumption DEF Size
<1>3. Validate(limit) /\ phase = "paging" /\ UNCHANGED <<tableVars, dir, goal>>
  BY DEF GetMessages
<1>4. CASE P = {}
  <2>1. Beyond = {}
    BY <1>1, <1>3, <1>4, EmptyPage
  <2>2. ~(cursor' \in LastOf(P))
    BY <1>4 DEF LastOf
  <2>3. QED
    BY <1>1, <1>3, <2>1, <2>2
<1>5. CASE P # {}
  BY <1>1, <1>2, <1>3, <1>5
<1>6. QED
  BY <1>4, <1>5

\* An insertion adds at most one row, with a type and a new ID, and leaves the
\* client alone.
LEMMA InsertCases ==
    ASSUME TypeOK, UniqueIds,
           \/ Tick
           \/ \E id \in Ids : Begin(id) \/ InsertMessage(id)
           \/ \E r \in inflight : Commit(r)
    PROVE  /\ UNCHANGED <<backend, clientVars>>
           /\ clock' \in 0 .. MaxTime
           /\ rows \subseteq rows' /\ rows' \subseteq Row /\ inflight' \subseteq Row
           /\ IsFiniteSet(rows')
           /\ UniqueIds'
<1>1. CASE Tick
  BY <1>1, MaxTimeAssumption DEF Tick, TypeOK, UniqueIds
<1>2. ASSUME NEW id \in Ids, Begin(id) \/ InsertMessage(id)
      PROVE  /\ UNCHANGED <<backend, clock, clientVars>>
             /\ rows \subseteq rows' /\ rows' \subseteq Row /\ inflight' \subseteq Row
             /\ IsFiniteSet(rows')
             /\ UniqueIds'
  <2> DEFINE r == [sent |-> clock, id |-> id]
  <2>1. r \in Row /\ r.id = id
    BY DEF TypeOK, Row
  <2>2. \A x \in rows \cup inflight : x.id # id
    BY <1>2 DEF Begin, InsertMessage, Fresh
  <2>3. \/ inflight' = inflight \cup {r} /\ UNCHANGED rows
        \/ rows' = rows \cup {r} /\ UNCHANGED inflight
    BY <1>2 DEF Begin, InsertMessage
  <2>4. IsFiniteSet(rows')
    <3>1. IsFiniteSet(rows) /\ IsFiniteSet(rows \cup {r})
      BY FS_AddElement DEF TypeOK
    <3>2. QED
      BY <2>3, <3>1
  <2>5. rows' \cup inflight' = (rows \cup inflight) \cup {r}
    BY <2>3
  <2> HIDE DEF r
  <2>6. UniqueIds'
    BY <2>1, <2>2, <2>5 DEF UniqueIds
  <2>7. QED
    BY <1>2, <2>1, <2>3, <2>4, <2>6 DEF TypeOK, Begin, InsertMessage
<1>3. ASSUME NEW r \in inflight, Commit(r)
      PROVE  /\ UNCHANGED <<backend, clock, clientVars>>
             /\ rows \subseteq rows' /\ rows' \subseteq Row /\ inflight' \subseteq Row
             /\ IsFiniteSet(rows')
             /\ UniqueIds'
  <2>1. IsFiniteSet(rows')
    BY <1>3, FS_AddElement DEF TypeOK, Commit
  <2>2. QED
    BY <1>3, <2>1 DEF TypeOK, Commit, UniqueIds
<1>4. clock \in 0 .. MaxTime
  BY DEF TypeOK
<1>5. QED
  BY <1>1, <1>2, <1>3, <1>4

\* Insertions: what was beyond the cursor still is.
LEMMA InsertStep ==
    ASSUME PageInv,
           \/ Tick
           \/ \E id \in Ids : Begin(id) \/ InsertMessage(id)
           \/ \E r \in inflight : Commit(r)
    PROVE  PageInv'
<1>1. /\ UNCHANGED <<backend, clientVars>>
      /\ clock' \in 0 .. MaxTime
      /\ rows \subseteq rows' /\ rows' \subseteq Row /\ inflight' \subseteq Row
      /\ IsFiniteSet(rows')
      /\ UniqueIds'
  BY InsertCases DEF PageInv
<1>2. TypeOK'
  BY <1>1 DEF PageInv, TypeOK
<1>3. CursorInv'
  BY <1>1 DEF PageInv, CursorInv, Reached
<1>4. Beyond \subseteq Beyond'
  BY <1>1 DEF Beyond, Older
<1>5. GoalInv'
  BY <1>1, <1>4 DEF PageInv, GoalInv, Excused
<1>6. QED
  BY <1>1, <1>2, <1>3, <1>5 DEF PageInv

\* Starting to page.
LEMMA StartStep ==
    ASSUME PageInv, StartBackward \/ \E r \in rows : StartForward(r)
    PROVE  PageInv'
<1>1. UniqueIds'
  BY DEF StartBackward, StartForward, PageInv, UniqueIds
<1>2. CASE StartBackward
  <2>1. phase = "idle" /\ cursor = NoRow /\ got = {}
    BY <1>2 DEF StartBackward, PageInv, CursorInv
  <2>2. TypeOK'
    BY <1>2 DEF StartBackward, PageInv, TypeOK
  <2>3. CursorInv'
    BY <1>2, <2>1 DEF StartBackward, CursorInv
  <2>4. GoalInv'
    BY <1>2, <2>1 DEF StartBackward, GoalInv, Beyond
  <2>5. QED
    BY <1>1, <2>2, <2>3, <2>4 DEF PageInv
<1>3. ASSUME NEW r \in rows, StartForward(r) PROVE PageInv'
  <2>1. r \in Row /\ r # NoRow /\ r.sent \in Int /\ r.id \in Int
    BY NoRowAssumption, RowType DEF PageInv, TypeOK
  <2>2. TypeOK'
    BY <1>3 DEF StartForward, PageInv, TypeOK, Cursor
  <2>3. CursorInv'
    BY <1>3, <2>1 DEF StartForward, CursorInv, Reached
  <2>4. ASSUME NEW x \in goal' PROVE x \in Beyond'
    <3>1. x \in rows /\ x \in Row /\ Older(r, x) /\ cursor' = r /\ dir' = "after"
          /\ UNCHANGED <<rows, backend>>
      BY <1>3, <2>4 DEF StartForward, PageInv, TypeOK
    <3>2. x.sent \in Int /\ x.id \in Int /\ x.id # r.id
      BY <2>1, <3>1, RowType DEF Older, PageInv, UniqueIds
    <3>3. backend \in {"postgres", "memory"}
      BY BackendsAssumption DEF PageInv, TypeOK
    <3>4. QED
      BY <2>1, <3>1, <3>2, <3>3 DEF Beyond, Older
  <2>5. GoalInv'
    BY <1>3, <2>4 DEF StartForward, GoalInv
  <2>6. QED
    BY <1>1, <2>2, <2>3, <2>5 DEF PageInv
<1>4. QED
  BY <1>2, <1>3

\* One request: what the page leaves over lies beyond the next cursor, or has
\* its time.
LEMMA FetchStep ==
    ASSUME PageInv, NEW limit \in Limits, GetMessages(limit)
    PROVE  PageInv'
<1>1. /\ phase = "paging" /\ UNCHANGED <<tableVars, dir, goal>>
      /\ TypeOK /\ UniqueIds /\ CursorInv /\ GoalInv
  BY FetchCases DEF PageInv
<1>2. UniqueIds'
  BY <1>1 DEF UniqueIds
<1>3. CASE Beyond = {} /\ phase' = "done" /\ UNCHANGED <<cursor, got>>
  <2>1. TypeOK'
    BY <1>1, <1>3 DEF TypeOK
  <2>2. CursorInv'
    BY <1>1, <1>3 DEF CursorInv, Reached
  <2>3. GoalInv'
    BY <1>1, <1>3 DEF GoalInv, Excused
  <2>4. QED
    BY <1>2, <2>1, <2>2, <2>3 DEF PageInv
<1>4. ASSUME NEW k \in Int, NEW P \in Pages(k),
             cursor' \in LastOf(P), got' = got \cup P, UNCHANGED phase
      PROVE  PageInv'
  <2>1. /\ P \subseteq Beyond /\ cursor' \in P /\ Beyond \subseteq rows
        /\ rows \subseteq Row /\ cursor' \in Row /\ cursor' # NoRow
        /\ dir \in {"before", "after"} /\ backend \in {"postgres", "memory"}
    BY <1>1, <1>4, LastMessage, NoRowAssumption, BackendsAssumption DEF Beyond, TypeOK
  <2>2. TypeOK'
    BY <1>1, <1>4, <2>1 DEF TypeOK, Cursor
  <2>3. ASSUME NEW x \in got' PROVE Reached(x, cursor')
    <3>1. CASE x \in P
      BY <1>1, <1>4, <3>1, LastMessage
    <3>2. CASE x \in got
      BY <1>1, <2>1, <3>2, ReachedMonotone DEF CursorInv, TypeOK
    <3>3. QED
      BY <1>4, <3>1, <3>2
  <2>4. CursorInv'
    BY <1>1, <1>4, <2>1, <2>3 DEF CursorInv, Reached
  <2>5. ASSUME NEW r \in goal' \ got' PROVE Excused(r)' \/ r \in Beyond'
    <3>1. r \in goal \ got /\ r \notin P /\ phase # "done"
      BY <1>1, <1>4, <2>5
    <3>2. CASE Excused(r)
      BY <1>1, <1>4, <3>2 DEF Excused
    <3>3. CASE r \in Beyond /\ dir = "before"
      <4>1. r.sent <= cursor'.sent /\ r.sent \in Int /\ cursor'.sent \in Int
        BY <1>1, <1>4, <2>1, <3>1, <3>3, LastMessage, RowType
      <4>2. CASE r.sent = cursor'.sent
        BY <1>1, <1>4, <2>1, <3>3, <4>2 DEF Excused
      <4>3. CASE r.sent < cursor'.sent
        <5>1. r.id # cursor'.id
          BY <1>1, <2>1, <3>3, <4>1, <4>3 DEF UniqueIds
        <5>2. QED
          BY <1>1, <2>1, <3>3, <4>1, <4>3, <5>1 DEF Beyond, Older
      <4>4. QED
        BY <4>1, <4>2, <4>3
    <3>4. CASE r \in Beyond /\ dir = "after"
      <4>1. IF backend = "postgres" THEN Older(cursor', r)
            ELSE r.id # cursor'.id /\ r.sent >= cursor'.sent
        BY <1>1, <1>4, <3>1, <3>4, LastMessage
      <4>2. QED
        BY <1>1, <2>1, <3>4, <4>1 DEF Beyond, Older
    <3>5. QED
      BY <1>1, <2>1, <3>1, <3>2, <3>3, <3>4 DEF GoalInv
  <2>6. GoalInv'
    BY <1>1, <1>4, <2>5 DEF GoalInv
  <2>7. QED
    BY <1>2, <2>2, <2>4, <2>6 DEF PageInv
<1>5. QED
  BY <1>3, <1>4, FetchCases DEF PageInv

-----------------------------------------------------------------------------
(* Theorems                                                                *)

\* The inductive invariant holds throughout.
THEOREM PagesInductive == Spec => []PageInv
<1>1. Init => PageInv
  <2>1. IsFiniteSet({})
    BY FS_EmptySet
  <2>2. QED
    BY <2>1, MaxTimeAssumption
       DEF Init, PageInv, TypeOK, Cursor, UniqueIds, CursorInv, GoalInv
<1>2. PageInv /\ [Next]_vars => PageInv'
  <2> SUFFICES ASSUME PageInv, [Next]_vars PROVE PageInv'
    OBVIOUS
  <2>1. CASE Tick \/ (\E id \in Ids : Begin(id) \/ InsertMessage(id))
             \/ (\E r \in inflight : Commit(r))
    BY <2>1, InsertStep
  <2>2. CASE StartBackward \/ \E r \in rows : StartForward(r)
    BY <2>2, StartStep
  <2>3. CASE Fetch
    BY <2>3, FetchStep DEF Fetch
  <2>4. CASE UNCHANGED vars
    BY <2>4 DEF vars, PageInv, TypeOK, UniqueIds, CursorInv, Reached, GoalInv,
                Excused, Beyond, Older
  <2>5. QED
    BY <2>1, <2>2, <2>3, <2>4 DEF Next
<1>3. QED
  BY <1>1, <1>2, PTL DEF Spec

\* TypeOK: every variable keeps its type; in particular, a client only ever
\* receives rows that have been committed.
THEOREM PagesTypeCorrect == Spec => []TypeOK
<1>1. PageInv => TypeOK
  BY DEF PageInv
<1>2. QED
  BY <1>1, PagesInductive, PTL

\* ForwardComplete: following "after" cursors to an empty page yields every
\* message that was there at the start, with both repositories.
THEOREM ForwardIsComplete == Spec => []ForwardComplete
<1>1. PageInv => ForwardComplete
  BY DEF PageInv, GoalInv, Excused, ForwardComplete
<1>2. QED
  BY <1>1, PagesInductive, PTL

\* BackwardMissesTies: following "before" cursors to an empty page leaves out
\* only messages whose time another received message has too.
THEOREM BackwardIsNearlyComplete == Spec => []BackwardMissesTies
<1>1. PageInv => BackwardMissesTies
  BY DEF PageInv, GoalInv, Excused, BackwardMissesTies
<1>2. QED
  BY <1>1, PagesInductive, PTL

\* NextIsNew: the rows a page can repeat have the time of the cursor, and
\* Postgres repeats none forwards.
THEOREM PagesAreNew == Spec => []NextIsNew
<1>1. ASSUME PageInv PROVE NextIsNew
  <2> SUFFICES ASSUME NEW r \in got \cap Beyond
               PROVE  r.sent = cursor.sent /\ (backend = "memory" \/ dir = "before")
    BY DEF NextIsNew
  <2>1. cursor # NoRow /\ Reached(r, cursor)
    BY <1>1 DEF PageInv, CursorInv
  <2>2. r \in Row /\ cursor \in Row
    BY <1>1, <2>1 DEF PageInv, TypeOK, Cursor
  <2>3. backend \in {"postgres", "memory"} /\ dir \in {"before", "after"}
    BY <1>1, BackendsAssumption DEF PageInv, TypeOK
  <2>4. QED
    BY <2>1, <2>2, <2>3, RowType DEF Beyond, Older, Reached
<1>2. QED
  BY <1>1, PagesInductive, PTL
=============================================================================
