---------------------------- MODULE MessagePages ----------------------------
(***************************************************************************)
(* Reading a room's messages page by page while messages are inserted.     *)
(*                                                                         *)
(* A client follows the "next" cursor of each response until a page is     *)
(* empty: backwards from the newest message, or forwards from one it has.  *)
(* Both repositories are modelled; which one serves is fixed at the start. *)
(***************************************************************************)
EXTENDS Integers, FiniteSets

CONSTANTS
    Backends,      \* the repositories to consider
    Ids,           \* message IDs; their order is that of message_id
    MaxTime,       \* bound: clock readings 0 .. MaxTime
    Limits,        \* limits a client asks for
    DefaultLimit,  \* Postgres: the limit that stands for 0
    NoRow          \* the empty cursor

ASSUME BackendsAssumption == Backends \subseteq {"postgres", "memory"}
ASSUME IdsAssumption == Ids \subseteq Int
ASSUME MaxTimeAssumption == MaxTime \in Nat
ASSUME LimitsAssumption == Limits \subseteq Int
ASSUME DefaultLimitAssumption == DefaultLimit \in Nat \ {0}

Row == [sent : 0 .. MaxTime, id : Ids]
ASSUME NoRowAssumption == NoRow \notin Row

\* A cursor is empty or names a row: its text keeps the row's time and ID.
Cursor == Row \cup {NoRow}

VARIABLES
    backend,   \* "postgres" or "memory"
    clock,     \* NOW(), time.Now()
    inflight,  \* rows of transactions that have not committed
    rows,      \* rows that a query sees
    dir,       \* direction of the client's paging
    cursor,    \* the cursor it sends next
    got,       \* messages it has received
    goal,      \* messages that were there to be received when it started
    phase      \* idle, paging or done

tableVars  == <<backend, clock, inflight, rows>>
clientVars == <<dir, cursor, got, goal, phase>>
vars == <<tableVars, clientVars>>

Init ==
    /\ backend \in Backends
    /\ clock = 0
    /\ inflight = {} /\ rows = {}
    /\ dir = "before" /\ cursor = NoRow
    /\ got = {} /\ goal = {}
    /\ phase = "idle"

-----------------------------------------------------------------------------
(* Insertions.  Two messages can carry the same time.                      *)

Fresh(id) == \A r \in rows \cup inflight : r.id # id

Tick ==
    /\ clock < MaxTime
    /\ clock' = clock + 1
    /\ UNCHANGED <<backend, inflight, rows, clientVars>>

\* Postgres: "sent" is the time at which the transaction started ...
Begin(id) ==
    /\ backend = "postgres" /\ Fresh(id)
    /\ inflight' = inflight \cup {[sent |-> clock, id |-> id]}
    /\ UNCHANGED <<backend, clock, rows, clientVars>>

\* ... and the row is visible from its commit on.
Commit(r) ==
    /\ r \in inflight
    /\ inflight' = inflight \ {r}
    /\ rows' = rows \cup {r}
    /\ UNCHANGED <<backend, clock, clientVars>>

\* Memory: both at once, under the mutex.
InsertMessage(id) ==
    /\ backend = "memory" /\ Fresh(id)
    /\ rows' = rows \cup {[sent |-> clock, id |-> id]}
    /\ UNCHANGED <<backend, clock, inflight, clientVars>>

-----------------------------------------------------------------------------
(* GetMessages                                                             *)

\* SQL's (sent, message_id) < (sent, message_id).
Older(a, b) == a.sent < b.sent \/ (a.sent = b.sent /\ a.id < b.id)

\* Mutant: backwards is not sorted in descending order.
PrecedesAscending(a, b) ==
    \/ a.sent < b.sent
    \/ backend = "postgres" /\ a.sent = b.sent /\ a.id < b.id

\* a stands before b in the sorted result.  message_id is ascending in both
\* directions; the sort of the memory repository leaves ties in any order.
Precedes(a, b) ==
    \/ IF dir = "after" THEN a.sent < b.sent ELSE a.sent > b.sent
    \/ backend = "postgres" /\ a.sent = b.sent /\ a.id < b.id

\* Mutants: rows are read before their commit; the cursor's own row is
\* included; only the times are compared.
BeyondDirty ==
    {r \in rows \cup inflight : cursor = NoRow \/
        IF dir = "after" THEN Older(cursor, r) ELSE Older(r, cursor)}
BeyondInclusive ==
    {r \in rows : cursor = NoRow \/
        IF dir = "after" THEN ~Older(r, cursor) ELSE ~Older(cursor, r)}
BeyondTime ==
    {r \in rows : cursor = NoRow \/
        IF dir = "after" THEN cursor.sent < r.sent ELSE r.sent < cursor.sent}

\* The rows on the far side of the cursor.
Beyond ==
    {r \in rows :
        \/ cursor = NoRow
        \/ /\ backend = "postgres"
           /\ IF dir = "after" THEN Older(cursor, r) ELSE Older(r, cursor)
        \/ /\ backend = "memory" /\ r.id # cursor.id
           /\ IF dir = "after" THEN r.sent >= cursor.sent ELSE r.sent <= cursor.sent}

\* The number of rows a limit stands for; 0 is the absent limit.
Size(limit) ==
    IF limit # 0 THEN limit
    ELSE IF backend = "postgres" THEN DefaultLimit ELSE Cardinality(rows)

\* What a query for k rows may return: the first k rows beyond the cursor.
Pages(k) ==
    {P \in SUBSET Beyond :
        /\ Cardinality(P) = IF k < Cardinality(Beyond) THEN k ELSE Cardinality(Beyond)
        /\ \A x \in P, y \in Beyond \ P : ~Precedes(y, x)}

LastOf(P) == {x \in P : \A y \in P : ~Precedes(x, y)}

Validate(limit) == limit >= 0

\* One request.  The last message of the response is the next cursor; the
\* client stops at an empty page.
GetMessages(limit) ==
    /\ phase = "paging" /\ Validate(limit)
    /\ \E P \in Pages(Size(limit)) :
         \/ /\ P = {}
            /\ phase' = "done"
            /\ UNCHANGED <<cursor, got>>
         \/ /\ cursor' \in LastOf(P)
            /\ got' = got \cup P
            /\ UNCHANGED phase
    /\ UNCHANGED <<tableVars, dir, goal>>

\* The first request has no cursor ...
StartBackward ==
    /\ phase = "idle"
    /\ phase' = "paging"
    /\ dir' = "before"
    /\ goal' = rows
    /\ UNCHANGED <<tableVars, cursor, got>>

\* ... or the cursor of a message r the client has.
StartForward(r) ==
    /\ phase = "idle" /\ r \in rows
    /\ phase' = "paging"
    /\ dir' = "after"
    /\ cursor' = r
    /\ got' = {r}
    /\ goal' = {x \in rows : Older(r, x)}
    /\ UNCHANGED tableVars

-----------------------------------------------------------------------------
Fetch == \E limit \in Limits : GetMessages(limit)

Next ==
    \/ Tick
    \/ \E id \in Ids : Begin(id) \/ InsertMessage(id)
    \/ \E r \in inflight : Commit(r)
    \/ StartBackward
    \/ \E r \in rows : StartForward(r)
    \/ Fetch

Spec == Init /\ [][Next]_vars

\* The client goes on asking.
FairSpec == Spec /\ WF_vars(Fetch)

-----------------------------------------------------------------------------
(* Properties                                                              *)

\* Types of the variables.
TypeOK ==
    /\ backend \in Backends
    /\ clock \in 0 .. MaxTime
    /\ inflight \subseteq Row /\ rows \subseteq Row
    /\ IsFiniteSet(rows)
    /\ dir \in {"before", "after"}
    /\ cursor \in Cursor
    /\ got \subseteq rows /\ goal \subseteq rows
    /\ phase \in {"idle", "paging", "done"}

\* Paging forwards misses nothing that was there when it started, whatever
\* is inserted meanwhile and however many messages carry the same time.
ForwardComplete == phase = "done" /\ dir = "after" => goal \subseteq got

\* Paging backwards misses only messages that carry the same time as one that
\* was received.
BackwardMissesTies ==
    phase = "done" /\ dir = "before" =>
        \A r \in goal \ got : \E x \in got : x.sent = r.sent

\* A page repeats a message only where several carry the same time, and in
\* Postgres never forwards.
NextIsNew ==
    phase = "paging" =>
        \A r \in got \cap Beyond :
            r.sent = cursor.sent /\ (backend = "memory" \/ dir = "before")

\* A client that asks until a page is empty comes to an end; with the memory
\* repository this takes messages that all carry different times.
PagingEnds ==
    phase = "paging" ~>
        \/ phase = "done"
        \/ backend = "memory" /\ \E r, x \in rows : r # x /\ r.sent = x.sent

\* README.md:159: the messages endpoint returns "all historical messages".
AllReturned == phase = "done" => goal \subseteq got
=============================================================================
