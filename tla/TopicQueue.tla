----------------------------- MODULE TopicQueue -----------------------------
(***************************************************************************)
(* What ChatRoom assumes of a queue: messages take places in one log, each *)
(* subscription has some of these places on their way to its room, loses   *)
(* some of them, and hands the others over in the order of the log.        *)
(***************************************************************************)
EXTENDS Naturals, Sequences

CONSTANTS
    Subs,     \* subscriptions
    Messages  \* what can be published

VARIABLES
    log,  \* messages in the order they were accepted
    sub,  \* for each subscription, the places on their way to its room
    got   \* for each subscription, the places handed to its room

topicVars == <<log, sub, got>>

Init ==
    /\ log = <<>>
    /\ sub = [s \in Subs |-> {}]
    /\ got = [s \in Subs |-> {}]

\* ChatRoom!Accept
Accept ==
    /\ \E msg \in Messages : log' = Append(log, msg)
    /\ \E reached \in SUBSET Subs :
         sub' = [s \in Subs |-> IF s \in reached THEN sub[s] \cup {Len(log) + 1} ELSE sub[s]]
    /\ UNCHANGED got

\* Some of what is on its way is lost, perhaps all.  (ChatRoom, which keeps
\* no record of it, lets a subscription miss such a message from the start.)
Lose(s) ==
    /\ \E kept \in SUBSET sub[s] : sub' = [sub EXCEPT ![s] = kept]
    /\ UNCHANGED <<log, got>>

\* ChatRoom!Receive: the oldest place is next.
Take(s) ==
    /\ \E i \in sub[s] :
         /\ \A j \in sub[s] : i <= j
         /\ sub' = [sub EXCEPT ![s] = @ \ {i}]
         /\ got' = [got EXCEPT ![s] = @ \cup {i}]
    /\ UNCHANGED log

Next == Accept \/ \E s \in Subs : Lose(s) \/ Take(s)

Spec == Init /\ [][Next]_topicVars
=============================================================================
