------------------------------- MODULE MCReads -------------------------------
(* Instances of MessagePages and RoomView for TLC: the two endpoints that    *)
(* read.  They share nothing, so one run takes either the one or the other.  *)
EXTENDS MessagePages, RoomView

CONSTANTS a, b, c

\* A client that asks for one or two messages, for no limit, or for nonsense.
SmallLimits == {-1, 0, 1, 2}

VARIABLE endpoint

\* A program uses the repositories of one kind.
ReadInit == Init /\ ViewInit /\ repo = backend /\ endpoint \in {"messages", "room"}

ReadNext ==
    \/ endpoint = "messages" /\ Next /\ UNCHANGED viewVars
    \/ endpoint = "room" /\ ViewNext /\ UNCHANGED vars

\* The client that pages goes on asking, as in MessagePages!FairSpec.
ReadSpec ==
    /\ ReadInit
    /\ [][ReadNext /\ UNCHANGED endpoint]_<<vars, viewVars, endpoint>>
    /\ WF_vars(endpoint = "messages" /\ Fetch)
=============================================================================
