----------------------------- MODULE MCChatRoom -----------------------------
(* Instances of ChatRoom for TLC. *)
EXTENDS ChatRoomInv, TLC

CONSTANTS m1, m2, n1, n2

\* Every connection is made to the same instance.
Together == [m \in Members |-> n1]

\* m1 and m2 are served by different instances.
Apart == [m \in Members |-> IF m = m1 THEN n1 ELSE n2]

\* Apart treats each member, together with its instance, like the other.
PlaceSymmetry ==
    {p \in Permutations({m1, m2, n1, n2}) :
        {p[m1], p[m2]} = {m1, m2} /\ (p[m1] = m1 <=> p[n1] = n1)}
=============================================================================
