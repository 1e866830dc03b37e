---------------------------- MODULE MCUserService -----------------------------
(* Three requests: two clients compete for u1, a third creates u2.          *)
EXTENDS UserService, TLC

CONSTANTS p1, p2, r1, r2, r3, u1, u2

MCPods == {p1, p2}
MCRequests == {r1, r2, r3}
MCUsers == {u1, u2}
MCUserOf == [r \in MCRequests |-> IF r = r3 THEN u2 ELSE u1]

\* The smaller instances of the temporal properties.
OnePod == {p1}
TwoRequests == {r1, r2}
OneUser == {u1}
TwoUserOf == [r \in TwoRequests |-> u1]

Symmetry == Permutations(MCPods)
===============================================================================
