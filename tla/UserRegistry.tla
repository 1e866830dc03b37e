----------------------------- MODULE UserRegistry -----------------------------
(***************************************************************************)
(* What the users endpoint promises, without pods, writers or failures: a  *)
(* user id is taken once, by one creation request; only the request that   *)
(* took it is ever announced on the topic or answered with success.        *)
(***************************************************************************)
CONSTANTS
    Requests,   \* creation requests (POST /v1/users)
    Users,      \* user ids
    UserOf,     \* UserOf[r]: the id in the body of r
    None        \* no request

VARIABLES
    stored,     \* stored[u]: the request whose body is the row of u, or None
    announced,  \* requests whose user.created event is on the topic
    acked       \* requests answered with success

vars == <<stored, announced, acked>>

Init ==
    /\ stored = [u \in Users |-> None]
    /\ announced = {}
    /\ acked = {}

\* The id of r is free and r takes it.
Store(r) ==
    /\ stored[UserOf[r]] = None
    /\ stored' = [stored EXCEPT ![UserOf[r]] = r]
    /\ UNCHANGED <<announced, acked>>

\* The request that took the id is announced.
Announce(r) ==
    /\ stored[UserOf[r]] = r
    /\ announced' = announced \cup {r}
    /\ UNCHANGED <<stored, acked>>

\* The request that took the id is answered with success.
Acknowledge(r) ==
    /\ stored[UserOf[r]] = r
    /\ acked' = acked \cup {r}
    /\ UNCHANGED <<stored, announced>>

Next == \E r \in Requests : Store(r) \/ Announce(r) \/ Acknowledge(r)

Spec == Init /\ [][Next]_vars
===============================================================================
