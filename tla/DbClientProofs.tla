--------------------------- MODULE DbClientProofs ----------------------------
(* Theorems about packages/db-client for any number of calls and any bound. *)
EXTENDS DbClient, TLAPS

\* Until the first close() no pool has been ended, and the variable pool holds
\* a pool that exists.
Opened ==
    /\ ~closed => \A q \in Pings : pools[q] \in {"none", "open"}
    /\ pool # NoPool => pool \in Pings /\ pools[pool] # "none"

Fields ==
    /\ pool \in Pings \cup {NoPool}
    /\ close \in [Closes -> {"idle", "ending", "returned", "rejected"}]
    /\ pools \in [Pings -> {"none", "open", "ending", "ended"}]

IInv == Fields /\ Opened /\ NoDoubleEnd

\* IInv holds initially.
LEMMA InitIInv == DbInit => IInv
BY DbAssumption DEF DbInit, IInv, Fields, Opened, NoDoubleEnd

\* No step, of any interleaving of the calls, breaks IInv.
LEMMA StepIInv == IInv /\ [DbNext]_dbVars => IInv'
<1> SUFFICES ASSUME IInv, [DbNext]_dbVars PROVE IInv'
  OBVIOUS
<1> USE DbAssumption DEF IInv, Fields, Opened, NoDoubleEnd
<1>1. ASSUME NEW i \in Pings, Ping(i) PROVE IInv'
  BY <1>1 DEF Ping
<1>2. ASSUME NEW i \in Pings, LoadDriver(i) PROVE IInv'
  BY <1>2 DEF LoadDriver
<1>3. ASSUME NEW i \in Pings, Connect(i) PROVE IInv'
  BY <1>3 DEF Connect
<1>4. ASSUME NEW i \in Pings, Release(i) PROVE IInv'
  BY <1>4 DEF Release
<1>5. ASSUME NEW q \in Pings, IdleTimeout(q) PROVE IInv'
  BY <1>5 DEF IdleTimeout
<1>6. ASSUME NEW q \in Pings, EndResolves(q) PROVE IInv'
  BY <1>6 DEF EndResolves
<1>7. ASSUME NEW c \in Closes, Close(c) PROVE IInv'
  <2>1. CASE closed \/ pool = NoPool
    BY <1>7, <2>1 DEF Close
  <2>2. CASE ~closed /\ pool # NoPool
    \* The pool was never ended, so EndPool takes its first branch.
    <3>1. pools[pool] = "open"
      BY <2>2
    <3> QED
      BY <1>7, <2>2, <3>1 DEF Close, EndPool
  <2> QED
    BY <2>1, <2>2
<1>8. CASE UNCHANGED dbVars
  BY <1>8 DEF dbVars
<1> QED
  BY <1>1, <1>2, <1>3, <1>4, <1>5, <1>6, <1>7, <1>8
  DEF DbNext, Call, Continue, Resume

\* However ping() and close() interleave at their awaits, pool.end() is called
\* at most once on a pool, so close() never rejects (index.ts 97-101).
THEOREM CloseNeverRejects == DbSpec => []NoDoubleEnd
<1>1. IInv => NoDoubleEnd
  BY DEF IInv
<1> QED
  BY <1>1, InitIInv, StepIInv, PTL DEF DbSpec
===============================================================================
