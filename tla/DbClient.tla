------------------------------- MODULE DbClient -------------------------------
(***************************************************************************)
(* packages/db-client: the lazily created pg pool under calls of ping() and *)
(* close() that interleave at their awaits.  A pool is named by the ping    *)
(* that created it.  pg itself is external: a pool opens at most            *)
(* MaxConnections clients, connect() on a pool whose end() was called       *)
(* rejects, end() waits for the checked-out clients and rejects when called *)
(* twice.                                                                   *)
(***************************************************************************)
EXTENDS FiniteSetsExt, Integers

CONSTANTS
    Pings,              \* calls of ping()
    Closes,             \* calls of close()
    MaxConnections,     \* options.maxConnections
    NoPool              \* undefined

ASSUME DbAssumption ==
    /\ IsFiniteSet(Pings)
    /\ MaxConnections \in Nat \ {0}
    /\ NoPool \notin Pings

VARIABLES
    pool,       \* the variable pool of createDbClient
    closed,     \* the variable closed
    ping,       \* ping[i]: where the call is
    own,        \* own[i]: the pool the call got from getPool
    close,      \* close[c]: where the call is
    pools,      \* pools[q]: what became of the pool q created
    clients     \* clients[q]: open connections of the pool, its totalCount

dbVars == <<pool, closed, ping, own, close, pools, clients>>

HandedOut(q) == Cardinality({i \in Pings : own[i] = q /\ ping[i] = "holding"})

DbInit ==
    /\ pool = NoPool
    /\ closed = FALSE
    /\ ping = [i \in Pings |-> "idle"]
    /\ own = [i \in Pings |-> NoPool]
    /\ close = [c \in Closes |-> "idle"]
    /\ pools = [q \in Pings |-> "none"]
    /\ clients = [q \in Pings |-> 0]

-------------------------------------------------------------------------------
(* ping                                                                    *)

\* Up to the first await: getPool returns the pool it finds or imports pg.
Ping(i) ==
    /\ ping[i] = "idle"
    /\ \/ /\ pool # NoPool
          /\ ping' = [ping EXCEPT ![i] = "connecting"]
          /\ own' = [own EXCEPT ![i] = pool]
       \/ /\ pool = NoPool
          /\ ping' = [ping EXCEPT ![i] = "loading"]
          /\ UNCHANGED own
    /\ UNCHANGED <<pool, closed, close, pools, clients>>

\* The import resolves: without the driver getPool throws, with it the pool is
\* created and assigned, whatever happened to pool and closed meanwhile.
LoadDriver(i) ==
    /\ ping[i] = "loading"
    /\ \/ /\ ping' = [ping EXCEPT ![i] = "failed"]
          /\ UNCHANGED <<pool, own, pools>>
       \/ /\ ping' = [ping EXCEPT ![i] = "connecting"]
          /\ pool' = i
          /\ own' = [own EXCEPT ![i] = i]
          /\ pools' = [pools EXCEPT ![i] = "open"]
    /\ UNCHANGED <<closed, close, clients>>

\* connect() takes an idle client or opens one; a full pool lets the call wait.
Connect(i) ==
    LET q == own[i] IN
    /\ ping[i] = "connecting"
    /\ \/ /\ pools[q] = "open"
          /\ \/ HandedOut(q) < clients[q] /\ UNCHANGED clients
             \/ /\ HandedOut(q) = clients[q]
                /\ clients[q] < MaxConnections
                /\ clients' = [clients EXCEPT ![q] = @ + 1]
          /\ ping' = [ping EXCEPT ![i] = "holding"]
       \/ /\ pools[q] # "open"
          /\ ping' = [ping EXCEPT ![i] = "failed"]
          /\ UNCHANGED clients
    /\ UNCHANGED <<pool, closed, own, close, pools>>

\* Mutant: the client is not released.
ReleaseForgotten(i) ==
    /\ ping[i] = "holding"
    /\ ping' = [ping EXCEPT ![i] = "ok"]
    /\ UNCHANGED <<pool, closed, own, close, pools, clients>>

\* connect() resolves and the client is released at once, to be closed if the
\* pool is ending; or the connection cannot be opened.
Release(i) ==
    LET q == own[i] IN
    /\ ping[i] = "holding"
    /\ \/ /\ ping' = [ping EXCEPT ![i] = "ok"]
          /\ clients' = IF pools[q] = "open" THEN clients
                                             ELSE [clients EXCEPT ![q] = @ - 1]
       \/ /\ ping' = [ping EXCEPT ![i] = "failed"]
          /\ clients' = [clients EXCEPT ![q] = @ - 1]
    /\ UNCHANGED <<pool, closed, own, close, pools>>

\* idleTimeoutMillis passes for an idle client.
IdleTimeout(q) ==
    /\ clients[q] > HandedOut(q)
    /\ clients' = [clients EXCEPT ![q] = @ - 1]
    /\ UNCHANGED <<pool, closed, ping, own, close, pools>>

-------------------------------------------------------------------------------
(* close                                                                   *)

\* pool.end(): idle clients are closed now; a second call rejects.
EndPool(c, q) ==
    \/ /\ pools[q] = "open"
       /\ pools' = [pools EXCEPT ![q] = "ending"]
       /\ clients' = [clients EXCEPT ![q] = HandedOut(q)]
       /\ close' = [close EXCEPT ![c] = "ending"]
    \/ /\ pools[q] # "open"
       /\ close' = [close EXCEPT ![c] = "rejected"]
       /\ UNCHANGED <<pools, clients>>

\* Mutant: closed is set after the await of pool.end().
CloseFlagLate(c) ==
    /\ close[c] = "idle"
    /\ \/ /\ closed \/ pool = NoPool
          /\ close' = [close EXCEPT ![c] = "returned"]
          /\ UNCHANGED <<pools, clients>>
       \/ ~closed /\ pool # NoPool /\ EndPool(c, pool)
    /\ UNCHANGED <<pool, closed, ping, own>>

\* Up to the await: the first call sets closed and ends the pool it finds.
Close(c) ==
    /\ close[c] = "idle"
    /\ closed' = TRUE
    /\ \/ /\ closed \/ pool = NoPool
          /\ close' = [close EXCEPT ![c] = "returned"]
          /\ UNCHANGED <<pools, clients>>
       \/ ~closed /\ pool # NoPool /\ EndPool(c, pool)
    /\ UNCHANGED <<pool, ping, own>>

\* The last client is gone and end() resolves.
EndResolves(q) ==
    /\ pools[q] = "ending"
    /\ clients[q] = 0
    /\ pools' = [pools EXCEPT ![q] = "ended"]
    /\ close' = [c \in Closes |-> IF close[c] = "ending" THEN "returned" ELSE close[c]]
    /\ UNCHANGED <<pool, closed, ping, own, clients>>

-------------------------------------------------------------------------------
Call == (\E i \in Pings : Ping(i)) \/ (\E c \in Closes : Close(c))

Resume(i) == LoadDriver(i) \/ Connect(i) \/ Release(i)

Continue ==
    \/ \E i \in Pings : Resume(i)
    \/ \E q \in Pings : IdleTimeout(q) \/ EndResolves(q)

DbNext == Call \/ Continue

DbSpec == DbInit /\ [][DbNext]_dbVars

\* The event loop runs continuations as long as there are any, and pg settles what it
\* was asked.  Since every call has finitely many, none is passed over for ever.
Progress == \E i \in Pings : Resume(i) \/ EndResolves(i)

DbFairSpec == DbSpec /\ WF_dbVars(Progress)

-------------------------------------------------------------------------------
(* Properties                                                              *)

DbTypeOK ==
    /\ pool \in Pings \cup {NoPool}
    /\ closed \in BOOLEAN
    /\ ping \in [Pings -> {"idle", "loading", "connecting", "holding", "ok", "failed"}]
    /\ own \in [Pings -> Pings \cup {NoPool}]
    /\ close \in [Closes -> {"idle", "ending", "returned", "rejected"}]
    /\ pools \in [Pings -> {"none", "open", "ending", "ended"}]
    /\ clients \in [Pings -> 0 .. MaxConnections]

\* close() is idempotent as far as pg is concerned: however calls interleave at
\* the await, end() is called at most once on a pool, so no close() rejects.
NoDoubleEnd == \A c \in Closes : close[c] # "rejected"

\* A close() that found a pool resolves: pings in flight give back what they hold.  No
\* call waits for the end of its pool for ever, and what ends a wait is a return
\* (NoDoubleEnd).
CloseReturns == []<>(\A c \in Closes : close[c] # "ending")

\* "Maximum number of clients in the pool": the client, which owns one pool,
\* never holds more connections to the database than that, over all the pools
\* it ever created.
ConnectionsBounded ==
    MapThenSumSet(LAMBDA q : clients[q], Pings) <= MaxConnections
===============================================================================
