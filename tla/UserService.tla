----------------------------- MODULE UserService ------------------------------
(***************************************************************************)
(* apps/go-hello: the POST /v1/users handler over Postgres and Kafka, run  *)
(* by several pods that are terminated, killed and restarted.              *)
(*                                                                         *)
(* A creation request is decoded, inserted, published and answered, each a *)
(* step in which the dependency may fail, or do its work and still report  *)
(* an error (a lost reply, the request context cancelled).  The kafka-go   *)
(* writer buffers a message and sends it later; main.go leaves             *)
(* RequiredAcks at its zero value, so a send the writer reports as done    *)
(* may never reach the topic.                                              *)
(***************************************************************************)
EXTENDS Naturals

CONSTANTS
    Pods,       \* replicas of the service
    Requests,   \* creation requests; a client's retry is another request
    Users,      \* user ids
    UserOf,     \* UserOf[r]: the id in the body of r
    None        \* no request, no pod

ASSUME UserOfAssumption == UserOf \in [Requests -> Users]
ASSUME NoneAssumption == None \notin Requests \cup Pods

VARIABLES
    pod,        \* pod[p]: where main() of p is
    pc,         \* pc[r]: where the handler of r is
    at,         \* at[r]: the pod that serves r
    resp,       \* resp[r]: the status the client of r was answered with
    sql,        \* requests whose INSERT is with Postgres and has not run
    rows,       \* rows[u]: the request whose body is the row of u, or None
    pending,    \* requests whose event sits in the writer of their pod
    topic       \* requests whose event is on the user.created topic

vars == <<pod, pc, at, resp, sql, rows, pending, topic>>
handler == <<pc, at, resp>>

PodStates == {"serving", "draining", "writerClosed", "stopped"}
Phases == {"new", "creating", "publishing", "waiting", "replying", "done"}
InHandler == {"creating", "publishing", "waiting", "replying"}
Statuses == {"none", "201", "400", "500"}

\* The handlers that run in pod p: the connections srv.Shutdown waits for.
ActiveIn(p) == {r \in Requests : at[r] = p /\ pc[r] \in InHandler}
PendingIn(p) == {r \in pending : at[r] = p}
Running(p) == pod[p] \in {"serving", "draining"}

Init ==
    /\ pod = [p \in Pods |-> "stopped"]
    /\ pc = [r \in Requests |-> "new"]
    /\ at = [r \in Requests |-> None]
    /\ resp = [r \in Requests |-> "none"]
    /\ sql = {}
    /\ rows = [u \in Users |-> None]
    /\ pending = {}
    /\ topic = {}

\* http.Error or WriteHeader: the handler of r returns and the client sees s.
Answer(r, s) ==
    /\ pc' = [pc EXCEPT ![r] = "done"]
    /\ resp' = [resp EXCEPT ![r] = s]
    /\ UNCHANGED at

Goto(r, phase) ==
    /\ pc' = [pc EXCEPT ![r] = phase]
    /\ UNCHANGED <<at, resp>>

-------------------------------------------------------------------------------
(* The handler                                                             *)

\* The body decodes into a user and store.Create sends the INSERT.
Accept(r, p) ==
    /\ pod[p] = "serving"
    /\ pc[r] = "new"
    /\ pc' = [pc EXCEPT ![r] = "creating"]
    /\ at' = [at EXCEPT ![r] = p]
    /\ sql' = sql \cup {r}
    /\ UNCHANGED <<pod, resp, rows, pending, topic>>

\* The body does not decode.
Reject(r, p) ==
    /\ pod[p] = "serving"
    /\ pc[r] = "new"
    /\ Answer(r, "400")
    /\ UNCHANGED <<pod, sql, rows, pending, topic>>

\* Mutant: INSERT ... ON CONFLICT DO NOTHING, so the handler goes on to publish.
ExecuteDoNothing(r) ==
    /\ r \in sql
    /\ sql' = sql \ {r}
    /\ rows' = [rows EXCEPT ![UserOf[r]] = IF @ = None THEN r ELSE @]
    /\ IF pc[r] = "creating" THEN Goto(r, "publishing") ELSE UNCHANGED handler
    /\ UNCHANGED <<pod, pending, topic>>

\* Mutant: INSERT ... ON CONFLICT DO UPDATE.
ExecuteUpsert(r) ==
    /\ r \in sql
    /\ sql' = sql \ {r}
    /\ rows' = [rows EXCEPT ![UserOf[r]] = r]
    /\ IF pc[r] = "creating" THEN Goto(r, "publishing") ELSE UNCHANGED handler
    /\ UNCHANGED <<pod, pending, topic>>

\* Postgres runs the INSERT: it commits if the id is free and violates the
\* primary key if not.  A handler that still waits in Exec hears of it.
Execute(r) ==
    /\ r \in sql
    /\ sql' = sql \ {r}
    /\ IF rows[UserOf[r]] = None
       THEN /\ rows' = [rows EXCEPT ![UserOf[r]] = r]
            /\ IF pc[r] = "creating" THEN Goto(r, "publishing")
                                     ELSE UNCHANGED handler
       ELSE /\ UNCHANGED rows
            /\ IF pc[r] = "creating" THEN Answer(r, "500")
                                     ELSE UNCHANGED handler
    /\ UNCHANGED <<pod, pending, topic>>

\* Mutant: the error of Create is logged and not returned.
CreateFailsIgnored(r) ==
    /\ pc[r] = "creating"
    /\ Goto(r, "publishing")
    /\ UNCHANGED <<pod, sql, rows, pending, topic>>

\* Exec returns an error (no connection, context done).  The statement, if it
\* was sent, is not undone: it may run later, or never.
CreateFails(r) ==
    /\ pc[r] = "creating"
    /\ Answer(r, "500")
    /\ UNCHANGED <<pod, sql, rows, pending, topic>>

\* WriteMessages puts the message in a batch of the pod's writer and waits ...
Enqueue(r) ==
    /\ pc[r] = "publishing"
    /\ pending' = pending \cup {r}
    /\ Goto(r, "waiting")
    /\ UNCHANGED <<pod, sql, rows, topic>>

\* ... or fails before it does (no partition metadata, context done).
EnqueueFails(r) ==
    /\ pc[r] = "publishing"
    /\ Answer(r, "500")
    /\ UNCHANGED <<pod, sql, rows, pending, topic>>

\* The writer sends the message, gives no error, and the broker may lose it.
Flush(r) ==
    /\ r \in pending
    /\ pending' = pending \ {r}
    /\ topic' \in {topic, topic \cup {r}}
    /\ IF pc[r] = "waiting" THEN Goto(r, "replying") ELSE UNCHANGED handler
    /\ UNCHANGED <<pod, sql, rows>>

\* The writer runs out of attempts, one of which may have reached the broker.
FlushFails(r) ==
    /\ r \in pending
    /\ pending' = pending \ {r}
    /\ topic' \in {topic, topic \cup {r}}
    /\ IF pc[r] = "waiting" THEN Answer(r, "500") ELSE UNCHANGED handler
    /\ UNCHANGED <<pod, sql, rows>>

\* The request context ends while WriteMessages waits: it returns ctx.Err() and
\* the message stays in the batch.
GiveUp(r) ==
    /\ pc[r] = "waiting"
    /\ Answer(r, "500")
    /\ UNCHANGED <<pod, sql, rows, pending, topic>>

\* Mutant: the handler forgets WriteHeader, so net/http answers 200.
ReplyDefault(r) ==
    /\ pc[r] = "replying"
    /\ Answer(r, "200")
    /\ UNCHANGED <<pod, sql, rows, pending, topic>>

Reply(r) ==
    /\ pc[r] = "replying"
    /\ Answer(r, "201")
    /\ UNCHANGED <<pod, sql, rows, pending, topic>>

-------------------------------------------------------------------------------
(* The process                                                             *)

Start(p) ==
    /\ pod[p] = "stopped"
    /\ pod' = [pod EXCEPT ![p] = "serving"]
    /\ UNCHANGED <<handler, sql, rows, pending, topic>>

\* SIGINT or SIGTERM: srv.Shutdown stops accepting.
Terminate(p) ==
    /\ pod[p] = "serving"
    /\ pod' = [pod EXCEPT ![p] = "draining"]
    /\ UNCHANGED <<handler, sql, rows, pending, topic>>

\* Mutant: srv.Close instead of srv.Shutdown, which does not wait for handlers.
CloseWriterAtOnce(p) ==
    /\ pod[p] = "draining"
    /\ pod' = [pod EXCEPT ![p] = "writerClosed"]
    /\ UNCHANGED <<handler, sql, rows, pending, topic>>

\* srv.Shutdown has seen every connection idle; the deferred kw.Close returns
\* once the writer's batches are out.
CloseWriter(p) ==
    /\ pod[p] = "draining"
    /\ ActiveIn(p) = {}
    /\ PendingIn(p) = {}
    /\ pod' = [pod EXCEPT ![p] = "writerClosed"]
    /\ UNCHANGED <<handler, sql, rows, pending, topic>>

\* Mutant: a handler keeps its connection on the error path, and pool.Close
\* waits for every connection to come back.
ClosePoolLeaked(p) ==
    /\ pod[p] = "writerClosed"
    /\ \A r \in Requests : at[r] = p => resp[r] # "500"
    /\ pod' = [pod EXCEPT ![p] = "stopped"]
    /\ UNCHANGED <<handler, sql, rows, pending, topic>>

\* The remaining deferred calls (pool.Close, the tracer) run and main returns.
ClosePool(p) ==
    /\ pod[p] = "writerClosed"
    /\ pod' = [pod EXCEPT ![p] = "stopped"]
    /\ UNCHANGED <<handler, sql, rows, pending, topic>>

\* SIGKILL, out of memory, lost node: handlers and batches vanish, what was sent
\* to Postgres stays.
Crash(p) ==
    /\ pod[p] # "stopped"
    /\ pod' = [pod EXCEPT ![p] = "stopped"]
    /\ pc' = [r \in Requests |-> IF r \in ActiveIn(p) THEN "done" ELSE pc[r]]
    /\ pending' = pending \ PendingIn(p)
    /\ UNCHANGED <<at, resp, sql, rows, topic>>

-------------------------------------------------------------------------------
\* The calls of the handler that return by themselves.
Advance(r) ==
    \/ pc[r] = "creating" /\ Execute(r)
    \/ CreateFails(r)
    \/ Enqueue(r)
    \/ EnqueueFails(r)
    \/ Reply(r)

Handle(r) == Advance(r) \/ Execute(r) \/ GiveUp(r)

Send(r) == Flush(r) \/ FlushFails(r)

Process(p) ==
    \/ Start(p)
    \/ Terminate(p)
    \/ CloseWriter(p)
    \/ ClosePool(p)
    \/ Crash(p)

Next ==
    \/ \E r \in Requests, p \in Pods : Accept(r, p) \/ Reject(r, p)
    \/ \E r \in Requests : Handle(r) \/ Send(r)
    \/ \E p \in Pods : Process(p)

Spec == Init /\ [][Next]_vars

\* Every call to Postgres returns, the writer's background loop sends or gives
\* up (its attempts and timeouts are bounded), and main() goes on after a
\* signal.  Nobody owes the service a request, a signal, a restart, a cancelled
\* context, or the execution of a statement nobody waits for.
Fairness ==
    /\ \A r \in Requests : WF_vars(Advance(r)) /\ WF_vars(Send(r))
    /\ \A p \in Pods : WF_vars(CloseWriter(p)) /\ WF_vars(ClosePool(p))

FairSpec == Spec /\ Fairness

-------------------------------------------------------------------------------
(* Properties                                                              *)

TypeOK ==
    /\ pod \in [Pods -> PodStates]
    /\ pc \in [Requests -> Phases]
    /\ at \in [Requests -> Pods \cup {None}]
    /\ resp \in [Requests -> Statuses]
    /\ sql \subseteq Requests
    /\ rows \in [Users -> Requests \cup {None}]
    /\ pending \subseteq Requests
    /\ topic \subseteq Requests

\* No event names data that is not in the database: what a writer holds and
\* what consumers of user.created can read is the body of the row, although
\* several requests compete for one id and any of them may be retried.
EventsMatchRows == \A r \in pending \cup topic : rows[UserOf[r]] = r

\* A client answered 201 finds its own data under the id, whatever the crashes,
\* the retries and the other clients of that id.
AckedIsStored == \A r \in Requests : resp[r] = "201" => rows[UserOf[r]] = r

\* The order of shutdown (Shutdown waits, then the deferred calls run last to
\* first) keeps the pool and the writer open for as long as a handler or an
\* unsent batch of the pod can use them.
NoUseAfterClose ==
    \A p \in Pods : ActiveIn(p) # {} \/ PendingIn(p) # {} => Running(p)

\* A terminated pod stops: nothing a handler waits for can hold Shutdown, and
\* no unsent batch can hold kw.Close, for ever.
DrainEnds == \A p \in Pods : pod[p] = "draining" ~> pod[p] = "stopped"

\* The endpoint table promises that creating a user publishes user.created:
\* "POST | Create user - publishes `user.created` to Kafka".
StoredIsAnnounced ==
    \A u \in Users : rows[u] # None ~> \E r \in topic : UserOf[r] = u

-------------------------------------------------------------------------------
(* The promise                                                             *)

\* A request is announced once its event is on the topic, and acknowledged
\* once its client has been answered 201.
Registry == INSTANCE UserRegistry WITH
    stored <- rows,
    announced <- topic,
    acked <- {r \in Requests : resp[r] = "201"}

\* The service keeps the promise of UserRegistry.
ImplementsRegistry == Registry!Spec
===============================================================================
