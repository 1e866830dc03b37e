-------------------------- MODULE UserServiceProofs ---------------------------
(***************************************************************************)
(* For any number of pods, requests and users: the invariants of           *)
(* UserService, and that it implements UserRegistry.                       *)
(***************************************************************************)
EXTENDS UserService, TLAPS

\* Past the INSERT, the row under the id of a request is its own.
InsertedIsStored ==
    \A r \in Requests :
        pc[r] \in {"publishing", "waiting", "replying"} => rows[UserOf[r]] = r

\* A handler, and a message in a batch, belong to a pod that has not closed
\* its writer.
BusyPodRuns ==
    \A r \in Requests :
        pc[r] \in InHandler \/ r \in pending => at[r] \in Pods /\ Running(at[r])

\* A request nobody has accepted has nothing buffered.
NewIsIdle == \A r \in Requests : pc[r] = "new" => r \notin pending

\* A handler answers once, when it returns.
AnsweredIsDone == \A r \in Requests : pc[r] # "done" => resp[r] = "none"

\* EventsMatchRows alone is not inductive: that Enqueue buffers a stored body
\* is known from the phase of the handler, hence InsertedIsStored; that nothing
\* is left in a closed writer is known from the pod of each message.
IInv ==
    /\ TypeOK
    /\ InsertedIsStored
    /\ EventsMatchRows
    /\ AckedIsStored
    /\ BusyPodRuns
    /\ NewIsIdle
    /\ AnsweredIsDone

\* The initial states satisfy the inductive invariant.
LEMMA InitInv == Init => IInv
<1> SUFFICES ASSUME Init PROVE IInv
  OBVIOUS
<1>1. TypeOK
  BY DEF Init, TypeOK, PodStates, Phases, Statuses
<1>2. QED
  BY <1>1 DEF Init, IInv, InsertedIsStored, EventsMatchRows, AckedIsStored,
              BusyPodRuns, NewIsIdle, AnsweredIsDone, InHandler

\* Every step of the service preserves the inductive invariant.
LEMMA StepInv == IInv /\ [Next]_vars => IInv'
<1> SUFFICES ASSUME IInv, [Next]_vars PROVE IInv'
  OBVIOUS
<1> USE UserOfAssumption, NoneAssumption
        DEF IInv, TypeOK, InsertedIsStored, EventsMatchRows, AckedIsStored,
            BusyPodRuns, NewIsIdle, AnsweredIsDone, InHandler, Phases, PodStates, Statuses,
            Running, handler
<1>1. ASSUME NEW r \in Requests, NEW p \in Pods, Accept(r, p) PROVE IInv'
  BY <1>1 DEF Accept
<1>2. ASSUME NEW r \in Requests, NEW p \in Pods, Reject(r, p) PROVE IInv'
  BY <1>2 DEF Reject, Answer
<1>3. ASSUME NEW r \in Requests, Execute(r) PROVE IInv'
  <2>1. CASE rows[UserOf[r]] = None /\ pc[r] = "creating"
    BY <1>3, <2>1 DEF Execute, Goto
  <2>2. CASE rows[UserOf[r]] = None /\ pc[r] # "creating"
    BY <1>3, <2>2 DEF Execute
  <2>3. CASE rows[UserOf[r]] # None /\ pc[r] = "creating"
    BY <1>3, <2>3 DEF Execute, Answer
  <2>4. CASE rows[UserOf[r]] # None /\ pc[r] # "creating"
    BY <1>3, <2>4 DEF Execute
  <2>5. QED
    BY <2>1, <2>2, <2>3, <2>4
<1>4. ASSUME NEW r \in Requests, CreateFails(r) PROVE IInv'
  BY <1>4 DEF CreateFails, Answer
<1>5. ASSUME NEW r \in Requests, Enqueue(r) PROVE IInv'
  BY <1>5 DEF Enqueue, Goto
<1>6. ASSUME NEW r \in Requests, EnqueueFails(r) PROVE IInv'
  BY <1>6 DEF EnqueueFails, Answer
<1>7. ASSUME NEW r \in Requests, Flush(r) PROVE IInv'
  <2>1. CASE pc[r] = "waiting"
    BY <1>7, <2>1 DEF Flush, Goto
  <2>2. CASE pc[r] # "waiting"
    BY <1>7, <2>2 DEF Flush
  <2>3. QED
    BY <2>1, <2>2
<1>8. ASSUME NEW r \in Requests, FlushFails(r) PROVE IInv'
  <2>1. CASE pc[r] = "waiting"
    BY <1>8, <2>1 DEF FlushFails, Answer
  <2>2. CASE pc[r] # "waiting"
    BY <1>8, <2>2 DEF FlushFails
  <2>3. QED
    BY <2>1, <2>2
<1>9. ASSUME NEW r \in Requests, GiveUp(r) PROVE IInv'
  BY <1>9 DEF GiveUp, Answer
<1>10. ASSUME NEW r \in Requests, Reply(r) PROVE IInv'
  BY <1>10 DEF Reply, Answer
<1>11. ASSUME NEW p \in Pods, Start(p) PROVE IInv'
  BY <1>11 DEF Start
<1>12. ASSUME NEW p \in Pods, Terminate(p) PROVE IInv'
  BY <1>12 DEF Terminate
<1>13. ASSUME NEW p \in Pods, CloseWriter(p) PROVE IInv'
  BY <1>13 DEF CloseWriter, ActiveIn, PendingIn
<1>14. ASSUME NEW p \in Pods, ClosePool(p) PROVE IInv'
  BY <1>14 DEF ClosePool
<1>15. ASSUME NEW p \in Pods, Crash(p) PROVE IInv'
  BY <1>15 DEF Crash, ActiveIn, PendingIn
<1>16. CASE UNCHANGED vars
  BY <1>16 DEF vars
<1>17. QED
  BY <1>1, <1>2, <1>3, <1>4, <1>5, <1>6, <1>7, <1>8, <1>9, <1>10, <1>11,
     <1>12, <1>13, <1>14, <1>15, <1>16 DEF Next, Handle, Advance, Send, Process

\* The inductive invariant holds in every reachable state.
THEOREM Invariance == Spec => []IInv
BY InitInv, StepInv, PTL DEF Spec

\* Every variable keeps its type.
THEOREM TypeCorrectness == Spec => []TypeOK
<1>1. IInv => TypeOK
  BY DEF IInv
<1>2. QED
  BY <1>1, Invariance, PTL

\* Whatever a consumer of user.created reads is the body of a committed row.
THEOREM EventsAreCommitted == Spec => []EventsMatchRows
<1>1. IInv => EventsMatchRows
  BY DEF IInv
<1>2. QED
  BY <1>1, Invariance, PTL

\* A client answered 201 owns the row of its id.
THEOREM CreatedIsDurable == Spec => []AckedIsStored
<1>1. IInv => AckedIsStored
  BY DEF IInv
<1>2. QED
  BY <1>1, Invariance, PTL

\* No handler and no unsent batch outlives the writer and the pool of its pod.
THEOREM SafeShutdown == Spec => []NoUseAfterClose
<1>1. IInv => NoUseAfterClose
  BY DEF IInv, TypeOK, BusyPodRuns, NoUseAfterClose, ActiveIn, PendingIn
<1>2. QED
  BY <1>1, Invariance, PTL

\* The service, with its crashes and lost replies, implements the registry: an
\* INSERT that commits is a Store, a message that reaches the topic an
\* Announce, the 201 an Acknowledge, and every other step a stutter.
THEOREM Refinement == Spec => ImplementsRegistry
<1> DEFINE Acked == {r \in Requests : resp[r] = "201"}
<1>1. Init => Registry!Init
  BY DEF Init, Registry!Init
<1>2. IInv /\ [Next]_vars => [Registry!Next]_(Registry!vars)
  <2> SUFFICES ASSUME IInv, [Next]_vars
               PROVE  Registry!Next \/ UNCHANGED <<rows, topic, Acked>>
    BY DEF Registry!vars
  <2> USE DEF IInv, TypeOK, handler
  <2>1. ASSUME NEW r \in Requests, Execute(r)
        PROVE  Registry!Next \/ UNCHANGED <<rows, topic, Acked>>
    <3>1. Acked' = Acked
      BY <2>1 DEF Execute, Goto, Answer, AnsweredIsDone
    <3>2. rows[UserOf[r]] = None => Registry!Store(r)
      BY <2>1, <3>1 DEF Execute, Registry!Store
    <3>3. rows[UserOf[r]] # None => UNCHANGED <<rows, topic>>
      BY <2>1 DEF Execute
    <3>4. QED
      BY <3>1, <3>2, <3>3 DEF Registry!Next
  <2>2. ASSUME NEW r \in Requests, Send(r)
        PROVE  Registry!Next \/ UNCHANGED <<rows, topic, Acked>>
    <3>1. Acked' = Acked
      BY <2>2 DEF Send, Flush, FlushFails, Goto, Answer, AnsweredIsDone
    <3>2. topic' # topic => Registry!Announce(r)
      BY <2>2, <3>1 DEF Send, Flush, FlushFails, EventsMatchRows, Registry!Announce
    <3>3. UNCHANGED rows
      BY <2>2 DEF Send, Flush, FlushFails
    <3>4. QED
      BY <3>1, <3>2, <3>3 DEF Registry!Next
  <2>3. ASSUME NEW r \in Requests, Reply(r)
        PROVE  Registry!Next \/ UNCHANGED <<rows, topic, Acked>>
    <3>1. rows[UserOf[r]] = r
      BY <2>3 DEF Reply, InsertedIsStored
    <3>2. Acked' = Acked \cup {r}
      BY <2>3 DEF Reply, Answer
    <3>3. Registry!Acknowledge(r)
      BY <2>3, <3>1, <3>2 DEF Reply, Registry!Acknowledge
    <3>4. QED
      BY <3>3 DEF Registry!Next
  <2>4. ASSUME NEW r \in Requests,
               CreateFails(r) \/ Enqueue(r) \/ EnqueueFails(r) \/ GiveUp(r)
        PROVE  UNCHANGED <<rows, topic, Acked>>
    <3>1. rows' = rows /\ topic' = topic
      BY <2>4 DEF CreateFails, Enqueue, EnqueueFails, GiveUp
    <3>2. \/ UNCHANGED resp
          \/ resp[r] = "none" /\ resp' = [resp EXCEPT ![r] = "500"]
      BY <2>4 DEF CreateFails, Enqueue, EnqueueFails, GiveUp, Goto, Answer,
                  AnsweredIsDone
    <3>3. Acked' = Acked
      BY <3>2
    <3>4. QED
      BY <3>1, <3>3
  <2>5. ASSUME NEW r \in Requests, NEW p \in Pods, Accept(r, p) \/ Reject(r, p)
        PROVE  UNCHANGED <<rows, topic, Acked>>
    <3>1. rows' = rows /\ topic' = topic
      BY <2>5 DEF Accept, Reject
    <3>2. \/ UNCHANGED resp
          \/ resp[r] = "none" /\ resp' = [resp EXCEPT ![r] = "400"]
      BY <2>5 DEF Accept, Reject, Answer, AnsweredIsDone
    <3>3. Acked' = Acked
      BY <3>2
    <3>4. QED
      BY <3>1, <3>3
  <2>6. ASSUME NEW p \in Pods, Process(p)
        PROVE  UNCHANGED <<rows, topic, Acked>>
    BY <2>6 DEF Process, Start, Terminate, CloseWriter, ClosePool, Crash
  <2>7. CASE UNCHANGED vars
    BY <2>7 DEF vars
  <2>8. QED
    BY <2>1, <2>2, <2>3, <2>4, <2>5, <2>6, <2>7 DEF Next, Handle, Advance
<1>3. QED
  BY <1>1, <1>2, Invariance, PTL DEF Spec, ImplementsRegistry, Registry!Spec
===============================================================================
