---------------------------- MODULE QueueWorker ----------------------------
(***************************************************************************)
(* Pods of the queue worker (apps/worker) on one queue: bootstrap, the     *)
(* jobs they process, the shutdown a signal starts, and crashes.  The      *)
(* queue is BullMQ, external: a job is locked by the pod that takes it,    *)
(* the lock runs out when the pod stops renewing it, a stalled job is      *)
(* given out once more and failed the second time, and what a pod reports  *)
(* of a job it no longer has the lock of is refused.                       *)
(***************************************************************************)
EXTENDS Naturals, FiniteSets

CONSTANTS
  Pods,
  Jobs,
  Malformed,     \* the jobs the payload schema refuses
  Concurrency,   \* WORKER_CONCURRENCY
  MaxTroubles,   \* bound: crashes, blocked event loops and failed closes
  MaxSignals     \* bound: SIGTERM and SIGINT

ASSUME WorkerAssumption ==
  /\ Malformed \subseteq Jobs
  /\ Concurrency \in 1..1000 /\ MaxTroubles \in Nat /\ MaxSignals \in Nat

VARIABLES
  config,     \* does the environment pass loadWorkerConfig?
  pod,        \* pod -> "down", "running", "closing", "exit0", "exit1" or "killed"
  job,        \* job -> "absent", "waiting", "active", "completed" or "failed"
  working,    \* pod -> the jobs whose processor runs
  lock,       \* job -> the pods that hold its lock: one at most
  stalls,     \* job -> how often it stalled
  handled,    \* job -> how often its processor ran to the end
  troubles, signals

workerVars == <<config, pod, job, working, lock, stalls, handled, troubles, signals>>

Ended == {"down", "exit0", "exit1", "killed"}
Alive == {"running", "closing"}
MaxStalledCount == 1    \* BullMQ's default

WorkerInit ==
  /\ config \in BOOLEAN
  /\ pod = [w \in Pods |-> "down"]
  /\ job = [j \in Jobs |-> "absent"]
  /\ working = [w \in Pods |-> {}]
  /\ lock = [j \in Jobs |-> {}]
  /\ stalls = [j \in Jobs |-> 0]
  /\ handled = [j \in Jobs |-> 0]
  /\ troubles = 0 /\ signals = 0

\* bootstrap, when the pod is started or started again: an environment the schema
\* refuses ends the process.
Bootstrap(w) ==
  /\ pod[w] \in Ended
  /\ config \/ pod[w] # "exit1"
  /\ pod' = [pod EXCEPT ![w] = IF config THEN "running" ELSE "exit1"]
  /\ UNCHANGED <<config, job, working, lock, stalls, handled, troubles, signals>>

Enqueue(j) ==
  /\ job[j] = "absent"
  /\ job' = [job EXCEPT ![j] = "waiting"]
  /\ UNCHANGED <<config, pod, working, lock, stalls, handled, troubles, signals>>

\* The Worker takes a job and calls processJob.  That a pod takes back a job it still
\* processes, after a stall, is left out.
Take(w, j) ==
  /\ pod[w] = "running" /\ job[j] = "waiting" /\ j \notin working[w]
  /\ Cardinality(working[w]) < Concurrency
  /\ job' = [job EXCEPT ![j] = "active"]
  /\ working' = [working EXCEPT ![w] = @ \cup {j}]
  /\ lock' = [lock EXCEPT ![j] = {w}]
  /\ UNCHANGED <<config, pod, stalls, handled, troubles, signals>>

\* processJob returns, or throws because the payload is malformed; the queue is told.
Process(w, j) ==
  /\ pod[w] \in Alive /\ j \in working[w]
  /\ working' = [working EXCEPT ![w] = @ \ {j}]
  /\ handled' = [handled EXCEPT ![j] = @ + 1]
  /\ IF w \in lock[j]
       THEN /\ job' = [job EXCEPT ![j] = IF j \in Malformed THEN "failed" ELSE "completed"]
            /\ lock' = [lock EXCEPT ![j] = {}]
       ELSE UNCHANGED <<job, lock>>
  /\ UNCHANGED <<config, pod, stalls, troubles, signals>>

\* Mutant: the process exits without awaiting worker.close().
SignalExits(w) ==
  /\ pod[w] \in Alive /\ signals < MaxSignals
  /\ signals' = signals + 1
  /\ pod' = [pod EXCEPT ![w] = "exit0"]
  /\ working' = [working EXCEPT ![w] = {}]
  /\ UNCHANGED <<config, job, lock, stalls, handled, troubles>>

\* shutdown, on the first signal and on every further one: worker.close() stops taking
\* jobs.
Signal(w) ==
  /\ pod[w] \in Alive /\ signals < MaxSignals
  /\ signals' = signals + 1
  /\ pod' = [pod EXCEPT ![w] = "closing"]
  /\ UNCHANGED <<config, job, working, lock, stalls, handled, troubles>>

\* Mutant: the shutdown waits for the queue to be empty.
ClosedWhenDrained(w) ==
  /\ pod[w] = "closing" /\ working[w] = {} /\ \A j \in Jobs : job[j] # "waiting"
  /\ pod' = [pod EXCEPT ![w] = "exit0"]
  /\ UNCHANGED <<config, job, working, lock, stalls, handled, troubles, signals>>

\* worker.close() resolves when no job is processed any more.
Closed(w) ==
  /\ pod[w] = "closing" /\ working[w] = {}
  /\ pod' = [pod EXCEPT ![w] = "exit0"]
  /\ UNCHANGED <<config, job, working, lock, stalls, handled, troubles, signals>>

\* worker.close() rejects; or the pod dies, by itself or at the end of its grace period.
Stop(w) ==
  /\ troubles < MaxTroubles
  /\ troubles' = troubles + 1
  /\ \/ pod[w] = "closing" /\ pod' = [pod EXCEPT ![w] = "exit1"]
     \/ pod[w] \in Alive /\ pod' = [pod EXCEPT ![w] = "killed"]
  /\ working' = [working EXCEPT ![w] = {}]
  /\ UNCHANGED <<config, job, lock, stalls, handled, signals>>

\* The lock of an active job ran out, because nobody works on it or, in trouble, the
\* event loop of its pod was blocked; a running pod finds it.
Stall(j) ==
  /\ job[j] = "active" /\ \E w \in Pods : pod[w] = "running"
  /\ IF \A w \in lock[j] : j \notin working[w]
       THEN UNCHANGED troubles
       ELSE troubles < MaxTroubles /\ troubles' = troubles + 1
  /\ job' = [job EXCEPT ![j] = IF stalls[j] < MaxStalledCount THEN "waiting" ELSE "failed"]
  /\ stalls' = [stalls EXCEPT ![j] = @ + 1]
  /\ lock' = [lock EXCEPT ![j] = {}]
  /\ UNCHANGED <<config, pod, working, handled, signals>>

WorkerNext ==
  \/ \E w \in Pods : Bootstrap(w) \/ Signal(w) \/ Closed(w) \/ Stop(w)
  \/ \E w \in Pods, j \in Jobs : Take(w, j) \/ Process(w, j)
  \/ \E j \in Jobs : Enqueue(j) \/ Stall(j)

\* The kubelet starts pods again, processors return, closes end, and the queue gives out
\* jobs and finds stalled ones.
WorkerFairness ==
  /\ \A w \in Pods : WF_workerVars(Bootstrap(w)) /\ WF_workerVars(Closed(w))
  /\ \A w \in Pods, j \in Jobs : WF_workerVars(Process(w, j))
  /\ \A j \in Jobs : WF_workerVars(\E w \in Pods : Take(w, j)) /\ WF_workerVars(Stall(j))

WorkerSpec == WorkerInit /\ [][WorkerNext]_workerVars /\ WorkerFairness

-----------------------------------------------------------------------------

\* Shutdowns alone never cost a job anything: without a crash, a blocked event loop or
\* a failed close no job stalls and none is processed twice, however many signals the
\* pods get and however often they are started again (shutdown awaits worker.close()).
ShutdownsAreHarmless == troubles = 0 => \A j \in Jobs : stalls[j] = 0 /\ handled[j] <= 1

\* With a valid configuration every job ends, completed or failed, whatever crashes.
EveryJobEnds == config => \A j \in Jobs : job[j] = "waiting" ~> job[j] \in {"completed", "failed"}
=============================================================================
