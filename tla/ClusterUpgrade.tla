---------------------------- MODULE ClusterUpgrade ----------------------------
(***************************************************************************)
(* infra/ansible/playbooks/upgrade.yml: the control planes one at a time,  *)
(* then the workers in batches, each batch going through the task list     *)
(* together (the linear strategy).  A host whose task fails leaves its     *)
(* batch; a batch all of whose hosts fail ends the playbook; the operator  *)
(* interrupts and repeats runs.  A task that fails may have had its effect.*)
(***************************************************************************)
EXTENDS Integers, Sequences, FiniteSets

CONSTANTS
    ControlPlanes,  \* number of hosts in the group control_plane
    WorkerNodes,    \* number of hosts in the group workers
    MaxUnavailable, \* worker_max_unavailable, the serial of the worker play
    MaxUpgrades     \* bound on the runs of the playbook

ASSUME UpgradeAssumption ==
    /\ ControlPlanes \in Nat \ {0} /\ WorkerNodes \in Nat
    /\ MaxUnavailable \in Nat \ {0} /\ MaxUpgrades \in Nat

\* Hosts are numbered in inventory order, control planes first.
Cps == 1 .. ControlPlanes
Workers == ControlPlanes + 1 .. ControlPlanes + WorkerNodes
Nodes == Cps \cup Workers

VARIABLES
    play,       \* "idle", a play, or how the last run ended
    first,      \* the first host of the batch
    batch,      \* hosts of the batch that have not failed
    task,       \* index of the batch's next task
    failures,   \* hosts that failed in this run
    runs,       \* runs started
    node,       \* what the nodes have, each field a set of nodes
    broken      \* history: workers left by a run between drain and uncordon

upgradeVars == <<play, first, batch, task, failures, runs, node, broken>>

\* Mutant: the packages are not held again.
CpTasksUnheld == <<"unhold", "kubeadm", "control", "packages", "packages", "restart">>

CpTasks == <<"unhold", "kubeadm", "control", "packages", "hold", "restart">>

\* Mutant: the node is not uncordoned.
WorkerTasksCordoned == <<"drain", "packages", "control", "restart", "restart">>

WorkerTasks == <<"drain", "packages", "control", "restart", "uncordon">>

Tasks == IF play = "cp" THEN CpTasks ELSE WorkerTasks

\* What a task does on the hosts S: unheld, kubeadm, control (kubeadm upgrade
\* apply or node), packages and kubelet collect nodes at the target version.
Effect(t, S, n) ==
    CASE t = "unhold" -> [n EXCEPT !.unheld = @ \cup S]
      [] t = "kubeadm" -> [n EXCEPT !.kubeadm = @ \cup S]
      [] t = "control" -> [n EXCEPT !.control = @ \cup S]
      [] t = "packages" -> [n EXCEPT !.packages = @ \cup S]
      [] t = "hold" -> [n EXCEPT !.unheld = @ \ S]
      [] t = "restart" -> [n EXCEPT !.kubelet = @ \cup (S \cap n.packages)]
      [] t = "drain" -> [n EXCEPT !.cordoned = @ \cup S]
      [] t = "uncordon" -> [n EXCEPT !.cordoned = @ \ S]

\* Mutant: no serial in the control plane play.
SerialAll(p) == IF p = "cp" THEN ControlPlanes ELSE MaxUnavailable

Serial(p) == IF p = "cp" THEN 1 ELSE MaxUnavailable

\* The next hosts of the play, in inventory order.
BatchFrom(p, i) ==
    {h \in IF p = "cp" THEN Cps ELSE Workers : i <= h /\ h < i + Serial(p)}

UpgradeInit ==
    /\ play = "idle" /\ first = 1 /\ batch = {} /\ task = 1
    /\ failures = {} /\ runs = 0
    /\ node = [unheld |-> {}, kubeadm |-> {}, control |-> {}, packages |-> {},
               kubelet |-> {}, cordoned |-> {}]
    /\ broken = {}

-------------------------------------------------------------------------------
\* ansible-playbook upgrade.yml, for the first time or again.
Start ==
    /\ play \notin {"cp", "workers"}
    /\ runs < MaxUpgrades
    /\ runs' = runs + 1
    /\ play' = "cp" /\ first' = 1 /\ batch' = BatchFrom("cp", 1) /\ task' = 1
    /\ failures' = {}
    /\ UNCHANGED <<node, broken>>

\* The batch runs its next task; the hosts F fail, of which P were changed.
RunTask ==
    /\ play \in {"cp", "workers"}
    /\ batch # {} /\ task <= Len(Tasks)
    /\ \E F \in SUBSET batch : \E P \in SUBSET F :
          /\ node' = Effect(Tasks[task], (batch \ F) \cup P, node)
          /\ batch' = batch \ F
          /\ failures' = failures \cup F
          /\ broken' = IF play = "cp" THEN broken ELSE broken \cup F
    /\ task' = task + 1
    /\ UNCHANGED <<play, first, runs>>

BatchOver == play \in {"cp", "workers"} /\ (batch = {} \/ task > Len(Tasks))

\* Mutant: the worker play starts when the control planes have failed.
BatchFailedIgnored ==
    /\ BatchOver /\ batch = {}
    /\ IF play = "cp"
       THEN /\ play' = "workers" /\ first' = ControlPlanes + 1 /\ task' = 1
            /\ batch' = BatchFrom("workers", ControlPlanes + 1)
       ELSE play' = "failed" /\ UNCHANGED <<first, batch, task>>
    /\ UNCHANGED <<failures, runs, node, broken>>

\* Every host of the batch has failed: the playbook stops.
BatchFailed ==
    /\ BatchOver /\ batch = {}
    /\ play' = "failed"
    /\ UNCHANGED <<first, batch, task, failures, runs, node, broken>>

\* Some host got through: the next batch of the play ...
NextBatch ==
    /\ BatchOver /\ batch # {}
    /\ first' = first + Serial(play)
    /\ BatchFrom(play, first') # {}
    /\ batch' = BatchFrom(play, first') /\ task' = 1
    /\ broken' = broken \ batch
    /\ UNCHANGED <<play, failures, runs, node>>

\* ... or the next play, if it has hosts, or the end.
NextPlay ==
    LET i == ControlPlanes + 1 IN
    /\ BatchOver /\ batch # {}
    /\ BatchFrom(play, first + Serial(play)) = {}
    /\ \/ /\ play = "cp" /\ BatchFrom("workers", i) # {}
          /\ play' = "workers" /\ first' = i /\ task' = 1
          /\ batch' = BatchFrom("workers", i)
       \/ /\ play = "cp" => BatchFrom("workers", i) = {}
          /\ play' = "done" /\ batch' = {}
          /\ UNCHANGED <<first, task>>
    /\ broken' = broken \ batch
    /\ UNCHANGED <<failures, runs, node>>

\* The run is interrupted.
Abort ==
    /\ play \in {"cp", "workers"}
    /\ play' = "failed" /\ batch' = {}
    /\ broken' = IF play = "cp" THEN broken ELSE broken \cup batch
    /\ UNCHANGED <<first, task, failures, runs, node>>

UpgradeNext == Start \/ RunTask \/ BatchFailed \/ NextBatch \/ NextPlay \/ Abort

UpgradeSpec == UpgradeInit /\ [][UpgradeNext]_upgradeVars

-------------------------------------------------------------------------------
(* Properties                                                              *)

UpgradeTypeOK ==
    /\ play \in {"idle", "cp", "workers", "done", "failed"}
    /\ first \in 1 .. ControlPlanes + WorkerNodes
    /\ batch \subseteq Nodes /\ failures \subseteq Nodes /\ broken \subseteq Workers
    /\ task \in 1 .. Len(CpTasks) + 1
    /\ runs \in 0 .. MaxUpgrades
    /\ node \in [unheld : SUBSET Nodes, kubeadm : SUBSET Nodes,
                control : SUBSET Nodes, packages : SUBSET Nodes,
                kubelet : SUBSET Nodes, cordoned : SUBSET Nodes]

Upgraded(h) == h \in node.kubeadm \cap node.control \cap node.packages \cap node.kubelet
Touched(h) == h \in node.kubeadm \cup node.control \cup node.packages \cup node.kubelet

\* The control planes are upgraded one at a time, across failures and repeated
\* runs: nothing of a control plane changes before the one before it is done.
OneAtATime ==
    \A h \in Cps : Touched(h) => \A g \in 1 .. h - 1 : Upgraded(g)

\* No worker runs a kubelet newer than a control plane.
WorkersBehind ==
    \A w \in Workers, h \in Cps : w \in node.packages => h \in node.control

\* A run that ends without a failure has repaired what earlier runs left: every
\* node is upgraded, held and schedulable.
CleanRunRepairs ==
    play = "done" /\ failures = {}
        => /\ node.cordoned = {} /\ node.unheld = {}
           /\ \A h \in Nodes : h \in node.control \cap node.kubelet

\* A worker is only unschedulable while its batch is in hand, or because a run
\* failed on it; so one run takes away MaxUnavailable workers plus its failures.
CordonAccounted ==
    /\ node.cordoned \subseteq batch \cup broken
    /\ play = "workers" => Cardinality(batch) <= MaxUnavailable

\* "Upgrade workers (respect max_unavailable)".
RespectsMaxUnavailable == Cardinality(node.cordoned) <= MaxUnavailable
===============================================================================
