------------------------- MODULE ClusterUpgradeProofs -------------------------
(* Theorems about upgrade.yml, for any inventory, any worker_max_unavailable *)
(* and any number of failed, interrupted and repeated runs.                  *)
EXTENDS ClusterUpgrade, FiniteSetTheorems, TLAPS

TaskNames == {"unhold", "kubeadm", "control", "packages", "hold", "restart",
              "drain", "uncordon"}
NodeRecords == [unheld : SUBSET Nodes, kubeadm : SUBSET Nodes,
                control : SUBSET Nodes, packages : SUBSET Nodes,
                kubelet : SUBSET Nodes, cordoned : SUBSET Nodes]

\* A task only ever adds the hosts S it ran on to what is upgraded, and a task
\* of a name does what its name says: m is n after t.
EffectShape(t, S, n, m) ==
    /\ m \in NodeRecords
    /\ n.kubeadm \subseteq m.kubeadm /\ m.kubeadm \subseteq n.kubeadm \cup S
    /\ n.control \subseteq m.control /\ m.control \subseteq n.control \cup S
    /\ n.packages \subseteq m.packages /\ m.packages \subseteq n.packages \cup S
    /\ n.kubelet \subseteq m.kubelet /\ m.kubelet \subseteq n.kubelet \cup S
    /\ t = "kubeadm" => S \subseteq m.kubeadm
    /\ t = "control" => S \subseteq m.control
    /\ t = "packages" => S \subseteq m.packages
    /\ t = "restart" => S \cap n.packages \subseteq m.kubelet
    /\ m.cordoned \subseteq n.cordoned \cup S
    /\ t # "drain" => m.cordoned \subseteq n.cordoned
    /\ t = "uncordon" => m.cordoned \cap S = {}
    /\ m.unheld \subseteq n.unheld \cup S
    /\ t # "unhold" => m.unheld \subseteq n.unheld
    /\ t = "hold" => m.unheld \cap S = {}

LEMMA EffectFacts ==
    \A n \in NodeRecords, S \in SUBSET Nodes, t \in TaskNames :
        EffectShape(t, S, n, Effect(t, S, n))
<1> SUFFICES ASSUME NEW n \in NodeRecords, NEW S \in SUBSET Nodes, NEW t \in TaskNames
             PROVE  EffectShape(t, S, n, Effect(t, S, n))
  OBVIOUS
<1> USE DEF Effect, NodeRecords, EffectShape
<1>1. CASE t = "unhold"
  BY <1>1
<1>2. CASE t = "kubeadm"
  BY <1>2
<1>3. CASE t = "control"
  BY <1>3
<1>4. CASE t = "packages"
  BY <1>4
<1>5. CASE t = "hold"
  BY <1>5
<1>6. CASE t = "restart"
  BY <1>6
<1>7. CASE t = "drain"
  BY <1>7
<1>8. CASE t = "uncordon"
  BY <1>8
<1> QED
  BY <1>1, <1>2, <1>3, <1>4, <1>5, <1>6, <1>7, <1>8 DEF TaskNames

Fields ==
    /\ play \in {"idle", "cp", "workers", "done", "failed"}
    /\ first \in Nodes \cup {1}
    /\ task \in 1 .. 7
    /\ batch \subseteq Nodes /\ broken \subseteq Workers
    /\ node \in NodeRecords

\* How far the one control plane in hand has come.
CpProgress ==
    play = "cp" =>
        /\ first \in Cps
        /\ batch \subseteq {first}
        /\ \A g \in Cps : g < first => Upgraded(g)
        /\ batch # {} /\ task > 2 => first \in node.kubeadm
        /\ batch # {} /\ task > 3 => first \in node.control
        /\ batch # {} /\ task > 4 => first \in node.packages
        /\ batch # {} /\ task > 6 => first \in node.kubelet

\* The worker play starts when every control plane is upgraded, and a batch
\* that reached the end of its tasks is uncordoned.
WorkerProgress ==
    play = "workers" =>
        /\ first \in Workers
        /\ batch \subseteq Workers
        /\ batch \subseteq first .. first + MaxUnavailable - 1
        /\ \A g \in Cps : Upgraded(g)
        /\ task > 5 => node.cordoned \cap batch = {}

Resting == play \notin {"cp", "workers"} => batch = {}

\* A worker has the packages only if every control plane is upgraded.
Behind == \A w \in Workers : w \in node.packages => \A h \in Cps : Upgraded(h)

Cordons == node.cordoned \subseteq Workers /\ node.cordoned \subseteq batch \cup broken

IInv ==
    /\ Fields /\ CpProgress /\ WorkerProgress /\ Resting
    /\ OneAtATime /\ Behind /\ Cordons

LEMMA Sizes ==
    /\ ControlPlanes \in Nat /\ ControlPlanes > 0 /\ WorkerNodes \in Nat
    /\ MaxUnavailable \in Nat /\ MaxUnavailable > 0
    /\ Cps \subseteq Nodes /\ Workers \subseteq Nodes /\ Nodes \subseteq Int
    /\ Cps \cap Workers = {} /\ 1 \in Cps
BY UpgradeAssumption DEF Cps, Workers, Nodes

LEMMA InitHolds == UpgradeInit => IInv
BY Sizes DEF UpgradeInit, IInv, Fields, NodeRecords, CpProgress, WorkerProgress, Resting,
   OneAtATime, Touched, Upgraded, Behind, Cordons

\* The steps that leave the nodes alone keep what is said of the nodes only.
LEMMA NodesKept ==
    ASSUME OneAtATime, Behind, node' = node
    PROVE  OneAtATime' /\ Behind'
BY DEF OneAtATime, Touched, Upgraded, Behind

\* One task of a control plane.
LEMMA RunTaskCp ==
    ASSUME IInv, RunTask, play = "cp"
    PROVE  IInv'
<1>1. PICK F \in SUBSET batch, P \in SUBSET batch :
          /\ P \subseteq F
          /\ node' = Effect(Tasks[task], (batch \ F) \cup P, node)
          /\ batch' = batch \ F
          /\ broken' = broken
  BY DEF RunTask
<1> DEFINE S == (batch \ F) \cup P
           t == CpTasks[task]
<1>2. task \in 1 .. 6 /\ task' = task + 1 /\ play' = play /\ first' = first
  BY DEF RunTask, Tasks, CpTasks, IInv, Fields
<1>3. /\ task = 1 => t = "unhold"
      /\ task = 2 => t = "kubeadm"
      /\ task = 3 => t = "control"
      /\ task = 4 => t = "packages"
      /\ task = 5 => t = "hold"
      /\ task = 6 => t = "restart"
  BY <1>2 DEF CpTasks
<1>4. t \in TaskNames /\ t # "drain"
  BY <1>2, <1>3 DEF TaskNames
<1>5. node \in NodeRecords /\ S \in SUBSET Nodes /\ S \subseteq {first} /\ first \in Cps
  BY DEF IInv, Fields, CpProgress
<1>6. node' = Effect(t, S, node)
  BY <1>1 DEF Tasks
<1>7. /\ node' \in NodeRecords
      /\ node.kubeadm \subseteq node'.kubeadm /\ node'.kubeadm \subseteq node.kubeadm \cup S
      /\ node.control \subseteq node'.control /\ node'.control \subseteq node.control \cup S
      /\ node.packages \subseteq node'.packages /\ node'.packages \subseteq node.packages \cup S
      /\ node.kubelet \subseteq node'.kubelet /\ node'.kubelet \subseteq node.kubelet \cup S
      /\ t = "kubeadm" => S \subseteq node'.kubeadm
      /\ t = "control" => S \subseteq node'.control
      /\ t = "packages" => S \subseteq node'.packages
      /\ t = "restart" => S \cap node.packages \subseteq node'.kubelet
      /\ node'.cordoned \subseteq node.cordoned
  <2> HIDE DEF t, S
  <2>1. EffectShape(t, S, node, Effect(t, S, node))
    BY <1>4, <1>5, EffectFacts
  <2> QED
    BY <2>1, <1>4, <1>6 DEF EffectShape
<1>8. S \subseteq batch /\ batch' \subseteq S /\ batch' \subseteq batch
  BY <1>1
<1> HIDE DEF t, S
<1>9. \A h \in Nodes : Upgraded(h) => Upgraded(h)'
  BY <1>7 DEF Upgraded
<1>10. \A h \in Nodes : Touched(h)' => Touched(h) \/ h = first
  BY <1>5, <1>7 DEF Touched
<1>11. Fields'
  BY <1>1, <1>2, <1>7, <1>8 DEF IInv, Fields
<1>12. CpProgress'
  <2>1. batch' \subseteq {first}
    BY <1>8 DEF IInv, CpProgress
  <2>2. \A g \in Cps : g < first => Upgraded(g)'
    BY <1>9, Sizes DEF IInv, CpProgress
  <2>3. CASE batch' = {}
    BY <2>1, <2>2, <2>3, <1>2, <1>5 DEF CpProgress
  <2>4. CASE batch' # {}
    <3>1. first \in S /\ batch # {}
      BY <2>1, <2>4, <1>8
    <3>2. task > 1 => first \in node'.kubeadm
      BY <3>1, <1>2, <1>3, <1>7 DEF IInv, CpProgress
    <3>3. task > 2 => first \in node'.control
      BY <3>1, <1>2, <1>3, <1>7 DEF IInv, CpProgress
    <3>4. task > 3 => first \in node'.packages
      BY <3>1, <1>2, <1>3, <1>7 DEF IInv, CpProgress
    <3>5. task > 5 => first \in node'.kubelet
      BY <3>1, <1>2, <1>3, <1>7 DEF IInv, CpProgress
    <3> QED
      BY <3>2, <3>3, <3>4, <3>5, <2>1, <2>2, <1>2, <1>5 DEF CpProgress
  <2> QED
    BY <2>3, <2>4
<1>13. WorkerProgress' /\ Resting'
  BY <1>2 DEF WorkerProgress, Resting
<1>14. OneAtATime'
  <2> SUFFICES ASSUME NEW h \in Cps, Touched(h)', NEW g \in 1 .. h - 1
               PROVE  Upgraded(g)'
    BY DEF OneAtATime
  <2>1. g \in Cps /\ g < h /\ g \in Nodes /\ h \in Nodes
    BY Sizes DEF Cps
  <2>2. Upgraded(g)
    BY <2>1, <1>10 DEF IInv, OneAtATime, CpProgress
  <2> QED
    BY <2>1, <2>2, <1>9
<1>15. Behind'
  <2>1. \A w \in Workers : w \in node'.packages => w \in node.packages
    BY <1>5, <1>7, Sizes
  <2> QED
    BY <2>1, <1>9, Sizes DEF IInv, Behind
<1>16. Cordons'
  <2>1. batch \cap Workers = {}
    BY <1>5, Sizes DEF IInv, CpProgress
  <2> QED
    BY <2>1, <1>1, <1>7 DEF IInv, Cordons
<1> QED
  BY <1>11, <1>12, <1>13, <1>14, <1>15, <1>16 DEF IInv

\* One task of a batch of workers.
LEMMA RunTaskWorkers ==
    ASSUME IInv, RunTask, play = "workers"
    PROVE  IInv'
<1>1. PICK F \in SUBSET batch, P \in SUBSET batch :
          /\ P \subseteq F
          /\ node' = Effect(Tasks[task], (batch \ F) \cup P, node)
          /\ batch' = batch \ F
          /\ broken' = broken \cup F
  BY DEF RunTask
<1> DEFINE S == (batch \ F) \cup P
           t == WorkerTasks[task]
<1>2. task \in 1 .. 5 /\ task' = task + 1 /\ play' = play /\ first' = first
  BY DEF RunTask, Tasks, WorkerTasks, IInv, Fields
<1>3. t \in TaskNames /\ (task = 5 => t = "uncordon")
  BY <1>2 DEF WorkerTasks, TaskNames
<1>4. /\ node \in NodeRecords /\ batch \subseteq Workers
      /\ S \in SUBSET Nodes /\ S \subseteq Workers
  BY Sizes DEF IInv, Fields, WorkerProgress
<1>5. node' = Effect(t, S, node)
  BY <1>1 DEF Tasks
<1>6. /\ node' \in NodeRecords
      /\ node.kubeadm \subseteq node'.kubeadm /\ node'.kubeadm \subseteq node.kubeadm \cup S
      /\ node.control \subseteq node'.control /\ node'.control \subseteq node.control \cup S
      /\ node.packages \subseteq node'.packages /\ node'.packages \subseteq node.packages \cup S
      /\ node.kubelet \subseteq node'.kubelet /\ node'.kubelet \subseteq node.kubelet \cup S
      /\ node'.cordoned \subseteq node.cordoned \cup S
      /\ t = "uncordon" => node'.cordoned \cap S = {}
  <2> HIDE DEF t, S
  <2>1. EffectShape(t, S, node, Effect(t, S, node))
    BY <1>3, <1>4, EffectFacts
  <2> QED
    BY <2>1, <1>5 DEF EffectShape
<1>7. S \subseteq batch /\ batch' \subseteq S /\ batch \subseteq batch' \cup F
  BY <1>1
<1> HIDE DEF t, S
<1>8. \A h \in Nodes : Upgraded(h) => Upgraded(h)'
  BY <1>6 DEF Upgraded
<1>9. \A g \in Cps : Upgraded(g)'
  BY <1>8, Sizes DEF IInv, WorkerProgress
<1>10. Fields'
  <2>1. batch' \subseteq Nodes /\ broken' \subseteq Workers
    BY <1>1, <1>4, Sizes DEF IInv, Fields
  <2> QED
    BY <2>1, <1>2, <1>6 DEF IInv, Fields
<1>11. CpProgress' /\ Resting'
  BY <1>2 DEF CpProgress, Resting
<1>12. WorkerProgress'
  <2>1. task' > 5 => node'.cordoned \cap batch' = {}
    BY <1>2, <1>3, <1>6, <1>7
  <2>2. batch' \subseteq Workers /\ batch' \subseteq first .. first + MaxUnavailable - 1
    BY <1>7 DEF IInv, WorkerProgress
  <2> QED
    BY <2>1, <2>2, <1>2, <1>9 DEF IInv, WorkerProgress
<1>13. OneAtATime'
  BY <1>9, Sizes DEF OneAtATime, Cps
<1>14. Behind'
  BY <1>9 DEF Behind
<1>15. Cordons'
  BY <1>1, <1>4, <1>6, <1>7 DEF IInv, Cordons
<1> QED
  BY <1>10, <1>11, <1>12, <1>13, <1>14, <1>15 DEF IInv

LEMMA StartStep == ASSUME IInv, Start PROVE IInv'
<1>1. /\ play' = "cp" /\ first' = 1 /\ task' = 1 /\ batch' = BatchFrom("cp", 1)
      /\ node' = node /\ broken' = broken
  BY DEF Start
<1>2. batch' \subseteq {1} /\ batch = {}
  BY <1>1, Sizes DEF BatchFrom, Serial, Cps, IInv, Resting, Start
<1>3. Fields'
  BY <1>1, <1>2, Sizes DEF IInv, Fields
<1>4. CpProgress'
  BY <1>1, <1>2, Sizes DEF CpProgress, Cps
<1>5. WorkerProgress' /\ Resting'
  BY <1>1 DEF WorkerProgress, Resting
<1>6. OneAtATime' /\ Behind'
  BY <1>1, NodesKept DEF IInv
<1>7. Cordons'
  BY <1>1, <1>2 DEF IInv, Cordons
<1> QED
  BY <1>3, <1>4, <1>5, <1>6, <1>7 DEF IInv

\* A batch that is over has every host that is still in it upgraded (a control
\* plane) or uncordoned (a worker).
LEMMA BatchDone ==
    ASSUME IInv, BatchOver, batch # {}
    PROVE  /\ play = "cp" => batch = {first} /\ Upgraded(first) /\ first \in Cps
           /\ play = "workers" => node.cordoned \cap batch = {}
           /\ node.cordoned \subseteq broken \ batch
<1>1. CASE play = "cp"
  <2>1. task > 6
    BY <1>1 DEF BatchOver, Tasks, CpTasks
  <2>2. batch = {first} /\ Upgraded(first) /\ first \in Cps
    BY <1>1, <2>1 DEF IInv, Fields, CpProgress, Upgraded
  <2> QED
    BY <1>1, <2>2, Sizes DEF IInv, Cordons
<1>2. CASE play = "workers"
  <2>1. task > 5
    BY <1>2 DEF BatchOver, Tasks, WorkerTasks
  <2> QED
    BY <1>2, <2>1 DEF IInv, WorkerProgress, Cordons
<1> QED
  BY <1>1, <1>2 DEF BatchOver

LEMMA NextBatchStep == ASSUME IInv, NextBatch PROVE IInv'
<1>1. /\ play' = play /\ task' = 1 /\ node' = node /\ broken' = broken \ batch
      /\ first' = first + Serial(play) /\ batch' = BatchFrom(play, first')
      /\ batch' # {} /\ play \in {"cp", "workers"}
  BY DEF NextBatch, BatchOver
<1>2. /\ play = "cp" => batch = {first} /\ Upgraded(first) /\ first \in Cps
      /\ node.cordoned \subseteq broken \ batch
  BY BatchDone DEF NextBatch
<1>3. OneAtATime' /\ Behind'
  BY <1>1, NodesKept DEF IInv
<1>4. Cordons'
  BY <1>1, <1>2 DEF IInv, Cordons
<1>5. Resting'
  BY <1>1 DEF Resting
<1>6. CASE play = "cp"
  <2>1. first' = first + 1 /\ batch' = {h \in Cps : first + 1 <= h /\ h < first + 2}
    BY <1>1, <1>2, <1>6, Sizes DEF BatchFrom, Serial, Cps
  <2>2. first' \in Cps /\ batch' \subseteq {first'}
    BY <2>1, <1>1, <1>2, <1>6, Sizes DEF Cps
  <2>3. \A g \in Cps : g < first' => Upgraded(g)
    BY <2>1, <1>2, <1>6, Sizes DEF Cps, IInv, CpProgress
  <2>4. CpProgress' /\ WorkerProgress'
    BY <2>2, <2>3, <1>1, <1>6 DEF CpProgress, WorkerProgress, Upgraded
  <2>5. Fields'
    BY <2>2, <1>1, Sizes DEF IInv, Fields
  <2> QED
    BY <2>4, <2>5, <1>3, <1>4, <1>5 DEF IInv
<1>7. CASE play = "workers"
  <2>1. first' = first + MaxUnavailable /\ first \in Workers
    BY <1>1, <1>7 DEF Serial, IInv, WorkerProgress
  <2>2. batch' = {h \in Workers : first' <= h /\ h < first' + MaxUnavailable}
    BY <1>1, <1>7 DEF BatchFrom, Serial
  <2>3. first' \in Workers /\ batch' \subseteq Workers
        /\ batch' \subseteq first' .. first' + MaxUnavailable - 1
    BY <2>1, <2>2, <1>1, Sizes DEF Workers
  <2>4. \A g \in Cps : Upgraded(g)'
    BY <1>1, <1>7 DEF IInv, WorkerProgress, Upgraded
  <2>5. WorkerProgress' /\ CpProgress'
    BY <2>3, <2>4, <1>1, <1>7 DEF WorkerProgress, CpProgress
  <2>6. Fields'
    BY <2>3, <1>1, Sizes DEF IInv, Fields
  <2> QED
    BY <2>5, <2>6, <1>3, <1>4, <1>5 DEF IInv
<1> QED
  BY <1>1, <1>6, <1>7

LEMMA NextPlayStep == ASSUME IInv, NextPlay PROVE IInv'
<1>1. /\ node' = node /\ broken' = broken \ batch /\ BatchOver /\ batch # {}
      /\ play \in {"cp", "workers"} /\ BatchFrom(play, first + Serial(play)) = {}
  BY DEF NextPlay, BatchOver
<1>2. /\ play = "cp" => batch = {first} /\ Upgraded(first) /\ first \in Cps
      /\ node.cordoned \subseteq broken \ batch
  BY <1>1, BatchDone
<1>3. OneAtATime' /\ Behind'
  BY <1>1, NodesKept DEF IInv
<1>4. Cordons'
  BY <1>1, <1>2 DEF IInv, Cordons
<1>5. CASE /\ play = "cp" /\ play' = "workers" /\ task' = 1
           /\ first' = ControlPlanes + 1
           /\ batch' = BatchFrom("workers", ControlPlanes + 1) /\ batch' # {}
  <2>1. BatchFrom("cp", first + 1) = {h \in Cps : first + 1 <= h /\ h < first + 2}
    BY <1>2, <1>5, Sizes DEF BatchFrom, Serial, Cps
  <2>2. {h \in Cps : first + 1 <= h /\ h < first + 2} = {}
    BY <2>1, <1>1, <1>5 DEF Serial
  <2>8. first = ControlPlanes
    BY <2>2, <1>2, <1>5, Sizes DEF Cps
  <2>3. \A g \in Cps : Upgraded(g)'
    BY <2>8, <1>1, <1>2, <1>5, Sizes DEF Cps, IInv, CpProgress, Upgraded
  <2>4. batch' = {h \in Workers : first' <= h /\ h < first' + MaxUnavailable}
    BY <1>5 DEF BatchFrom, Serial
  <2>5. first' \in Workers /\ batch' \subseteq Workers
        /\ batch' \subseteq first' .. first' + MaxUnavailable - 1
    BY <2>4, <1>5, Sizes DEF Workers
  <2>6. WorkerProgress' /\ CpProgress' /\ Resting'
    BY <2>3, <2>5, <1>5 DEF WorkerProgress, CpProgress, Resting
  <2>7. Fields'
    BY <2>5, <1>1, <1>5, Sizes DEF IInv, Fields
  <2> QED
    BY <2>6, <2>7, <1>3, <1>4 DEF IInv
<1>6. CASE play' = "done" /\ batch' = {} /\ first' = first /\ task' = task
  <2>1. Fields'
    BY <1>1, <1>6 DEF IInv, Fields
  <2>2. CpProgress' /\ WorkerProgress' /\ Resting'
    BY <1>6 DEF CpProgress, WorkerProgress, Resting
  <2> QED
    BY <2>1, <2>2, <1>3, <1>4 DEF IInv
<1> QED
  BY <1>5, <1>6 DEF NextPlay

\* A failed batch or an interruption: the run ends where it is.
LEMMA StopStep == ASSUME IInv, BatchFailed \/ Abort PROVE IInv'
<1>1. /\ play' = "failed" /\ first' = first /\ task' = task /\ node' = node
      /\ batch' = {} /\ broken \subseteq broken'
      /\ play \in {"cp", "workers"}
  BY DEF BatchFailed, Abort, BatchOver
<1>2. broken' \subseteq Workers
  BY DEF IInv, Fields, WorkerProgress, BatchFailed, Abort
<1>3. node.cordoned \subseteq broken'
  <2>1. CASE play = "cp"
    <3>1. batch \cap Workers = {}
      BY <2>1, Sizes DEF IInv, CpProgress
    <3> QED
      BY <3>1, <1>1 DEF IInv, Cordons
  <2>2. CASE play = "workers"
    BY <2>2 DEF IInv, Cordons, BatchFailed, Abort
  <2> QED
    BY <1>1, <2>1, <2>2
<1>4. OneAtATime' /\ Behind'
  BY <1>1, NodesKept DEF IInv
<1>5. Cordons'
  BY <1>1, <1>3 DEF IInv, Cordons
<1>6. Fields'
  BY <1>1, <1>2 DEF IInv, Fields
<1>7. CpProgress' /\ WorkerProgress' /\ Resting'
  BY <1>1 DEF CpProgress, WorkerProgress, Resting
<1> QED
  BY <1>4, <1>5, <1>6, <1>7 DEF IInv

LEMMA Stutter == ASSUME IInv, UNCHANGED upgradeVars PROVE IInv'
BY DEF upgradeVars, IInv, Fields, CpProgress, WorkerProgress, Resting, OneAtATime,
   Touched, Upgraded, Behind, Cordons

LEMMA Invariance == UpgradeSpec => []IInv
<1>1. IInv /\ [UpgradeNext]_upgradeVars => IInv'
  <2> SUFFICES ASSUME IInv, [UpgradeNext]_upgradeVars PROVE IInv'
    OBVIOUS
  <2>1. CASE RunTask
    BY <2>1, RunTaskCp, RunTaskWorkers DEF RunTask
  <2> QED
    BY <2>1, StartStep, StopStep, NextBatchStep, NextPlayStep, Stutter DEF UpgradeNext
<1> QED
  BY InitHolds, <1>1, PTL DEF UpgradeSpec

\* Whatever fails and however often upgrade.yml is run again, no control plane
\* is touched before all those in front of it are upgraded (serial: 1).
THEOREM UpgradeIsSerial == UpgradeSpec => []OneAtATime
<1>1. IInv => OneAtATime
  BY DEF IInv
<1> QED
  BY Invariance, <1>1, PTL

\* A worker never gets packages that a control plane has not been upgraded to.
THEOREM WorkersFollow == UpgradeSpec => []WorkersBehind
<1>1. IInv => WorkersBehind
  BY DEF IInv, Behind, Upgraded, WorkersBehind
<1> QED
  BY Invariance, <1>1, PTL

\* Every cordoned node is in the batch in hand or was left by a failure, and a
\* batch has at most worker_max_unavailable hosts.
THEOREM CordonsAreAccounted == UpgradeSpec => []CordonAccounted
<1>1. IInv => CordonAccounted
  <2> SUFFICES ASSUME IInv PROVE CordonAccounted
    OBVIOUS
  <2>1. node.cordoned \subseteq batch \cup broken
    BY DEF IInv, Cordons
  <2>2. ASSUME play = "workers" PROVE Cardinality(batch) <= MaxUnavailable
    <3> DEFINE R == first .. first + MaxUnavailable - 1
    <3>1. first \in Int /\ first + MaxUnavailable - 1 \in Int /\ MaxUnavailable \in Nat
      BY <2>2, Sizes DEF IInv, WorkerProgress, Workers
    <3>2. IsFiniteSet(R) /\ Cardinality(R) = MaxUnavailable
      <4>1. /\ IsFiniteSet(R)
            /\ Cardinality(R) = IF first > first + MaxUnavailable - 1 THEN 0
                                ELSE (first + MaxUnavailable - 1) - first + 1
        BY <3>1, FS_Interval
      <4> QED
        BY <4>1, <3>1, Sizes
    <3>3. batch \subseteq R
      BY <2>2 DEF IInv, WorkerProgress
    <3>4. IsFiniteSet(batch) /\ Cardinality(batch) <= Cardinality(R)
      BY <3>2, <3>3, FS_Subset
    <3> QED
      BY <3>2, <3>4
  <2> QED
    BY <2>1, <2>2 DEF CordonAccounted
<1> QED
  BY Invariance, <1>1, PTL

-------------------------------------------------------------------------------
(* What a run repairs                                                      *)

Repaired(h) ==
    h \in node.control \cap node.kubelet /\ h \notin node.cordoned \cup node.unheld

\* As long as nothing has failed, every control plane before the one in hand is
\* repaired, and that one is held again when its task has run,
CleanCp ==
    play = "cp" =>
        /\ batch = {first}
        /\ \A g \in Cps : g < first => Repaired(g)
        /\ task > 5 => first \notin node.unheld

\* and every node before the batch of workers is, which is all of its hosts and
\* has come as far as its tasks.
CleanWorkers ==
    play = "workers" =>
        /\ batch = BatchFrom("workers", first)
        /\ \A h \in Nodes : h < first => Repaired(h)
        /\ task > 2 => batch \subseteq node.packages
        /\ task > 3 => batch \subseteq node.control
        /\ task > 4 => batch \subseteq node.kubelet

CleanInv ==
    /\ node.unheld \subseteq Cps
    /\ failures = {} => CleanCp /\ CleanWorkers /\ CleanRunRepairs

\* A batch that no host has left, at the end of its tasks, is repaired, and so is
\* every host before it.
LEMMA CleanBatchDone ==
    ASSUME IInv, CleanInv, failures = {}, BatchOver, batch # {}
    PROVE  \A h \in Nodes : h < first \/ h \in batch => Repaired(h)
<1>1. CASE play = "cp"
  <2>1. task > 6 /\ task > 5
    BY <1>1 DEF BatchOver, Tasks, CpTasks, IInv, Fields
  <2>2. batch = {first} /\ Upgraded(first) /\ first \in Cps
    BY <1>1, BatchDone
  <2>3. first \notin node.cordoned /\ first \notin node.unheld
    BY <1>1, <2>1, <2>2, Sizes DEF CleanInv, CleanCp, IInv, Cordons
  <2>4. \A h \in Nodes : h < first => h \in Cps
    BY <2>2, Sizes DEF Cps, Workers, Nodes
  <2> QED
    BY <1>1, <2>2, <2>3, <2>4 DEF CleanInv, CleanCp, Repaired, Upgraded
<1>2. CASE play = "workers"
  <2>1. task > 5 /\ task > 4 /\ task > 3
    BY <1>2 DEF BatchOver, Tasks, WorkerTasks, IInv, Fields
  <2>2. node.cordoned \cap batch = {}
    BY <1>2, BatchDone
  <2>3. batch \subseteq node.control /\ batch \subseteq node.kubelet
    BY <1>2, <2>1 DEF CleanInv, CleanWorkers
  <2>4. batch \cap node.unheld = {}
    BY <1>2, Sizes DEF CleanInv, IInv, WorkerProgress
  <2> QED
    BY <1>2, <2>2, <2>3, <2>4 DEF CleanInv, CleanWorkers, Repaired
<1> QED
  BY <1>1, <1>2 DEF BatchOver

\* A task that fails on no host does its work on all of the batch.
LEMMA CleanTask ==
    ASSUME IInv, CleanInv, RunTask
    PROVE  CleanInv'
<1>1. PICK F \in SUBSET batch, P \in SUBSET batch :
          /\ P \subseteq F
          /\ node' = Effect(Tasks[task], (batch \ F) \cup P, node)
          /\ batch' = batch \ F
          /\ failures' = failures \cup F
  BY DEF RunTask
<1> DEFINE S == (batch \ F) \cup P
           t == Tasks[task]
<1>2. /\ task' = task + 1 /\ play' = play /\ first' = first
      /\ \/ play = "cp" /\ task \in 1 .. 6
         \/ play = "workers" /\ task \in 1 .. 5
  BY DEF RunTask, Tasks, CpTasks, WorkerTasks, IInv, Fields
<1>3. /\ play = "cp" =>
            /\ task = 1 => t = "unhold"
            /\ task = 2 => t = "kubeadm"
            /\ task = 3 => t = "control"
            /\ task = 4 => t = "packages"
            /\ task = 5 => t = "hold"
            /\ task = 6 => t = "restart"
      /\ play = "workers" =>
            /\ task = 1 => t = "drain"
            /\ task = 2 => t = "packages"
            /\ task = 3 => t = "control"
            /\ task = 4 => t = "restart"
            /\ task = 5 => t = "uncordon"
  BY DEF Tasks, CpTasks, WorkerTasks
<1>4. t \in TaskNames /\ (play = "workers" => t # "unhold")
  BY <1>2, <1>3 DEF TaskNames
<1>5. node \in NodeRecords /\ S \in SUBSET Nodes /\ S \subseteq batch
  BY DEF IInv, Fields
<1>6. EffectShape(t, S, node, node')
  <2> HIDE DEF t, S
  <2>1. EffectShape(t, S, node, Effect(t, S, node))
    BY <1>4, <1>5, EffectFacts
  <2>2. node' = Effect(t, S, node)
    BY <1>1 DEF t, S
  <2> QED
    BY <2>1, <2>2
<1>7. failures' = {} => failures = {} /\ S = batch /\ batch' = batch
  BY <1>1
<1> HIDE DEF t, S
<1>8. node'.unheld \subseteq Cps
  BY <1>2, <1>4, <1>5, <1>6, Sizes DEF EffectShape, CleanInv, IInv, CpProgress
<1>9. \A h \in Nodes : h \notin S /\ Repaired(h) => Repaired(h)'
  BY <1>6 DEF EffectShape, Repaired
<1>10. ASSUME failures' = {} PROVE CleanCp'
  <2> SUFFICES ASSUME play = "cp" PROVE CleanCp'
    BY <1>2 DEF CleanCp
  <2>1. batch' = {first'} /\ S = {first} /\ first \in Cps
    BY <1>2, <1>7, <1>10 DEF CleanInv, CleanCp, IInv, CpProgress
  <2>2. \A g \in Cps : g < first' => Repaired(g)'
    BY <2>1, <1>2, <1>7, <1>9, <1>10, Sizes DEF CleanInv, CleanCp
  <2>3. task' > 5 => first' \notin node'.unheld
    BY <2>1, <1>2, <1>3, <1>6, <1>7, <1>10 DEF EffectShape, CleanInv, CleanCp
  <2> QED
    BY <2>1, <2>2, <2>3 DEF CleanCp
<1>11. ASSUME failures' = {} PROVE CleanWorkers'
  <2> SUFFICES ASSUME play = "workers" PROVE CleanWorkers'
    BY <1>2 DEF CleanWorkers
  <2>1. batch' = BatchFrom("workers", first') /\ S = batch /\ batch' = batch
    BY <1>2, <1>7, <1>11 DEF CleanInv, CleanWorkers, BatchFrom, Serial
  <2>2. \A h \in Nodes : h < first' => Repaired(h)'
    <3> SUFFICES ASSUME NEW h \in Nodes, h < first PROVE Repaired(h)'
      BY <1>2
    <3>1. h \notin S
      BY <2>1, Sizes DEF IInv, WorkerProgress, Workers
    <3> QED
      BY <3>1, <1>7, <1>9, <1>11 DEF CleanInv, CleanWorkers
  <2>3. /\ task' > 2 => batch' \subseteq node'.packages
        /\ task' > 3 => batch' \subseteq node'.control
        /\ task' > 4 => batch' \subseteq node'.kubelet
    BY <2>1, <1>2, <1>3, <1>6, <1>7, <1>11 DEF EffectShape, CleanInv, CleanWorkers
  <2> QED
    BY <2>1, <2>2, <2>3 DEF CleanWorkers
<1>12. CleanRunRepairs'
  BY <1>2 DEF CleanRunRepairs
<1> QED
  BY <1>8, <1>10, <1>11, <1>12 DEF CleanInv

\* The next batch starts where a clean one ends.
LEMMA CleanNextBatch == ASSUME IInv, CleanInv, NextBatch PROVE CleanInv'
<1>1. /\ play' = play /\ task' = 1 /\ node' = node /\ failures' = failures
      /\ first' = first + Serial(play) /\ batch' = BatchFrom(play, first')
      /\ batch' # {} /\ play \in {"cp", "workers"} /\ BatchOver /\ batch # {}
  BY DEF NextBatch, BatchOver
<1> SUFFICES ASSUME failures = {} PROVE CleanCp' /\ CleanWorkers'
  BY <1>1 DEF CleanInv, CleanRunRepairs
<1>2. \A h \in Nodes : h < first \/ h \in batch => Repaired(h)'
  BY <1>1, CleanBatchDone DEF Repaired
<1>3. CASE play = "cp"
  <2>1. first \in Cps /\ batch = {first} /\ first' = first + 1
    BY <1>1, <1>3 DEF IInv, CpProgress, CleanInv, CleanCp, Serial
  <2>2. batch' = {h \in Cps : first' <= h /\ h < first' + 1}
    BY <1>1, <1>3 DEF BatchFrom, Serial
  <2>3. batch' = {first'}
    BY <2>1, <2>2, <1>1, Sizes DEF Cps
  <2>4. \A g \in Cps : g < first' => Repaired(g)'
    BY <2>1, <1>2, Sizes DEF Cps
  <2> QED
    BY <2>3, <2>4, <1>1, <1>3 DEF CleanCp, CleanWorkers
<1>4. CASE play = "workers"
  <2>1. first \in Workers /\ first' = first + MaxUnavailable
        /\ batch = {h \in Workers : first <= h /\ h < first + MaxUnavailable}
    BY <1>1, <1>4 DEF IInv, WorkerProgress, CleanInv, CleanWorkers, Serial, BatchFrom
  <2>2. \A h \in Nodes : h < first' => h < first \/ h \in batch
    BY <2>1, Sizes DEF Nodes, Cps, Workers
  <2>3. batch' = BatchFrom("workers", first')
    BY <1>1, <1>4
  <2>4. BatchFrom("workers", first)' = BatchFrom("workers", first')
    BY DEF BatchFrom, Serial
  <2> QED
    BY <2>2, <2>3, <2>4, <1>1, <1>2, <1>4 DEF CleanCp, CleanWorkers
<1> QED
  BY <1>1, <1>3, <1>4

\* After a clean play of control planes all of them are repaired, after one of
\* workers all nodes are.
LEMMA CleanNextPlay == ASSUME IInv, CleanInv, NextPlay PROVE CleanInv'
<1>1. /\ node' = node /\ failures' = failures /\ BatchOver /\ batch # {}
      /\ play \in {"cp", "workers"} /\ BatchFrom(play, first + Serial(play)) = {}
  BY DEF NextPlay, BatchOver
<1> SUFFICES ASSUME failures = {} PROVE CleanCp' /\ CleanWorkers' /\ CleanRunRepairs'
  BY <1>1 DEF CleanInv
<1>2. \A h \in Nodes : h < first \/ h \in batch => Repaired(h)
  BY <1>1, CleanBatchDone
<1>3. play = "cp" => \A h \in Cps : Repaired(h)
  <2> SUFFICES ASSUME play = "cp" PROVE \A h \in Cps : Repaired(h)
    OBVIOUS
  <2>1. first \in Cps /\ batch = {first}
    BY <1>1 DEF IInv, CpProgress, CleanInv, CleanCp
  <2>2. {h \in Cps : first + 1 <= h /\ h < first + 2} = {}
    BY <2>1, <1>1, Sizes DEF BatchFrom, Serial, Cps
  <2>3. \A h \in Cps : h < first \/ h = first
    BY <2>1, <2>2, Sizes DEF Cps
  <2> QED
    BY <2>1, <2>3, <1>2, Sizes
<1>4. play = "workers" => \A h \in Nodes : Repaired(h)
  <2> SUFFICES ASSUME play = "workers" PROVE \A h \in Nodes : Repaired(h)
    OBVIOUS
  <2>1. first \in Workers
        /\ batch = {h \in Workers : first <= h /\ h < first + MaxUnavailable}
    BY <1>1 DEF IInv, WorkerProgress, CleanInv, CleanWorkers, BatchFrom, Serial
  <2>2. {h \in Workers : first + MaxUnavailable <= h
                         /\ h < first + MaxUnavailable + MaxUnavailable} = {}
    BY <1>1 DEF BatchFrom, Serial
  <2>3. \A h \in Workers : h < first + MaxUnavailable
    <3> SUFFICES ASSUME NEW h \in Workers, h >= first + MaxUnavailable PROVE FALSE
      BY <2>1, Sizes DEF Workers
    <3>1. first + MaxUnavailable \in Workers
      BY <2>1, Sizes DEF Workers
    <3> QED
      BY <2>1, <2>2, <3>1, Sizes
  <2>4. \A h \in Nodes : h < first \/ h \in batch
    BY <2>1, <2>3, Sizes DEF Nodes, Cps, Workers
  <2> QED
    BY <2>4, <1>2
<1>5. CASE /\ play = "cp" /\ play' = "workers" /\ task' = 1
           /\ first' = ControlPlanes + 1
           /\ batch' = BatchFrom("workers", ControlPlanes + 1)
  <2>1. \A h \in Nodes : h < first' => h \in Cps
    BY <1>5, Sizes DEF Nodes, Cps, Workers
  <2>2. \A h \in Nodes : h < first' => Repaired(h)'
    BY <2>1, <1>1, <1>3, <1>5 DEF Repaired
  <2>3. batch' = BatchFrom("workers", first')
    BY <1>5
  <2>4. BatchFrom("workers", first)' = BatchFrom("workers", first')
    BY DEF BatchFrom, Serial
  <2> QED
    BY <2>2, <2>3, <2>4, <1>5 DEF CleanCp, CleanWorkers, CleanRunRepairs
<1>6. CASE play' = "done" /\ (play = "cp" => BatchFrom("workers", ControlPlanes + 1) = {})
  <2>1. play = "cp" => Workers = {}
    <3> SUFFICES ASSUME play = "cp", NEW h \in Workers PROVE FALSE
      OBVIOUS
    <3>1. ControlPlanes + 1 \in Workers
      BY Sizes DEF Workers
    <3>2. ControlPlanes + 1 \in BatchFrom("workers", ControlPlanes + 1)
      BY <3>1, Sizes DEF BatchFrom, Serial
    <3> QED
      BY <3>2, <1>6
  <2>2. \A h \in Nodes : Repaired(h)
    BY <2>1, <1>1, <1>3, <1>4 DEF Nodes
  <2>3. node.cordoned \subseteq Nodes /\ node.unheld \subseteq Nodes
    BY Sizes DEF IInv, Cordons, CleanInv
  <2>4. CleanRunRepairs'
    BY <2>2, <2>3, <1>1 DEF CleanRunRepairs, Repaired
  <2> QED
    BY <2>4, <1>6 DEF CleanCp, CleanWorkers
<1> QED
  BY <1>5, <1>6 DEF NextPlay

LEMMA CleanNext == IInv /\ CleanInv /\ [UpgradeNext]_upgradeVars => CleanInv'
<1> SUFFICES ASSUME IInv, CleanInv, [UpgradeNext]_upgradeVars PROVE CleanInv'
  OBVIOUS
<1>1. CASE Start
  <2>1. batch' = {first'} /\ first' = 1 /\ task' = 1 /\ play' = "cp" /\ node' = node
    BY <1>1, Sizes DEF Start, BatchFrom, Serial, Cps
  <2>2. \A g \in Cps : ~(g < first')
    BY <2>1, Sizes DEF Cps
  <2> QED
    BY <2>1, <2>2 DEF CleanInv, CleanCp, CleanWorkers, CleanRunRepairs
<1>2. CASE BatchFailed \/ Abort
  <2>1. play' = "failed" /\ node' = node
    BY <1>2 DEF BatchFailed, Abort
  <2> QED
    BY <2>1 DEF CleanInv, CleanCp, CleanWorkers, CleanRunRepairs
<1>3. CASE UNCHANGED upgradeVars
  BY <1>3 DEF upgradeVars, CleanInv, CleanCp, CleanWorkers, CleanRunRepairs, Repaired,
     BatchFrom, Serial
<1> QED
  BY <1>1, <1>2, <1>3, CleanTask, CleanNextBatch, CleanNextPlay DEF UpgradeNext

\* Whatever earlier runs of upgrade.yml left behind, however they failed, a run
\* that ends without a failure leaves every node upgraded, held and schedulable:
\* running the playbook again is enough to recover.
THEOREM RerunRepairs == UpgradeSpec => []CleanRunRepairs
<1>1. UpgradeInit => CleanInv
  BY DEF UpgradeInit, CleanInv, CleanCp, CleanWorkers, CleanRunRepairs
<1>2. UpgradeInit /\ [][UpgradeNext]_upgradeVars => []CleanInv
  BY <1>1, CleanNext, InitHolds, Invariance, PTL DEF UpgradeSpec
<1>3. IInv /\ CleanInv => CleanRunRepairs
  BY DEF CleanInv, CleanRunRepairs
<1> QED
  BY <1>2, <1>3, Invariance, PTL DEF UpgradeSpec
===============================================================================
