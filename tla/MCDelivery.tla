----------------------------- MODULE MCDelivery -----------------------------
(***************************************************************************)
(* The delivery side: the builds of an app, the promotion of its images    *)
(* and the upgrade of the cluster.  Nothing one of them writes is read by  *)
(* another but names of images, so each behaviour exercises one of them,   *)
(* the scene.                                                              *)
(***************************************************************************)
EXTENDS ImagePipeline, Promotion, ClusterUpgrade, TLC

VARIABLE scene

deliveryVars == <<scene, pipelineVars, vars, upgradeVars>>

DeliveryInit ==
    /\ scene \in {"build", "promotion", "upgrade"}
    /\ PipelineInit /\ Init /\ UpgradeInit

\* A step of one component, in its scene.
DeliveryNext ==
    /\ UNCHANGED scene
    /\ \/ scene = "build" /\ PipelineNext /\ UNCHANGED <<vars, upgradeVars>>
       \/ scene = "promotion" /\ Next /\ UNCHANGED <<pipelineVars, upgradeVars>>
       \/ scene = "upgrade" /\ UpgradeNext /\ UNCHANGED <<pipelineVars, vars>>

DeliverySpec == DeliveryInit /\ [][DeliveryNext]_deliveryVars

Symmetry == Permutations(Images) \cup Permutations(Versions) \cup Permutations(Pulls)
=============================================================================
