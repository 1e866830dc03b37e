--------------------------- MODULE PromotionProofs ---------------------------
(* Theorems about the delivery pipeline, for any set of released images.    *)
EXTENDS Promotion, TLAPS

Fields ==
    /\ values \in [Envs -> Images \cup {None}]
    /\ promo \in [Envs -> [step : {"idle", "cloned", "pushed"},
                           image : Images \cup {None}, base : Images \cup {None}]]
    /\ \A e \in Envs : promo[e].step # "idle" => promo[e].image \in Images
    /\ verified \in [Envs -> SUBSET Images]
    /\ checking \in [Envs -> Images \cup {None}]
    /\ live \in [Envs -> Images \cup {ChartTag, None}]
    /\ ran \in [Envs \ {"dev"} -> SUBSET (Images \cup {ChartTag})]

\* Everything on its way to prod has been verified in staging: the promotion,
\* the tag on main, and so whatever a sync deploys.  As long as the values of prod
\* name no tag, nothing but the chart's own has run there.
ProdLine ==
    /\ promo["prod"].step # "idle" => promo["prod"].image \in verified["staging"]
    /\ values["prod"] \in verified["staging"] \cup {None}
    /\ values["prod"] = None => ran["prod"] \subseteq {ChartTag}
    /\ ProdAfterStaging

\* The staging promotion that waits for its sync is what values.staging.yaml
\* names, so the sync runs it before the analysis starts.
StagingLine ==
    /\ promo["staging"].step = "pushed" => values["staging"] = promo["staging"].image
    /\ checking["staging"] \in ran["staging"] \cup {None}
    /\ VerifiedRan

IInv == Fields /\ ProdLine /\ StagingLine

\* IInv holds initially.
LEMMA InitIInv == Init => IInv
BY PromotionAssumption
DEF Init, IInv, Fields, ProdLine, StagingLine, ProdAfterStaging, VerifiedRan, Envs, Idle

\* A sync of e deploys the tag main asks for and records it.
LEMMA DeployFacts ==
    ASSUME Fields, NEW e \in Envs, Deploy(e)
    PROVE  /\ live' \in [Envs -> Images \cup {ChartTag, None}]
           /\ live' = [live EXCEPT ![e] = Tag(e)]
           /\ ran' \in [Envs \ {"dev"} -> SUBSET (Images \cup {ChartTag})]
           /\ e # "dev" => ran'[e] = ran[e] \cup {Tag(e)}
           /\ \A d \in Envs \ {"dev"} : d # e => ran'[d] = ran[d]
           /\ \A d \in Envs \ {"dev"} : ran[d] \subseteq ran'[d]
           /\ e # "dev" /\ values[e] # None => values[e] \in ran'[e]
<1>1. Tag(e) \in Images \cup {ChartTag} /\ (values[e] # None => Tag(e) = values[e])
  BY DEF Fields, Tag
<1>2. /\ live' = [live EXCEPT ![e] = Tag(e)]
      /\ ran' = [d \in Envs \ {"dev"} |-> IF d = e THEN ran[d] \cup {Tag(e)} ELSE ran[d]]
  BY DEF Deploy
<1> QED
  BY <1>1, <1>2 DEF Fields

\* A sync of prod deploys what staging has verified, or the chart's own tag to a prod
\* that has run nothing else.
LEMMA DeployToProd ==
    ASSUME Fields, ProdLine, NEW e \in Envs, Deploy(e), UNCHANGED values,
           verified'["staging"] = verified["staging"]
    PROVE  /\ values'["prod"] = None => ran'["prod"] \subseteq {ChartTag}
           /\ ProdAfterStaging'
<1>0. "prod" \in Envs
  BY DEF Envs
<1>1. CASE e = "prod" /\ values["prod"] = None
  <2>1. live'["prod"] = ChartTag /\ ran'["prod"] \subseteq {ChartTag}
    BY <1>0, <1>1, DeployFacts DEF Fields, ProdLine, Tag
  <2> QED
    BY <2>1 DEF ProdAfterStaging
<1>2. CASE e = "prod" /\ values["prod"] # None
  <2>1. live'["prod"] \in verified["staging"]
    BY <1>0, <1>2, DeployFacts DEF Fields, ProdLine, Tag
  <2> QED
    BY <1>2, <2>1 DEF ProdAfterStaging
<1>3. CASE e # "prod"
  <2>1. live'["prod"] = live["prod"] /\ ran'["prod"] = ran["prod"]
    BY <1>0, <1>3, DeployFacts DEF Fields
  <2> QED
    BY <2>1 DEF ProdLine, ProdAfterStaging
<1> QED
  BY <1>1, <1>2, <1>3

\* No step of Kargo, of the image updater, of ArgoCD or of the calendar
\* breaks IInv.
LEMMA StepIInv == IInv /\ [Next]_vars => IInv'
<1> SUFFICES ASSUME IInv, [Next]_vars PROVE IInv'
  OBVIOUS
<1> USE PromotionAssumption
    DEF IInv, Fields, ProdLine, StagingLine, ProdAfterStaging, VerifiedRan, gates
<1>0. "dev" \in Envs /\ "staging" \in Envs /\ "prod" \in Envs
  BY DEF Envs
<1>1. ASSUME NEW i \in Images, Discover(i) PROVE IInv'
  BY <1>1 DEF Discover
<1>2. ASSUME NEW i \in Images, UpdateDev(i) PROVE IInv'
  BY <1>0, <1>2 DEF UpdateDev
<1>3. ASSUME NEW e \in Envs, NEW i \in Images, Promote(e, i) PROVE IInv'
  <2>1. promo' = [promo EXCEPT ![e] = [step |-> "cloned", image |-> i, base |-> values[e]]]
    BY <1>3 DEF Promote
  <2>2. e = "prod" => i \in verified["staging"]
    BY <1>3 DEF Promote, Requested
  <2> QED
    BY <1>0, <1>3, <2>1, <2>2 DEF Promote
<1>4. ASSUME NEW e \in Envs, PushTag(e) PROVE IInv'
  <2>1. UNCHANGED <<verified, checking, live, ran>>
    BY <1>4 DEF PushTag
  <2>2. CASE /\ values' = [values EXCEPT ![e] = promo[e].image]
             /\ promo[e].step = "cloned"
             /\ promo' = [promo EXCEPT ![e].step = "pushed"]
    <3>1. promo' \in [Envs -> [step : {"idle", "cloned", "pushed"},
                              image : Images \cup {None}, base : Images \cup {None}]]
      <4>1. [promo[e] EXCEPT !.step = "pushed"]
               \in [step : {"idle", "cloned", "pushed"},
                   image : Images \cup {None}, base : Images \cup {None}]
        BY DEF Fields
      <4>2. promo' = [promo EXCEPT ![e] = [promo[e] EXCEPT !.step = "pushed"]]
        BY <2>2
      <4> QED
        BY <4>1, <4>2
    <3>2. /\ \A d \in Envs : promo'[d].image = promo[d].image
          /\ \A d \in Envs : promo'[d].step # "idle" => promo[d].step # "idle"
          /\ \A d \in Envs \ {e} : promo'[d] = promo[d] /\ values'[d] = values[d]
      BY <2>2
    <3>3. promo[e].image \in Images /\ values' \in [Envs -> Images \cup {None}]
      BY <2>2
    <3>4. values'[e] = promo'[e].image
      BY <2>2, <3>2
    <3>5. Fields'
      BY <2>1, <3>1, <3>2, <3>3
    <3>6. ProdLine'
      BY <1>0, <2>1, <2>2, <3>2, <3>4
    <3>7. StagingLine'
      BY <1>0, <2>1, <3>2, <3>4
    <3> QED
      BY <3>5, <3>6, <3>7
  <2>3. CASE promo' = [promo EXCEPT ![e] = Idle] /\ UNCHANGED values
    BY <1>0, <2>1, <2>3 DEF Idle
  <2> QED
    BY <1>4, <2>2, <2>3 DEF PushTag, Step, End
<1>5. ASSUME NEW e \in Envs, ArgoUpdate(e) PROVE IInv'
  <2>1. /\ promo[e].step = "pushed" /\ Deploy(e) /\ End(e)
        /\ UNCHANGED values
    BY <1>5 DEF ArgoUpdate
  <2>2. promo[e].image \in Images
    BY <2>1
  <2>3. /\ live' \in [Envs -> Images \cup {ChartTag, None}]
        /\ ran' \in [Envs \ {"dev"} -> SUBSET (Images \cup {ChartTag})]
        /\ \A d \in Envs \ {"dev"} : ran[d] \subseteq ran'[d]
        /\ e # "dev" /\ values[e] # None => values[e] \in ran'[e]
    BY <2>1, DeployFacts
  <2>4. /\ promo' = [promo EXCEPT ![e] = Idle]
        /\ promo' \in [Envs -> [step : {"idle", "cloned", "pushed"},
                                image : Images \cup {None}, base : Images \cup {None}]]
        /\ promo'[e].step = "idle"
    BY <2>1 DEF End, Idle
  <2>5. /\ verified' \in [Envs -> SUBSET Images]
        /\ verified'["staging"] = verified["staging"]
        /\ checking' \in [Envs -> Images \cup {None}]
        /\ checking'["staging"] # checking["staging"]
              => e = "staging" /\ checking'["staging"] = promo["staging"].image
    <3>1. CASE e = "dev"
      <4>1. /\ verified' = [verified EXCEPT ![e] = @ \cup {promo[e].image}]
            /\ checking' = checking
        BY <1>5, <3>1 DEF ArgoUpdate
      <4> QED
        BY <1>0, <2>2, <3>1, <4>1
    <3>2. CASE e # "dev"
      <4>1. /\ checking' = [checking EXCEPT ![e] = promo[e].image]
            /\ verified' = verified
        BY <1>5, <3>2 DEF ArgoUpdate
      <4> QED
        BY <1>0, <2>2, <3>2, <4>1
    <3> QED
      BY <3>1, <3>2
  <2>6. Fields'
    BY <2>1, <2>3, <2>4, <2>5
  <2>7. ProdLine'
    BY <1>0, <2>1, <2>3, <2>4, <2>5, DeployToProd
  <2>8. StagingLine'
    <3>1. checking'["staging"] \in ran'["staging"] \cup {None}
      BY <1>0, <2>1, <2>3, <2>5
    <3> QED
      BY <1>0, <2>1, <2>3, <2>4, <2>5, <3>1
  <2> QED
    BY <2>6, <2>7, <2>8
<1>6. ASSUME NEW e \in Envs, ArgoUpdateFails(e) PROVE IInv'
  BY <1>0, <1>6 DEF ArgoUpdateFails, End, Idle
<1>7. ASSUME NEW e \in Envs, Verify(e) PROVE IInv'
  <2>1. /\ UNCHANGED <<values, promo, live, ran>>
        /\ checking[e] \in Images
        /\ checking' = [checking EXCEPT ![e] = None]
    BY <1>7 DEF Verify
  <2>2. CASE verified' = verified
    BY <1>0, <2>1, <2>2
  <2>3. CASE verified' = [verified EXCEPT ![e] = @ \cup {checking[e]}]
    <3>1. /\ verified' \in [Envs -> SUBSET Images]
          /\ \A d \in Envs : verified[d] \subseteq verified'[d]
          /\ verified'["staging"] \subseteq ran["staging"]
      BY <1>0, <2>1, <2>3
    <3> QED
      BY <1>0, <2>1, <3>1
  <2> QED
    BY <1>7, <2>2, <2>3 DEF Verify
<1>8. ASSUME NEW e \in Envs, AutoSync(e) PROVE IInv'
  <2>1. Deploy(e) /\ UNCHANGED <<freight, verified, checking, values, promo>>
    BY <1>8 DEF AutoSync
  <2>2. /\ live' \in [Envs -> Images \cup {ChartTag, None}]
        /\ ran' \in [Envs \ {"dev"} -> SUBSET (Images \cup {ChartTag})]
        /\ \A d \in Envs \ {"dev"} : ran[d] \subseteq ran'[d]
    BY <2>1, DeployFacts
  <2>3. Fields'
    BY <2>1, <2>2
  <2>4. ProdLine'
    BY <1>0, <2>1, <2>2, DeployToProd
  <2>5. StagingLine'
    BY <1>0, <2>1, <2>2
  <2> QED
    BY <2>3, <2>4, <2>5
<1>9. ASSUME NEW e \in {"staging", "prod"}, Open(e) \/ Close(e) PROVE IInv'
  BY <1>9 DEF Open, Close
<1>10. CASE UNCHANGED vars
  BY <1>10 DEF vars
<1> QED
  BY <1>1, <1>2, <1>3, <1>4, <1>5, <1>6, <1>7, <1>8, <1>9, <1>10 DEF Next, Stage

\* IInv is an invariant of the delivery pipeline.
THEOREM Invariance == Spec => []IInv
BY InitIInv, StepIInv, PTL DEF Spec

\* Once prod has run anything but the tag its chart came with, and whoever writes main
\* and syncs then, the image in prod has passed the analysis of staging
\* (go-hello.yaml 112-123).
THEOREM ProdIsVerified == Spec => []ProdAfterStaging
<1>1. IInv => ProdAfterStaging
  BY DEF IInv, ProdLine
<1> QED
  BY <1>1, Invariance, PTL

\* An image verified in staging has run there (go-hello.yaml 75-105).
THEOREM StagingRanIt == Spec => []VerifiedRan
<1>1. IInv => VerifiedRan
  BY DEF IInv, StagingLine
<1> QED
  BY <1>1, Invariance, PTL
===============================================================================
