------------------------------ MODULE Promotion -------------------------------
(***************************************************************************)
(* How a released image reaches prod: the Kargo warehouse and stages of    *)
(* infra/kargo/pipelines, which write the image tag into values.<env>.yaml *)
(* on main; the image updater, which writes values.dev.yaml on the same    *)
(* branch; and the ArgoCD applications of appset-apps.yaml, which deploy   *)
(* the tag on main, on their own or on request, when the sync windows of  *)
(* their project allow it.  The three pipelines are the same but for names.*)
(***************************************************************************)
CONSTANTS
    Images,     \* released images
    ChartTag,   \* image.tag in the values.yaml of the chart
    None        \* no image

ASSUME PromotionAssumption == None \notin Images \cup {ChartTag}

Envs == {"dev", "staging", "prod"}

VARIABLES
    freight,    \* images the warehouse has discovered
    values,     \* values[e]: image.tag in values.<e>.yaml on main, None if it has none
    promo,      \* promo[e]: the promotion the stage runs
    verified,   \* verified[e]: freight the stage has verified
    checking,   \* checking[e]: freight whose verification is running
    live,       \* live[e]: the tag ArgoCD last synced to the cluster, None before the
                \* application is there
    window,     \* environments whose sync windows allow a sync now
    ran         \* history: tags ever live in staging and in prod

vars == <<freight, values, promo, verified, checking, live, window, ran>>
gates == <<freight, verified, checking>>

Idle == [step |-> "idle", image |-> None, base |-> None]
Step(e, s) == promo' = [promo EXCEPT ![e].step = s]

End(e) == promo' = [promo EXCEPT ![e] = Idle]

\* The values files of the environments say nothing about the image until somebody
\* writes a tag into them.
Init ==
    /\ freight = {}
    /\ values = [e \in Envs |-> None]
    /\ promo = [e \in Envs |-> Idle]
    /\ verified = [e \in Envs |-> {}]
    /\ checking = [e \in Envs |-> None]
    /\ live = [e \in Envs |-> None]
    /\ window = Envs
    /\ ran = [e \in Envs \ {"dev"} |-> {}]

-------------------------------------------------------------------------------
(* Kargo                                                                   *)

\* The warehouse polls the registry for versions.
Discover(i) ==
    /\ i \notin freight
    /\ freight' = freight \cup {i}
    /\ UNCHANGED <<values, promo, verified, checking, live, window, ran>>

\* Mutant: every stage asks for freight directly.
RequestedDirect(e) == freight

\* The freight a stage may ask for: direct, or verified in the stage before.
Requested(e) ==
    CASE e = "dev" -> freight
      [] e = "staging" -> verified["dev"]
      [] e = "prod" -> verified["staging"]

\* Somebody promotes i; the stage clones main.  A stage promotes one at a time.
Promote(e, i) ==
    /\ promo[e] = Idle
    /\ checking[e] = None
    /\ i \in Requested(e)
    /\ promo' = [promo EXCEPT ![e] = [step |-> "cloned", image |-> i,
                                      base |-> values[e]]]
    /\ UNCHANGED <<gates, values, live, window, ran>>

\* yaml-update, git-commit and git-push: the push is rebased unless the same
\* line of the file changed after the clone.
PushTag(e) ==
    /\ promo[e].step = "cloned"
    /\ \/ /\ values[e] = promo[e].base
          /\ values' = [values EXCEPT ![e] = promo[e].image]
          /\ Step(e, "pushed")
       \/ End(e) /\ UNCHANGED values
    /\ UNCHANGED <<gates, live, window, ran>>

\* What main asks for in e: Helm reads values.yaml and then values.<e>.yaml.
Tag(e) == IF values[e] = None THEN ChartTag ELSE values[e]

\* What a sync of e deploys: the head of main.
Deploy(e) ==
    /\ live' = [live EXCEPT ![e] = Tag(e)]
    /\ ran' = [d \in Envs \ {"dev"} |-> IF d = e THEN ran[d] \cup {Tag(e)} ELSE ran[d]]

\* Mutant: argocd-update only requests the sync and does not wait for it.
ArgoUpdateUnawaited(e) ==
    /\ promo[e].step = "pushed"
    /\ IF e = "dev"
       THEN /\ verified' = [verified EXCEPT ![e] = @ \cup {promo[e].image}]
            /\ UNCHANGED checking
       ELSE /\ checking' = [checking EXCEPT ![e] = promo[e].image]
            /\ UNCHANGED verified
    /\ End(e)
    /\ UNCHANGED <<freight, values, live, window, ran>>

\* argocd-update syncs the application and waits: then the stage holds the
\* freight, verified at once in dev, which names no analysis.
ArgoUpdate(e) ==
    /\ promo[e].step = "pushed"
    /\ e \in window
    /\ Deploy(e)
    /\ IF e = "dev"
       THEN /\ verified' = [verified EXCEPT ![e] = @ \cup {promo[e].image}]
            /\ UNCHANGED checking
       ELSE /\ checking' = [checking EXCEPT ![e] = promo[e].image]
            /\ UNCHANGED verified
    /\ End(e)
    /\ UNCHANGED <<freight, values, window>>

\* The sync fails or is refused by a window: the tag stays on main.
ArgoUpdateFails(e) ==
    /\ promo[e].step = "pushed"
    /\ End(e)
    /\ UNCHANGED <<gates, values, live, window, ran>>

\* The analysis run of smoke and slo ends.
Verify(e) ==
    /\ checking[e] # None
    /\ verified' \in {verified, [verified EXCEPT ![e] = @ \cup {checking[e]}]}
    /\ checking' = [checking EXCEPT ![e] = None]
    /\ UNCHANGED <<freight, values, promo, live, window, ran>>

-------------------------------------------------------------------------------
(* The other writers of main, ArgoCD, and the calendar                     *)

\* The image updater puts the newest build of the registry into values.dev.yaml.
UpdateDev(i) ==
    /\ values["dev"] # i
    /\ values' = [values EXCEPT !["dev"] = i]
    /\ UNCHANGED <<gates, promo, live, window, ran>>

\* syncPolicy.automated is set for every environment; autosync only feeds
\* selfHeal.  The first of these syncs installs the chart.
AutoSync(e) ==
    /\ e \in window
    /\ live[e] # Tag(e)
    /\ Deploy(e)
    /\ UNCHANGED <<gates, values, promo, window>>

\* The sync windows of an environment open and close; dev has none.
Open(e) ==
    /\ window' = window \cup {e}
    /\ UNCHANGED <<gates, values, promo, live, ran>>

Close(e) ==
    /\ window' = window \ {e}
    /\ UNCHANGED <<gates, values, promo, live, ran>>

-------------------------------------------------------------------------------
Stage(e) == PushTag(e) \/ ArgoUpdate(e) \/ ArgoUpdateFails(e) \/ Verify(e)

Next ==
    \/ \E i \in Images : Discover(i) \/ UpdateDev(i)
    \/ \E e \in Envs : \E i \in Images : Promote(e, i)
    \/ \E e \in Envs : Stage(e) \/ AutoSync(e)
    \/ \E e \in {"staging", "prod"} : Open(e) \/ Close(e)

Spec == Init /\ [][Next]_vars

-------------------------------------------------------------------------------
(* Properties                                                              *)

TypeOK ==
    /\ freight \subseteq Images
    /\ values \in [Envs -> Images \cup {None}]
    /\ promo \in [Envs -> [step : {"idle", "cloned", "pushed"},
                           image : Images \cup {None}, base : Images \cup {None}]]
    /\ verified \in [Envs -> SUBSET Images]
    /\ \A e \in Envs : promo[e].step = "idle" <=> promo[e].image = None
    /\ checking \in [Envs -> Images \cup {None}]
    /\ live \in [Envs -> Images \cup {ChartTag, None}]
    /\ window \in SUBSET Envs
    /\ ran \in [Envs \ {"dev"} -> SUBSET (Images \cup {ChartTag})]

\* Whoever writes main and whenever ArgoCD syncs, the image in prod has passed the
\* analysis of staging.  The chart's own tag is excepted, which the first automated
\* sync installs in every environment (values.yaml:3, appset-apps.yaml:51-60), but
\* only until the first image that was promoted: prod never falls back to it.
ProdAfterStaging ==
    \/ live["prod"] \in verified["staging"]
    \/ live["prod"] \in {None, ChartTag} /\ ran["prod"] \subseteq {ChartTag}

\* The same without the exception: what runs in prod came there by a promotion, so
\* that staging has verified it ("Kargo does the gated stage promotion").
ProdIsPromoted == live["prod"] \in verified["staging"] \cup {None}

\* An image counts as verified in staging only if staging ran it.
VerifiedRan == verified["staging"] \subseteq ran["staging"]
===============================================================================
