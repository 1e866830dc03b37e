---------------------------- MODULE ImagePipeline -----------------------------
(***************************************************************************)
(* .github/workflows/container-build.yml for one app: runs triggered by    *)
(* pushes, version tags, pull requests and hand, which build and push an   *)
(* image, scan it, and sign it, in that order; and the admission policy    *)
(* infra/build/cosign.policy.yaml.  A run stands for the image it builds.  *)
(***************************************************************************)
EXTENDS Integers

CONSTANTS
    MaxRuns,    \* bound on the number of runs
    Versions,   \* version tags v*
    Pulls,      \* pull requests from this repository
    NoRun       \* no run

\* A tag or a pull request has a ref of its own, refs/tags/... or refs/pull/....
ASSUME PipelineAssumption ==
    /\ MaxRuns \in Nat \ {0} /\ NoRun \notin 1 .. MaxRuns
    /\ "main" \notin Versions \cup Pulls

VARIABLES
    head,       \* number of commits on main
    next,       \* number of runs so far
    run,        \* run[r]: its event, ref, commit and phase
    registry,   \* images pushed to ghcr.io
    critical,   \* images with a fixable CRITICAL vulnerability
    signed,     \* images with a cosign signature
    mainTag     \* the image the tags main and latest name

pipelineVars == <<head, next, run, registry, critical, signed, mainTag>>

Runs == 1 .. MaxRuns
Commits == 0 .. MaxRuns
Refs == {"main"} \cup Versions \cup Pulls
Events == {"push", "pull_request", "workflow_dispatch"}
Ended == {"done", "failed", "cancelled"}
Active == {"queued", "building", "pushed", "scanned"}

Phase(r, p) == run' = [run EXCEPT ![r].phase = p]

PipelineInit ==
    /\ head = 0
    /\ next = 0
    /\ run = [r \in Runs |-> [event |-> "push", ref |-> "main", commit |-> 0,
                              phase |-> "none"]]
    /\ registry = {} /\ critical = {} /\ signed = {}
    /\ mainTag = NoRun

-------------------------------------------------------------------------------
\* Mutant: no concurrency group.
TriggerAlongside(event, ref, commit) ==
    /\ next < MaxRuns
    /\ next' = next + 1
    /\ run' = [run EXCEPT ![next + 1] =
          [event |-> event, ref |-> ref, commit |-> commit, phase |-> "queued"]]
    /\ UNCHANGED <<registry, critical, signed, mainTag>>

\* A new run; cancel-in-progress stops the run of the same ref at whatever step
\* it has reached.
Trigger(event, ref, commit) ==
    /\ next < MaxRuns
    /\ next' = next + 1
    /\ run' = [r \in Runs |->
          IF r = next + 1
          THEN [event |-> event, ref |-> ref, commit |-> commit, phase |-> "queued"]
          ELSE IF run[r].ref = ref /\ run[r].phase \in Active
               THEN [run[r] EXCEPT !.phase = "cancelled"]
               ELSE run[r]]
    /\ UNCHANGED <<registry, critical, signed, mainTag>>

PushMain ==
    /\ head' = head + 1
    /\ Trigger("push", "main", head + 1)

\* A release tags a commit of main; a version tag is pushed once.
PushVersion(v) ==
    /\ \A r \in Runs : run[r].ref # v
    /\ \E c \in 1 .. head : Trigger("push", v, c)
    /\ UNCHANGED head

\* The sha of a pull request is that of its merge commit, which is not on main.
PullRequest(p) ==
    /\ Trigger("pull_request", p, 0)
    /\ UNCHANGED head

Dispatch ==
    /\ head > 0
    /\ Trigger("workflow_dispatch", "main", head)
    /\ UNCHANGED head

-------------------------------------------------------------------------------
(* The steps of the build job of a run                                     *)

Lint(r) ==
    /\ run[r].phase = "queued"
    /\ Phase(r, "building") \/ Phase(r, "failed")
    /\ UNCHANGED <<head, next, registry, critical, signed, mainTag>>

\* The image is pushed under all its tags before anything has looked at it.
Push(r) ==
    /\ run[r].phase = "building"
    /\ registry' = registry \cup {r}
    /\ critical' \in {critical, critical \cup {r}}
    /\ mainTag' = IF run[r].event = "push" /\ run[r].ref = "main" THEN r ELSE mainTag
    /\ Phase(r, "pushed")
    /\ UNCHANGED <<head, next, signed>>

\* continue-on-error: a failed build leaves no digest, every later step is
\* skipped, and the job is green.
BuildFails(r) ==
    /\ run[r].phase = "building"
    /\ Phase(r, "done")
    /\ UNCHANGED <<head, next, registry, critical, signed, mainTag>>

\* Mutant: continue-on-error on the image scan, as on the Dockerfile scan.
ScanReported(r) ==
    /\ run[r].phase = "pushed"
    /\ Phase(r, "scanned")
    /\ UNCHANGED <<head, next, registry, critical, signed, mainTag>>

\* The CRITICAL gate; the SBOM step after it may fail too.
Scan(r) ==
    /\ run[r].phase = "pushed"
    /\ \/ r \notin critical /\ Phase(r, "scanned")
       \/ Phase(r, "failed")
    /\ UNCHANGED <<head, next, registry, critical, signed, mainTag>>

\* cosign sign and cosign attach, skipped for pull requests.
Sign(r) ==
    /\ run[r].phase = "scanned"
    /\ \/ /\ run[r].event = "pull_request"
          /\ UNCHANGED signed
          /\ Phase(r, "done")
       \/ /\ run[r].event # "pull_request"
          /\ signed' = signed \cup {r}
          /\ Phase(r, "done") \/ Phase(r, "failed")
       \/ /\ run[r].event # "pull_request"
          /\ UNCHANGED signed
          /\ Phase(r, "failed")
    /\ UNCHANGED <<head, next, registry, critical, mainTag>>

RunStep(r) == Lint(r) \/ Push(r) \/ BuildFails(r) \/ Scan(r) \/ Sign(r)

Event ==
    \/ PushMain
    \/ \E v \in Versions : PushVersion(v)
    \/ \E p \in Pulls : PullRequest(p)
    \/ Dispatch

PipelineNext == Event \/ \E r \in Runs : RunStep(r)

PipelineSpec == PipelineInit /\ [][PipelineNext]_pipelineVars

\* verify-cosign-keyless: a signature by this workflow, run for refs/heads/main.
Admitted(r) == r \in signed /\ run[r].ref = "main"

-------------------------------------------------------------------------------
(* Properties                                                              *)

PipelineTypeOK ==
    /\ head \in Commits /\ next \in 0 .. MaxRuns
    /\ run \in [Runs -> [event : Events, ref : Refs, commit : Commits,
                         phase : Ended \cup Active \cup {"none"}]]
    /\ \A r \in Runs : run[r].phase = "none" <=> r > next
    /\ registry \subseteq Runs /\ critical \subseteq Runs /\ signed \subseteq Runs
    /\ mainTag \in Runs \cup {NoRun}

\* What a cluster admits has passed the CRITICAL gate, although it was in the
\* registry, under its final tags, before the gate ran.
AdmittedIsClean == \A r \in Runs : Admitted(r) => r \in registry \ critical

\* The tags main and latest never go back to an older commit: the concurrency
\* group cancels the run of the older push before it can push its image.
MainTagForward ==
    [][mainTag # NoRun /\ mainTag' # mainTag
          => run[mainTag'].commit > run[mainTag].commit]_pipelineVars

\* "v<semver>: used by prod": a release that was pushed, scanned and signed is
\* admitted by the clusters.
ReleaseIsAdmitted ==
    \A r \in signed : run[r].ref \in Versions => Admitted(r)
===============================================================================
