------------------------- MODULE ImagePipelineProofs --------------------------
(* Theorems about container-build.yml, for any number of runs, version tags *)
(* and pull requests.                                                       *)
EXTENDS ImagePipeline, TLAPS

\* Where the image of a run is, and what has been found out about it: nothing
\* is in the registry before it is pushed, and a run past the CRITICAL gate
\* has a clean image.
Gated ==
    /\ run \in [Runs -> [event : Events, ref : Refs, commit : Int,
                         phase : Ended \cup Active \cup {"none"}]]
    /\ head \in Int /\ next \in Int
    /\ registry \subseteq Runs /\ critical \subseteq registry /\ signed \subseteq Runs
    /\ \A r \in registry : run[r].phase \notin {"none", "queued", "building"}
    /\ \A r \in Runs : r > next => run[r].phase = "none"
    /\ \A r \in Runs : run[r].phase \in {"pushed", "scanned"} => r \in registry
    /\ \A r \in Runs : run[r].phase = "scanned" => r \notin critical
    /\ \A r \in signed : r \in registry \ critical
                         /\ run[r].phase \in Ended

\* Gated holds initially.
LEMMA InitGated == PipelineInit => Gated
BY DEF PipelineInit, Gated, Events, Refs, Ended, Active

\* A run that is triggered, and the run it cancels, keep Gated.
LEMMA TriggerGated ==
    ASSUME Gated, NEW event \in Events, NEW ref \in Refs, NEW commit \in Int,
           Trigger(event, ref, commit), head' \in Int
    PROVE  Gated'
<1>1. /\ next' = next + 1
      /\ UNCHANGED registry /\ UNCHANGED critical /\ UNCHANGED signed
  BY DEF Trigger
<1>2. run' \in [Runs -> [event : Events, ref : Refs, commit : Int,
                         phase : Ended \cup Active \cup {"none"}]]
  BY DEF Trigger, Gated, Ended, Active
<1>3. \A r \in Runs : r # next + 1 =>
        \/ run'[r] = run[r]
        \/ run[r].phase \in Active /\ run'[r].phase = "cancelled"
  BY DEF Trigger, Gated
<1>4. \A r \in Runs : r = next + 1 =>
        run[r].phase = "none" /\ run'[r].phase = "queued"
  BY DEF Trigger, Gated, Runs
<1>5. \A r \in Runs : r \in registry => run'[r].phase \notin {"none", "queued", "building"}
  BY <1>3, <1>4 DEF Gated
<1>6. \A r \in Runs : r > next' => run'[r].phase = "none"
  BY <1>1, <1>3 DEF Gated, Runs, Active
<1>7. \A r \in Runs : run'[r].phase = "scanned" => r \notin critical
  BY <1>3, <1>4 DEF Gated
<1>8. \A r \in Runs : run'[r].phase \in {"pushed", "scanned"} => r \in registry
  BY <1>3, <1>4 DEF Gated
<1>9. \A r \in Runs : r \in signed => run'[r].phase \in Ended
  BY <1>3, <1>4 DEF Gated, Ended, Active
<1> QED
  BY <1>1, <1>2, <1>5, <1>6, <1>7, <1>8, <1>9 DEF Gated

\* A step of a build job keeps Gated: the order push, scan, sign does.
LEMMA StepGated ==
    ASSUME Gated, NEW r \in Runs, RunStep(r)
    PROVE  Gated'
<1> USE DEF Gated, Phase
<1>1. CASE Lint(r)
  BY <1>1 DEF Lint, Ended, Active
<1>2. CASE Push(r)
  <2>1. r \notin registry /\ r \notin critical
    BY <1>2 DEF Push
  <2>2. run' = [run EXCEPT ![r].phase = "pushed"] /\ run[r].phase = "building"
    BY <1>2 DEF Push
  <2>3. run' \in [Runs -> [event : Events, ref : Refs, commit : Int,
                          phase : Ended \cup Active \cup {"none"}]]
    BY <2>2 DEF Active
  <2>4. /\ registry' = registry \cup {r}
        /\ critical' \subseteq critical \cup {r}
        /\ UNCHANGED head /\ UNCHANGED next /\ UNCHANGED signed
    BY <1>2 DEF Push
  <2>5. \A s \in Runs : s # r => run'[s] = run[s]
    BY <2>2
  <2>6. run'[r].phase = "pushed" /\ r \notin signed
    BY <2>2 DEF Ended
  <2> QED
    BY <2>1, <2>2, <2>3, <2>4, <2>5, <2>6
<1>3. CASE BuildFails(r)
  BY <1>3 DEF BuildFails, Ended, Active
<1>4. CASE Scan(r)
  BY <1>4 DEF Scan, Ended, Active
<1>5. CASE Sign(r)
  <2>1. /\ run[r].phase = "scanned" /\ r \notin critical
        /\ UNCHANGED head /\ UNCHANGED next /\ UNCHANGED registry /\ UNCHANGED critical
        /\ signed' = signed \/ signed' = signed \cup {r}
    BY <1>5 DEF Sign
  <2>2. run' = [run EXCEPT ![r].phase = "done"] \/ run' = [run EXCEPT ![r].phase = "failed"]
    BY <1>5 DEF Sign
  <2>3. /\ run' \in [Runs -> [event : Events, ref : Refs, commit : Int,
                             phase : Ended \cup Active \cup {"none"}]]
        /\ run'[r].phase \in {"done", "failed"}
        /\ \A s \in Runs : s # r => run'[s] = run[s]
    BY <2>2 DEF Ended
  <2>4. run'[r].phase \in Ended
    BY <2>3 DEF Ended
  <2>5. ~(r > next)
    BY <2>1
  <2> QED
    BY <2>1, <2>3, <2>4, <2>5
<1> QED
  BY <1>1, <1>2, <1>3, <1>4, <1>5 DEF RunStep

\* No event and no step of a run breaks Gated.
LEMMA NextGated == Gated /\ [PipelineNext]_pipelineVars => Gated'
<1> SUFFICES ASSUME Gated, [PipelineNext]_pipelineVars PROVE Gated'
  OBVIOUS
<1>1. CASE PushMain
  BY <1>1, TriggerGated DEF PushMain, Events, Refs, Gated
<1>2. ASSUME NEW v \in Versions, PushVersion(v) PROVE Gated'
  <2>1. PICK c \in 1 .. head : Trigger("push", v, c)
    BY <1>2 DEF PushVersion
  <2> QED
    <3>1. head \in Int /\ head' = head
      BY <1>2 DEF PushVersion, Gated
    <3>2. c \in Int /\ "push" \in Events /\ v \in Refs
      BY <3>1 DEF Events, Refs
    <3> QED
      BY <2>1, <3>1, <3>2, TriggerGated
<1>3. ASSUME NEW p \in Pulls, PullRequest(p) PROVE Gated'
  <2>1. /\ head \in Int /\ head' = head
        /\ "pull_request" \in Events /\ p \in Refs
    BY <1>3 DEF PullRequest, Gated, Events, Refs
  <2> QED
    BY <1>3, <2>1, TriggerGated DEF PullRequest
<1>4. CASE Dispatch
  BY <1>4, TriggerGated DEF Dispatch, Events, Refs, Gated
<1>5. ASSUME NEW r \in Runs, RunStep(r) PROVE Gated'
  BY <1>5, StepGated
<1>6. CASE UNCHANGED pipelineVars
  BY <1>6 DEF pipelineVars, Gated
<1> QED
  BY <1>1, <1>2, <1>3, <1>4, <1>5, <1>6 DEF PipelineNext, Event

\* An image that a cluster admits has passed the CRITICAL gate
\* (container-build.yml 141-151 and 200-210, cosign.policy.yaml).
THEOREM AdmissionIsClean == PipelineSpec => []AdmittedIsClean
<1>1. Gated => AdmittedIsClean
  BY DEF Gated, AdmittedIsClean, Admitted
<1> QED
  BY <1>1, InitGated, NextGated, PTL DEF PipelineSpec

-------------------------------------------------------------------------------
\* A run of a push to main: the only runs that move the tags main and latest.
MainPush(r) == run[r].phase # "none" /\ run[r].event = "push" /\ run[r].ref = "main"

\* Why the tags only move forward.  Later pushes of main have later commits; a
\* run of main that is still active has no later run of main beside it, for
\* cancel-in-progress has stopped it when that one was triggered; and the tags
\* name the image of a push to main that is past its push.
Superseding ==
    /\ run \in [Runs -> [event : Events, ref : Refs, commit : Int,
                         phase : Ended \cup Active \cup {"none"}]]
    /\ head \in Int /\ next \in Nat
    /\ \A r \in Runs : r > next => run[r].phase = "none"
    /\ \A r \in Runs : MainPush(r) => run[r].commit <= head
    /\ \A r, s \in Runs : MainPush(r) /\ MainPush(s) /\ r < s
                              => run[r].commit < run[s].commit
    /\ \A r, s \in Runs : run[r].phase \in Active /\ run[r].ref = "main"
                          /\ MainPush(s) => s <= r
    /\ mainTag # NoRun => /\ mainTag \in Runs /\ MainPush(mainTag)
                         /\ run[mainTag].phase \notin {"queued", "building"}

\* Superseding holds initially.
LEMMA InitSuperseding == PipelineInit => Superseding
BY DEF PipelineInit, Superseding, MainPush, Events, Refs, Ended, Active

\* A run that is triggered cancels the active run of its ref, so it may be the
\* last of main; a push to main brings a commit after all those before.
LEMMA TriggerSuperseding ==
    ASSUME Superseding, NEW event \in Events, NEW ref \in Refs, NEW commit \in Int,
           Trigger(event, ref, commit), head' \in Int, head <= head',
           event = "push" /\ ref = "main" => head < commit /\ commit <= head'
    PROVE  Superseding'
<1>1. next' = next + 1 /\ next + 1 \in Runs /\ mainTag' = mainTag
  BY PipelineAssumption DEF Trigger, Superseding, Runs
<1>2. run' \in [Runs -> [event : Events, ref : Refs, commit : Int,
                         phase : Ended \cup Active \cup {"none"}]]
  BY DEF Trigger, Superseding, Ended, Active
<1>3. /\ run'[next + 1] = [event |-> event, ref |-> ref, commit |-> commit,
                           phase |-> "queued"]
      /\ run[next + 1].phase = "none"
  BY <1>1 DEF Trigger, Superseding
<1>4. \A r \in Runs : r # next + 1 =>
        /\ run'[r].event = run[r].event /\ run'[r].ref = run[r].ref
        /\ run'[r].commit = run[r].commit
        /\ \/ run'[r].phase = run[r].phase /\ ~(run[r].ref = ref /\ run[r].phase \in Active)
           \/ run[r].phase \in Active /\ run'[r].phase = "cancelled"
  BY DEF Trigger, Superseding
<1>5. \A r \in Runs : r # next + 1 =>
        /\ MainPush(r)' <=> MainPush(r)
        /\ MainPush(r) => r <= next
        /\ run'[r].phase \in Active => run[r].phase \in Active /\ run[r].ref # ref
  <2> SUFFICES ASSUME NEW r \in Runs, r # next + 1
               PROVE  /\ MainPush(r)' <=> MainPush(r)
                      /\ MainPush(r) => r <= next
                      /\ run'[r].phase \in Active => run[r].phase \in Active /\ run[r].ref # ref
    OBVIOUS
  <2>1. MainPush(r)' <=> MainPush(r)
    BY <1>4 DEF MainPush, Active
  <2>2. MainPush(r) => r <= next
    BY PipelineAssumption DEF MainPush, Superseding, Runs
  <2>3. run'[r].phase \in Active => run[r].phase \in Active /\ run[r].ref # ref
    BY <1>4 DEF Active
  <2> QED
    BY <2>1, <2>2, <2>3
<1>6. \A r \in Runs : r = next + 1 => (MainPush(r)' <=> event = "push" /\ ref = "main")
  BY <1>3 DEF MainPush
<1>7. \A r \in Runs : r > next' => run'[r].phase = "none"
  <2> SUFFICES ASSUME NEW r \in Runs, r > next' PROVE run'[r].phase = "none"
    OBVIOUS
  <2>1. r > next /\ r # next + 1
    BY <1>1, PipelineAssumption DEF Superseding, Runs
  <2> QED
    BY <2>1, <1>4 DEF Superseding, Active
<1>8. \A r \in Runs : MainPush(r)' => run'[r].commit <= head'
  <2> SUFFICES ASSUME NEW r \in Runs, MainPush(r)' PROVE run'[r].commit <= head'
    OBVIOUS
  <2>1. CASE r = next + 1
    BY <2>1, <1>3, <1>6
  <2>2. CASE r # next + 1
    BY <2>2, <1>4, <1>5 DEF Superseding
  <2> QED
    BY <2>1, <2>2
<1>9. ASSUME NEW r \in Runs, NEW s \in Runs, MainPush(r)', MainPush(s)', r < s
      PROVE  run'[r].commit < run'[s].commit
  <2>1. r # next + 1
    BY <1>1, <1>5, <1>9, PipelineAssumption DEF Superseding, Runs
  <2>2. CASE s = next + 1
    <3>1. run'[r].commit = run[r].commit /\ run[r].commit <= head
      BY <2>1, <1>4, <1>5, <1>9 DEF Superseding
    <3>2. run'[s].commit = commit /\ head < commit
      BY <2>2, <1>3, <1>6, <1>9
    <3> QED
      BY <3>1, <3>2 DEF Superseding
  <2>3. CASE s # next + 1
    BY <2>1, <2>3, <1>4, <1>5, <1>9 DEF Superseding
  <2> QED
    BY <2>2, <2>3
<1>10. ASSUME NEW r \in Runs, NEW s \in Runs, MainPush(s)',
              run'[r].phase \in Active, run'[r].ref = "main"
       PROVE  s <= r
  <2>1. CASE r = next + 1
    BY <2>1, <1>1, <1>5, <1>10, PipelineAssumption DEF Superseding, Runs
  <2>2. CASE r # next + 1
    <3>1. run[r].phase \in Active /\ run[r].ref = "main" /\ ref # "main"
      BY <2>2, <1>4, <1>5, <1>10
    <3>2. s # next + 1
      BY <3>1, <1>6, <1>10
    <3> QED
      BY <3>1, <3>2, <1>5, <1>10 DEF Superseding
  <2> QED
    BY <2>1, <2>2
<1>11. mainTag' # NoRun => /\ mainTag' \in Runs /\ MainPush(mainTag)'
                          /\ run'[mainTag'].phase \notin {"queued", "building"}
  <2> SUFFICES ASSUME mainTag # NoRun
               PROVE  /\ mainTag \in Runs /\ MainPush(mainTag)'
                      /\ run'[mainTag].phase \notin {"queued", "building"}
    BY <1>1 DEF MainPush
  <2>1. mainTag \in Runs /\ MainPush(mainTag) /\ run[mainTag].phase \notin {"queued", "building"}
    BY DEF Superseding
  <2>2. mainTag # next + 1
    BY <2>1, <1>3 DEF MainPush
  <2> QED
    BY <2>1, <2>2, <1>1, <1>4, <1>5
<1> QED
  BY <1>1, <1>2, <1>7, <1>8, <1>9, <1>10, <1>11 DEF Superseding

\* A step of a build job leaves what a run is, and a run that ended stays ended.
LEMMA StepShape ==
    ASSUME Superseding, NEW r \in Runs, RunStep(r)
    PROVE  /\ head' = head /\ next' = next
           /\ run' \in [Runs -> [event : Events, ref : Refs, commit : Int,
                                 phase : Ended \cup Active \cup {"none"}]]
           /\ \A s \in Runs : s # r => run'[s] = run[s]
           /\ run'[r].event = run[r].event /\ run'[r].ref = run[r].ref
           /\ run'[r].commit = run[r].commit
           /\ run[r].phase \in Active
           /\ run'[r].phase \notin {"none", "queued"}
           /\ run'[r].phase = "building" => run[r].phase = "queued"
           /\ \/ mainTag' = mainTag
              \/ /\ mainTag' = r /\ run[r].event = "push" /\ run[r].ref = "main"
                 /\ run[r].phase = "building" /\ run'[r].phase = "pushed"
<1> USE DEF Superseding, Phase
<1>1. \E p \in {"building", "pushed", "scanned", "done", "failed"} :
        /\ run' = [run EXCEPT ![r].phase = p]
        /\ p = "building" => run[r].phase = "queued"
        /\ run[r].phase \in Active
        /\ \/ mainTag' = mainTag
           \/ /\ mainTag' = r /\ run[r].event = "push" /\ run[r].ref = "main"
              /\ run[r].phase = "building" /\ p = "pushed"
  <2>1. CASE Lint(r)
    BY <2>1 DEF Lint, Active
  <2>2. CASE Push(r)
    BY <2>2 DEF Push, Active
  <2>3. CASE BuildFails(r)
    BY <2>3 DEF BuildFails, Active
  <2>4. CASE Scan(r)
    BY <2>4 DEF Scan, Active
  <2>5. CASE Sign(r)
    BY <2>5 DEF Sign, Active
  <2> QED
    BY <2>1, <2>2, <2>3, <2>4, <2>5 DEF RunStep
<1>2. head' = head /\ next' = next
  BY DEF RunStep, Lint, Push, BuildFails, Scan, Sign
<1> QED
  BY <1>1, <1>2 DEF Ended, Active

LEMMA StepSuperseding ==
    ASSUME Superseding, NEW r \in Runs, RunStep(r)
    PROVE  Superseding'
<1>1. /\ \A s \in Runs : MainPush(s)' <=> MainPush(s)
      /\ \A s \in Runs : run'[s].commit = run[s].commit /\ run'[s].ref = run[s].ref
      /\ \A s \in Runs : run'[s].phase \in Active => run[s].phase \in Active
      /\ \A s \in Runs : run'[s].phase = "none" <=> run[s].phase = "none"
  BY StepShape DEF MainPush, Active, Superseding
<1>2. mainTag' # NoRun => /\ mainTag' \in Runs /\ MainPush(mainTag)'
                         /\ run'[mainTag'].phase \notin {"queued", "building"}
  <2>1. CASE mainTag' = mainTag
    <3> SUFFICES ASSUME mainTag # NoRun
                 PROVE  /\ mainTag \in Runs /\ MainPush(mainTag)'
                        /\ run'[mainTag].phase \notin {"queued", "building"}
      BY <2>1 DEF MainPush
    <3> QED
      BY <2>1, <1>1, StepShape DEF Superseding
  <2>2. CASE /\ mainTag' = r /\ run[r].event = "push" /\ run[r].ref = "main"
             /\ run[r].phase = "building" /\ run'[r].phase = "pushed"
    <3>1. run'[r].event = "push" /\ run'[r].ref = "main"
      BY <2>2, StepShape
    <3> QED
      BY <2>2, <3>1 DEF MainPush
  <2> QED
    BY <2>1, <2>2, StepShape
<1> QED
  BY <1>1, <1>2, StepShape DEF Superseding

\* No event and no step of a run breaks Superseding.
LEMMA NextSuperseding == Superseding /\ [PipelineNext]_pipelineVars => Superseding'
<1> SUFFICES ASSUME Superseding, [PipelineNext]_pipelineVars PROVE Superseding'
  OBVIOUS
<1>1. CASE PushMain
  BY <1>1, TriggerSuperseding DEF PushMain, Events, Refs, Superseding
<1>2. ASSUME NEW v \in Versions, PushVersion(v) PROVE Superseding'
  <2>1. PICK c \in 1 .. head : Trigger("push", v, c)
    BY <1>2 DEF PushVersion
  <2>2. head \in Int /\ head' = head /\ c \in Int /\ "push" \in Events /\ v \in Refs
    BY <1>2 DEF PushVersion, Superseding, Events, Refs
  <2>3. v # "main"
    BY PipelineAssumption
  <2> QED
    BY <2>1, <2>2, <2>3, TriggerSuperseding
<1>3. ASSUME NEW p \in Pulls, PullRequest(p) PROVE Superseding'
  <2>1. /\ head \in Int /\ head' = head
        /\ "pull_request" \in Events /\ p \in Refs
    BY <1>3 DEF PullRequest, Superseding, Events, Refs
  <2> QED
    BY <1>3, <2>1, TriggerSuperseding DEF PullRequest
<1>4. CASE Dispatch
  BY <1>4, TriggerSuperseding DEF Dispatch, Events, Refs, Superseding
<1>5. ASSUME NEW r \in Runs, RunStep(r) PROVE Superseding'
  BY <1>5, StepSuperseding
<1>6. CASE UNCHANGED pipelineVars
  BY <1>6 DEF pipelineVars, Superseding, MainPush
<1> QED
  BY <1>1, <1>2, <1>3, <1>4, <1>5, <1>6 DEF PipelineNext, Event

\* Triggering a run never moves the tags, and a run that pushes moves them to
\* the last commit pushed.
LEMMA TagsMoveForward ==
    ASSUME Superseding, PipelineNext, mainTag # NoRun, mainTag' # mainTag
    PROVE  run[mainTag'].commit > run[mainTag].commit
<1>1. mainTag \in Runs /\ MainPush(mainTag) /\ run[mainTag].phase # "building"
  BY DEF Superseding
<1>2. PICK r \in Runs : RunStep(r)
  BY DEF PipelineNext, Event, PushMain, PushVersion, PullRequest, Dispatch, Trigger
<1>3. mainTag' = r /\ MainPush(r) /\ run[r].phase = "building"
  BY <1>2, StepShape DEF MainPush
<1>4. mainTag < r
  BY <1>1, <1>3 DEF Superseding, Active, MainPush, Runs
<1>5. run[mainTag].commit < run[r].commit
  BY <1>1, <1>3, <1>4 DEF Superseding
<1>6. run[mainTag].commit \in Int /\ run[r].commit \in Int
  BY <1>1 DEF Superseding
<1> QED
  BY <1>3, <1>5, <1>6

\* However fast the pushes to main follow each other and however long their
\* builds take, the tags main and latest never go back to an older commit
\* (container-build.yml 22-24, the concurrency group).
THEOREM TagsNeverGoBack == PipelineSpec => MainTagForward
<1>1. Superseding /\ [PipelineNext]_pipelineVars
        => [mainTag # NoRun /\ mainTag' # mainTag
              => run[mainTag'].commit > run[mainTag].commit]_pipelineVars
  BY TagsMoveForward
<1> QED
  BY <1>1, InitSuperseding, NextSuperseding, PTL DEF PipelineSpec, MainTagForward
===============================================================================
