----------------------------- MODULE TaskRunner -----------------------------
(***************************************************************************)
(* The `repo` commands that run other programs (internal/cli): which ones  *)
(* in which order, what a failing one does to the rest, and the exit code. *)
(* A program ends well, fails, or is lost: it is not installed, or a       *)
(* signal ended it, and execa then reports no exit code.                   *)
(***************************************************************************)
EXTENDS Naturals, Sequences

CONSTANTS
  MaxKills,     \* bound: programs ended by a signal
  MaxMissing    \* bound: programs that are not installed

ASSUME TaskAssumption == MaxKills \in Nat /\ MaxMissing \in Nat

VARIABLES
  missing,   \* the programs that are not installed
  cmd,       \* the command called, or none
  at,        \* "idle", "asking", "running" or "done"
  trail,     \* how each program run so far ended
  exit,      \* the exit code
  says,      \* the status emitted: "nothing", "ok", "warning" or "error"
  dry,       \* history: the command ran nothing, by --dry-run or an answer
  kills

taskVars == <<missing, cmd, at, trail, exit, says, dry, kills>>

-----------------------------------------------------------------------------

\* What a command runs, and what it does when one program fails: "stop" there, run the
\* rest and "collect", "report" and succeed, "refuse" even lost programs, or "diagnose".
Task(name, policy, programs) ==
  [name |-> name, policy |-> policy, programs |-> programs, confirm |-> FALSE]
Confirmed(task) == [task EXCEPT !.confirm = TRUE]

BuildTask == {Task("build", "stop", <<"pnpm">>)}
TestTask == {Task("test", "stop", <<"pnpm">>)}
TypeCheckTask == {Task("type-check", "stop", <<"pnpm">>)}
FormatTask == {Task("format", "collect", <<"pnpm", "pnpm">>)}
LintTasks ==
  {Task("lint", "collect", <<"pnpm", "pnpm", "pnpm", "pnpm">>),
   Task("lint --fix", "collect", <<"pnpm", "pnpm">>)}
CiTask == {Task("ci", "stop", <<"pnpm", "pnpm", "pnpm", "pnpm", "pnpm", "pnpm", "pnpm">>)}
DepsTasks ==
  {Task("deps check", "collect", <<"pnpm", "pnpm", "pnpm", "pnpm", "pnpm", "pnpm">>),
   Task("deps sync", "stop", <<"pnpm", "pnpm">>),
   Task("deps audit", "report", <<"pnpm", "osv-scanner">>)}
ReleaseTasks ==
  {Task("release version", "stop", <<"pnpm", "pnpm">>),
   Task("release publish", "stop", <<"pnpm">>)}
ChangesetTask == {Task("new changeset", "stop", <<"pnpm">>)}
CleanTask == {Confirmed(Task("clean", "stop", <<"pnpm", "pnpm">>))}
DevTasks ==
  {Task(c, "stop", <<"docker">>) : c \in {"dev up", "dev down", "dev tools", "dev logs"}}
    \cup {Confirmed(Task("dev reset", "stop", <<"docker", "docker">>)),
          Task("dev tunnels", "stop", <<"cloudflared">>)}
DbTasks ==
  {Task(c, "stop", <<"atlas">>) : c \in {"db migrate", "db status", "db diff"}}
    \cup {Task("db seed", "stop", <<"pnpm">>), Task("db psql", "stop", <<"docker">>)}

\* Doctor asks three programs for their version, between looks at files; profile
\* validate runs helm on four charts, kubeconform and the check of the pins.
DoctorTask == {Task("doctor", "diagnose", <<"pnpm", "docker", "git">>)}
ValidateTask ==
  {Task("profile validate", "refuse", <<"helm", "helm", "helm", "helm", "kubeconform", "node">>)}

Tasks ==
  UNION {BuildTask, TestTask, TypeCheckTask, FormatTask, LintTasks, CiTask, DepsTasks, ReleaseTasks,
         ChangesetTask, CleanTask, DevTasks, DbTasks, DoctorTask, ValidateTask}
NoTask == Task("none", "stop", <<>>)
Silent == {"dev logs", "db status", "db psql"}
Programs == UNION {{t.programs[i] : i \in DOMAIN t.programs} : t \in Tasks}

-----------------------------------------------------------------------------

TaskInit ==
  /\ missing \in {{}} \cup {{p} : p \in IF MaxMissing = 0 THEN {} ELSE Programs}
  /\ cmd = NoTask /\ at = "idle" /\ trail = <<>> /\ exit = 0 /\ says = "nothing"
  /\ dry = FALSE /\ kills = 0

\* The command ends.
Exit(code, status) == at' = "done" /\ exit' = code /\ says' = status

\* The command is called: clean and dev reset ask first without --yes, profile validate
\* may refuse the profile's schema or be a dry run.
Call(task) ==
  /\ at = "idle"
  /\ cmd' = task
  /\ \/ /\ at' = "running"
        /\ UNCHANGED <<exit, says, dry>>
     \/ /\ task.confirm
        /\ at' = "asking"
        /\ UNCHANGED <<exit, says, dry>>
     \/ /\ task.name = "profile validate"
        /\ dry' = TRUE
        /\ Exit(10, "error") \/ Exit(0, "ok")
  /\ UNCHANGED <<missing, trail, kills>>

\* The prompt is answered; no, or its cancellation, aborts.
Answered ==
  /\ at = "asking"
  /\ \/ at' = "running" /\ UNCHANGED <<exit, says, dry>>
     \/ Exit(0, "warning") /\ dry' = TRUE
  /\ UNCHANGED <<missing, cmd, trail, kills>>

\* run: what the caller sees of a program, whose exit code is 0 when there is none.
Seen(end) == IF end = "failed" THEN 1 ELSE 0

\* Mutant: only the last program's exit code is looked at.
LastOnly(ends) == IF Seen(ends[Len(ends)]) = 0 THEN {} ELSE {Len(ends)}

\* The programs whose exit code was not 0.
Failures(ends) == {i \in DOMAIN ends : Seen(ends[i]) # 0}

\* spawnSync has a null status for a lost program: profile validate counts it as failed.
Refused(ends) == \E i \in DOMAIN ends : ends[i] # "ok"

\* doctor ends: a lost program printed no version, which is an error for pnpm and git and
\* a warning for docker; a version too low or a file missing is an error, a missing
\* lockfile a warning.
Diagnose(ends) ==
  \/ Exit(1, "error")
  \/ /\ ends[1] = "ok" /\ ends[3] = "ok"
     /\ Exit(0, "warning") \/ (ends[2] = "ok" /\ Exit(0, "ok"))

\* The last program ended.
Conclude(policy, ends) ==
  CASE policy = "diagnose" -> Diagnose(ends)
    [] policy = "collect" /\ Failures(ends) # {} -> Exit(1, "error")
    [] policy = "report" /\ Failures(ends) # {} -> Exit(0, "warning")
    [] OTHER -> Exit(0, IF cmd.name \in Silent THEN "nothing" ELSE "ok")

\* The next program ends, and the command with it when it was the last one or the
\* command stops at a failure.
Run ==
  /\ at = "running"
  /\ LET program == cmd.programs[Len(trail) + 1] IN
     \E end \in IF program \in missing THEN {"lost"} ELSE {"ok", "failed", "lost"} :
       /\ kills' = IF end = "lost" /\ program \notin missing THEN kills + 1 ELSE kills
       /\ kills' <= MaxKills
       /\ trail' = Append(trail, end)
       /\ IF cmd.policy = "stop" /\ Failures(trail') # {} THEN Exit(1, "error")
          ELSE IF cmd.policy = "refuse" /\ Refused(trail') THEN Exit(11, "error")
          ELSE IF Len(trail') < Len(cmd.programs) THEN UNCHANGED <<at, exit, says>>
          ELSE Conclude(cmd.policy, trail')
  /\ UNCHANGED <<missing, cmd, dry>>

TaskNext == (\E task \in Tasks : Call(task)) \/ Answered \/ Run

TaskSpec == TaskInit /\ [][TaskNext]_taskVars

-----------------------------------------------------------------------------

Whole == Len(trail) = Len(cmd.programs)
Bad == {i \in DOMAIN trail : trail[i] = "failed"}

\* The exit code and what was run belong together, for each command's way with failures:
\* a command that stops ran nothing after the program that failed, one that collects ran
\* them all, 0 says that no program failed unless the command only reports it, and 1 that
\* one did unless doctor found something else.
ExitTellsOutcome ==
  at = "done" /\ ~dry =>
    LET policy == cmd.policy IN
    /\ exit = 0 => Whole /\ (Bad # {} => policy = "report" \/ (cmd.name = "doctor" /\ Bad = {2}))
    /\ exit = 1 /\ policy # "diagnose" => Bad # {}
    /\ policy \in {"stop", "refuse"} => Bad \subseteq {Len(trail)}
    /\ policy \in {"collect", "report"} => Whole
=============================================================================
