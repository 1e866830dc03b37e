----------------------------- MODULE Workspace -----------------------------
(***************************************************************************)
(* The launcher's commands that write the working tree: `repo new` adr,    *)
(* workflow, runbook, app and package, and profile fork, select and list.  *)
(* Two terminals run them at once, a command may die between two writes,   *)
(* and the user edits and deletes what is there.                           *)
(*                                                                         *)
(* The content of a file is who wrote it last.  A package is an app in     *)
(* another directory, a workflow a runbook in another: one of each is      *)
(* modelled.  The templates are complete or have a placeholder no command  *)
(* gives a value for.                                                      *)
(***************************************************************************)
EXTENDS Naturals, FiniteSets, FiniteSetsExt

CONSTANTS
  Terminals,
  Titles,       \* the titles of ADRs
  LastNumber,   \* 9999: the names of later ADRs do not match the four digits
  Template,     \* the files of the app template, "package.json" among them
  ProfileDirs,  \* the profile directories there may be
  Shipped,      \* those of the repository
  MaxCommands, MaxEdits, MaxCrashes   \* bounds: commands, edits and deletions, crashes

ASSUME WorkspaceAssumption ==
  /\ LastNumber \in Nat /\ "package.json" \in Template /\ Shipped \subseteq ProfileDirs
  /\ Terminals \cap {"none", "user"} = {} /\ ProfileDirs \cap {"no env", "no dir"} = {}
  /\ MaxCommands \in Nat /\ MaxEdits \in Nat /\ MaxCrashes \in Nat

VARIABLES
  tree,       \* the files but the profiles': path -> who wrote it last, or "none"
  machine,    \* profile -> the machineId in its profile.env, "no env" or "no dir"
  selected,   \* what .profile says
  task,       \* terminal -> the command under way
  broken,     \* the files of the template with a placeholder without a value
  overlap,    \* history: was anything done while a command was under way?
  died,       \* history: did a command crash, or a fork fail?
  commands, edits, crashes

workspaceVars == <<tree, machine, selected, task, broken, overlap, died, commands, edits, crashes>>

Numbers == 1..LastNumber + 1
Adrs == Numbers \X Titles
Plain(name) == <<0, name>>     \* the path of a file that has no number
Runbook == Plain("runbook.md")
Package == Plain("package.json")
App == {Plain(name) : name \in Template}
Paths == Adrs \cup App \cup {Runbook}
Quiet == [at |-> "quiet"]
Busy == {t \in Terminals : task[t] # Quiet}
Exists(f) == tree[f] # "none"

WorkspaceInit ==
  /\ tree = [f \in Paths |-> "none"]
  /\ machine = [p \in ProfileDirs |-> IF p \in Shipped THEN p ELSE "no dir"]
  /\ selected = "none"
  /\ task = [t \in Terminals |-> Quiet]
  /\ broken \in {{}} \cup {{f} : f \in App}
  /\ overlap = FALSE /\ died = FALSE /\ commands = 0 /\ edits = 0 /\ crashes = 0

\* A terminal's command passed its checks and goes on as next, or is over.
Begin(t, next) ==
  /\ task[t] = Quiet /\ commands < MaxCommands
  /\ commands' = commands + 1
  /\ task' = [task EXCEPT ![t] = next]
  /\ overlap' = (overlap \/ Busy # {})
  /\ UNCHANGED <<tree, machine, broken, died, edits, crashes>>

\* A terminal's command does its next write and goes on as next.
GoOn(t, next) ==
  /\ task' = [task EXCEPT ![t] = next]
  /\ UNCHANGED <<selected, broken, overlap, commands, edits, crashes>>

-----------------------------------------------------------------------------
\* repo new

\* Mutant: the ADRs are counted.
NextByCount == Cardinality({a \in Adrs : Exists(a)}) + 1

\* nextNumber: one more than the largest of the numbers with four digits.
NextNumber == Max({0} \cup {a[1] : a \in {b \in Adrs : Exists(b) /\ b[1] <= LastNumber}}) + 1

NewAdr(t) ==
  \E title \in Titles :
    LET path == <<NextNumber, title>> IN
    /\ path \in Adrs
    /\ Begin(t, IF Exists(path) THEN Quiet ELSE [at |-> "file", path |-> path])
    /\ UNCHANGED selected

NewRunbook(t) ==
  Begin(t, IF Exists(Runbook) THEN Quiet ELSE [at |-> "file", path |-> Runbook]) /\ UNCHANGED selected

\* The one file is written.
WriteFile(t) ==
  /\ task[t].at = "file"
  /\ tree' = [tree EXCEPT ![task[t].path] = t]
  /\ GoOn(t, Quiet)
  /\ UNCHANGED <<machine, died>>

\* Mutant: renderTemplate does not look into the directory.
ClashesIfPackage == Exists(Package)

\* new app refuses a directory with a package.json, renderTemplate one with anything in it.
Clashes == \E f \in App : Exists(f)

NewApp(t) ==
  \E force \in BOOLEAN :
    /\ Begin(t, IF Clashes /\ ~force THEN Quiet
                ELSE [at |-> "app", todo |-> App, force |-> force])
    /\ UNCHANGED selected

\* renderTemplate: the next file is rendered and written, or has a placeholder without a
\* value and the command throws.
WriteNext(t) ==
  /\ task[t].at = "app"
  /\ \E f \in task[t].todo :
       IF f \in broken
         THEN GoOn(t, Quiet) /\ UNCHANGED tree
         ELSE LET left == task[t].todo \ {f} IN
              /\ tree' = [tree EXCEPT ![f] = t]
              /\ GoOn(t, IF left = {} THEN Quiet ELSE [task[t] EXCEPT !.todo = left])
  /\ UNCHANGED <<machine, died>>

-----------------------------------------------------------------------------
\* profile

\* fork: refused when src is no directory or dst is one.
Fork(t) ==
  \E src, dst \in ProfileDirs :
    /\ Begin(t, IF machine[src] = "no dir" \/ machine[dst] # "no dir" THEN Quiet
                ELSE [at |-> "mkdir", src |-> src, dst |-> dst])
    /\ UNCHANGED selected

\* cpSync makes the directory, and copies profile.env with the files.
MakeDir(t) ==
  /\ task[t].at = "mkdir"
  /\ machine' = [machine EXCEPT ![task[t].dst] = IF @ = "no dir" THEN "no env" ELSE @]
  /\ GoOn(t, [task[t] EXCEPT !.at = "copy"])
  /\ UNCHANGED <<tree, died>>
Copy(t) ==
  /\ task[t].at = "copy"
  /\ machine' = [machine EXCEPT ![task[t].dst] =
                   IF machine[task[t].src] = "no env" THEN @ ELSE machine[task[t].src]]
  /\ GoOn(t, [task[t] EXCEPT !.at = "rewrite"])
  /\ UNCHANGED <<tree, died>>

\* Mutant: the copy keeps the name of its source.
RewriteNothing(t) ==
  /\ task[t].at = "rewrite"
  /\ UNCHANGED <<machine, died, tree>>
  /\ GoOn(t, Quiet)

\* machineId and the marker are rewritten; without a profile.env the read throws.
Rewrite(t) ==
  /\ task[t].at = "rewrite"
  /\ LET dst == task[t].dst IN
     /\ machine' = [machine EXCEPT ![dst] = IF @ = "no env" THEN @ ELSE dst]
     /\ died' = (died \/ machine[dst] = "no env")
  /\ GoOn(t, Quiet)
  /\ UNCHANGED tree

\* select: one write, when the directory is there; each profile of the model has a
\* name it accepts.
Select(t) ==
  \E p \in ProfileDirs :
    /\ Begin(t, Quiet)
    /\ selected' = IF machine[p] = "no dir" THEN selected ELSE p

\* list throws when a directory has no profile.env, which reading alone leaves no trace of.
ListThrows == \E p \in ProfileDirs : machine[p] = "no env"

-----------------------------------------------------------------------------

\* A command is killed.
Crash(t) ==
  /\ task[t] # Quiet /\ crashes < MaxCrashes
  /\ crashes' = crashes + 1
  /\ died' = TRUE
  /\ task' = [task EXCEPT ![t] = Quiet]
  /\ UNCHANGED <<tree, machine, selected, broken, overlap, commands, edits>>

\* The user writes a file or deletes it, but numbers no ADR by hand.
UserEdit ==
  /\ edits < MaxEdits
  /\ edits' = edits + 1
  /\ \E f \in Paths, content \in {"user", "none"} :
       (f \in Adrs => Exists(f)) /\ tree' = [tree EXCEPT ![f] = content]
  /\ overlap' = (overlap \/ Busy # {})
  /\ UNCHANGED <<machine, selected, task, broken, died, commands, crashes>>

\* The steps of a command, without the user's.
CommandStep(t) ==
  \/ NewAdr(t) \/ NewRunbook(t) \/ WriteFile(t) \/ NewApp(t) \/ WriteNext(t)
  \/ Fork(t) \/ MakeDir(t) \/ Copy(t) \/ Rewrite(t) \/ Select(t) \/ Crash(t)

WorkspaceNext == (\E t \in Terminals : CommandStep(t)) \/ UserEdit

WorkspaceSpec == WorkspaceInit /\ [][WorkspaceNext]_workspaceVars

-----------------------------------------------------------------------------

\* As long as nothing was done during a command, no two ADRs with a four-digit number
\* share it, whatever was deleted or left behind by a crash (nextNumber, adr.ts:11-19).
AdrNumbersAreUnique ==
  ~overlap => \A a, b \in Adrs :
                Exists(a) /\ Exists(b) /\ a[1] = b[1] /\ a[1] <= LastNumber => a = b

\* As long as nothing was done during a command, a command without --force overwrites
\* no file, neither the user's nor one of a command that crashed ("Refuses to overwrite
\* an existing non-empty directory unless force=true", templates.ts:33-34).
NothingOverwritten ==
  [][\A f \in Paths, t \in Terminals :
       ~overlap' /\ Exists(f) /\ task[t] # Quiet /\ tree'[f] # tree[f]
       => task[t].at = "app" /\ task[t].force]_workspaceVars

\* When no command is under way and none died, every profile directory has a profile.env
\* with its own name, so list can read them all, even after forks at the same time of one
\* another or to one name (fork.ts:29-35, list.ts:27-30).
ProfilesNameThemselves ==
  Busy = {} /\ ~died => ~ListThrows /\ \A p \in ProfileDirs : machine[p] \in {p, "no dir"}
=============================================================================
