----------------------------- MODULE ToolsProofs -----------------------------
(***************************************************************************)
(* The theorems about the components MCTools checks: the launcher's        *)
(* commands that write the working tree and those that run programs, the   *)
(* tools of the MCP server, the configuration and the check of secrets,    *)
(* each under its own specification and for every value of its constants.  *)
(***************************************************************************)
EXTENDS Workspace, TaskRunner, AgentTools, SecretSpec, Settings, FiniteSetTheorems,
        FunctionTheorems, WellFoundedInduction, TLAPS

-----------------------------------------------------------------------------
\* The commands that write the working tree: what they never do to its files.

Commands ==
  {Quiet} \cup [at : {"file"}, path : Paths]
    \cup [at : {"app"}, todo : SUBSET App, force : BOOLEAN]
    \cup [at : {"mkdir", "copy", "rewrite"}, src : ProfileDirs, dst : ProfileDirs]

MachineIds == ProfileDirs \cup {"no env", "no dir"}

WorkspaceTypes ==
  /\ tree \in [Paths -> Terminals \cup {"user", "none"}]
  /\ machine \in [ProfileDirs -> MachineIds]
  /\ task \in [Terminals -> Commands]
  /\ {overlap, died} \subseteq BOOLEAN

\* As long as nothing was done during a command, one command is under way at most,
OneAtWork ==
  ~overlap => \A t, u \in Terminals : task[t] # Quiet /\ task[u] # Quiet => t = u

\* what it is going to write does not exist, unless it has --force,
TargetsAreFree ==
  ~overlap => \A t \in Terminals :
    /\ task[t].at = "file" => ~Exists(task[t].path)
    /\ task[t].at = "app" /\ ~task[t].force => \A f \in task[t].todo : ~Exists(f)

\* and the number of the ADR it is going to write is nobody else's.
NumberIsFree ==
  ~overlap => \A t \in Terminals :
    task[t].at = "file" /\ task[t].path \in Adrs /\ task[t].path[1] <= LastNumber =>
      \A a \in Adrs : Exists(a) => a[1] # task[t].path[1]

\* A profile without its own name is being forked.
NamelessIsForked ==
  ~died => \A p \in ProfileDirs :
    \/ machine[p] \in {p, "no dir"}
    \/ \E t \in Terminals : task[t].at \in {"copy", "rewrite"} /\ task[t].dst = p

\* What a command found when it was called still holds when it writes: this is what the
\* properties need to know of the commands under way.
WorkspaceInv ==
  /\ WorkspaceTypes /\ OneAtWork /\ TargetsAreFree /\ NumberIsFree
  /\ AdrNumbersAreUnique /\ NamelessIsForked

\* A bounded set of numbers has a greatest.
LEMMA MaxOfBounded ==
  ASSUME NEW n \in Nat, NEW S \in SUBSET (0..n), S # {}
  PROVE  Max(S) \in S /\ \A x \in S : x <= Max(S)
<1> DEFINE T == {n - x : x \in S}
<1>1. T \in SUBSET Nat /\ T # {}
  <2>1. \A x \in S : x \in 0..n /\ n - x \in Nat
    OBVIOUS
  <2>2. PICK x \in S : TRUE
    OBVIOUS
  <2>3. n - x \in T
    BY <2>2
  <2>4. QED BY <2>1, <2>3
<1>2. PICK m \in T : \A k \in T : m <= k
  <2> HIDE DEF T
  <2>1. PICK m \in T : \A k \in T : ~(<<k, m>> \in OpToRel(<, Nat))
    BY <1>1, NatLessThanWellFounded, WFMin
  <2>2. \A k \in T : ~(k < m)
    BY <1>1, <2>1 DEF OpToRel
  <2>3. QED BY <1>1, <2>2
<1>3. PICK x \in S : m = n - x
  BY <1>2
<1>4. \A y \in S : x >= y
  <2> TAKE y \in S
  <2>1. n - y \in T /\ x \in 0..n /\ y \in 0..n
    OBVIOUS
  <2>2. n - x <= n - y
    BY <1>2, <1>3, <2>1
  <2>3. QED BY <2>1, <2>2
<1>5. QED BY <1>3, <1>4 DEF Max

\* The numbers of ADRs.
LEMMA AdrHasNumber == \A a \in Adrs : a[1] \in 1..LastNumber + 1
BY DEF Adrs, Numbers

\* So no ADR has the number that is next, unless the four digits are used up.
LEMMA NextIsFree ==
  ASSUME NextNumber <= LastNumber, NEW a \in Adrs, Exists(a)
  PROVE  a[1] # NextNumber
<1> DEFINE S == {0} \cup {b[1] : b \in {c \in Adrs : Exists(c) /\ c[1] <= LastNumber}}
<1>0. LastNumber \in Nat /\ \A b \in Adrs : b[1] \in 1..LastNumber + 1
  BY WorkspaceAssumption, AdrHasNumber
<1>1. S \in SUBSET (0..LastNumber) /\ S # {}
  BY <1>0
<1>2. Max(S) \in S /\ \A x \in S : x <= Max(S)
  <2> HIDE DEF S
  <2>1. QED BY <1>0, <1>1, MaxOfBounded
<1>3. NextNumber = Max(S) + 1 /\ Max(S) \in Nat
  BY <1>1, <1>2 DEF NextNumber
<1>4. a[1] \in Nat /\ (a[1] <= LastNumber => a[1] \in S)
  BY <1>0
<1>5. QED BY <1>0, <1>2, <1>3, <1>4

\* The files without a number are no ADRs.
LEMMA AppIsNoAdr ==
  /\ App \subseteq Paths /\ Adrs \subseteq Paths /\ Runbook \in Paths
  /\ \A f \in App \cup {Runbook} : f \notin Adrs
<1>1. App \subseteq Paths /\ Adrs \subseteq Paths /\ Runbook \in Paths
  BY DEF Paths
<1>2. \A f \in App \cup {Runbook} : f[1] = 0
  BY DEF App, Runbook, Plain
<1>3. \A n \in 1..LastNumber + 1 : n # 0
  <2>1. LastNumber \in Nat
    BY WorkspaceAssumption
  <2>2. QED BY <2>1
<1>4. QED BY <1>1, <1>2, <1>3, AdrHasNumber

\* In a fresh clone nothing the commands write exists yet.
LEMMA WorkspaceInitInv == WorkspaceInit => WorkspaceInv
<1> SUFFICES ASSUME WorkspaceInit PROVE WorkspaceInv
  OBVIOUS
<1>1. WorkspaceTypes
  BY WorkspaceAssumption DEF WorkspaceInit, WorkspaceTypes, Commands, MachineIds
<1>2. \A t \in Terminals : task[t] = Quiet /\ task[t].at = "quiet"
  BY DEF WorkspaceInit, Quiet
<1>3. \A f \in Paths : ~Exists(f)
  BY DEF WorkspaceInit, Exists
<1>4. AdrNumbersAreUnique
  BY <1>3, AppIsNoAdr DEF AdrNumbersAreUnique
<1>5. OneAtWork /\ TargetsAreFree /\ NumberIsFree
  BY <1>2 DEF OneAtWork, TargetsAreFree, NumberIsFree
<1>6. NamelessIsForked
  BY DEF WorkspaceInit, NamelessIsForked
<1>7. QED BY <1>1, <1>4, <1>5, <1>6 DEF WorkspaceInv

\* A step that touches no profile and no command between the copy and the rewrite.
LEMMA NamelessStep ==
  ASSUME NamelessIsForked, NEW t \in Terminals, task[t].at \notin {"copy", "rewrite"},
         \A u \in Terminals : u # t => task'[u] = task[u], UNCHANGED <<machine, died>>
  PROVE  NamelessIsForked'
<1> SUFFICES ASSUME ~died, NEW p \in ProfileDirs, machine[p] \notin {p, "no dir"}
             PROVE  \E u \in Terminals : task'[u].at \in {"copy", "rewrite"} /\ task'[u].dst = p
  BY DEF NamelessIsForked
<1>1. PICK u \in Terminals : task[u].at \in {"copy", "rewrite"} /\ task[u].dst = p
  BY DEF NamelessIsForked
<1>2. QED BY <1>1

\* A command is called: with others under way nothing is claimed any more.
LEMMA BeginStep ==
  ASSUME WorkspaceInv, NEW t \in Terminals, NEW next \in Commands, Begin(t, next),
         next.at \notin {"copy", "rewrite"},
         Busy = {} => /\ next.at = "file" => ~Exists(next.path)
                      /\ next.at = "app" /\ ~next.force => \A f \in next.todo : ~Exists(f)
                      /\ next.at = "file" /\ next.path \in Adrs /\ next.path[1] <= LastNumber =>
                           \A a \in Adrs : Exists(a) => a[1] # next.path[1]
  PROVE  WorkspaceInv'
<1>1. /\ task[t] = Quiet /\ task' \in [Terminals -> Commands] /\ task'[t] = next
      /\ \A u \in Terminals : u # t => task'[u] = task[u]
      /\ overlap' = (overlap \/ Busy # {}) /\ UNCHANGED <<tree, machine, died>>
  BY DEF Begin, WorkspaceInv, WorkspaceTypes
<1>2. ~overlap' => ~overlap /\ Busy = {} /\ \A u \in Terminals : task[u] = Quiet
  BY <1>1 DEF Busy, WorkspaceInv, WorkspaceTypes
<1>3. WorkspaceTypes'
  BY <1>1 DEF WorkspaceInv, WorkspaceTypes
<1>4. OneAtWork' /\ AdrNumbersAreUnique'
  BY <1>1, <1>2 DEF WorkspaceInv, OneAtWork, AdrNumbersAreUnique, Exists
<1>5. TargetsAreFree' /\ NumberIsFree'
  BY <1>1, <1>2 DEF TargetsAreFree, NumberIsFree, Exists, Quiet
<1>6. NamelessIsForked'
  BY <1>1, NamelessStep DEF WorkspaceInv, Quiet
<1>7. QED BY <1>3, <1>4, <1>5, <1>6 DEF WorkspaceInv

\* The command of t goes on or is over, and no file was made but its own.
LEMMA WriteStep ==
  ASSUME WorkspaceInv, NEW t \in Terminals, NEW next \in Commands, GoOn(t, next), task[t] # Quiet,
         task[t].at \notin {"copy", "rewrite"}, UNCHANGED <<machine, died>>,
         next = Quiet \/ (next.at = "app" /\ task[t].at = "app" /\ next.force = task[t].force),
         NEW f \in Paths, tree' = tree \/ tree' = [tree EXCEPT ![f] = t],
         next.at = "app" => next.todo \subseteq task[t].todo \ {f},
         f \in Adrs => task[t].at = "file" /\ f = task[t].path
  PROVE  WorkspaceInv'
<1>1. /\ task' \in [Terminals -> Commands] /\ task'[t] = next
      /\ \A u \in Terminals : u # t => task'[u] = task[u]
      /\ UNCHANGED overlap
  BY DEF GoOn, WorkspaceInv, WorkspaceTypes
<1>2. ~overlap => \A u \in Terminals : u # t => task[u] = Quiet
  BY DEF WorkspaceInv, OneAtWork
<1>3. WorkspaceTypes'
  BY <1>1 DEF WorkspaceInv, WorkspaceTypes
<1>4. OneAtWork'
  BY <1>1, <1>2 DEF OneAtWork
<1>5. \A g \in Paths : g # f => (Exists(g))' = Exists(g)
  BY DEF Exists, WorkspaceInv, WorkspaceTypes
<1>6. TargetsAreFree' /\ NumberIsFree'
  <2>1. task'[t].at = "app" => task'[t].todo \subseteq Paths /\ f \notin task'[t].todo
    BY <1>1, AppIsNoAdr DEF Commands, Quiet
  <2>2. TargetsAreFree'
    BY <1>1, <1>2, <1>5, <2>1 DEF WorkspaceInv, TargetsAreFree, Quiet
  <2>3. NumberIsFree'
    BY <1>1, <1>2 DEF NumberIsFree, Quiet
  <2>4. QED BY <2>2, <2>3
<1>7. AdrNumbersAreUnique'
  BY <1>1, <1>5, AppIsNoAdr DEF WorkspaceInv, AdrNumbersAreUnique, NumberIsFree, Exists
<1>8. NamelessIsForked'
  BY <1>1, NamelessStep DEF WorkspaceInv
<1>9. QED BY <1>3, <1>4, <1>6, <1>7, <1>8 DEF WorkspaceInv

\* The calls of commands: what they check is what BeginStep asks for.
LEMMA CallStep ==
  ASSUME WorkspaceInv, NEW t \in Terminals,
         NewAdr(t) \/ NewRunbook(t) \/ NewApp(t) \/ Fork(t) \/ Select(t)
  PROVE  WorkspaceInv'
<1>1. Quiet \in Commands /\ Quiet.at = "quiet"
  BY DEF Commands, Quiet
<1>2. CASE NewAdr(t)
  <2>1. PICK title \in Titles :
          /\ <<NextNumber, title>> \in Adrs
          /\ Begin(t, IF Exists(<<NextNumber, title>>) THEN Quiet
                      ELSE [at |-> "file", path |-> <<NextNumber, title>>])
    BY <1>2 DEF NewAdr
  <2>2. CASE Exists(<<NextNumber, title>>)
    BY <1>1, <2>1, <2>2, BeginStep
  <2>3. CASE ~Exists(<<NextNumber, title>>)
    <3> DEFINE next == [at |-> "file", path |-> <<NextNumber, title>>]
    <3>1. next \in Commands /\ next.at = "file" /\ next.path = <<NextNumber, title>>
      BY <2>1, AppIsNoAdr DEF Commands
    <3>2. NextNumber <= LastNumber => \A a \in Adrs : Exists(a) => a[1] # NextNumber
      BY NextIsFree
    <3>3. Begin(t, next)
      BY <2>1, <2>3
    <3> HIDE DEF next
    <3>4. QED BY <2>3, <3>1, <3>2, <3>3, BeginStep
  <2>4. QED BY <2>2, <2>3
<1>3. CASE NewRunbook(t)
  <2>1. CASE Exists(Runbook)
    BY <1>1, <1>3, <2>1, BeginStep DEF NewRunbook
  <2>2. CASE ~Exists(Runbook)
    <3> DEFINE next == [at |-> "file", path |-> Runbook]
    <3>1. next \in Commands /\ next.at = "file" /\ next.path = Runbook /\ Runbook \notin Adrs
      BY AppIsNoAdr DEF Commands
    <3>2. Begin(t, next)
      BY <1>3, <2>2 DEF NewRunbook
    <3> HIDE DEF next
    <3>3. QED BY <2>2, <3>1, <3>2, BeginStep
  <2>3. QED BY <2>1, <2>2
<1>4. CASE NewApp(t)
  <2>1. PICK force \in BOOLEAN :
          Begin(t, IF Clashes /\ ~force THEN Quiet ELSE [at |-> "app", todo |-> App, force |-> force])
    BY <1>4 DEF NewApp
  <2>2. CASE Clashes /\ ~force
    BY <1>1, <2>1, <2>2, BeginStep
  <2>3. CASE ~(Clashes /\ ~force)
    <3> DEFINE next == [at |-> "app", todo |-> App, force |-> force]
    <3>1. next \in Commands /\ next.at = "app" /\ next.todo = App /\ next.force = force
      BY DEF Commands
    <3>2. Begin(t, next)
      BY <2>1, <2>3
    <3>3. ~force => \A f \in App : ~Exists(f)
      BY <2>3 DEF Clashes
    <3> HIDE DEF next
    <3>4. QED BY <3>1, <3>2, <3>3, BeginStep
  <2>4. QED BY <2>2, <2>3
<1>5. CASE Fork(t)
  <2>1. PICK src \in ProfileDirs, dst \in ProfileDirs :
          Begin(t, IF machine[src] = "no dir" \/ machine[dst] # "no dir" THEN Quiet
                   ELSE [at |-> "mkdir", src |-> src, dst |-> dst])
    BY <1>5 DEF Fork
  <2>2. [at |-> "mkdir", src |-> src, dst |-> dst] \in Commands
    BY DEF Commands
  <2>3. CASE machine[src] = "no dir" \/ machine[dst] # "no dir"
    BY <1>1, <2>1, <2>3, BeginStep
  <2>4. CASE ~(machine[src] = "no dir" \/ machine[dst] # "no dir")
    <3> DEFINE next == [at |-> "mkdir", src |-> src, dst |-> dst]
    <3>1. next \in Commands /\ next.at = "mkdir" /\ Begin(t, next)
      BY <2>1, <2>2, <2>4
    <3> HIDE DEF next
    <3>2. QED BY <3>1, BeginStep
  <2>5. QED BY <2>3, <2>4
<1>6. CASE Select(t)
  BY <1>1, <1>6, BeginStep DEF Select
<1>7. QED BY <1>2, <1>3, <1>4, <1>5, <1>6

\* The writes of new adr, new runbook and new app.
LEMMA FileStep ==
  ASSUME WorkspaceInv, NEW t \in Terminals, WriteFile(t) \/ WriteNext(t)
  PROVE  WorkspaceInv'
<1>1. Quiet \in Commands /\ Quiet.at = "quiet" /\ task[t] \in Commands
  BY DEF Commands, Quiet, WorkspaceInv, WorkspaceTypes
<1>2. CASE WriteFile(t)
  <2>1. task[t].at = "file" /\ task[t] # Quiet /\ task[t].path \in Paths
    BY <1>1, <1>2 DEF WriteFile, Commands, Quiet
  <2>2. GoOn(t, Quiet) /\ tree' = [tree EXCEPT ![task[t].path] = t] /\ UNCHANGED <<machine, died>>
    BY <1>2 DEF WriteFile
  <2>3. QED BY <1>1, <2>1, <2>2, WriteStep
<1>3. CASE WriteNext(t)
  <2>1. /\ task[t].at = "app" /\ task[t] # Quiet
        /\ task[t] \in [at : {"app"}, todo : SUBSET App, force : BOOLEAN]
    BY <1>1, <1>3 DEF WriteNext, Commands, Quiet
  <2>2. PICK f \in task[t].todo :
          \/ GoOn(t, Quiet) /\ UNCHANGED tree
          \/ /\ tree' = [tree EXCEPT ![f] = t]
             /\ GoOn(t, IF task[t].todo \ {f} = {} THEN Quiet
                        ELSE [task[t] EXCEPT !.todo = task[t].todo \ {f}])
    BY <1>3 DEF WriteNext
  <2>3. f \in App /\ f \in Paths /\ f \notin Adrs /\ UNCHANGED <<machine, died>>
    BY <1>3, <2>1, AppIsNoAdr DEF WriteNext
  <2>4. CASE GoOn(t, Quiet)
    <3>1. tree' = tree \/ tree' = [tree EXCEPT ![f] = t]
      BY <2>2
    <3>2. QED BY <1>1, <2>1, <2>3, <2>4, <3>1, WriteStep
  <2>5. CASE tree' = [tree EXCEPT ![f] = t] /\ GoOn(t, [task[t] EXCEPT !.todo = task[t].todo \ {f}])
    <3> DEFINE next == [task[t] EXCEPT !.todo = task[t].todo \ {f}]
    <3>1. /\ next \in Commands /\ next.at = "app" /\ next.force = task[t].force
          /\ next.todo \subseteq task[t].todo \ {f}
      BY <2>1 DEF Commands
    <3> HIDE DEF next
    <3>2. GoOn(t, next) /\ tree' = [tree EXCEPT ![f] = t]
      BY <2>5 DEF next
    <3>3. QED BY <2>1, <2>3, <3>1, <3>2, WriteStep
  <2>6. QED BY <2>2, <2>4, <2>5
<1>4. QED BY <1>2, <1>3

\* The steps of a fork after its checks.
LEMMA ForkStep ==
  ASSUME WorkspaceInv, NEW t \in Terminals, MakeDir(t) \/ Copy(t) \/ Rewrite(t)
  PROVE  WorkspaceInv'
<1> DEFINE dst == task[t].dst
           Forks == [at : {"mkdir", "copy", "rewrite"}, src : ProfileDirs, dst : ProfileDirs]
<1>1. task[t] \in Forks
  <2>1. task[t] \in Commands /\ task[t].at \in {"mkdir", "copy", "rewrite"}
    BY DEF MakeDir, Copy, Rewrite, WorkspaceInv, WorkspaceTypes
  <2>2. task[t] # Quiet
    BY <2>1 DEF Quiet
  <2>3. QED BY <2>1, <2>2 DEF Commands
<1>2. PICK next \in Commands :
        /\ GoOn(t, next) /\ UNCHANGED tree
        /\ \/ /\ next \in Forks /\ next.at \in {"copy", "rewrite"} /\ next.dst = dst
              /\ died' = died
              /\ \E m \in MachineIds : machine' = [machine EXCEPT ![dst] = m]
           \/ /\ next = Quiet /\ died' \in BOOLEAN
              /\ \/ died' = died /\ machine' = [machine EXCEPT ![dst] = dst]
                 \/ died' /\ machine' = machine
  <2>1. /\ dst \in ProfileDirs /\ task[t].src \in ProfileDirs
        /\ machine \in [ProfileDirs -> MachineIds] /\ died \in BOOLEAN
    BY <1>1 DEF WorkspaceInv, WorkspaceTypes
  <2>2. CASE MakeDir(t)
    <3> DEFINE next == [task[t] EXCEPT !.at = "copy"]
    <3>1. next \in Forks /\ next.at = "copy" /\ next.dst = dst /\ next \in Commands
      BY <1>1 DEF Commands
    <3>2. machine' = [machine EXCEPT ![dst] = IF machine[dst] = "no dir" THEN "no env" ELSE machine[dst]]
      BY <2>2 DEF MakeDir
    <3>3. (IF machine[dst] = "no dir" THEN "no env" ELSE machine[dst]) \in MachineIds
      BY <2>1 DEF MachineIds
    <3>4. GoOn(t, next) /\ UNCHANGED <<tree, died>>
      BY <2>2 DEF MakeDir
    <3> HIDE DEF next
    <3>5. QED BY <3>1, <3>2, <3>3, <3>4
  <2>3. CASE Copy(t)
    <3> DEFINE next == [task[t] EXCEPT !.at = "rewrite"]
               src == task[t].src
    <3>1. next \in Forks /\ next.at = "rewrite" /\ next.dst = dst /\ next \in Commands
      BY <1>1 DEF Commands
    <3>2. machine' = [machine EXCEPT ![dst] =
                        IF machine[src] = "no env" THEN machine[dst] ELSE machine[src]]
      BY <2>3 DEF Copy
    <3>3. (IF machine[src] = "no env" THEN machine[dst] ELSE machine[src]) \in MachineIds
      BY <2>1 DEF MachineIds
    <3>4. GoOn(t, next) /\ UNCHANGED <<tree, died>>
      BY <2>3 DEF Copy
    <3> HIDE DEF next
    <3>5. QED BY <3>1, <3>2, <3>3, <3>4
  <2>4. CASE Rewrite(t)
    <3>1. GoOn(t, Quiet) /\ UNCHANGED tree /\ Quiet \in Commands
      BY <2>4 DEF Rewrite, Commands
    <3>2. machine' = [machine EXCEPT ![dst] = IF machine[dst] = "no env" THEN machine[dst] ELSE dst]
      BY <2>4 DEF Rewrite
    <3>3. died' = (died \/ machine[dst] = "no env")
      BY <2>4 DEF Rewrite
    <3>4. CASE machine[dst] = "no env"
      <4>1. machine' = machine
        BY <2>1, <3>2, <3>4
      <4>2. died' = TRUE
        BY <3>3, <3>4
      <4>3. QED BY <3>1, <4>1, <4>2
    <3>5. CASE machine[dst] # "no env"
      BY <2>1, <3>1, <3>2, <3>3, <3>5
    <3>6. QED BY <3>4, <3>5
  <2>5. QED BY <2>2, <2>3, <2>4
<1>3. /\ task' \in [Terminals -> Commands] /\ task'[t] = next
      /\ \A u \in Terminals : u # t => task'[u] = task[u]
      /\ UNCHANGED <<overlap, tree>>
  BY <1>2 DEF GoOn, WorkspaceInv, WorkspaceTypes
<1>4. task[t] # Quiet /\ next.at \notin {"file", "app"} /\ dst \in ProfileDirs
  <2>1. Quiet.at = "quiet"
    BY DEF Quiet
  <2>2. QED BY <1>1, <1>2, <2>1
<1>5. /\ machine' \in [ProfileDirs -> MachineIds] /\ died' \in BOOLEAN
      /\ \A p \in ProfileDirs : p # dst => machine'[p] = machine[p]
      /\ died => died'
      /\ ~died' => machine'[dst] = dst \/ (next.at \in {"copy", "rewrite"} /\ next.dst = dst)
  <2>1. machine \in [ProfileDirs -> MachineIds] /\ died \in BOOLEAN
    BY DEF WorkspaceInv, WorkspaceTypes
  <2>2. CASE /\ next.at \in {"copy", "rewrite"} /\ next.dst = dst /\ died' = died
             /\ \E m \in MachineIds : machine' = [machine EXCEPT ![dst] = m]
    BY <1>4, <2>1, <2>2
  <2>3. CASE died' = died /\ machine' = [machine EXCEPT ![dst] = dst]
    BY <1>4, <2>1, <2>3 DEF MachineIds
  <2>4. CASE died' /\ died' \in BOOLEAN /\ machine' = machine
    BY <2>1, <2>4
  <2>5. QED BY <1>2, <2>2, <2>3, <2>4
<1>6. WorkspaceTypes'
  BY <1>3, <1>5 DEF WorkspaceInv, WorkspaceTypes
<1>7. OneAtWork' /\ TargetsAreFree' /\ NumberIsFree' /\ AdrNumbersAreUnique'
  BY <1>3, <1>4 DEF WorkspaceInv, OneAtWork, TargetsAreFree, NumberIsFree, AdrNumbersAreUnique, Exists
<1>8. NamelessIsForked'
  <2> SUFFICES ASSUME ~died', NEW p \in ProfileDirs, machine'[p] \notin {p, "no dir"}
               PROVE  \E u \in Terminals : task'[u].at \in {"copy", "rewrite"} /\ task'[u].dst = p
    BY DEF NamelessIsForked
  <2>1. CASE p = dst
    <3>1. next.at \in {"copy", "rewrite"} /\ next.dst = dst
      BY <1>5, <2>1
    <3>2. QED BY <1>3, <2>1, <3>1
  <2>2. CASE p # dst
    <3>1. machine'[p] = machine[p] /\ ~died
      BY <1>5, <2>2
    <3>2. PICK u \in Terminals : task[u].at \in {"copy", "rewrite"} /\ task[u].dst = p
      BY <3>1 DEF WorkspaceInv, NamelessIsForked
    <3>3. QED BY <1>3, <2>2, <3>2
  <2>3. QED BY <2>1, <2>2
<1>9. QED BY <1>6, <1>7, <1>8 DEF WorkspaceInv

LEMMA CrashStep == ASSUME WorkspaceInv, NEW t \in Terminals, Crash(t) PROVE WorkspaceInv'
<1>1. /\ task' \in [Terminals -> Commands] /\ task'[t] = Quiet /\ Quiet.at = "quiet"
      /\ \A u \in Terminals : u # t => task'[u] = task[u]
      /\ died' = TRUE /\ UNCHANGED <<overlap, tree, machine>>
  BY DEF Crash, WorkspaceInv, WorkspaceTypes, Commands, Quiet
<1>2. WorkspaceTypes'
  BY <1>1 DEF WorkspaceInv, WorkspaceTypes
<1>3. OneAtWork' /\ AdrNumbersAreUnique' /\ NamelessIsForked'
  BY <1>1 DEF WorkspaceInv, OneAtWork, AdrNumbersAreUnique, NamelessIsForked, Exists
<1>4. TargetsAreFree' /\ NumberIsFree'
  BY <1>1 DEF WorkspaceInv, TargetsAreFree, NumberIsFree, Exists
<1>5. QED BY <1>2, <1>3, <1>4 DEF WorkspaceInv

LEMMA UserEditStep == ASSUME WorkspaceInv, UserEdit PROVE WorkspaceInv'
<1>1. PICK f \in Paths, content \in {"user", "none"} :
        (f \in Adrs => Exists(f)) /\ tree' = [tree EXCEPT ![f] = content]
  BY DEF UserEdit
<1>2. overlap' = (overlap \/ Busy # {}) /\ UNCHANGED <<machine, task, died>>
  BY DEF UserEdit
<1>3. WorkspaceTypes'
  BY <1>1, <1>2 DEF WorkspaceInv, WorkspaceTypes
<1>4. ~overlap' => ~overlap /\ \A t \in Terminals : task[t] = Quiet
  BY <1>2 DEF Busy, WorkspaceInv, WorkspaceTypes
<1>5. OneAtWork' /\ TargetsAreFree' /\ NumberIsFree'
  BY <1>2, <1>4 DEF OneAtWork, TargetsAreFree, NumberIsFree, Quiet
<1>6. \A a \in Adrs : (Exists(a))' => Exists(a)
  BY <1>1, AppIsNoAdr DEF Exists, WorkspaceInv, WorkspaceTypes
<1>7. AdrNumbersAreUnique' /\ NamelessIsForked'
  BY <1>2, <1>4, <1>6 DEF WorkspaceInv, AdrNumbersAreUnique, NamelessIsForked
<1>8. QED BY <1>3, <1>5, <1>7 DEF WorkspaceInv

LEMMA WorkspaceNextInv == WorkspaceInv /\ [WorkspaceNext]_workspaceVars => WorkspaceInv'
<1> SUFFICES ASSUME WorkspaceInv, [WorkspaceNext]_workspaceVars PROVE WorkspaceInv'
  OBVIOUS
<1>1. CASE UNCHANGED workspaceVars
  <2>1. UNCHANGED <<tree, machine, task, overlap, died>>
    BY <1>1 DEF workspaceVars
  <2>2. WorkspaceTypes' /\ OneAtWork' /\ NamelessIsForked'
    BY <2>1 DEF WorkspaceInv, WorkspaceTypes, OneAtWork, NamelessIsForked
  <2>3. TargetsAreFree' /\ NumberIsFree' /\ AdrNumbersAreUnique'
    BY <2>1 DEF WorkspaceInv, TargetsAreFree, NumberIsFree, AdrNumbersAreUnique, Exists
  <2>4. QED BY <2>2, <2>3 DEF WorkspaceInv
<1>2. QED
  BY <1>1, CallStep, FileStep, ForkStep, CrashStep, UserEditStep DEF WorkspaceNext, CommandStep

\* What every state of the working tree satisfies.
THEOREM WorkspaceInductive == WorkspaceSpec => []WorkspaceInv
BY WorkspaceInitInv, WorkspaceNextInv, PTL DEF WorkspaceSpec

\* Commands that run one after the other never give two ADRs one number.
THEOREM NumbersStayUnique == WorkspaceSpec => []AdrNumbersAreUnique
<1>1. WorkspaceInv => AdrNumbersAreUnique
  BY DEF WorkspaceInv
<1>2. QED BY <1>1, WorkspaceInductive, PTL

\* Forks leave profiles that list can read and that have their own names, however they
\* interleave.
THEOREM ForksNameThemselves == WorkspaceSpec => []ProfilesNameThemselves
<1>1. WorkspaceInv => ProfilesNameThemselves
  <2> SUFFICES ASSUME WorkspaceInv, Busy = {}, ~died
               PROVE  ~ListThrows /\ \A p \in ProfileDirs : machine[p] \in {p, "no dir"}
    BY DEF ProfilesNameThemselves
  <2>1. \A t \in Terminals : task[t].at = "quiet"
    BY DEF Busy, Quiet
  <2>2. \A p \in ProfileDirs : machine[p] \in {p, "no dir"}
    BY <2>1 DEF WorkspaceInv, NamelessIsForked
  <2>3. QED BY <2>2, WorkspaceAssumption DEF ListThrows
<1>2. QED BY <1>1, WorkspaceInductive, PTL

\* Commands that run one after the other overwrite no file, unless told to.
THEOREM NothingIsLost == WorkspaceSpec => NothingOverwritten
<1>1. ASSUME WorkspaceInv, [WorkspaceNext]_workspaceVars, NEW f \in Paths, NEW t \in Terminals,
             ~overlap', Exists(f), task[t] # Quiet, tree'[f] # tree[f]
      PROVE  task[t].at = "app" /\ task[t].force
  <2>1. ~UserEdit
    BY <1>1 DEF UserEdit, Busy
  <2>2. PICK u \in Terminals : WriteFile(u) \/ WriteNext(u)
    BY <1>1, <2>1 DEF WorkspaceNext, CommandStep, workspaceVars, NewAdr, NewRunbook, NewApp, Fork,
         MakeDir, Copy, Rewrite, Select, Crash, Begin
  <2>3. u = t
    <3>1. task[u] # Quiet /\ ~overlap
      BY <1>1, <2>2 DEF WriteFile, WriteNext, GoOn, Quiet
    <3>2. QED BY <1>1, <3>1 DEF WorkspaceInv, OneAtWork
  <2>4. ~WriteFile(t)
    <3> SUFFICES ASSUME WriteFile(t) PROVE FALSE
      OBVIOUS
    <3>1. task[t].at = "file" /\ tree' = [tree EXCEPT ![task[t].path] = t] /\ ~overlap
      BY <1>1 DEF WriteFile, GoOn
    <3>2. ~Exists(task[t].path)
      BY <1>1, <3>1 DEF WorkspaceInv, TargetsAreFree
    <3>3. f = task[t].path
      BY <1>1, <3>1 DEF WorkspaceInv, WorkspaceTypes
    <3>4. QED BY <1>1, <3>2, <3>3
  <2>5. CASE WriteNext(t)
    <3>1. PICK g \in task[t].todo : tree' = [tree EXCEPT ![g] = t]
      BY <1>1, <2>5 DEF WriteNext
    <3>2. f = g
      BY <1>1, <3>1 DEF WorkspaceInv, WorkspaceTypes
    <3>3. QED BY <1>1, <2>5, <3>1, <3>2 DEF WriteNext, GoOn, WorkspaceInv, TargetsAreFree
  <2>6. QED BY <2>2, <2>3, <2>4, <2>5
<1>2. WorkspaceInv /\ [WorkspaceNext]_workspaceVars =>
        [\A f \in Paths, t \in Terminals :
           ~overlap' /\ Exists(f) /\ task[t] # Quiet /\ tree'[f] # tree[f]
           => task[t].at = "app" /\ task[t].force]_workspaceVars
  BY <1>1
<1>3. QED BY <1>2, WorkspaceInductive, PTL DEF WorkspaceSpec, NothingOverwritten

-----------------------------------------------------------------------------
\* The commands that run other programs: the exit code and what was run.

Policies == {"stop", "collect", "report", "refuse", "diagnose"}

\* A command has programs to run, and a way with failures; only doctor diagnoses.
WellFormed(t) ==
  /\ t.policy \in Policies
  /\ Len(t.programs) \in Nat \ {0}
  /\ t.policy = "diagnose" => t.name = "doctor" /\ Len(t.programs) = 3

TaskTypes ==
  /\ at \in {"idle", "asking", "running", "done"}
  /\ trail \in Seq({"ok", "failed", "lost"})
  /\ at # "idle" => WellFormed(cmd)

\* A command that runs has a program left to run, and met no failure it would have
\* stopped at.
GoesOn ==
  /\ at \in {"idle", "asking"} => trail = <<>>
  /\ at = "running" =>
       /\ Len(trail) < Len(cmd.programs)
       /\ cmd.policy = "stop" => Bad = {}
       /\ cmd.policy = "refuse" => ~Refused(trail)

TaskInv == TaskTypes /\ GoesOn /\ ExitTellsOutcome

\* Every command of the launcher.
LEMMA TasksAreWellFormed == \A t \in Tasks : WellFormed(t)
<1> SUFFICES ASSUME NEW t \in Tasks PROVE WellFormed(t)
  OBVIOUS
<1> DEFINE Fine(programs) ==
      \A name : \A policy \in Policies \ {"diagnose"} : WellFormed(Task(name, policy, programs))
<1>1. Fine(<<"pnpm">>) /\ Fine(<<"pnpm", "pnpm">>) /\ Fine(<<"docker">>) /\ Fine(<<"atlas">>)
  BY DEF WellFormed, Task
<1>2. CASE t \in BuildTask \cup TestTask \cup TypeCheckTask \cup FormatTask \cup ChangesetTask
  BY <1>1, <1>2 DEF BuildTask, TestTask, TypeCheckTask, FormatTask, ChangesetTask, Policies
<1>3. CASE t \in LintTasks \cup CiTask
  <2>1. /\ Fine(<<"pnpm", "pnpm", "pnpm", "pnpm">>)
        /\ Fine(<<"pnpm", "pnpm", "pnpm", "pnpm", "pnpm", "pnpm", "pnpm">>)
    BY DEF WellFormed, Task
  <2>2. QED BY <1>1, <1>3, <2>1 DEF LintTasks, CiTask, Policies
<1>4. CASE t \in DepsTasks \cup ReleaseTasks
  <2>1. /\ Fine(<<"pnpm", "pnpm", "pnpm", "pnpm", "pnpm", "pnpm">>)
        /\ Fine(<<"pnpm", "osv-scanner">>)
    BY DEF WellFormed, Task
  <2>2. QED BY <1>1, <1>4, <2>1 DEF DepsTasks, ReleaseTasks, Policies
<1>5. CASE t \in CleanTask \cup DevTasks
  <2>1. /\ WellFormed(Confirmed(Task("clean", "stop", <<"pnpm", "pnpm">>)))
        /\ WellFormed(Confirmed(Task("dev reset", "stop", <<"docker", "docker">>)))
        /\ Fine(<<"cloudflared">>)
    BY DEF WellFormed, Task, Confirmed, Policies
  <2>2. QED BY <1>1, <1>5, <2>1 DEF CleanTask, DevTasks, Policies
<1>6. CASE t \in DbTasks
  BY <1>1, <1>6 DEF DbTasks, Policies
<1>7. CASE t \in DoctorTask \cup ValidateTask
  <2>1. /\ WellFormed(Task("doctor", "diagnose", <<"pnpm", "docker", "git">>))
        /\ Fine(<<"helm", "helm", "helm", "helm", "kubeconform", "node">>)
    BY DEF WellFormed, Task, Policies
  <2>2. QED BY <1>7, <2>1 DEF DoctorTask, ValidateTask, Policies
<1>8. QED BY <1>2, <1>3, <1>4, <1>5, <1>6, <1>7 DEF Tasks

\* Before a command is called nothing was run.
LEMMA TaskInitInv == TaskInit => TaskInv
BY DEF TaskInit, TaskInv, TaskTypes, GoesOn, ExitTellsOutcome

\* How a program ends is put at the end of the trail.
LEMMA TrailGrows ==
  ASSUME TaskTypes, NEW end \in {"ok", "failed", "lost"}, trail' = Append(trail, end)
  PROVE  /\ trail' \in Seq({"ok", "failed", "lost"}) /\ Len(trail') = Len(trail) + 1
         /\ Len(trail) \in Nat
         /\ Failures(trail') = Bad'
         /\ Bad' = IF end = "failed" THEN Bad \cup {Len(trail')} ELSE Bad
         /\ Refused(trail') <=> Refused(trail) \/ end # "ok"
         /\ ~Refused(trail) => Bad = {}
<1>1. /\ trail' \in Seq({"ok", "failed", "lost"}) /\ Len(trail') = Len(trail) + 1
      /\ Len(trail) \in Nat
      /\ DOMAIN trail = 1..Len(trail) /\ DOMAIN trail' = 1..Len(trail) + 1
      /\ \A i \in 1..Len(trail) : trail'[i] = trail[i]
      /\ trail'[Len(trail) + 1] = end
  BY DEF TaskTypes
<1>2. Failures(trail') = Bad'
  BY DEF Failures, Bad, Seen
<1>3. Bad' = IF end = "failed" THEN Bad \cup {Len(trail')} ELSE Bad
  BY <1>1 DEF Bad
<1>4. Refused(trail') <=> Refused(trail) \/ end # "ok"
  BY <1>1 DEF Refused
<1>5. ~Refused(trail) => Bad = {}
  BY DEF Refused, Bad
<1>6. QED BY <1>1, <1>2, <1>3, <1>4, <1>5

\* The call of a command, and the answer to its prompt.
LEMMA TaskCallStep ==
  ASSUME TaskInv, (\E t \in Tasks : Call(t)) \/ Answered
  PROVE  TaskInv'
<1>1. CASE \E t \in Tasks : Call(t)
  <2>1. PICK t \in Tasks : Call(t)
    BY <1>1
  <2>2. /\ cmd' = t /\ trail' = <<>> /\ at' \in {"running", "asking", "done"}
        /\ at' = "done" => dry'
    BY <2>1 DEF Call, Exit, TaskInv, GoesOn
  <2>3. TaskTypes'
    BY <2>2, TasksAreWellFormed DEF TaskTypes, WellFormed
  <2>4. Bad' = {} /\ ~Refused(trail')
    BY <2>2 DEF Bad, Refused
  <2>5. Len(trail') < Len(cmd'.programs)
    BY <2>2, TasksAreWellFormed DEF WellFormed
  <2>6. QED BY <2>2, <2>3, <2>4, <2>5 DEF TaskInv, GoesOn, ExitTellsOutcome
<1>2. CASE Answered
  <2>1. /\ cmd' = cmd /\ trail' = <<>> /\ at' \in {"running", "done"} /\ WellFormed(cmd)
        /\ at' = "done" => dry'
    BY <1>2 DEF Answered, Exit, TaskInv, TaskTypes, GoesOn
  <2>2. TaskTypes'
    BY <2>1 DEF TaskTypes, WellFormed
  <2>3. Bad' = {} /\ ~Refused(trail')
    BY <2>1 DEF Bad, Refused
  <2>4. Len(trail') < Len(cmd'.programs)
    BY <2>1 DEF WellFormed
  <2>5. QED BY <2>1, <2>2, <2>3, <2>4 DEF TaskInv, GoesOn, ExitTellsOutcome
<1>3. QED BY <1>1, <1>2

\* A program ends: the command stops at it, goes on, or is over.
LEMMA TaskRunStep == ASSUME TaskInv, Run PROVE TaskInv'
<1>1. /\ at = "running" /\ cmd' = cmd /\ dry' = dry /\ WellFormed(cmd)
      /\ Len(trail) < Len(cmd.programs)
      /\ cmd.policy = "stop" => Bad = {}
      /\ cmd.policy = "refuse" => ~Refused(trail)
  BY DEF Run, TaskInv, TaskTypes, GoesOn
<1>2. PICK end \in {"ok", "failed", "lost"} :
        /\ trail' = Append(trail, end)
        /\ IF cmd.policy = "stop" /\ Failures(trail') # {} THEN Exit(1, "error")
           ELSE IF cmd.policy = "refuse" /\ Refused(trail') THEN Exit(11, "error")
           ELSE IF Len(trail') < Len(cmd.programs) THEN UNCHANGED <<at, exit, says>>
           ELSE Conclude(cmd.policy, trail')
  BY DEF Run
<1>3. /\ trail' \in Seq({"ok", "failed", "lost"}) /\ Len(trail') = Len(trail) + 1
      /\ Len(trail) \in Nat
      /\ Failures(trail') = Bad'
      /\ Bad' = IF end = "failed" THEN Bad \cup {Len(trail')} ELSE Bad
      /\ Refused(trail') <=> Refused(trail) \/ end # "ok"
      /\ ~Refused(trail) => Bad = {}
  BY <1>2, TrailGrows DEF TaskInv
<1>4. /\ Len(cmd.programs) \in Nat /\ Len(trail') <= Len(cmd.programs) /\ cmd.policy \in Policies
      /\ Whole' <=> ~(Len(trail') < Len(cmd.programs))
  BY <1>1, <1>3 DEF WellFormed, Whole
<1>5. cmd.policy \in {"stop", "refuse"} => Bad' \subseteq {Len(trail')}
  BY <1>1, <1>3
<1>6. CASE cmd.policy = "stop" /\ Failures(trail') # {}
  <2>1. at' = "done" /\ exit' = 1 /\ Bad' # {}
    BY <1>2, <1>3, <1>6 DEF Exit
  <2>2. TaskTypes' /\ GoesOn'
    BY <1>1, <1>3, <2>1 DEF TaskTypes, GoesOn
  <2>3. ExitTellsOutcome'
    BY <1>1, <1>5, <1>6, <2>1 DEF ExitTellsOutcome
  <2>4. QED BY <2>2, <2>3 DEF TaskInv
<1>7. CASE cmd.policy = "refuse" /\ Refused(trail')
  <2>1. at' = "done" /\ exit' = 11
    BY <1>2, <1>7 DEF Exit
  <2>2. QED BY <1>1, <1>3, <1>5, <1>7, <2>1 DEF TaskInv, TaskTypes, GoesOn, ExitTellsOutcome
<1>8. CASE /\ ~(cmd.policy = "stop" /\ Failures(trail') # {})
           /\ ~(cmd.policy = "refuse" /\ Refused(trail'))
           /\ Len(trail') < Len(cmd.programs)
  <2>1. UNCHANGED <<at, exit, says>>
    BY <1>2, <1>8
  <2>2. QED BY <1>1, <1>3, <1>8, <2>1 DEF TaskInv, TaskTypes, GoesOn, ExitTellsOutcome
<1>9. CASE /\ ~(cmd.policy = "stop" /\ Failures(trail') # {})
           /\ ~(cmd.policy = "refuse" /\ Refused(trail'))
           /\ ~(Len(trail') < Len(cmd.programs))
  <2>1. Whole' /\ Conclude(cmd.policy, trail')
    BY <1>2, <1>4, <1>9
  <2>2. cmd.policy = "refuse" => Bad' = {}
    BY <1>1, <1>3, <1>9
  <2>3. CASE cmd.policy = "diagnose"
    <3>1. Diagnose(trail')
      BY <2>1, <2>3 DEF Conclude
    <3>2. at' = "done"
      BY <3>1 DEF Diagnose, Exit
    <3>3. exit' = 0 => trail'[1] = "ok" /\ trail'[3] = "ok"
      BY <3>1 DEF Diagnose, Exit
    <3>4. cmd.name = "doctor" /\ Len(cmd.programs) = 3
      BY <1>1, <2>3 DEF WellFormed
    <3>5. exit' = 0 => Bad' \subseteq {2}
      <4>1. Len(trail') = 3
        BY <1>1, <2>1, <3>4 DEF Whole
      <4>2. DOMAIN trail' = 1..3
        <5>1. trail' \in Seq({"ok", "failed", "lost"})
          BY <1>3
        <5>2. DOMAIN trail' = 1..Len(trail')
          BY <5>1
        <5>3. QED BY <4>1, <5>2
      <4>3. QED BY <3>3, <4>2 DEF Bad
    <3>6. QED
      BY <1>1, <1>3, <2>1, <2>3, <3>2, <3>4, <3>5 DEF TaskInv, TaskTypes, GoesOn, ExitTellsOutcome
  <2>4. CASE cmd.policy \in {"collect", "report"} /\ Failures(trail') # {}
    <3>1. at' = "done" /\ exit' = IF cmd.policy = "collect" THEN 1 ELSE 0
      BY <2>1, <2>4 DEF Conclude, Exit
    <3>2. QED
      BY <1>1, <1>3, <2>1, <2>4, <3>1 DEF TaskInv, TaskTypes, GoesOn, ExitTellsOutcome
  <2>5. CASE /\ cmd.policy # "diagnose"
             /\ ~(cmd.policy \in {"collect", "report"} /\ Failures(trail') # {})
    <3>1. at' = "done" /\ exit' = 0
      BY <2>1, <2>5 DEF Conclude, Exit
    <3>2. Bad' = {}
      BY <1>3, <1>4, <1>9, <2>2, <2>5 DEF Policies
    <3>3. QED
      BY <1>1, <1>3, <2>1, <2>5, <3>1, <3>2 DEF TaskInv, TaskTypes, GoesOn, ExitTellsOutcome
  <2>6. QED BY <2>3, <2>4, <2>5
<1>10. QED BY <1>6, <1>7, <1>8, <1>9

\* Every step of a command.
LEMMA TaskNextInv == TaskInv /\ [TaskNext]_taskVars => TaskInv'
<1>1. ASSUME TaskInv, UNCHANGED taskVars PROVE TaskInv'
  BY <1>1 DEF taskVars, TaskInv, TaskTypes, GoesOn, ExitTellsOutcome, Bad, Whole
<1>2. QED BY <1>1, TaskCallStep, TaskRunStep DEF TaskNext

\* The exit code of a command and what it ran belong together, whichever programs fail,
\* are missing or are killed (the runs of commands/*.ts and their process.exit).
THEOREM ExitIsTold == TaskSpec => []ExitTellsOutcome
<1>1. TaskInv => ExitTellsOutcome
  BY DEF TaskInv
<1>2. QED BY <1>1, TaskInitInv, TaskNextInv, PTL DEF TaskSpec

-----------------------------------------------------------------------------
\* The tools of the MCP server: a recommendation names everything once, in order.

\* The scores of a profile are whole numbers of hundredths.
LEMMA ScoresAreInts ==
  ASSUME NEW ask \in [team : DOMAIN TeamFit, floor : DOMAIN ComplianceFit, envs : ToolEnvs,
                      budget : ToolBudgets],
         NEW p \in ProfileNos
  PROVE  Scores(ask, p) \subseteq Int
<1>1. ask.budget \in Nat /\ ask.envs \in Nat
  <2>1. ask.budget \in ToolBudgets /\ ask.envs \in ToolEnvs
    OBVIOUS
  <2>2. (\A b \in ToolBudgets : b \in Nat) /\ (\A e \in ToolEnvs : e \in Nat)
    BY AgentAssumption
  <2>3. QED BY <2>1, <2>2
<1>2. CostBand[p].min \in Nat /\ CostBand[p].max \in Nat /\ CostBand[p].min <= CostBand[p].max
  BY DEF CostBand, ProfileNos
<1>3. Scale(p) \in Nat \ {0}
  BY <1>2 DEF Scale
<1>4. BudgetFit(ask.budget, p) \in Int
  BY <1>1, <1>2, <1>3 DEF BudgetFit, Larger, Distance
<1>5. EnvFit(ask.envs, p) \in Int
  <2>1. EnvTarget[p] \in Nat
    BY DEF EnvTarget, ProfileNos
  <2>2. QED BY <1>1, <2>1 DEF EnvFit, Larger, Distance
<1>6. TeamFit[ask.team][p] \in Int
  BY DEF TeamFit, ProfileNos
<1>7. ComplianceFit[ask.floor][p] \in Int
  BY DEF ComplianceFit, ProfileNos
<1> DEFINE fits == FitWeight.team * TeamFit[ask.team][p] + FitWeight.env * EnvFit(ask.envs, p)
                     + FitWeight.compliance * ComplianceFit[ask.floor][p]
           sum == FitWeight.budget * BudgetFit(ask.budget, p) + fits * Scale(p)
           unit == (FitWeight.team + FitWeight.env + FitWeight.budget + FitWeight.compliance) * Scale(p)
<1>8. unit \in Nat \ {0} /\ fits \in Int
  BY <1>3, <1>5, <1>6, <1>7 DEF FitWeight
<1>9. sum \in Int
  <2> HIDE DEF fits
  <2>1. fits * Scale(p) \in Int
    BY <1>3, <1>8
  <2>2. QED BY <1>4, <2>1 DEF FitWeight
<1>10. Scores(ask, p) \subseteq {(2 * sum + unit) \div (2 * unit), (2 * sum + unit) \div (2 * unit) - 1}
  BY DEF Scores
<1> HIDE DEF sum, unit
<1>11. (2 * sum + unit) \div (2 * unit) \in Int
  BY <1>8, <1>9
<1>12. QED BY <1>10, <1>11

\* There are five profiles.
LEMMA FiveProfiles == IsFiniteSet(ProfileNos) /\ Cardinality(ProfileNos) = 5
<1>1. PICK n \in Int : n = 5
  OBVIOUS
<1>2. IsFiniteSet(1..n) /\ Cardinality(1..n) = IF 1 > n THEN 0 ELSE n - 1 + 1
  BY FS_Interval
<1>3. ProfileNos = 1..n
  BY <1>1 DEF ProfileNos
<1>4. QED BY <1>1, <1>2, <1>3

\* Sorting the profiles by score is a permutation in which every pair is in order.
LEMMA RankedSorts ==
  ASSUME NEW score, \A p \in ProfileNos : score[p] \in Int
  PROVE  /\ Ranked(score) \in [ProfileNos -> ProfileNos]
         /\ Range(Ranked(score)) = ProfileNos
         /\ \A i, j \in ProfileNos : i < j => Before(score, Ranked(score)[i], Ranked(score)[j])
<1> DEFINE Ahead(p) == {q \in ProfileNos : Before(score, q, p)}
           place == [p \in ProfileNos |-> Cardinality(Ahead(p)) + 1]
<1>1. IsFiniteSet(ProfileNos) /\ Cardinality(ProfileNos) = 5
  BY FiveProfiles
<1>2. \A p \in ProfileNos : IsFiniteSet(Ahead(p)) /\ place[p] \in ProfileNos
  <2> SUFFICES ASSUME NEW p \in ProfileNos PROVE IsFiniteSet(Ahead(p)) /\ place[p] \in ProfileNos
    OBVIOUS
  <2>1. p \notin Ahead(p)
    BY DEF Before, ProfileNos
  <2> HIDE DEF Ahead
  <2>2. Ahead(p) \in SUBSET (ProfileNos \ {p})
    BY <2>1 DEF Ahead
  <2>3. IsFiniteSet(ProfileNos \ {p}) /\ Cardinality(ProfileNos \ {p}) = 4
    BY <1>1, FS_RemoveElement
  <2>4. IsFiniteSet(Ahead(p)) /\ Cardinality(Ahead(p)) <= 4
    BY <2>2, <2>3, FS_Subset
  <2>5. Cardinality(Ahead(p)) \in Nat
    BY <2>4, FS_CardinalityType
  <2>6. QED BY <2>4, <2>5 DEF ProfileNos
<1>3. \A p, q \in ProfileNos : Before(score, p, q) => place[p] < place[q]
  <2> SUFFICES ASSUME NEW p \in ProfileNos, NEW q \in ProfileNos, Before(score, p, q)
               PROVE  place[p] < place[q]
    OBVIOUS
  <2>1. p \notin Ahead(p) /\ Ahead(p) \cup {p} \subseteq Ahead(q)
    BY DEF Before, ProfileNos
  <2> HIDE DEF Ahead
  <2>2. Cardinality(Ahead(p) \cup {p}) = Cardinality(Ahead(p)) + 1
    BY <1>2, <2>1, FS_AddElement
  <2>3. Cardinality(Ahead(p) \cup {p}) <= Cardinality(Ahead(q))
    <3>1. Ahead(p) \cup {p} \in SUBSET Ahead(q) /\ IsFiniteSet(Ahead(q))
      BY <1>2, <2>1
    <3>2. QED BY <3>1, FS_Subset
  <2>4. Cardinality(Ahead(p)) \in Nat /\ Cardinality(Ahead(q)) \in Nat
    BY <1>2, FS_CardinalityType
  <2>5. QED BY <2>2, <2>3, <2>4
<1>4. \A p, q \in ProfileNos : p # q => Before(score, p, q) \/ Before(score, q, p)
  BY DEF Before, ProfileNos
<1> HIDE DEF place
<1>5. place \in [ProfileNos -> ProfileNos] /\ \A p, q \in ProfileNos : place[p] = place[q] => p = q
  <2>1. place \in [ProfileNos -> ProfileNos]
    BY <1>2 DEF place
  <2>2. QED BY <1>3, <1>4, <2>1 DEF ProfileNos
<1>6. \A i \in ProfileNos : \E p \in ProfileNos : place[p] = i
  <2>1. place \in Injection(ProfileNos, ProfileNos)
    BY <1>5, Fun_IsInj
  <2>2. place \in Surjection(ProfileNos, ProfileNos)
    BY <1>1, <2>1, FS_Injection
  <2>3. QED BY <2>2, Fun_SurjectionProperties
<1>7. \A i \in ProfileNos : Ranked(score)[i] \in ProfileNos /\ place[Ranked(score)[i]] = i
  <2> SUFFICES ASSUME NEW i \in ProfileNos
               PROVE  Ranked(score)[i] \in ProfileNos /\ place[Ranked(score)[i]] = i
    OBVIOUS
  <2>1. \E p \in ProfileNos : Cardinality(Ahead(p)) = i - 1
    <3>1. PICK p \in ProfileNos : place[p] = i
      BY <1>6
    <3>2. Cardinality(Ahead(p)) \in Nat
      BY <1>2, FS_CardinalityType
    <3>3. place[p] = Cardinality(Ahead(p)) + 1
      BY DEF place
    <3> HIDE DEF Ahead
    <3>4. Cardinality(Ahead(p)) = i - 1
      BY <3>1, <3>2, <3>3 DEF ProfileNos
    <3>5. QED BY <3>4
  <2>2. Ranked(score)[i] = CHOOSE p \in ProfileNos : Cardinality(Ahead(p)) = i - 1
    BY DEF Ranked
  <2>3. Ranked(score)[i] \in ProfileNos /\ Cardinality(Ahead(Ranked(score)[i])) = i - 1
    BY <2>1, <2>2
  <2>4. QED BY <2>3 DEF place, ProfileNos
<1>8. Ranked(score) \in [ProfileNos -> ProfileNos]
  BY <1>7 DEF Ranked
<1>9. Range(Ranked(score)) = ProfileNos
  <2>1. ASSUME NEW p \in ProfileNos PROVE \E i \in ProfileNos : Ranked(score)[i] = p
    <3>1. place[p] \in ProfileNos
      BY <1>5
    <3>2. Ranked(score)[place[p]] = p
      BY <1>5, <1>7, <3>1
    <3>3. QED BY <3>1, <3>2
  <2>2. QED BY <1>8, <2>1 DEF Range
<1>10. \A i, j \in ProfileNos : i < j => Before(score, Ranked(score)[i], Ranked(score)[j])
  <2> SUFFICES ASSUME NEW i \in ProfileNos, NEW j \in ProfileNos, i < j
               PROVE  Before(score, Ranked(score)[i], Ranked(score)[j])
    OBVIOUS
  <2>1. Ranked(score)[i] # Ranked(score)[j]
    BY <1>7 DEF ProfileNos
  <2>2. ~Before(score, Ranked(score)[j], Ranked(score)[i])
    BY <1>3, <1>7 DEF ProfileNos
  <2>3. QED BY <1>4, <1>7, <2>1, <2>2
<1>11. QED BY <1>8, <1>9, <1>10

\* The list of a recommendation, as an answer.
LEMMA RecommendationSorted ==
  ASSUME NEW ranks \in Recommendations
  PROVE  /\ ranks.kind = "ranks" /\ ranks.of = ProfileNos /\ Range(ranks.ranked) = ProfileNos
         /\ Len(ranks.ranked) = Cardinality(ProfileNos) /\ DOMAIN ranks.ranked = ProfileNos
         /\ \A i, j \in ProfileNos : i < j => Before(ranks.score, ranks.ranked[i], ranks.ranked[j])
<1>1. PICK ask \in [team : DOMAIN TeamFit, floor : DOMAIN ComplianceFit, envs : ToolEnvs,
                    budget : ToolBudgets] :
        LET s == [p \in ProfileNos |-> Scores(ask, p)] IN
        \E score \in s[1] \X s[2] \X s[3] \X s[4] \X s[5] :
          ranks = [kind |-> "ranks", of |-> ProfileNos, score |-> score, ranked |-> Ranked(score)]
  BY DEF Recommendations
<1> DEFINE s == [p \in ProfileNos |-> Scores(ask, p)]
<1>2. PICK score \in s[1] \X s[2] \X s[3] \X s[4] \X s[5] :
        ranks = [kind |-> "ranks", of |-> ProfileNos, score |-> score, ranked |-> Ranked(score)]
  BY <1>1
<1>3. \A p \in ProfileNos : s[p] \subseteq Int
  BY ScoresAreInts
<1>4. \A p \in ProfileNos : score[p] \in Int
  <2> HIDE DEF s
  <2>1. ProfileNos = {1, 2, 3, 4, 5}
    BY DEF ProfileNos
  <2>2. /\ score[1] \in s[1] /\ score[2] \in s[2] /\ score[3] \in s[3] /\ score[4] \in s[4]
        /\ score[5] \in s[5]
    BY <1>2
  <2>3. QED BY <1>3, <2>1, <2>2
<1>5. /\ Ranked(score) \in [ProfileNos -> ProfileNos] /\ Range(Ranked(score)) = ProfileNos
      /\ \A i, j \in ProfileNos : i < j => Before(score, Ranked(score)[i], Ranked(score)[j])
  BY <1>4, RankedSorts
<1>6. Len(Ranked(score)) = 5
  <2>1. Ranked(score) \in [1..5 -> ProfileNos]
    BY <1>5 DEF ProfileNos
  <2>2. QED BY <2>1
<1>7. /\ ranks.kind = "ranks" /\ ranks.ranked = Ranked(score) /\ ranks.score = score
      /\ ranks.of = ProfileNos
  BY <1>2
<1>8. QED BY <1>5, <1>6, <1>7, FiveProfiles

\* Each backend is in the list once.
LEMMA BackendsOnce ==
  ASSUME NEW p \in ProfileNos, NEW minutes, NEW flags
  PROVE  /\ Range(Backends(p, minutes, flags)) = {"community", "saas", "powerpack-self-host"}
         /\ Len(Backends(p, minutes, flags)) = Cardinality({"community", "saas", "powerpack-self-host"})
<1> DEFINE S == {"community", "saas", "powerpack-self-host"}
<1>1. Cardinality(S) = 3
  <2>1. IsFiniteSet({"community"}) /\ Cardinality({"community"}) = 1
    BY FS_Singleton
  <2>2. IsFiniteSet({"community"} \cup {"saas"}) /\ Cardinality({"community"} \cup {"saas"}) = 2
    BY <2>1, FS_AddElement
  <2>3. Cardinality(({"community"} \cup {"saas"}) \cup {"powerpack-self-host"}) = 3
    BY <2>2, FS_AddElement
  <2>4. S = ({"community"} \cup {"saas"}) \cup {"powerpack-self-host"}
    OBVIOUS
  <2>5. QED BY <2>3, <2>4
<1>2. \/ Backends(p, minutes, flags) = <<"powerpack-self-host", "saas", "community">>
      \/ Backends(p, minutes, flags) = <<"community", "saas", "powerpack-self-host">>
      \/ Backends(p, minutes, flags) = <<"saas", "powerpack-self-host", "community">>
  BY DEF Backends, Default, Solo, ProfileNos
<1>3. \A a, b, c : Range(<<a, b, c>>) = {a, b, c} /\ Len(<<a, b, c>>) = 3
  BY DEF Range
<1>4. QED BY <1>1, <1>2, <1>3

\* A recommendation names every profile, or every backend, once, the best score first and
\* the cheaper profile first among equals, for every answer of the user and every rounding
\* of the scores (ranked.sort in recommend_profile.ts).
THEOREM RecommendationsInOrder == AgentSpec => []RanksEachOnce
<1>1. AgentInit => RanksEachOnce
  BY DEF AgentInit, RanksEachOnce
<1>2. RanksEachOnce /\ [AgentNext]_agentVars => RanksEachOnce'
  <2> SUFFICES ASSUME RanksEachOnce, [AgentNext]_agentVars PROVE RanksEachOnce'
    OBVIOUS
  <2>1. ASSUME answer' = answer \/ answer'.kind # "ranks" PROVE RanksEachOnce'
    BY <2>1 DEF RanksEachOnce
  <2>2. CASE UNCHANGED agentVars \/ EditPrices \/ ExplainFrom \/ ExplainTo
    BY <2>1, <2>2 DEF agentVars, EditPrices, ExplainFrom, ExplainTo
  <2>3. CASE ListProfiles \/ ListApps \/ ListXrds \/ DescribeProfile \/ DescribeApp \/ DescribeXrd
             \/ Stub \/ Refuse
    BY <2>1, <2>3 DEF Dispatched, ListProfiles, ListApps, ListXrds, DescribeProfile, DescribeApp,
         DescribeXrd, Stub, Refuse
  <2>4. CASE SimulateCost \/ EstimateCost
    <3>1. answer'.kind \in {"cost", "error"}
      BY <2>4 DEF Dispatched, SimulateCost, EstimateCost, CostAnswer
    <3>2. QED BY <2>1, <3>1
  <2>5. CASE Recommend
    <3>1. PICK ranks \in Recommendations : Dispatched(ProfilesLoad, ranks)
      BY <2>5 DEF Recommend
    <3>2. CASE answer' = [kind |-> "error"]
      BY <2>1, <3>2
    <3>3. CASE answer' = ranks
      BY <3>3, RecommendationSorted DEF RanksEachOnce, Before
    <3>4. QED BY <3>1, <3>2, <3>3 DEF Dispatched
  <2>6. CASE RecommendBackend
    <3>1. PICK p \in ProfileNos, minutes \in {0, 2000}, flags \in SUBSET {"soc2", "hipaa"} :
            answer' = [kind |-> "ranks", of |-> {"community", "saas", "powerpack-self-host"},
                       ranked |-> Backends(p, minutes, flags)]
      BY <2>6 DEF RecommendBackend, Dispatched
    <3>2. "score" \notin DOMAIN answer'
      BY <3>1
    <3>3. answer'.of = {"community", "saas", "powerpack-self-host"}
          /\ answer'.ranked = Backends(p, minutes, flags)
      BY <3>1
    <3>4. QED BY <3>2, <3>3, BackendsOnce DEF RanksEachOnce
  <2>7. QED BY <2>2, <2>3, <2>4, <2>5, <2>6 DEF AgentNext
<1>3. QED BY <1>1, <1>2, PTL DEF AgentSpec

\* An action that has no part in a tradeoff.
LEMMA NothingTold ==
  ASSUME AgentNext, ~ExplainFrom, ~ExplainTo, ~EditPrices
  PROVE  UNCHANGED <<prices, told, half>>
<1> USE DEF Dispatched
<1>1. CASE ListProfiles \/ ListApps \/ ListXrds \/ DescribeProfile \/ DescribeApp \/ DescribeXrd
  BY <1>1 DEF ListProfiles, ListApps, ListXrds, DescribeProfile, DescribeApp, DescribeXrd
<1>2. CASE Stub \/ Refuse \/ SimulateCost \/ EstimateCost
  BY <1>2 DEF Stub, Refuse, SimulateCost, EstimateCost
<1>3. CASE Recommend
  BY <1>3 DEF Recommend
<1>4. CASE RecommendBackend
  BY <1>4 DEF RecommendBackend
<1>5. QED BY <1>1, <1>2, <1>3, <1>4 DEF AgentNext

\* A cost depends on the prices of now alone.
LEMMA CostsStay ==
  ASSUME UNCHANGED prices, NEW p
  PROVE  TradeoffCost(p)' = TradeoffCost(p)
BY DEF TradeoffCost, CostAnswer, Bill, Machine, Total, Rounded

\* A first total that no edit came after is the cost of now, and so are both ends of the
\* tradeoffs told since the last edit.
HalfIsOfNow ==
  half # None => half.at \in 0..prices /\ (half.at = prices => half.cost = TradeoffCost(half.from))

ToldIsOfNow == \A t \in told : t.delta = TradeoffCost(t.to) - TradeoffCost(t.from)

TradeoffInv == prices \in Nat /\ HalfIsOfNow /\ ToldIsOfNow

\* A tradeoff told since the last edit, of a call no edit interrupted, is the difference of
\* two costs of now, however the edits fall (explain_tradeoff.ts, which calls simulate_cost
\* twice, and simulate_cost.ts, which reads the prices each time).
THEOREM TradeoffsStayTrue == AgentSpec => []TradeoffsAreOfNow
<1>1. AgentInit => TradeoffInv
  BY DEF AgentInit, TradeoffInv, HalfIsOfNow, ToldIsOfNow
<1>2. TradeoffInv /\ [AgentNext]_agentVars => TradeoffInv'
  <2> SUFFICES ASSUME TradeoffInv, [AgentNext]_agentVars PROVE TradeoffInv'
    OBVIOUS
  <2> USE DEF TradeoffInv, HalfIsOfNow, ToldIsOfNow
  <2>1. CASE UNCHANGED <<prices, told, half>>
    BY <2>1, CostsStay
  <2>2. CASE EditPrices
    <3>1. prices' = prices + 1 /\ half' = half /\ told' = {}
      BY <2>2 DEF EditPrices
    <3>2. half # None => half.at \in 0..prices + 1 /\ half.at # prices + 1
      OBVIOUS
    <3>3. QED BY <3>1, <3>2
  <2>3. CASE ExplainFrom
    <3>1. prices' = prices /\ told' = told
      BY <2>3 DEF ExplainFrom
    <3>2. half' = half \/ \E a, b : half' = [from |-> a, to |-> b, cost |-> TradeoffCost(a), at |-> prices]
      BY <2>3 DEF ExplainFrom
    <3>3. QED BY <3>1, <3>2, CostsStay
  <2>4. CASE ExplainTo
    <3> DEFINE t == [from |-> half.from, to |-> half.to, delta |-> TradeoffCost(half.to) - half.cost]
    <3>1. /\ prices' = prices /\ half' = None /\ half # None
          /\ told' = IF half.at = prices THEN told \cup {t} ELSE told
      BY <2>4 DEF ExplainTo
    <3>2. half.at = prices => t.delta = TradeoffCost(t.to) - TradeoffCost(t.from)
      BY <3>1
    <3> HIDE DEF t
    <3>3. QED BY <3>1, <3>2, CostsStay
  <2>5. QED BY <2>1, <2>2, <2>3, <2>4, NothingTold DEF agentVars
<1>3. TradeoffInv => TradeoffsAreOfNow
  BY DEF TradeoffInv, ToldIsOfNow, TradeoffsAreOfNow, TradeoffCost
<1>4. QED BY <1>1, <1>2, <1>3, PTL DEF AgentSpec

-----------------------------------------------------------------------------
\* The tools of the MCP server: a cost answer adds up.

\* Whole units are not rounded.
LEMMA WholeIsKept ==
  ASSUME NEW m \in Nat, NEW w \in Nat, NEW unit \in {Dollar, Cent}
  PROVE  Rounded(m + w * unit, unit) = Rounded(m, unit) + w * unit
BY SMT DEF Rounded, Dollar, Cent

\* Two amounts rounded on their own are a unit off their sum at most.
LEMMA TwoAreNear ==
  ASSUME NEW m \in Nat, NEW n \in Nat, NEW unit \in {Dollar, Cent}
  PROVE  /\ Rounded(m, unit) \in Nat /\ Rounded(n, unit) \in Nat /\ Rounded(m + n, unit) \in Nat
         /\ Rounded(m, unit) + Rounded(n, unit) <= Rounded(m + n, unit) + unit
         /\ Rounded(m + n, unit) <= Rounded(m, unit) + Rounded(n, unit) + unit
BY SMT DEF Rounded, Dollar, Cent

\* What is half a unit or more is not rounded to nothing, and nothing to nothing.
LEMMA HalfIsSeen ==
  ASSUME NEW m \in Nat, NEW unit \in {Dollar, Cent}
  PROVE  /\ 2 * m >= unit => Rounded(m, unit) > 0
         /\ Rounded(0, unit) = 0
BY SMT DEF Rounded, Dollar, Cent

BillFields == {"compute", "storage", "egress", "secrets", "saas"}

\* The bills in which only machines and storage are not whole units, and in which there is
\* no storage without a machine.
Billable(bill, unit) ==
  /\ DOMAIN bill = BillFields
  /\ bill.compute \in Nat /\ bill.storage \in Nat
  /\ \A f \in {"egress", "secrets", "saas"} : \E w \in Nat : bill[f] = w * unit
  /\ 2 * bill.compute >= unit \/ (bill.compute = 0 /\ bill.storage = 0)

LEMMA BillableAddsUp ==
  ASSUME NEW bill, NEW unit \in {Dollar, Cent}, Billable(bill, unit),
         answer' = CostAnswer(bill, unit)
  PROVE  BillAddsUp'
<1> DEFINE c == bill.compute
           s == bill.storage
           r(m) == Rounded(m, unit)
<1>1. unit \in Nat /\ c \in Nat /\ s \in Nat /\ c + s \in Nat
  BY SMT DEF Dollar, Cent, Billable
<1>2. PICK e \in Nat, x \in Nat, y \in Nat :
        bill.egress = e * unit /\ bill.secrets = x * unit /\ bill.saas = y * unit
  BY DEF Billable
<1> DEFINE ue == e * unit
           ux == x * unit
           uy == y * unit
<1>3. /\ ue \in Nat /\ ux \in Nat /\ uy \in Nat
      /\ bill.egress = ue /\ bill.secrets = ux /\ bill.saas = uy
  BY <1>1, <1>2
<1>4. r(ue) = ue /\ r(ux) = ux /\ r(uy) = uy
  <2>1. r(0) = 0
    BY HalfIsSeen
  <2>2. \A w \in Nat : r(0 + w * unit) = r(0) + w * unit
    BY WholeIsKept
  <2> HIDE DEF r
  <2>3. QED BY <1>3, <2>1, <2>2
<1>5. r(c + s + ue) = r(c + s) + ue
  BY <1>1, WholeIsKept
<1>6. r(c + s + ue + ux + uy) = r(c + s) + ue + ux + uy
  <2>1. r(c + s + ue + ux) = r(c + s + ue) + ux
    <3>1. c + s + ue \in Nat
      BY <1>1, <1>3
    <3> HIDE DEF c, s, ue
    <3>2. QED BY <3>1, WholeIsKept
  <2>2. r(c + s + ue + ux + uy) = r(c + s + ue + ux) + uy
    <3>1. c + s + ue + ux \in Nat
      BY <1>1, <1>3
    <3> HIDE DEF c, s, ue, ux
    <3>2. QED BY <3>1, WholeIsKept
  <2> HIDE DEF r, c, s, ue, ux, uy
  <2>3. QED BY <1>5, <2>1, <2>2
<1>7. /\ r(c) \in Nat /\ r(s) \in Nat /\ r(c + s) \in Nat
      /\ r(c) + r(s) <= r(c + s) + unit /\ r(c + s) <= r(c) + r(s) + unit
  BY <1>1, TwoAreNear
<1>8. r(c) > 0 \/ (r(c) = 0 /\ r(s) = 0 /\ r(c + s) = 0)
  <2>1. CASE 2 * c >= unit
    BY <1>1, <2>1, HalfIsSeen
  <2>2. CASE c = 0 /\ s = 0
    BY <2>2, HalfIsSeen
  <2>3. QED BY <2>1, <2>2 DEF Billable
<1>9. /\ answer'.unit = unit
      /\ answer'.total = r(c + s) + ue + ux + uy
      /\ answer'.layers = [l \in BillFields |-> r(bill[l])]
      /\ answer'.providers = <<r(c + s + ue), r(ux), r(uy)>>
  <2>1. Total(bill) = c + s + ue + ux + uy
    BY <1>3 DEF Total
  <2>2. QED BY <1>3, <1>6, <2>1 DEF CostAnswer, Billable
<1>10. /\ answer'.layers.compute = r(c) /\ answer'.layers.storage = r(s)
       /\ answer'.layers.egress = ue /\ answer'.layers.secrets = ux /\ answer'.layers.saas = uy
  BY <1>3, <1>4, <1>9 DEF BillFields
<1>11. /\ answer'.providers[1] = r(c + s) + ue /\ answer'.providers[2] = ux
       /\ answer'.providers[3] = uy
  BY <1>4, <1>5, <1>9
<1> DEFINE rc == r(c)
           rs == r(s)
           rcs == r(c + s)
<1>12. /\ rc \in Nat /\ rs \in Nat /\ rcs \in Nat
       /\ rc + rs <= rcs + unit /\ rcs <= rc + rs + unit
       /\ rc > 0 \/ (rc = 0 /\ rs = 0 /\ rcs = 0)
       /\ answer'.layers.compute = rc /\ answer'.layers.storage = rs
       /\ answer'.total = rcs + ue + ux + uy
       /\ answer'.providers[1] = rcs + ue
  BY <1>7, <1>8, <1>9, <1>10, <1>11
<1> HIDE DEF rc, rs, rcs, ue, ux, uy, c, s
<1>13. unit = 1000000 \/ unit = 10000
  BY SMT DEF Dollar, Cent
<1> DEFINE one(amount) == IF amount > 0 THEN 1 ELSE 0
           total == rcs + ue + ux + uy
           amounts == one(rc) + one(rs) + one(ue) + one(ux) + one(uy)
           provided == one(rcs + ue) + one(ux) + one(uy)
<1>14. 2 * Distance(rc + rs + ue + ux + uy, total) <= (amounts + 1) * unit
  <2>1. amounts \in Nat /\ (rc > 0 => amounts >= 1)
    BY <1>3, <1>12
  <2> HIDE DEF amounts
  <2>2. (amounts + 1) * unit >= IF rc > 0 THEN 2 * unit ELSE 0
    BY <2>1, <1>12, <1>13, SMT
  <2>3. 2 * Distance(rc + rs + ue + ux + uy, total) <= IF rc > 0 THEN 2 * unit ELSE 0
    BY <1>3, <1>12, <1>13, SMT DEF Distance, Larger
  <2>4. Distance(rc + rs + ue + ux + uy, total) \in Int /\ (amounts + 1) * unit \in Int
    BY <1>1, <1>3, <1>12, <2>1 DEF Distance, Larger
  <2>5. QED BY <1>1, <1>12, <2>2, <2>3, <2>4
<1>15. 2 * Distance((rcs + ue) + ux + uy, total) <= (provided + 1) * unit
  <2>1. provided \in Nat
    BY <1>3, <1>12
  <2> HIDE DEF provided
  <2>2. (provided + 1) * unit >= 0
    BY <2>1, <1>13, SMT
  <2>3. Distance((rcs + ue) + ux + uy, total) = 0
    BY <1>3, <1>12 DEF Distance, Larger
  <2>4. QED BY <2>2, <2>3
<1>16. /\ answer'.layers.egress = ue /\ answer'.layers.secrets = ux /\ answer'.layers.saas = uy
       /\ answer'.providers[2] = ux /\ answer'.providers[3] = uy /\ answer'.unit = unit
       /\ Total(answer'.layers) = rc + rs + ue + ux + uy
  BY <1>9, <1>10, <1>11, <1>12 DEF Total
<1>17. QED
  BY <1>12, <1>14, <1>15, <1>16 DEF BillAddsUp

\* What a machine costs.
LEMMA MachineCosts ==
  ASSUME prices \in Nat, NEW sku \in {"cx22", "cx32", "m7g"}
  PROVE  Machine[sku] \in Nat /\ 2 * Machine[sku] >= Dollar
BY SMT DEF Machine, Dollar

LEMMA ManyMachines ==
  ASSUME NEW n \in Nat, NEW m \in Nat
  PROVE  n * m \in Nat /\ (n > 0 => n * m >= m) /\ (n = 0 => n * m = 0)
<1>1. n * m \in Nat /\ (n = 0 => n * m = 0)
  OBVIOUS
<1>2. CASE n > 0
  <2>1. n - 1 \in Nat /\ n * m = (n - 1) * m + m
    BY <1>2
  <2>2. (n - 1) * m \in Nat
    BY <2>1
  <2>3. QED BY <1>1, <2>1, <2>2
<1>3. QED BY <1>1, <1>2

\* The bills of simulate_cost.
LEMMA SimulatedIsBillable ==
  ASSUME prices \in Nat, NEW p \in ProfileNos, NEW nodes \in Nat, NEW gb \in Nat
  PROVE  Billable(Bill(p, nodes, gb), Dollar)
<1> DEFINE bill == Bill(p, nodes, gb)
           m == Machine[Sizing[p].sku]
<1>1. Sizing[p].sku \in {"cx22", "cx32", "m7g"}
  BY DEF Sizing, ProfileNos
<1>2. m \in Nat /\ 2 * m >= Dollar /\ Dollar \in Nat
  BY <1>1, MachineCosts, SMT DEF Dollar
<1>3. bill.compute = nodes * m /\ bill.storage = IF nodes > 0 THEN gb * Volume ELSE 0
  BY DEF Bill
<1>4. bill.egress = 0 /\ bill.secrets = 0 /\ bill.saas = IF p > 2 THEN 29 * Dollar ELSE 0
  BY DEF Bill
<1>5. bill.storage \in Nat
  BY <1>3, SMT DEF Volume
<1> HIDE DEF m
<1>6. /\ bill.compute \in Nat
      /\ nodes > 0 => bill.compute >= m
      /\ nodes = 0 => bill.compute = 0
  BY <1>2, <1>3, ManyMachines
<1>7. 2 * bill.compute >= Dollar \/ (bill.compute = 0 /\ bill.storage = 0)
  <2>1. CASE nodes > 0
    <3> HIDE DEF bill
    <3>1. QED BY <1>2, <1>6, <2>1
  <2>2. CASE nodes = 0
    BY <1>3, <1>6, <2>2
  <2>3. QED BY <2>1, <2>2
<1>8. \A f \in {"egress", "secrets", "saas"} : \E w \in Nat : bill[f] = w * Dollar
  <2>1. 0 = 0 * Dollar
    BY <1>2
  <2> HIDE DEF bill
  <2>2. QED BY <1>4, <2>1
<1>9. DOMAIN bill = BillFields
  BY DEF Bill, BillFields
<1>10. QED BY <1>5, <1>6, <1>7, <1>8, <1>9 DEF Billable

\* The bills of the package.
LEMMA EstimateIsBillable ==
  ASSUME prices \in Nat, NEW p \in ProfileNos
  PROVE  Billable(Estimate(p), Cent)
<1> DEFINE bill == Estimate(p)
           s == Shape[p]
           m == Machine[s.sku]
<1>1. /\ s.sku \in {"cx22", "cx32", "m7g"} /\ s.count \in Nat \ {0} /\ s.gb \in Nat
      /\ s.tb \in Nat
      /\ s.tb > 0 \/ s.sku # "m7g"
      /\ s.secrets = 0 \/ s.secrets = 50 * Dollar
  BY SMT DEF Shape, ProfileNos
<1>2. /\ bill.compute = s.count * m
      /\ bill.storage = s.gb * IF s.sku = "m7g" THEN 8 * Cent ELSE Volume
      /\ bill.egress = IF s.sku = "m7g" THEN (1000 * s.tb - 100) * 9 * Cent ELSE 0
      /\ bill.secrets = s.secrets /\ bill.saas = 0
  BY SMT DEF Estimate
<1>3. m \in Nat /\ 2 * m >= Dollar
  BY <1>1, MachineCosts
<1>4. bill.storage \in Nat
  BY <1>1, <1>2, SMT DEF Cent, Volume
<1>5. DOMAIN bill = BillFields
  BY SMT DEF Estimate, BillFields
<1> HIDE DEF bill, s, m
<1>6. bill.compute \in Nat /\ 2 * bill.compute >= Cent
  <2>1. bill.compute \in Nat /\ bill.compute >= m
    BY <1>1, <1>2, <1>3, ManyMachines
  <2>2. QED BY <1>3, <2>1, SMT DEF Dollar, Cent
<1>7. \E w \in Nat : bill.egress = w * Cent
  <2>1. CASE s.sku = "m7g"
    <3>1. (1000 * s.tb - 100) * 9 \in Nat
      BY <1>1, <2>1, SMT
    <3>2. QED BY <1>2, <2>1, <3>1
  <2>2. CASE s.sku # "m7g"
    <3>1. bill.egress = 0 /\ 0 * Cent = 0
      BY <1>2, <2>2, SMT DEF Cent
    <3>2. QED BY <3>1
  <2>3. QED BY <2>1, <2>2
<1>8. (\E w \in Nat : bill.secrets = w * Cent) /\ (\E w \in Nat : bill.saas = w * Cent)
  <2>1. 50 * Dollar = 5000 * Cent /\ 0 * Cent = 0
    BY SMT DEF Dollar, Cent
  <2>2. QED BY <1>1, <1>2, <2>1
<1>9. QED BY <1>4, <1>5, <1>6, <1>7, <1>8 DEF Billable, bill

\* Every cost answer adds up, of every sizing, every override and every edit of the prices
\* (simulate_cost.ts and simulateCost, which round each amount on its own).
THEOREM CostsAddUp == AgentSpec => []BillAddsUp
<1> DEFINE Inv == prices \in Nat /\ BillAddsUp
<1>1. AgentInit => Inv
  BY DEF AgentInit, BillAddsUp
<1>2. Inv /\ [AgentNext]_agentVars => Inv'
  <2> SUFFICES ASSUME prices \in Nat, BillAddsUp, [AgentNext]_agentVars
               PROVE  prices' \in Nat /\ BillAddsUp'
    OBVIOUS
  <2>1. prices' \in Nat
    <3>1. prices' = prices \/ prices' = prices + 1
      BY NothingTold DEF agentVars, EditPrices, ExplainFrom, ExplainTo
    <3>2. QED BY <3>1
  <2> SUFFICES BillAddsUp'
    BY <2>1
  <2>2. ASSUME answer' = answer \/ answer'.kind # "cost" PROVE BillAddsUp'
    BY <2>2 DEF BillAddsUp
  <2>3. CASE UNCHANGED agentVars \/ EditPrices \/ ExplainFrom \/ ExplainTo
    BY <2>2, <2>3 DEF agentVars, EditPrices, ExplainFrom, ExplainTo
  <2>4. CASE ListProfiles \/ ListApps \/ ListXrds \/ DescribeProfile \/ DescribeApp \/ DescribeXrd
             \/ Stub \/ Refuse
    BY <2>2, <2>4 DEF Dispatched, ListProfiles, ListApps, ListXrds, DescribeProfile, DescribeApp,
         DescribeXrd, Stub, Refuse
  <2>5. CASE Recommend \/ RecommendBackend
    <3>1. \A ranks \in Recommendations : ranks.kind = "ranks"
      BY RecommendationSorted
    <3>2. answer'.kind \in {"ranks", "error"}
      BY <2>5, <3>1 DEF Dispatched, Recommend, RecommendBackend
    <3>3. QED BY <2>2, <3>2
  <2>6. ASSUME answer' = [kind |-> "error"] PROVE BillAddsUp'
    BY <2>2, <2>6
  <2>7. CASE SimulateCost
    <3>1. PICK p \in ProfileNos :
            \E nodes \in Nodes \cup {Sizing[p].nodes}, gb \in Gigabytes \cup {Sizing[p].gb} :
              Dispatched(ProfilesLoad, CostAnswer(Bill(p, nodes, gb), Dollar))
      BY <2>7 DEF SimulateCost
    <3>2. PICK nodes \in Nodes \cup {Sizing[p].nodes}, gb \in Gigabytes \cup {Sizing[p].gb} :
            Dispatched(ProfilesLoad, CostAnswer(Bill(p, nodes, gb), Dollar))
      BY <3>1
    <3>3. nodes \in Nat /\ gb \in Nat
      <4>1. Sizing[p].nodes \in Nat /\ Sizing[p].gb \in Nat
        BY DEF Sizing, ProfileNos
      <4>2. QED BY <4>1, AgentAssumption
    <3>4. Billable(Bill(p, nodes, gb), Dollar)
      BY <3>3, SimulatedIsBillable
    <3>5. CASE answer' = CostAnswer(Bill(p, nodes, gb), Dollar)
      BY <3>4, <3>5, BillableAddsUp
    <3>6. QED BY <2>6, <3>2, <3>5 DEF Dispatched
  <2>8. CASE EstimateCost
    <3>1. PICK p \in ProfileNos : Dispatched(TRUE, CostAnswer(Estimate(p), Cent))
      BY <2>8 DEF EstimateCost
    <3>2. Billable(Estimate(p), Cent)
      BY EstimateIsBillable
    <3>3. answer' = CostAnswer(Estimate(p), Cent)
      BY <3>1 DEF Dispatched
    <3>4. QED BY <3>2, <3>3, BillableAddsUp
  <2>9. QED BY <2>3, <2>4, <2>5, <2>7, <2>8 DEF AgentNext
<1>3. QED BY <1>1, <1>2, PTL DEF AgentSpec

-----------------------------------------------------------------------------
\* A sequence with one more element.
LEMMA MoreText ==
  ASSUME NEW S, NEW text \in Seq(S), NEW line \in S, NEW k, k = Len(text)
  PROVE  LET more == Append(text, line) IN
         /\ k \in Nat /\ DOMAIN text = 1..k /\ DOMAIN more = 1..k + 1 /\ Len(more) = k + 1
         /\ \A i \in 1..k : more[i] = text[i]
         /\ more[k + 1] = line
         /\ more \in Seq(S)
OBVIOUS

-----------------------------------------------------------------------------
\* The check of secrets: what was read of the first lines is what they say.

Keys == Flags \cup {"profiles"}

Entries == [Keys -> BOOLEAN \cup SUBSET SpecProfiles]

Behind == SubSeq(spec, 1, read.at)

SecretTypes ==
  /\ spec \in Seq(SpecLines)
  /\ read \in [at : 0..Len(spec), secrets : UNION {[S -> Entries] : S \in SUBSET Names},
               name : Names \cup {"other"}, entry : Entries]

\* The entry under way is the one of the last section of what was read,
IsPending(text, name) ==
  LET NoneAfter(s) == \A j \in s + 1..Len(text) : text[j][1] # "section" IN
  /\ \A s \in DOMAIN text : text[s][1] = "section" /\ NoneAfter(s) => text[s][2] = name
  /\ name # "other" => \E s \in Sections(text, name) : NoneAfter(s)

\* and with it the entries are those of the sections so far, and say what these say.
AreSaid(text, entries) ==
  \A n \in Names :
    /\ n \in DOMAIN entries <=> Sections(text, n) # {}
    /\ n \in DOMAIN entries =>
         \A key \in Keys : entries[n][key] = Says(text, n, key, Blank[key])

SecretInv ==
  /\ SecretTypes /\ IsPending(Behind, read.name) /\ AreSaid(Behind, Stored(read))
  /\ ReportIsOfSpec

\* A line is a section or a key, with a value that fits.
LEMMA LineParts ==
  ASSUME NEW line \in SpecLines
  PROVE  /\ line[1] # "section" => line[1] \in Keys /\ line[2] \in BOOLEAN \cup SUBSET SpecProfiles
         /\ line[1] = "section" => line[2] \in Names \cup {"other"} /\ line = <<"section", line[2]>>
BY SecretAssumption DEF Keys, Flags

LEMMA BlankIsEntry == Blank \in Entries
<1>1. DOMAIN Blank = Keys
  BY DEF Blank, Keys, Flags
<1>2. Blank = [key \in DOMAIN Blank |-> Blank[key]]
  BY DEF Blank
<1>3. \A key \in Keys : Blank[key] \in BOOLEAN \cup SUBSET SpecProfiles
  <2>1. /\ Blank["required"] = FALSE /\ Blank["ci_only"] = FALSE /\ Blank["default_dev"] = FALSE
        /\ Blank["profiles"] = SpecProfiles
    BY DEF Blank
  <2>2. Blank["required"] \in BOOLEAN /\ Blank["ci_only"] \in BOOLEAN /\ Blank["default_dev"] \in BOOLEAN
    BY <2>1, Zenon
  <2>3. QED BY <2>1, <2>2 DEF Keys, Flags
<1>4. QED BY <1>1, <1>2, <1>3, Zenon DEF Entries

\* Storing the entry under way keeps the others.
LEMMA StoredFits ==
  ASSUME SecretTypes
  PROVE  Stored(read) \in UNION {[S -> Entries] : S \in SUBSET Names}
<1>1. PICK S \in SUBSET Names : read.secrets \in [S -> Entries]
  BY DEF SecretTypes
<1>2. CASE read.name = "other"
  BY <1>1, <1>2 DEF Stored
<1>3. CASE read.name # "other"
  <2>1. S \cup {read.name} \in SUBSET Names /\ DOMAIN read.secrets = S /\ read.entry \in Entries
    BY <1>1, <1>3 DEF SecretTypes
  <2>2. Stored(read) = [n \in S \cup {read.name} |-> IF n = read.name THEN read.entry ELSE read.secrets[n]]
    BY <1>3, <2>1 DEF Stored
  <2>3. \A n \in S \cup {read.name} :
          (IF n = read.name THEN read.entry ELSE read.secrets[n]) \in Entries
    BY <1>1, <2>1
  <2> HIDE DEF Entries
  <2>4. Stored(read) \in [S \cup {read.name} -> Entries]
    BY <2>2, <2>3
  <2>5. QED BY <2>1, <2>4
<1>4. QED BY <1>2, <1>3

\* The lines of a secret in the text before the one more are the ones they were.
LEMMA SameBody ==
  ASSUME NEW text \in Seq(SpecLines), NEW line \in SpecLines, NEW n,
         Sections(Append(text, line), n) = Sections(text, n)
  PROVE  Body(text, n) = Body(Append(text, line), n) \cap 1..Len(text)
<1> DEFINE more == Append(text, line)
           k == Len(text)
<1>1. /\ k \in Nat /\ DOMAIN text = 1..k /\ DOMAIN more = 1..k + 1
      /\ \A i \in 1..k : more[i] = text[i]
  BY MoreText
<1>2. Sections(more, n) = Sections(text, n) /\ Sections(text, n) \subseteq 1..k
  BY <1>1 DEF Sections
<1> HIDE DEF more, k
<1>3. \A i \in 1..k, s \in Sections(text, n) :
        (\A j \in s + 1..i : more[j][1] # "section") <=> (\A j \in s + 1..i : text[j][1] # "section")
  <2> TAKE i \in 1..k, s \in Sections(text, n)
  <2>1. s + 1..i \subseteq 1..k
    BY <1>1, <1>2
  <2>2. QED BY <1>1, <2>1
<1>4. \A i \in 1..k : i \in Body(more, n) <=> i \in Body(text, n)
  <2> TAKE i \in 1..k
  <2>1. i \in DOMAIN more /\ i \in DOMAIN text
    BY <1>1
  <2>2. \A s \in Sections(text, n) :
          (\A j \in s + 1..i : more[j][1] # "section") <=> (\A j \in s + 1..i : text[j][1] # "section")
    BY <1>3
  <2> HIDE DEF Sections
  <2>3. QED BY <1>2, <2>1, <2>2, Zenon DEF Body
<1>5. Body(text, n) \subseteq 1..k
  BY <1>1 DEF Body
<1>6. QED BY <1>4, <1>5 DEF more, k

\* What a secret says of a key is what the last of its lines with that key does.
LEMMA SameWords ==
  ASSUME NEW text \in Seq(SpecLines), NEW line \in SpecLines, NEW n, NEW key, NEW unsaid,
         Sections(Append(text, line), n) = Sections(text, n),
         Len(text) + 1 \in Body(Append(text, line), n) => line[1] # key
  PROVE  Says(Append(text, line), n, key, unsaid) = Says(text, n, key, unsaid)
<1> DEFINE more == Append(text, line)
           k == Len(text)
           lines == {i \in Body(text, n) : text[i][1] = key}
<1>1. /\ k \in Nat /\ DOMAIN text = 1..k /\ DOMAIN more = 1..k + 1
      /\ \A i \in 1..k : more[i] = text[i]
      /\ more[k + 1] = line
  BY MoreText
<1>2. Body(text, n) = Body(more, n) \cap 1..k /\ Body(more, n) \subseteq 1..k + 1
  <2>1. Body(text, n) = Body(more, n) \cap 1..k
    BY SameBody
  <2>2. QED BY <1>1, <2>1 DEF Body
<1>3. k + 1 \in Body(more, n) => line[1] # key
  OBVIOUS
<1> HIDE DEF more, k
<1>4. lines = {i \in Body(more, n) : more[i][1] = key}
  BY <1>1, <1>2, <1>3
<1>5. ASSUME lines # {} PROVE more[Max(lines)] = text[Max(lines)]
  <2>1. lines \in SUBSET (0..k) /\ lines \subseteq 1..k
    BY <1>1, <1>2
  <2>2. Max(lines) \in lines
    BY <1>1, <1>5, <2>1, MaxOfBounded
  <2>3. QED BY <1>1, <2>1, <2>2
<1>6. QED BY <1>4, <1>5 DEF Says, more

\* A section begins the lines of its secret anew, and is nothing for the others.
LEMMA SectionMore ==
  ASSUME NEW text \in Seq(SpecLines), NEW line \in SpecLines, line[1] = "section",
         NEW n \in Names, NEW key, NEW unsaid
  PROVE  LET more == Append(text, line) IN
         IF n = line[2]
         THEN Sections(more, n) # {} /\ Says(more, n, key, unsaid) = unsaid
         ELSE Sections(more, n) = Sections(text, n) /\ Says(more, n, key, unsaid) = Says(text, n, key, unsaid)
<1> DEFINE more == Append(text, line)
           k == Len(text)
<1>1. line = <<"section", line[2]>>
  BY LineParts
<1>2. /\ k \in Nat /\ DOMAIN text = 1..k /\ DOMAIN more = 1..k + 1
      /\ \A i \in 1..k : more[i] = text[i]
      /\ more[k + 1] = line
  BY MoreText
<1>3. CASE n # line[2]
  <2> HIDE DEF more, k
  <2>1. Sections(more, n) = Sections(text, n)
    BY <1>1, <1>2, <1>3 DEF Sections
  <2>2. k + 1 \notin Body(more, n)
    BY <1>1, <1>2, <2>1 DEF Body, Sections
  <2>3. QED BY <1>3, <2>1, <2>2, SameWords DEF more, k
<1>4. CASE n = line[2]
  <2> HIDE DEF more, k
  <2>1. k + 1 \in Sections(more, n)
    BY <1>1, <1>2, <1>4 DEF Sections
  <2>2. Body(more, n) = {}
    BY <1>2, <2>1 DEF Body, Sections
  <2>3. QED BY <1>4, <2>1, <2>2 DEF Says, more
<1>5. QED BY <1>3, <1>4

\* A key is the last word of the secret it stands under, and nothing for the others.
LEMMA KeyMore ==
  ASSUME NEW text \in Seq(SpecLines), NEW line \in SpecLines, line[1] # "section",
         NEW name, IsPending(text, name), NEW n \in Names, NEW key, NEW unsaid
  PROVE  LET more == Append(text, line) IN
         /\ Sections(more, n) = Sections(text, n)
         /\ Says(more, n, key, unsaid) =
              IF n = name /\ key = line[1] THEN line[2] ELSE Says(text, n, key, unsaid)
<1> DEFINE more == Append(text, line)
           k == Len(text)
<1>1. /\ k \in Nat /\ DOMAIN text = 1..k /\ DOMAIN more = 1..k + 1
      /\ \A i \in 1..k : more[i] = text[i]
      /\ more[k + 1] = line /\ more \in Seq(SpecLines)
  BY MoreText
<1>0. n # "other"
  BY SecretAssumption
<1> HIDE DEF more
<1>2. Sections(more, n) = Sections(text, n) /\ Sections(text, n) \subseteq 1..k
  BY <1>1 DEF Sections
<1>3. k + 1 \in Body(more, n) <=> n = name
  <2>1. ASSUME n = name PROVE k + 1 \in Body(more, n)
    <3>1. PICK s \in Sections(text, n) : \A j \in s + 1..k : text[j][1] # "section"
      BY <1>0, <2>1 DEF IsPending
    <3> HIDE DEF k
    <3>2. \A t \in Sections(text, n) : t <= s
      <4> TAKE t \in Sections(text, n)
      <4>1. t \in 1..k /\ s \in 1..k /\ text[t][1] = "section"
        BY <1>1, <1>2 DEF Sections
      <4>2. QED BY <1>1, <3>1, <4>1
    <3>3. s < k + 1 /\ \A j \in s + 1..k + 1 : more[j][1] # "section"
      <4>1. s \in 1..k
        BY <1>2
      <4>2. \A j \in s + 1..k + 1 : j \in s + 1..k \/ j = k + 1
        BY <1>1, <4>1
      <4>3. \A j \in s + 1..k : j \in 1..k
        BY <1>1, <4>1
      <4>4. QED BY <1>1, <3>1, <4>1, <4>2, <4>3
    <3>4. QED BY <1>1, <1>2, <3>1, <3>2, <3>3 DEF Body
  <2>2. ASSUME k + 1 \in Body(more, n) PROVE n = name
    <3> HIDE DEF k
    <3>1. PICK s \in Sections(text, n) : \A j \in s + 1..k + 1 : more[j][1] # "section"
      BY <1>1, <1>2, <2>2 DEF Body
    <3>2. s \in DOMAIN text /\ text[s][1] = "section" /\ text[s][2] = n
      BY <1>1, <3>1 DEF Sections
    <3>3. \A j \in s + 1..k : text[j][1] # "section"
      <4>1. \A j \in s + 1..k : j \in 1..k /\ j \in s + 1..k + 1
        BY <1>1, <3>2
      <4>2. QED BY <1>1, <3>1, <4>1
    <3>4. QED BY <3>2, <3>3 DEF IsPending, k
  <2>3. QED BY <2>1, <2>2
<1>4. CASE n = name /\ key = line[1]
  <2> DEFINE lines == {i \in Body(more, n) : more[i][1] = key}
  <2>1. k + 1 \in lines /\ \A i \in lines : k + 1 >= i /\ i \in Nat
    BY <1>1, <1>3, <1>4 DEF Body
  <2>2. Max(lines) = k + 1
    <3> HIDE DEF lines, k
    <3>1. \A x \in lines : (\A y \in lines : x >= y) <=> x = k + 1
      BY <1>1, <2>1
    <3>2. QED BY <2>1, <3>1 DEF Max
  <2>3. Says(more, n, key, unsaid) = line[2]
    <3> HIDE DEF k
    <3>1. QED BY <1>1, <2>1, <2>2 DEF Says
  <2>4. QED BY <1>2, <1>4, <2>3 DEF more
<1>5. CASE ~(n = name /\ key = line[1])
  BY <1>2, <1>3, <1>5, SameWords DEF more
<1>6. QED BY <1>4, <1>5

\* The entry under way is that of the last section.
LEMMA StillPending ==
  ASSUME NEW text \in Seq(SpecLines), NEW line \in SpecLines, NEW name, IsPending(text, name)
  PROVE  IsPending(Append(text, line), IF line[1] = "section" THEN line[2] ELSE name)
<1> DEFINE more == Append(text, line)
           k == Len(text)
<1>1. /\ k \in Nat /\ DOMAIN text = 1..k /\ DOMAIN more = 1..k + 1 /\ Len(more) = k + 1
      /\ \A i \in 1..k : more[i] = text[i]
      /\ more[k + 1] = line
  BY MoreText
<1>2. CASE line[1] = "section"
  <2>1. line = <<"section", line[2]>>
    BY <1>2, LineParts
  <2> HIDE DEF more, k
  <2>2. \A s \in 1..k + 1 : (\A j \in s + 1..k + 1 : more[j][1] # "section") => s = k + 1
    BY <1>1, <1>2
  <2>3. k + 1 \in Sections(more, line[2]) /\ \A j \in k + 1 + 1..k + 1 : FALSE
    BY <1>1, <2>1 DEF Sections
  <2>4. QED BY <1>1, <1>2, <2>2, <2>3 DEF IsPending, more
<1>3. CASE line[1] # "section"
  <2> HIDE DEF more, k
  <2>1. \A s \in 1..k : (\A j \in s + 1..k + 1 : more[j][1] # "section")
                          <=> (\A j \in s + 1..k : text[j][1] # "section")
    <3> TAKE s \in 1..k
    <3>1. \A j \in s + 1..k : j \in 1..k /\ j \in s + 1..k + 1
      BY <1>1
    <3>2. \A j \in s + 1..k + 1 : j \in s + 1..k \/ j = k + 1
      BY <1>1
    <3>3. QED BY <1>1, <1>3, <3>1, <3>2
  <2>2. \A s \in 1..k + 1 : more[s][1] = "section" => s \in 1..k
    BY <1>1, <1>3
  <2>3. Sections(more, name) = Sections(text, name) /\ Sections(text, name) \subseteq 1..k
    BY <1>1, <1>3 DEF Sections
  <2>4. \A s \in 1..k : (\A j \in s + 1..k : text[j][1] # "section")
                          <=> (\A j \in s + 1..Len(text) : text[j][1] # "section")
    BY DEF k
  <2>5. IsPending(more, name)
    BY <1>1, <2>1, <2>2, <2>3, <2>4 DEF IsPending
  <2>6. QED BY <1>3, <2>5 DEF more
<1>4. QED BY <1>2, <1>3

\* Nothing was read of a file yet.
LEMMA UnreadFits ==
  ASSUME spec \in Seq(SpecLines), read = Unread
  PROVE  SecretTypes /\ IsPending(Behind, read.name) /\ AreSaid(Behind, Stored(read))
<1>1. /\ read.at = 0 /\ read.name = "other" /\ read.entry = Blank
      /\ read.secrets = [n \in {} |-> Blank]
  BY DEF Unread
<1>2. SecretTypes
  <2>1. read.secrets \in [{} -> Entries] /\ {} \in SUBSET Names
    BY <1>1, Zenon
  <2>2. read.secrets \in UNION {[S -> Entries] : S \in SUBSET Names}
    BY <2>1
  <2>3. read = [at |-> read.at, secrets |-> read.secrets, name |-> read.name, entry |-> read.entry]
    BY DEF Unread
  <2>4. read.at \in 0..Len(spec) /\ read.name \in Names \cup {"other"} /\ read.entry \in Entries
    BY <1>1, BlankIsEntry
  <2> HIDE DEF Entries
  <2>5. QED BY <2>2, <2>3, <2>4 DEF SecretTypes
<1>3. Behind = <<>>
  BY <1>1 DEF Behind
<1>4. IsPending(Behind, read.name)
  BY <1>1, <1>3 DEF IsPending
<1>5. AreSaid(Behind, Stored(read))
  <2>1. DOMAIN Stored(read) = {}
    BY <1>1 DEF Stored
  <2>2. \A n : Sections(Behind, n) = {}
    BY <1>3 DEF Sections
  <2>3. QED BY <2>1, <2>2 DEF AreSaid
<1>6. QED BY <1>2, <1>4, <1>5

\* A turn of the loop: what is known of the lines read.
LEMMA ParseKeeps ==
  ASSUME SecretTypes, IsPending(Behind, read.name), AreSaid(Behind, Stored(read)), ParseToml
  PROVE  SecretTypes' /\ IsPending(Behind, read.name)' /\ AreSaid(Behind, Stored(read))'
<1> DEFINE k == read.at
           line == spec[k + 1]
           text == Behind
           stored == Stored(read)
<1>0. /\ k \in Nat /\ k < Len(spec) /\ k + 1 \in 0..Len(spec) /\ line \in SpecLines
      /\ spec' = spec /\ spec \in Seq(SpecLines)
  BY DEF ParseToml, SecretTypes
<1>1. text \in Seq(SpecLines) /\ SubSeq(spec, 1, k + 1) = Append(text, line)
  BY <1>0 DEF Behind
<1>2. stored \in UNION {[S -> Entries] : S \in SUBSET Names}
  BY StoredFits
<1>3. CASE line[1] = "section"
  <2>1. read' = [at |-> k + 1, secrets |-> stored, name |-> line[2], entry |-> Blank]
    BY <1>0, <1>3 DEF ParseToml, ReadLine, SecretTypes
  <2>2. SecretTypes'
    <3> HIDE DEF Entries
    <3>1. QED BY <1>0, <1>2, <1>3, <2>1, LineParts, BlankIsEntry DEF SecretTypes
  <2>3. Behind' = Append(text, line)
    BY <1>0, <1>1, <2>1 DEF Behind
  <2>4. IsPending(Behind, read.name)'
    BY <1>0, <1>1, <1>3, <2>1, <2>3, StillPending
  <2>5. Stored(read') = IF line[2] = "other" THEN stored
          ELSE [m \in DOMAIN stored \cup {line[2]} |-> IF m = line[2] THEN Blank ELSE stored[m]]
    BY <2>1 DEF Stored
  <2>6. AreSaid(Append(text, line), Stored(read'))
    <3> SUFFICES ASSUME NEW n \in Names
                 PROVE  /\ n \in DOMAIN Stored(read') <=> Sections(Append(text, line), n) # {}
                        /\ n \in DOMAIN Stored(read') =>
                             \A key \in Keys :
                               Stored(read')[n][key] = Says(Append(text, line), n, key, Blank[key])
      BY DEF AreSaid
    <3> HIDE DEF stored, text, line
    <3>1. CASE n = line[2]
      <4>1. n \in DOMAIN Stored(read') /\ Stored(read')[n] = Blank
        BY <2>5, <3>1, SecretAssumption
      <4>2. line \in SpecLines /\ text \in Seq(SpecLines) /\ line[1] = "section"
        BY <1>0, <1>1, <1>3
      <4>3. Sections(Append(text, line), n) # {}
        BY <3>1, <4>2, SectionMore
      <4>4. \A key : Says(Append(text, line), n, key, Blank[key]) = Blank[key]
        BY <3>1, <4>2, SectionMore
      <4>5. QED BY <4>1, <4>3, <4>4
    <3>2. CASE n # line[2]
      <4>1. (n \in DOMAIN Stored(read') <=> n \in DOMAIN stored)
            /\ (n \in DOMAIN stored => Stored(read')[n] = stored[n])
        BY <2>5, <3>2
      <4>2. line \in SpecLines /\ text \in Seq(SpecLines) /\ line[1] = "section"
        BY <1>0, <1>1, <1>3
      <4>3. Sections(Append(text, line), n) = Sections(text, n)
        BY <3>2, <4>2, SectionMore
      <4>4. \A key : Says(Append(text, line), n, key, Blank[key]) = Says(text, n, key, Blank[key])
        BY <3>2, <4>2, SectionMore
      <4>5. AreSaid(text, stored)
        BY DEF text, stored
      <4>6. QED BY <4>1, <4>3, <4>4, <4>5 DEF AreSaid
    <3>3. QED BY <3>1, <3>2
  <2>7. QED BY <2>2, <2>3, <2>4, <2>6
<1>4. CASE line[1] # "section"
  <2>1. read' = [at |-> k + 1, secrets |-> read.secrets, name |-> read.name,
                 entry |-> IF read.name = "other" THEN read.entry
                           ELSE [read.entry EXCEPT ![line[1]] = line[2]]]
    BY <1>0, <1>4 DEF ParseToml, ReadLine, SecretTypes
  <2>2. line[1] \in Keys /\ read.entry \in Entries /\ read'.entry \in Entries
    <3>1. line[1] \in Keys /\ line[2] \in BOOLEAN \cup SUBSET SpecProfiles
      BY <1>0, <1>4, LineParts
    <3>2. read.entry \in Entries
      BY DEF SecretTypes
    <3>3. [read.entry EXCEPT ![line[1]] = line[2]] \in Entries
      BY <3>1, <3>2, Zenon DEF Entries
    <3>4. QED BY <2>1, <3>1, <3>2, <3>3
  <2>3. SecretTypes'
    <3> HIDE DEF Entries
    <3>1. read'.secrets = read.secrets /\ read'.name = read.name /\ read'.at = k + 1
          /\ read' = [at |-> k + 1, secrets |-> read.secrets, name |-> read.name, entry |-> read'.entry]
      BY <2>1
    <3>2. QED BY <1>0, <2>2, <3>1 DEF SecretTypes
  <2>4. Behind' = Append(text, line)
    BY <1>0, <1>1, <2>1 DEF Behind
  <2>5. IsPending(Behind, read.name)'
    BY <1>0, <1>1, <1>4, <2>1, <2>4, StillPending
  <2>6. DOMAIN Stored(read') = DOMAIN stored
    BY <2>1 DEF Stored
  <2>7. AreSaid(Append(text, line), Stored(read'))
    <3> SUFFICES ASSUME NEW n \in Names
                 PROVE  /\ n \in DOMAIN Stored(read') <=> Sections(Append(text, line), n) # {}
                        /\ n \in DOMAIN Stored(read') =>
                             \A key \in Keys :
                               Stored(read')[n][key] = Says(Append(text, line), n, key, Blank[key])
      BY DEF AreSaid
    <3>1. AreSaid(text, stored) /\ IsPending(text, read.name)
      OBVIOUS
    <3>2. CASE n = read.name
      <4>1. stored[n] = read.entry /\ Stored(read')[n] = [read.entry EXCEPT ![line[1]] = line[2]]
        BY <2>1, <3>2, SecretAssumption DEF Stored
      <4>2. \A key \in Keys : Stored(read')[n][key] = IF key = line[1] THEN line[2] ELSE stored[n][key]
        BY <2>2, <4>1, Zenon DEF Entries
      <4> HIDE DEF stored, text, line
      <4>3. line \in SpecLines /\ text \in Seq(SpecLines) /\ line[1] # "section"
        BY <1>0, <1>1, <1>4
      <4>4. Sections(Append(text, line), n) = Sections(text, n)
        BY <3>1, <4>3, KeyMore
      <4>5. \A key : Says(Append(text, line), n, key, Blank[key]) =
                       IF key = line[1] THEN line[2] ELSE Says(text, n, key, Blank[key])
        BY <3>1, <3>2, <4>3, KeyMore
      <4>6. QED BY <2>6, <3>1, <4>2, <4>4, <4>5 DEF AreSaid
    <3>3. CASE n # read.name
      <4>1. n \in DOMAIN stored => Stored(read')[n] = stored[n]
        BY <2>1, <3>3 DEF Stored
      <4> HIDE DEF stored, text, line
      <4>2. line \in SpecLines /\ text \in Seq(SpecLines) /\ line[1] # "section"
        BY <1>0, <1>1, <1>4
      <4>3. Sections(Append(text, line), n) = Sections(text, n)
        BY <3>1, <4>2, KeyMore
      <4>4. \A key : Says(Append(text, line), n, key, Blank[key]) = Says(text, n, key, Blank[key])
        BY <3>1, <3>3, <4>2, KeyMore
      <4>5. QED BY <2>6, <3>1, <4>1, <4>3, <4>4 DEF AreSaid
    <3>4. QED BY <3>2, <3>3
  <2>8. QED BY <2>3, <2>4, <2>5, <2>7
<1>5. QED BY <1>3, <1>4

\* What a check reports is what the sections of the whole file say, for every file and every
\* set of secrets (checkSecretspec after parseToml).
THEOREM ReportsFollowTheFile == SecretSpecification => []ReportIsOfSpec
<1>1. SecretInit => SecretInv
  BY UnreadFits DEF SecretInit, SecretInv, ReportIsOfSpec
<1>2. SecretInv /\ [SecretNext]_secretVars => SecretInv'
  <2> SUFFICES ASSUME SecretInv, [SecretNext]_secretVars PROVE SecretInv'
    OBVIOUS
  <2> USE DEF SecretInv
  <2>1. ASSUME UNCHANGED <<spec, report>> PROVE ReportIsOfSpec'
    BY <2>1 DEF ReportIsOfSpec
  <2>2. ASSUME UNCHANGED <<spec, read>>
        PROVE  SecretTypes' /\ IsPending(Behind, read.name)' /\ AreSaid(Behind, Stored(read))'
    BY <2>2 DEF SecretTypes, Behind
  <2>3. CASE UNCHANGED secretVars
    BY <2>1, <2>2, <2>3 DEF secretVars
  <2>4. CASE ParseToml
    BY <2>1, <2>4, ParseKeeps DEF ParseToml
  <2>5. ASSUME NEW line \in SpecLines, WriteLine(line) PROVE SecretInv'
    <3>1. (spec \in Seq(SpecLines))' /\ (read = Unread)' /\ (report = NoReport)'
      BY <2>5 DEF WriteLine, SecretTypes, Unread, Blank
    <3>2. SecretTypes' /\ IsPending(Behind, read.name)' /\ AreSaid(Behind, Stored(read))'
      BY <3>1, UnreadFits, PTL
    <3>3. QED BY <3>1, <3>2 DEF ReportIsOfSpec
  <2>6. ASSUME NEW profile \in SpecProfiles, NEW env \in SUBSET Names, Check(profile, env)
        PROVE  SecretInv'
    <3> DEFINE stored == Stored(read)
    <3>1. /\ read.at = Len(spec) /\ UNCHANGED <<spec, read>>
          /\ report' = [profile |-> profile, env |-> env, missing |-> MissingSecrets(stored, profile, env)]
      BY <2>6 DEF Check
    <3>2. DOMAIN stored \subseteq Names /\ AreSaid(spec, stored)
      <4>1. Behind = spec
        BY <3>1 DEF Behind, SecretTypes
      <4>2. QED BY <4>1, StoredFits
    <3> HIDE DEF stored
    <3>3. ASSUME NEW n \in Names
          PROVE  n \in MissingSecrets(stored, profile, env) <=>
                   /\ n \notin env
                   /\ Says(spec, n, "required", FALSE) /\ ~Says(spec, n, "default_dev", FALSE)
                   /\ profile \in Says(spec, n, "profiles", SpecProfiles)
                   /\ Says(spec, n, "ci_only", FALSE) => profile = "ci"
      <4>1. CASE n \in DOMAIN stored
        <5>1. /\ stored[n]["required"] = Says(spec, n, "required", Blank["required"])
              /\ stored[n]["ci_only"] = Says(spec, n, "ci_only", Blank["ci_only"])
              /\ stored[n]["default_dev"] = Says(spec, n, "default_dev", Blank["default_dev"])
              /\ stored[n]["profiles"] = Says(spec, n, "profiles", Blank["profiles"])
          BY <3>2, <3>3, <4>1 DEF AreSaid, Keys, Flags
        <5>2. /\ Blank["required"] = FALSE /\ Blank["ci_only"] = FALSE /\ Blank["default_dev"] = FALSE
              /\ Blank["profiles"] = SpecProfiles
          BY DEF Blank
        <5>3. /\ stored[n].required = Says(spec, n, "required", FALSE)
              /\ stored[n].ci_only = Says(spec, n, "ci_only", FALSE)
              /\ stored[n].default_dev = Says(spec, n, "default_dev", FALSE)
              /\ stored[n].profiles = Says(spec, n, "profiles", SpecProfiles)
          BY <5>1, <5>2
        <5>4. QED BY <4>1, <5>3 DEF MissingSecrets
      <4>2. CASE n \notin DOMAIN stored
        <5>1. Sections(spec, n) = {}
          BY <3>2, <3>3, <4>2 DEF AreSaid
        <5>2. Says(spec, n, "required", FALSE) = FALSE
          BY <5>1 DEF Says, Body
        <5>3. n \notin MissingSecrets(stored, profile, env)
          BY <4>2 DEF MissingSecrets
        <5>4. QED BY <5>2, <5>3
      <4>3. QED BY <4>1, <4>2
    <3>4. MissingSecrets(stored, profile, env) \subseteq Names
      BY <3>2 DEF MissingSecrets
    <3>5. ReportIsOfSpec'
      <4>1. /\ report'.profile = profile /\ report'.env = env
            /\ report'.missing = MissingSecrets(stored, profile, env)
        BY <3>1
      <4>2. spec' = spec
        BY <3>1
      <4>3. QED BY <3>3, <3>4, <4>1, <4>2 DEF ReportIsOfSpec
    <3>6. QED BY <2>2, <3>1, <3>5
  <2>7. QED BY <2>3, <2>4, <2>5, <2>6 DEF SecretNext
<1>3. QED BY <1>1, <1>2, PTL DEF SecretSpecification, SecretInv

-----------------------------------------------------------------------------
\* The configuration: what the calls of resolveYamlExtends have is layered already.

Trees == UNION {[S -> [kind : Kinds, by : ConfigFiles]] : S \in SUBSET LeafPaths}

FilesFit(files) ==
  /\ DOMAIN files \subseteq ConfigFiles
  /\ \A f \in DOMAIN files :
       LET leaves == files[f].leaves IN
       /\ files[f] \in [parents : Seq(ConfigFiles), leaves : [DOMAIN leaves -> Kinds]]
       /\ DOMAIN leaves \subseteq LeafPaths

\* A values is decided by the nearest file, along every chain of a file.
Layered(files, f, values) ==
  \A n \in Nat \ {0} : \A chain \in [1..n -> DOMAIN files] :
    IsChain(files, chain, f) => NearestWins(files, chain, values)

\* A call has nothing yet, or what its parents so far gave: of an only parent its layers.
FrameFits(files, frame) ==
  LET parents == files[frame.file].parents IN
  /\ frame \in [file : DOMAIN files, tree : Trees, next : 1..Len(parents) + 1]
  /\ frame.next = 1 => DOMAIN frame.tree = {}
  /\ \A e \in ConfigFiles : parents = <<e>> /\ frame.next = 2 => Layered(files, e, frame.tree)

\* A call was made for the next parent of the one before it.
CallsFit(files, stack) ==
  /\ stack \in Seq([file : ConfigFiles, tree : Trees, next : Nat])
  /\ \A i \in DOMAIN stack : FrameFits(files, stack[i])
  /\ \A i \in 2..Len(stack) :
       LET caller == stack[i - 1]
           parents == files[caller.file].parents
       IN caller.next <= Len(parents) /\ parents[caller.next] = stack[i].file

SettingsInv ==
  /\ FilesFit(yaml) /\ CallsFit(yaml, frames)
  /\ resolved.ok => Layered(yaml, resolved.file, resolved.tree)

\* A path stands beside nothing that it equals.
LEMMA ComparableItself == \A p \in LeafPaths : Comparable(p, p)
BY DEF Comparable, IsPrefix, LeafPaths

LEMMA LeavesFit ==
  ASSUME NEW files, FilesFit(files), NEW f \in DOMAIN files
  PROVE  Leaves(files, f) \in Trees /\ DOMAIN Leaves(files, f) = DOMAIN files[f].leaves
<1> DEFINE D == DOMAIN files[f].leaves
<1>1. D \subseteq LeafPaths /\ f \in ConfigFiles /\ files[f].leaves \in [D -> Kinds]
  BY DEF FilesFit
<1>2. Leaves(files, f) \in [D -> [kind : Kinds, by : ConfigFiles]]
  BY <1>1 DEF Leaves
<1>3. QED BY <1>1, <1>2 DEF Trees

\* What deepMerge makes of two trees.
LEMMA MergeFits ==
  ASSUME NEW a \in Trees, NEW b \in Trees
  PROVE  LET m == MergeTrees(a, b) IN
         /\ m \in Trees
         /\ \A p \in DOMAIN b : p \in DOMAIN m /\ m[p] = b[p]
         /\ \A p \in DOMAIN m \ DOMAIN b : /\ p \in DOMAIN a /\ m[p] = a[p]
                                           /\ \A r \in DOMAIN b : ~Comparable(p, r)
         /\ \A p \in DOMAIN a : (\A r \in DOMAIN b : ~Comparable(p, r)) => p \in DOMAIN m
<1> DEFINE kept == {q \in DOMAIN a : \A r \in DOMAIN b : ~Comparable(q, r)}
           m == MergeTrees(a, b)
           V == [kind : Kinds, by : ConfigFiles]
<1>1. PICK A \in SUBSET LeafPaths : a \in [A -> V]
  BY DEF Trees
<1>2. PICK B \in SUBSET LeafPaths : b \in [B -> V]
  BY DEF Trees
<1> HIDE DEF V
<1>3. m = [p \in kept \cup B |-> IF p \in B THEN b[p] ELSE a[p]] /\ DOMAIN b = B /\ DOMAIN a = A
  BY <1>1, <1>2 DEF MergeTrees
<1>4. m \in [kept \cup B -> V] /\ kept \cup B \in SUBSET LeafPaths
  BY <1>1, <1>2, <1>3
<1>5. m \in Trees
  BY <1>4 DEF Trees, V
<1>6. QED BY <1>3, <1>5

LEMMA MergeOntoNothing ==
  ASSUME NEW a \in Trees, NEW b \in Trees, DOMAIN a = {}
  PROVE  MergeTrees(a, b) = b
<1>1. PICK B : b \in [B -> [kind : Kinds, by : ConfigFiles]]
  BY DEF Trees
<1>2. MergeTrees(a, b) = [p \in B |-> b[p]]
  BY <1>1 DEF MergeTrees
<1>3. QED BY <1>1, <1>2

\* A file without parents is its own only layer.
LEMMA OneLayer ==
  ASSUME NEW files, FilesFit(files), NEW f \in DOMAIN files, files[f].parents = <<>>
  PROVE  Layered(files, f, Leaves(files, f))
<1> SUFFICES ASSUME NEW n \in Nat \ {0}, NEW chain \in [1..n -> DOMAIN files],
                    IsChain(files, chain, f)
             PROVE  NearestWins(files, chain, Leaves(files, f))
  BY DEF Layered
<1>1. Len(chain) = n /\ chain[1] = f
  BY DEF IsChain
<1>2. n = 1
  <2>1. ASSUME n # 1 PROVE FALSE
    <3>1. 1 \in 1..n - 1
      BY <2>1
    <3>2. files[f].parents = <<chain[1 + 1]>>
      BY <1>1, <3>1 DEF IsChain
    <3>3. Len(files[f].parents) = 1 /\ Len(<<>>) = 0
      BY <3>2
    <3>4. QED BY <3>3
  <2>2. QED BY <2>1
<1>3. \A p \in DOMAIN Leaves(files, f) : Comparable(p, p)
  BY LeavesFit, ComparableItself DEF FilesFit
<1>4. QED BY <1>1, <1>2, <1>3 DEF NearestWins

\* A file with one parent is a layer on those of its parent.
LEMMA MoreLayers ==
  ASSUME NEW files, FilesFit(files), NEW f \in DOMAIN files, NEW e, files[f].parents = <<e>>,
         NEW below \in Trees, Layered(files, e, below)
  PROVE  Layered(files, f, MergeTrees(below, Leaves(files, f)))
<1> DEFINE own == Leaves(files, f)
           values == MergeTrees(below, own)
<1> SUFFICES ASSUME NEW n \in Nat \ {0}, NEW chain \in [1..n -> DOMAIN files],
                    IsChain(files, chain, f)
             PROVE  NearestWins(files, chain, values)
  BY DEF Layered
<1> DEFINE rest == [i \in 1..n - 1 |-> chain[i + 1]]
           SaysAt(i, p) == \E q \in DOMAIN Leaves(files, chain[i]) : Comparable(p, q)
           SaysBelow(i, p) == \E q \in DOMAIN Leaves(files, rest[i]) : Comparable(p, q)
<1>1. chain[1] = f /\ Len(chain) = n /\ DOMAIN chain = 1..n
  BY DEF IsChain
<1>2. n > 1 /\ chain[2] = e
  BY <1>1 DEF IsChain
<1>3. IsChain(files, rest, e)
  BY <1>1, <1>2 DEF IsChain
<1>4. n - 1 \in Nat \ {0} /\ rest \in [1..n - 1 -> DOMAIN files]
  BY <1>2
<1>5. NearestWins(files, rest, below)
  BY <1>3, <1>4 DEF Layered
<1>6. /\ own \in Trees
      /\ \A p \in DOMAIN own : Comparable(p, p)
  BY LeavesFit, ComparableItself DEF FilesFit
<1>7. /\ \A p \in DOMAIN own : p \in DOMAIN values /\ values[p] = own[p]
      /\ \A p \in DOMAIN values \ DOMAIN own : /\ p \in DOMAIN below /\ values[p] = below[p]
                                               /\ ~SaysAt(1, p)
      /\ \A p \in DOMAIN below : ~SaysAt(1, p) => p \in DOMAIN values
  BY <1>1, <1>6, MergeFits
<1>8. \A i \in 1..n - 1 : \A p : SaysBelow(i, p) <=> SaysAt(i + 1, p)
  BY <1>2
<1>9. /\ \A p \in DOMAIN below : \E i \in 1..n - 1 :
           SaysBelow(i, p) /\ \A j \in 1..i - 1 : ~SaysBelow(j, p)
      /\ \A i \in 1..n - 1 : \A p \in DOMAIN below \cup DOMAIN Leaves(files, rest[i]) :
           SaysBelow(i, p) /\ (\A j \in 1..i - 1 : ~SaysBelow(j, p)) =>
             /\ p \in DOMAIN below \cap DOMAIN Leaves(files, rest[i])
             /\ below[p] = Leaves(files, rest[i])[p]
  BY <1>4, <1>5 DEF NearestWins
<1>10. ASSUME NEW p \in DOMAIN own PROVE SaysAt(1, p)
  BY <1>1, <1>6, <1>10
<1> HIDE DEF values, own, SaysAt, SaysBelow
<1>11. ASSUME NEW p \in DOMAIN values
       PROVE  \E i \in 1..n : SaysAt(i, p) /\ \A j \in 1..i - 1 : ~SaysAt(j, p)
  <2>1. CASE p \in DOMAIN own
    <3>1. SaysAt(1, p) /\ 1 \in 1..n /\ \A j \in 1..1 - 1 : FALSE
      BY <1>2, <1>10, <2>1
    <3>2. QED BY <3>1
  <2>2. CASE p \notin DOMAIN own
    <3>1. p \in DOMAIN below /\ ~SaysAt(1, p)
      BY <1>7, <1>11, <2>2
    <3>2. PICK i \in 1..n - 1 : SaysBelow(i, p) /\ \A j \in 1..i - 1 : ~SaysBelow(j, p)
      BY <1>9, <3>1
    <3>3. \A j \in 1..i : j = 1 \/ (j - 1 \in 1..i - 1 /\ j - 1 \in 1..n - 1 /\ j = j - 1 + 1)
      BY <1>2
    <3>4. \A j \in 1..i : ~SaysAt(j, p)
      BY <1>8, <3>1, <3>2, <3>3
    <3>5. i + 1 \in 1..n /\ i + 1 - 1 = i /\ SaysAt(i + 1, p)
      BY <1>2, <1>8, <3>2
    <3>6. QED BY <3>4, <3>5
  <2>3. QED BY <2>1, <2>2
<1>12. ASSUME NEW i \in 1..n, NEW p \in DOMAIN values \cup DOMAIN Leaves(files, chain[i]),
              SaysAt(i, p), \A j \in 1..i - 1 : ~SaysAt(j, p)
       PROVE  /\ p \in DOMAIN values \cap DOMAIN Leaves(files, chain[i])
              /\ values[p] = Leaves(files, chain[i])[p]
  <2>1. CASE i = 1
    <3>1. chain[i] = f
      BY <1>1, <2>1
    <3>2. p \in DOMAIN own
      BY <1>7, <1>12, <2>1, <3>1 DEF own
    <3>3. QED BY <1>7, <3>1, <3>2 DEF own
  <2>2. CASE i # 1
    <3>1. i - 1 \in 1..n - 1 /\ rest[i - 1] = chain[i] /\ ~SaysAt(1, p)
      BY <1>2, <1>12, <2>2
    <3>2. p \notin DOMAIN own
      BY <1>10, <3>1
    <3>3. p \in DOMAIN below \cup DOMAIN Leaves(files, rest[i - 1])
      BY <1>7, <1>12, <3>1, <3>2
    <3>4. SaysBelow(i - 1, p) /\ \A j \in 1..(i - 1) - 1 : ~SaysBelow(j, p)
      <4>1. i - 1 + 1 = i /\ \A j \in 1..(i - 1) - 1 : j \in 1..n - 1 /\ j + 1 \in 1..i - 1
        BY <3>1
      <4>2. QED BY <1>8, <1>12, <3>1, <4>1
    <3>5. p \in DOMAIN below \cap DOMAIN Leaves(files, rest[i - 1])
          /\ below[p] = Leaves(files, rest[i - 1])[p]
      BY <1>9, <3>1, <3>3, <3>4
    <3>6. p \in DOMAIN values /\ values[p] = below[p]
      BY <1>7, <3>1, <3>2, <3>5
    <3>7. QED BY <3>1, <3>5, <3>6
  <2>3. QED BY <2>1, <2>2
<1>13. QED BY <1>1, <1>11, <1>12 DEF NearestWins, SaysAt, values

\* What a call returns is layered, whatever its parents are: with two there is no chain.
LEMMA ReturnsLayers ==
  ASSUME NEW files, FilesFit(files), NEW frame, FrameFits(files, frame),
         frame.next > Len(files[frame.file].parents)
  PROVE  LET values == MergeTrees(frame.tree, Leaves(files, frame.file)) IN
         values \in Trees /\ Layered(files, frame.file, values)
<1> DEFINE f == frame.file
           parents == files[f].parents
           own == Leaves(files, f)
           values == MergeTrees(frame.tree, own)
<1>1. /\ f \in DOMAIN files /\ frame.tree \in Trees /\ parents \in Seq(ConfigFiles)
      /\ frame.next \in 1..Len(parents) + 1
  BY DEF FrameFits, FilesFit
<1>2. own \in Trees /\ values \in Trees
  BY <1>1, LeavesFit, MergeFits
<1>3. CASE parents = <<>>
  <2>1. frame.next = 1
    BY <1>1, <1>3
  <2>2. values = own
    BY <1>1, <1>2, <2>1, MergeOntoNothing DEF FrameFits
  <2>3. QED BY <1>1, <1>2, <1>3, <2>2, OneLayer
<1>4. CASE \E e \in ConfigFiles : parents = <<e>>
  <2>1. PICK e \in ConfigFiles : parents = <<e>>
    BY <1>4
  <2>2. frame.next = 2
    BY <1>1, <2>1
  <2>3. Layered(files, e, frame.tree)
    BY <2>1, <2>2 DEF FrameFits
  <2>4. QED BY <1>1, <1>2, <2>1, <2>3, MoreLayers
<1>5. CASE parents # <<>> /\ \A e \in ConfigFiles : parents # <<e>>
  <2>1. ASSUME NEW n \in Nat \ {0}, NEW chain \in [1..n -> DOMAIN files], IsChain(files, chain, f)
        PROVE  FALSE
    <3>1. Len(chain) = n /\ chain[1] = f
      BY <2>1 DEF IsChain
    <3>2. CASE n = 1
      BY <1>5, <2>1, <3>1, <3>2 DEF IsChain
    <3>3. CASE n > 1
      <4>1. parents = <<chain[2]>> /\ chain[2] \in ConfigFiles
        BY <2>1, <3>1, <3>3 DEF IsChain, FilesFit
      <4>2. QED BY <1>5, <4>1
    <3>4. QED BY <3>2, <3>3
  <2>2. Layered(files, f, values)
    BY <2>1 DEF Layered
  <2>3. QED BY <1>2, <2>2
<1>6. QED BY <1>3, <1>4, <1>5

\* A call for a file begins with nothing.
LEMMA FrameBegins ==
  ASSUME NEW files, FilesFit(files), NEW f \in DOMAIN files
  PROVE  FrameFits(files, Frame(f)) /\ Frame(f) \in [file : ConfigFiles, tree : Trees, next : Nat]
<1> DEFINE none == [p \in {} |-> "none"]
           parents == files[f].parents
<1>1. none \in Trees
  <2>1. none \in [{} -> [kind : Kinds, by : ConfigFiles]] /\ {} \in SUBSET LeafPaths
    BY Zenon
  <2>2. QED BY <2>1 DEF Trees
<1>2. DOMAIN none = {}
  OBVIOUS
<1> HIDE DEF none
<1>3. Frame(f) = [file |-> f, tree |-> none, next |-> 1]
  BY DEF Frame, none
<1>4. 1 \in 1..Len(parents) + 1 /\ f \in ConfigFiles
  <2>1. parents \in Seq(ConfigFiles) /\ f \in ConfigFiles
    BY DEF FilesFit
  <2>2. QED BY <2>1
<1>5. QED BY <1>1, <1>2, <1>3, <1>4 DEF FrameFits

CallRecord == [file : ConfigFiles, tree : Trees, next : Nat]

\* A call more, and the first of the calls.
LEMMA CallMore ==
  ASSUME NEW files, NEW stack, CallsFit(files, stack), NEW frame \in CallRecord, FrameFits(files, frame),
         stack # <<>> => LET caller == stack[Len(stack)]
                             parents == files[caller.file].parents
                         IN caller.next <= Len(parents) /\ parents[caller.next] = frame.file
  PROVE  CallsFit(files, Append(stack, frame))
<1> DEFINE n == Len(stack)
           more == Append(stack, frame)
<1>1. stack \in Seq(CallRecord) /\ \A i \in DOMAIN stack : FrameFits(files, stack[i])
  BY DEF CallsFit, CallRecord
<1>2. /\ n \in Nat /\ DOMAIN stack = 1..n /\ DOMAIN more = 1..n + 1 /\ Len(more) = n + 1
      /\ \A i \in 1..n : more[i] = stack[i]
      /\ more[n + 1] = frame /\ more \in Seq(CallRecord)
  BY <1>1, MoreText
<1>3. n > 0 => stack # <<>>
  BY <1>1
<1> HIDE DEF n, more
<1>4. ASSUME NEW i \in 2..n + 1
      PROVE  LET caller == more[i - 1]
                 parents == files[caller.file].parents
             IN caller.next <= Len(parents) /\ parents[caller.next] = more[i].file
  <2>1. CASE i \in 2..n
    <3>1. more[i - 1] = stack[i - 1] /\ more[i] = stack[i]
      BY <1>2, <2>1
    <3>2. QED BY <2>1, <3>1 DEF CallsFit, n
  <2>2. CASE i = n + 1
    <3>1. n \in 1..n /\ n > 0
      BY <1>2, <1>4, <2>2
    <3>2. more[i - 1] = stack[n] /\ more[i] = frame /\ stack # <<>>
      BY <1>2, <1>3, <2>2, <3>1
    <3>3. QED BY <3>2 DEF n
  <2>3. QED BY <1>2, <2>1, <2>2
<1>5. ASSUME NEW i \in 1..n + 1 PROVE FrameFits(files, more[i])
  <2>1. i \in 1..n \/ i = n + 1
    BY <1>2
  <2>2. QED BY <1>1, <1>2, <2>1
<1>6. QED BY <1>2, <1>4, <1>5 DEF CallsFit, CallRecord, more

LEMMA FirstCalls ==
  ASSUME NEW files, NEW stack, CallsFit(files, stack), NEW k \in 0..Len(stack)
  PROVE  /\ CallsFit(files, SubSeq(stack, 1, k))
         /\ Len(SubSeq(stack, 1, k)) = k
         /\ \A i \in 1..k : SubSeq(stack, 1, k)[i] = stack[i]
<1> DEFINE first == SubSeq(stack, 1, k)
<1>1. stack \in Seq(CallRecord) /\ \A i \in DOMAIN stack : FrameFits(files, stack[i])
  BY DEF CallsFit, CallRecord
<1>2. /\ k \in Nat /\ 1..k \subseteq DOMAIN stack /\ 2..k \subseteq 2..Len(stack)
      /\ first \in Seq(CallRecord) /\ Len(first) = k /\ DOMAIN first = 1..k
      /\ \A i \in 1..k : first[i] = stack[i]
  BY <1>1
<1> HIDE DEF first
<1>3. ASSUME NEW i \in 2..k
      PROVE  LET caller == first[i - 1]
                 parents == files[caller.file].parents
             IN caller.next <= Len(parents) /\ parents[caller.next] = first[i].file
  <2>1. first[i - 1] = stack[i - 1] /\ first[i] = stack[i]
    BY <1>2
  <2>2. QED BY <1>2, <2>1 DEF CallsFit
<1>4. CallsFit(files, first)
  BY <1>1, <1>2, <1>3 DEF CallsFit, CallRecord
<1>5. QED BY <1>2, <1>4 DEF first

LEMMA NoCalls == \A files : CallsFit(files, <<>>)
<1>1. <<>> \in Seq(CallRecord) /\ Len(<<>>) = 0 /\ DOMAIN <<>> = {}
  OBVIOUS
<1>2. QED BY <1>1 DEF CallsFit, CallRecord

\* A caller is given what an only parent returned as its layers.
LEMMA GivenFits ==
  ASSUME NEW files, FilesFit(files), NEW frame, FrameFits(files, frame),
         NEW values \in Trees, NEW f, Layered(files, f, values),
         frame.next <= Len(files[frame.file].parents), files[frame.file].parents[frame.next] = f
  PROVE  FrameFits(files, Given(frame, values)) /\ Given(frame, values) \in CallRecord
<1> DEFINE parents == files[frame.file].parents
           given == Given(frame, values)
           merged == MergeTrees(frame.tree, values)
           N == 1..Len(parents) + 1
<1>1. frame \in [file : DOMAIN files, tree : Trees, next : N]
  BY DEF FrameFits
<1>2. given = [file |-> frame.file, tree |-> merged, next |-> frame.next + 1]
  BY DEF Given
<1>3. /\ frame.file \in DOMAIN files /\ frame.file \in ConfigFiles /\ parents \in Seq(ConfigFiles)
      /\ frame.next \in N /\ frame.next + 1 \in N /\ frame.next + 1 \in Nat
  BY <1>1 DEF FilesFit
<1>4. merged \in Trees
  BY <1>1, MergeFits
<1>5. ASSUME NEW e \in ConfigFiles, parents = <<e>>, given.next = 2
      PROVE  Layered(files, e, given.tree)
  <2>1. frame.next = 1 /\ e = f
    BY <1>2, <1>3, <1>5
  <2>2. merged = values
    BY <1>1, <2>1, MergeOntoNothing DEF FrameFits
  <2>3. QED BY <1>2, <2>1, <2>2
<1> HIDE DEF given, merged, N
<1>6. given.file = frame.file /\ given.next # 1
  BY <1>2, <1>3 DEF N
<1>7. given \in CallRecord /\ given \in [file : DOMAIN files, tree : Trees, next : N]
  BY <1>2, <1>3, <1>4 DEF CallRecord
<1>8. QED BY <1>5, <1>6, <1>7 DEF FrameFits, given, N

\* A step of the calls keeps what is known of them.
LEMMA ResolveKeeps ==
  ASSUME SettingsInv, ResolveParent \/ ResolveReturn
  PROVE  CallsFit(yaml, frames') /\ (resolved'.ok => Layered(yaml, resolved'.file, resolved'.tree))
<1> DEFINE n == Len(frames)
           this == frames[n]
           parents == yaml[this.file].parents
<1>1. FilesFit(yaml) /\ CallsFit(yaml, frames) /\ frames # <<>>
  BY DEF SettingsInv, ResolveParent, ResolveReturn
<1>2. n \in Nat \ {0} /\ n \in 1..n /\ \A i \in 1..n : FrameFits(yaml, frames[i])
  <2>1. frames \in Seq(CallRecord) /\ \A i \in DOMAIN frames : FrameFits(yaml, frames[i])
    BY <1>1 DEF CallsFit, CallRecord
  <2>2. QED BY <1>1, <2>1
<1>3. FrameFits(yaml, this)
  BY <1>2
<1>4. CASE ResolveParent
  <2> DEFINE e == parents[this.next]
  <2>1. this.next <= Len(parents) /\ Enter(e, frames)
    BY <1>4 DEF ResolveParent
  <2>2. CASE frames' = <<>> /\ resolved' = Threw
    BY <2>2, NoCalls DEF Threw
  <2>3. CASE e \in DOMAIN yaml /\ frames' = Append(frames, Frame(e)) /\ resolved' = NotResolved
    <3>1. FrameFits(yaml, Frame(e)) /\ Frame(e) \in CallRecord /\ Frame(e).file = e
      BY <1>1, <2>3, FrameBegins DEF Frame, CallRecord
    <3>2. CallsFit(yaml, Append(frames, Frame(e)))
      BY <1>1, <2>1, <3>1, CallMore
    <3>3. QED BY <2>3, <3>2 DEF NotResolved
  <2>4. QED BY <2>1, <2>2, <2>3 DEF Enter
<1>5. CASE ResolveReturn
  <2> DEFINE values == MergeTrees(this.tree, Leaves(yaml, this.file))
  <2>1. /\ this.next > Len(parents)
        /\ IF n = 1
             THEN frames' = <<>> /\ resolved' = [ok |-> TRUE, file |-> this.file, tree |-> values]
             ELSE /\ frames' = Append(SubSeq(frames, 1, n - 2), Given(frames[n - 1], values))
                  /\ resolved' = resolved
    BY <1>5 DEF ResolveReturn
  <2>2. values \in Trees /\ Layered(yaml, this.file, values)
    BY <1>1, <1>3, <2>1, ReturnsLayers
  <2> HIDE DEF values
  <2>3. CASE n = 1
    BY <2>1, <2>2, <2>3, NoCalls
  <2>4. CASE n # 1
    <3> DEFINE caller == frames[n - 1]
               first == SubSeq(frames, 1, n - 2)
    <3>1. n - 1 \in 1..n /\ n \in 2..n /\ n - 2 \in 0..n
      <4>1. n \in Nat \ {0} /\ n # 1
        BY <1>2, <2>4
      <4> HIDE DEF n
      <4>2. QED BY <4>1
    <3>2. /\ FrameFits(yaml, caller)
          /\ caller.next <= Len(yaml[caller.file].parents)
          /\ yaml[caller.file].parents[caller.next] = this.file
      BY <1>1, <1>2, <3>1 DEF CallsFit
    <3>3. FrameFits(yaml, Given(caller, values)) /\ Given(caller, values) \in CallRecord
      BY <1>1, <2>2, <3>2, GivenFits
    <3>4. Given(caller, values).file = caller.file
      BY <3>2 DEF Given, FrameFits
    <3>5. CallsFit(yaml, first) /\ Len(first) = n - 2 /\ \A i \in 1..n - 2 : first[i] = frames[i]
      BY <1>1, <3>1, FirstCalls
    <3>6. first # <<>> => LET before == first[Len(first)]
                              before_parents == yaml[before.file].parents
                          IN before.next <= Len(before_parents) /\ before_parents[before.next] = caller.file
      <4> SUFFICES ASSUME first # <<>>
                   PROVE  LET before == first[Len(first)]
                              before_parents == yaml[before.file].parents
                          IN before.next <= Len(before_parents) /\ before_parents[before.next] = caller.file
        OBVIOUS
      <4>1. first \in Seq(CallRecord)
        BY <3>5 DEF CallsFit, CallRecord
      <4>2. n - 2 \in 1..n - 2 /\ n - 1 \in 2..n /\ n - 2 = n - 1 - 1
        BY <1>2, <3>1, <3>5, <4>1
      <4>3. first[Len(first)] = frames[n - 1 - 1]
        BY <3>5, <4>2
      <4>4. QED BY <1>1, <4>2, <4>3 DEF CallsFit
    <3>7. CallsFit(yaml, Append(first, Given(caller, values)))
      <4> HIDE DEF first, caller
      <4>1. QED BY <3>3, <3>4, <3>5, <3>6, CallMore
    <3>8. QED BY <2>1, <2>4, <3>7 DEF SettingsInv
  <2>5. QED BY <2>3, <2>4
<1>6. QED BY <1>4, <1>5

\* An edit leaves files.
LEMMA EditsFit ==
  ASSUME FilesFit(yaml), NEW f \in ConfigFiles, EditLeaf(f) \/ EditParents(f)
  PROVE  FilesFit(yaml')
<1>1. /\ f \in DOMAIN yaml /\ DOMAIN yaml' = DOMAIN yaml
      /\ \A g \in DOMAIN yaml \ {f} : yaml'[g] = yaml[g]
  BY DEF EditLeaf, EditParents
<1>2. /\ yaml[f] \in [parents : Seq(ConfigFiles), leaves : [DOMAIN yaml[f].leaves -> Kinds]]
      /\ DOMAIN yaml[f].leaves \subseteq LeafPaths
  BY <1>1 DEF FilesFit
<1>3. SUFFICES /\ yaml'[f] \in [parents : Seq(ConfigFiles), leaves : [DOMAIN yaml'[f].leaves -> Kinds]]
               /\ DOMAIN yaml'[f].leaves \subseteq LeafPaths
  BY <1>1 DEF FilesFit
<1>4. CASE EditLeaf(f)
  <2> DEFINE old == yaml[f].leaves
             rest(p) == {q \in DOMAIN old : ~Comparable(p, q)}
             written(p, kind) == IF kind = "none" THEN {} ELSE {p}
  <2>1. PICK p \in EditPaths, kind \in Kinds \cup {"none"} :
          yaml' = [yaml EXCEPT ![f].leaves =
                     [q \in rest(p) \cup written(p, kind) |-> IF q = p THEN kind ELSE old[q]]]
    BY <1>4 DEF EditLeaf
  <2> DEFINE D == rest(p) \cup written(p, kind)
             new == [q \in D |-> IF q = p THEN kind ELSE old[q]]
  <2>2. yaml'[f] = [yaml[f] EXCEPT !.leaves = new]
    BY <1>1, <2>1
  <2>3. p \in LeafPaths
    BY SettingsAssumption
  <2>4. D \subseteq LeafPaths
    BY <1>2, <2>3
  <2>5. \A q \in D : (IF q = p THEN kind ELSE old[q]) \in Kinds
    <3> TAKE q \in D
    <3>1. CASE q = p
      <4>1. q \in rest(p) => Comparable(p, q)
        BY <2>3, <3>1, ComparableItself
      <4>2. kind # "none"
        BY <3>1, <4>1
      <4>3. QED BY <3>1, <4>2
    <3>2. CASE q # p
      BY <1>2, <3>2
    <3>3. QED BY <3>1, <3>2
  <2>6. new \in [D -> Kinds]
    <3> HIDE DEF D, Kinds
    <3>1. QED BY <2>5
  <2> HIDE DEF new, D
  <2>7. yaml'[f] = [parents |-> yaml[f].parents, leaves |-> new] /\ DOMAIN new = D
    BY <1>2, <2>2, <2>6
  <2>8. QED BY <1>2, <2>4, <2>6, <2>7
<1>5. CASE EditParents(f)
  <2>1. PICK list \in Parents : yaml' = [yaml EXCEPT ![f].parents = list]
    BY <1>5 DEF EditParents
  <2>2. yaml'[f] = [parents |-> list, leaves |-> yaml[f].leaves] /\ list \in Seq(ConfigFiles)
    BY <1>1, <1>2, <2>1, SettingsAssumption
  <2>3. QED BY <1>2, <2>2
<1>6. QED BY <1>4, <1>5

\* Whatever is loaded, along every chain of files of any length, the nearest file that says
\* anything of a leaf decides it (resolveYamlExtends and deepMerge).
THEOREM NearestFileDecides == SettingsSpec => []NearestFileWins
<1>1. SettingsInit => SettingsInv
  <2> SUFFICES ASSUME SettingsInit PROVE SettingsInv
    OBVIOUS
  <2>1. FilesFit(yaml)
    BY SettingsAssumption DEF SettingsInit, FilesFit
  <2>2. CallsFit(yaml, <<>>)
    BY NoCalls
  <2>3. QED BY <2>1, <2>2 DEF SettingsInit, SettingsInv, NotResolved
<1>2. SettingsInv /\ [SettingsNext]_settingsVars => SettingsInv'
  <2> SUFFICES ASSUME SettingsInv, [SettingsNext]_settingsVars PROVE SettingsInv'
    OBVIOUS
  <2>1. ASSUME UNCHANGED <<yaml, frames, resolved>> PROVE SettingsInv'
    BY <2>1 DEF SettingsInv
  <2>2. CASE ResolveParent \/ ResolveReturn
    <3>1. yaml' = yaml
      BY <2>2 DEF ResolveParent, ResolveReturn
    <3>2. QED BY <2>2, <3>1, ResolveKeeps DEF SettingsInv
  <2>3. CASE EnvValidate(LoadEnv) \/ EnvShow(LoadEnv) \/ \E allow \in BOOLEAN : EnvRender(LoadEnv, allow)
    <3>1. Loaded
      BY <2>3 DEF EnvValidate, EnvShow, EnvRender
    <3>2. QED BY <2>1, <3>1 DEF Loaded
  <2>4. ASSUME NEW f \in ConfigFiles, StartLoad(f) PROVE SettingsInv'
    <3>1. yaml' = yaml /\ frames = <<>> /\ ~resolved'.ok
      BY <2>4 DEF StartLoad, Enter, NotResolved, Threw
    <3>2. CASE frames' = <<>>
      BY <3>1, <3>2 DEF SettingsInv
    <3>3. CASE f \in DOMAIN yaml /\ frames' = Append(<<>>, Frame(f))
      <4>1. FrameFits(yaml, Frame(f)) /\ Frame(f) \in CallRecord
        BY <3>3, FrameBegins DEF SettingsInv, CallRecord
      <4>2. CallsFit(yaml, frames')
        BY <3>3, <4>1, NoCalls, CallMore
      <4>3. QED BY <3>1, <4>2 DEF SettingsInv
    <3>4. QED BY <2>4, <3>1, <3>2, <3>3 DEF StartLoad, Enter
  <2>5. ASSUME NEW f \in ConfigFiles, EditLeaf(f) \/ EditParents(f) \/ SetVariable(f)
        PROVE  SettingsInv'
    <3>1. Edited
      BY <2>5 DEF EditLeaf, EditParents, SetVariable
    <3>2. frames' = <<>> /\ ~resolved'.ok
      BY <3>1 DEF Edited, NotResolved
    <3>3. FilesFit(yaml')
      BY <2>5, EditsFit DEF SettingsInv, SetVariable
    <3>4. CallsFit(yaml', <<>>)
      BY NoCalls
    <3>5. QED BY <3>2, <3>3, <3>4 DEF SettingsInv
  <2>6. CASE UNCHANGED settingsVars
    BY <2>1, <2>6 DEF settingsVars
  <2>7. QED BY <2>2, <2>3, <2>4, <2>5, <2>6 DEF SettingsNext
<1>3. SettingsInv => NearestFileWins
  BY DEF SettingsInv, Layered, NearestFileWins
<1>4. QED BY <1>1, <1>2, <1>3, PTL DEF SettingsSpec

-----------------------------------------------------------------------------
\* The .env file.

\* Fields have as many keys as there are of them.
LEMMA OneKeyEach ==
  ASSUME NEW fields \in SUBSET SchemaFields
  PROVE  Cardinality({EnvKey(p) : p \in fields}) = Cardinality(fields)
<1> DEFINE keys == {EnvKey(p) : p \in fields}
           key == [p \in fields |-> EnvKey(p)]
<1>1. IsFiniteSet(fields)
  BY KeysDiffer, FS_Subset
<1>2. \A p, q \in fields : EnvKey(p) = EnvKey(q) => p = q
  BY KeysDiffer
<1>3. key \in Bijection(fields, keys)
  BY <1>2 DEF Bijection, Injection, Surjection, IsInjective
<1>4. ExistsBijection(fields, keys)
  BY <1>3 DEF ExistsBijection
<1>5. QED BY <1>1, <1>4, FS_Bijection

\* Whatever the files and the variables are, a file that was rendered is whole (loadEnv, render
\* and flattenToEnv).
THEOREM RenderedFilesAreWhole == SettingsSpec => []RenderedIsWhole
<1>1. SettingsInit => RenderedIsWhole
  BY DEF SettingsInit, RenderedIsWhole
<1>2. RenderedIsWhole /\ [SettingsNext]_settingsVars => RenderedIsWhole'
  <2> SUFFICES ASSUME RenderedIsWhole, [SettingsNext]_settingsVars PROVE RenderedIsWhole'
    OBVIOUS
  <2>1. ASSUME UNCHANGED rendered PROVE RenderedIsWhole'
    BY <2>1 DEF RenderedIsWhole
  <2>2. ASSUME NEW allow \in BOOLEAN, EnvRender(LoadEnv, allow), rendered' # rendered
        PROVE  RenderedIsWhole'
    <3> DEFINE loaded == LoadEnv
               values == resolved.tree
               objects == Objects(values)
               fields == Parsed(values, objects)
    <3>1. /\ loaded.ok /\ loaded.missing = {} /\ (loaded.secrets = {} \/ allow)
          /\ rendered' = [file |-> resolved.file, allow |-> allow, fields |-> loaded.fields,
                          secrets |-> loaded.secrets, holes |-> Holes(loaded.tree) \cap loaded.fields,
                          keys |-> {EnvKey(p) : p \in loaded.fields \ loaded.secrets}]
      BY <2>2 DEF EnvRender, MayRender
    <3>2. loaded.tree = values /\ loaded.fields = fields /\ loaded.missing = Missing(values)
      BY <3>1 DEF LoadEnv
    <3>3. Holes(values) = {}
      BY <3>1, <3>2 DEF Missing
    <3>4. fields \subseteq SchemaFields
      BY DEF Parsed, SchemaFields
    <3> HIDE DEF loaded, values, fields
    <3>5. Cardinality({EnvKey(p) : p \in loaded.fields \ loaded.secrets})
            = Cardinality(loaded.fields \ loaded.secrets)
      BY <3>2, <3>4, OneKeyEach
    <3>6. QED BY <3>1, <3>2, <3>3, <3>5 DEF RenderedIsWhole
  <2>3. QED BY <2>1, <2>2 DEF SettingsNext, settingsVars, ResolveParent, ResolveReturn, EnvValidate,
             EnvShow, StartLoad, EditLeaf, EditParents, SetVariable, Edited
<1>3. QED BY <1>1, <1>2, PTL DEF SettingsSpec
=============================================================================
