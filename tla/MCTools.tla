------------------------------ MODULE MCTools ------------------------------
(***************************************************************************)
(* The recommender, the MCP server's tools and the launcher: its commands  *)
(* that run programs, those that write the working tree, those that load   *)
(* the configuration and the check of secrets.  They share no state that   *)
(* one of them writes and another reads, so each behaviour exercises one   *)
(* of them, the scene.                                                     *)
(***************************************************************************)
EXTENDS Recommender, AgentTools, TaskRunner, Workspace, Settings, SecretSpec

VARIABLE scene

\* The configuration as the repository lays it out: a base, an environment with
\* references and a pointer to a secret, and a tenant.
MCShipped ==
  [base |-> [parents |-> <<>>,
             leaves |-> <<"app", "name">> :> "text" @@ <<"app", "env">> :> "text"
                          @@ <<"database", "host">> :> "text" @@ <<"database", "user">> :> "text"
                          @@ <<"database", "database">> :> "text"],
   prod |-> [parents |-> <<"base">>,
             leaves |-> <<"app", "env">> :> "text" @@ <<"database", "host">> :> "var"
                          @@ <<"database", "password", "provider">> :> "text"
                          @@ <<"database", "password", "path">> :> "text"
                          @@ <<"kafka", "bootstrapServers">> :> "mixed"],
   acme |-> [parents |-> <<"prod">>,
             leaves |-> <<"app", "name">> :> "text" @@ <<"features", "unleash", "url">> :> "text"
                          @@ <<"features", "unleash", "apiKey">> :> "text"]]

\* A block, a field of it, a secret as text and as a pointer, and a field that takes any
\* text, in a block with a default.
MCEditPaths ==
  {<<"database">>, <<"database", "host">>, <<"database", "password">>,
   <<"database", "password", "path">>, <<"kafka", "security", "saslUsername">>}

\* No parent, a chain, a file that is its own ancestor, and two parents with one ancestor.
MCParents == {<<>>, <<"base">>, <<"prod">>, <<"base", "prod">>}

\* Two secrets and a section of another kind, every key, a list broken over two lines.
MCSpecLines ==
  {<<"section", "A">>, <<"section", "B">>, <<"section", "other">>,
   <<"required", TRUE>>, <<"required", FALSE>>, <<"ci_only", TRUE>>, <<"default_dev", TRUE>>,
   <<"profiles", {"p-solo"}>>, <<"profiles", {}>>}

\* Of a component that is not the scene, one initial state is enough.
ToolsInit ==
  /\ scene \in {"advice", "agent", "tasks", "tree", "config", "secrets"}
  /\ Init /\ (scene # "advice" => /\ answers.env_count = 1 /\ answers.team_size = "1"
                                  /\ answers.compliance_floor = "none"
                                  /\ answers.target_budget_usd = 0)
  /\ AgentInit /\ (scene # "agent" => data = "own")
  /\ TaskInit /\ (scene # "tasks" => missing = {})
  /\ WorkspaceInit /\ (scene # "tree" => broken = {})
  /\ SettingsInit /\ (scene # "config" => defined = {})
  /\ SecretInit

toolsVars == <<scene, vars, agentVars, taskVars, workspaceVars, settingsVars, secretVars>>

\* A step of one component, in its scene.
ToolsNext ==
  /\ UNCHANGED scene
  /\ \/ /\ scene = "advice" /\ Next
        /\ UNCHANGED <<agentVars, taskVars, workspaceVars, settingsVars, secretVars>>
     \/ /\ scene = "agent" /\ AgentNext
        /\ UNCHANGED <<vars, taskVars, workspaceVars, settingsVars, secretVars>>
     \/ /\ scene = "tasks" /\ TaskNext
        /\ UNCHANGED <<vars, agentVars, workspaceVars, settingsVars, secretVars>>
     \/ /\ scene = "tree" /\ WorkspaceNext
        /\ UNCHANGED <<vars, agentVars, taskVars, settingsVars, secretVars>>
     \/ /\ scene = "config" /\ SettingsNext
        /\ UNCHANGED <<vars, agentVars, taskVars, workspaceVars, secretVars>>
     \/ /\ scene = "secrets" /\ SecretNext
        /\ UNCHANGED <<vars, agentVars, taskVars, workspaceVars, settingsVars>>

ToolsSpec == ToolsInit /\ [][ToolsNext]_toolsVars
=============================================================================
