------------------------------ MODULE Settings ------------------------------
(***************************************************************************)
(* The layered configuration of the launcher (config/schema.ts and, in     *)
(* internal/cli, `repo env` validate, show and render): YAML files that    *)
(* extend one another, ${VAR} references, pointers to secrets, the schema, *)
(* and the flat .env file.  Between commands the user edits the files and  *)
(* sets variables.                                                         *)
(*                                                                         *)
(* A tree is a function from the paths of its leaves; a list is one leaf,  *)
(* and so is what stands where a block should be.  A value is "text" the   *)
(* schema takes, "bad" text it refuses, "var", a reference to the variable *)
(* of the file it stands in, or "mixed", text around such a reference.     *)
(***************************************************************************)
EXTENDS Naturals, Sequences, FiniteSets, SequencesExt, TLC

CONSTANTS
  ConfigFiles,   \* the YAML files there may be
  ShippedConfig, \* file -> what it says at first: its parents and its leaves
  EditPaths,     \* the paths of leaves the user edits
  Parents,       \* what the user may write under $extends: lists of files
  MaxConfigEdits \* bound: edits of a file or a variable

Kinds == {"text", "bad", "var", "mixed"}
LeafPaths == Seq(STRING)

ASSUME SettingsAssumption ==
  /\ EditPaths \subseteq LeafPaths /\ Parents \subseteq Seq(ConfigFiles) /\ MaxConfigEdits \in Nat
  /\ DOMAIN ShippedConfig \subseteq ConfigFiles
  /\ \A f \in DOMAIN ShippedConfig :
       LET leaves == ShippedConfig[f].leaves IN
       /\ ShippedConfig[f] \in [parents : Seq(ConfigFiles), leaves : [DOMAIN leaves -> Kinds]]
       /\ DOMAIN leaves \subseteq LeafPaths

VARIABLES
  yaml,      \* file -> [parents, leaves], for the files that exist
  defined,   \* the files whose variable is set
  frames,    \* the calls of resolveYamlExtends under way, each made by the one before it
  resolved,  \* what the first of them ended with, or nothing
  status,    \* what the last command ended with
  rendered,  \* the last .env file: what it was made from and its keys, or none
  configEdits

settingsVars == <<yaml, defined, frames, resolved, status, rendered, configEdits>>

NoEnvFile == [file |-> "none"]
NotResolved == [ok |-> FALSE, ended |-> FALSE]
Threw == [ok |-> FALSE, ended |-> TRUE]

-----------------------------------------------------------------------------
\* AppConfigSchema

\* A block: the fields it must have, those with a default and the others; of these the
\* ones that take any text, and the ones that take a pointer to a secret.
Block(must, default, may, loose, secret) ==
  [must |-> must, default |-> default, may |-> may, loose |-> loose, secret |-> secret]

AppBlock == <<"app">> :> Block({"name", "env"}, {"version", "port", "logLevel"}, {}, {}, {})
DatabaseBlock ==
  <<"database">> :> Block({"host", "user", "database"}, {"port", "schema", "ssl", "poolMax"},
                          {"password"}, {}, {"password"})
RedisBlock == <<"redis">> :> Block({"host"}, {"port", "cluster", "nodes"}, {"password"}, {}, {"password"})
KafkaBlocks ==
  <<"kafka">> :> Block({"bootstrapServers"}, {"clientId"}, {}, {}, {})
    @@ <<"kafka", "security">> :> Block({}, {"protocol"}, {"saslMechanism", "saslUsername", "saslPassword"},
                                        {"saslUsername", "saslPassword"}, {"saslPassword"})
    @@ <<"kafka", "schemaRegistry">> :> Block({"url"}, {}, {}, {}, {})
    @@ <<"kafka", "schemaRegistry", "auth">> :> Block({"username", "password"}, {}, {},
                                                      {"username", "password"}, {"password"})
TemporalBlock == <<"temporal">> :> Block({}, {"address", "namespace", "taskQueue", "tls"}, {}, {}, {})
ObservabilityBlocks ==
  <<"observability">> :> Block({}, {}, {}, {}, {})
    @@ <<"observability", "otel">> :> Block({}, {"enabled", "exporter"}, {"endpoint", "serviceName"},
                                            {"serviceName"}, {})
    @@ <<"observability", "signoz">> :> Block({}, {}, {"endpoint", "ingestionKey"},
                                              {"ingestionKey"}, {"ingestionKey"})
AuthBlock ==
  <<"auth">> :> Block({"issuer", "audience"}, {}, {"jwksUri", "clientId", "clientSecret"},
                      {"clientSecret"}, {"clientSecret"})
TenancyBlock == <<"tenancy">> :> Block({}, {"strategy", "defaultTenant", "isolation"}, {}, {}, {})
FeaturesBlocks ==
  <<"features">> :> Block({}, {}, {}, {}, {})
    @@ <<"features", "unleash">> :> Block({"url", "apiKey"}, {"appName", "environment"}, {},
                                          {"apiKey"}, {"apiKey"})
SaasBlocks ==
  <<"saas">> :> Block({}, {}, {}, {}, {})
    @@ <<"saas", "lago">> :> Block({}, {}, {"apiUrl", "frontUrl"}, {}, {})
    @@ <<"saas", "umami">> :> Block({}, {}, {"endpoint"}, {}, {})
    @@ <<"saas", "meilisearch">> :> Block({"host"}, {}, {"apiKey"}, {"apiKey"}, {"apiKey"})
    @@ <<"saas", "chatwoot">> :> Block({}, {}, {"frontendUrl"}, {}, {})
    @@ <<"saas", "keycloak">> :> Block({"url"}, {"realm"}, {}, {}, {})
    @@ <<"saas", "uptimeKuma">> :> Block({}, {}, {"url"}, {}, {})
MailerBlock ==
  <<"mailer">> :> Block({"host"}, {"port", "secure"}, {"username", "password", "fromAddress"},
                        {"username", "password"}, {"password"})

Blocks ==
  AppBlock @@ DatabaseBlock @@ RedisBlock @@ KafkaBlocks @@ TemporalBlock @@ ObservabilityBlocks
    @@ AuthBlock @@ TenancyBlock @@ FeaturesBlocks @@ SaasBlocks @@ MailerBlock

\* The blocks there are whenever the block around them is.
Implied == {<<"kafka", "security">>, <<"observability", "otel">>}

Fields(b) == Blocks[b].must \cup Blocks[b].default \cup Blocks[b].may

\* The objects of a tree, the blocks with a default among them.
Objects(tree) ==
  LET given == UNION {{SubSeq(p, 1, n) : n \in 1..Len(p) - 1} : p \in DOMAIN tree} IN
  given \cup {b \in Implied : Front(b) \in given}

\* isSecretRef: a provider and a path.
IsRef(f, tree) == {Append(f, "provider"), Append(f, "path")} \subseteq DOMAIN tree

\* substituteEnvVars: a reference to a variable that is not set becomes nothing.
Kind(v) == IF v.kind # "var" THEN v.kind ELSE IF v.by \in defined THEN "text" ELSE "empty"

\* Does the schema take what the tree has at a field of block b?  Its bag of secrets is
\* left out.
TakesField(b, name, tree, objects) ==
  LET f == Append(b, name)
      full == {"text", "mixed"}
  IN
  CASE f \in objects ->
         /\ name \in Blocks[b].secret
         /\ IsRef(f, tree) /\ \A end \in {"provider", "path"} : Kind(tree[Append(f, end)]) \in full
    [] f \in DOMAIN tree ->
         Kind(tree[f]) \in IF name \in Blocks[b].loose THEN full \cup {"empty"} ELSE full
    [] OTHER -> name \notin Blocks[b].must

\* safeParse succeeds.
Valid(tree, objects) ==
  /\ <<"app">> \in objects
  /\ DOMAIN tree \cap DOMAIN Blocks = {}
  /\ \A b \in objects \cap DOMAIN Blocks : \A name \in Fields(b) : TakesField(b, name, tree, objects)

\* The fields of the parsed configuration; what the schema does not know is dropped.
Parsed(tree, objects) ==
  UNION {{Append(b, name) : name \in
            {n \in Fields(b) : n \in Blocks[b].default \/ Append(b, n) \in DOMAIN tree \cup objects}} :
         b \in objects \cap DOMAIN Blocks}

-----------------------------------------------------------------------------
\* The loader

Comparable(p, q) == IsPrefix(p, q) \/ IsPrefix(q, p)

\* Mutant: a block of the child replaces the block of the parent.
MergeShallow(a, b) ==
  LET kept == {q \in DOMAIN a : \A r \in DOMAIN b : q[1] # r[1]} IN
  [p \in kept \cup DOMAIN b |-> IF p \in DOMAIN b THEN b[p] ELSE a[p]]

\* deepMerge: b wins, and where one has a block and the other has none too.
MergeTrees(a, b) ==
  LET kept == {q \in DOMAIN a : \A r \in DOMAIN b : ~Comparable(q, r)} IN
  [p \in kept \cup DOMAIN b |-> IF p \in DOMAIN b THEN b[p] ELSE a[p]]

Leaves(files, f) == [p \in DOMAIN files[f].leaves |-> [kind |-> files[f].leaves[p], by |-> f]]

\* A call of resolveYamlExtends: its file, what the parents before the next one gave.
Frame(f) == [file |-> f, tree |-> [p \in {} |-> "none"], next |-> 1]

\* It is called for a file: one among its own ancestors, or one that is not there, throws.
Enter(f, ancestors) ==
  IF f \in DOMAIN yaml /\ \A i \in DOMAIN ancestors : ancestors[i].file # f
    THEN frames' = Append(ancestors, Frame(f)) /\ resolved' = NotResolved
    ELSE frames' = <<>> /\ resolved' = Threw

\* It goes on with the next parent,
ResolveParent ==
  /\ frames # <<>>
  /\ LET this == frames[Len(frames)] IN
     /\ this.next <= Len(yaml[this.file].parents)
     /\ Enter(yaml[this.file].parents[this.next], frames)
  /\ UNCHANGED <<yaml, defined, status, rendered, configEdits>>

\* which gives it a tree,
Given(frame, tree) ==
  [file |-> frame.file, tree |-> MergeTrees(frame.tree, tree), next |-> frame.next + 1]

\* and after the last one merges the file itself and returns to its caller.
ResolveReturn ==
  /\ frames # <<>>
  /\ LET n == Len(frames)
         this == frames[n]
         tree == MergeTrees(this.tree, Leaves(yaml, this.file))
     IN
     /\ this.next > Len(yaml[this.file].parents)
     /\ IF n = 1
          THEN frames' = <<>> /\ resolved' = [ok |-> TRUE, file |-> this.file, tree |-> tree]
          ELSE /\ frames' = Append(SubSeq(frames, 1, n - 2), Given(frames[n - 1], tree))
               /\ UNCHANGED resolved
  /\ UNCHANGED <<yaml, defined, status, rendered, configEdits>>

\* substituteEnvVars records a variable that is not set.
Holes(tree) == {p \in DOMAIN tree : tree[p].kind \in {"var", "mixed"} /\ tree[p].by \notin defined}
Missing(tree) == {tree[p].by : p \in Holes(tree)}

\* A command loads a file.
StartLoad(f) ==
  /\ frames = <<>> /\ Enter(f, <<>>)
  /\ status' = "nothing"
  /\ UNCHANGED <<yaml, defined, rendered, configEdits>>

\* loadEnv, for what was resolved.
LoadEnv ==
  LET tree == resolved.tree
      objects == Objects(tree)
      fields == Parsed(tree, objects)
  IN
  IF resolved.ok /\ Valid(tree, objects)
    THEN [ok |-> TRUE, tree |-> tree, fields |-> fields, missing |-> Missing(tree),
          secrets |-> {p \in fields : IsRef(p, tree)}]
    ELSE [ok |-> FALSE]

-----------------------------------------------------------------------------
\* The .env file

\* The words of a segment written in camel case; the others are one word.
Words ==
  [logLevel |-> <<"log", "level">>, poolMax |-> <<"pool", "max">>,
   bootstrapServers |-> <<"bootstrap", "servers">>, clientId |-> <<"client", "id">>,
   saslMechanism |-> <<"sasl", "mechanism">>, saslUsername |-> <<"sasl", "username">>,
   saslPassword |-> <<"sasl", "password">>, schemaRegistry |-> <<"schema", "registry">>,
   taskQueue |-> <<"task", "queue">>, serviceName |-> <<"service", "name">>,
   ingestionKey |-> <<"ingestion", "key">>, jwksUri |-> <<"jwks", "uri">>,
   clientSecret |-> <<"client", "secret">>, defaultTenant |-> <<"default", "tenant">>,
   apiKey |-> <<"api", "key">>, appName |-> <<"app", "name">>, apiUrl |-> <<"api", "url">>,
   frontUrl |-> <<"front", "url">>, frontendUrl |-> <<"frontend", "url">>,
   uptimeKuma |-> <<"uptime", "kuma">>, fromAddress |-> <<"from", "address">>]

\* toEnvKey for each segment of a path.
EnvKey(path) == FlattenSeq([i \in DOMAIN path |-> IF path[i] \in DOMAIN Words THEN Words[path[i]] ELSE <<path[i]>>])

\* No constant occurs in this: no two fields of the schema share a key.
SchemaFields == UNION {{Append(b, name) : name \in Fields(b)} : b \in DOMAIN Blocks}

ASSUME KeysDiffer ==
  IsFiniteSet(SchemaFields) /\ \A p, q \in SchemaFields : EnvKey(p) = EnvKey(q) => p = q

-----------------------------------------------------------------------------
\* The commands and the user

SettingsInit ==
  /\ yaml = ShippedConfig
  /\ defined \in SUBSET ConfigFiles
  /\ frames = <<>> /\ resolved = NotResolved
  /\ status = "nothing" /\ rendered = NoEnvFile /\ configEdits = 0

\* A command goes on with what was loaded; of files nobody wrote since, another one loads
\* the same.
Loaded == frames = <<>> /\ resolved # NotResolved /\ UNCHANGED <<yaml, defined, frames, resolved, configEdits>>

\* env validate: variables that are missing change nothing in what it says.
EnvValidate(loaded) ==
  /\ Loaded
  /\ status' = IF ~loaded.ok THEN "error" ELSE IF loaded.secrets # {} THEN "warning" ELSE "ok"
  /\ UNCHANGED rendered

\* env show prints what was loaded, the pointers to secrets as text.
EnvShow(loaded) ==
  /\ Loaded
  /\ status' = IF loaded.ok THEN "ok" ELSE "error"
  /\ UNCHANGED rendered

\* Mutant: missing variables are not looked at.
MayRenderMissing(loaded, allow) == loaded.ok /\ (loaded.secrets = {} \/ allow)

MayRender(loaded, allow) == loaded.ok /\ loaded.missing = {} /\ (loaded.secrets = {} \/ allow)

\* env render writes the file, or fails and leaves the one there is.
EnvRender(loaded, allow) ==
  /\ Loaded
  /\ IF MayRender(loaded, allow)
       THEN /\ status' = "ok"
            /\ rendered' = [file |-> resolved.file, allow |-> allow, fields |-> loaded.fields,
                            secrets |-> loaded.secrets, holes |-> Holes(loaded.tree) \cap loaded.fields,
                            keys |-> {EnvKey(p) : p \in loaded.fields \ loaded.secrets}]
       ELSE status' = "error" /\ UNCHANGED rendered

\* Nothing waits while a file is loaded, so edits come before or after it.
Edited ==
  /\ configEdits < MaxConfigEdits /\ frames = <<>>
  /\ configEdits' = configEdits + 1
  /\ resolved' = NotResolved /\ status' = "nothing"
  /\ UNCHANGED <<frames, rendered>>

\* A leaf is written, in place of what it cannot stand beside, or deleted.
EditLeaf(f) ==
  /\ f \in DOMAIN yaml
  /\ Edited /\ UNCHANGED defined
  /\ \E p \in EditPaths, kind \in Kinds \cup {"none"} :
       LET old == yaml[f].leaves
           rest == {q \in DOMAIN old : ~Comparable(p, q)}
           written == IF kind = "none" THEN {} ELSE {p}
       IN
       yaml' = [yaml EXCEPT ![f].leaves =
                  [q \in rest \cup written |-> IF q = p THEN kind ELSE old[q]]]

EditParents(f) ==
  /\ f \in DOMAIN yaml
  /\ Edited /\ UNCHANGED defined
  /\ \E list \in Parents : yaml' = [yaml EXCEPT ![f].parents = list]

SetVariable(f) ==
  /\ Edited /\ UNCHANGED yaml
  /\ defined' = (defined \ {f}) \cup ({f} \ defined)

SettingsNext ==
  \/ ResolveParent \/ ResolveReturn
  \/ EnvValidate(LoadEnv) \/ EnvShow(LoadEnv)
  \/ \E allow \in BOOLEAN : EnvRender(LoadEnv, allow)
  \/ \E f \in ConfigFiles : StartLoad(f) \/ EditLeaf(f) \/ EditParents(f) \/ SetVariable(f)

SettingsSpec == SettingsInit /\ [][SettingsNext]_settingsVars

-----------------------------------------------------------------------------

\* A file that was rendered has one key of its own for each field of the configuration,
\* unless --allow-missing-secrets left out the pointers to secrets, and no value with a
\* hole: every reference that was not overridden had its variable ("REFUSES to emit if
\* any SecretRef is still unresolved or if any ${VAR} reference is missing",
\* render.ts:3-5; two fields that share a key in toEnvKey would lose one of them).
RenderedIsWhole ==
  rendered # NoEnvFile =>
    /\ rendered.secrets # {} => rendered.allow
    /\ Cardinality(rendered.keys) = Cardinality(rendered.fields \ rendered.secrets)
    /\ rendered.holes = {}

\* The chain of a file: itself, its parent, and so on, while each has one parent, to one
\* that has none.
IsChain(files, chain, f) ==
  LET n == Len(chain) IN
  /\ n > 0 /\ chain[1] = f
  /\ \A i \in 1..n - 1 : files[chain[i]].parents = <<chain[i + 1]>>
  /\ files[chain[n]].parents = <<>>

\* Along a chain a tree is decided leaf by leaf by the nearest file that says anything there.
NearestWins(files, chain, tree) ==
  LET SaysAt(i, p) == \E q \in DOMAIN Leaves(files, chain[i]) : Comparable(p, q)
      Nearest(i, p) == SaysAt(i, p) /\ \A j \in 1..i - 1 : ~SaysAt(j, p)
  IN
  /\ \A p \in DOMAIN tree : \E i \in DOMAIN chain : Nearest(i, p)
  /\ \A i \in DOMAIN chain : \A p \in DOMAIN tree \cup DOMAIN Leaves(files, chain[i]) :
       Nearest(i, p) => /\ p \in DOMAIN tree \cap DOMAIN Leaves(files, chain[i])
                        /\ tree[p] = Leaves(files, chain[i])[p]

\* For files that extend one another in a chain, what any command loads is decided leaf by
\* leaf by the nearest file that says anything there: "Values here win over base. Tenant
\* configs further override this" (dev.yaml:3-4).
NearestFileWins ==
  resolved.ok =>
    \A n \in 1..Cardinality(DOMAIN yaml) : \A chain \in [1..n -> DOMAIN yaml] :
      IsChain(yaml, chain, resolved.file) => NearestWins(yaml, chain, resolved.tree)
=============================================================================
