# TLA+ models of ts-monorepo-template

The repository is a polyglot monorepo template: small reference services (Go,
Python, Rust, TypeScript), shared TypeScript packages, a launcher CLI and its
companions (recommender, cost simulator, MCP server), and the delivery side
(container builds, Kargo, ArgoCD, Ansible, CI scripts).  Very little of it is
one big algorithm; what is hard is the order in which small steps of several
actors meet.  The project therefore has one module per component, each with the
interleavings, failures and restarts that component really meets.

## 1. Inventory

| Component | Source | State | Operations | What is hard | What makes it correct |
|---|---|---|---|---|---|
| users service | `apps/go-hello` | Postgres rows, Kafka writer, HTTP handlers, process | create, get, list, drain, crash | two writes without a transaction, lost replies, retries, shutdown order | events and 201s name committed data; nothing is used after it is closed |
| users services | `apps/py-hello`, `apps/rs-hello` | same contract; routers and publishers not mounted, or stubs | health only | - | - |
| database client | `packages/db-client` | lazy pg pool, closed flag | ping, activeConnections, close | `await` between the test of `pool` and its assignment, close during a ping | one pool, ended by close |
| delivery | `infra/kargo`, `infra/argocd`, `.github/workflows/container-build.yml` | registry tags, git values files, freight, verifications, synced apps | build, promote, verify, image-updater write-back, sync | three writers of one branch, gates that run after the push, sync windows | prod runs only what staging verified; the freeze holds |
| cluster | `infra/ansible/playbooks` | per-node packages, membership, cordon | bring-up, upgrade, scale, reset | serial batches, a failing task in the middle, re-runs | control planes one at a time, bounded unavailability, no node left cordoned |
| tenant theme | `packages/ui` (`theme/tenant.ts`) | slug, payload, in-flight run, cached themes | boot, refetch, change of slug, render | answers that come after the slug changed, an effect that depends on what its render makes | a theme is stored and shown for the tenant it was asked for |
| content loader | `packages/cms-client` | Astro data store | load pages of a collection, load Markdown files | a source edited between two pages, a page that fails after earlier ones were stored | the store holds nothing its source did not have; an undisturbed load is complete |
| consent and tracking | `packages/consent`, `packages/tracking` | cookie, persisted store, config | decide, withdraw, reload, track | two stores of one decision, events before rehydration | nothing is tracked without consent |
| launcher CLI: tasks | `internal/cli` (`repo-commands`) | - | build, lint, ci, db, dev, release, ..., profile validate | one program of several fails, is not installed or is killed | the exit code tells what happened |
| launcher CLI: working tree | `internal/cli` (`repo new`, `profile fork/select/list`) | ADRs, scaffolds, profiles | new *, fork, select, list | read-then-write, partial copies, two terminals, a crash between two writes | refuses instead of overwriting; numbers and names are unique |
| launcher CLI: configuration | `config/schema.ts`, `internal/cli` (`repo env`) | layered YAML files, variables, the .env file | validate, show, render | merging, references without a variable, pointers to secrets | the nearest file wins; what is rendered is whole |
| launcher CLI: secrets check | `internal/cli` (`secrets:check`) | secretspec.toml | check | a parser that keeps a pending entry | a key counts for the secret it stands under |
| recommender | `internal/recommender` | cached rubric | score profiles | ties, unset inputs, sums and roundings | hard constraints dominate, ranking is total |
| cost simulator | `internal/cost-simulator` | cached prices | simulate a profile | missing prices, zero hours | totals are sums of the parts |
| MCP server | `internal/mcp-server` | registry of tools, price files | rank profiles and backends, simulate a cost, explain a tradeoff, list, describe | a second scorer with its own ties, prices edited between two reads | an answer ranks everything once and adds up |
| queue worker | `apps/worker` | BullMQ worker, jobs, signal handlers | bootstrap, process, shut down, crash | a second signal during the shutdown, a lock that runs out, a close that fails | shutdowns cost no job anything, every job ends |
| api gateway | `apps/api-gateway` | Fastify app, signal handlers | route, shut down | a signal before listen | one clean exit |
| HTTP and auth clients | `packages/api-client`, `packages/auth-client`, `packages/tenancy-client` | tokens, tenant | request, sign in/out, resolve tenant | token and tenant read at different times | identity and tenant of one request belong together |
| CI scripts | `tools/ci`, `scripts` | budget, price files, evidence, git commits | precheck, refresh, summarise, commit | check-then-apply, partial refresh, retries that commit | caps hold; a failed refresh changes nothing |
| edge workers | `infra/cloudflare/workers` | cached font, queue | og-image, route, receive webhooks | missing binding | an accepted webhook is queued |
| CMS | `apps/cms` | users, pages, media | access control, password hashing | two hashes of one password | roles change only by an admin |
| front ends | `apps/web-app`, `apps/marketing`, `apps/docs-public`, `packages/ui`, `packages/seo`, `packages/forms` | UI state | render | - | - |
| infrastructure as data | `infra/terraform`, `infra/crossplane`, `infra/helm`, `profiles`, `devenv` | declarative files | - | - | - |

### How they interact

* A push builds images (`container-build.yml`); a Kargo `Warehouse` turns image
  tags and commits of `main` into freight; Kargo stages write the image tag into
  `values.<env>.yaml` on `main`, push, and ask ArgoCD to sync; the ArgoCD image
  updater writes `values.dev.yaml` on the same branch; ArgoCD syncs what is on
  the branch when its sync windows allow it.
* The services share the contract of `packages/contracts`; `go-hello` writes
  Postgres and then Kafka.
* The CLI's `env render` feeds the services their environment; profiles feed the
  recommender, the cost simulator, the MCP server and the CI matrix.
* `banner.ts` copies the cookie's decision into the persisted consent store;
  `track.ts` reads that store for every event.
* `explain_tradeoff` calls `simulate_cost` twice; each call reads the price files anew.
* The content loader reads what the access rules of the CMS let a visitor list.

## 2. Modules

| Module | Models | Runs | Proofs |
|---|---|---|---|
| `UserRegistry` | what the users endpoint promises | (property of `users`) | `UserServiceProofs` |
| `UserService` | `apps/go-hello`: handler, Postgres, Kafka writer, process | `users`, `users_announce` | `UserServiceProofs` |
| `DbClient` | `packages/db-client` | `apps`, `dbclient_bound` | `DbClientProofs` |
| `ImagePipeline` | `container-build.yml`, `cosign.policy.yaml` | `delivery`, `images_release` | `ImagePipelineProofs` |
| `Promotion` | Kargo pipelines, ArgoCD applications, image updater, sync windows | `delivery`, `promotion_start` | `PromotionProofs` |
| `ClusterUpgrade` | `infra/ansible/playbooks/upgrade.yml` | `delivery`, `upgrade_max` | `ClusterUpgradeProofs` |
| `Recommender` | `internal/recommender` | `tools`, `advice_fedramp` | `RecommenderProofs` |
| `ConsentTracking` | `packages/consent`, `packages/tracking` | `apps`, `consent_tabs` | `AppsProofs` |
| `TenantTheme` | `packages/ui/src/theme/tenant.ts` | `apps`, `theme_default` | `AppsProofs` |
| `ContentLoader` | `packages/cms-client/src/loaders` | `apps` | `AppsProofs` |
| `QueueWorker` | `apps/worker` | `apps` | `AppsProofs` |
| `AgentTools` | `internal/mcp-server`, `internal/cost-simulator` | `tools` | `ToolsProofs` |
| `TaskRunner` | the launcher's commands that run programs | `tools` | `ToolsProofs` |
| `Workspace` | the launcher's commands that write the working tree | `tools` | `ToolsProofs` |
| `Settings` | `config/schema.ts`, `repo env` | `tools` | `ToolsProofs` |
| `SecretSpec` | `secrets:check` | `tools` | `ToolsProofs` |

Each `MC*` module instantiates them for TLC; its `.cfg` gives the bounds.
`MCDelivery`, `MCApps` and `MCTools` extend several components that share no state
one of them writes and another reads.  A variable `scene`, chosen at the start, says
which of them a behaviour exercises; the others stay in their initial state.  This is
what separate runs of the components would check, in one.  The MC modules named after
one component carry a violated run of that component alone.  `PROJECT.json` maps every
definition to the lines it stands for.  Operators whose comment starts with
"Mutant:" are plausible mistakes in the code; each property has one that it
refutes.

### UserService

State: `pod` is where `main()` of a replica is, `pc`/`at`/`resp` where the
handler of a request is, in which pod, and what its client was told; `sql` are
INSERTs on their way, `rows` the table, `pending` the batches of the pods'
kafka-go writers, `topic` what consumers can read.

* `Accept`, `Reject`, `Execute`, `CreateFails`, `Enqueue`, `EnqueueFails`,
  `GiveUp`, `Reply` are the handler of `users.go`, cut where it waits for another
  process.  An INSERT that was sent may run after its handler gave up on it
  (`Execute` with `pc[r] # "creating"`); it is still the same statement.
* `Flush` and `FlushFails` are the writer's background loop.  `main.go` leaves
  `RequiredAcks` at zero, so a send that is reported as done may be lost.
* `Terminate`, `CloseWriter`, `ClosePool` are `main()` after a signal, in the
  order in which Go runs deferred calls; `Crash` is everything else that ends a
  process.  The readiness and list endpoints change nothing and are left out.
* A client's retry is another request with the same user id.

`UserRegistry` is the promise without any of this: an id is taken once, and only
the request that took it is announced or acknowledged.  `UserService` implements
it with `stored <- rows`, `announced <- topic` and the 201s for `acked`.

### DbClient

`pool` and `closed` are the two variables of the closure, a pool is named by the
`ping()` that created it, `clients[q]` are its open connections.  `Ping`,
`LoadDriver`, `Connect`, `Release` are `ping()` between two awaits, `Close` and
`EndResolves` are `close()`; `LoadDriver` assigns `pool` without looking at it again, as the code does.
pg is external: a full pool makes callers wait, `connect()` after `end()`
rejects, a second `end()` rejects.

### ImagePipeline and Promotion

`ImagePipeline` follows one app's runs of the workflow: a `Trigger` cancels the
active run of its ref at whatever step it is in, and the steps push before they
scan and scan before they sign.  `continue-on-error` makes `BuildFails` end in
"done".  Admission asks for a signature made at `refs/heads/main`.

`Promotion` follows released images from the warehouse to prod.  `values[e]` is
the tag in `values.<e>.yaml` on `main`, which two parties write: the stage
(`PushTag`, refused when the line changed after the clone) and, for dev, the image
updater (`UpdateDev`).  None of these files has a tag to begin with, and Helm reads
the chart's `values.yaml` before them, so `Tag(e)`, what a sync deploys, is the
chart's own tag (`ChartTag`, 0.1.0) until somebody writes one.  ArgoCD syncs on
request (`ArgoUpdate`) or by itself (`AutoSync`) whenever the windows allow and what
is live differs: the first automated sync installs the chart's tag in every
environment, prod included.  `ran` is a history variable: what was ever live in
staging and in prod.

### ClusterUpgrade

Hosts are numbered in inventory order.  `RunTask` runs one task on the batch (the
linear strategy): any subset of the batch fails, any part of it after the task
had its effect.  `NextBatch`, `NextPlay` and `BatchFailed` are what Ansible does
at the end of a batch; `Abort` and `Start` are the operator.  `node` holds the
nodes that have each package, component and cordon; `broken` is history: workers
that a run left in the middle.

### Recommender

`score()` is an operator over the whole rubric: `Prior`, `Weight` and `Mismatch`
are `rubric.yaml`, `NamePenalty`, `BudgetPenalty` and `EnvPenalty` the three kinds
of comparison, `Score` the clamp and the rounding, `Ahead` the order with its
tie-break.  The actions are a caller that revises one answer and calls again.
Every coefficient of the rubric is a multiple of 1/20, so the sums are exact in
integers; the code adds doubles, which could differ only for a score that lies
exactly between two roundings.

### ConsentTracking

A decision is in the banner's cookie and in the persisted store, both shared by
the tabs of a browser; a tab reads the store when its scripts run (`Load`), the
cookie when the banner is mounted (`Mount`), and then works on its own copy
(`granted`).  `Decide` is the callback for a first or changed decision, `Track`
stands for `track`, `identify` and `page`, which have the same gate.  `current`
are the tabs in touch with the last decision; `sent` marks every event with
whether its tab was.

### TenantTheme

`slug` is the prop, `payload`, `loading` and `failed` the React state,
`inflight` the ref; `run[i]` is where a call of the boot effect or of `refetch`
is, with the slug of the render that started it, as its closures have it.
`Read`, `Arrive`, `Store`, `Reject` and `Fail` are that call between two awaits;
a 304 or a fresh entry ends it early.  `Render` is React's, with the effects of
the render; `Switch`, `Refetch` and `Age` are the application and the hour.  A
payload is the tenant it was fetched for.  `StableStorage` says whether the storage
adapter is the same at every render.  It is when the application passes one in, and
outside a browser; in a browser the default parameter makes a new one at each render,
and since the effect depends on it each `Render` boots again.

### ContentLoader

`published` are the posts a visitor may list and `files` the Markdown files;
`Start` clears the store, `FetchPage` is one turn of the page loop, `FetchFails`
a page without an answer, `ReadFile` one turn of the other loader's loop.  `Edit`
publishes, withdraws, writes or deletes between any two of these.  `mode` says
which loader is configured, and how it names an entry.

### QueueWorker

`pod[w]` is where `main.ts` is, `working[w]` the processors under way, `lock` who
holds a job's lock.  `Bootstrap`, `Process`, `Signal`, `Closed` and `Stop` are the
code; `Enqueue`, `Take` and `Stall` are BullMQ: a lock that is no longer renewed
runs out, the job is given to another pod once and failed the second time, and
what the first pod reports of it afterwards is refused.

### TaskRunner

A command is a policy and a list of programs: "stop" at the first that fails,
"collect" the failures, "report" them and succeed, "refuse" also those that were
lost, or "diagnose".  `Run` ends the next program; `Seen` is what `run()` makes
of a missing exit code.  `Call` and `Answered` are flags and prompts.

### Workspace

`tree` says who wrote each file last, `machine` what each profile's
`profile.env` calls itself, `task` where the command of each terminal is.  A
command looks and decides in one step (`NewAdr`, `NewRunbook`, `NewApp`, `Fork`,
`Select`) and writes in later ones (`WriteFile`, `WriteNext`, `MakeDir`, `Copy`,
`Rewrite`), with `Crash` and `UserEdit` in between.  `overlap` and `died` are
history: what the properties except.

### Settings

A tree is a function from leaf paths; a value is text the schema takes or
refuses, or text with a `${VAR}`.  The recursion of `resolveYamlExtends` is a stack
of calls, `frames`: `Enter` is the beginning of one, with its two errors,
`ResolveParent` calls it for the next parent, `ResolveReturn` merges the file itself
over what the parents gave and hands the tree to the caller; `resolved` is what the
first call ended with.  One file after another is loaded and nothing waits in
between, so edits fall between loads.  `MergeTrees`, `Kind` and `Valid` are
`deepMerge`, `substituteEnvVars` and the zod schema, whose blocks are listed field
by field; `EnvKey` is `toEnvKey` by words.  The other actions are the three commands
on what was loaded and a user who edits one thing: a leaf, the parents of a file,
or a variable.

### SecretSpec

`ParseToml` is one turn of `parseToml`'s loop, `ReadLine` on the next line, over
`read`: an accumulator of finished secrets and the pending one; `Check` at the end
of the file is `checkSecretspec`.  The user writes the file line by line, never
while it is read, and may have it checked after each.

### AgentTools

Each tool is an operator on exact numbers (hundredths for scores, millionths of
a dollar for money) and an action that dispatches it; `explain_tradeoff` is two
actions, because the prices may be edited between its two reads.  `data` says
whose profile, app and XRD directories the server looks at: with those of the
repository the loaders throw and the tools that need them answer with an error.

## 3. What the runs show

| Run | Bounds | Shows |
|---|---|---|
| `users` | 2 pods, 3 requests, 2 ids (two requests share one) | `EventsMatchRows`, `AckedIsStored`: an event or a 201 always names the committed row.  `NoUseAfterClose`: neither pool nor writer is closed while something can use it.  `ImplementsRegistry`.  `DrainEnds`: a terminated pod stops |
| `users_announce` | 1 pod, 2 requests, 1 id | *violated*: a stored user may never be announced |
| `dbclient_bound` | 2 pings, 1 close, 1 connection | *violated*: two first pings make two pools, together above `maxConnections` |
| `delivery`, build | 3 runs, 1 version, 1 pull request | `AdmittedIsClean`: what clusters admit passed the CRITICAL gate.  `MainTagForward`: `main` and `latest` never go back |
| `images_release` | 2 runs | *violated*: the policy rejects every image built for a version tag |
| `delivery`, promotion | 2 images and the chart's tag | `ProdAfterStaging`: prod runs what staging verified, from its first promoted image on; before it, nothing but the chart's tag.  `VerifiedRan`: and staging ran it |
| `promotion_start` | the same | *violated*: the first automated sync installs the chart's tag in prod, unverified |
| `delivery`, upgrade | 3 control planes, 3 workers, batches of 2, 3 runs | `OneAtATime`, `WorkersBehind`: the order of nodes.  `CleanRunRepairs`: a run without a failure repairs what earlier ones left.  `CordonAccounted`: who may be unschedulable |
| `upgrade_max` | 1 control plane, 4 workers, batches of 2, 1 run | *violated*: a failed worker stays cordoned while the next full batch is drained |
| `advice_fedramp` | 2 budgets, 2 numbers of environments; observability and secret backend | *violated*: two preferences outweigh FedRAMP |
| `apps`, consent | 2 tabs, 2 optional categories | `EventsHaveConsent`: tabs in touch with the last decision track only what it grants.  `TabsKnowDecision`: such a tab grants exactly what the user decided, whichever of cookie and store it read |
| `consent_tabs` | the same | *violated*: a tab that was open tracks on after consent was withdrawn in another one |
| `apps`, theme | 2 tenants, 3 runs at a time, 2 changes or refetches, a storage passed in | `CacheIsOwn`: a late answer is stored under its own tenant.  `RestShowsOwn`: at rest the slug's theme is shown, if no slug changed during a run and nothing failed.  `ThemeSettles`: the provider comes to rest |
| `theme_default` | 1 tenant, 2 runs at a time, no storage passed in | *violated*: in a browser every answer renders and every render starts a run, for ever |
| `apps`, content | 5 posts in pages of 2, 3 files of which 2 share a name, 2 edits, 2 loads | `StoreIsListing`: nothing in the store that the source never had; an undisturbed load is complete.  `LoadEnds` |
| `apps`, worker | 2 pods, 2 jobs, one malformed, 2 signals, 2 crashes or stalls | `ShutdownsAreHarmless`: without a crash no job stalls or is processed twice.  `JobsEnd`: every job ends |
| `apps`, db | 3 pings, 2 closes, at most 2 connections | `NoDoubleEnd`: no `close()` rejects.  `CloseReturns`: a `close()` that found a pool resolves |
| `tools`, advice | budgets and environments in, below, above and on the edge of every band; the required questions, availability and secret backend | `ComplianceRuled`, `MultiRegionRules`: no profile the answers rule out.  `PerfectFitWins`: a profile that fits everything is not beaten by one that does not.  `MoneyNeverUnseats`: more money does not move a caller away from p-enterprise |
| `tools`, agent | 7 budgets and 2 numbers of environments on the edges of the fits, 2 calls, 1 edit of the prices | `RanksEachOnce`: each profile or backend once, in order.  `BillAddsUp`: layers and providers sum to the total but for rounding.  `TradeoffsAreOfNow`: the difference told, when no edit separates or follows its two reads, is that of two present answers |
| `tools`, tasks | every command, at most 1 program missing and 2 killed | `ExitTellsOutcome`: the exit code and what ran belong together, lost programs excepted |
| `tools`, tree | 2 terminals, 3 commands, 1 edit, 1 crash; 2 titles, 2 files in a template, 3 profiles | `AdrNumbersAreUnique`, `NothingOverwritten`: when commands do not overlap (two at once are excepted, see below).  `ProfilesNameThemselves`: even when forks do |
| `tools`, config | 3 files, 5 paths to edit, chains, a cycle and a diamond, 1 edit | `NearestFileWins`: the nearest file of a chain decides each leaf.  `RenderedIsWhole`: one key for each field, no hole, no pointer to a secret unless allowed |
| `tools`, secrets | 2 secrets, 2 profiles, files of up to 4 lines | `ReportIsOfSpec`: a check reports what the last section of each secret, read by itself, asks for |

Why the bounds suffice.  Two pods and three requests let two clients compete for
an id while a third request keeps a pod draining; a fourth adds no new pair.
Three pings give one that creates a pool, one that overwrites it and one that
waits for a full pool; two closes give a second that finds `closed`.  Three runs
give a push, the one that supersedes it and one in flight on another ref.  With
two images one can overtake the other in every stage.  Three control planes have
a first, a middle and a last, three workers in batches of two a full batch and
an odd one, three runs a failure, a failed repair and a repair.  Two tabs are
the one that decided and the one that has not heard.  Three runs of the theme
provider are the boot effect's, one of a later slug and a refetch, all late.
Five posts in pages of two make a full page, a page that shifts and a last page
that is not full.  Two pods and two jobs let one job move while the other is
held.  Three commands are the two that race and one that meets what they left;
one crash is enough to leave any half-done state.  A file in the configuration
has a parent and a grandparent, so one edit can set any two layers against each
other.  Four lines hold a section with a key, another section and a key of it.

Bounds in guards: `MaxRuns` (`ImagePipeline`, `TenantTheme`), `MaxUpgrades`, `MaxRequests`, `MaxEdits`, `MaxLoads`, `MaxTroubles`, `MaxSignals`, `MaxCalls`,
`MaxPriceEdits`, `MaxKills`, `MaxMissing`, `MaxCommands`, `MaxCrashes`,
`MaxConfigEdits`, `MaxLines`.  Everything else is finite by itself.

`CHECK_DEADLOCK FALSE` stands where the system really stops: all calls of a
client are made (`apps`, `dbclient_bound`), all runs are spent (`delivery` and the
violated runs of its components), a provider may be at rest (`theme_default`), and the
users, editors and callers of `apps` and `tools` have done what the bounds allow.

### Fairness

* `users`: calls to Postgres return (pgx has the request's context), the writer
  sends or gives up (bounded attempts with timeouts), `main()` goes on after a
  signal.  Nobody owes a request, a signal, a restart or the execution of a
  statement nobody waits for.
* `apps`: the event loop runs the continuations of the database client and pg
  settles what it was asked; React renders what was set, storage calls and requests are answered or
  fail; the page and file loops go on; the kubelet starts pods again, processors
  and `worker.close()` return, the queue gives out waiting jobs and finds stalled
  ones.  No call, signal, edit, failure, crash or user action is owed.
* `theme_default`: that of the theme in `apps`; the provider fails to settle although
  every render and every answer happens.
* The other runs check safety only and assume none.

### Disagreements between code and documents

The eight violated runs are the findings of `PROJECT.json`, each with the line it
contradicts.  Others were seen while reading and have no run:

* An image is in the registry under its final tags before it is scanned or
  signed, and a rerun for one commit overwrites the tag `sha-*`
  (`docs/superpowers/specs/2026-06-03-platform-foundation-design.md:1157`, `:1200`).
* Chart changes on `main` are synced to prod by `AutoSync` without a promotion
  (same document, `:1787`, `:1946`).
* `ping()` after `close()` opens a new pool that nobody closes.
* The users handler answers 404 for any store error
  (`docs/specs/governance-saas/repo-governance.md:155`), and readiness pings
  Postgres only.
* `cluster.yml` joins workers with a role that needs kubeadm, which an earlier
  play installs on control planes only; `token.yml` combines `run_once` with a
  `when` that is false on workers.
* The MCP tool `recommend_profile` always takes its older scorer, whose default
  rubric file does not exist, although `docs/architecture/decision-model.md:43`
  says that it wraps `score()`.
* `rubric.yaml:76` calls the lower bound the stronger one; the penalties are .40
  and .15 below, .80 and .50 above.
* A multi-region caller who also answers `observability_depth = logs` and
  `secret_backend = keyring` can be sent to a profile without multi-region;
  `MultiRegionRules` is therefore about callers who answer no preference.
* `secret_backend = auto` does penalise two profiles, against test E09's title.
* The content loader warns "yielding 0 entries" and keeps the pages before
  (`payload.ts:96`); with basenames as ids two files of one name are one entry;
  the marketing site asks for `status` where the posts have `_status`.
* `config-loader.ts:159` says that an unset variable throws; it becomes '' and is
  recorded.  `env validate` reports "ok" for what `env render` refuses, and since
  nothing resolves a pointer to a secret, `prod` can be rendered only with
  `--allow-missing-secrets`.
* `schema.ts:56` and `prod.yaml` allow a raw password in dev and test only;
  nothing enforces it.  `test.yaml` and `saas-commons.yaml` have `app.port: 0`,
  which the schema refuses, although `saas-commons.yaml:4` says how to render it.
* With more than one parent a later parent brings back leaves that the first
  replaced; `NearestFileWins` is therefore about chains.
* `run.ts:26` makes a killed or missing program a success: `ci` may print that the
  gate passed, `db migrate` that migrations were applied.  `ExitTellsOutcome`
  counts only failures with an exit code.
* Two `new adr` at once give one number to two ADRs, and numbers repeat after
  9999; a scaffold that died half way needs `--force`; a fork that died makes
  `list` throw.
* `secrets:check` reads a list broken over lines as empty, so that the secret is
  never missing, and `required = true # why` as false.  The profiles' own
  `secretspec.toml` say `[secrets.required]` in small letters, which the parser
  does not take for a secret, so that checking them is always ok.
* A slug of the theme provider that changes during a boot fetch is not booted, and
  the late payload of the one before is shown under it; a storage that rejects a
  read leaves `loading` on.
* Under FedRAMP the MCP server's scorer recommends profiles of fit 0 for many
  answers; a budget just above a band fits better (0.6) than its upper bound
  (0.5).  `docs/agents/mcp-tool-reference.md` calls the list tools implemented;
  with the repository's own directories they answer with errors.
* `api-client` awaits the token and then reads the tenant, so a session that
  changes in between mixes the two.  `auth-client` takes the session from a cookie
  right after a login of the `api` flow, which sets none.
* The webhook receiver answers 200 when its queue is not bound.  The gateway
  installs its signal handlers before it listens.
* `precheck.sh` checks the budget once and the apply comes later;
  `task-commit.sh` commits before the message is judged.
* The role `wireguard_mesh` derives keys once ("creates"), even when the private
  key was replaced.
* A consent cookie that ran out leaves the persisted grant in force.
* The cost of a tradeoff is read twice; an edit of the prices between the two reads
  gives the difference of two price lists.

## 4. What is proved

All theorems are for every value of the constants that satisfies the named
assumptions.  Two distinct kinds of constants do not overlap (`NoneAssumption`,
`PromotionAssumption`, `ConsentAssumption`, `NoThemeAssumption`,
`WorkspaceAssumption`; in `PipelineAssumption` also "main" with tags and pull
requests, which are other refs).  Sizes are numbers (`PipelineAssumption`,
`UpgradeAssumption`, `DbAssumption`, `ThemeAssumption`, `WorkerAssumption`,
`TaskAssumption`, `ContentAssumption`, whose posts are a finite set), and so are the
answers to the recommenders (`RecommenderAssumption`, `AgentAssumption`).  Files are
made of the lines and values they can have (`SecretAssumption`,
`SettingsAssumption`), and `UserOf` maps requests to users.  `KeysDiffer` has no
constant: it says that no two of the finitely many fields of the schema share a
key, which TLC computes in every run of `tools`.

* `UserServiceProofs`.  `EventsMatchRows` is not inductive: the step that puts a
  message into the writer must know that the handler got there through a
  committed row.  The invariant adds that every request past the insert
  (publishing, waiting, replying, answered 201) owns its row, and that active
  handlers and pending batches are in pods that have closed nothing.  Rows are
  never overwritten, so ownership is stable.  The refinement is proved step by
  step: `Execute` stores, `Flush`/`FlushFails` may announce, `Reply`
  acknowledges, everything else stutters.
* `DbClientProofs`.  `closed` is set in the step that ends a pool and never
  reset, so only one call reaches `end()`, whatever `pool` names by then.
* `ImagePipelineProofs` (`Gated`).  An image whose run is past the scan, or that is
  signed, is pushed and not critical; only `Push` changes what is critical, for
  an image that is not yet past the scan.  `MainTagForward` needs the history of one
  ref (`Superseding`): runs of pushes to main have growing commits, a run of main
  that is still active has no later one beside it, since `cancel-in-progress`
  stopped it, and what `main` names is a push past its own push.
* `PromotionProofs`.  Prod's line on `main`, prod's promotion and prod's live tag
  all lie in what staging verified, which only grows, and while the line is empty prod
  has run at most the chart's tag (`ProdLine`): a line that was written is never
  emptied, so the tag cannot come back; a staging
  promotion that waits for its sync is what the file names, so what staging
  checks or has verified, it ran (`StagingLine`).  No assumption on the windows,
  the updater or the order of syncs is used.
* `ClusterUpgradeProofs`.  `CpProgress` and `WorkerProgress` say what a batch has
  done as a function of the index of its next task, `Behind` that the hosts in
  front of the batch are upgraded in all fields, `Cordons` who is cordoned.
  `EffectFacts` reduces the eight tasks to the facts these need.  `CleanRunRepairs`
  is about the end of the play; `CleanInv` says how far a run without a failure has
  come at every task of it, for hosts that earlier runs left in any state.
* `RecommenderProofs`.  The two theorems quantify over all budgets and numbers of
  environments, which TLC samples.  `EnterpriseSupports`: p-enterprise supports
  every floor and has the least penalties, so with the required questions it
  keeps more points than any profile that lacks the floor, however far the budget
  is below its band; a profile that lacks multi-region loses the 20 points of that
  question on top.  `HigherRawHigherScore` and `DivGap` carry the gap of at least
  one point through the rounding, which is finer.  `PerfectFitWins`: points are lost
  only where an answer does not fit, so a perfect fit has the whole score and whoever
  beats it in the order has it too.  `MoneyNeverUnseats`: a larger budget changes the
  budget's part alone, which for p-enterprise does not fall below its floor and for
  another profile does not rise (`MoreMoneyPoints`).
* `AppsProofs` proves about four components of the applications.
  Consent: `StoresAgree` (the persisted store holds the last decision, and so
  does the cookie unless it ran out) is what a load and a mount need to preserve
  `TabsKnowDecision`, and that gives `EventsHaveConsent`.
  Theme: `RestShowsOwn` speaks of a provider at rest only.  `EntryIsOwn` says that
  entries are of their tenant; `RunsForSlug` that in a calm behaviour every run
  works for the present slug and that without a run its payload is there;
  `InflightIsRun` and `RunsAreWhole` tie the ref and the records of runs to them.
  No assumption on the storage or the order of answers is used.
  Worker: `ActiveIsWorked` (a job is active exactly where a living pod works on it
  with its lock, as long as there was no trouble) and `HandledIsOver` (what was
  processed is over) give `ShutdownsAreHarmless` for any number of signals.
  Content: `StoredSoFar` says that a load of a source nobody edited has stored the
  posts whose rank is on a page before the next one, or the files it went past;
  `Quotient` and the facts on ranks and pages show that the last page ends the
  listing, for every number of posts and every page size.
* `ToolsProofs` proves about the five components of the tools that keep state.
  Workspace: while nothing overlaps one command at most is at work
  (`OneAtWork`), what it is going to write is not there unless it was forced
  (`TargetsAreFree`) and its number is above all others (`NumberIsFree`): that the
  check and the write are steps apart matters only when something comes between.
  `MaxOfBounded` gives the maximum of a set of numbers, `NextIsFree` what
  `nextNumber` returns.  `ForksNameThemselves` needs no such exception: a
  directory without its own name has a fork under way (`NamelessIsForked`).
  Tasks: `TaskInv` adds to `ExitTellsOutcome` that a command that still runs has a
  program left and met no failure it would have stopped at (`GoesOn`), and that the
  table of commands is well formed; the outcome of a list of programs is thus
  followed program by program.
  Agent: `RanksEachOnce` counts, for each profile, those before it in the order; the
  order is total, so the counts are a bijection and the ranking a permutation.  The
  bill is a sum of five amounts of which only machines and storage are not whole
  (`Billable`); `BillableAddsUp` bounds what rounding each of them moves.
  `TradeoffsAreOfNow` needs what `explain_tradeoff` holds between its two reads: its
  first total is the present cost as long as no edit came after it (`HalfIsOfNow`).
  Secrets: `SecretInv` compares `read` with the text behind it.  The name under way is
  that of the last section (`IsPending`), and every entry says, key by key, what the
  last section of its secret says there (`AreSaid`); `SectionMore` and `KeyMore` are
  what one more line changes in that.
  Configuration: `CallsFit` says of every call of `resolveYamlExtends` under way that
  it was made for the next parent of the one before it and that what an only parent
  gave it is decided by the nearest file of every chain (`Layered`), of any length.
  `MoreLayers` is the step: the file itself merged over the layers of its parent.
  `RenderedIsWhole` needs that fields have as many keys as there are of them
  (`OneKeyEach`, from `KeysDiffer` and a bijection).

Recursion over a stack and loops over lines are modelled by steps because of this:
what a recursive operator computes for every input could not be proved, what the
code has between two calls or two lines can be stated as an invariant.

Every safety and action property that a passing run checks is a theorem.
Model-checked only: the liveness properties (`DrainEnds`, `CloseReturns`,
`ThemeSettles`, `LoadEnds`, `JobsEnd`), which rest on fairness and
which the prover does not reach.  The type invariants of the modules are part of the
inductive invariants and are checked there rather than by runs of their own;
`users` checks its one as well.

## 5. What is not modelled

`PROJECT.json` lists every component with the reason.  In short: front ends,
declarative infrastructure and generated contracts have no behaviour of their
own; py-hello and rs-hello serve health checks only; CI scripts and the remaining
workflows are sequences run by one actor; the remaining launcher commands read
and print.  Within modelled parts: the content of messages, log lines and the
texts of banner and recommendations; the reasons of the MCP server's answers;
the formats of configuration values; Kafka, Postgres, pg, BullMQ, React, Kargo,
ArgoCD, Ansible's executor, GitHub and the browser are modelled from how the
repository uses them.  `PROJECT.json` gives for each component what its modules
leave out.

## 6. Plan

Done: everything above.  Left, most important first.

1. `ClusterBringUp`: `cluster.yml`, `scale.yml`, `reset.yml` with the `creates` and
   `when` guards of the roles under failing tasks and repeated runs; later a
   composition with `ClusterUpgrade` over the same inventory.
2. `Session`: the token and tenant of one request in `api-client`, `auth-client`,
   `tenancy-client`.
3. A scaffold as one atomic step, and `Workspace` shown to implement it for
   commands that do not overlap.
4. Proofs: an invariant of the whole of each component where a theorem now states
   a part of it, and the refinements of 1. and 3. step by step.
