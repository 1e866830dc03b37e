------------------------------- MODULE MCApps -------------------------------
(***************************************************************************)
(* Consent and tracking, the theme provider, the content loaders, the      *)
(* queue worker and the database client.  They share no state, so each     *)
(* behaviour exercises one of them, the scene: the interleavings of two    *)
(* scenes would add nothing but states.                                    *)
(***************************************************************************)
EXTENDS ConsentTracking, TenantTheme, ContentLoader, QueueWorker, DbClient

VARIABLE scene

\* A page of posts that does not divide their number, and two files with one basename.
MCFiles == {<<"posts", "index">>, <<"docs", "index">>, <<"docs", "faq">>}

AppsInit ==
  /\ scene \in {"consent", "theme", "content", "worker", "db"}
  /\ Init /\ ThemeInit /\ ContentInit /\ WorkerInit /\ DbInit
  \* of a component that is not the scene, one initial state is enough
  /\ scene # "theme" => slug = "t1" /\ \A t \in Tenants : cache[t] = NoEntry
  /\ scene # "content" => published = {} /\ mode = "payload"
  /\ scene # "worker" => config

appsVars == <<scene, vars, themeVars, contentVars, workerVars, dbVars>>

\* A step of one component, in its scene.
InConsent(A) ==
  scene = "consent" /\ A /\ UNCHANGED <<scene, themeVars, contentVars, workerVars, dbVars>>
InTheme(A) == scene = "theme" /\ A /\ UNCHANGED <<scene, vars, contentVars, workerVars, dbVars>>
InContent(A) == scene = "content" /\ A /\ UNCHANGED <<scene, vars, themeVars, workerVars, dbVars>>
InWorker(A) == scene = "worker" /\ A /\ UNCHANGED <<scene, vars, themeVars, contentVars, dbVars>>
InDb(A) == scene = "db" /\ A /\ UNCHANGED <<scene, vars, themeVars, contentVars, workerVars>>

AppsNext ==
  \/ InConsent(Next) \/ InTheme(ThemeNext) \/ InContent(ContentNext)
  \/ InWorker(WorkerNext) \/ InDb(DbNext)

\* ThemeFairness, ContentFairness, WorkerFairness and that of DbFairSpec, each in its scene.
AppsFairness ==
  /\ WF_appsVars(InTheme(Render)) /\ \A i \in Runs : WF_appsVars(InTheme(Answer(i)))
  /\ WF_appsVars(InContent(Step))
  /\ \A w \in Pods : WF_appsVars(InWorker(Bootstrap(w))) /\ WF_appsVars(InWorker(Closed(w)))
  /\ \A w \in Pods, j \in Jobs : WF_appsVars(InWorker(Process(w, j)))
  /\ \A j \in Jobs : /\ WF_appsVars(InWorker(\E w \in Pods : Take(w, j)))
                     /\ WF_appsVars(InWorker(Stall(j)))
  /\ WF_appsVars(InDb(Progress))

AppsSpec == AppsInit /\ [][AppsNext]_appsVars /\ AppsFairness

\* The liveness properties of the scenes (TenantTheme, ContentLoader, QueueWorker).
ThemeSettles == scene = "theme" => Settles
JobsEnd == scene = "worker" => EveryJobEnds
=============================================================================
