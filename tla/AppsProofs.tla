------------------------------ MODULE AppsProofs ------------------------------
(***************************************************************************)
(* The theorems about the components MCApps checks: consent and tracking,  *)
(* the theme provider, the queue worker and the content loaders, each      *)
(* under its own specification and for every value of its constants.       *)
(***************************************************************************)
EXTENDS ConsentTracking, TenantTheme, QueueWorker, ContentLoader, FiniteSetTheorems, TLAPS

-----------------------------------------------------------------------------
\* Consent and tracking: no tab in touch with the user's last decision lets an event
\* pass without consent.

\* Cookie and persisted store tell the last decision, unless the cookie has run
\* out.
StoresAgree ==
  /\ cookie \in {None, decision}
  /\ persisted = decision

Events == EventsHaveConsent /\ (\A e \in sent : e[1] \in Categories)

ConsentInv == TypeOK /\ StoresAgree /\ TabsKnowDecision /\ Events

LEMMA ConsentInitInv == Init => ConsentInv
<1> SUFFICES ASSUME Init PROVE ConsentInv
  OBVIOUS
<1>1. Initial \in Decisions
  <2>1. {} \in SUBSET Categories /\ Initial = {} \cup {Necessary}
    BY DEF Initial
  <2>2. QED BY <2>1 DEF Decisions
<1>2. TypeOK
  BY <1>1, ConsentAssumption DEF Init, TypeOK
<1>3. StoresAgree /\ TabsKnowDecision /\ Events
  BY DEF Init, StoresAgree, TabsKnowDecision, Events, EventsHaveConsent
<1>4. QED BY <1>2, <1>3 DEF ConsentInv

\* setGranted with the decision in force keeps what the tabs may grant.
LEMMA SetGrantedStep ==
  ASSUME TypeOK, NEW t \in Tabs, NEW d \in Decisions, SetGranted(t, d)
  PROVE  /\ granted' \in [Tabs -> Decisions]
         /\ granted'[t] = d
         /\ \A u \in Tabs \ {t} : granted'[u] = granted[u]
         /\ persisted' = d
BY DEF TypeOK, SetGranted

LEMMA LoadStep ==
  ASSUME ConsentInv, NEW t \in Tabs, Load(t)
  PROVE  ConsentInv'
<1>1. Initial \in Decisions
  <2>1. {} \in SUBSET Categories /\ Initial = {} \cup {Necessary}
    BY DEF Initial
  <2>2. QED BY <2>1 DEF Decisions
<1>2. (IF persisted = None THEN Initial ELSE persisted) \in Decisions
  BY <1>1 DEF ConsentInv, TypeOK
<1>3. TypeOK'
  BY <1>2, ConsentAssumption DEF ConsentInv, TypeOK, Load
<1>4. StoresAgree' /\ Events'
  BY DEF ConsentInv, StoresAgree, Events, EventsHaveConsent, Load
<1>5. TabsKnowDecision'
  <2>1. granted'[t] = IF decision = None THEN Initial ELSE decision
    BY DEF ConsentInv, TypeOK, StoresAgree, Load
  <2>2. QED BY <2>1 DEF ConsentInv, TypeOK, TabsKnowDecision, Load
<1>6. QED BY <1>3, <1>4, <1>5 DEF ConsentInv

LEMMA MountStep ==
  ASSUME ConsentInv, NEW t \in Tabs, Mount(t)
  PROVE  ConsentInv'
<1>1. CASE cookie = None
  <2>1. TypeOK'
    BY <1>1 DEF ConsentInv, TypeOK, Mount
  <2>2. StoresAgree' /\ Events'
    BY <1>1 DEF ConsentInv, StoresAgree, Events, EventsHaveConsent, Mount
  <2>3. TabsKnowDecision'
    BY <1>1 DEF ConsentInv, TypeOK, TabsKnowDecision, Mount
  <2>4. QED BY <2>1, <2>2, <2>3 DEF ConsentInv
<1>2. CASE cookie # None
  <2>1. cookie \in Decisions /\ cookie = decision /\ SetGranted(t, cookie)
    BY <1>2 DEF ConsentInv, TypeOK, StoresAgree, Mount
  <2>2. /\ granted' \in [Tabs -> Decisions] /\ granted'[t] = cookie /\ persisted' = cookie
        /\ \A u \in Tabs \ {t} : granted'[u] = granted[u]
    BY <2>1, SetGrantedStep DEF ConsentInv
  <2>3. TypeOK'
    BY <1>2, <2>1, <2>2 DEF ConsentInv, TypeOK, Mount
  <2>4. StoresAgree' /\ Events'
    BY <2>1, <2>2 DEF ConsentInv, StoresAgree, Events, EventsHaveConsent, Mount
  <2>5. TabsKnowDecision'
    BY <1>2, <2>1, <2>2 DEF ConsentInv, TypeOK, TabsKnowDecision, Mount
  <2>6. QED BY <2>3, <2>4, <2>5 DEF ConsentInv
<1>3. QED BY <1>1, <1>2

LEMMA DecideStep ==
  ASSUME ConsentInv, NEW t \in Tabs, NEW d \in Decisions, Decide(t, d)
  PROVE  ConsentInv'
<1>1. /\ granted' \in [Tabs -> Decisions] /\ granted'[t] = d /\ persisted' = d
      /\ \A u \in Tabs \ {t} : granted'[u] = granted[u]
  BY SetGrantedStep DEF ConsentInv, Decide
<1>2. TypeOK'
  BY <1>1 DEF ConsentInv, TypeOK, Decide
<1>3. StoresAgree' /\ Events'
  BY <1>1 DEF StoresAgree, Events, EventsHaveConsent, Decide
<1>4. TabsKnowDecision'
  <2>1. d # None
    BY DEF Decisions, None
  <2>2. QED BY <1>1, <2>1 DEF TabsKnowDecision, Decide
<1>5. QED BY <1>2, <1>3, <1>4 DEF ConsentInv

LEMMA TrackStep ==
  ASSUME ConsentInv, NEW t \in Tabs, Track(t)
  PROVE  ConsentInv'
<1>1. category[t] \in Categories
  BY DEF ConsentInv, TypeOK
<1>2. TypeOK'
  BY <1>1 DEF ConsentInv, TypeOK, Track
<1>3. StoresAgree' /\ TabsKnowDecision'
  BY DEF ConsentInv, StoresAgree, TabsKnowDecision, Track
<1>4. t \in current => category[t] \in decision
  BY <1>1, ConsentAssumption DEF ConsentInv, TypeOK, TabsKnowDecision, Initial, Track, Gate
<1>5. Events'
  BY <1>1, <1>4 DEF ConsentInv, Events, EventsHaveConsent, Track
<1>6. QED BY <1>2, <1>3, <1>5 DEF ConsentInv

LEMMA ConsentNextInv == ConsentInv /\ [Next]_vars => ConsentInv'
<1> SUFFICES ASSUME ConsentInv, [Next]_vars PROVE ConsentInv'
  OBVIOUS
<1>1. CASE UNCHANGED vars
  BY <1>1 DEF ConsentInv, TypeOK, StoresAgree, TabsKnowDecision, Events, EventsHaveConsent, vars
<1>2. CASE Expire
  BY <1>2 DEF ConsentInv, TypeOK, StoresAgree, TabsKnowDecision, Events, EventsHaveConsent, Expire
<1>3. ASSUME NEW t \in Tabs, NEW c \in Categories, Configure(t, c) PROVE ConsentInv'
  BY <1>3 DEF ConsentInv, TypeOK, StoresAgree, TabsKnowDecision, Events, EventsHaveConsent, Configure
<1>4. ASSUME NEW t \in Tabs, Unload(t) PROVE ConsentInv'
  BY <1>4 DEF ConsentInv, TypeOK, StoresAgree, TabsKnowDecision, Events, EventsHaveConsent, Unload
<1>5. QED
  BY <1>1, <1>2, <1>3, <1>4, LoadStep, MountStep, DecideStep, TrackStep DEF Next, Tab

\* What every state of consent and tracking satisfies.
THEOREM ConsentInductive == Spec => []ConsentInv
BY ConsentInitInv, ConsentNextInv, PTL DEF Spec

\* However the user's decisions, page loads, mounts, configure() and expiry of the
\* cookie interleave over any number of tabs, an event of a tab in touch with the
\* last decision has the user's consent.
THEOREM NoEventWithoutConsent == Spec => []EventsHaveConsent
<1>1. ConsentInv => EventsHaveConsent
  BY DEF ConsentInv, Events
<1>2. QED BY <1>1, ConsentInductive, PTL

\* Between load and mount, after mount and after the cookie ran out: a tab in touch
\* with the last decision grants exactly that decision, however many tabs took part
\* (banner.ts 57-64, store.ts 12-23).
THEOREM TabsFollowDecision == Spec => []TabsKnowDecision
<1>1. ConsentInv => TabsKnowDecision
  BY DEF ConsentInv
<1>2. QED BY <1>1, ConsentInductive, PTL

-----------------------------------------------------------------------------
\* The theme provider: what it shows at rest, and what it stores.

\* What run may say of one run.
RunStates ==
  [at : {"idle", "reading", "fetching", "storing"}, for : Payloads, boot : BOOLEAN]

\* The storage holds under a tenant's key an entry of that tenant or none.
EntryIsOwn ==
  \A t \in Tenants : cache[t] = NoEntry \/ (cache[t].of = t /\ cache[t].age # "none")

\* Unless the slug changed during a run or something failed, every run works for the slug, a
\* provider without a run shows it, and so does one whose run has only the storage left.
RunsForSlug ==
  calm => /\ \A i \in Runs : run[i].at # "idle" => run[i].for = slug
          /\ \A i \in Runs : run[i].at = "storing" => payload = slug
          /\ (\A i \in Runs : run[i].at = "idle") => payload = slug

\* inflight.current is set by a run of the effect that still fetches.
InflightIsRun ==
  inflight => \E i \in Runs : run[i].boot /\ run[i].at \in {"fetching", "storing"}

\* An idle run is Idle, any other is for a tenant, and only the effect reads the storage.
RunsAreWhole ==
  \A i \in Runs : /\ IF run[i].at = "idle" THEN run[i] = Idle ELSE run[i].for \in Tenants
                  /\ run[i].at = "reading" => run[i].boot

\* RestShowsOwn needs to know of every run what it will show: hence the slug a run works
\* for, that the storage keeps the tenants apart, and that a slug which comes while no run
\* is under way finds inflight.current clear, so that the effect boots it.
ThemeInv ==
  /\ ThemeTypeOK /\ EntryIsOwn /\ RunsForSlug /\ InflightIsRun /\ RunsAreWhole
  /\ ~dirty => css = payload

\* At mount the run of the effect works for the slug.
LEMMA ThemeInitInv == ThemeInit => ThemeInv
<1> SUFFICES ASSUME ThemeInit PROVE ThemeInv
  OBVIOUS
<1> USE ThemeAssumption, NoThemeAssumption
        DEF ThemeInit, Idle, NoEntry, Runs, Payloads
<1>1. PICK had \in [Tenants -> {"none", "fresh", "stale"}] :
        cache = [t \in Tenants |-> IF had[t] = "none" THEN NoEntry ELSE [of |-> t, age |-> had[t]]]
  OBVIOUS
<1>2. ThemeTypeOK
  <2>1. cache \in [Tenants -> [of : Payloads, age : {"none", "fresh", "stale"}]]
    <3>1. \A t \in Tenants : cache[t] \in [of : Payloads, age : {"none", "fresh", "stale"}]
      BY <1>1
    <3>2. QED BY <1>1, <3>1
  <2>2. run \in [Runs -> [at : {"idle", "reading", "fetching", "storing"}, for : Payloads,
                           boot : BOOLEAN]]
    OBVIOUS
  <2>3. slug \in Tenants /\ payload \in Payloads /\ css \in Payloads /\ left \in 0..MaxRequests
    OBVIOUS
  <2>4. {loading, failed, inflight, dirty, calm, rejected} \subseteq BOOLEAN
    OBVIOUS
  <2>5. QED BY <2>1, <2>2, <2>3, <2>4 DEF ThemeTypeOK
<1>3. EntryIsOwn
  BY <1>1 DEF EntryIsOwn
<1>4. RunsForSlug
  <2>1. 1 \in Runs /\ run[1].at = "reading"
    OBVIOUS
  <2>2. \A i \in Runs : run[i].at # "idle" => run[i].for = slug
    OBVIOUS
  <2>3. QED BY <2>1, <2>2 DEF RunsForSlug
<1>5. InflightIsRun /\ RunsAreWhole /\ (~dirty => css = payload)
  BY DEF InflightIsRun, RunsAreWhole
<1>6. QED BY <1>2, <1>3, <1>4, <1>5 DEF ThemeInv

\* Boot starts a run for the slug, or finds one that has set inflight.current.
LEMMA BootStep ==
  ASSUME ThemeInv, NEW t \in Tenants, Boot(t)
  PROVE  \/ run' = run /\ inflight
         \/ \E i \in Runs : /\ run[i].at = "idle"
                            /\ run' = [run EXCEPT ![i] = [at |-> "reading", for |-> t, boot |-> TRUE]]
BY DEF Boot, Busy, ThemeInv, RunsAreWhole, Idle

\* What an assignment to one run leaves of the others.
LEMMA RunSet ==
  ASSUME ThemeInv, NEW i \in Runs, NEW r \in RunStates, run' = [run EXCEPT ![i] = r]
  PROVE  /\ run' \in [Runs -> RunStates]
         /\ run'[i] = r
         /\ \A j \in Runs : j # i => run'[j] = run[j]
BY DEF ThemeInv, ThemeTypeOK, RunStates

\* The same of a run that goes on.
LEMMA RunAt ==
  ASSUME ThemeInv, NEW i \in Runs, NEW a \in {"reading", "fetching", "storing"},
         run' = [run EXCEPT ![i].at = a]
  PROVE  /\ run' \in [Runs -> RunStates]
         /\ run'[i].at = a /\ run'[i].for = run[i].for /\ run'[i].boot = run[i].boot
         /\ \A j \in Runs : j # i => run'[j] = run[j]
BY DEF ThemeInv, ThemeTypeOK, RunStates

\* The fields of an idle run.
LEMMA IdleIsRun == Idle \in RunStates /\ Idle.at = "idle" /\ Idle.boot = FALSE
BY DEF Idle, RunStates, Payloads

\* A read that ends its run, or lets it fetch.
LEMMA ReadStep == ASSUME ThemeInv, NEW i \in Runs, Read(i) PROVE ThemeInv'
<1> DEFINE t == run[i].for
           e == cache[t]
<1>1. /\ t \in Tenants /\ run[i].at = "reading" /\ run[i].boot
      /\ UNCHANGED <<slug, failed, cache, css, calm, rejected, left>>
  BY DEF Read, ThemeInv, RunsAreWhole
<1>2. e = NoEntry \/ (e.of = t /\ e # NoEntry /\ e.age # "none")
  BY <1>1, NoThemeAssumption DEF ThemeInv, EntryIsOwn, NoEntry
<1>3. \/ UNCHANGED <<payload, loading, dirty>> /\ e.age # "fresh"
      \/ payload' = t /\ dirty' = TRUE /\ loading' = FALSE
  BY <1>2 DEF Read, NoEntry
<1>4. \/ /\ payload' = t /\ run' = [run EXCEPT ![i] = Idle] /\ inflight' = inflight
      \/ /\ run' = [run EXCEPT ![i].at = "fetching"] /\ inflight' = TRUE
  BY <1>2 DEF Read, NoEntry
<1>5. /\ run' \in [Runs -> RunStates]
      /\ \A j \in Runs : j # i => run'[j] = run[j]
      /\ \/ payload' = t /\ run'[i] = Idle /\ inflight' = inflight
         \/ run'[i].at = "fetching" /\ run'[i].for = t /\ run'[i].boot = run[i].boot /\ inflight' = TRUE
  BY <1>4, RunSet, RunAt, IdleIsRun
<1>6. ThemeTypeOK'
  BY <1>1, <1>3, <1>5 DEF ThemeInv, ThemeTypeOK, Payloads, RunStates
<1>7. EntryIsOwn' /\ (~dirty' => css' = payload')
  BY <1>1, <1>3 DEF ThemeInv, EntryIsOwn
<1>8. RunsForSlug'
  <2> SUFFICES ASSUME calm PROVE RunsForSlug'
    BY <1>1 DEF RunsForSlug
  <2>1. t = slug /\ (payload' = payload \/ payload' = slug)
    BY <1>1, <1>3 DEF ThemeInv, RunsForSlug
  <2>2. QED BY <1>1, <1>5, <2>1, IdleIsRun DEF ThemeInv, RunsForSlug
<1>9. InflightIsRun'
  BY <1>1, <1>5 DEF ThemeInv, InflightIsRun, Idle, RunsAreWhole
<1>10. RunsAreWhole'
  BY <1>1, <1>5, IdleIsRun DEF ThemeInv, RunsAreWhole
<1>11. QED BY <1>6, <1>7, <1>8, <1>9, <1>10 DEF ThemeInv

\* A run that arrives at its end: what it leaves, and that inflight.current is another's.
LEMMA EndStep ==
  ASSUME ThemeInv, NEW i \in Runs, End(i), UNCHANGED <<slug, payload, css>>, dirty => dirty',
         UNCHANGED <<rejected, left>>, loading' \in BOOLEAN, failed' \in BOOLEAN, dirty' \in BOOLEAN,
         calm' => calm /\ (run[i].at = "storing"), calm' \in BOOLEAN,
         cache' = cache \/ cache' = [cache EXCEPT ![run[i].for] = [of |-> run[i].for, age |-> "fresh"]],
         run[i].at # "idle"
  PROVE  ThemeInv'
<1>1. /\ run' \in [Runs -> RunStates] /\ run'[i] = Idle
      /\ \A j \in Runs : j # i => run'[j] = run[j]
  BY RunSet, IdleIsRun DEF End
<1>2. run[i].for \in Tenants
  BY DEF ThemeInv, RunsAreWhole
<1>3. inflight' = (inflight /\ ~run[i].boot) /\ inflight' \in BOOLEAN
  BY DEF End
<1>4. cache' \in [Tenants -> [of : Payloads, age : {"none", "fresh", "stale"}]] /\ EntryIsOwn'
  BY <1>2 DEF ThemeInv, ThemeTypeOK, EntryIsOwn, Payloads
<1>5. ThemeTypeOK'
  BY <1>1, <1>3, <1>4 DEF ThemeInv, ThemeTypeOK, RunStates
<1>6. ~dirty' => css' = payload'
  BY DEF ThemeInv
<1>7. RunsForSlug'
  BY <1>1 DEF ThemeInv, RunsForSlug, Idle
<1>8. InflightIsRun'
  BY <1>1, <1>3 DEF ThemeInv, InflightIsRun
<1>9. RunsAreWhole'
  BY <1>1 DEF ThemeInv, RunsAreWhole, Idle
<1>10. QED BY <1>4, <1>5, <1>6, <1>7, <1>8, <1>9 DEF ThemeInv

LEMMA RejectStep == ASSUME ThemeInv, NEW i \in Runs, Reject(i) PROVE ThemeInv'
<1>1. /\ run' \in [Runs -> RunStates] /\ run'[i] = Idle
      /\ \A j \in Runs : j # i => run'[j] = run[j]
  BY RunSet, IdleIsRun DEF Reject
<1>2. /\ run[i].at = "reading" /\ calm' = FALSE /\ rejected' = TRUE
      /\ UNCHANGED <<slug, payload, loading, failed, inflight, cache, dirty, css, left>>
  BY DEF Reject
<1>3. ThemeTypeOK'
  BY <1>1, <1>2 DEF ThemeInv, ThemeTypeOK, RunStates
<1>4. RunsForSlug' /\ EntryIsOwn' /\ (~dirty' => css' = payload')
  BY <1>2 DEF ThemeInv, RunsForSlug, EntryIsOwn
<1>5. InflightIsRun' /\ RunsAreWhole'
  BY <1>1, <1>2 DEF ThemeInv, InflightIsRun, RunsAreWhole, Idle
<1>6. QED BY <1>3, <1>4, <1>5 DEF ThemeInv

LEMMA ArriveStep == ASSUME ThemeInv, NEW i \in Runs, Arrive(i) PROVE ThemeInv'
<1>1. /\ run' \in [Runs -> RunStates]
      /\ run'[i].at = "storing" /\ run'[i].for = run[i].for /\ run'[i].boot = run[i].boot
      /\ \A j \in Runs : j # i => run'[j] = run[j]
  BY RunAt DEF Arrive
<1>2. /\ run[i].at = "fetching" /\ run[i].for \in Tenants
      /\ payload' = run[i].for /\ failed' = FALSE /\ dirty' = TRUE
      /\ UNCHANGED <<slug, loading, inflight, cache, css, calm, rejected, left>>
  BY DEF Arrive, ThemeInv, RunsAreWhole
<1>3. ThemeTypeOK'
  BY <1>1, <1>2 DEF ThemeInv, ThemeTypeOK, RunStates, Payloads
<1>4. RunsForSlug'
  BY <1>1, <1>2 DEF ThemeInv, RunsForSlug
<1>5. EntryIsOwn' /\ (~dirty' => css' = payload')
  BY <1>2 DEF ThemeInv, EntryIsOwn
<1>6. InflightIsRun' /\ RunsAreWhole'
  BY <1>1, <1>2 DEF ThemeInv, InflightIsRun, RunsAreWhole
<1>7. QED BY <1>3, <1>4, <1>5, <1>6 DEF ThemeInv

\* A render, with the slug of before or another one, that may boot.
LEMMA BootedStep ==
  ASSUME ThemeInv, NEW t \in Tenants, slug' = t, css' = payload, dirty' = FALSE,
         (run' = run /\ t = slug) \/ Boot(t),
         calm' = calm \/ calm' = (calm /\ Busy = {}), t # slug => calm' = (calm /\ Busy = {}),
         left' \in 0..MaxRequests,
         UNCHANGED <<payload, loading, failed, inflight, cache, rejected>>
  PROVE  ThemeInv'
<1>1. \/ run' = run /\ (t = slug \/ inflight)
      \/ \E i \in Runs : /\ run[i].at = "idle"
                         /\ run' \in [Runs -> RunStates]
                         /\ run'[i] = [at |-> "reading", for |-> t, boot |-> TRUE]
                         /\ \A j \in Runs : j # i => run'[j] = run[j]
  <2>1. [at |-> "reading", for |-> t, boot |-> TRUE] \in RunStates
    BY DEF RunStates, Payloads
  <2>2. QED BY <2>1, BootStep, RunSet
<1>2. calm' => calm /\ (t # slug => /\ \A i \in Runs : run[i].at = "idle"
                                    /\ \E i \in Runs : run'[i].at = "reading")
  <2>1. Busy = {} => /\ \A i \in Runs : run[i].at = "idle"
                     /\ ~inflight
    BY DEF Busy, Idle, ThemeInv, InflightIsRun
  <2>2. calm \in BOOLEAN /\ (calm' = calm \/ calm' = (calm /\ Busy = {}))
    BY DEF ThemeInv, ThemeTypeOK
  <2>3. calm' => calm /\ (t # slug => Busy = {})
    BY <2>2
  <2>4. Busy = {} /\ t # slug => \E i \in Runs : run'[i].at = "reading"
    BY <1>1, <2>1
  <2>5. QED BY <2>1, <2>3, <2>4
<1>3. ThemeTypeOK'
  BY <1>1 DEF ThemeInv, ThemeTypeOK, RunStates
<1>4. RunsForSlug'
  BY <1>1, <1>2 DEF ThemeInv, RunsForSlug
<1>5. EntryIsOwn' /\ (~dirty' => css' = payload')
  BY DEF ThemeInv, EntryIsOwn
<1>6. InflightIsRun' /\ RunsAreWhole'
  BY <1>1 DEF ThemeInv, InflightIsRun, RunsAreWhole
<1>7. QED BY <1>3, <1>4, <1>5, <1>6 DEF ThemeInv

LEMMA RefetchStep == ASSUME ThemeInv, Refetch PROVE ThemeInv'
<1>1. PICK i \in Runs : /\ run[i].at = "idle"
                        /\ run' = [run EXCEPT ![i] = [at |-> "fetching", for |-> slug, boot |-> FALSE]]
  <2>1. \A i \in Runs \ Busy : run[i].at = "idle"
    BY IdleIsRun DEF Busy
  <2>2. QED BY <2>1 DEF Refetch
<1>2. slug \in Tenants
  BY DEF ThemeInv, ThemeTypeOK
<1>3. [at |-> "fetching", for |-> slug, boot |-> FALSE] \in RunStates
  BY <1>2 DEF RunStates, Payloads
<1>4. /\ run' \in [Runs -> RunStates]
      /\ run'[i] = [at |-> "fetching", for |-> slug, boot |-> FALSE]
      /\ \A j \in Runs : j # i => run'[j] = run[j]
  BY <1>1, <1>3, RunSet
<1>5. UNCHANGED <<slug, payload, loading, failed, inflight, cache, dirty, css, calm, rejected>>
      /\ left' \in 0..MaxRequests
  BY ThemeAssumption DEF Refetch, ThemeInv, ThemeTypeOK
<1>6. ThemeTypeOK'
  BY <1>4, <1>5 DEF ThemeInv, ThemeTypeOK, RunStates
<1>7. RunsForSlug'
  BY <1>4, <1>5 DEF ThemeInv, RunsForSlug
<1>8. EntryIsOwn' /\ (~dirty' => css' = payload')
  BY <1>5 DEF ThemeInv, EntryIsOwn
<1>9. InflightIsRun' /\ RunsAreWhole'
  BY <1>1, <1>2, <1>4, <1>5 DEF ThemeInv, InflightIsRun, RunsAreWhole
<1>10. QED BY <1>6, <1>7, <1>8, <1>9 DEF ThemeInv

LEMMA AgeStep == ASSUME ThemeInv, NEW t \in Tenants, Age(t) PROVE ThemeInv'
<1>1. cache' = [cache EXCEPT ![t].age = "stale"] /\ cache[t].age = "fresh" /\ left' \in 0..MaxRequests
  BY ThemeAssumption DEF Age, ThemeInv, ThemeTypeOK
<1>2. UNCHANGED <<slug, payload, loading, failed, inflight, run, dirty, css, calm, rejected>>
  BY DEF Age
<1>3. cache' \in [Tenants -> [of : Payloads, age : {"none", "fresh", "stale"}]] /\ EntryIsOwn'
  BY <1>1 DEF ThemeInv, ThemeTypeOK, EntryIsOwn, NoEntry
<1>4. ThemeTypeOK'
  BY <1>1, <1>2, <1>3 DEF ThemeInv, ThemeTypeOK, Payloads
<1>5. QED
  BY <1>2, <1>3, <1>4 DEF ThemeInv, RunsForSlug, InflightIsRun, RunsAreWhole

LEMMA ThemeNextInv == ThemeInv /\ [ThemeNext]_themeVars => ThemeInv'
<1> SUFFICES ASSUME ThemeInv, [ThemeNext]_themeVars PROVE ThemeInv'
  OBVIOUS
<1>1. CASE UNCHANGED themeVars
  BY <1>1 DEF themeVars, ThemeInv, ThemeTypeOK, EntryIsOwn, RunsForSlug,
              InflightIsRun, RunsAreWhole, Payloads
<1>2. ASSUME NEW i \in Runs, Fail(i) PROVE ThemeInv'
  BY <1>2, EndStep DEF Fail
<1>3. ASSUME NEW i \in Runs, Store(i) PROVE ThemeInv'
  <2>1. loading \in BOOLEAN /\ dirty \in BOOLEAN /\ failed \in BOOLEAN /\ calm \in BOOLEAN
    BY DEF ThemeInv, ThemeTypeOK
  <2>2. QED BY <1>3, <2>1, EndStep DEF Store
<1>4. CASE Render
  <2>1. slug \in Tenants /\ left \in 0..MaxRequests
    BY DEF ThemeInv, ThemeTypeOK
  <2>2. QED BY <1>4, <2>1, BootedStep DEF Render
<1>5. ASSUME NEW t \in Tenants, Switch(t) PROVE ThemeInv'
  <2>1. left' \in 0..MaxRequests
    BY <1>5, ThemeAssumption DEF Switch, ThemeInv, ThemeTypeOK
  <2>2. QED BY <1>5, <2>1, BootedStep DEF Switch
<1>6. QED
  BY <1>1, <1>2, <1>3, <1>4, <1>5, ReadStep, RejectStep, ArriveStep, RefetchStep, AgeStep
     DEF ThemeNext, Answer

\* What every state of the theme provider satisfies.
THEOREM ThemeInductive == ThemeSpec => []ThemeInv
BY ThemeInitInv, ThemeNextInv, PTL DEF ThemeSpec

\* However answers are delayed and requests repeated, with a stable storage or without, a
\* provider at rest shows the theme of its slug, if no slug came during a run and nothing
\* failed.
THEOREM RestIsOwn == ThemeSpec => []RestShowsOwn
<1>1. ThemeInv => RestShowsOwn
  BY DEF ThemeInv, RunsForSlug, RestShowsOwn, Busy, Idle
<1>2. QED BY <1>1, ThemeInductive, PTL

\* Whatever the slug becomes while a request is under way, the theme is stored under the
\* key of the tenant it was asked for.
THEOREM StorageIsOwn == ThemeSpec => []CacheIsOwn
<1>1. ThemeInv => CacheIsOwn
  BY DEF ThemeInv, EntryIsOwn, CacheIsOwn, NoEntry
<1>2. QED BY <1>1, ThemeInductive, PTL

-----------------------------------------------------------------------------
\* The queue worker: shutdowns cost no job anything.

\* The types ShutdownsAreHarmless needs.
WorkerTypes ==
  /\ pod \in [Pods -> Ended \cup Alive] /\ working \in [Pods -> SUBSET Jobs]
  /\ job \in [Jobs -> {"absent", "waiting", "active", "completed", "failed"}]
  /\ lock \in [Jobs -> SUBSET Pods] /\ stalls \in [Jobs -> Nat] /\ handled \in [Jobs -> Nat]
  /\ troubles \in Nat

\* As long as nothing went wrong, a job is processed exactly while it is active, by the pod
\* alive that has its lock,
ActiveIsWorked ==
  troubles = 0 =>
    /\ \A j \in Jobs : job[j] = "active" => \E w \in lock[j] : j \in working[w]
    /\ \A w \in Pods : \A j \in working[w] : job[j] = "active" /\ lock[j] = {w} /\ pod[w] \in Alive

\* and a job that is not over was not processed to its end.
HandledIsOver ==
  troubles = 0 =>
    \A j \in Jobs : handled[j] = 0 \/ (handled[j] = 1 /\ job[j] \in {"completed", "failed"})

\* ShutdownsAreHarmless needs to know why nothing stalls: what a closing pod processes it
\* goes on holding the lock of.
WorkerInv ==
  /\ WorkerTypes /\ ActiveIsWorked /\ HandledIsOver
  /\ troubles = 0 => \A j \in Jobs : stalls[j] = 0

LEMMA WorkerInitInv == WorkerInit => WorkerInv
BY DEF WorkerInit, WorkerInv, WorkerTypes, ActiveIsWorked, HandledIsOver, Ended, Alive

LEMMA TakeStep == ASSUME WorkerInv, NEW w \in Pods, NEW j \in Jobs, Take(w, j) PROVE WorkerInv'
<1> USE DEF Take, WorkerInv, WorkerTypes
<1>1. WorkerTypes'
  OBVIOUS
<1>2. ActiveIsWorked'
  BY DEF ActiveIsWorked, Alive
<1>3. HandledIsOver' /\ (troubles' = 0 => \A k \in Jobs : stalls'[k] = 0)
  BY DEF HandledIsOver
<1>4. QED BY <1>1, <1>2, <1>3

LEMMA ProcessStep ==
  ASSUME WorkerInv, NEW w \in Pods, NEW j \in Jobs, Process(w, j)
  PROVE  WorkerInv'
<1> USE DEF Process, WorkerInv, WorkerTypes
<1>1. WorkerTypes'
  OBVIOUS
<1>2. ActiveIsWorked'
  <2> SUFFICES ASSUME troubles = 0 PROVE ActiveIsWorked'
    BY DEF ActiveIsWorked
  <2>1. lock[j] = {w} /\ job' = [job EXCEPT ![j] = IF j \in Malformed THEN "failed" ELSE "completed"]
        /\ lock' = [lock EXCEPT ![j] = {}]
    BY DEF ActiveIsWorked
  <2>2. QED BY <2>1 DEF ActiveIsWorked
<1>3. HandledIsOver' /\ (troubles' = 0 => \A k \in Jobs : stalls'[k] = 0)
  BY DEF HandledIsOver, ActiveIsWorked
<1>4. QED BY <1>1, <1>2, <1>3

LEMMA StallStep == ASSUME WorkerInv, NEW j \in Jobs, Stall(j) PROVE WorkerInv'
<1> USE DEF Stall, WorkerInv, WorkerTypes
<1>1. troubles' # 0
  BY DEF ActiveIsWorked
<1>2. QED BY <1>1 DEF ActiveIsWorked, HandledIsOver

LEMMA WorkerNextInv == WorkerInv /\ [WorkerNext]_workerVars => WorkerInv'
<1> SUFFICES ASSUME WorkerInv, [WorkerNext]_workerVars PROVE WorkerInv'
  OBVIOUS
<1> USE DEF WorkerInv, WorkerTypes, ActiveIsWorked, HandledIsOver, Ended, Alive
<1>1. CASE UNCHANGED workerVars
  BY <1>1 DEF workerVars
<1>2. ASSUME NEW w \in Pods, Bootstrap(w) PROVE WorkerInv'
  BY <1>2 DEF Bootstrap
<1>3. ASSUME NEW w \in Pods, Signal(w) PROVE WorkerInv'
  BY <1>3 DEF Signal
<1>4. ASSUME NEW w \in Pods, Closed(w) PROVE WorkerInv'
  BY <1>4 DEF Closed
<1>5. ASSUME NEW w \in Pods, Stop(w) PROVE WorkerInv'
  BY <1>5 DEF Stop
<1>6. ASSUME NEW j \in Jobs, Enqueue(j) PROVE WorkerInv'
  BY <1>6 DEF Enqueue
<1>7. QED
  BY <1>1, <1>2, <1>3, <1>4, <1>5, <1>6, TakeStep, ProcessStep, StallStep DEF WorkerNext

\* What every state of the queue worker satisfies.
THEOREM WorkerInductive == WorkerSpec => []WorkerInv
BY WorkerInitInv, WorkerNextInv, PTL DEF WorkerSpec

\* Any number of pods, shut down and started again at any time, lose and repeat no job, as
\* long as none crashes, blocks or fails to close.
THEOREM ShutdownCostsNothing == WorkerSpec => []ShutdownsAreHarmless
<1>1. WorkerInv => ShutdownsAreHarmless
  BY DEF WorkerInv, WorkerTypes, HandledIsOver, ShutdownsAreHarmless
<1>2. QED BY <1>1, WorkerInductive, PTL

-----------------------------------------------------------------------------
\* The content loaders: the pages of a listing make it up.

ContentTypes ==
  /\ published \in SUBSET Posts
  /\ mode \in {"payload", "decap", "decap-path"}
  /\ load \in {"idle", mode}
  /\ pageNo \in Nat /\ loads \in Nat

\* What the source has now was listed,
ListedHasSource == loads > 0 => Source \subseteq listed

\* a load under way has no outcome yet,
UnderWay == load # "idle" => loads > 0 /\ outcome = "none"

\* and of a source that was not edited it stored what it went past: the posts of the pages
\* before the next one, which is there, or the files it read.
StoredSoFar ==
  ~edited =>
    /\ load = "payload" =>
         /\ pageNo \in 1..Pages
         /\ store = {p \in published : (Rank(p) - 1) \div Limit < pageNo - 1}
    /\ load \in {"decap", "decap-path"} =>
         todo \subseteq files /\ store = {Id(f) : f \in files \ todo}

ContentInv == ContentTypes /\ ListedHasSource /\ UnderWay /\ StoredSoFar /\ StoreIsListing

\* What a quotient is.
LEMMA Quotient ==
  ASSUME NEW a \in Nat, NEW d \in Nat \ {0}
  PROVE  a \div d \in Nat /\ d * (a \div d) <= a /\ a < d * (a \div d) + d
OBVIOUS

\* There is at least one page, and no post lies behind the last.
LEMMA PagesAreEnough ==
  ASSUME published \in SUBSET Posts
  PROVE  /\ Pages \in Nat \ {0}
         /\ \A p \in published : (Rank(p) - 1) \div Limit \in 0..Pages - 1
<1> DEFINE c == Cardinality(published)
           n == (c + Limit - 1) \div Limit
<1>1. IsFiniteSet(published) /\ Limit \in Nat \ {0}
  BY FS_Subset, ContentAssumption
<1>2. c \in Nat
  BY <1>1, FS_CardinalityType
<1>3. n \in Nat /\ c + Limit - 1 < Limit * n + Limit
  <2> HIDE DEF c
  <2>1. c + Limit - 1 \in Nat
    BY <1>1, <1>2
  <2>2. QED BY <1>1, <2>1, Quotient
<1>4. Pages \in Nat /\ Pages >= 1 /\ Pages >= n
  <2> HIDE DEF n
  <2>1. \E m \in {1, n} : \A y \in {1, n} : m >= y
    BY <1>3
  <2>2. Max({1, n}) \in {1, n} /\ \A y \in {1, n} : Max({1, n}) >= y
    BY <2>1 DEF Max
  <2>3. QED BY <1>3, <2>2 DEF Pages, n
<1>5. ASSUME NEW p \in published
      PROVE  (Rank(p) - 1) \div Limit \in 0..Pages - 1
  <2> DEFINE upto == {q \in published : q <= p}
             r == Cardinality(upto)
             d == (r - 1) \div Limit
  <2>1. upto \in SUBSET published /\ p \in upto
    BY ContentAssumption
  <2> HIDE DEF upto
  <2>2. IsFiniteSet(upto) /\ r <= c
    BY <1>1, <2>1, FS_Subset
  <2>3. r \in Nat \ {0}
    BY <2>1, <2>2, FS_CardinalityType, FS_EmptySet
  <2> HIDE DEF c, r
  <2>4. d \in Nat /\ Limit * d <= r - 1
    BY <1>1, <2>3, Quotient
  <2> HIDE DEF d, n
  <2>5. d < n
    <3>1. Limit * d < Limit * n
      BY <1>1, <1>2, <1>3, <2>2, <2>3, <2>4
    <3>2. ASSUME n <= d PROVE Limit * n <= Limit * d
      <4>1. d - n \in Nat /\ Limit * (d - n) \in Nat
        BY <1>1, <1>3, <2>4, <3>2
      <4>2. Limit * d = Limit * n + Limit * (d - n)
        BY <1>1, <1>3, <2>4
      <4>3. Limit * n \in Nat /\ Limit * d \in Nat
        BY <1>1, <1>3, <2>4
      <4>4. QED BY <4>1, <4>2, <4>3
    <3>3. Limit * n \in Nat /\ Limit * d \in Nat
      BY <1>1, <1>3, <2>4
    <3>4. QED BY <1>3, <2>4, <3>1, <3>2, <3>3
  <2>6. (Rank(p) - 1) \div Limit = d
    BY DEF Rank, d, r, upto
  <2>7. QED BY <1>3, <1>4, <2>4, <2>5, <2>6
<1>6. QED BY <1>4, <1>5

\* Before the first load nothing is stored.
LEMMA ContentInitInv == ContentInit => ContentInv
BY DEF ContentInit, ContentInv, ContentTypes, ListedHasSource, UnderWay, StoredSoFar, StoreIsListing

\* A load starts with an empty store, at the first page or with every file to read.
LEMMA StartStep == ASSUME ContentInv, Start PROVE ContentInv'
<1>1. /\ UNCHANGED <<published, files, mode>> /\ loads' = loads + 1 /\ pageNo' = 1
      /\ store' = {} /\ listed' = Source /\ edited' = FALSE
      /\ load' = IF mode # "payload" /\ files = {} THEN "idle" ELSE mode
      /\ todo' = IF mode = "payload" THEN {} ELSE files
      /\ outcome' = IF load' = "idle" THEN "loaded" ELSE "none"
  BY DEF Start
<1>2. ContentTypes' /\ loads' > 0
  BY <1>1 DEF ContentInv, ContentTypes
<1>3. Source' = Source /\ Pages' = Pages
  BY <1>1 DEF Source, Id, Pages
<1>4. ListedHasSource' /\ UnderWay'
  BY <1>1, <1>2, <1>3 DEF ListedHasSource, UnderWay
<1>5. StoredSoFar'
  <2>1. 1 \in 1..Pages' /\ \A p \in published' : ~((Rank(p)' - 1) \div Limit < 0)
    <3>1. Pages \in Nat \ {0} /\ \A p \in published : (Rank(p) - 1) \div Limit \in 0..Pages - 1
      BY PagesAreEnough DEF ContentInv, ContentTypes
    <3>2. \A p : Rank(p)' = Rank(p)
      BY <1>1 DEF Rank
    <3>3. QED BY <1>1, <1>3, <3>1, <3>2
  <2>2. load' = "payload" => pageNo' \in 1..Pages' /\
          store' = {p \in published' : (Rank(p)' - 1) \div Limit < pageNo' - 1}
    BY <1>1, <2>1
  <2>3. load' \in {"decap", "decap-path"} => todo' = files' /\ store' = {}
    BY <1>1
  <2>4. QED BY <2>2, <2>3 DEF StoredSoFar
<1>6. StoreIsListing'
  <2>1. outcome' = "loaded" => Source' = {}
    BY <1>1, <1>3 DEF Source, ContentInv, ContentTypes
  <2>2. QED BY <1>1, <2>1 DEF StoreIsListing
<1>7. QED BY <1>2, <1>4, <1>5, <1>6 DEF ContentInv

\* A page is answered.
LEMMA FetchPageStep == ASSUME ContentInv, FetchPage PROVE ContentInv'
<1>1. /\ UNCHANGED <<published, files, mode, todo, listed, edited, loads>>
      /\ load = "payload" /\ mode = "payload"
      /\ store' = store \cup PageOf(pageNo) /\ pageNo' = pageNo + 1
      /\ load' = IF pageNo + 1 <= Pages THEN load ELSE "idle"
      /\ outcome' = IF pageNo + 1 <= Pages THEN outcome ELSE "loaded"
      /\ loads > 0 /\ outcome = "none" /\ pageNo \in Nat
  BY DEF FetchPage, ContentInv, ContentTypes, UnderWay
<1>2. /\ Pages \in Nat \ {0}
      /\ \A p \in published : (Rank(p) - 1) \div Limit \in 0..Pages - 1
  BY PagesAreEnough DEF ContentInv, ContentTypes
<1>3. Source' = Source /\ Pages' = Pages /\ Source = published /\ \A p : Rank(p)' = Rank(p)
  BY <1>1 DEF Source, Pages, Rank
<1>4. ContentTypes' /\ ListedHasSource' /\ UnderWay'
  BY <1>1, <1>3 DEF ContentInv, ContentTypes, ListedHasSource, UnderWay
<1>5. ~edited => /\ pageNo \in 1..Pages
                 /\ store' = {p \in published : (Rank(p) - 1) \div Limit < pageNo' - 1}
  <2>1. SUFFICES ASSUME ~edited
                 PROVE  /\ pageNo \in 1..Pages
                        /\ store' = {p \in published : (Rank(p) - 1) \div Limit < pageNo' - 1}
    OBVIOUS
  <2>2. /\ pageNo \in 1..Pages
        /\ store = {p \in published : (Rank(p) - 1) \div Limit < pageNo - 1}
    BY <1>1, <2>1 DEF ContentInv, StoredSoFar
  <2>3. \A p \in published : (Rank(p) - 1) \div Limit < pageNo' - 1 <=>
          \/ (Rank(p) - 1) \div Limit < pageNo - 1
          \/ (Rank(p) - 1) \div Limit = pageNo - 1
    BY <1>1, <1>2
  <2>4. QED BY <1>1, <2>2, <2>3 DEF PageOf
<1>6. StoredSoFar'
  BY <1>1, <1>2, <1>3, <1>5 DEF StoredSoFar
<1>7. StoreIsListing'
  <2>1. store' \subseteq listed'
    BY <1>1, <1>3 DEF ContentInv, StoreIsListing, ListedHasSource, PageOf
  <2>2. outcome' = "loaded" /\ ~edited' => store' = published
    <3>1. SUFFICES ASSUME outcome' = "loaded", ~edited PROVE store' = published
      BY <1>1
    <3>2. ~(pageNo + 1 <= Pages)
      BY <1>1, <3>1
    <3>3. \A p \in published : (Rank(p) - 1) \div Limit < pageNo' - 1
      BY <1>1, <1>2, <3>2
    <3>4. QED BY <1>5, <3>1, <3>3
  <2>3. QED BY <1>3, <2>1, <2>2 DEF StoreIsListing
<1>8. QED BY <1>4, <1>6, <1>7 DEF ContentInv

\* A file is read.
LEMMA ReadFileStep == ASSUME ContentInv, NEW f \in todo, ReadFile(f) PROVE ContentInv'
<1>1. /\ UNCHANGED <<published, files, mode, pageNo, listed, edited, loads>>
      /\ load \in {"decap", "decap-path"} /\ mode = load /\ todo' = todo \ {f}
      /\ loads > 0 /\ outcome = "none"
  BY DEF ReadFile, ContentInv, ContentTypes, UnderWay
<1>2. Source' = Source /\ Source = {Id(g) : g \in files} /\ \A g : Id(g)' = Id(g)
  BY <1>1 DEF Source, Id
<1>3. CASE f \notin files
  <2>1. load' = "idle" /\ outcome' = "threw" /\ store' = store
    BY <1>3 DEF ReadFile
  <2>2. QED
    BY <1>1, <1>2, <2>1 DEF ContentInv, ContentTypes, ListedHasSource, UnderWay, StoredSoFar, StoreIsListing
<1>4. CASE f \in files
  <2>1. /\ store' = store \cup {Id(f)}
        /\ load' = IF todo' = {} THEN "idle" ELSE load
        /\ outcome' = IF todo' = {} THEN "loaded" ELSE outcome
    BY <1>4 DEF ReadFile
  <2>2. ContentTypes' /\ ListedHasSource' /\ UnderWay'
    BY <1>1, <1>2, <2>1 DEF ContentInv, ContentTypes, ListedHasSource, UnderWay
  <2>3. ~edited => todo' \subseteq files /\ store' = {Id(g) : g \in files \ todo'}
    <3>1. SUFFICES ASSUME ~edited
                   PROVE  todo' \subseteq files /\ store' = {Id(g) : g \in files \ todo'}
      OBVIOUS
    <3>2. todo \subseteq files /\ store = {Id(g) : g \in files \ todo}
      BY <1>1, <3>1 DEF ContentInv, StoredSoFar
    <3>3. files \ todo' = (files \ todo) \cup {f}
      BY <1>1, <1>4
    <3>4. QED BY <1>1, <2>1, <3>2, <3>3
  <2>4. StoredSoFar'
    <3>1. {Id(g)' : g \in files' \ todo'} = {Id(g) : g \in files \ todo'}
      BY <1>1, <1>2
    <3>2. load' # "payload"
      BY <1>1, <2>1
    <3>3. QED BY <1>1, <2>3, <3>1, <3>2 DEF StoredSoFar
  <2>5. StoreIsListing'
    <3>1. store' \subseteq listed'
      <4>1. Id(f) \in Source
        BY <1>2, <1>4
      <4>2. QED BY <1>1, <2>1, <4>1 DEF ContentInv, StoreIsListing, ListedHasSource
    <3>2. outcome' = "loaded" => todo' = {}
      BY <1>1, <2>1
    <3>3. todo' = {} /\ ~edited => store' = Source
      BY <1>2, <2>3
    <3>4. QED BY <1>1, <1>2, <3>1, <3>2, <3>3 DEF StoreIsListing
  <2>6. QED BY <2>2, <2>4, <2>5 DEF ContentInv
<1>5. QED BY <1>3, <1>4

\* A fetch fails, or the source is edited.
LEMMA FailOrEditStep == ASSUME ContentInv, FetchFails \/ Edit PROVE ContentInv'
<1>1. CASE FetchFails
  <2>1. /\ UNCHANGED <<published, files, mode, pageNo, todo, store, listed, edited, loads>>
        /\ load' = "idle" /\ outcome' \in {"warned", "threw"}
    BY <1>1 DEF FetchFails
  <2>2. Source' = Source
    BY <2>1 DEF Source, Id
  <2>3. QED
    BY <2>1, <2>2 DEF ContentInv, ContentTypes, ListedHasSource, UnderWay, StoredSoFar, StoreIsListing
<1>2. CASE Edit
  <2>1. /\ UNCHANGED <<mode, load, pageNo, todo, store, outcome, loads>> /\ edited' = TRUE
        /\ listed' = listed \cup Source'
    BY <1>2 DEF Edit
  <2>2. published' \in SUBSET Posts
    BY <1>2 DEF Edit, ContentInv, ContentTypes
  <2>3. QED
    BY <2>1, <2>2 DEF ContentInv, ContentTypes, ListedHasSource, UnderWay, StoredSoFar, StoreIsListing
<1>3. QED BY <1>1, <1>2

LEMMA ContentNextInv == ContentInv /\ [ContentNext]_contentVars => ContentInv'
<1>1. ASSUME ContentInv, UNCHANGED contentVars PROVE ContentInv'
  <2>1. Source' = Source /\ Pages' = Pages /\ (\A p : Rank(p)' = Rank(p)) /\ (\A f : Id(f)' = Id(f))
    BY <1>1 DEF contentVars, Source, Pages, Rank, Id
  <2>2. ContentTypes' /\ ListedHasSource' /\ UnderWay' /\ StoreIsListing'
    BY <1>1, <2>1 DEF contentVars, ContentInv, ContentTypes, ListedHasSource, UnderWay, StoreIsListing
  <2>3. StoredSoFar'
    BY <1>1, <2>1 DEF contentVars, ContentInv, StoredSoFar
  <2>4. QED BY <2>2, <2>3 DEF ContentInv
<1>2. QED
  BY <1>1, StartStep, FetchPageStep, ReadFileStep, FailOrEditStep DEF ContentNext, Step

\* The content store holds nothing its source did not list during the load, and all of a
\* source nobody edited, however many posts there are and whatever the page size is
\* (loader.ts: store.clear, and the pages up to totalPages).
THEOREM ListingIsStored == ContentSpec => []StoreIsListing
<1>1. ContentInv => StoreIsListing
  BY DEF ContentInv
<1>2. QED BY <1>1, ContentInitInv, ContentNextInv, PTL DEF ContentSpec
=============================================================================
