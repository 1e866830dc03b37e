---------------------------- MODULE TenantTheme ----------------------------
(***************************************************************************)
(* TenantThemeProvider (packages/ui/src/theme/tenant.ts): one mounted      *)
(* provider whose slug may change, the storage its themes are cached in,   *)
(* and the theme endpoint, which answers late or not at all.               *)
(*                                                                         *)
(* A theme payload is the tenant it was fetched for.  A run is one call    *)
(* of the boot effect or of refetch; it keeps the slug of the render that  *)
(* started it.  Unmounting is left out: React ignores what a run sets      *)
(* afterwards.                                                             *)
(***************************************************************************)
EXTENDS Naturals, FiniteSets

CONSTANTS
  Tenants,
  MaxRuns,        \* bound: runs at a time
  MaxRequests,    \* bound: slug changes and refetches
  StableStorage   \* is one storage adapter passed in?  Without one the default
                  \* parameter makes a new adapter at every render

ASSUME ThemeAssumption == MaxRuns \in Nat \ {0} /\ MaxRequests \in Nat /\ StableStorage \in BOOLEAN

NoTheme == "base"    \* no payload: the base theme is shown
ASSUME NoThemeAssumption == NoTheme \notin Tenants

Runs == 1..MaxRuns
Payloads == Tenants \cup {NoTheme}

VARIABLES
  slug,       \* the prop
  payload,    \* state: the payload, as the tenant it was fetched for
  loading,    \* state
  failed,     \* state: is error set?
  inflight,   \* is inflight.current set?
  run,        \* run -> where it is, the slug it works for, and whether the effect
              \* started it
  cache,      \* tenant -> the entry under its cache key: whose data, and its age
  dirty,      \* was state set since the last render?
  css,        \* whose colours the document's custom properties have
  calm,       \* history: no slug change during a run, no failure
  rejected,   \* history: a read of the storage was rejected
  left        \* the changes and refetches left

themeVars == <<slug, payload, loading, failed, inflight, run, cache, dirty, css, calm, rejected,
              left>>

Idle == [at |-> "idle", for |-> NoTheme, boot |-> FALSE]
NoEntry == [of |-> NoTheme, age |-> "none"]
Busy == {i \in Runs : run[i] # Idle}

ThemeTypeOK ==
  /\ slug \in Tenants /\ payload \in Payloads /\ css \in Payloads
  /\ {loading, failed, inflight, dirty, calm, rejected} \subseteq BOOLEAN
  /\ run \in [Runs -> [at : {"idle", "reading", "fetching", "storing"}, for : Payloads,
                       boot : BOOLEAN]]
  /\ cache \in [Tenants -> [of : Payloads, age : {"none", "fresh", "stale"}]]
  /\ left \in 0..MaxRequests

-----------------------------------------------------------------------------

\* Mutant: the effect runs on mount only.
BootOnMount(t) == UNCHANGED run

\* The boot effect in a render with slug t: nothing when a boot fetch is under way,
\* otherwise storage.getItem is awaited.
Boot(t) ==
  IF inflight THEN UNCHANGED run
  ELSE \E i \in Runs \ Busy :
         run' = [run EXCEPT ![i] = [at |-> "reading", for |-> t, boot |-> TRUE]]

\* The end of a run; a run of the effect clears inflight.current, whoever set it.
End(i) ==
  /\ run' = [run EXCEPT ![i] = Idle]
  /\ inflight' = (inflight /\ ~run[i].boot)

\* Mount, with what earlier visits left in the storage.
ThemeInit ==
  /\ slug \in Tenants
  /\ payload = NoTheme /\ css = NoTheme
  /\ loading = TRUE /\ failed = FALSE /\ inflight = FALSE /\ dirty = FALSE
  /\ run = [i \in Runs |-> IF i = 1 THEN [at |-> "reading", for |-> slug, boot |-> TRUE] ELSE Idle]
  /\ \E had \in [Tenants -> {"none", "fresh", "stale"}] :
       cache = [t \in Tenants |-> IF had[t] = "none" THEN NoEntry ELSE [of |-> t, age |-> had[t]]]
  /\ calm = TRUE /\ rejected = FALSE
  /\ left = MaxRequests

\* getItem resolves: a cached theme is shown; a fresh one ends the run, anything
\* else starts doFetch.
Read(i) ==
  /\ run[i].at = "reading"
  /\ LET entry == cache[run[i].for] IN
     /\ IF entry = NoEntry
          THEN UNCHANGED <<payload, loading, dirty>>
          ELSE payload' = entry.of /\ loading' = FALSE /\ dirty' = TRUE
     /\ IF entry.age = "fresh"
          THEN run' = [run EXCEPT ![i] = Idle] /\ UNCHANGED inflight
          ELSE run' = [run EXCEPT ![i].at = "fetching"] /\ inflight' = TRUE
  /\ UNCHANGED <<slug, failed, cache, css, calm, rejected, left>>

\* getItem rejects: nothing catches it, the run is over and loading stays as it was.
Reject(i) ==
  /\ run[i].at = "reading"
  /\ run' = [run EXCEPT ![i] = Idle]
  /\ calm' = FALSE
  /\ rejected' = TRUE
  /\ UNCHANGED <<slug, payload, loading, failed, inflight, cache, dirty, css, left>>

\* doFetch, the theme arrives: it is shown and given to storage.setItem.
Arrive(i) ==
  /\ run[i].at = "fetching"
  /\ payload' = run[i].for
  /\ failed' = FALSE
  /\ dirty' = TRUE
  /\ run' = [run EXCEPT ![i].at = "storing"]
  /\ UNCHANGED <<slug, loading, inflight, cache, css, calm, rejected, left>>

\* doFetch, catch and finally: the request, or the write to the storage, failed.
Fail(i) ==
  /\ run[i].at \in {"fetching", "storing"}
  /\ failed' = TRUE
  /\ loading' = FALSE
  /\ dirty' = TRUE
  /\ calm' = FALSE
  /\ End(i)
  /\ UNCHANGED <<slug, payload, cache, css, rejected, left>>

\* Mutant: the entry is written under the key of the current slug.
StoreUnderCurrent(i) ==
  /\ run[i].at = "storing"
  /\ cache' = [cache EXCEPT ![slug] = [of |-> run[i].for, age |-> "fresh"]]
  /\ loading' = FALSE
  /\ dirty' = (dirty \/ loading)
  /\ End(i)
  /\ UNCHANGED <<slug, payload, failed, css, calm, rejected, left>>

\* doFetch, setItem resolves; finally.
Store(i) ==
  /\ run[i].at = "storing"
  /\ cache' = [cache EXCEPT ![run[i].for] = [of |-> run[i].for, age |-> "fresh"]]
  /\ loading' = FALSE
  /\ dirty' = (dirty \/ loading)
  /\ End(i)
  /\ UNCHANGED <<slug, payload, failed, css, calm, rejected, left>>

\* Mutant: the effect has no dependency list, so it runs at every render.
RenderAndBoot ==
  /\ dirty
  /\ dirty' = FALSE
  /\ css' = payload
  /\ Boot(slug)
  /\ UNCHANGED <<slug, payload, loading, failed, inflight, cache, calm, rejected, left>>

\* A render after state was set: the theme is merged and its colours written to the
\* document.  The adapter is a dependency of the effect.
Render ==
  /\ dirty
  /\ dirty' = FALSE
  /\ css' = payload
  /\ IF StableStorage THEN UNCHANGED run ELSE Boot(slug)
  /\ UNCHANGED <<slug, payload, loading, failed, inflight, cache, calm, rejected, left>>

\* A render with another slug: the payload stays until the effect replaces it.
Switch(t) ==
  /\ left > 0 /\ t # slug
  /\ slug' = t
  /\ dirty' = FALSE
  /\ css' = payload
  /\ Boot(t)
  /\ calm' = (calm /\ Busy = {})
  /\ left' = left - 1
  /\ UNCHANGED <<payload, loading, failed, inflight, cache, rejected>>

\* A consumer of the context calls refetch.
Refetch ==
  /\ left > 0
  /\ \E i \in Runs \ Busy :
       run' = [run EXCEPT ![i] = [at |-> "fetching", for |-> slug, boot |-> FALSE]]
  /\ left' = left - 1
  /\ UNCHANGED <<slug, payload, loading, failed, inflight, cache, dirty, css, calm, rejected>>

\* ttl runs out.
Age(t) ==
  /\ cache[t].age = "fresh"
  /\ left > 0
  /\ left' = left - 1
  /\ cache' = [cache EXCEPT ![t].age = "stale"]
  /\ UNCHANGED <<slug, payload, loading, failed, inflight, run, dirty, css, calm, rejected>>

Answer(i) == Read(i) \/ Reject(i) \/ Arrive(i) \/ Fail(i) \/ Store(i)

ThemeNext ==
  \/ \E i \in Runs : Answer(i)
  \/ Render
  \/ \E t \in Tenants : Switch(t) \/ Age(t)
  \/ Refetch

\* React renders what was set, and every storage call and request is answered.
ThemeFairness == WF_themeVars(Render) /\ \A i \in Runs : WF_themeVars(Answer(i))

ThemeSpec == ThemeInit /\ [][ThemeNext]_themeVars /\ ThemeFairness

-----------------------------------------------------------------------------

\* What the storage holds under a tenant's key is that tenant's theme, whatever
\* answers late and whatever the slug has become meanwhile (the closures of doFetch).
CacheIsOwn == \A t \in Tenants : cache[t].of \in {t, NoTheme}

\* If no slug changed during a run and nothing failed, a provider at rest shows and has
\* written to the document the theme of its slug.  Either condition is needed: the
\* effect skips a slug that arrives during a boot fetch, and the payload of the slug
\* before is neither dropped nor refused when it arrives late (tenant.ts:161-188).
RestShowsOwn == calm /\ Busy = {} /\ ~dirty => payload = slug /\ css = slug

\* The provider comes to rest: no call under way, nothing left to render, and loading
\* off unless the storage refused to be read ("1h client-side cache ... refresh on
\* mount", tenant.ts:4-6).
Settles == <>[](Busy = {} /\ ~dirty /\ (loading => rejected))
=============================================================================
