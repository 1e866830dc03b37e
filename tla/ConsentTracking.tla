-------------------------- MODULE ConsentTracking --------------------------
(***************************************************************************)
(* Consent and tracking in the tabs of one browser (packages/consent,      *)
(* packages/tracking).  A decision is kept in two places the tabs share:   *)
(* the banner's cookie and the persisted store; each tab reads the store   *)
(* once, when its scripts load, and works from its own copy afterwards.    *)
(* track, identify and page consult that copy.                             *)
(*                                                                         *)
(* A decision is a set of categories with "necessary", which is read-only, *)
(* in it.                                                                  *)
(***************************************************************************)
EXTENDS FiniteSets

CONSTANTS
  Tabs,         \* the browser's tabs
  Categories,   \* the optional consent categories
  Default       \* the category that gates events unless configured otherwise

Necessary == "necessary"

ASSUME ConsentAssumption == Default \in Categories /\ Necessary \notin Categories

Decisions == {d \cup {Necessary} : d \in SUBSET Categories}
None == {}    \* no cookie, nothing persisted, nothing decided

VARIABLES
  cookie,     \* the banner's cookie: a decision, or None
  persisted,  \* localStorage "pkg-consent": a decision, or None
  page,       \* tab -> "closed", "loaded" (store created) or "mounted" (banner run)
  granted,    \* tab -> granted, of the tab's own store
  shown,      \* tab -> the decision the tab's banner knows of, or None
  category,   \* tab -> CONFIG.consentCategory
  decision,   \* what the user decided last, in any tab
  current,    \* the tabs that loaded, or decided, since that decision
  sent        \* the events since that decision: <<category of the gate, "current"
              \* or, from another tab, "behind">>

vars == <<cookie, persisted, page, granted, shown, category, decision, current, sent>>

\* The initial state of the store.
Initial == {Necessary}

Init ==
  /\ cookie = None
  /\ persisted = None
  /\ page = [t \in Tabs |-> "closed"]
  /\ granted = [t \in Tabs |-> Initial]
  /\ shown = [t \in Tabs |-> None]
  /\ category = [t \in Tabs |-> Default]
  /\ decision = None
  /\ current = {}
  /\ sent = {}

-----------------------------------------------------------------------------

\* setGranted, called in t with the categories of the cookie: set() and the write
\* of the persist middleware.
SetGranted(t, d) ==
  /\ granted' = [granted EXCEPT ![t] = d]
  /\ persisted' = d

\* Mutant: the store is not persisted.
LoadUnpersisted(t) ==
  /\ page[t] = "closed"
  /\ page' = [page EXCEPT ![t] = "loaded"]
  /\ granted' = [granted EXCEPT ![t] = Initial]
  /\ shown' = [shown EXCEPT ![t] = None]
  /\ category' = [category EXCEPT ![t] = Default]
  /\ current' = current \cup {t}
  /\ UNCHANGED <<cookie, persisted, decision, sent>>

\* The scripts of a page load: the store starts from what is persisted, CONFIG
\* and the banner anew.
Load(t) ==
  /\ page[t] = "closed"
  /\ page' = [page EXCEPT ![t] = "loaded"]
  /\ granted' = [granted EXCEPT ![t] = IF persisted = None THEN Initial ELSE persisted]
  /\ shown' = [shown EXCEPT ![t] = None]
  /\ category' = [category EXCEPT ![t] = Default]
  /\ current' = current \cup {t}
  /\ UNCHANGED <<cookie, persisted, decision, sent>>

\* mountConsentBanner: with a cookie the banner calls onConsent, without one it
\* asks.
Mount(t) ==
  /\ page[t] = "loaded"
  /\ page' = [page EXCEPT ![t] = "mounted"]
  /\ shown' = [shown EXCEPT ![t] = cookie]
  /\ IF cookie = None
       THEN UNCHANGED <<granted, persisted, current>>
       ELSE SetGranted(t, cookie) /\ current' = current \cup {t}
  /\ UNCHANGED <<cookie, category, decision, sent>>

\* Mutant: onChange is not wired to the store.
DecideOnce(t, d) ==
  /\ page[t] = "mounted"
  /\ shown[t] # d
  /\ cookie' = d
  /\ shown' = [shown EXCEPT ![t] = d]
  /\ IF shown[t] = None THEN SetGranted(t, d) ELSE UNCHANGED <<granted, persisted>>
  /\ decision' = d
  /\ current' = {t}
  /\ sent' = {}
  /\ UNCHANGED <<page, category>>

\* The user decides in t, for the first time (onConsent) or otherwise than the
\* banner of t shows (onChange).
Decide(t, d) ==
  /\ page[t] = "mounted"
  /\ shown[t] # d
  /\ cookie' = d
  /\ shown' = [shown EXCEPT ![t] = d]
  /\ SetGranted(t, d)
  /\ decision' = d
  /\ current' = {t}
  /\ sent' = {}
  /\ UNCHANGED <<page, category>>

\* configure: CONFIG is replaced, with the default where cfg names no category.
Configure(t, c) ==
  /\ page[t] # "closed"
  /\ category' = [category EXCEPT ![t] = c]
  /\ UNCHANGED <<cookie, persisted, page, granted, shown, decision, current, sent>>

\* hasConsent of the configured category, in the store of t.
Gate(t) == category[t] \in granted[t]

\* track, identify or page.
Track(t) ==
  /\ page[t] # "closed"
  /\ Gate(t)
  /\ sent' = sent \cup {<<category[t], IF t \in current THEN "current" ELSE "behind">>}
  /\ UNCHANGED <<cookie, persisted, page, granted, shown, category, decision, current>>

\* The tab is closed or navigates away.
Unload(t) ==
  /\ page[t] # "closed"
  /\ page' = [page EXCEPT ![t] = "closed"]
  /\ UNCHANGED <<cookie, persisted, granted, shown, category, decision, current, sent>>

\* The banner's cookie runs out, or the user deletes the cookies.
Expire ==
  /\ cookie # None
  /\ cookie' = None
  /\ UNCHANGED <<persisted, page, granted, shown, category, decision, current, sent>>

Tab(t) ==
  \/ Load(t)
  \/ Mount(t)
  \/ \E d \in Decisions : Decide(t, d)
  \/ \E c \in Categories : Configure(t, c)
  \/ Track(t)
  \/ Unload(t)

Next == Expire \/ \E t \in Tabs : Tab(t)

Spec == Init /\ [][Next]_vars

-----------------------------------------------------------------------------
(* Properties *)

TypeOK ==
  /\ {cookie, persisted, decision} \subseteq Decisions \cup {None}
  /\ page \in [Tabs -> {"closed", "loaded", "mounted"}]
  /\ granted \in [Tabs -> Decisions]
  /\ shown \in [Tabs -> Decisions \cup {None}]
  /\ category \in [Tabs -> Categories]
  /\ current \subseteq Tabs
  /\ sent \subseteq Categories \X {"current", "behind"}

\* No event of a tab that loaded, or in which the user decided, since the last
\* decision passes on a category the user has not granted: neither the order of
\* load, mount and decision in several tabs nor a configure() between them lets
\* one through (tracking/README.md, "No event fires without the relevant consent
\* category granted").  A tab that stays open while the user withdraws in
\* another one is excepted: it works on from its copy.
EventsHaveConsent == \A e \in sent : e[2] = "current" => e[1] \in decision

\* A tab in touch with the last decision grants exactly what the user decided, no more
\* and no less, also between its load and its mount and after the cookie ran out:
\* whichever of the two stores the tab goes by, it tells the last decision, although
\* they are written one by one and from several tabs (banner.ts:57-64, store.ts:12-23).
TabsKnowDecision ==
  \A t \in current :
    page[t] # "closed" => granted[t] = IF decision = None THEN Initial ELSE decision

\* "No event fires without the relevant consent category granted": of every tab, those
\* included that were open when the user decided in another one.
EveryEventHasConsent == \A e \in sent : e[1] \in decision
=============================================================================
