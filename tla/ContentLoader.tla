--------------------------- MODULE ContentLoader ---------------------------
(***************************************************************************)
(* The loaders that fill Astro's content store (packages/cms-client) and   *)
(* the two sources they read while others edit them: the posts of the CMS  *)
(* (apps/cms), fetched page by page by offset, and the Markdown files of   *)
(* the working tree, globbed and then read one by one.  The store outlives *)
(* a build, so a load finds what the load before it left.                  *)
(*                                                                         *)
(* A post is its place in the order the API lists them in; what an entry   *)
(* says is left out.                                                       *)
(***************************************************************************)
EXTENDS Naturals, FiniteSets, FiniteSetsExt

CONSTANTS
  Posts,      \* a set of numbers: the posts there may be, in the order of the API
  Files,      \* the Markdown files, each <<directory, basename>>
  Limit,      \* the page size
  MaxEdits,   \* bound: edits of a source
  MaxLoads    \* bound: loads

ASSUME ContentAssumption ==
  /\ Posts \subseteq Nat /\ IsFiniteSet(Posts)
  /\ Limit \in Nat \ {0} /\ MaxEdits \in Nat /\ MaxLoads \in Nat

VARIABLES
  published,   \* the posts with _status = published
  files,       \* the files on disk
  mode,        \* the loader: "payload", "decap" or, with useRelativePathAsId, "decap-path"
  load,        \* the mode of the load under way, or "idle"
  pageNo, total, \* page, totalPages
  todo,        \* the globbed files not read yet
  store,       \* the ids of the entries
  outcome,     \* the end of the last load: "none", "loaded", "warned" (a page was
               \* not answered) or "threw"
  listed,      \* history: the ids the source had at some time during the load
  edited,      \* history: was the source edited during the load?
  edits, loads

contentVars == <<published, files, mode, load, pageNo, total, todo, store, outcome, listed,
                 edited, edits, loads>>

-----------------------------------------------------------------------------

\* What the API lists to a client that is not an admin, a page at a time.
Rank(p) == Cardinality({q \in published : q <= p})
PageOf(n) == {p \in published : (Rank(p) - 1) \div Limit = n - 1}
Pages == Max({1, (Cardinality(published) + Limit - 1) \div Limit})

\* The id of a file's entry: its basename, or its path.
Id(f) == IF mode = "decap" THEN f[2] ELSE f

\* What a load that meets no edit and no failure stores.
Source == IF mode = "payload" THEN published ELSE {Id(f) : f \in files}

ContentInit ==
  /\ published \in SUBSET Posts
  /\ files = Files
  /\ mode \in {"payload", "decap", "decap-path"}
  /\ load = "idle" /\ pageNo = 1 /\ total = 1 /\ todo = {}
  /\ store = {} /\ outcome = "none" /\ listed = {} /\ edited = FALSE
  /\ edits = 0 /\ loads = 0

\* Mutant: the store is not cleared first.
StartUncleared ==
  /\ load = "idle" /\ loads < MaxLoads
  /\ load' = IF mode # "payload" /\ files = {} THEN "idle" ELSE mode
  /\ pageNo' = 1 /\ total' = 1
  /\ todo' = IF mode = "payload" THEN {} ELSE files
  /\ UNCHANGED store
  /\ outcome' = IF load' = "idle" THEN "loaded" ELSE "none"
  /\ listed' = Source /\ edited' = FALSE
  /\ loads' = loads + 1
  /\ UNCHANGED <<published, files, mode, edits>>

\* load() is called: the store is cleared; the git loader globs.
Start ==
  /\ load = "idle" /\ loads < MaxLoads
  /\ load' = IF mode # "payload" /\ files = {} THEN "idle" ELSE mode
  /\ pageNo' = 1 /\ total' = 1
  /\ todo' = IF mode = "payload" THEN {} ELSE files
  /\ store' = {}
  /\ outcome' = IF load' = "idle" THEN "loaded" ELSE "none"
  /\ listed' = Source /\ edited' = FALSE
  /\ loads' = loads + 1
  /\ UNCHANGED <<published, files, mode, edits>>

\* Mutant: the loop ends before the last page.
FetchPageBut ==
  /\ load = "payload" /\ pageNo <= total
  /\ store' = store \cup PageOf(pageNo)
  /\ total' = Pages
  /\ pageNo' = pageNo + 1
  /\ load' = IF pageNo + 1 < Pages THEN load ELSE "idle"
  /\ outcome' = IF pageNo + 1 < Pages THEN outcome ELSE "loaded"
  /\ UNCHANGED <<published, files, mode, todo, listed, edited, edits, loads>>

\* Mutant: the page number is not advanced.
FetchPageAgain ==
  /\ load = "payload" /\ pageNo <= total
  /\ store' = store \cup PageOf(pageNo)
  /\ total' = Pages
  /\ load' = IF pageNo + 1 <= Pages THEN load ELSE "idle"
  /\ outcome' = IF pageNo + 1 <= Pages THEN outcome ELSE "loaded"
  /\ UNCHANGED <<published, files, mode, pageNo, todo, listed, edited, edits, loads>>

\* A page is answered: its posts are stored, and how many pages there are is taken
\* from every answer.
FetchPage ==
  /\ load = "payload" /\ pageNo <= total
  /\ store' = store \cup PageOf(pageNo)
  /\ total' = Pages
  /\ pageNo' = pageNo + 1
  /\ load' = IF pageNo + 1 <= Pages THEN load ELSE "idle"
  /\ outcome' = IF pageNo + 1 <= Pages THEN outcome ELSE "loaded"
  /\ UNCHANGED <<published, files, mode, todo, listed, edited, edits, loads>>

\* The network or the API fails: the loader warns and returns, with the pages it has;
\* a body that is not JSON rejects the load.
FetchFails ==
  /\ load = "payload"
  /\ load' = "idle"
  /\ outcome' \in {"warned", "threw"}
  /\ UNCHANGED <<published, files, mode, pageNo, total, todo, store, listed, edited, edits, loads>>

\* The next file is read: the entry replaces one with its id.  A file that is gone
\* rejects the load.
ReadFile(f) ==
  /\ load \in {"decap", "decap-path"} /\ f \in todo
  /\ todo' = todo \ {f}
  /\ IF f \in files
       THEN /\ store' = store \cup {Id(f)}
            /\ load' = IF todo' = {} THEN "idle" ELSE load
            /\ outcome' = IF todo' = {} THEN "loaded" ELSE outcome
       ELSE load' = "idle" /\ outcome' = "threw" /\ UNCHANGED store
  /\ UNCHANGED <<published, files, mode, pageNo, total, listed, edited, edits, loads>>

\* An editor publishes or unpublishes a post, or a checkout changes the files.
Edit ==
  /\ edits < MaxEdits
  /\ edits' = edits + 1
  /\ IF mode = "payload"
       THEN /\ \E p \in Posts : published' = (published \ {p}) \cup ({p} \ published)
            /\ UNCHANGED files
       ELSE /\ \E f \in Files : files' = (files \ {f}) \cup ({f} \ files)
            /\ UNCHANGED published
  /\ UNCHANGED <<mode, load, pageNo, total, todo, store, outcome, loads>>
  /\ edited' = TRUE
  /\ listed' = listed \cup Source'

Step == FetchPage \/ \E f \in todo : ReadFile(f)

ContentNext == Start \/ Step \/ FetchFails \/ Edit

\* Every request and every read is answered, or fails; nothing has to fail.
ContentFairness == WF_contentVars(Step)

ContentSpec == ContentInit /\ [][ContentNext]_contentVars /\ ContentFairness

-----------------------------------------------------------------------------

\* The store never holds an entry its source did not have at some time during the load
\* (nothing of an earlier build survives store.clear), and a load that met no edit and
\* no failure stores all of its source: no page is fetched past or left out.
StoreIsListing ==
  /\ loads > 0 => store \subseteq listed
  /\ outcome = "loaded" /\ ~edited => store = Source

\* Every load ends: the page count it chases is that of a source that is edited only so
\* often.
LoadEnds == []<>(load = "idle")
=============================================================================
