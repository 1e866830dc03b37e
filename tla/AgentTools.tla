----------------------------- MODULE AgentTools -----------------------------
(***************************************************************************)
(* The MCP server an agent asks for advice (internal/mcp-server) and the   *)
(* package @internal/cost-simulator: the calls of one session, while the   *)
(* price files may be edited.  A tool reads its files anew at every call.  *)
(*                                                                         *)
(* Profiles are numbered by their cost band, the order loadProfiles sorts  *)
(* them in.  Scores are hundredths and money is millionths of a dollar, so *)
(* the arithmetic is exact; an exact half may be rounded either way, as    *)
(* the floating-point number next to it happens to be.                     *)
(***************************************************************************)
EXTENDS Integers, Sequences, FiniteSets, SequencesExt, TLC

CONSTANTS
  ToolBudgets,   \* the answers to target_budget_usd
  ToolEnvs,      \* the answers to env_count
  Nodes, Gigabytes,   \* the overrides of compute_nodes and storage_gb
  MaxCalls, MaxPriceEdits  \* bounds: calls, edits of the prices

ASSUME AgentAssumption ==
  /\ ToolBudgets \subseteq Nat /\ ToolEnvs \subseteq 1..10
  /\ Nodes \subseteq Nat /\ Gigabytes \subseteq Nat
  /\ MaxCalls \in Nat /\ MaxPriceEdits \in Nat

VARIABLES
  data,     \* whose files: "own", those of the repository, or "given" by the environment
  prices,   \* how often the price files were edited
  half,     \* explain_tradeoff's first total, its profiles and (history) the edits before it,
            \* or none
  answer,   \* of the last call
  told,     \* history: the tradeoffs told since the last edit, of calls it did not interrupt
  calls

agentVars == <<data, prices, half, answer, told, calls>>

ProfileNos == 1..5
Solo == 1
None == [from |-> 0, to |-> 0, cost |-> 0, at |-> 0]

-----------------------------------------------------------------------------
\* recommend_profile

TeamFit ==
  [alone |-> <<100, 85, 40, 10, 0>>, few |-> <<20, 50, 100, 50, 10>>,
   team |-> <<0, 10, 50, 100, 60>>, many |-> <<0, 0, 10, 70, 100>>]
ComplianceFit ==
  [none |-> <<100, 100, 100, 100, 50>>, soc2 |-> <<0, 0, 40, 100, 100>>,
   hipaa |-> <<0, 0, 0, 60, 100>>, fedramp |-> <<0, 0, 0, 20, 100>>]
EnvTarget == <<1, 1, 3, 4, 5>>
CostBand == <<[min |-> 0, max |-> 30], [min |-> 5, max |-> 30], [min |-> 30, max |-> 150],
          [min |-> 300, max |-> 2000], [min |-> 5000, max |-> 50000]>>
FitWeight == [team |-> 20, env |-> 10, budget |-> 25, compliance |-> 15]

Larger(a, b) == IF a > b THEN a ELSE b
Distance(a, b) == Larger(a - b, b - a)

\* The fits of a profile times this are whole numbers of hundredths.
Scale(p) == 2 * (CostBand[p].max - CostBand[p].min + 1)

BudgetFit(b, p) ==
  IF b < CostBand[p].min THEN 0
  ELSE IF b > 5 * CostBand[p].max THEN 20 * Scale(p)
  ELSE IF b > CostBand[p].max THEN 60 * Scale(p)
  ELSE Larger(50 * Scale(p), 100 * (Scale(p) - Distance(2 * b, CostBand[p].min + CostBand[p].max)))

EnvFit(n, p) == Larger(0, 100 - 20 * Distance(n, EnvTarget[p]))

\* The score of a profile, rounded to hundredths.
Scores(in, p) ==
  LET sum == FitWeight.budget * BudgetFit(in.budget, p)
               + (FitWeight.team * TeamFit[in.team][p] + FitWeight.env * EnvFit(in.envs, p)
                    + FitWeight.compliance * ComplianceFit[in.floor][p]) * Scale(p)
      unit == (FitWeight.team + FitWeight.env + FitWeight.budget + FitWeight.compliance) * Scale(p)
      up == (2 * sum + unit) \div (2 * unit)
  IN IF (2 * sum + unit) % (2 * unit) = 0 THEN {up - 1, up} ELSE {up}

\* Mutant: the list is not sorted.
AsLoaded(score) == [p \in ProfileNos |-> p]

\* Does the list name p before q?
Before(score, p, q) == score[p] > score[q] \/ (score[p] = score[q] /\ p < q)

\* ranked.sort is stable: equal scores stay in the order of the cost bands.
Ranked(score) ==
  [i \in ProfileNos |->
     CHOOSE p \in ProfileNos : Cardinality({q \in ProfileNos : Before(score, q, p)}) = i - 1]

\* nx_cloud_recommend_backend
Default == <<"community", "saas", "saas", "saas", "powerpack-self-host">>
Hard == {"data-residency", "fedramp", "hipaa"}

\* Mutant: one machine is no case of its own.
BackendsByDefault(p, minutes, flags) ==
  IF flags \cap Hard # {} THEN <<"powerpack-self-host", "saas", "community">>
  ELSE IF minutes = 0 THEN <<"community", "saas", "powerpack-self-host">>
  ELSE <<Default[p], IF Default[p] = "saas" THEN "powerpack-self-host" ELSE "saas", "community">>

Backends(p, minutes, flags) ==
  IF flags \cap Hard # {} THEN <<"powerpack-self-host", "saas", "community">>
  ELSE IF p = Solo \/ minutes = 0 THEN <<"community", "saas", "powerpack-self-host">>
  ELSE <<Default[p], IF Default[p] = "saas" THEN "powerpack-self-host" ELSE "saas", "community">>

-----------------------------------------------------------------------------
\* simulate_cost, and simulateCost of @internal/cost-simulator

Dollar == 1000000
Cent == 10000
Rounded(m, unit) == unit * ((m + unit \div 2) \div unit)

\* Per month: 1.08 dollars a euro, an edit makes the larger machine dearer.
Machine == [cx22 |-> 45900 * 108, cx32 |-> (75900 + 3700 * prices) * 108, m7g |-> 59860000]
Volume == 476 * 108

Sizing == <<[nodes |-> 0, sku |-> "cx22", gb |-> 0], [nodes |-> 1, sku |-> "cx22", gb |-> 40],
            [nodes |-> 4, sku |-> "cx32", gb |-> 100], [nodes |-> 6, sku |-> "cx32", gb |-> 500],
            [nodes |-> 12, sku |-> "cx32", gb |-> 2000]>>

Total(bill) == bill.compute + bill.storage + bill.egress + bill.secrets + bill.saas

\* What handleWithCtx sums up: egress, registry and secrets are free, and storage is
\* priced with the machines it is attached to.
Bill(p, nodes, gb) ==
  [compute |-> nodes * Machine[Sizing[p].sku],
   storage |-> IF nodes > 0 THEN gb * Volume ELSE 0,
   egress |-> 0, secrets |-> 0,
   saas |-> IF p > 2 THEN 29 * Dollar ELSE 0]

\* What simulateCost sums up: a shape on Hetzner, whose included egress no shape exceeds,
\* or on AWS, which includes 100 GB.
Shape == <<[sku |-> "cx22", count |-> 1, gb |-> 0, tb |-> 0, secrets |-> 0],
           [sku |-> "cx32", count |-> 1, gb |-> 100, tb |-> 1, secrets |-> 0],
           [sku |-> "cx32", count |-> 3, gb |-> 100, tb |-> 1, secrets |-> 0],
           [sku |-> "m7g", count |-> 5, gb |-> 500, tb |-> 2, secrets |-> 0],
           [sku |-> "m7g", count |-> 12, gb |-> 2000, tb |-> 10, secrets |-> 50 * Dollar]>>
Estimate(p) ==
  LET s == Shape[p] IN
  [compute |-> s.count * Machine[s.sku],
   storage |-> s.gb * IF s.sku = "m7g" THEN 8 * Cent ELSE Volume,
   egress |-> IF s.sku = "m7g" THEN (1000 * s.tb - 100) * 9 * Cent ELSE 0,
   secrets |-> s.secrets, saas |-> 0]

\* Mutant: the storage is not added to its provider.
AnswerWithoutStorage(bill, unit) ==
  [kind |-> "cost", unit |-> unit,
   total |-> Rounded(Total(bill), unit),
   layers |-> [l \in DOMAIN bill |-> Rounded(bill[l], unit)],
   providers |-> <<Rounded(bill.compute + bill.egress, unit),
                   Rounded(bill.secrets, unit), Rounded(bill.saas, unit)>>]

\* Each amount of the answer is rounded on its own, to dollars or to cents.
CostAnswer(bill, unit) ==
  [kind |-> "cost", unit |-> unit,
   total |-> Rounded(Total(bill), unit),
   layers |-> [l \in DOMAIN bill |-> Rounded(bill[l], unit)],
   providers |-> <<Rounded(bill.compute + bill.storage + bill.egress, unit),
                   Rounded(bill.secrets, unit), Rounded(bill.saas, unit)>>]

\* Mutant: the prices are kept from the first call on.
CostAsFirstRead(p) ==
  LET bill == Bill(p, Sizing[p].nodes, Sizing[p].gb) IN
  Rounded(Total(bill) - prices * (IF Sizing[p].sku = "cx32" THEN Sizing[p].nodes * 3700 * 108 ELSE 0),
          Dollar)

\* What explain_tradeoff takes of simulate_cost's answer for a profile.
TradeoffCost(p) == CostAnswer(Bill(p, Sizing[p].nodes, Sizing[p].gb), Dollar).total

-----------------------------------------------------------------------------
\* The session

AgentInit ==
  /\ data \in {"own", "given"}
  /\ prices = 0 /\ half = None /\ told = {} /\ calls = 0
  /\ answer = [kind |-> "none"]

\* Do the loaders load?  Of the repository's own directories they throw: its profiles have
\* no profile.yaml, its apps' META.yaml no name at the top, and beside the XRDs lies a
\* kustomization.yaml without metadata.
ProfilesLoad == data = "given"
AppsLoad == data = "given"
XrdsLoad == data = "given"

\* A call is dispatched; whatever throws becomes an answer with isError.
Dispatched(loads, result) ==
  /\ half = None /\ calls < MaxCalls
  /\ calls' = calls + 1
  /\ answer' = IF loads THEN result ELSE [kind |-> "error"]
  /\ UNCHANGED <<data, prices, half, told>>

ListProfiles == Dispatched(ProfilesLoad, [kind |-> "list"])
ListApps == Dispatched(AppsLoad, [kind |-> "list"])
ListXrds == Dispatched(XrdsLoad, [kind |-> "list"])

\* A name that is unknown throws.
DescribeProfile == \E kind \in {"one", "error"} : Dispatched(ProfilesLoad, [kind |-> kind])
DescribeApp == \E kind \in {"one", "error"} : Dispatched(AppsLoad, [kind |-> kind])
DescribeXrd == \E kind \in {"one", "error"} : Dispatched(XrdsLoad, [kind |-> kind])

\* The tools that are not implemented, which answer without looking.
Stub == Dispatched(TRUE, [kind |-> "stub"])

\* An unknown tool, or an input or an output its schema refuses.
Refuse == Dispatched(TRUE, [kind |-> "error"])

\* What recommend_profile may answer.
Recommendations ==
  UNION {
    LET s == [p \in ProfileNos |-> Scores(in, p)] IN
    {[kind |-> "ranks", of |-> ProfileNos, score |-> score, ranked |-> Ranked(score)] :
       score \in s[1] \X s[2] \X s[3] \X s[4] \X s[5]} :
    in \in [team : DOMAIN TeamFit, floor : DOMAIN ComplianceFit, envs : ToolEnvs, budget : ToolBudgets]}

Recommend == \E ranks \in Recommendations : Dispatched(ProfilesLoad, ranks)

RecommendBackend ==
  \E p \in ProfileNos, minutes \in {0, 2000}, flags \in SUBSET {"soc2", "hipaa"} :
    Dispatched(TRUE, [kind |-> "ranks", of |-> {"community", "saas", "powerpack-self-host"},
                      ranked |-> Backends(p, minutes, flags)])

SimulateCost ==
  \E p \in ProfileNos :
    \E nodes \in Nodes \cup {Sizing[p].nodes}, gb \in Gigabytes \cup {Sizing[p].gb} :
      Dispatched(ProfilesLoad, CostAnswer(Bill(p, nodes, gb), Dollar))

\* A program calls the package, whose prices are those of its first call: a process of
\* its own here.
EstimateCost == \E p \in ProfileNos : Dispatched(TRUE, CostAnswer(Estimate(p), Cent))

\* explain_tradeoff: the cost of the first profile, and then of the second.
ExplainFrom ==
  /\ half = None /\ calls < MaxCalls
  /\ IF ProfilesLoad
       THEN /\ \E a, b \in ProfileNos : half' = [from |-> a, to |-> b, cost |-> TradeoffCost(a), at |-> prices]
            /\ UNCHANGED answer
       ELSE answer' = [kind |-> "error"] /\ UNCHANGED half
  /\ calls' = calls + 1
  /\ UNCHANGED <<data, prices, told>>

ExplainTo ==
  /\ half # None
  /\ LET t == [from |-> half.from, to |-> half.to, delta |-> TradeoffCost(half.to) - half.cost] IN
     /\ answer' = [kind |-> "tradeoff", delta |-> t.delta]
     /\ told' = IF half.at = prices THEN told \cup {t} ELSE told
  /\ half' = None
  /\ UNCHANGED <<data, prices, calls>>

\* Somebody edits the price files.
EditPrices ==
  /\ prices < MaxPriceEdits
  /\ prices' = prices + 1
  /\ told' = {}
  /\ UNCHANGED <<data, half, answer, calls>>

AgentNext ==
  \/ ListProfiles \/ ListApps \/ ListXrds
  \/ DescribeProfile \/ DescribeApp \/ DescribeXrd
  \/ Stub \/ Refuse
  \/ Recommend \/ RecommendBackend \/ SimulateCost \/ EstimateCost
  \/ ExplainFrom \/ ExplainTo \/ EditPrices

AgentSpec == AgentInit /\ [][AgentNext]_agentVars

-----------------------------------------------------------------------------

\* A recommendation names every profile, or every backend, once, the best score first
\* and the cheaper profile first among equals (the stable sort of recommend_profile.ts
\* over the order of profile-loader.ts; the default table of nx_cloud_recommend_backend).
RanksEachOnce ==
  answer.kind = "ranks" =>
    /\ Range(answer.ranked) = answer.of /\ Len(answer.ranked) = Cardinality(answer.of)
    /\ "score" \in DOMAIN answer =>
         \A i, j \in DOMAIN answer.ranked :
           LET p == answer.ranked[i]
               q == answer.ranked[j]
           IN i < j => answer.score[p] > answer.score[q] \/ (answer.score[p] = answer.score[q] /\ p < q)

\* A cost answer adds up although every amount in it is rounded on its own: the layers,
\* and the providers, differ from the total by half a unit for each amount that is not 0
\* and half a unit for the total at most.
BillAddsUp ==
  answer.kind = "cost" =>
    LET layers == answer.layers
        providers == answer.providers
        one(amount) == IF amount > 0 THEN 1 ELSE 0
        near(sum, count) == 2 * Distance(sum, answer.total) <= (count + 1) * answer.unit
    IN /\ near(Total(layers), one(layers.compute) + one(layers.storage) + one(layers.egress)
                                + one(layers.secrets) + one(layers.saas))
       /\ near(providers[1] + providers[2] + providers[3],
               one(providers[1]) + one(providers[2]) + one(providers[3]))

\* A tradeoff whose two reads no edit separates, and that was told since the last edit, is
\* the difference of what simulate_cost answers now for the two profiles (the files are
\* read at every call).
TradeoffsAreOfNow ==
  \A t \in told :
    LET cost(p) == CostAnswer(Bill(p, Sizing[p].nodes, Sizing[p].gb), Dollar).total
    IN t.delta = cost(t.to) - cost(t.from)
=============================================================================
