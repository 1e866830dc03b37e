---------------------------- MODULE Recommender ----------------------------
(***************************************************************************)
(* The profile recommender (internal/recommender): score() rates five      *)
(* profiles against the answers of a questionnaire, four of whose          *)
(* questions must be answered and six may be.  A caller, the launcher or   *)
(* an agent, revises one answer and calls score() again.                   *)
(*                                                                         *)
(* Coefficients and penalties are in twentieths, so the smallest of        *)
(* rubric.yaml (0.05) is 1; a score is in ten-thousandths, as score()      *)
(* rounds it.  Reasons, version and hash of the rubric are left out.       *)
(***************************************************************************)
EXTENDS Integers, FiniteSets

CONSTANTS
  Budgets,      \* the monthly budgets callers answer, in dollars
  EnvCounts,    \* the numbers of environments callers answer
  Asked         \* the optional questions callers answer at all

VARIABLES
  answers,      \* question -> answer, of the last call
  scores,       \* profile -> score, the "ranked" of its result
  recommended   \* ranked[0].profile

vars == <<answers, scores, recommended>>

Unset == "unset"    \* an optional question left out of the call

TeamSizes == {"1", "2-5", "6-20", "20+"}
ComplianceFloors == {"none", "soc2", "hipaa", "fedramp"}

Options ==
  [workload_shape |-> {"stateless-web", "batch", "streaming", "mixed"},
   ha_level |-> {"best-effort", "single-az", "multi-az", "multi-region"},
   observability_depth |-> {"logs", "logs+metrics", "logs+metrics+traces", "+ebpf"},
   secret_backend |-> {"keyring", "cloud-kms", "vault", "auto"},
   registry |-> {"ghcr", "cloud-native", "harbor", "auto"},
   cdn_edge |-> {"none", "cloudflare", "cloud-native"}]

Optional == DOMAIN Options

ASSUME RecommenderAssumption ==
  Budgets \subseteq Nat /\ EnvCounts \subseteq Nat /\ Asked \subseteq Optional

\* What a caller may answer to the optional question q.
MayAnswer(q) == IF q \in Asked THEN Options[q] \cup {Unset} ELSE {Unset}

Answers ==
  [team_size : TeamSizes, env_count : EnvCounts, target_budget_usd : Budgets,
   compliance_floor : ComplianceFloors,
   workload_shape : MayAnswer("workload_shape"), ha_level : MayAnswer("ha_level"),
   observability_depth : MayAnswer("observability_depth"),
   secret_backend : MayAnswer("secret_backend"),
   registry : MayAnswer("registry"), cdn_edge : MayAnswer("cdn_edge")]

-----------------------------------------------------------------------------
(* The rubric *)

Profiles == {"p-solo", "p-hobby", "p-startup-small", "p-startup-scale", "p-enterprise"}

\* PROFILE_ORDER, cheapest first.
Place(p) ==
  CASE p = "p-solo" -> 1
    [] p = "p-hobby" -> 2
    [] p = "p-startup-small" -> 3
    [] p = "p-startup-scale" -> 4
    [] p = "p-enterprise" -> 5

\* A band whose max is 0 has no ceiling.
Band(min, max) == [min |-> min, max |-> max]

Prior(p) ==
  CASE p = "p-solo" ->
         [budget |-> Band(0, 5), envs |-> Band(1, 1), team_size |-> {"1"},
          ha_level |-> {"best-effort"}, compliance_floor |-> {"none"},
          workload_shape |-> {"stateless-web", "batch"},
          observability_depth |-> {"logs"}, secret_backend |-> {"keyring", "auto"},
          registry |-> {"ghcr", "auto"}, cdn_edge |-> {"none", "cloudflare"}]
    [] p = "p-hobby" ->
         [budget |-> Band(5, 20), envs |-> Band(1, 2), team_size |-> {"1", "2-5"},
          ha_level |-> {"best-effort", "single-az"}, compliance_floor |-> {"none"},
          workload_shape |-> {"stateless-web", "batch", "mixed"},
          observability_depth |-> {"logs", "logs+metrics"},
          secret_backend |-> {"keyring", "vault", "auto"},
          registry |-> {"ghcr", "auto"}, cdn_edge |-> {"none", "cloudflare"}]
    [] p = "p-startup-small" ->
         [budget |-> Band(30, 150), envs |-> Band(2, 3), team_size |-> {"2-5", "6-20"},
          ha_level |-> {"single-az", "multi-az"}, compliance_floor |-> {"none", "soc2"},
          workload_shape |-> {"stateless-web", "mixed", "streaming"},
          observability_depth |-> {"logs+metrics", "logs+metrics+traces"},
          secret_backend |-> {"vault", "cloud-kms", "auto"},
          registry |-> {"ghcr", "harbor", "cloud-native", "auto"},
          cdn_edge |-> {"cloudflare", "cloud-native"}]
    [] p = "p-startup-scale" ->
         [budget |-> Band(300, 1500), envs |-> Band(3, 5), team_size |-> {"6-20", "20+"},
          ha_level |-> {"multi-az", "multi-region"},
          compliance_floor |-> {"none", "soc2", "hipaa"},
          workload_shape |-> Options.workload_shape,
          observability_depth |-> {"logs+metrics+traces", "+ebpf"},
          secret_backend |-> {"vault", "cloud-kms"},
          registry |-> {"cloud-native", "harbor", "ghcr"},
          cdn_edge |-> {"cloudflare", "cloud-native"}]
    [] p = "p-enterprise" ->
         [budget |-> Band(2000, 0), envs |-> Band(3, 10), team_size |-> {"20+"},
          ha_level |-> {"multi-az", "multi-region"},
          compliance_floor |-> ComplianceFloors,
          workload_shape |-> Options.workload_shape,
          observability_depth |-> {"logs+metrics+traces", "+ebpf"},
          secret_backend |-> {"vault", "cloud-kms"},
          registry |-> {"cloud-native", "harbor"},
          cdn_edge |-> {"cloudflare", "cloud-native"}]

\* weights: high, medium and low are 1.0, 0.5 and 0.2.
High == 20
Medium == 10
Low == 4

\* Mutant: ha_level is given a medium weight.
WeightHaMedium ==
  [workload_shape |-> Medium, ha_level |-> Medium, observability_depth |-> Medium,
   secret_backend |-> Medium, registry |-> Low, cdn_edge |-> Low]

Weight ==
  [workload_shape |-> Medium, ha_level |-> High, observability_depth |-> Medium,
   secret_backend |-> Medium, registry |-> Low, cdn_edge |-> Low]

\* The penalties of the questions answered by a name.
Mismatch ==
  [team_size |-> 6, compliance_floor |-> 20, ha_level |-> 20, workload_shape |-> 2,
   observability_depth |-> 2, secret_backend |-> 2, registry |-> 1, cdn_edge |-> 1]

-----------------------------------------------------------------------------
(* scoreOne *)

\* What an answer outside a profile's fit leaves of the question's coefficient.
Points(coef, penalty) == IF penalty < coef THEN coef - penalty ELSE 0

\* Mutant: the ceiling of a band is outside it.
BudgetPenaltyExclusive(p, usd) ==
  LET band == Prior(p).budget IN
  CASE usd < band.min -> 8
    [] band.max > 0 /\ usd >= band.max -> 16
    [] OTHER -> 0

\* Mutant: a ceiling of 0 is a ceiling.
BudgetPenaltyCeiling(p, usd) ==
  LET band == Prior(p).budget IN
  CASE usd < band.min -> 8
    [] usd > band.max -> 16
    [] OTHER -> 0

\* withinBudget and the penalties budget_under_band and budget_over_band.
BudgetPenalty(p, usd) ==
  LET band == Prior(p).budget IN
  CASE usd < band.min -> 8
    [] band.max > 0 /\ usd > band.max -> 16
    [] OTHER -> 0

\* env_count_under and env_count_over.
EnvPenalty(p, n) ==
  LET band == Prior(p).envs IN
  CASE n < band.min -> 3
    [] n > band.max -> 10
    [] OTHER -> 0

\* Mutant: a profile that lacks the compliance floor pays what a wrong team size costs.
NamePenaltyFlat(p, q, v) == IF v \in Prior(p)[q] THEN 0 ELSE Mismatch["team_size"]

NamePenalty(p, q, v) == IF v \in Prior(p)[q] THEN 0 ELSE Mismatch[q]

OverOptional(f) ==
  f.workload_shape + f.ha_level + f.observability_depth + f.secret_backend
    + f.registry + f.cdn_edge

Raw(p, a) ==
  Points(High, BudgetPenalty(p, a.target_budget_usd))
    + Points(High, NamePenalty(p, "team_size", a.team_size))
    + Points(High, EnvPenalty(p, a.env_count))
    + Points(High, NamePenalty(p, "compliance_floor", a.compliance_floor))
    + OverOptional([q \in Optional |->
        IF a[q] = Unset THEN 0 ELSE Points(Weight[q], NamePenalty(p, q, a[q]))])

MaxRaw(a) ==
  4 * High + OverOptional([q \in Optional |-> IF a[q] = Unset THEN 0 ELSE Weight[q]])

\* Math.round(raw / max * 10000), halves up.
Score(p, a) == (20000 * Raw(p, a) + MaxRaw(a)) \div (2 * MaxRaw(a))

-----------------------------------------------------------------------------
(* score *)

\* The comparison of ranked.sort: by score, then by PROFILE_ORDER.
Ahead(p, q, s) ==
  \/ s[p] > s[q]
  \/ s[p] = s[q] /\ Place(p) < Place(q)

First(s) == CHOOSE p \in Profiles : \A q \in Profiles \ {p} : Ahead(p, q, s)

Result(a) == [p \in Profiles |-> Score(p, a)]

NoPreferences(a) == \A q \in Optional \ {"ha_level"} : a[q] = Unset
RequiredOnly(a) == NoPreferences(a) /\ a.ha_level = Unset

Init ==
  /\ answers \in Answers /\ RequiredOnly(answers)
  /\ scores = Result(answers)
  /\ recommended = First(scores)

\* score() called again, with v for the answer to q.
Revise(q, v) ==
  /\ answers' = [answers EXCEPT ![q] = v]
  /\ scores' = Result(answers')
  /\ recommended' = First(scores')

ReviseTeam == \E v \in TeamSizes : Revise("team_size", v)
ReviseEnvs == \E v \in EnvCounts : Revise("env_count", v)
ReviseBudget == \E v \in Budgets : Revise("target_budget_usd", v)
ReviseCompliance == \E v \in ComplianceFloors : Revise("compliance_floor", v)
ReviseOptional == \E q \in Optional : \E v \in MayAnswer(q) : Revise(q, v)

Next == ReviseTeam \/ ReviseEnvs \/ ReviseBudget \/ ReviseCompliance \/ ReviseOptional

Spec == Init /\ [][Next]_vars

-----------------------------------------------------------------------------
(* Properties *)

\* A call is answered from its own answers with one of the five profiles, and
\* every score lies in [0, 1] (the clamp of scoreOne never bites).
TypeOK ==
  /\ answers \in Answers
  /\ scores \in [Profiles -> 0..10000]
  /\ recommended \in Profiles

\* The compliance floor counts as much as any other question, yet by the sizes
\* of the penalties alone a caller who answers only the required questions is
\* never sent to a profile that does not support the floor (score.ts:116-127).
ComplianceRuled ==
  RequiredOnly(answers) =>
    answers.compliance_floor \in Prior(recommended).compliance_floor

\* Neither is availability a filter, yet a caller who answers the required
\* questions and asks for multi-region is never sent to a profile that cannot
\* give it (edge-cases.test.ts:37, "multi-region ha_level rules out p-solo and
\* p-hobby", of a call that answers just those five questions).
MultiRegionRules ==
  NoPreferences(answers) /\ answers.ha_level = "multi-region" =>
    "multi-region" \in Prior(recommended).ha_level

InBand(n, band) == band.min <= n /\ (n <= band.max \/ band.max = 0)

Fits(p, a) ==
  /\ InBand(a.target_budget_usd, Prior(p).budget)
  /\ InBand(a.env_count, Prior(p).envs)
  /\ \A q \in DOMAIN Mismatch : a[q] \in Prior(p)[q] \cup {Unset}

\* When some profile fits every answer given, the recommended one does: no
\* rounding and no tie-break puts a profile with a mismatch in front.
PerfectFitWins == (\E p \in Profiles : Fits(p, answers)) => Fits(recommended, answers)

\* A caller recommended p-enterprise whose budget grows to its floor or beyond
\* is not sent elsewhere for having more money: every other profile is over its
\* ceiling by then, and the ceiling 0 of p-enterprise means none (score.ts:46).
MoneyNeverUnseats ==
  [][ /\ recommended = "p-enterprise"
      /\ answers'.target_budget_usd >= answers.target_budget_usd
      /\ answers'.target_budget_usd >= Prior("p-enterprise").budget.min
      /\ answers' = [answers EXCEPT !.target_budget_usd = answers'.target_budget_usd]
      => recommended' = "p-enterprise" ]_vars

\* edge-cases.test.ts:22: "FedRAMP compliance forces p-enterprise even at low
\* budget".
FedrampForcesEnterprise ==
  answers.compliance_floor = "fedramp" => recommended = "p-enterprise"
=============================================================================
