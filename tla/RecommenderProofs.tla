------------------------- MODULE RecommenderProofs -------------------------
(***************************************************************************)
(* That the recommender rules out a profile that lacks the compliance      *)
(* floor (when only the required questions are answered) or multi-region   *)
(* availability, for every budget and number of environments.              *)
(***************************************************************************)
EXTENDS Recommender, TLAPS

\* The result stored is the one the stored answers give.
IInv ==
  /\ answers \in Answers
  /\ scores = Result(answers)
  /\ recommended = First(scores)

\* Integer division: a dividend greater by the divisor gives a greater quotient.
LEMMA DivGap ==
  ASSUME NEW x \in Nat, NEW y \in Nat, NEW d \in Nat \ {0}, x >= y + d
  PROVE  x \div d > y \div d
<1>1. /\ x = d * (x \div d) + (x % d) /\ x % d \in 0..(d - 1)
      /\ y = d * (y \div d) + (y % d) /\ y % d \in 0..(d - 1)
      /\ x \div d \in Int /\ y \div d \in Int
  BY SMT
<1>2. ASSUME x \div d <= y \div d PROVE FALSE
  <2>1. d * (x \div d) <= d * (y \div d)
    BY <1>1, <1>2, SMT
  <2>2. QED BY <1>1, <2>1, SMT
<1>3. QED BY <1>1, <1>2

\* Every list of scores has a first profile: the comparison is total.
LEMMA FirstIsAhead ==
  ASSUME NEW s \in [Profiles -> Int]
  PROVE  /\ First(s) \in Profiles
         /\ \A q \in Profiles \ {First(s)} : Ahead(First(s), q, s)
<1>1. \E p \in Profiles : \A q \in Profiles \ {p} : Ahead(p, q, s)
  BY SMT DEF Profiles, Ahead, Place
<1>2. QED BY <1>1 DEF First

\* What one question can add, in and outside a profile's band or set.
LEMMA PointsBounds ==
  ASSUME NEW a \in Answers, NEW p \in Profiles
  PROVE  /\ Points(High, BudgetPenalty(p, a.target_budget_usd)) \in {4, 12, 20}
         /\ Points(High, EnvPenalty(p, a.env_count)) \in {10, 17, 20}
         /\ Points(High, NamePenalty(p, "team_size", a.team_size)) \in {14, 20}
         /\ Points(High, NamePenalty(p, "compliance_floor", a.compliance_floor)) =
              IF a.compliance_floor \in Prior(p).compliance_floor THEN 20 ELSE 0
<1>1. a.target_budget_usd \in Nat /\ a.env_count \in Nat
  BY RecommenderAssumption DEF Answers
<1>2. Points(High, BudgetPenalty(p, a.target_budget_usd)) \in {4, 12, 20}
  <2>1. BudgetPenalty(p, a.target_budget_usd) \in {0, 8, 16}
    BY Zenon DEF BudgetPenalty
  <2>2. QED BY <2>1 DEF Points, High
<1>3. Points(High, EnvPenalty(p, a.env_count)) \in {10, 17, 20}
  <2>1. EnvPenalty(p, a.env_count) \in {0, 3, 10}
    BY Zenon DEF EnvPenalty
  <2>2. QED BY <2>1 DEF Points, High
<1>4. Points(High, NamePenalty(p, "team_size", a.team_size)) \in {14, 20}
  BY DEF Points, High, NamePenalty, Mismatch
<1>5. Points(High, NamePenalty(p, "compliance_floor", a.compliance_floor)) =
        IF a.compliance_floor \in Prior(p).compliance_floor THEN 20 ELSE 0
  BY DEF Points, High, NamePenalty, Mismatch
<1>6. QED BY <1>2, <1>3, <1>4, <1>5

\* The four required questions of one profile.
RequiredPoints(p, a) ==
  Points(High, BudgetPenalty(p, a.target_budget_usd))
    + Points(High, NamePenalty(p, "team_size", a.team_size))
    + Points(High, EnvPenalty(p, a.env_count))
    + Points(High, NamePenalty(p, "compliance_floor", a.compliance_floor))

HaPoints(p, a) ==
  IF a.ha_level = Unset THEN 0 ELSE Points(High, NamePenalty(p, "ha_level", a.ha_level))

\* Without preferences a call rates the required questions and availability.
LEMMA NoPreferencesRaw ==
  ASSUME NEW a \in Answers, NoPreferences(a), NEW p \in Profiles
  PROVE  /\ Raw(p, a) = RequiredPoints(p, a) + HaPoints(p, a)
         /\ MaxRaw(a) = IF a.ha_level = Unset THEN 80 ELSE 100
<1>1. Optional = {"workload_shape", "ha_level", "observability_depth", "secret_backend",
                  "registry", "cdn_edge"}
  BY DEF Optional, Options
<1>2. /\ a["workload_shape"] = Unset /\ a["observability_depth"] = Unset
      /\ a["secret_backend"] = Unset /\ a["registry"] = Unset /\ a["cdn_edge"] = Unset
  BY <1>1 DEF NoPreferences
<1>3. Weight["ha_level"] = High
  BY DEF Weight
<1>4. OverOptional([q \in Optional |->
        IF a[q] = Unset THEN 0 ELSE Points(Weight[q], NamePenalty(p, q, a[q]))])
          = HaPoints(p, a)
  <2>1. HaPoints(p, a) \in Int
    BY DEF HaPoints, Points, NamePenalty, Mismatch, High
  <2>2. QED BY <1>1, <1>2, <1>3, <2>1 DEF OverOptional, HaPoints
<1>5. OverOptional([q \in Optional |-> IF a[q] = Unset THEN 0 ELSE Weight[q]])
        = IF a.ha_level = Unset THEN 0 ELSE 20
  BY <1>1, <1>2, <1>3 DEF OverOptional, High
<1>6. QED BY <1>4, <1>5 DEF Raw, MaxRaw, RequiredPoints, High

\* p-enterprise supports every compliance floor and multi-region, and in each
\* question it loses least: it is ahead of a profile that lacks the floor.
LEMMA EnterpriseSupports ==
  ASSUME NEW a \in Answers, NEW p \in Profiles
  PROVE  /\ RequiredPoints("p-enterprise", a) \in Nat /\ RequiredPoints(p, a) \in Nat
         /\ a.compliance_floor \notin Prior(p).compliance_floor =>
              RequiredPoints("p-enterprise", a) > RequiredPoints(p, a)
         /\ RequiredPoints("p-enterprise", a) + 20 > RequiredPoints(p, a)
<1>1. a.target_budget_usd \in Nat /\ a.env_count \in Nat
      /\ a.compliance_floor \in ComplianceFloors
  BY RecommenderAssumption DEF Answers
<1>2. "p-enterprise" \in Profiles
  BY DEF Profiles
<1>3. a.compliance_floor \in Prior("p-enterprise").compliance_floor
  BY <1>1 DEF Prior
<1>4. Points(High, BudgetPenalty("p-enterprise", a.target_budget_usd)) \in {12, 20}
  <2>1. BudgetPenalty("p-enterprise", a.target_budget_usd) \in {0, 8}
    BY <1>1 DEF BudgetPenalty, Prior, Band
  <2>2. QED BY <2>1 DEF Points, High
<1>5. CASE a.env_count <= 10
  <2>1. Points(High, EnvPenalty("p-enterprise", a.env_count)) \in {17, 20}
    <3>1. EnvPenalty("p-enterprise", a.env_count) \in {0, 3}
      BY <1>1, <1>5 DEF EnvPenalty, Prior, Band
    <3>2. QED BY <3>1 DEF Points, High
  <2>2. QED BY <1>2, <1>3, <1>4, <2>1, PointsBounds DEF RequiredPoints
<1>6. CASE a.env_count > 10
  <2>1. Points(High, EnvPenalty(p, a.env_count)) = 10
    <3>1. EnvPenalty(p, a.env_count) = 10
      BY <1>1, <1>6 DEF EnvPenalty, Prior, Band, Profiles
    <3>2. QED BY <3>1 DEF Points, High
  <2>2. QED BY <1>2, <1>3, <1>4, <2>1, PointsBounds DEF RequiredPoints
<1>7. QED BY <1>1, <1>5, <1>6

\* What the answer to an optional question earns a profile, and what it could.
OptionalPoints(p, a, q) ==
  IF a[q] = Unset THEN 0 ELSE Points(Weight[q], NamePenalty(p, q, a[q]))
OptionalMost(a, q) == IF a[q] = Unset THEN 0 ELSE Weight[q]

\* A question earns a profile its coefficient just when the answer fits.
LEMMA OptionalBounds ==
  ASSUME NEW a, NEW p \in Profiles, NEW q \in Optional
  PROVE  /\ OptionalPoints(p, a, q) \in Nat /\ OptionalMost(a, q) \in 0..20
         /\ OptionalPoints(p, a, q) <= OptionalMost(a, q)
         /\ OptionalPoints(p, a, q) = OptionalMost(a, q) <=> a[q] \in Prior(p)[q] \cup {Unset}
<1>1. q \in {"workload_shape", "ha_level", "observability_depth", "secret_backend",
             "registry", "cdn_edge"}
  BY DEF Optional, Options
<1>2. /\ Weight[q] \in {4, 10, 20} /\ Mismatch[q] \in {1, 2, 20}
      /\ Mismatch[q] = 20 => Weight[q] = 20
  BY <1>1 DEF Weight, Mismatch, High, Medium, Low
<1>3. CASE a[q] = Unset
  BY <1>3 DEF OptionalPoints, OptionalMost
<1>4. CASE a[q] # Unset /\ a[q] \in Prior(p)[q]
  <2>1. NamePenalty(p, q, a[q]) = 0
    BY <1>4 DEF NamePenalty
  <2>2. QED BY <1>2, <1>4, <2>1 DEF OptionalPoints, OptionalMost, Points
<1>5. CASE a[q] # Unset /\ a[q] \notin Prior(p)[q]
  <2>1. NamePenalty(p, q, a[q]) = Mismatch[q]
    BY <1>5 DEF NamePenalty
  <2>2. QED BY <1>2, <1>5, <2>1 DEF OptionalPoints, OptionalMost, Points
<1>6. QED BY <1>3, <1>4, <1>5

\* The sums of scoreOne, question by question.
LEMMA RawSum ==
  ASSUME NEW a, NEW p \in Profiles
  PROVE  /\ Raw(p, a) = RequiredPoints(p, a)
              + (OptionalPoints(p, a, "workload_shape") + OptionalPoints(p, a, "ha_level")
                 + OptionalPoints(p, a, "observability_depth")
                 + OptionalPoints(p, a, "secret_backend")
                 + OptionalPoints(p, a, "registry") + OptionalPoints(p, a, "cdn_edge"))
         /\ MaxRaw(a) = 80
              + (OptionalMost(a, "workload_shape") + OptionalMost(a, "ha_level")
                 + OptionalMost(a, "observability_depth") + OptionalMost(a, "secret_backend")
                 + OptionalMost(a, "registry") + OptionalMost(a, "cdn_edge"))
<1>1. Optional = {"workload_shape", "ha_level", "observability_depth", "secret_backend",
                  "registry", "cdn_edge"}
  BY DEF Optional, Options
<1>2. /\ \A q \in Optional : OptionalPoints(p, a, q) =
           IF a[q] = Unset THEN 0 ELSE Points(Weight[q], NamePenalty(p, q, a[q]))
      /\ \A q \in Optional : OptionalMost(a, q) = IF a[q] = Unset THEN 0 ELSE Weight[q]
  BY DEF OptionalPoints, OptionalMost
<1>3. QED BY <1>1, <1>2 DEF Raw, MaxRaw, RequiredPoints, OverOptional, High

\* The points of the required questions, all of them when the profile fits.
LEMMA RequiredBounds ==
  ASSUME NEW a \in Answers, NEW p \in Profiles
  PROVE  /\ RequiredPoints(p, a) \in Nat /\ RequiredPoints(p, a) <= 80
         /\ RequiredPoints(p, a) = 80 <=>
              /\ InBand(a.target_budget_usd, Prior(p).budget)
              /\ InBand(a.env_count, Prior(p).envs)
              /\ a.team_size \in Prior(p).team_size
              /\ a.compliance_floor \in Prior(p).compliance_floor
<1>1. a.target_budget_usd \in Nat /\ a.env_count \in Nat
  BY RecommenderAssumption DEF Answers
<1>2. Points(High, BudgetPenalty(p, a.target_budget_usd)) = 20
        <=> InBand(a.target_budget_usd, Prior(p).budget)
  BY <1>1 DEF BudgetPenalty, Points, High, InBand, Prior, Band, Profiles
<1>3. Points(High, EnvPenalty(p, a.env_count)) = 20 <=> InBand(a.env_count, Prior(p).envs)
  BY <1>1 DEF EnvPenalty, Points, High, InBand, Prior, Band, Profiles
<1>4. Points(High, NamePenalty(p, "team_size", a.team_size)) = 20
        <=> a.team_size \in Prior(p).team_size
  BY DEF NamePenalty, Points, High, Mismatch
<1>5. QED BY <1>2, <1>3, <1>4, PointsBounds DEF RequiredPoints

\* No profile earns more than there is, and one earns all of it just when it fits every
\* answer given.
LEMMA RawBounds ==
  ASSUME NEW a \in Answers, NEW p \in Profiles
  PROVE  /\ Raw(p, a) \in Nat /\ MaxRaw(a) \in 80..200 /\ Raw(p, a) <= MaxRaw(a)
         /\ Raw(p, a) = MaxRaw(a) <=> Fits(p, a)
<1>1. /\ Optional = {"workload_shape", "ha_level", "observability_depth", "secret_backend",
                     "registry", "cdn_edge"}
      /\ DOMAIN Mismatch = Optional \cup {"team_size", "compliance_floor"}
  BY DEF Optional, Options, Mismatch
<1>2. \A q \in Optional :
        /\ OptionalPoints(p, a, q) \in Nat /\ OptionalMost(a, q) \in 0..20
        /\ OptionalPoints(p, a, q) <= OptionalMost(a, q)
        /\ OptionalPoints(p, a, q) = OptionalMost(a, q) <=> a[q] \in Prior(p)[q] \cup {Unset}
  BY OptionalBounds
<1>3. /\ a["team_size"] = a.team_size /\ a["compliance_floor"] = a.compliance_floor
      /\ a.team_size # Unset /\ a.compliance_floor # Unset
  BY DEF Answers, TeamSizes, ComplianceFloors, Unset
<1>4. Fits(p, a) <=>
        /\ RequiredPoints(p, a) = 80
        /\ \A q \in Optional : OptionalPoints(p, a, q) = OptionalMost(a, q)
  BY <1>1, <1>2, <1>3, RequiredBounds DEF Fits
<1>5. /\ RequiredPoints(p, a) \in 0..80
      /\ \A q \in Optional : OptionalPoints(p, a, q) \in 0..20
  BY <1>2, RequiredBounds
<1>6. /\ Raw(p, a) \in Nat /\ MaxRaw(a) \in 80..200 /\ Raw(p, a) <= MaxRaw(a)
      /\ Raw(p, a) = MaxRaw(a) <=>
           /\ RequiredPoints(p, a) = 80
           /\ \A q \in Optional : OptionalPoints(p, a, q) = OptionalMost(a, q)
  <2> DEFINE r == RequiredPoints(p, a)
             x1 == OptionalPoints(p, a, "workload_shape")
             x2 == OptionalPoints(p, a, "ha_level")
             x3 == OptionalPoints(p, a, "observability_depth")
             x4 == OptionalPoints(p, a, "secret_backend")
             x5 == OptionalPoints(p, a, "registry")
             x6 == OptionalPoints(p, a, "cdn_edge")
             y1 == OptionalMost(a, "workload_shape")
             y2 == OptionalMost(a, "ha_level")
             y3 == OptionalMost(a, "observability_depth")
             y4 == OptionalMost(a, "secret_backend")
             y5 == OptionalMost(a, "registry")
             y6 == OptionalMost(a, "cdn_edge")
  <2>1. /\ Raw(p, a) = r + (x1 + x2 + x3 + x4 + x5 + x6)
        /\ MaxRaw(a) = 80 + (y1 + y2 + y3 + y4 + y5 + y6)
    BY RawSum
  <2>2. /\ r \in 0..80
        /\ x1 \in 0..20 /\ x2 \in 0..20 /\ x3 \in 0..20 /\ x4 \in 0..20 /\ x5 \in 0..20 /\ x6 \in 0..20
        /\ y1 \in 0..20 /\ y2 \in 0..20 /\ y3 \in 0..20 /\ y4 \in 0..20 /\ y5 \in 0..20 /\ y6 \in 0..20
        /\ x1 <= y1 /\ x2 <= y2 /\ x3 <= y3 /\ x4 <= y4 /\ x5 <= y5 /\ x6 <= y6
    BY <1>1, <1>2, <1>5
  <2>3. x1 = y1 /\ x2 = y2 /\ x3 = y3 /\ x4 = y4 /\ x5 = y5 /\ x6 = y6
          <=> \A q \in Optional : OptionalPoints(p, a, q) = OptionalMost(a, q)
    BY <1>1
  <2> HIDE DEF r, x1, x2, x3, x4, x5, x6, y1, y2, y3, y4, y5, y6
  <2>4. /\ Raw(p, a) \in Nat /\ MaxRaw(a) \in 80..200 /\ Raw(p, a) <= MaxRaw(a)
        /\ Raw(p, a) = MaxRaw(a) <=>
             r = 80 /\ x1 = y1 /\ x2 = y2 /\ x3 = y3 /\ x4 = y4 /\ x5 = y5 /\ x6 = y6
    BY <2>1, <2>2
  <2>5. QED BY <2>3, <2>4 DEF r
<1>7. QED BY <1>4, <1>6

\* One point more is a higher score: rounding keeps it.
LEMMA HigherRawHigherScore ==
  ASSUME NEW a \in Answers, NEW p \in Profiles, NEW q \in Profiles, Raw(p, a) > Raw(q, a)
  PROVE  Score(p, a) > Score(q, a)
<1>1. MaxRaw(a) \in 80..200 /\ Raw(p, a) \in Nat /\ Raw(q, a) \in Nat
  BY RawBounds
<1>2. /\ 20000 * Raw(p, a) + MaxRaw(a) \in Nat
      /\ 20000 * Raw(q, a) + MaxRaw(a) \in Nat
      /\ 2 * MaxRaw(a) \in Nat \ {0}
      /\ 20000 * Raw(p, a) + MaxRaw(a) >= 20000 * Raw(q, a) + MaxRaw(a) + 2 * MaxRaw(a)
  BY <1>1
<1>3. QED BY <1>2, DivGap DEF Score

\* A profile that lacks the floor, or lacks multi-region when it is asked for,
\* scores less than p-enterprise.
LEMMA EnterpriseScoresMore ==
  ASSUME NEW a \in Answers, NoPreferences(a), NEW p \in Profiles,
         \/ RequiredOnly(a) /\ a.compliance_floor \notin Prior(p).compliance_floor
         \/ a.ha_level = "multi-region" /\ "multi-region" \notin Prior(p).ha_level
  PROVE  Score("p-enterprise", a) > Score(p, a)
<1>1. "p-enterprise" \in Profiles
  BY DEF Profiles
<1>2. /\ Raw("p-enterprise", a) = RequiredPoints("p-enterprise", a) + HaPoints("p-enterprise", a)
      /\ Raw(p, a) = RequiredPoints(p, a) + HaPoints(p, a)
  BY <1>1, NoPreferencesRaw
<1>3. CASE RequiredOnly(a) /\ a.compliance_floor \notin Prior(p).compliance_floor
  <2>1. HaPoints("p-enterprise", a) = 0 /\ HaPoints(p, a) = 0
    BY <1>3 DEF RequiredOnly, HaPoints
  <2>2. QED BY <1>1, <1>2, <1>3, <2>1, EnterpriseSupports, HigherRawHigherScore
<1>4. CASE a.ha_level = "multi-region" /\ "multi-region" \notin Prior(p).ha_level
  <2>1. HaPoints("p-enterprise", a) = 20
    BY <1>4 DEF HaPoints, Unset, NamePenalty, Prior, Points, High
  <2>2. HaPoints(p, a) = 0
    BY <1>4 DEF HaPoints, Unset, NamePenalty, Mismatch, Points, High
  <2>3. QED BY <1>1, <1>2, <2>1, <2>2, EnterpriseSupports, HigherRawHigherScore
<1>5. QED BY <1>3, <1>4

LEMMA ScoreIsInt ==
  ASSUME NEW a \in Answers, NEW p \in Profiles
  PROVE  Score(p, a) \in Int
BY RawBounds DEF Score

\* The profile recommended never scores less than another.
LEMMA FirstScoresMost ==
  ASSUME NEW a \in Answers, NEW p \in Profiles
  PROVE  /\ First(Result(a)) \in Profiles
         /\ Score(p, a) <= Score(First(Result(a)), a)
<1>1. Result(a) \in [Profiles -> Int]
  BY ScoreIsInt DEF Result
<1>2. First(Result(a)) \in Profiles
      /\ \A q \in Profiles \ {First(Result(a))} : Ahead(First(Result(a)), q, Result(a))
  BY <1>1, FirstIsAhead
<1>3. Score(p, a) \in Int /\ Score(First(Result(a)), a) \in Int
  BY <1>2, ScoreIsInt
<1>4. CASE p = First(Result(a))
  BY <1>3, <1>4
<1>5. CASE p # First(Result(a))
  <2>1. Ahead(First(Result(a)), p, Result(a))
    BY <1>2, <1>5
  <2>2. QED BY <1>2, <1>3, <2>1 DEF Ahead, Result
<1>6. QED BY <1>2, <1>4, <1>5

-----------------------------------------------------------------------------

LEMMA MayAnswerRevised ==
  ASSUME NEW a \in Answers, NEW q \in Optional, NEW v \in MayAnswer(q)
  PROVE  [a EXCEPT ![q] = v] \in Answers
<1>1. q \in {"workload_shape", "ha_level", "observability_depth", "secret_backend",
             "registry", "cdn_edge"}
  BY DEF Optional, Options
<1>2. QED BY <1>1 DEF Answers

\* The recommendation kept belongs to the answers kept.
LEMMA ResultIsScored == Spec => []IInv
<1>1. Init => IInv
  BY DEF Init, IInv
<1>2. IInv /\ [Next]_vars => IInv'
  <2> SUFFICES ASSUME IInv, [Next]_vars PROVE IInv'
    OBVIOUS
  <2>1. CASE UNCHANGED vars
    BY <2>1 DEF IInv, vars, Result, First, Ahead
  <2>2. CASE ReviseTeam
    <3>1. answers' \in Answers
      BY <2>2 DEF ReviseTeam, Revise, IInv, Answers
    <3>2. QED BY <2>2, <3>1 DEF ReviseTeam, Revise, IInv
  <2>3. CASE ReviseEnvs
    <3>1. answers' \in Answers
      BY <2>3 DEF ReviseEnvs, Revise, IInv, Answers
    <3>2. QED BY <2>3, <3>1 DEF ReviseEnvs, Revise, IInv
  <2>4. CASE ReviseBudget
    <3>1. answers' \in Answers
      BY <2>4 DEF ReviseBudget, Revise, IInv, Answers
    <3>2. QED BY <2>4, <3>1 DEF ReviseBudget, Revise, IInv
  <2>5. CASE ReviseCompliance
    <3>1. answers' \in Answers
      BY <2>5 DEF ReviseCompliance, Revise, IInv, Answers
    <3>2. QED BY <2>5, <3>1 DEF ReviseCompliance, Revise, IInv
  <2>6. CASE ReviseOptional
    <3>1. answers' \in Answers
      BY <2>6, MayAnswerRevised DEF ReviseOptional, Revise, IInv
    <3>2. QED BY <2>6, <3>1 DEF ReviseOptional, Revise, IInv
  <2>7. QED BY <2>1, <2>2, <2>3, <2>4, <2>5, <2>6 DEF Next
<1>3. QED BY <1>1, <1>2, PTL DEF Spec

\* Whatever the budget and the number of environments, a caller who answers the
\* required questions is recommended a profile that supports the compliance
\* floor, although the floor is one summand of score() among four.
THEOREM ComplianceIsRuled == Spec => []ComplianceRuled
<1>1. IInv => ComplianceRuled
  <2> SUFFICES ASSUME IInv, RequiredOnly(answers),
                      answers.compliance_floor \notin Prior(recommended).compliance_floor
               PROVE FALSE
    BY DEF ComplianceRuled
  <2>1. answers \in Answers /\ NoPreferences(answers) /\ recommended = First(Result(answers))
    BY DEF IInv, RequiredOnly
  <2>2. "p-enterprise" \in Profiles
    BY DEF Profiles
  <2>3. recommended \in Profiles /\ Score("p-enterprise", answers) <= Score(recommended, answers)
    BY <2>1, <2>2, FirstScoresMost
  <2>4. Score("p-enterprise", answers) > Score(recommended, answers)
    BY <2>1, <2>3, EnterpriseScoresMore
  <2>5. Score("p-enterprise", answers) \in Int /\ Score(recommended, answers) \in Int
    BY <2>1, <2>2, <2>3, ScoreIsInt
  <2>6. QED BY <2>3, <2>4, <2>5
<1>2. QED BY <1>1, ResultIsScored, PTL

\* The same of multi-region availability.
THEOREM MultiRegionIsRuled == Spec => []MultiRegionRules
<1>1. IInv => MultiRegionRules
  <2> SUFFICES ASSUME IInv, NoPreferences(answers), answers.ha_level = "multi-region",
                      "multi-region" \notin Prior(recommended).ha_level
               PROVE FALSE
    BY DEF MultiRegionRules
  <2>1. answers \in Answers /\ recommended = First(Result(answers))
    BY DEF IInv
  <2>2. "p-enterprise" \in Profiles
    BY DEF Profiles
  <2>3. recommended \in Profiles /\ Score("p-enterprise", answers) <= Score(recommended, answers)
    BY <2>1, <2>2, FirstScoresMost
  <2>4. Score("p-enterprise", answers) > Score(recommended, answers)
    BY <2>1, <2>3, EnterpriseScoresMore
  <2>5. Score("p-enterprise", answers) \in Int /\ Score(recommended, answers) \in Int
    BY <2>1, <2>2, <2>3, ScoreIsInt
  <2>6. QED BY <2>3, <2>4, <2>5
<1>2. QED BY <1>1, ResultIsScored, PTL

-----------------------------------------------------------------------------
\* For every set of budgets, of environments and of optional questions asked: a profile
\* that fits every answer given is never passed over for one that does not.
THEOREM FittingIsRecommended == Spec => []PerfectFitWins
<1>1. IInv => PerfectFitWins
  <2> SUFFICES ASSUME IInv, NEW p \in Profiles, Fits(p, answers), ~Fits(recommended, answers)
               PROVE FALSE
    BY DEF PerfectFitWins
  <2>1. answers \in Answers /\ recommended = First(Result(answers))
    BY DEF IInv
  <2>2. recommended \in Profiles /\ Score(p, answers) <= Score(recommended, answers)
    BY <2>1, FirstScoresMost
  <2>3. Raw(p, answers) > Raw(recommended, answers)
    BY <2>1, <2>2, RawBounds
  <2>4. Score(p, answers) > Score(recommended, answers)
    BY <2>1, <2>2, <2>3, HigherRawHigherScore
  <2>5. Score(p, answers) \in Int /\ Score(recommended, answers) \in Int
    BY <2>1, <2>2, ScoreIsInt
  <2>6. QED BY <2>2, <2>4, <2>5
<1>2. QED BY <1>1, ResultIsScored, PTL

\* Points never taken away are a score never lowered.
LEMMA NoFewerPoints ==
  ASSUME NEW m \in 80..200, NEW x \in Nat, NEW y \in Nat, x >= y
  PROVE  (20000 * x + m) \div (2 * m) >= (20000 * y + m) \div (2 * m)
<1> DEFINE d == 2 * m
           u == 20000 * x + m
           v == 20000 * y + m
<1>1. d \in Nat \ {0} /\ u \in Nat /\ v \in Nat /\ u >= v
  OBVIOUS
<1> HIDE DEF d, u, v
<1>2. /\ u = d * (u \div d) + (u % d) /\ u % d \in 0..(d - 1)
      /\ v = d * (v \div d) + (v % d) /\ v % d \in 0..(d - 1)
      /\ u \div d \in Int /\ v \div d \in Int
  BY <1>1, SMT
<1>3. ASSUME (u \div d) + 1 <= v \div d PROVE FALSE
  <2>1. d * ((u \div d) + 1) <= d * (v \div d)
    BY <1>1, <1>2, <1>3, SMT
  <2>2. QED BY <1>1, <1>2, <2>1, SMT
<1>4. u \div d >= v \div d
  BY <1>2, <1>3
<1>5. QED BY <1>4 DEF d, u, v

\* A budget raised to the floor of p-enterprise or beyond takes no point from it and
\* gives none to another profile.
LEMMA MoreMoneyPoints ==
  ASSUME NEW a \in Answers, NEW b \in Budgets, b >= a.target_budget_usd,
         b >= Prior("p-enterprise").budget.min, NEW p \in Profiles
  PROVE  LET c == [a EXCEPT !.target_budget_usd = b] IN
         /\ c \in Answers /\ MaxRaw(c) = MaxRaw(a)
         /\ IF p = "p-enterprise" THEN Raw(p, c) >= Raw(p, a) ELSE Raw(p, c) <= Raw(p, a)
<1> DEFINE c == [a EXCEPT !.target_budget_usd = b]
<1>1. /\ c \in Answers /\ c.target_budget_usd = b /\ c.team_size = a.team_size
      /\ c.env_count = a.env_count /\ c.compliance_floor = a.compliance_floor
      /\ \A q \in {"workload_shape", "ha_level", "observability_depth", "secret_backend",
                   "registry", "cdn_edge"} : c[q] = a[q]
  BY DEF Answers
<1>2. b \in Nat /\ a.target_budget_usd \in Nat /\ b >= 2000
  BY RecommenderAssumption DEF Answers, Prior, Band
<1> HIDE DEF c
<1>3. Optional = {"workload_shape", "ha_level", "observability_depth", "secret_backend",
                  "registry", "cdn_edge"}
  BY DEF Optional, Options
<1>4. \A q \in Optional : /\ OptionalPoints(p, c, q) = OptionalPoints(p, a, q)
                          /\ OptionalMost(c, q) = OptionalMost(a, q)
  BY <1>1, <1>3 DEF OptionalPoints, OptionalMost
<1>5. Points(High, BudgetPenalty(p, b)) = IF p = "p-enterprise" THEN 20 ELSE 4
  <2>1. BudgetPenalty(p, b) = IF p = "p-enterprise" THEN 0 ELSE 16
    BY <1>2 DEF BudgetPenalty, Prior, Band, Profiles
  <2>2. QED BY <2>1 DEF Points, High
<1>6. IF p = "p-enterprise" THEN RequiredPoints(p, c) >= RequiredPoints(p, a)
                            ELSE RequiredPoints(p, c) <= RequiredPoints(p, a)
  BY <1>1, <1>5, PointsBounds DEF RequiredPoints
<1>7. MaxRaw(c) = MaxRaw(a)
  BY <1>3, <1>4, RawSum
<1>8. IF p = "p-enterprise" THEN Raw(p, c) >= Raw(p, a) ELSE Raw(p, c) <= Raw(p, a)
  <2>1. /\ RequiredPoints(p, a) \in Int /\ RequiredPoints(p, c) \in Int
        /\ \A q \in Optional : OptionalPoints(p, a, q) \in Int
    BY <1>1, OptionalBounds, RequiredBounds
  <2>2. QED BY <1>3, <1>4, <1>6, <2>1, RawSum
<1>9. QED BY <1>1, <1>7, <1>8 DEF c

\* A profile that scores more than all others is the one recommended, and p-enterprise,
\* the last in PROFILE_ORDER, is only recommended when it does.
LEMMA EnterpriseIsFirst ==
  ASSUME NEW s \in [Profiles -> Int]
  PROVE  First(s) = "p-enterprise" <=>
           \A q \in Profiles \ {"p-enterprise"} : s["p-enterprise"] > s[q]
<1>1. "p-enterprise" \in Profiles /\ First(s) \in Profiles
      /\ \A q \in Profiles \ {First(s)} : Ahead(First(s), q, s)
  BY FirstIsAhead DEF Profiles
<1>2. \A q \in Profiles \ {"p-enterprise"} : Place(q) < Place("p-enterprise")
  BY DEF Profiles, Place
<1>3. \A q \in Profiles : s[q] \in Int /\ Place(q) \in Int
  BY DEF Profiles, Place
<1>4. QED BY <1>1, <1>2, <1>3 DEF Ahead

\* A caller who is recommended p-enterprise and whose budget grows to its floor or beyond
\* stays there, whatever the other answers and however often they were revised.
THEOREM MoneyKeepsEnterprise == Spec => MoneyNeverUnseats
<1>1. ASSUME IInv, Next, recommended = "p-enterprise",
             answers'.target_budget_usd >= answers.target_budget_usd,
             answers'.target_budget_usd >= Prior("p-enterprise").budget.min,
             answers' = [answers EXCEPT !.target_budget_usd = answers'.target_budget_usd],
             IInv'
      PROVE  recommended' = "p-enterprise"
  <2> DEFINE b == answers'.target_budget_usd
             c == [answers EXCEPT !.target_budget_usd = b]
  <2>1. /\ answers \in Answers /\ b \in Budgets /\ answers' = c
        /\ b >= answers.target_budget_usd /\ b >= Prior("p-enterprise").budget.min
    BY <1>1 DEF IInv, Answers
  <2>2. /\ First(Result(answers)) = "p-enterprise"
        /\ recommended' = First(Result(c))
    <3>1. recommended = First(Result(answers))
      BY <1>1 DEF IInv
    <3>2. recommended' = First(scores') /\ scores' = Result(answers')
      BY <1>1 DEF Next, ReviseTeam, ReviseEnvs, ReviseBudget, ReviseCompliance,
         ReviseOptional, Revise
    <3>3. QED BY <1>1, <2>1, <3>1, <3>2
  <2> HIDE DEF b, c
  <2>3. c \in Answers /\ MaxRaw(c) = MaxRaw(answers) /\ "p-enterprise" \in Profiles
        /\ \A p \in Profiles : IF p = "p-enterprise" THEN Raw(p, c) >= Raw(p, answers)
                                                     ELSE Raw(p, c) <= Raw(p, answers)
    BY <2>1, MoreMoneyPoints DEF c, Profiles
  <2>4. /\ Result(answers) \in [Profiles -> Int] /\ Result(c) \in [Profiles -> Int]
        /\ \A p \in Profiles : Score(p, answers) \in Int /\ Score(p, c) \in Int
    BY <2>1, <2>3, ScoreIsInt DEF Result
  <2>5. \A q \in Profiles \ {"p-enterprise"} : Score("p-enterprise", answers) > Score(q, answers)
    BY <2>2, <2>3, <2>4, EnterpriseIsFirst DEF Result
  <2>6. Score("p-enterprise", c) >= Score("p-enterprise", answers)
    BY <2>1, <2>3, RawBounds, NoFewerPoints DEF Score
  <2>7. \A q \in Profiles \ {"p-enterprise"} : Score(q, answers) >= Score(q, c)
    BY <2>1, <2>3, RawBounds, NoFewerPoints DEF Score
  <2>8. \A q \in Profiles \ {"p-enterprise"} : Score("p-enterprise", c) > Score(q, c)
    BY <2>3, <2>4, <2>5, <2>6, <2>7
  <2>9. QED BY <2>2, <2>3, <2>4, <2>8, EnterpriseIsFirst DEF Result
<1>2. IInv /\ IInv' /\ [Next]_vars =>
        [ /\ recommended = "p-enterprise"
          /\ answers'.target_budget_usd >= answers.target_budget_usd
          /\ answers'.target_budget_usd >= Prior("p-enterprise").budget.min
          /\ answers' = [answers EXCEPT !.target_budget_usd = answers'.target_budget_usd]
          => recommended' = "p-enterprise" ]_vars
  BY <1>1
<1>3. QED BY <1>2, ResultIsScored, PTL DEF Spec, MoneyNeverUnseats
=============================================================================
