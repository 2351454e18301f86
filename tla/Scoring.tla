------------------------------ MODULE Scoring ------------------------------
(***************************************************************************)
(* The scoring engine (services/scoring.py): a pure function of factors,   *)
(* weights and eligibility.                                                *)
(*                                                                         *)
(* Decimals are integers in a fixed unit: a dimension is counted in        *)
(* 1/DimensionScale, a weight in 1/WeightScale and an overall score in     *)
(* 1/ScoreScale.  The code has 10^4, 10^8 and 100; every rounding the code *)
(* does is done here, in the coarser unit.                                 *)
(***************************************************************************)
EXTENDS Integers, Sequences, FiniteSets, Functions

CONSTANTS DimensionScale, WeightScale, ScoreScale,
          Unknown,      \* a dimension nobody has assessed
          ScoringError  \* the exception

Benefits == <<"fit", "value", "probability", "strategic", "time",
              "learning", "network", "long_term">>
BenefitDimensions == {Benefits[i] : i \in DOMAIN Benefits}
CostDimensions == {"effort", "risk"}
Dimensions == BenefitDimensions \union CostDimensions

Recommendations == {"STRONGLY_PURSUE", "PURSUE", "CONSIDER", "WAIT",
                    "LOW_PRIORITY", "IGNORE", "INELIGIBLE"}

\* Weights and thresholds are written in hundredths.
ASSUME ScaleAssumption ==
    /\ DimensionScale \in Nat \ {0} /\ DimensionScale % 100 = 0
    /\ WeightScale \in Nat \ {0} /\ WeightScale % 100 = 0
    /\ ScoreScale \in Nat \ {0}
    /\ Unknown \notin Int /\ Unknown \notin BOOLEAN
    /\ ScoringError # Unknown

-----------------------------------------------------------------------------
(* Rounding: n/d to an integer, for n >= 0 and d > 0.                      *)

RoundHalfUp(n, d) == (2 * n + d) \div (2 * d)

RoundHalfEven(n, d) ==
    LET up == RoundHalfUp(n, d)
    IN  IF 2 * (n % d) = d /\ up % 2 = 1 THEN up - 1 ELSE up

AtMost(bound, n) == IF n > bound THEN bound ELSE n

-----------------------------------------------------------------------------
(* Weight vectors.                                                         *)

\* What a caller may send as a weight: a finite, non-negative number.
IsWeight(w) == w >= 0

Heaviest(benefit) ==
    CHOOSE i \in DOMAIN Benefits :
        \A j \in DOMAIN Benefits :
            \/ benefit[Benefits[i]] > benefit[Benefits[j]]
            \/ benefit[Benefits[i]] = benefit[Benefits[j]] /\ i <= j

\* Weights.build: the raw weights are rescaled, and the heaviest absorbs
\* what rounding left over.
Build(version, raw, effort, risk) ==
    LET total == SumFunction(raw)
        quantised == [d \in BenefitDimensions |-> RoundHalfEven(raw[d] * WeightScale, total)]
        drift == WeightScale - SumFunction(quantised)
    IN  IF \/ \E d \in BenefitDimensions : ~IsWeight(raw[d])
           \/ ~IsWeight(effort) \/ ~IsWeight(risk)
           \/ total <= 0
        THEN ScoringError
        ELSE [version |-> version,
              benefit |-> [quantised EXCEPT ![Benefits[Heaviest(quantised)]] = @ + drift],
              effort |-> effort,
              risk |-> risk]

\* The default vectors, in hundredths: the benefits in order, effort, risk.
ProfileTable ==
    [career     |-> <<22, 14, 16, 14,  6, 10,  6, 12, 35, 45>>,
     income     |-> <<16, 34, 20,  6, 12,  3,  3,  6, 55, 50>>,
     business   |-> <<14, 24, 14, 18,  8,  4,  8, 10, 40, 45>>,
     learning   |-> <<14,  6, 12, 10,  6, 32,  8, 12, 30, 25>>,
     networking |-> <<12,  6, 14, 12, 10,  8, 30,  8, 30, 25>>,
     startup    |-> <<14, 14, 10, 20, 10,  8, 10, 14, 30, 20>>,
     research   |-> <<20,  8, 14, 16,  6, 16,  8, 12, 35, 30>>]

Profiles == DOMAIN ProfileTable

Position(d) == CHOOSE i \in DOMAIN Benefits : Benefits[i] = d

DefaultWeights(profile) ==
    LET inWeightUnits(n) == (n * WeightScale) \div 100
        row == ProfileTable[profile]
    IN  Build(<<profile, "v1">>,
              [d \in BenefitDimensions |-> inWeightUnits(row[Position(d)])],
              inWeightUnits(row[9]), inWeightUnits(row[10]))

\* Weights.with_override: the entries an override names replace the base's.
WithOverride(base, override, version) ==
    LET entry(d, default) == IF d \in DOMAIN override THEN override[d] ELSE default
    IN  IF ~(DOMAIN override \subseteq Dimensions)
        THEN ScoringError
        ELSE Build(version, [d \in BenefitDimensions |-> entry(d, base.benefit[d])],
                   entry("effort", base.effort), entry("risk", base.risk))

\* weights_for.  An empty override and no override are the same.
NoOverride == <<>>

WeightsFor(profile, override) ==
    IF override = NoOverride
    THEN DefaultWeights(profile)
    ELSE WithOverride(DefaultWeights(profile), override, <<profile, "v1+override">>)

-----------------------------------------------------------------------------
(* score().                                                                *)

\* _clamp_unit: out of range is as high, or as low, as it goes.
ClampUnit(v) ==
    IF v = Unknown THEN Unknown
    ELSE IF v < 0 THEN 0 ELSE AtMost(DimensionScale, v)

Known(values) == {d \in BenefitDimensions : values[d] # Unknown}

KnownWeight(values, weights) == SumFunctionOnSet(weights.benefit, Known(values))

\* The contributions, each in 1/(KnownWeight * DimensionScale).
Contributions(values, weights) ==
    IF KnownWeight(values, weights) = 0
    THEN <<>>
    ELSE [d \in Known(values) |-> weights.benefit[d] * values[d]]

OrZero(v) == IF v = Unknown THEN 0 ELSE v

\* The cost, in 1/(WeightScale * DimensionScale).
Cost(values, weights) ==
    WeightScale * DimensionScale
      + weights.effort * OrZero(values["effort"]) + weights.risk * OrZero(values["risk"])

Overall(values, weights) ==
    LET known == KnownWeight(values, weights)
    IN  IF known = 0 THEN 0
        ELSE AtMost(100 * ScoreScale,
                    RoundHalfUp(100 * ScoreScale * WeightScale
                                  * SumFunction(Contributions(values, weights)),
                                known * Cost(values, weights)))

KnownTotal(values, weights) ==
    KnownWeight(values, weights)
      + (IF values["effort"] = Unknown THEN 0 ELSE weights.effort)
      + (IF values["risk"] = Unknown THEN 0 ELSE weights.risk)

TotalWeight(weights) == WeightScale + weights.effort + weights.risk

\* Mutant: the costs do not count towards the weight there is.
ConfidenceOfBenefits(values, weights) ==
    RoundHalfUp(DimensionScale * KnownWeight(values, weights), WeightScale)

Confidence(values, weights) ==
    RoundHalfUp(DimensionScale * KnownTotal(values, weights), TotalWeight(weights))

ConfidenceFloor == 45  \* hundredths

Verdict(overall) ==
    CASE overall >= 82 * ScoreScale -> "STRONGLY_PURSUE"
      [] overall >= 66 * ScoreScale /\ overall < 82 * ScoreScale -> "PURSUE"
      [] overall >= 45 * ScoreScale /\ overall < 66 * ScoreScale -> "CONSIDER"
      [] overall >= 28 * ScoreScale /\ overall < 45 * ScoreScale -> "LOW_PRIORITY"
      [] overall < 28 * ScoreScale -> "IGNORE"

Enthusiastic == {"STRONGLY_PURSUE", "PURSUE"}

Recommend(overall, confidence, eligible) ==
    IF eligible = FALSE THEN "INELIGIBLE"
    ELSE IF 100 * confidence < ConfidenceFloor * DimensionScale
            /\ Verdict(overall) \in Enthusiastic
         THEN "WAIT"
         ELSE Verdict(overall)

-----------------------------------------------------------------------------
(* explain(): which lines the explanation has; their wording is left out.  *)

\* The place of d when contributions are sorted from the largest down.
Rank(contributions, d) ==
    1 + Cardinality({e \in DOMAIN contributions :
                        \/ contributions[e] > contributions[d]
                        \/ contributions[e] = contributions[d] /\ Position(e) < Position(d)})

WhyNow(values, days) ==
    LET deadline == IF days = Unknown THEN {}
                    ELSE IF days < 0 THEN {"passed"}
                    ELSE IF days = 0 THEN {"today"} ELSE {"remaining"}
        pressing == IF values["time"] # Unknown /\ 10 * values["time"] >= 6 * DimensionScale
                    THEN {"time sensitive"} ELSE {}
    IN  IF deadline \union pressing = {} THEN {"no deadline"} ELSE deadline \union pressing

Weakest(values, contributions) ==
    LET weak == {d \in DOMAIN contributions : 100 * values[d] < 35 * DimensionScale}
    IN  {d \in weak : Cardinality({e \in weak : Rank(contributions, e)
                                                  > Rank(contributions, d)}) < 2}

WhatCouldGoWrong(values, contributions, eligible) ==
    (IF eligible = FALSE THEN {"ineligible"} ELSE {})
      \union {d \in CostDimensions : values[d] # Unknown /\ 2 * values[d] >= DimensionScale}
      \union Weakest(values, contributions)

NextStep(recommendation, missing) ==
    CASE recommendation = "INELIGIBLE" -> "confirm eligibility"
      [] recommendation = "WAIT" /\ missing # {} -> "gather factors"
      [] recommendation = "WAIT" /\ missing = {} -> "verify factors"
      [] recommendation \in Enthusiastic -> "prepare an application"
      [] recommendation = "CONSIDER" -> "review"
      [] recommendation = "LOW_PRIORITY" -> "revisit"
      [] recommendation = "IGNORE" -> "none"

Explain(values, contributions, recommendation, days, eligible) ==
    LET missing == {d \in Dimensions : values[d] = Unknown}
    IN  [why_this  |-> {d \in DOMAIN contributions :
                            contributions[d] > 0 /\ Rank(contributions, d) <= 3},
         why_now   |-> WhyNow(values, days),
         why_me    |-> {d \in {"fit", "probability"} : values[d] # Unknown},
         wrong     |-> WhatCouldGoWrong(values, contributions, eligible),
         missing   |-> missing,
         next_step |-> NextStep(recommendation, missing)]

\* A share of the known weight is kept with two digits more than a dimension.
ShareScale == 100 * DimensionScale

\* as_factors: what is kept to recompute a score from, each figure rounded.
AsFactors(values, weights) ==
    LET contributions == Contributions(values, weights)
        known == KnownWeight(values, weights)
    IN  [dimensions |-> values,
         effective |-> [d \in DOMAIN contributions |->
                            RoundHalfUp(ShareScale * weights.benefit[d], known)],
         contributions |-> [d \in DOMAIN contributions |-> RoundHalfUp(contributions[d], known)],
         benefit |-> IF known = 0 THEN 0 ELSE RoundHalfUp(SumFunction(contributions), known),
         cost |-> RoundHalfUp(Cost(values, weights), WeightScale),
         confidence |-> Confidence(values, weights),
         version |-> weights.version]

\* The ScoreResult and its as_factors.
Score(factors, weights, eligible, days) ==
    LET values == [d \in Dimensions |-> ClampUnit(factors[d])]
        overall == Overall(values, weights)
        confidence == Confidence(values, weights)
        recommendation == Recommend(overall, confidence, eligible)
    IN  [overall |-> overall,
         confidence |-> confidence,
         recommendation |-> recommendation,
         version |-> weights.version,
         dimensions |-> values,
         factors |-> AsFactors(values, weights),
         explanation |-> Explain(values, Contributions(values, weights), recommendation,
                                 days, eligible)]

=============================================================================
