---------------------- MODULE InvestigationGraphProofs ----------------------
(***************************************************************************)
(* Theorems about InvestigationGraph and the trace GraphAudit keeps of it, *)
(* for every set of opportunities, every answer of the models and every    *)
(* budget.                                                                 *)
(***************************************************************************)
EXTENDS GraphAudit, TLAPS

-----------------------------------------------------------------------------
(* The operators the nodes are built from.                                 *)

\* A confidence of 1 is a number.
LEMMA UnitFacts == Unit \in Nat
    BY SMT DEF Unit

\* Recommend only names recommendations, and an enthusiastic one only at or
\* above the pursue threshold.
LEMMA RecommendFacts ==
    ASSUME NEW v \in 0..100, NEW c \in Millionths, NEW e \in BOOLEAN
    PROVE  /\ Recommend(v, c, e) \in Recommendations
           /\ Recommend(v, c, e) \in Enthusiastic => v >= 66
    BY DEF Recommend, ByThreshold, Recommendations, Enthusiastic

\* The engine's scores are scores, and its enthusiasm is above the threshold.
LEMMA ScoreResultsFacts ==
    ASSUME NEW s \in ScoreResults
    PROVE  /\ s \in Score
           /\ s.recommendation \in Enthusiastic => s.overall >= 66
<1>1. PICK v \in Overalls, c \in Confidences, e \in BOOLEAN :
          s = [overall |-> v, confidence |-> c, recommendation |-> Recommend(v, c, e)]
    BY DEF ScoreResults
<1>2. v \in 0..100 /\ c \in Millionths
    BY GraphAssumption
<1>3. /\ Recommend(v, c, e) \in Recommendations
      /\ Recommend(v, c, e) \in Enthusiastic => v >= 66
    BY <1>2, RecommendFacts
<1> QED
    BY <1>1, <1>2, <1>3 DEF Score

\* A doubted confidence is a confidence.
LEMMA DoubtedFacts ==
    ASSUME NEW c \in Millionths, NEW p \in 0..100
    PROVE  Doubted(c, p) \in Millionths
<1>1. c \in 0..Unit /\ Unit \in Nat /\ 400 - p \in 300..400
    BY UnitFacts DEF Millionths
<1>2. c * (400 - p) >= 0
    BY <1>1
<1>3. c * (400 - p) <= 400 * c
    BY <1>1
<1>4. (c * (400 - p)) \div 400 \in 0..c
    BY <1>1, <1>2, <1>3
<1> QED
    BY <1>1, <1>4 DEF Doubted, Millionths

\* Pressure yields a decision, never moves a verdict up, and leaves an
\* enthusiastic one only above the floor and under little pressure, or one
\* step down.
LEMMA PressedFacts ==
    ASSUME NEW r \in Recommendations, NEW c \in Millionths, NEW p \in 0..100
    PROVE  /\ Pressed(r, c, p) \in Decision
           /\ r \notin Enthusiastic => Pressed(r, c, p).recommendation = r
           /\ Pressed(r, c, p).recommendation \in Enthusiastic =>
                  /\ r \in Enthusiastic
                  /\ c >= GateFloor
                  /\ \/ p < 55
                     \/ /\ Pressed(r, c, p).recommendation = "PURSUE"
                        /\ r = "STRONGLY_PURSUE"
<1>1. \A f \in 0..100 : (c * f) \div 100 \in Millionths
    BY UnitFacts DEF Millionths
<1>2. c \in Int /\ GateFloor \in Int
    BY UnitFacts, SMT DEF Millionths, GateFloor
<1> QED
    BY <1>1, <1>2 DEF Pressed, Floored, Decision, Recommendations, Enthusiastic

-----------------------------------------------------------------------------
(* Types.                                                                  *)

\* The graph starts well typed.
LEMMA InitTypes == Init => TypeOK
<1>1. /\ IsDict(Empty, Evaluation) /\ IsDict(Empty, BOOLEAN) /\ IsDict(Empty, Score)
      /\ IsDict(Empty, 0..100) /\ IsDict(Empty, Decision)
    BY DEF IsDict, Empty
<1> SUFFICES ASSUME Init PROVE TypeOK
    OBVIOUS
<1>2. /\ IsDict(evaluations, Evaluation) /\ IsDict(verifications, BOOLEAN)
      /\ IsDict(scores, Score) /\ IsDict(counterpoints, 0..100)
      /\ IsDict(decisions, Decision)
    BY <1>1, Zenon DEF Init
<1> QED
    BY <1>2 DEF Init, TypeOK, Nodes, Tracked

\* The graph's state is well typed.
THEOREM GraphTyping == Spec => []TypeOK
<1>1. Init => TypeOK
    BY InitTypes
<1>2. TypeOK /\ [Next]_vars => TypeOK'
    <2> SUFFICES ASSUME TypeOK, [Next]_vars PROVE TypeOK'
        OBVIOUS
    <2> USE DEF TypeOK, Nodes, Outcomes
    <2>1. CASE Understand
        BY <2>1 DEF Understand, Runs, IsDict
    <2>2. CASE LoadContext
        <3>1. degraded' \in BOOLEAN /\ errors' \in BOOLEAN
            BY <2>2 DEF LoadContext
        <3> QED
            BY <2>2, <3>1 DEF LoadContext, Runs, IsDict
    <2>3. CASE Plan
        BY <2>3 DEF Plan, Runs, IsDict
    <2>4. CASE Discover
        BY <2>4 DEF Discover, Runs, IsDict
    <2>5. CASE Triage
        BY <2>5 DEF Triage, Runs, IsDict
    <2>6. CASE Evaluate
        BY <2>6 DEF Evaluate, Runs, IsDict
    <2>7. CASE Verify
        BY <2>7 DEF Verify, Runs, IsDict, RouteAfterVerify
    <2>8. CASE Replan
        BY <2>8 DEF Replan, Runs, IsDict, RouteAfterReplan
    <2>9. CASE ScoreCandidates
        <3>1. IsDict(scores', Score)
            BY <2>9, ScoreResultsFacts DEF ScoreCandidates, IsDict
        <3> QED
            BY <2>9, <3>1 DEF ScoreCandidates, Runs, IsDict
    <2>10. CASE Contrarian
        <3>1. IsDict(counterpoints', 0..100)
            BY <2>10, GraphAssumption DEF Contrarian, Ranked, IsDict
        <3>2. IsDict(scores', Score)
            <4>1. ASSUME NEW o \in Ranked
                  PROVE  Doubted(scores[o].confidence, counterpoints'[o]) \in Millionths
                <5>1. scores[o] \in Score /\ counterpoints'[o] \in 0..100
                    BY <2>10, GraphAssumption DEF Contrarian, Ranked, IsDict
                <5> QED
                    BY <5>1, DoubtedFacts DEF Score
            <4>2. ASSUME NEW o \in DOMAIN scores PROVE scores'[o] \in Score
                <5>1. scores[o] \in Score
                    BY DEF IsDict
                <5> QED
                    BY <2>10, <4>1, <5>1 DEF Contrarian, Score
            <4> QED
                BY <2>10, <4>2 DEF Contrarian, IsDict
        <3> QED
            BY <2>10, <3>1, <3>2 DEF Contrarian, Runs, IsDict
    <2>11. CASE Decide
        <3>1. ASSUME NEW o \in Ranked PROVE Gated(o) \in Decision
            <4>1. scores[o] \in Score
                BY DEF Ranked, IsDict
            <4>2. Opening(o) \in Recommendations
                BY <4>1 DEF Opening, Score, Recommendations
            <4>3. CASE o \in DOMAIN counterpoints
                <5>1. counterpoints[o] \in 0..100
                    BY <4>3 DEF IsDict
                <5> QED
                    BY <4>1, <4>2, <4>3, <5>1, PressedFacts DEF Gated, Score
            <4>4. CASE o \notin DOMAIN counterpoints
                BY <4>1, <4>2, <4>4 DEF Gated, Floored, Score, Decision, Recommendations
            <4> QED
                BY <4>3, <4>4
        <3>2. IsDict(decisions', Decision)
            BY <2>11, <3>1 DEF Decide, Ranked, IsDict
        <3> QED
            BY <2>11, <3>2 DEF Decide, Runs, IsDict
    <2>12. CASE WriteReport
        <3>1. report' \in Report
            BY <2>12 DEF WriteReport, Report, IsDict
        <3> QED
            BY <2>12, <3>1 DEF WriteReport, WriteEpisodic, Runs, IsDict
    <2>13. CASE Exhaust
        BY <2>13 DEF Exhaust, IsDict
    <2>14. CASE NodeRaises
        BY <2>14 DEF NodeRaises, IsDict, Tracked
    <2>15. CASE GoalNotFound
        <3>1. IsDict(scores', Score)
            BY <2>15 DEF GoalNotFound, IsDict, Empty
        <3> QED
            BY <2>15, <3>1 DEF GoalNotFound, Runs, IsDict
    <2>16. CASE UNCHANGED vars
        BY <2>16 DEF vars, IsDict
    <2> QED
        BY <2>1, <2>2, <2>3, <2>4, <2>5, <2>6, <2>7, <2>8, <2>9, <2>10, <2>11,
           <2>12, <2>13, <2>14, <2>15, <2>16 DEF Next, Step, Finish
<1> QED
    BY <1>1, <1>2, PTL DEF Spec

-----------------------------------------------------------------------------
(* The replan loop and LangGraph's recursion limit.                        *)

\* Position of a node on the way through the graph.
Position == [n \in Nodes |->
    CASE n = "understand" -> 0 [] n = "load_context" -> 1 [] n = "plan" -> 2
      [] n = "discover" -> 3 [] n = "triage" -> 4 [] n = "evaluate" -> 5
      [] n = "verify" -> 6 [] n = "replan" -> 7 [] n = "score" -> 7
      [] n = "contrarian" -> 8 [] n = "decide" -> 9 [] n = "report" -> 10]

\* The strengthening of WithinRecursionLimit: the steps taken are bounded by
\* the position and by the replans, which stay within their own bound.
LoopInv ==
    /\ TypeOK
    /\ iterations <= maxIterations
    /\ node = "replan" => iterations < maxIterations
    /\ node \in Nodes => steps <= Position[node] + Loops(iterations)
    /\ node = "exhausted" => ~Fits

\* A replan costs three nodes, five when it asks for new sources.
LEMMA LoopsStep ==
    ASSUME NEW i \in Nat
    PROVE  /\ Loops(i + 1) >= Loops(i) + 3
           /\ (i + 1) % 2 = 1 => Loops(i + 1) = Loops(i) + 5
    BY SMT DEF Loops

\* More replans cost more.
LEMMA LoopsGrow ==
    ASSUME NEW i \in Nat, NEW j \in Nat, i <= j
    PROVE  Loops(i) <= Loops(j) /\ Loops(i) \in Nat
    BY SMT DEF Loops

\* With a recursion limit of 11 + 3 m + 2 ceil(m / 2) node executions for
\* m = max_iterations replans, the graph is never cut off: LangGraph's default
\* of 25 is enough for the default of 3 replans (24 executions), and is not
\* for 4, which the settings allow.
THEOREM RecursionLimitTheorem == Spec => []WithinRecursionLimit
<1>1. Init => LoopInv
    <2>1. Init => TypeOK
        BY InitTypes
    <2> QED
        BY <2>1, GraphAssumption DEF Init, LoopInv, Position, Loops, Nodes
<1>2. LoopInv /\ TypeOK' /\ [Next]_vars => LoopInv'
    <2> SUFFICES ASSUME LoopInv, TypeOK', [Next]_vars PROVE LoopInv'
        OBVIOUS
    <2> USE GraphAssumption DEF LoopInv, TypeOK, Nodes, Position
    <2>1. Loops(iterations) \in Nat /\ Loops(iterations) <= Loops(maxIterations)
        BY LoopsGrow
    <2>2. CASE Understand
        BY <2>1, <2>2 DEF Understand, Runs
    <2>3. CASE LoadContext
        BY <2>1, <2>3 DEF LoadContext, Runs
    <2>4. CASE Plan
        BY <2>1, <2>4 DEF Plan, Runs
    <2>5. CASE Discover
        BY <2>1, <2>5 DEF Discover, Runs
    <2>6. CASE Triage
        BY <2>1, <2>6 DEF Triage, Runs
    <2>7. CASE Evaluate
        BY <2>1, <2>7 DEF Evaluate, Runs
    <2>8. CASE Verify
        BY <2>1, <2>8 DEF Verify, Runs, RouteAfterVerify
    <2>9. CASE Replan
        <3>1. Loops(iterations + 1) >= Loops(iterations) + 3
            BY LoopsStep
        <3>2. (iterations + 1) % 2 = 1 => Loops(iterations + 1) = Loops(iterations) + 5
            BY LoopsStep
        <3>3. Loops(iterations + 1) \in Nat
            BY LoopsGrow
        <3>4. iterations' = iterations + 1 /\ Loops(iterations') = Loops(iterations + 1)
            BY <2>9 DEF Replan
        <3> QED
            BY <2>1, <2>9, <3>1, <3>2, <3>3, <3>4 DEF Replan, Runs, RouteAfterReplan
    <2>10. CASE ScoreCandidates
        BY <2>1, <2>10 DEF ScoreCandidates, Runs
    <2>11. CASE Contrarian
        BY <2>1, <2>11 DEF Contrarian, Runs
    <2>12. CASE Decide
        BY <2>1, <2>12 DEF Decide, Runs
    <2>13. CASE WriteReport
        BY <2>1, <2>13 DEF WriteReport, Runs
    <2>14. CASE Exhaust
        <3>1. node \in Nodes /\ Position[node] \in 0..10
            BY <2>14 DEF Exhaust
        <3>2. Loops(maxIterations) \in Nat
            BY LoopsGrow
        <3>3. steps <= 10 + Loops(maxIterations)
            <4> HIDE DEF Position
            <4> QED
                BY <2>1, <3>1, <3>2
        <3>4. UNCHANGED maxIterations
            BY <2>14 DEF Exhaust
        <3> QED
            BY <2>14, <3>2, <3>3, <3>4 DEF Exhaust, Fits, Fitting, Straight
    <2>15. CASE NodeRaises
        BY <2>1, <2>15 DEF NodeRaises
    <2>16. CASE GoalNotFound
        BY <2>1, <2>16 DEF GoalNotFound, Runs
    <2>17. CASE UNCHANGED vars
        BY <2>17 DEF vars, Fits
    <2> QED
        BY <2>2, <2>3, <2>4, <2>5, <2>6, <2>7, <2>8, <2>9, <2>10, <2>11, <2>12,
           <2>13, <2>14, <2>15, <2>16, <2>17 DEF Next, Step, Finish
<1>3. LoopInv => WithinRecursionLimit
    BY DEF LoopInv, WithinRecursionLimit
<1> QED
    BY <1>1, <1>2, <1>3, GraphTyping, PTL DEF Spec

-----------------------------------------------------------------------------
(* What a decision rests on.                                               *)

\* Which dictionaries belong to the current candidates at which node, and what
\* the contrarian and the decision agree on; decisions are the last thing the
\* graph writes before its report.
EvidenceInv ==
    /\ node \in {"verify", "replan", "score", "contrarian", "decide"} =>
           DOMAIN evaluations = candidates
    /\ node \in {"replan", "score", "contrarian", "decide"} =>
           DOMAIN verifications = candidates
    /\ node \in Nodes \ {"report"} => DOMAIN decisions = {}
    /\ node = "decide" => DOMAIN counterpoints = Ranked
    /\ \A o \in DOMAIN scores :
           scores[o].recommendation \in Enthusiastic => scores[o].overall >= 66

DecisionsInv == DecisionsAreGrounded /\ IneligibleStays /\ EnthusiasmIsEarned

\* The contrarian lowers confidences only: the ranking and the verdicts stay.
LEMMA ContrarianKeepsRanking ==
    ASSUME TypeOK, Contrarian
    PROVE  /\ Ranked' = Ranked
           /\ DOMAIN scores' = DOMAIN scores
           /\ \A o \in DOMAIN scores :
                  /\ scores'[o].overall = scores[o].overall
                  /\ scores'[o].recommendation = scores[o].recommendation
<1>1. DOMAIN scores' = DOMAIN scores /\ candidates' = candidates
    BY DEF Contrarian
<1>2. ASSUME NEW o \in DOMAIN scores
      PROVE  /\ scores'[o].overall = scores[o].overall
             /\ scores'[o].recommendation = scores[o].recommendation
    <2>1. scores[o] \in Score
        BY DEF TypeOK, IsDict
    <2> QED
        BY <2>1 DEF Contrarian, Score
<1>3. \A o, p \in DOMAIN scores : Ahead(p, o)' <=> Ahead(p, o)
    BY <1>2 DEF Ahead
<1>4. ASSUME NEW o \in DOMAIN scores
      PROVE  {p \in DOMAIN scores' : Ahead(p, o)'} = {p \in DOMAIN scores : Ahead(p, o)}
    BY <1>1, <1>3
<1>5. Ranked' = Ranked
    BY <1>1, <1>4 DEF Ranked
<1> QED
    BY <1>1, <1>2, <1>5

\* One candidate's decision, from the state decide_node finds.
LEMMA GatedFacts ==
    ASSUME TypeOK, EvidenceInv, node = "decide", NEW o \in Ranked
    PROVE  /\ o \in candidates /\ o \in DOMAIN scores /\ o \in DOMAIN counterpoints
           /\ ~Eligible(o) \/ scores[o].recommendation = "INELIGIBLE" =>
                  Gated(o).recommendation = "INELIGIBLE"
           /\ Gated(o).recommendation \in Enthusiastic =>
                  /\ scores[o].overall >= 66
                  /\ scores[o].confidence >= GateFloor
                  /\ Eligible(o)
                  /\ \/ counterpoints[o] < 55
                     \/ /\ Gated(o).recommendation = "PURSUE"
                        /\ scores[o].recommendation = "STRONGLY_PURSUE"
<1>1. o \in candidates /\ o \in DOMAIN scores /\ o \in DOMAIN counterpoints
    BY DEF EvidenceInv, Ranked
<1>2. /\ scores[o].recommendation \in Recommendations
      /\ scores[o].confidence \in Millionths
      /\ counterpoints[o] \in 0..100
    BY <1>1 DEF TypeOK, IsDict, Score
<1>3. Opening(o) \in Recommendations
    BY <1>2 DEF Opening, Recommendations
<1>4. "INELIGIBLE" \notin Enthusiastic
    BY DEF Enthusiastic
<1>5. Gated(o) = Pressed(Opening(o), scores[o].confidence, counterpoints[o])
    BY <1>1 DEF Gated
<1>6. scores[o].recommendation \in Enthusiastic => scores[o].overall >= 66
    BY <1>1 DEF EvidenceInv
<1>7. /\ Opening(o) \notin Enthusiastic => Gated(o).recommendation = Opening(o)
      /\ Gated(o).recommendation \in Enthusiastic =>
             /\ Opening(o) \in Enthusiastic
             /\ scores[o].confidence >= GateFloor
             /\ \/ counterpoints[o] < 55
                \/ /\ Gated(o).recommendation = "PURSUE"
                   /\ Opening(o) = "STRONGLY_PURSUE"
    <2> DEFINE c == scores[o].confidence
               p == counterpoints[o]
               r == Opening(o)
    <2>1. c \in Millionths /\ p \in 0..100 /\ r \in Recommendations
        BY <1>2, <1>3
    <2> HIDE DEF c, p, r
    <2>2. /\ r \notin Enthusiastic => Pressed(r, c, p).recommendation = r
          /\ Pressed(r, c, p).recommendation \in Enthusiastic =>
                 /\ r \in Enthusiastic
                 /\ c >= GateFloor
                 /\ \/ p < 55
                    \/ Pressed(r, c, p).recommendation = "PURSUE" /\ r = "STRONGLY_PURSUE"
        BY <2>1, PressedFacts
    <2> QED
        BY <1>5, <2>2 DEF c, p, r
<1> QED
    BY <1>1, <1>4, <1>6, <1>7 DEF Opening

\* Every decision of the graph is about a candidate of its last discovery that
\* was evaluated, verified, scored and challenged; ineligibility survives the
\* gates; enthusiasm needs a score, a confidence and little pressure.
THEOREM DecisionsTheorem ==
    Spec => [](DecisionsAreGrounded /\ IneligibleStays /\ EnthusiasmIsEarned)
<1>1. Init => EvidenceInv /\ DecisionsInv
    BY DEF Init, EvidenceInv, DecisionsInv, Empty, DecisionsAreGrounded,
           IneligibleStays, EnthusiasmIsEarned
<1>2. TypeOK /\ EvidenceInv /\ DecisionsInv /\ [Next]_vars => (EvidenceInv /\ DecisionsInv)'
    <2> SUFFICES ASSUME TypeOK, EvidenceInv, DecisionsInv, [Next]_vars
                 PROVE  (EvidenceInv /\ DecisionsInv)'
        OBVIOUS
    <2> USE DEF Nodes
    <2>a. ASSUME UNCHANGED <<candidates, evaluations, verifications, scores,
                             counterpoints, decisions>>
          PROVE  DecisionsInv' /\ Ranked' = Ranked
        BY <2>a DEF DecisionsInv, DecisionsAreGrounded, IneligibleStays,
                    EnthusiasmIsEarned, Eligible, Ranked, Ahead
    <2>b. ASSUME DOMAIN decisions' = {} PROVE DecisionsInv'
        BY <2>b DEF DecisionsInv, DecisionsAreGrounded, IneligibleStays,
                    EnthusiasmIsEarned
    <2>1. CASE Understand
        BY <2>1, <2>a DEF Understand, Runs, EvidenceInv
    <2>2. CASE LoadContext
        BY <2>2, <2>a DEF LoadContext, Runs, EvidenceInv
    <2>3. CASE Plan
        BY <2>3, <2>a DEF Plan, Runs, EvidenceInv
    <2>4. CASE Discover
        BY <2>4, <2>b DEF Discover, Runs, EvidenceInv
    <2>5. CASE Triage
        BY <2>5, <2>a DEF Triage, Runs, EvidenceInv
    <2>6. CASE Evaluate
        BY <2>6, <2>b DEF Evaluate, Runs, EvidenceInv
    <2>7. CASE Verify
        <3>1. PICK verified \in [candidates -> BOOLEAN] :
                  /\ Runs("verify", RouteAfterVerify(verified))
                  /\ verifications' = verified
            BY <2>7 DEF Verify
        <3>2. node = "verify" /\ node' \in {"replan", "score"}
            BY <3>1 DEF Runs, RouteAfterVerify
        <3> QED
            BY <2>7, <2>b, <3>1, <3>2 DEF Verify, EvidenceInv
    <2>8. CASE Replan
        BY <2>8, <2>a DEF Replan, Runs, RouteAfterReplan, EvidenceInv
    <2>9. CASE ScoreCandidates
        <3>1. \A o \in DOMAIN scores' :
                  scores'[o].recommendation \in Enthusiastic => scores'[o].overall >= 66
            BY <2>9, ScoreResultsFacts DEF ScoreCandidates
        <3> QED
            BY <2>9, <2>b, <3>1 DEF ScoreCandidates, Runs, EvidenceInv
    <2>10. CASE Contrarian
        <3>1. DOMAIN counterpoints' = Ranked'
            BY <2>10, ContrarianKeepsRanking DEF Contrarian
        <3>2. \A o \in DOMAIN scores' :
                  scores'[o].recommendation \in Enthusiastic => scores'[o].overall >= 66
            BY <2>10, ContrarianKeepsRanking DEF EvidenceInv
        <3> QED
            BY <2>10, <2>b, <3>1, <3>2 DEF Contrarian, Runs, EvidenceInv
    <2>11. CASE Decide
        <3>1. node = "decide" /\ node' = "report" /\ decisions' = [o \in Ranked |-> Gated(o)]
              /\ UNCHANGED <<candidates, evaluations, verifications, scores, counterpoints>>
            BY <2>11 DEF Decide, Runs
        <3>2. EvidenceInv'
            BY <3>1 DEF EvidenceInv
        <3>3. \A o : Eligible(o)' <=> Eligible(o)
            BY <3>1 DEF Eligible
        <3>4. DOMAIN evaluations = candidates /\ DOMAIN verifications = candidates
            BY <3>1 DEF EvidenceInv
        <3>5. ASSUME NEW o \in DOMAIN decisions'
              PROVE  /\ o \in Ranked
                     /\ decisions'[o] = Gated(o)
            BY <3>1
        <3>6. DecisionsAreGrounded'
            BY <3>1, <3>4, <3>5, GatedFacts DEF DecisionsAreGrounded
        <3>7. IneligibleStays'
            BY <3>1, <3>3, <3>5, GatedFacts DEF IneligibleStays
        <3>8. EnthusiasmIsEarned'
            BY <3>1, <3>3, <3>5, GatedFacts DEF EnthusiasmIsEarned
        <3> QED
            BY <3>2, <3>6, <3>7, <3>8 DEF DecisionsInv
    <2>12. CASE WriteReport
        BY <2>12, <2>a DEF WriteReport, Runs, EvidenceInv
    <2>13. CASE Exhaust
        BY <2>13, <2>a DEF Exhaust, EvidenceInv
    <2>14. CASE NodeRaises
        BY <2>14, <2>a DEF NodeRaises, EvidenceInv
    <2>15. CASE GoalNotFound
        BY <2>15, <2>b DEF GoalNotFound, Runs, EvidenceInv, Empty
    <2>16. CASE UNCHANGED vars
        BY <2>16, <2>a DEF vars, EvidenceInv
    <2> QED
        BY <2>1, <2>2, <2>3, <2>4, <2>5, <2>6, <2>7, <2>8, <2>9, <2>10, <2>11,
           <2>12, <2>13, <2>14, <2>15, <2>16 DEF Next, Step, Finish
<1>3. DecisionsInv => DecisionsAreGrounded /\ IneligibleStays /\ EnthusiasmIsEarned
    BY DEF DecisionsInv
<1> QED
    BY <1>1, <1>2, <1>3, GraphTyping, PTL DEF Spec


-----------------------------------------------------------------------------
(* The trace: what a run that reports has left of what the audit asks for, *)
(* however often it replanned and wherever it cut a node short.            *)

\* The trace only watches: what the graph does is what it does unwatched.
LEMMA TracedIsGraph == AuditSpec => Spec
<1>1. AuditInit => Init
    BY DEF AuditInit
<1>2. [AuditNext]_auditVars => [Next]_vars
    BY DEF AuditNext, Traced, AuditTrace, auditVars, Next, Step
<1> QED
    BY <1>1, <1>2, PTL DEF AuditSpec, Spec

\* Nothing of the trace of a graph that was cut off is claimed.
Stopped == {"failed", "exhausted"}

\* Which stages are behind the graph at each node.  A replan returns to discover
\* or evaluate, where less has to be behind it; only triage finds out that there
\* is nothing to evaluate.  The stage score is accounted for separately.
StagesInv ==
    /\ node \notin Stopped \union {"understand"} => "understand" \in stages
    /\ node \notin Stopped \union {"understand", "load_context"} => "load_context" \in stages
    /\ node \notin Stopped \union {"understand", "load_context", "plan"} => "plan" \in stages
    /\ node \in {"triage", "evaluate", "verify", "replan", "score", "contrarian", "decide",
                 "report", "end"} => "discover" \in stages
    /\ node \in {"evaluate", "verify", "replan", "score", "contrarian", "decide",
                 "report", "end"} => "triage" \in stages
    /\ node \in {"verify", "replan", "score", "contrarian", "decide"} => "evaluate" \in stages
    /\ node \in {"replan", "score", "contrarian", "decide"} => "verify" \in stages
    /\ node = "decide" => "contrarian" \in stages

\* Past triage there are candidates, or the graph goes straight to its report.
ReportInv ==
    /\ node \in {"evaluate", "verify", "replan", "score", "contrarian", "decide"}
        => candidates # {}
    /\ node \in {"report", "end"} /\ candidates # {}
        => {"evaluate", "verify", "contrarian", "decide"} \subseteq stages
    /\ node = "end" => "report" \in stages /\ report # NoReport

\* A graph past its scoring that left no event of it recorded an error, has no
\* scores, and so nothing to challenge and nothing to recommend.
ScoreInv ==
    /\ node \notin Stopped \union {"report", "end"} => DOMAIN decisions = {}
    /\ node \in {"contrarian", "decide"} /\ "score" \notin stages
        => errors /\ DOMAIN scores = {}
    /\ node = "report" /\ candidates # {} /\ "score" \notin stages
        => errors /\ DOMAIN decisions = {}
    /\ node = "end" /\ candidates # {} /\ "score" \notin stages
        => report.partial /\ report.recommended = {}

TraceInv ==
    /\ tasks = stages \intersect Tracked
    /\ StagesInv
    /\ ReportInv
    /\ ScoreInv

\* Whatever happens, no stage and no task is taken back.
LEMMA TraceGrows ==
    ASSUME TypeOK, Traced, TraceInv
    PROVE  stages \subseteq stages' /\ tasks' = stages' \intersect Tracked
    BY DEF Traced, Leaves, TraceInv

\* What the audit misses in the trace of a graph that has reported: nothing, the
\* stages of candidates that were not found, or the scoring of a goal that is gone.
THEOREM TraceTheorem == AuditSpec => []TraceIsComplete
<1>1. AuditInit => TraceInv
    BY DEF AuditInit, Init, TraceInv, StagesInv, ReportInv, ScoreInv, Stopped, Tracked, Empty
<1>2. TypeOK /\ TypeOK' /\ TraceInv /\ [AuditNext]_auditVars => TraceInv'
    <2> SUFFICES ASSUME TypeOK, TypeOK', TraceInv, [AuditNext]_auditVars PROVE TraceInv'
        OBVIOUS
    <2>1. CASE Traced
        <3>1. stages \subseteq stages' /\ tasks' = stages' \intersect Tracked
            BY <2>1, TraceGrows
        <3> USE DEF TraceInv, StagesInv, ReportInv, ScoreInv, Stopped
        <3>2. CASE Finish /\ Leaves({node})
            <4>1. node \in stages' /\ \A x : x # node /\ x \in stages' => x \in stages
                BY <3>2 DEF Leaves
            <4>2. CASE Understand
                BY <3>1, <4>1, <4>2 DEF Understand, Runs
            <4>3. CASE LoadContext
                BY <3>1, <4>1, <4>3 DEF LoadContext, Runs
            <4>4. CASE Plan
                BY <3>1, <4>1, <4>4 DEF Plan, Runs
            <4>5. CASE Discover
                BY <3>1, <4>1, <4>5 DEF Discover, Runs
            <4>6. CASE Triage
                BY <3>1, <4>1, <4>6 DEF Triage, Runs
            <4>7. CASE Evaluate
                BY <3>1, <4>1, <4>7 DEF Evaluate, Runs
            <4>8. CASE Verify
                BY <3>1, <4>1, <4>8 DEF Verify, Runs, RouteAfterVerify
            <4>9. CASE Replan
                BY <3>1, <4>1, <4>9 DEF Replan, Runs, RouteAfterReplan
            <4>10. CASE ScoreCandidates
                BY <3>1, <4>1, <4>10 DEF ScoreCandidates, Runs
            <4>11. CASE Contrarian
                BY <3>1, <4>1, <4>11 DEF Contrarian, Runs
            <4>12. CASE Decide
                <5>1. "score" \notin stages' => Ranked = {}
                    BY <3>1, <4>12 DEF Decide, Runs, Ranked
                <5> QED
                    BY <3>1, <4>1, <4>12, <5>1 DEF Decide, Runs
            <4>13. CASE WriteReport
                <5>1. report' \in Report
                    BY <4>13 DEF WriteReport, Report, TypeOK, IsDict
                <5>2. report' # NoReport
                    BY <5>1, AuditAssumption
                <5>3. report'.recommended = DOMAIN decisions /\ report'.partial = errors
                    BY <4>13 DEF WriteReport
                <5> QED
                    BY <3>1, <4>1, <4>13, <5>2, <5>3 DEF WriteReport, Runs
            <4> QED
                BY <3>2, <4>2, <4>3, <4>4, <4>5, <4>6, <4>7, <4>8, <4>9, <4>10, <4>11,
                   <4>12, <4>13 DEF Finish
        <3>3. CASE GoalNotFound
            BY <3>1, <3>3 DEF GoalNotFound, Runs, Empty
        <3>4. CASE Exhaust
            BY <3>1, <3>4 DEF Exhaust
        <3>5. CASE NodeRaises
            BY <3>1, <3>5 DEF NodeRaises
        <3> QED
            BY <2>1, <3>2, <3>3, <3>4, <3>5 DEF Traced
    <2>2. CASE AuditTrace
        BY <2>2 DEF AuditTrace, vars, TraceInv, StagesInv, ReportInv, ScoreInv, Stopped
    <2>3. CASE UNCHANGED auditVars
        BY <2>3 DEF auditVars, vars, TraceInv, StagesInv, ReportInv, ScoreInv, Stopped
    <2> QED
        BY <2>1, <2>2, <2>3 DEF AuditNext
<1>3. TraceInv => TraceIsComplete
    BY DEF TraceInv, StagesInv, ReportInv, ScoreInv, Stopped, TraceIsComplete, Audit,
           REQUIRED_STAGES, REQUIRED_TASK_CAPABILITIES, Nodes, Tracked
<1>4. AuditSpec => []TypeOK
    BY TracedIsGraph, GraphTyping, PTL
<1> QED
    BY <1>1, <1>2, <1>3, <1>4, PTL DEF AuditSpec
=============================================================================
