------------------------- MODULE InvestigationGraph -------------------------
(***************************************************************************)
(* The LangGraph of one investigation (agents/graph.py, nodes.py,          *)
(* routing.py, decision_gates.py): what each node writes in the state, the *)
(* routing functions, the replan loop and the gates that turn scores into  *)
(* decisions.  A node is one step: its update is applied when it returns,  *)
(* and lost when it raises.  What the models answer is a nondeterministic  *)
(* choice; the index may change between two discoveries.                   *)
(***************************************************************************)
EXTENDS Integers, FiniteSets

CONSTANTS Opps,           \* opportunities, numbered in order of creation
          TopN,           \* how many ranked candidates are challenged and decided
          Iterations,     \* values the settings give budget.max_iterations
          BudgetLeft,     \* budget.remaining_usd > 0; nobody charges that record
          RecursionLimit, \* the node executions LangGraph allows
          Overalls,       \* overall scores the engine may give, 0..100
          Confidences,    \* confidences the engine may give, in millionths
          Pressures,      \* verdict_pressure of the contrarian, in percent
          NoReport        \* the graph has not reported

Unit == 1000000   \* a confidence of 1
Millionths == 0..Unit

ASSUME GraphAssumption ==
    /\ Opps \subseteq Nat
    /\ TopN \in Nat
    /\ Iterations \subseteq Nat
    /\ BudgetLeft \in BOOLEAN
    /\ RecursionLimit \in Nat
    /\ Overalls \subseteq 0..100
    /\ Confidences \subseteq Millionths
    /\ Pressures \subseteq 0..100

VARIABLES node,          \* the node to run next, or how the graph ended
          steps,         \* node executions so far
          maxIterations, \* budget.max_iterations of the run; no node writes it
          iterations,    \* replans so far
          candidates,    \* opportunities of the last discovery
          evaluations,   \* candidate -> what the specialists said of it
          verifications, \* candidate -> a high-impact claim is unresolved
          scores,        \* candidate -> its score
          counterpoints, \* candidate -> pressure of its counter-analysis
          decisions,     \* candidate -> what is recommended
          degraded,      \* the run worked with less than it should have
          errors,        \* some node recorded an error
          report,        \* the final report, or NoReport
          episode,       \* importance of what memory keeps of the run, in percent
          openTask       \* the node whose AgentTask row stays RUNNING

vars == <<node, steps, maxIterations, iterations, candidates, evaluations,
          verifications, scores, counterpoints, decisions, degraded, errors,
          report, episode, openTask>>

Nodes == {"understand", "load_context", "plan", "discover", "triage",
          "evaluate", "verify", "replan", "score", "contrarian", "decide",
          "report"}
Outcomes == {"end", "failed", "exhausted"}

\* Nodes that call a model, a tool or the database, and those among them that
\* open an AgentTask first.
Fallible == Nodes \ {"triage", "replan"}
Tracked == {"understand", "plan", "verify", "contrarian"}

Recommendations == {"STRONGLY_PURSUE", "PURSUE", "CONSIDER", "WAIT",
                    "LOW_PRIORITY", "IGNORE", "INELIGIBLE"}
Enthusiastic == {"STRONGLY_PURSUE", "PURSUE"}
Verdicts == {"eligible", "ineligible", "unknown"}

Evaluation == [verdict : Verdicts, unmet : BOOLEAN]
Score == [overall : 0..100, confidence : Millionths,
          recommendation : Recommendations]
Decision == [recommendation : Recommendations, confidence : Millionths]
Report == [recommended : SUBSET Opps, challenged : SUBSET Opps,
           iterations : Nat, degraded : BOOLEAN, partial : BOOLEAN]

\* Dictionaries keyed by opportunity.
IsDict(f, T) == DOMAIN f \subseteq Opps /\ f \in [DOMAIN f -> T]
Empty == [o \in {} |-> 0]

TypeOK ==
    /\ node \in Nodes \union Outcomes
    /\ steps \in Nat
    /\ maxIterations \in Iterations
    /\ iterations \in Nat
    /\ candidates \in SUBSET Opps
    /\ IsDict(evaluations, Evaluation)
    /\ IsDict(verifications, BOOLEAN)
    /\ IsDict(scores, Score)
    /\ IsDict(counterpoints, 0..100)
    /\ IsDict(decisions, Decision)
    /\ degraded \in BOOLEAN
    /\ errors \in BOOLEAN
    /\ report \in Report \union {NoReport}
    /\ episode \in {0, 30, 70}
    /\ openTask \in Tracked \union {"none"}

Init ==
    /\ node = "understand"
    /\ steps = 0
    /\ maxIterations \in Iterations
    /\ iterations = 0
    /\ candidates = {}
    /\ evaluations = Empty
    /\ verifications = Empty
    /\ scores = Empty
    /\ counterpoints = Empty
    /\ decisions = Empty
    /\ degraded = FALSE
    /\ errors = FALSE
    /\ report = NoReport
    /\ episode = 0
    /\ openTask = "none"

-----------------------------------------------------------------------------
(* Scores, ranking and gates.                                              *)

PursueFloor == 450000   \* scoring.CONFIDENCE_FLOOR
GateFloor == 350000     \* decision_gates.CONFIDENCE_FLOOR

ByThreshold(overall) ==
    IF overall >= 82 THEN "STRONGLY_PURSUE"
    ELSE IF overall >= 66 THEN "PURSUE"
    ELSE IF overall >= 45 THEN "CONSIDER"
    ELSE IF overall >= 28 THEN "LOW_PRIORITY"
    ELSE "IGNORE"

\* scoring.recommend: eligible is what the work-authorization factor found.
Recommend(overall, confidence, eligible) ==
    IF ~eligible THEN "INELIGIBLE"
    ELSE IF confidence < PursueFloor /\ ByThreshold(overall) \in Enthusiastic
    THEN "WAIT"
    ELSE ByThreshold(overall)

\* The scores the engine can give.
ScoreResults ==
    {[overall |-> v, confidence |-> c, recommendation |-> Recommend(v, c, e)] :
        v \in Overalls, c \in Confidences, e \in BOOLEAN}

\* sorted(scores, reverse=True)[:TopN]; the sort is stable and discovery lists
\* the newest opportunity first.
Ahead(a, b) ==
    \/ scores[a].overall > scores[b].overall
    \/ scores[a].overall = scores[b].overall /\ a > b

Ranked ==
    {o \in DOMAIN scores :
        /\ Cardinality({p \in DOMAIN scores : Ahead(p, o)}) < TopN
        /\ o \in candidates}

\* What the contrarian node leaves of a confidence.
Doubted(confidence, pressure) ==
    IF pressure >= 40 THEN (confidence * (400 - pressure)) \div 400 ELSE confidence

Floored(recommendation, confidence) ==
    IF confidence < GateFloor /\ recommendation \in Enthusiastic
    THEN "CONSIDER" ELSE recommendation

\* Mutant of Pressed: no floor.
PressedUnfloored(recommendation, confidence, pressure) ==
    IF pressure >= 75 /\ recommendation = "STRONGLY_PURSUE"
    THEN [recommendation |-> "PURSUE", confidence |-> (confidence * 85) \div 100]
    ELSE [recommendation |-> recommendation, confidence |-> confidence]

\* apply_contrarian_pressure on a candidate that has a counter-analysis.
Pressed(recommendation, confidence, pressure) ==
    LET updated == Floored(recommendation, confidence)
        Result(r, factor) == [recommendation |-> r,
                              confidence |-> (confidence * factor) \div 100]
    IN  IF pressure >= 75 /\ updated = "STRONGLY_PURSUE" THEN Result("PURSUE", 85)
        ELSE IF pressure >= 55 /\ updated \in Enthusiastic THEN Result("CONSIDER", 75)
        ELSE IF pressure >= 40 /\ updated = "STRONGLY_PURSUE" THEN Result("PURSUE", 90)
        ELSE Result(updated, 100)

\* The verdict decide_node starts from.
Eligible(o) ==
    ~(o \in DOMAIN evaluations /\ evaluations[o].verdict = "ineligible")

Opening(o) == IF Eligible(o) THEN scores[o].recommendation ELSE "INELIGIBLE"

\* Mutant of Gated: the specialists' verdict is not looked at.
ScoreGated(o) ==
    Pressed(scores[o].recommendation, scores[o].confidence, counterpoints[o])

\* decide_node for one candidate.
Gated(o) ==
    IF o \in DOMAIN counterpoints
    THEN Pressed(Opening(o), scores[o].confidence, counterpoints[o])
    ELSE [recommendation |-> Floored(Opening(o), scores[o].confidence),
          confidence |-> scores[o].confidence]

-----------------------------------------------------------------------------
(* Routing.                                                                *)

Unresolved(verified) == \E o \in DOMAIN verified : verified[o]

\* Mutant of RouteAfterVerify: the loop bound is off by one.
RouteOnceMore(verified) ==
    IF Unresolved(verified) /\ iterations <= maxIterations /\ BudgetLeft
    THEN "replan" ELSE "score"

RouteAfterVerify(verified) ==
    IF Unresolved(verified) /\ iterations < maxIterations /\ BudgetLeft
    THEN "replan" ELSE "score"

\* replan asks for new sources on odd iterations.
RouteAfterReplan(count) == IF count % 2 = 1 THEN "discover" ELSE "evaluate"

\* One node runs and returns.
Runs(n, next) ==
    /\ node = n
    /\ steps < RecursionLimit
    /\ steps' = steps + 1
    /\ node' = next
    /\ UNCHANGED maxIterations

-----------------------------------------------------------------------------
(* Nodes.                                                                  *)

Understand ==
    /\ Runs("understand", "load_context")
    /\ UNCHANGED <<iterations, candidates, evaluations, verifications, scores,
                   counterpoints, decisions, degraded, errors, report, episode, openTask>>

\* The profile search answers (perhaps degraded), or fails and is recorded.
LoadContext ==
    /\ Runs("load_context", "plan")
    /\ \/ degraded' \in BOOLEAN /\ UNCHANGED errors
       \/ degraded' = TRUE /\ errors' = TRUE
    /\ UNCHANGED <<iterations, candidates, evaluations, verifications, scores,
                   counterpoints, decisions, report, episode, openTask>>

Plan ==
    /\ Runs("plan", "discover")
    /\ UNCHANGED <<iterations, candidates, evaluations, verifications, scores,
                   counterpoints, decisions, degraded, errors, report, episode, openTask>>

\* Whatever part of the index is active, matches and fits max_candidates.
Discover ==
    /\ Runs("discover", "triage")
    /\ candidates' \in SUBSET Opps
    /\ UNCHANGED <<iterations, evaluations, verifications, scores,
                   counterpoints, decisions, degraded, errors, report, episode, openTask>>

\* Mutant of Triage: what was evaluated once is not evaluated again.
TriageSkipsEvaluated ==
    /\ Runs("triage", IF candidates = {} THEN "report"
                      ELSE IF evaluations # Empty THEN "verify" ELSE "evaluate")
    /\ UNCHANGED <<iterations, candidates, evaluations, verifications, scores,
                   counterpoints, decisions, degraded, errors, report, episode, openTask>>

\* Mutant of Triage: a single candidate is not investigated.
TriageKeepsSeveral ==
    /\ Runs("triage", IF Cardinality(candidates) <= 1 THEN "report" ELSE "evaluate")
    /\ UNCHANGED <<iterations, candidates, evaluations, verifications, scores,
                   counterpoints, decisions, degraded, errors, report, episode, openTask>>

Triage ==
    /\ Runs("triage", IF candidates = {} THEN "report" ELSE "evaluate")
    /\ UNCHANGED <<iterations, candidates, evaluations, verifications, scores,
                   counterpoints, decisions, degraded, errors, report, episode, openTask>>

Evaluate ==
    /\ Runs("evaluate", "verify")
    /\ evaluations' \in [candidates -> Evaluation]
    /\ UNCHANGED <<iterations, candidates, verifications, scores,
                   counterpoints, decisions, degraded, errors, report, episode, openTask>>

Verify ==
    \E verified \in [candidates -> BOOLEAN] :
        /\ Runs("verify", RouteAfterVerify(verified))
        /\ verifications' = verified
        /\ UNCHANGED <<iterations, candidates, evaluations, scores,
                       counterpoints, decisions, degraded, errors, report, episode, openTask>>

\* Mutant of Replan: the iteration is not counted.
ReplanUncounted ==
    /\ Runs("replan", RouteAfterReplan(iterations + 1))
    /\ UNCHANGED <<iterations, candidates, evaluations, verifications, scores,
                   counterpoints, decisions, degraded, errors, report, episode, openTask>>

Replan ==
    /\ Runs("replan", RouteAfterReplan(iterations + 1))
    /\ iterations' = iterations + 1
    /\ UNCHANGED <<candidates, evaluations, verifications, scores,
                   counterpoints, decisions, degraded, errors, report, episode, openTask>>

\* A candidate whose score tool fails or is refused is left out, unrecorded.
ScoreCandidates ==
    /\ Runs("score", "contrarian")
    /\ \E scored \in SUBSET candidates : scores' \in [scored -> ScoreResults]
    /\ UNCHANGED <<iterations, candidates, evaluations, verifications,
                   counterpoints, decisions, degraded, errors, report, episode, openTask>>

\* The goal was deleted while the run was on its way: score_node returns at
\* once, with an error, no scores and no event.
GoalNotFound ==
    /\ Runs("score", "contrarian")
    /\ scores' = Empty
    /\ errors' = TRUE
    /\ UNCHANGED <<iterations, candidates, evaluations, verifications,
                   counterpoints, decisions, degraded, report, episode, openTask>>

\* Mutant of Contrarian: candidates scored high are not challenged.
ContrarianOnBorderline ==
    /\ Runs("contrarian", "decide")
    /\ counterpoints' \in [{o \in Ranked : scores[o].overall <= 60} -> Pressures]
    /\ UNCHANGED <<iterations, candidates, evaluations, verifications, scores,
                   decisions, degraded, errors, report, episode, openTask>>

Contrarian ==
    /\ Runs("contrarian", "decide")
    /\ counterpoints' \in [Ranked -> Pressures]
    /\ scores' = [o \in DOMAIN scores |->
                    IF o \in Ranked
                    THEN [scores[o] EXCEPT !.confidence =
                             Doubted(@, counterpoints'[o])]
                    ELSE scores[o]]
    /\ UNCHANGED <<iterations, candidates, evaluations, verifications,
                   decisions, degraded, errors, report, episode, openTask>>

Decide ==
    /\ Runs("decide", "report")
    /\ decisions' = [o \in Ranked |-> Gated(o)]
    /\ UNCHANGED <<iterations, candidates, evaluations, verifications, scores,
                   counterpoints, degraded, errors, report, episode, openTask>>

\* MemoryService.write_episodic, in the run's session.
WriteEpisodic(importance) == episode' = importance

\* The report, and the episode the memory service keeps of the run.
WriteReport ==
    /\ Runs("report", "end")
    /\ report' = [recommended |-> DOMAIN decisions,
                  challenged |-> DOMAIN counterpoints,
                  iterations |-> iterations,
                  degraded |-> degraded,
                  partial |-> errors]
    /\ WriteEpisodic(IF decisions = Empty THEN 30 ELSE 70)
    /\ UNCHANGED <<iterations, candidates, evaluations, verifications, scores,
                   counterpoints, decisions, degraded, errors, openTask>>

\* Mutant of NodeRaises: every node opens a task.
NodeRaisesInTask ==
    /\ node \in Fallible
    /\ steps < RecursionLimit
    /\ node' = "failed"
    /\ openTask' = node
    /\ UNCHANGED <<steps, maxIterations, iterations, candidates, evaluations,
                   verifications, scores, counterpoints, decisions, degraded, errors,
                   report, episode>>

\* A model, a tool outside the executor or a query raises in a node: the run
\* fails and a task the node had started is never finished.
NodeRaises ==
    /\ node \in Fallible
    /\ steps < RecursionLimit
    /\ node' = "failed"
    /\ openTask' = IF node \in Tracked THEN node ELSE "none"
    /\ UNCHANGED <<steps, maxIterations, iterations, candidates, evaluations,
                   verifications, scores, counterpoints, decisions, degraded, errors,
                   report, episode>>

\* LangGraph raises GraphRecursionError instead of running one more node.
Exhaust ==
    /\ node \in Nodes
    /\ steps >= RecursionLimit
    /\ node' = "exhausted"
    /\ UNCHANGED <<steps, maxIterations, iterations, candidates, evaluations, verifications, scores,
                   counterpoints, decisions, degraded, errors, report, episode, openTask>>

\* The nodes that come to their end.
Finish ==
    \/ Understand \/ LoadContext \/ Plan \/ Discover \/ Triage \/ Evaluate
    \/ Verify \/ Replan \/ ScoreCandidates \/ Contrarian \/ Decide
    \/ WriteReport

Step == Finish \/ GoalNotFound \/ Exhaust

Next == Step \/ NodeRaises

Spec == Init /\ [][Next]_vars

\* The worker awaits the graph, which runs one node after the other.
FairSpec == Spec /\ WF_vars(Step)

-----------------------------------------------------------------------------
(* Properties.                                                             *)

\* Whatever is recommended was found, evaluated, verified, scored and
\* challenged, all of it for the candidates of the last discovery: no replan
\* leaves a decision resting on an earlier list.
DecisionsAreGrounded ==
    \A o \in DOMAIN decisions :
        /\ o \in candidates
        /\ o \in DOMAIN scores
        /\ o \in DOMAIN counterpoints
        /\ DOMAIN evaluations = candidates
        /\ DOMAIN verifications = candidates

\* A candidate the qualification agent or the engine found ineligible is
\* reported as INELIGIBLE, whatever its score and whatever the pressure.
IneligibleStays ==
    \A o \in DOMAIN decisions :
        ~Eligible(o) \/ scores[o].recommendation = "INELIGIBLE" =>
            decisions[o].recommendation = "INELIGIBLE"

\* An enthusiastic decision has a score above the pursue threshold, a
\* confidence that was above the gate's floor after the contrarian's doubt, and
\* either little pressure or one step down from STRONGLY_PURSUE.
EnthusiasmIsEarned ==
    \A o \in DOMAIN decisions :
        decisions[o].recommendation \in Enthusiastic =>
            /\ scores[o].overall >= 66
            /\ scores[o].confidence >= GateFloor
            /\ Eligible(o)
            /\ \/ counterpoints[o] < 55
               \/ /\ decisions[o].recommendation = "PURSUE"
                  /\ scores[o].recommendation = "STRONGLY_PURSUE"

\* Node executions of a run without replans, and what i replans add: replan,
\* evaluate and verify each time, discover and triage on the odd ones.
Straight == 11
Loops(i) == 3 * i + 2 * ((i + 1) \div 2)

\* LangGraph's limit leaves room for the replans the run may make.
Fitting == {m \in Iterations : Straight + Loops(m) <= RecursionLimit}
Fits == maxIterations \in Fitting

\* The replan loop is cut off by LangGraph's recursion limit only where the
\* settings allow more replans than fit in it.
WithinRecursionLimit == node = "exhausted" => ~Fits

\* A graph whose replans fit reports, unless a node raises.
ReportsOrRaises == Fits ~> node \in {"end", "failed"}

\* AGENT_DESIGN.md: "confidence below floor -> capped at CONSIDER".
LowConfidenceIsCapped ==
    \A o \in DOMAIN decisions :
        decisions[o].confidence < GateFloor =>
            decisions[o].recommendation \notin Enthusiastic

\* AGENT_DESIGN.md: "A single not_met hard requirement forces INELIGIBLE
\* downstream regardless of score".
UnmetIsIneligible ==
    \A o \in DOMAIN decisions :
        evaluations[o].unmet => decisions[o].recommendation = "INELIGIBLE"

\* ARCHITECTURE.md, on conflicting evidence: "recommendation caps at CONSIDER".
ContestedIsCapped ==
    \A o \in DOMAIN decisions :
        verifications[o] => decisions[o].recommendation \notin Enthusiastic

=============================================================================
