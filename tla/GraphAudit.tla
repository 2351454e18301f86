----------------------------- MODULE GraphAudit -----------------------------
(***************************************************************************)
(* The trace a run leaves behind and its audit (evaluation/trace_audit.py, *)
(* the end of run_investigation_background): the events the nodes return,  *)
(* the agent_tasks rows they finish, and what the worker's audit sees of   *)
(* them in the session that ran the graph.                                 *)
(***************************************************************************)
EXTENDS InvestigationGraph

CONSTANT NotAudited   \* the worker has not audited the run

ASSUME AuditAssumption == NoReport \notin Report

VARIABLES stages,   \* stages of the events in the graph's state
          tasks,    \* nodes whose AgentTask rows are SUCCEEDED
          loaded,   \* the tasks collection of the run the worker holds
          audit     \* what the worker's audit found, or NotAudited

auditVars == <<vars, stages, tasks, loaded, audit>>

\* Each required (agent, capability) is named by the node that runs it.
REQUIRED_STAGES == Nodes \ {"replan"}
REQUIRED_TASK_CAPABILITIES == Tracked

AuditInit ==
    /\ Init
    /\ stages = {}
    /\ tasks = {}
    /\ loaded = tasks
    /\ audit = NotAudited

\* The stages of the returned events (the reducer adds the lists) and the tasks
\* finished on the way.
Leaves(done) ==
    /\ stages' = stages \union done
    /\ tasks' = tasks \union (done \intersect Tracked)

\* A node that comes to its end returns its event and has finished its task;
\* one that raises, or scores for a goal that is gone, leaves neither.
Traced ==
    /\ \/ Finish /\ Leaves({node})
       \/ (GoalNotFound \/ Exhaust \/ NodeRaises) /\ Leaves({})
    /\ UNCHANGED <<loaded, audit>>

\* audit_investigation_trace on a run whose tasks collection is rows.
Audit(rows) ==
    LET missingStages == REQUIRED_STAGES \ stages
        missingTasks == REQUIRED_TASK_CAPABILITIES \ rows
    IN  [complete |-> /\ missingStages = {}
                      /\ missingTasks = {}
                      /\ report # NoReport,
         missing_stages |-> missingStages,
         missing_tasks |-> missingTasks]

\* The worker audits in its own session.  get_run loaded the collections when
\* there were no tasks, they were added by foreign key, commits expire nothing
\* and selectinload leaves a loaded collection alone.
AuditTrace ==
    /\ node = "end"
    /\ audit = NotAudited
    /\ audit' = Audit(loaded)
    /\ UNCHANGED <<vars, stages, tasks, loaded>>

AuditNext == Traced \/ AuditTrace

AuditSpec == AuditInit /\ [][AuditNext]_auditVars

\* The worker awaits the graph and then the audit.
FairAuditSpec == AuditSpec /\ WF_auditVars(Traced /\ Step) /\ WF_auditVars(AuditTrace)

-----------------------------------------------------------------------------
(* Properties.                                                             *)

\* What the audit misses in a run that reported (trace_audit.py, as the harness
\* runs it in a session of its own): nothing, whatever was replanned, failed to
\* load or was not scored on the way; the stages from evaluate to decide where
\* the last discovery found nobody; the stage score, and no task, where the goal
\* was gone, and then the report says it is partial and recommends nobody.
TraceIsComplete ==
    node = "end" =>
        \/ Audit(tasks).complete
        \/ /\ candidates = {}
           /\ Audit(tasks).missing_stages \subseteq
                {"evaluate", "verify", "score", "contrarian", "decide"}
        \/ /\ Audit(tasks).missing_stages = {"score"}
           /\ Audit(tasks).missing_tasks = {}
           /\ report.partial
           /\ report.recommended = {}

\* IMPLEMENTATION_PLAN.md: "every investigation produces a complete trace".
EveryTraceIsComplete ==
    audit # NotAudited /\ candidates # {} => audit.complete

=============================================================================
