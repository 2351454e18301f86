-------------------------- MODULE InvestigationRun --------------------------
(***************************************************************************)
(* One investigation run from POST /investigate to its last commit:        *)
(* start_and_commit and the dispatch of its task, the worker               *)
(* (run_investigation_background, and the Celery task that retries it),    *)
(* the cancel endpoint with its own transaction, and the streams of        *)
(* EventStore.  Only committed values of the row are visible to the other  *)
(* sessions; an UPDATE waits for the row lock another session holds.       *)
(*                                                                         *)
(* The graph the worker awaits is its own module (InvestigationGraph): it  *)
(* is here the stage events it emits and how it can end.                   *)
(***************************************************************************)
EXTENDS EventStore

CONSTANTS Requests,    \* the POST /agent-runs/{id}/cancel requests
          NoRow,       \* the run has no committed row
          Deployments, \* the values of settings.workers.enabled to consider
          MaxRetries,  \* max_retries of run_investigation_task
          MaxStages,   \* bound: stage events the graph emits
          Faults       \* which failures the environment may produce

Active == {"PENDING", "RUNNING"}
Terminal == {"SUCCEEDED", "FAILED", "CANCELLED"}
Status == Active \union Terminal

RunPayloads == {"stage", "SUCCEEDED", "FAILED"}

FaultKinds == {"dispatch", "setup", "graph", "audit", "database", "crash", "request"}

ASSUME RunAssumption ==
    /\ Payloads = RunPayloads
    /\ NoRow \notin Status
    /\ Deployments \subseteq BOOLEAN
    /\ MaxRetries \in Nat
    /\ MaxStages \in Nat
    /\ Faults \subseteq FaultKinds

VARIABLES celery,    \* settings.workers.enabled: the worker is another process
          row,       \* the committed status of the agent_runs row
          mem,       \* the status of the worker session's copy of the row
          workerPc,  \* where the run's work is
          retries,   \* retries the Celery task has left
          requestPc  \* where each cancel request is

runVars == <<celery, row, mem, workerPc, retries, requestPc>>
vars == <<storeVars, runVars>>

WorkerPcs == {"none", "created", "queued", "loaded", "marked", "graph",
              "audit", "commit", "done", "gone"}

TypeOK ==
    /\ StoreTypeOK
    /\ celery \in BOOLEAN
    /\ row \in Status \union {NoRow}
    /\ mem \in Status \union {NoRow}
    /\ workerPc \in WorkerPcs
    /\ retries \in 0..MaxRetries
    /\ requestPc \in [Requests -> {"idle", "seen", "flagged", "refused",
                                   "committed", "aborted"}]

Init ==
    /\ StoreInit
    /\ celery \in Deployments
    /\ row = NoRow
    /\ mem = NoRow
    /\ workerPc = "none"
    /\ retries = IF celery THEN MaxRetries ELSE 0
    /\ requestPc = [c \in Requests |-> "idle"]

\* The worker's session holds the row lock from its last flush to its commit.
RowFree == workerPc \notin {"audit", "commit"}

\* A Celery worker appends to, and reads, the store of its own process, which
\* no request of the API ever sees.
Shared == ~celery
OnStore(effect) == IF Shared THEN effect ELSE UNCHANGED storeVars

\* Mutant of Escape: Celery never gives up.
EscapeForever == workerPc' = "queued" /\ retries' = retries - 1

\* An exception leaves run_investigation_background and its session rolls
\* back.  Celery retries; a FastAPI background task is not run again.
Escape ==
    IF retries > 0
    THEN workerPc' = "queued" /\ retries' = retries - 1
    ELSE workerPc' = "gone" /\ UNCHANGED retries

-----------------------------------------------------------------------------
(* POST /opportunities/investigate.                                        *)

Create ==
    /\ workerPc = "none"
    /\ row' = "PENDING"
    /\ workerPc' = "created"
    /\ UNCHANGED <<storeVars, mem, retries, requestPc, celery>>

Enqueue ==
    /\ workerPc = "created"
    /\ workerPc' = "queued"
    /\ UNCHANGED <<storeVars, row, mem, retries, requestPc, celery>>

\* The row is committed but the broker refuses the task.
LoseDispatch ==
    /\ "dispatch" \in Faults
    /\ workerPc = "created"
    /\ celery
    /\ workerPc' = "gone"
    /\ UNCHANGED <<storeVars, row, mem, retries, requestPc, celery>>

-----------------------------------------------------------------------------
(* run_investigation_background.                                           *)

\* get_run: whatever the row says, cancelled or already finished included.
Load ==
    /\ workerPc = "queued"
    /\ mem' = row
    /\ workerPc' = "loaded"
    /\ UNCHANGED <<storeVars, row, retries, requestPc, celery>>

\* mark_running and its commit.  The session writes the attributes that
\* changed since it read them: a copy read as RUNNING leaves the column alone.
MarkRunning ==
    /\ workerPc = "loaded"
    /\ row' = IF mem = "RUNNING" THEN row ELSE "RUNNING"
    /\ mem' = "RUNNING"
    /\ workerPc' = "marked"
    /\ UNCHANGED <<storeVars, retries, requestPc, celery>>

\* Building the provider, the tools or the graph raises, before the try: no
\* handler marks the run and nobody closes its stream.
SetupFails ==
    /\ "setup" \in Faults
    /\ workerPc = "marked"
    /\ Escape
    /\ UNCHANGED <<storeVars, row, mem, requestPc, celery>>

\* Mutant of HonourCancel: the early return comes before mark_cancelled.
HonourCancelSilently ==
    /\ workerPc = "marked" /\ Shared /\ cancelled
    /\ workerPc' = "done"
    /\ Close
    /\ UNCHANGED <<row, mem, retries, requestPc, celery>>

\* The only look at the cancel flag, before the graph starts.
HonourCancel ==
    /\ workerPc = "marked"
    /\ Shared /\ cancelled
    /\ row' = "CANCELLED"
    /\ mem' = "CANCELLED"
    /\ workerPc' = "done"
    /\ Close
    /\ UNCHANGED <<retries, requestPc, celery>>

\* Mutant of EnterGraph: the flag is not looked at.
EnterGraphBlindly ==
    /\ workerPc = "marked"
    /\ workerPc' = "graph"
    /\ UNCHANGED <<storeVars, row, mem, retries, requestPc, celery>>

EnterGraph ==
    /\ workerPc = "marked"
    /\ ~(Shared /\ cancelled)
    /\ workerPc' = "graph"
    /\ UNCHANGED <<storeVars, row, mem, retries, requestPc, celery>>

EmitStage ==
    /\ workerPc = "graph"
    /\ Shared
    /\ Len(events) < MaxStages
    /\ AppendEvent("stage")
    /\ UNCHANGED runVars

\* Mutant of Succeed: the done event is left out.
SucceedQuietly ==
    /\ workerPc = "graph"
    /\ mem' = "SUCCEEDED"
    /\ workerPc' = "audit"
    /\ UNCHANGED <<storeVars, row, retries, requestPc, celery>>

\* mark_succeeded is flushed, not committed, and the client is told.
Succeed ==
    /\ workerPc = "graph"
    /\ mem' = "SUCCEEDED"
    /\ workerPc' = "audit"
    /\ OnStore(AppendEvent("SUCCEEDED"))
    /\ UNCHANGED <<row, retries, requestPc, celery>>

\* A node raises and the session still works: except, finally.
GraphFails ==
    /\ "graph" \in Faults
    /\ workerPc = "graph"
    /\ mem' = "FAILED"
    /\ workerPc' = "commit"
    /\ OnStore(AppendAndClose("FAILED"))
    /\ UNCHANGED <<row, retries, requestPc, celery>>

\* Mutant of AuditOk: the finally block does not close the stream.
AuditOkLeavesOpen ==
    /\ workerPc = "audit"
    /\ workerPc' = "commit"
    /\ UNCHANGED <<storeVars, row, mem, retries, requestPc, celery>>

AuditOk ==
    /\ workerPc = "audit"
    /\ workerPc' = "commit"
    /\ OnStore(Close)
    /\ UNCHANGED <<row, mem, retries, requestPc, celery>>

\* Mutant of AuditFails: the second outcome is not announced.
AuditFailsQuietly ==
    /\ "audit" \in Faults
    /\ workerPc = "audit"
    /\ mem' = "FAILED"
    /\ workerPc' = "commit"
    /\ OnStore(Close)
    /\ UNCHANGED <<row, retries, requestPc, celery>>

\* What follows the first done event raises: the run that was announced as
\* succeeded is marked failed and announced again.
AuditFails ==
    /\ "audit" \in Faults
    /\ workerPc = "audit"
    /\ mem' = "FAILED"
    /\ workerPc' = "commit"
    /\ OnStore(AppendAndClose("FAILED"))
    /\ UNCHANGED <<row, retries, requestPc, celery>>

\* A statement of the session fails: mark_failed cannot flush either, so its
\* exception escapes; finally still closes the stream.
DatabaseFails ==
    /\ "database" \in Faults
    /\ workerPc \in {"graph", "audit"}
    /\ Escape
    /\ OnStore(Close)
    /\ UNCHANGED <<row, mem, requestPc, celery>>

\* Mutant of Commit: the last commit is missing.
CommitForgotten ==
    /\ workerPc = "commit"
    /\ workerPc' = "done"
    /\ UNCHANGED <<storeVars, row, mem, retries, requestPc, celery>>

Commit ==
    /\ workerPc = "commit"
    /\ row' = mem
    /\ workerPc' = "done"
    /\ UNCHANGED <<storeVars, mem, retries, requestPc, celery>>

CommitFails ==
    /\ "database" \in Faults
    /\ workerPc = "commit"
    /\ Escape
    /\ UNCHANGED <<storeVars, row, mem, requestPc, celery>>

-----------------------------------------------------------------------------
(* POST /agent-runs/{id}/cancel.                                           *)

\* Mutant of CancelSees: a finished run can be cancelled.
CancelSeesAny(c) ==
    /\ requestPc[c] = "idle"
    /\ row # NoRow
    /\ requestPc' = [requestPc EXCEPT ![c] = "seen"]
    /\ UNCHANGED <<storeVars, row, mem, workerPc, retries, celery>>

CancelSees(c) ==
    /\ requestPc[c] = "idle"
    /\ row \in Active
    /\ requestPc' = [requestPc EXCEPT ![c] = "seen"]
    /\ UNCHANGED <<storeVars, row, mem, workerPc, retries, celery>>

\* Mutant of CancelRefused: the refusal does not return before mark_cancelled.
CancelRefusedWrites(c) ==
    /\ requestPc[c] = "idle"
    /\ row \in Terminal /\ RowFree
    /\ row' = "CANCELLED"
    /\ requestPc' = [requestPc EXCEPT ![c] = "refused"]
    /\ UNCHANGED <<storeVars, mem, workerPc, retries, celery>>

CancelRefused(c) ==
    /\ requestPc[c] = "idle"
    /\ row \in Terminal
    /\ requestPc' = [requestPc EXCEPT ![c] = "refused"]
    /\ UNCHANGED <<storeVars, row, mem, workerPc, retries, celery>>

\* event_store.cancel, in the API process.
CancelFlags(c) ==
    /\ requestPc[c] = "seen"
    /\ CancelRun
    /\ requestPc' = [requestPc EXCEPT ![c] = "flagged"]
    /\ UNCHANGED <<row, mem, workerPc, retries, celery>>

\* mark_cancelled, committed with the request.
CancelCommits(c) ==
    /\ requestPc[c] = "flagged"
    /\ RowFree
    /\ row' = "CANCELLED"
    /\ requestPc' = [requestPc EXCEPT ![c] = "committed"]
    /\ UNCHANGED <<storeVars, mem, workerPc, retries, celery>>

\* The request's session fails and rolls back.
CancelAborts(c) ==
    /\ "request" \in Faults
    /\ requestPc[c] \in {"seen", "flagged"}
    /\ requestPc' = [requestPc EXCEPT ![c] = "aborted"]
    /\ UNCHANGED <<storeVars, row, mem, workerPc, retries, celery>>

-----------------------------------------------------------------------------
(* Streams and crashes.                                                    *)

\* stream_run answers 404 before the row is there.
StreamRun ==
    /\ row # NoRow
    /\ StreamStep
    /\ UNCHANGED runVars

\* A Celery worker dies: its task was acknowledged when it was received, so
\* the broker does not deliver it again.
WorkerCrash ==
    /\ "crash" \in Faults
    /\ celery
    /\ workerPc \in {"loaded", "marked", "graph", "audit", "commit"}
    /\ workerPc' = "gone"
    /\ UNCHANGED <<storeVars, row, mem, retries, requestPc, celery>>

\* The API process dies with the requests it serves, the events it holds and
\* the background tasks it runs.
ApiCrash ==
    /\ "crash" \in Faults
    /\ Restart
    /\ workerPc' = IF workerPc = "created"
                      \/ (Shared /\ workerPc \notin {"none", "done"})
                   THEN "gone" ELSE workerPc
    /\ requestPc' = [c \in Requests |->
                       IF requestPc[c] \in {"seen", "flagged"} THEN "aborted"
                       ELSE requestPc[c]]
    /\ UNCHANGED <<row, mem, retries, celery>>

WorkerStep ==
    \/ Load \/ MarkRunning \/ HonourCancel \/ EnterGraph \/ Succeed
    \/ AuditOk \/ Commit

WorkerFault ==
    \/ SetupFails \/ GraphFails \/ AuditFails \/ DatabaseFails \/ CommitFails

CancelStep(c) ==
    \/ CancelSees(c) \/ CancelRefused(c) \/ CancelFlags(c)
    \/ CancelCommits(c) \/ CancelAborts(c)

Next ==
    \/ Create \/ Enqueue \/ LoseDispatch
    \/ WorkerStep \/ EmitStage \/ WorkerFault
    \/ \E c \in Requests : CancelStep(c)
    \/ StreamRun
    \/ WorkerCrash \/ ApiCrash

Spec == Init /\ [][Next]_vars

\* The event loop (or the Celery worker) runs what it was given, the graph
\* ends (its budget and its time limits end it), a request that was received
\* is served, an open generator is scheduled.  Nobody owes a request.
Fairness ==
    /\ WF_vars(Enqueue)
    /\ WF_vars(WorkerStep)
    /\ \A c \in Requests : WF_vars(CancelFlags(c) \/ CancelCommits(c))
    /\ \A s \in Streams : WF_vars(row # NoRow /\ Take(s) /\ UNCHANGED runVars)

FairSpec == Spec /\ Fairness

-----------------------------------------------------------------------------
(* Properties.                                                             *)

\* A worker that returns normally leaves a run whose row is settled: no path
\* through the handlers ends with the row still PENDING or RUNNING.
NormalReturnSettles == workerPc = "done" => row \in Terminal

\* The last "done" event of a run is the status its worker committed, double
\* announcements included (succeeded, then failed in the audit); the row says
\* otherwise only when a cancel request was written over it.
LastAnnouncementHolds ==
    workerPc = "done" /\ events # <<>> =>
        /\ events[Len(events)] = mem
        /\ row = mem \/ (row = "CANCELLED" /\ cancelled)

\* A run never shows an outcome its stream has not announced: SUCCEEDED and
\* FAILED rows come after the event (the API process not having restarted).
RowIsAnnounced ==
    row \in {"SUCCEEDED", "FAILED"} /\ Shared /\ events # <<>> =>
        \E i \in 1..Len(events) : events[i] = row

\* With the worker in the API process, a cancel flagged before the worker looks
\* for it settles the run as CANCELLED, for good, even when the request that
\* set the flag fails to commit; unless the worker fails before it looks.
EarlyCancelTakesEffect ==
    Shared /\ cancelled /\ workerPc \in {"created", "queued", "loaded", "marked"}
        ~> [](row = "CANCELLED") \/ workerPc = "gone"

\* Every run that was created settles, unless its work was lost: a crash, a
\* task the broker refused, or an exception that left the worker.
SettlesOrIsLost == row # NoRow ~> row \in Terminal \/ workerPc = "gone"

\* Every run that was created settles.
RunSettles == row # NoRow ~> row \in Terminal

\* With the worker in the API process, a stream that is the run's current one
\* while the graph runs is ended, whatever way the run ends, unless a later
\* stream takes its place.
CurrentStreamEnds ==
    \A s \in Streams :
        Shared /\ streamPc[s] = "open" /\ queueOf = s /\ workerPc \in {"graph", "audit"}
            ~> streamPc[s] # "open" \/ queueOf # s

\* ARCHITECTURE.md, of a worker in its own process: "nodes emit AgentEvent ->
\* redis pubsub -> SSE to UI": a stream hears of the end of the run it follows.
StreamsHearTheEnd ==
    \A s \in Streams :
        streamPc[s] = "open" /\ queueOf = s /\ workerPc \in {"graph", "audit"}
            ~> streamPc[s] # "open" \/ queueOf # s

\* A run whose worker died goes on.
CrashedRunResumes == workerPc = "gone" ~> row \in Terminal

-----------------------------------------------------------------------------
(* What the run implements.                                                *)

Work ==
    CASE workerPc = "none" -> "none"
      [] workerPc \in {"created", "queued", "loaded"} -> "waiting"
      [] workerPc \in {"marked", "graph", "audit", "commit"} -> "started"
      [] workerPc \in {"done", "gone"} -> "over"

Asked == {c \in Requests : requestPc[c] \in {"seen", "flagged"}}

Life == INSTANCE RunLifecycle WITH status <- row, work <- Work, asked <- Asked

\* The status a caller reads follows the abstract lifecycle.
ImplementsLifecycle == Life!LifeSpec

\* Once work is over and cancel requests are answered, the status is final.
SettledIsFinal == Life!SettledIsFinal

=============================================================================
