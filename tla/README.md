# Verification of the Chief Opportunity Intelligence Agent

TLA+ models of the backend (`backend/app`), the TLC runs that check them and
theorems checked by TLAPS. The models are translated from the source; the
documents (`docs/*.md`, docstrings) are only used as statements that the code
is compared with. `PROJECT.json` gives, for every definition, the lines it
models.

Contents: 1 the system, 2 the modules, 3 the runs, 4 fairness, 5 the proofs,
6 where code and documents disagree, 7 what is not modelled, 8 the plan.

## 1. The system

A FastAPI service, an optional Celery worker, PostgreSQL, and an investigation
graph (LangGraph) that calls language models and tools. One process serves the
requests on one event loop; services run in a session per request or task and
see committed rows only.

| Component | State | Operations | What is hard, and what makes it correct |
|---|---|---|---|
| Event store and SSE streams (`agents/events.py`, `routes/agent_runs.py`) | per run: event list, one queue, cancel flag, in memory | append, subscribe, close, cancel; the stream generator | a second subscriber replaces the queue; the sentinel must reach a generator; a restart loses all. Clients see a gapless prefix of the history; a closed stream ends. |
| Investigation run (`investigation_service.py`, `agent_run_service.py`, `workers/`) | the `agent_runs` row, the worker's copy of it, Celery retries | start, dispatch, mark_running, look at the flag, await the graph, mark_*, audit, commit; the cancel endpoint in its own transaction | cancel races, events announced before commit, handlers that use the failed session, retries of settled runs, crashes. A run settles, once, and what was announced is what was stored. |
| Investigation graph (`agents/graph.py`, `nodes.py`, `routing.py`, `decision_gates.py`) | `InvestigationState`, rebuilt node by node | twelve nodes, two routes, the gates | a replan loop over state that earlier rounds filled; gates applied in a fixed order; LangGraph's recursion limit. Decisions rest on the last candidates; ineligible stays ineligible; the loop ends within the limit. |
| Opportunity lifecycle (`services/lifecycle.py` and its callers) | `opportunities.status`, `opportunity_events` | transition, set_status, refresh, scoring, the status tool | a move validated against a stale copy. The log explains the status; archived is final. |
| Ingestion and deduplication (`ingestion.py`, `dedup.py`) | `opportunities` rows, links of duplicates, the unique fingerprint | canonicalise, four probes, insert or merge, batch | probe and insert are not atomic; the index covers rows the probes skip. No two active rows are the same opportunity, no link dangles, no posting is lost. |
| Scoring and ranking (`scoring.py`, `factors.py`, `scoring_service.py`, `opportunity_service.py`) | `opportunity_scores` rows per (opportunity, goal, weights version); cursors held by clients | weight profiles and overrides, factors, score, recommend, explain, upsert, list by page | arithmetic at boundaries, versions that do not tell overrides apart, concurrent upserts, pages cut at values that change. A row is explained by its own factors; a page neither repeats nor skips what did not move. |
| Freshness and revalidation (`freshness.py`, `workers/tasks.py`) | `expires_at`, `freshness_score`, `last_verified_at` | assess, refresh one, revalidate the oldest | rotation behind the limit: `last_verified_at` never moves. |
| Tools (`tools/`) | per run: budget, rate-limit windows, `tool_calls` rows | invoke: admit, run, retry, time out, charge, persist | what a failing or late call costs; writes that survive a failed call; a session that breaks. Charges and writes agree with the trace. |
| Completion (`agents/llm/`, `inference/`) | the answer cache, per completion its round and prompt | render, look up, ask down the chain, keep, validate, repair | a cache filled before validation and shared by workers. A result answers its own prompt; a completion ends. |
| Documents (`document_service.py`, `document_tasks.py`, `chunking.py`) | rows, chunks, bytes in object storage, background tasks | upload, index in the background, delete | indexing racing deletion, three stores without a common transaction, tasks lost in a crash. An indexed document is searchable; a pending one has somebody to index it. |
| Retrieval (`retrieval/`, `retrieval_service.py`) | the embedding cache | expand, search dense and lexical, fuse, rerank | alignment of texts and vectors, ties, a failing channel. Own passages only, best first, none twice. |
| Memory (`memory/service.py`) | facts, episodes and outcomes of a user | `recall` (the graph's first node), `write_episodic` (its report), `write_outcome` (a request that records an outcome), `write_semantic` (no caller) | appended in the caller's transaction: an episode is kept with the report or not at all. |
| Users, authentication, middleware | users, goals, request windows | register, log in, edit goals, limit | single-row transactions; a goal edited while it is scored is in `Ranking`. |
| Evaluation, fine-tuning, observability, digest, MCP, frontend, seed data | little or none | reports, experiments, logging | outside the program's core logic. |

How they interact: `POST /opportunities/investigate` commits a run row and
dispatches the worker; the worker marks the row, runs the graph (which reads and
scores opportunities through tools) and emits events to the store as it goes;
streams read the store; the cancel endpoint sets the store's flag and writes the
row. The worker, the tools, revalidation and imports all change opportunities in
sessions of their own.

## 2. The modules

| Module | Models | State and actions |
|---|---|---|
| `EventStore` | the buffer of one run and its SSE generators | `events`, `queueOf`, `cancelled` are `_events[id]`, the queue `_queues[id]` names, `id in _cancelled`; a queue is the sequence of all items ever put in it (`put`) with the number taken (`got`). `AppendEvent`, `Close`, `CancelRun`, `Subscribe`, `Take`, `Disconnect`, `Restart`. Methods have no suspension point, so each is one action. |
| `RunLifecycle` | what a reader of a run's status is promised (abstract) | `status`, how far the work is, which cancel requests are between look and write. |
| `InvestigationRun` | the worker, the Celery task, the cancel endpoint, streams and crashes | extends `EventStore`; `row` is the committed status, `mem` the status in the worker's session, `workerPc`/`requestPc` where each await left them. `celery`, one of `Deployments`, says whether the worker is a process of its own, and with it whether it shares the store (`Shared`, `OnStore`). `Faults` chooses which failures happen: broker, set-up, a node, the audit, the database, a crash, the cancel request's session. |
| `InvestigationGraph` | one execution of the LangGraph | the fields of `InvestigationState` that routing and gates read; one action per node, `GoalNotFound` (the score node's return where the goal was deleted), `NodeRaises`, `Exhaust`; `episode` is what the report has the memory service keep. Confidences are integers in millionths, pressures percent; products round down. What models answer is chosen with `\E`. |
| `OpportunityStatus` | the lifecycle automaton (abstract) | `CanTransition` is the `_ALLOWED` table with the no-op case. |
| `OpportunityLifecycle` | sessions that read a row, decide, and write | `status`, `log`, `due`, and per session the row it `read` and its `copy`; `Load`, the three callers of `set_status`, `Commit`, `Rollback`. |
| `Ingestion` | sessions that ingest side by side, and what others do to the status of rows | `rows` with the transaction that `owner`s them, `pending` (the posting and the probe that is next), `taken`, `seen`; the probes one after the other (`MergeByUrl`, `ProbeUrl`, `MergeByHash`, `ProbeHash`, `ProbeTitle`), `Insert` (waits for a concurrent insert of the same text), `Collide`, `Commit`, `Rollback`. `ChangeStatus` closes a row, flags it, or brings it back to what it was, as a commit of a stale copy may. An organisation is matched by name or by domain. `blind` and `flagged` are history variables: some probe ran while it could not see all rows; rows that are or were duplicates. |
| `MCIngestion` | values for TLC | the other modules are parameterised directly by their cfg. |
| `GraphAudit` | the trace of an investigation and its audit | extends `InvestigationGraph` with the `stages` of the events, the `tasks` that succeeded, the collection the worker's session has `loaded` and what its `audit` found. `Traced` is a graph step with its event and task, or without where the node raises or returns before it; `AuditTrace` the audit after the graph. |
| `Scoring`, `Factors` | the arithmetic, as operators | decimals are integers in units of their quantum, with both roundings of the code; seven weight profiles as a table; time in ticks, and the decay by half-lives taken at the last one passed. Explanations are what they are about. |
| `Ranking` | scoring requests side by side, goal edits, revalidation, the clock, the list and its cursor | `rows` is the committed table by unique key, `scoring[s]` what a session has selected and written (`left`: the opportunities still to score, the oldest first); an UPDATE carries only the columns that differ from what was selected (`Overwrite`). `contested` is a history variable: keys updated over a row another session had rewritten since. A page is the set of the first rows in list order. |
| `Tools` | the executor and the tools, call by call | `writes` and `trace` are in the run's one session, `stored` what the database holds of them; `used`, `perTool`, `events` are `ToolBudget` and `ToolRateLimiter`. `Results` gives the ways each tool can end, `Waits` where it can be waiting. A call is charged when it answers (`Succeed`) and put on record afterwards (`PersistRow`), which may fail (`PersistFails`). `SessionBreaks`: a wait cut off in the database driver, or a failed flush, leaves the session unusable. |
| `Completion` | structured completion, gateway, cache, providers | one worker per completion; every await of the code is a boundary between actions (`Lookup`, `ProviderAnswers`, `Keep`, ...), so that workers interleave on the cache. An answer is the prompt it answers, what is wrong with it (`Flaws`: no JSON, or JSON the schema refuses) and whom it is about; a repair prompt quotes the flaw. `cacheKind` is the deployment's cache, one of `CacheKinds`, the default "none" among them. |
| `Chunking` | cutting a text into chunks, as operators | a word is its number and its length; the tokens of a text are counted from the joined text, words or characters by four; recursive functions, no strings |
| `Documents` | uploads, indexing, deletion, storage, crashes | `rows` with their chunks, `stored` bytes, `tasks`, `op[s]` the last thing a session did; `rowOf` and `chunksOf` are the row locks, so that an indexer (row, then chunks) and a deletion (chunks, bytes, loaded chunks, row, then the cascade) can meet. `commitFirst` says whether a request commits before its background tasks run, as some releases of the framework have it; `lost` are the documents whose indexing was taken by a crash, an error or a commit after the task |
| `Retrieval` | query expansion, searches, fusion, reranking, embedding cache, as operators | a passage is its fusion key; fusion shares are exact integers |
| `MCRanking`, `MCTools`, `MCCompletion`, `MCDocuments` | instances | `MCDocuments` also states, as assumptions that TLC evaluates, what `Chunking` and `Retrieval` promise over all small inputs |
| `*Proofs` | theorems | one module for each component with theorems, the event store's with the run's and the audit's with the graph's; see section 5. |

`InvestigationRun` composes with `EventStore` by conjoining its actions, so each of
its steps is one of the store's by construction (the lemma `StoreRefinement`), and is
shown to implement `RunLifecycle!LifeSpec`.
`GraphAudit` composes with the graph in the same way. `Ranking` and `Tools` move
opportunities with `CanTransition` of `OpportunityStatus`, and `Documents` cuts
with `Chunking`. `OpportunityLifecycle` takes `StatusNext` steps of `OpportunityStatus` as long as
all copies are current, and implements `StatusSpec` when sessions take turns.

Definitions named "Mutant of ..." are deliberate errors used to show that each
property can fail; no specification refers to them.

## 3. The runs

| Run | What it shows | Bounds, and why they are enough |
|---|---|---|
| `run` | clients see a gapless prefix of the history and a closed stream ends; what is announced last agrees with the row; the stream that is current while the graph runs ends however the run ends; an early cancel is honoured for good; a run settles unless its work was lost; the abstract lifecycle is implemented | both deployments, all faults; 2 streams (replacing a queue needs two), 1 cancel request, 1 stage event, 2 retries (the task's `max_retries`) |
| `graph` | decisions are grounded, ineligible stays, enthusiasm is earned, LangGraph's limit cuts off only runs whose replans do not fit in it, the others report or raise; a run that reports on candidates leaves the whole trace the audit asks for, but for the stage of scoring where its goal was deleted on the way | 2 candidates with TopN 1 (one is cut), scores 66 and 82 (both thresholds), confidence 0.45 (exactly the pursue floor, and below the gate's floor once doubted), pressures 0/40/60/80/100 (every branch of contrarian and gates, 40 the one that lowers STRONGLY_PURSUE by a step), `max_iterations` 3 (the default) and 4, limit 25 |
| `lifecycle` | the last event explains the status, events are legal moves from what was read, only a stale copy breaks the automaton | 2 sessions on 1 row (rows do not interact; `CurrentTheorem` is for any number), 4 events |
| `ingest` | links never dangle, no committed posting is lost, an opportunity is stored twice only after a blind probe or as a row that was flagged, under collisions, rollbacks and stale commits | 2 sessions, 3 ids, 1 row whose status others change (`MaxChanged`), a probe that fetches a single row, three wordings of which the second resembles both others (similarity is not transitive), one by the organisation's name and the other by its domain, and shares a URL with the third |
| `ranking` | with the shipped weight profiles no posting is ever recommended; a row is explained by its own factors unless two sessions contested it; paging by cursor is stable | 2 sessions, 2 opportunities (one with a deadline and pay, one without), 1 goal with two settings of the same version and two others, 3 requests, 1 edit, clock at 0 and 210 ticks (before and after deadline and time to live); scores in tenths and factors in hundredths instead of four decimals |
| `tools` | charges and writes agree with the trace, a session that broke before its flush excepted; no window holds more than its limit | 3 calls of any of eight names (each kind of end: refused scope, fetch, missing row, retry, write, unknown name), total budget 2, at most 2 calls of `search_web` and 1 of the others, one call per window of length 1, clock 0..2, one retry for `search_web` (its contract allows five, the shipped tools ask for none) |
| `completion` | a result answers its own prompt, for the right candidate, whoever filled the cache; every completion ends that Redis answers | 2 workers, 2 candidates whose prompts are the same (so that one's answer is read for the other), the agent whose answer carries an id, a chain of two providers that may fail or answer badly in two ways, 3 rounds, each of the three caches, the one in Redis failing, forgetting and not answering |
| `documents` | an indexed row holds its whole text in chunks, a pending row has somebody to index it or has lost them to a fault or to the order of commit and task | 3 sessions (they are symmetric) on 1 file (rows of different files share nothing), 2 rows (upload, delete, upload again), 1 crash or database error, both orders of commit and background task, chunks of 4 tokens with an overlap of 1 |
| the four runs expected to fail | section 6 | the smallest that reach the counterexample |

`documents` also evaluates the assumptions of `MCDocuments`: every text of up to
two paragraphs of three words is cut without losing, reordering or overfilling
(`ChunkTextIsSound`); fusion of any three rankings of three passages respects
dominance (`FusionIsFair`); a search returns found passages, once, within its
limit, and says when it is degraded (`SearchIsSound`); both searches return the
best of the user's own usable rows over every table of four rows
(`SearchesAreOwn`); embeddings fit their texts with any part of them cached and a
provider that stops early (`EmbeddingsAreAligned`); an expansion keeps the query
(`ExpansionKeepsTheQuery`).

Model bounds in the guards: `MaxStages` (stage events), `MaxEvents` (status
events per row), `Ids` (stored rows), `MaxRequests` and `MaxEdits` (scoring),
`MaxInvocations` and `LastTime` (tools), `MaxCompletions`, `MaxChanged` (rows that
others than ingestion change), `MaxRows` and `MaxFaults` (documents).
`RecursionLimit` is the code's own bound (LangGraph's, external): the default of
25 covers 3 replans (24 node executions, `Fits`) and not 4 (27), which the
settings allow (up to 10, `core/config.py:150`). The LangGraph version is not
pinned, so the project states the bound for any limit (`WithinRecursionLimit`)
instead of a finding.

`CHECK_DEADLOCK FALSE` is set where the system really stops: a run that is over
with its streams closed, a graph that reported, rows whose event bound is
reached, calls or requests that are used up. The ingestion runs leave deadlock checked: sessions waiting on each
other's inserts can always roll back.

## 4. Fairness

- The stream part of `InvestigationRun!Fairness`: an open generator with an item
  in its queue is resumed by the event loop.
- `WF(Enqueue)`, `WF(WorkerStep)`: a background task or a Celery task that was
  accepted runs on; the awaited graph ends because `ReportsOrRaises` and its
  calls have time-outs. Failures are alternatives a step may take, never steps
  that must happen. After `EmitStage` the worker still has to succeed or fail.
- `WF` of a cancel request's second half: a request that was received is
  answered. Nobody has to send one, open a stream or disconnect.
- `FairAuditSpec` of the graph: LangGraph runs one node after another, and the
  worker audits afterwards.
- `Completion!Fairness`, weak on each worker's step at a provider or at the parser:
  the event loop resumes a coroutine, and each request to a provider has a timeout,
  so it answers or fails. A look-up or an entry in the cache in memory is one step
  of the loop; the Redis client has no timeout (`semantic_cache.py:53, 89`), so
  nothing is assumed of it, and `CompletionsEnd` excepts a worker that waits for it
  for ever. Nobody has to start a completion, and cache entries need not expire.
- `Ranking`, `Tools`, `Documents`, `Ingestion` and `OpportunityLifecycle` are
  checked for safety only and assume no fairness.

## 5. The proofs

Proved for every value of the constants, under the named assumptions of the
modules, which TLC also evaluates: `StoreAssumption`, `RunAssumption`,
`GraphAssumption`, `AuditAssumption`, `LifecycleAssumption`, `StatusAssumption`,
`IngestionAssumption`, `ToolsAssumption`, `CompletionAssumption`,
`AskedAssumption`, `DocumentsAssumption`, `ScaleAssumption`, `TimeAssumption`,
`RankingAssumption`, `FactsAssumption` and the three of the name `NoneAssumption`. The
last of these, and `AuditAssumption`, only say that a model value that stands for
"nothing" is not one of the values it is told apart from. `ScaleAssumption` asks that
weights and dimensions are counted in units that divide a hundredth, as the code's
10^-8 and 10^-4 do; `FactsAssumption` that what is known of a posting is a number or
`Unknown` and that its lists of skills are finite.

Sums over finite sets, halvings and least elements come up in `Ranking`. The prover
has no induction over them, so these proofs argue by a least counterexample (`LeastOf`,
`Smallest`), and a recursive definition is shown to exist by its approximations up to
a bound (`IterExists`, `HalvingExists`).

- **InvestigationRunProofs, the store** (`HistoryTheorem`, `AttachedTheorem`,
  `QueuesTheorem`).
  `ClientsSeeHistory` speaks of what was taken only and is not inductive.
  `StoreInv` adds that any queue is a prefix of the history up to its first
  sentinel (`PrefixInv`), that a generator stops at its first sentinel
  (`TakenInv`) and that idle requests have taken nothing. Delivery is
  reasoned about once, for any items, and used for append, close and
  cancel alike.
- **InvestigationRunProofs, the run**. Each step is a store step or leaves the store
  alone (`StepIsStoreStep`): that is how the module is written, and the lemma
  `StoreRefinement` only serves to carry the store's theorems over
  (`RunHistoryTheorem`). `RunInv` strengthens `NormalReturnSettles` with
  what the worker's copy must be at each point (`WorkerInv`: terminal from the
  audit on, RUNNING before). The same invariant gives `LifecycleRefinement` and
  `SettledTheorem`; `NormalReturnSettles`, `QueuesOnlyGrow` and `SettledIsFinal` are
  proved although no run lists them.
  `LastAnnouncementTheorem` and `AnnouncedTheorem` rest on `AnnounceInv`: before
  the graph nothing is announced, and from the audit on the last event is the
  worker's copy. It speaks of a worker that shares its store with the API.
- **InvestigationGraphProofs**. `RecursionLimitTheorem`: node executions never
  exceed `Straight + Loops(maxIterations)`, where `Loops` is the cost of the replans
  (five nodes for an odd one, which rediscovers; three for an even one); the
  invariant bounds `steps` at each node by the distance to the report.
  `DecisionsTheorem`: `EvidenceInv` says which dictionaries are for the current
  candidates at each node, `DecisionsInv` what the gates leave; lemmas on
  `Recommend`, `Doubted`, `Floored` and `Pressed` are stated once.
- **OpportunityLifecycleProofs**. `LogTheorem` for any number of sessions:
  `UnitsAreLegal` (a session's copy is reachable from what it read).
  `CurrentTheorem`, for any number of sessions: a step taken while all copies
  are current (`CopiesAreCurrent`) is a step of the automaton and its event
  starts where the last one ended. `SerialTheorem` assumes one session, whose
  copy is then always current, so that the log is a history and the status
  follows the automaton.
- **IngestionProofs**. `SafeIngestion` for any sessions: links point at rows the
  linking transaction can see (`LinksInv`), and a committed posting has a row
  with its URL or text (`PostingsInv`). `DistinctTheorem`, for any sessions as
  well: until a probe was blind at most one session has rows of its own
  (`Exclusive`); rows nobody flagged are unrelated, and a posting on its way is told
  apart from them by the probes it has behind it (`Distinct`, `ToldApart`), which
  `ProbeIsThorough` and `TitleProbeIsThorough` show of each probe. A row that says it
  is a duplicate was flagged (`FlaggedInv`), so what a stale commit brings back to the
  active rows (`ChangeStatus`) is a row the property excepts, and the only one.
- **InvestigationGraphProofs, the audit**. `TraceTheorem`. The traced graph is the graph
  (`TracedIsGraph`), so the theorems on the graph hold of it. `StagesInv` says
  which stages are behind it at each node: a replan goes back to `discover` or
  `evaluate`, where less has to be behind, so the invariant survives every loop.
  `ReportInv` adds that past triage there are candidates, or the report is next, and
  `ScoreInv` follows the one path that skips a stage, a goal deleted before scoring: it
  leaves an error, no scores and so no decisions, and the report says it is partial.
- **CompletionProofs**. `CompletionTyping` and `FitTheorem`, for any chain of
  providers, any of the kinds of cache (none, in memory, in Redis) and any number of
  workers. `FitInv`: an answer in hand is
  to the prompt at hand, and one in the cache to the prompt of its key. The
  prompt changes between attempts (a repair quotes the output), so the invariant
  needs that no action does so between a look-up and its parse.
- **ToolsProofs**. `ChargesTheorem` and `WritesTheorem`. Every registered tool is
  `Tidy` (`ResultsAreTidy`): it writes at most once, and only if it answers.
  `BooksInv` adds that the call under way was admitted and nothing was charged
  since, without which the limits could be passed by one. A call is charged before it
  is on record, so the charges are those of the answers in the trace and of the answer
  that waits for its row (`Unrecorded`); a session that breaks between the two stays
  one charge ahead (`ChargeIsLost`) and is never committed. `WritesInv`: as long as the
  session can be used, a write has its row or belongs to the answer that waits, and
  a call that still runs has written nothing. `WindowTheorem`: the limiter drops
  stamps as it goes, so the invariant relates the stamps it kept to all it ever
  admitted (`Since`): those it dropped are older than every window still to come.
- **DocumentsProofs**. `DocInv` says that whoever changes a row holds its lock, and
  whoever deletes it those of its chunks, at each point of an operation (`LocksInv`);
  that the id of an uncommitted row is known to nobody else (`IdsInv`); and that a
  row has no chunks while it is pending (`RowsInv`). `IndexedTheorem` follows
  for any sessions, files, crashes and rollbacks; its hypothesis, that a text cut into
  chunks is held by them, is about `Chunking` alone and is what `ChunkTextIsSound` checks.
  `PendingTheorem` holds for both orders of commit and background task, with crashes
  and failing statements: a pending row has a task that waits, an indexer at work or
  an entry in `lost` (`PendingStep`), and only a fault or a commit after the task
  makes such an entry (`LossStep`, `LostToFaults`).
- **RankingProofs**. `RankInv` follows each figure of a row to the computation it
  comes from: some settings of some goal whose weights have the row's version, and
  some moment (`Computed`), also for columns that two sessions wrote.
  `UncontestedTheorem`: what `score` returns is recomputed from its dimensions and one
  and the same weights, those of the row's version (`ScoreIsExplained`), and an UPDATE over a row the session selected unchanged leaves
  that result (`OverwriteOfSelected`). `DefaultWeightsTheorem`: the default vectors lose
  nothing to rounding (`DefaultsAreExact`), a posting determines fit, value and time at
  most (`OnlyThreeAreDerived`), and these are too small a share of any profile for
  the confidence to reach its floor (`TooLittleIsKnown`). `RankingTyping`: weights that
  `Build` accepts are never negative and share out exactly `WeightScale`, although the
  heaviest absorbs what rounding left over (`BuildIsGood`); so an overall score stays
  within 0 and 100 and a confidence within 0 and 1 for any override a user can send,
  and freshness within 0 and 1 for any dates. `KeysetTheorem`: `MomentInv` bounds the
  moments at which rows were computed, so that the latest row of an opportunity exists
  and every opportunity has a place in the list (`LatestIsARow`, `SortValueIsInt`).
  Places are strictly ordered, ids breaking ties, whatever the sort (`PlacesAreOrdered`);
  so a row's rank grows along the list (`RanksGrow`), a page ends at the last of its
  rows, and every matching row is either on it or after its cursor (`PageAndRest`).
  A row that keeps its place keeps its side of the cursor, whatever happens to others.

Model-checked only:

- the liveness properties (`ClosedStreamEnds`, `CurrentStreamEnds`,
  `EarlyCancelTakesEffect`, `SettlesOrIsLost`, `ReportsOrRaises`, `CompletionsEnd`),
  which are outside the prover's reach;
- the pure functions of `Chunking` and `Retrieval`, which are recursive and checked
  by evaluation over all inputs of a bounded size (the `ASSUME`s of `MCDocuments`).

## 6. Where code and documents disagree

Four statements have a run that TLC refutes; `PROJECT.json` quotes the lines.

| Run | Statement | What the code does |
|---|---|---|
| `run_silent_death` | a run never dies silently | if a statement of the session failed, the handler fails as well and the row stays RUNNING |
| `graph_audit` | every investigation produces a complete trace, which the audit after the graph is to check | the worker's session had loaded the run's tasks before the graph ran and audits that copy: a run with a complete trace is logged as incomplete. Besides, a run without candidates goes straight to the report and has no task of the stages between |
| `ingest_recrawl` | a known fingerprint is short-circuited | the probes by URL and by hash skip a row that is flagged as a duplicate, the unique index does not: its re-crawl is matched by title to the original, which is there and active, once more, and the insert of the known hash raises, each time the posting is crawled |
| `completion_poisoned` | a malformed answer is repaired or reported, and the next attempt is a new one | the gateway keeps the answer before it is validated; while the entry lives, the same prompt gets the malformed answer without a provider being asked |

The modules state nine more claims. No run has them, so that a property of a run
is either one that holds or one of the four above; put in the place of the
properties of the run of their module, TLC refutes each:

| Definition | Statement | What the code does |
|---|---|---|
| `InvestigationRun!StreamsHearTheEnd` | a Celery worker's events reach the UI over redis (`ARCHITECTURE.md:160`) | each process has a store in memory, and nothing publishes: the stream hears nothing and never ends |
| `InvestigationRun!CrashedRunResumes` | a crashed run resumes at the last node (`ARCHITECTURE.md:166`) | the checkpointer is in memory and nothing resumes |
| `InvestigationGraph!LowConfidenceIsCapped` | confidence below the floor is capped (`AGENT_DESIGN.md:244`) | the floor is applied before the confidence is lowered |
| `InvestigationGraph!UnmetIsIneligible` | one unmet hard requirement forces INELIGIBLE (`AGENT_DESIGN.md:201`) | only the overall verdict is read |
| `InvestigationGraph!ContestedIsCapped` | contested evidence caps at CONSIDER (`ARCHITECTURE.md:277`) | decisions never read the verifications |
| `OpportunityStatus!ArchivedIsTerminal`, of `OpportunityLifecycle` | nothing comes back out of ARCHIVED (`services/lifecycle.py:4`) | the move is validated against a stale copy |
| `Ranking!RowsAreExplained` | a stored recommendation can be recomputed from its row | two requests that score the same key side by side leave columns of both |
| `Tools!EveryCallIsTraced` | a run's tool calls are all in its trace (`models/agent_run.py:134`) | a call that breaks the session (a wait cut off in the driver, a failed flush) has no row |
| `Documents!RowsHaveTheirBytes` | the bytes of a row live in object storage (`models/document.py`) | a deletion removes the bytes before it commits, and a failed commit keeps the row |

Further disagreements and design facts met on the way, in the models as the code has them:

- A cancel request that arrives once the graph runs is answered as cancelled and
  overwritten by the worker's last commit (`Commit` writes `mem` over `row`;
  `RunLifecycle!Finish` has that step).
- A loop that ends for lack of budget leaves `degraded` as it was, where the
  design document sets it (`RouteAfterVerify`).
- Two sessions that probe before either commits store the same role twice, where
  `dedup.py` says that detection runs before insert: `DistinctUnlessBlind` says
  exactly when.
- Background tasks run before the request's session commits or after it, depending
  on the release of FastAPI: 0.118 changed it, `pyproject.toml` asks for 0.115 or
  any later one, and nothing pins it. `commitFirst` is either in the run. Where the
  task is first it finds no row and ends without an error, and every fresh upload
  stays PENDING until the same file is uploaded again. The test of the route
  (`tests/test_document_routes.py:43`) calls the task itself once the response is
  there, so it passes with either order.
- Chunking drops a word that is longer than a chunk, and with an overlap as large as
  the chunk it raises for every text (`chunking.py:38-39`), so that indexing always
  fails; the settings exclude neither.
- A failing read of the answer cache ends the completion, a failing write is
  charged to the provider that had answered. The client of the cache in Redis has no
  timeout for its reads and writes (`semantic_cache.py:53, 89`), so a completion may
  wait for it for ever.
- Revalidation takes the rows that were verified longest ago, and refreshing a
  row does not count as verifying it: the same rows are taken each time.
- A ranking that lists a passage twice, as one over a profile's entries may, adds
  to its share both times, and fusion may then put it above a passage that every
  ranking prefers; with duplicates excluded, `FusionIsFair` holds.

## 7. What is not modelled

Left out everywhere: text, dates and numbers that no property tells apart (titles
are model values with a similarity relation, a fingerprint is the text itself);
prompts and what models write; spans, costs and logs; list endpoints that are one
query. PostgreSQL is modelled by what the code relies on under READ COMMITTED:
uncommitted rows are invisible, an UPDATE waits for a row lock, a conflicting
insert waits for the other transaction. Two runs do not share state in the event
store, so one run stands for all.

Left out of modelled components:

- Ingestion: normalised fields and dates, what extraction finds in a posting, and
  the embedding probe, which is unreachable (no caller passes an embedding). The
  unique pair (source, external id) is not in the model.
- Scoring service: the row locks of status changes within a scoring request,
  creating and deleting goals, saving and dismissing. Refreshing a row is one step.
  Effective weights and contributions are rounded as the code rounds them, but the
  run counts both in coarser units (`ShareScale`).
- Tools: what research and search tools answer; only what a tool reads, writes,
  costs and how it ends.
- Agents and retrieval: prompts, embeddings as vectors (similarity is given), the
  parsing of file formats.
- The link between the status a finished graph leaves and the run around it:
  `InvestigationRun` lets the graph succeed or raise, `InvestigationGraph` says
  when it does which; they share no state but the events.

Components without a module: memory beyond the episode of a report, which is the
graph's `episode` (recalling only reads, an outcome is one request's row, and nothing
writes a semantic fact);
normalisation (string and date parsing, no state); registration, login and tokens
(single-row transactions around a cryptographic library); the request window of
the middleware (the same arithmetic as the tools' window); extraction, feedback,
outcomes, profile search (a request writes and reads a row); digest, MCP
transport and text filters; the evaluation harness and its gates, fine-tuning and
benchmarks (offline arithmetic on reports); observability; configuration (its
values are constants here); the frontend. They have no interleaving, failure or
order that a model would find something in, or are pure text.

## 8. The plan

1. Done: event store, run, graph with its trace, lifecycle, ingestion; tools;
   scoring, freshness, ranking and revalidation; completion, gateway and cache;
   documents, chunking, retrieval. The proofs of section 5.
2. Open: the composition of `InvestigationRun` with `InvestigationGraph` (it would
   replace one step, the awaited graph, by the graph's own, and adds no
   interleaving that either lacks); proofs about the functions of `Chunking` and
   `Retrieval`, among them the hypothesis of `IndexedTheorem`.
