# Formal models of ScholarTrace

TLA+ modules, TLC model checking and TLAPS proofs for ScholarTrace: the delivery
core that takes a research task from a request to its terminal reports, the
research run inside it from the search to the verified report, and the paid
offline studies, under concurrency, cancellation, lost processes and a budget.
Every definition is translated from the source; `PROJECT.json` maps each one to
the lines it stands for. Paths below are relative to `src/scholartrace/` unless
they start with `frontend/`, `scripts/` or `docs/`.

## 1. The system

| Component | State | Operations | Hard because |
|---|---|---|---|
| Bounded executor (`delivery/queue.py`) | queue, unfinished counter, handle table, active set, worker threads, accepting flag | submit, cancel, worker loop, shutdown, snapshot | threads, two locks (its own and the queue's), a deadline, callbacks that raise |
| Task service (`delivery/service.py`) | task rows, plans, reservations, events, authorizations, in-memory planning table | create, generate plan, approve / modify / reject, cancel, resume, execute, write exports, retry exports, close, start-up | three databases without a common transaction, a state lock some handlers do not take, restarts |
| Terminal exports (`_write_exports`, `delivery/reporting.py`, `delivery/store.py`) | task row, artifacts, events | render and store four formats, announce, downgrade | writers at the same time, failures half-way, retries that render something else |
| Runtime ledger and event stream (`workflow/storage.py`, `api/events.py`, `frontend/src/hooks/useTaskEvents.ts`) | events with sequence numbers, usage | append under a stable key, replay, follow, reconnect | cuts at any moment, replay, a client that has to know when to stop |
| Budget reservations (`delivery/budget.py`) | one row per task | reserve, bind, settle, mark unconfirmed, check, reconcile orphans | figures in three databases, start-up after a loss, retries of terminal paths |
| Effect journal (`delivery/effects.py`, `authorization.py`, `stages.py`, `metering.py`) | effects, their contexts and measurements, task and phase grants | admit, dispatch, confirm, doubt, project, revoke, reconcile for resume | calls in flight, lost answers, concurrent admission against one envelope, crash between intent and result |
| Plans and gates (`delivery/plans.py`, `live_planning.py`, `authorization.py`) | plan versions, planning phases and their generations, decisions | authorize, plan, publish, modify, decide | the planner runs with the lock released, Gate A commits in two databases |
| Research pipeline (`delivery/research.py`, `stages.py`, `criteria.py`) | the journaled values of its stages, artifacts, events | the stages of a run, resume | a resumed run derives everything again, deadlines span sessions |
| Workflow graph (`workflow/`) | checkpoints, artifacts, charges, events | plan, approve, search rounds, analyse, finalise | a node is repeated after a loss, four stores |
| Search (`search/`) | response cache, request budgets, limiter; clusters of candidates | get with retries, cache, parse, filter, merge | shared budgets, backoff, order of merging, imprecise dates |
| Citations (`citations/`) | lifecycle of each candidate | gates from discovery to analysis, expansion | order of the gates, bounds |
| Evidence (`evidence/`) | PDFs, documents and indices in DocuMind, bindings | acquire, ingest, bind, retrieve, analyse, clean up | several collections share files and documents |
| Verification (`verification/`) | saved verdicts | validate, verify, gate, follow up | restarts with verdicts of an earlier run |
| Model providers (`model_provider/`) | call counters | prompts, parsing, repair | bounded attempts |
| ScholarGraph studies (`scholargraph/`, `scripts/run_m6_b3_b4_full.py`) | two append-only ledgers, progress files, review packet | capture, review, freeze, reveal, decide; run, resume, review, import | separate processes, blindness, resumption of paid work, edited files |
| Verification ablation (`verification_ablation/`, `scripts/run_sa05_formal.py`, `run_sp04_comparison.py`) | attempts, rows, checkpoints | run, resume, compare schemes | paid calls of unknown outcome, one cap for several schemes |
| Backup and restore (`operations/`, `restore_fence.py`) | archives, data directories, fence file | back up, restore, serve | copies of live databases, calls made after the copy |
| HTTP API, contracts, web client, other scripts | - | - | no state beyond the above |

How they interact. A request handler of the service holds a re-entrant state
lock. Approving a task writes `tasks.sqlite` in a transaction, inside which the
executor accepts a callback that waits on a gate; after the commit the handler
writes audit events to the runtime ledger and activates a phase in the effect
journal, and opens the gate. The worker thread then runs `_execute_queued`: it
checks the reservation, runs the demo phases or a research runner, and ends the
task under the lock or, when the run failed, in an `except` clause without it.
A research runner makes its calls through the effect journal, which projects
confirmed measurements to the ledger. Every terminal path settles or marks the
reservation, stores four reports and appends the event that closes the client's
stream. A start-up turns abandoned work into `interrupted` tasks and reconciles
what is still reserved.

Inside a real task the runner (`ResearchRun`) walks a fixed program of stages.
Each stage is journaled, and so is each request it sends. The search asks its
sources through `search/http.py`, merges what they return, expands citations,
acquires the full text of the selected papers into DocuMind and retrieves
evidence from it, has claims verified, and writes the report. The older
workflow graph does the same work round by round over a checkpointer. The
studies reuse verifier and report generator outside the service, each with files
of its own.

## 2. Modules

| Module | Models | Correspondence |
|---|---|---|
| `QueueContract` | what the executor promises | abstract: a bounded FIFO, slots, settled submissions |
| `TaskQueue` | `BoundedTaskExecutor` | one action per block under the executor's lock or per operation of `queue.Queue`: `Submit`, `Cancel`, `Get`, `IdleExit`, `Begin`, `CallbackReturns/Raises`, `Cleanup`, `TaskDone`, `ShutdownBegin/Drained/Deadline/Return` |
| `TaskLifecycle` | `M6TaskService` | `status`, `plan`, `reservation`, `result`, `events`, `resumes`, `grant` are the durable rows; `queue`, `job`, `cancelSet` the executor as `QueueContract` describes it; `pc` the place of a worker in `_execute_queued`; `request` the handler inside the lock; `setting` is what the process was composed with and never changes: which tasks are real, and whether there is a runner or a live planner |
| `TerminalExports` | `_write_exports` | each read, each stored format and each event is a step; a report is what it was rendered from; `result` says, once and for all, whether the task has a stored result |
| `EventStream` | ledger, `follow_sse`, `useTaskEvents` | an event is its sequence number; `stream`, `cursor`, `pending` are the generator, `timeline`, `last`, `terminal`, `attempt` the hook |
| `BudgetReservations` | reservations against usage | amounts are units of CNY; `unprojected` is usage only the journal knows |
| `EffectJournal` | one task's effects | a stage is an effect whose operation makes the calls; `sent` counts dispatches |
| `LivePlanning` | Gate A, the planner and the decisions of a real task | `grant`, `phase`, `call` are the effect journal, `reserved`, `recorded`, `version`, `approved`, `binding` the task database; `handler` is the request inside the state lock, split at its commits, `planner` the thread outside it |
| `RestoreFence` | `operations/backup.py`, `restore_fence.py` and the journal's use of the fence | a directory is its journal rows, its results and its fence; backup copies one database at a step, restore stages and renames |
| `SourceRecords` | the four record parsers and `candidate_within_dates` | one record of one work, with what its source tells of it |
| `SearchIdentity` | `normalize_candidates` | three passes over pairs; a pair looked at is a step |
| `SearchHttp` | `AcademicHttpClient`, its budget, limiter and cache, `SearchPipeline`, the requests of the citation provider | one action per await of `get`; the clock is an integer |
| `EvidenceAcquisition` | `evidence/`: acquisition, ingestion, bindings, retrieval, analysis, artifacts, clean-up | two collections (the smoke script and `prepare_m6_b3_b4_evidence.py`), one action per request or file operation; arXiv and DocuMind are external |
| `WorkflowGraph` | `workflow/graph.py`, `workers.py`, `search_agent.py` | one action per commit of a node; `Crash` returns to the checkpoint |
| `Verification` | `verification/` | `Validate`, one action per claim of the verifier, `Conclude` for gate, follow-up and outcome |
| `ResearchRun` | `delivery/research.py` over `stages.py` and the journal, the citation lifecycle gate | `todo` is the rest of the program; a stage is `Replay` or `BeginStage`, then its request, then `CompleteStage`, `StageFails` or `NotDispatched`; `timeline` is the task's event history, the events of the service among those of the run; `Publish` and `CloseTask` are what the service does with the result |
| `AblationRunner` | the runner of the study, its attempt ledger, checkpoints and budget check | `attempts` and `rows` are the checkpoint; one action per record written and per answer |
| `SchemeComparison` | `run_sp04_comparison.py` | baseline, its copies and the two studies, a condition at a time |
| `ProspectiveGate` | `M9P2Store` | check and insert are two steps of a process |
| `ObservationLedger` | `M9P0Store` | the two reads of a capture and its insert are three steps, check and insert of a review two, for several processes at once |
| `PairedExperiment` | `run_m6_b3_b4_full.py` over `scholargraph/experiment.py` and `routing.py` | the two progress files are the state; `asked`, `callsSent`, `pairSpent` are history |
| `BlindReview` | `blind_review.py`, the decision of `evaluation.py` | a packet is a sequence of rows, a digest is what it is a digest of |

Eight modules hold the theorems (section 6). `TaskQueueProofs`,
`TaskLifecycleProofs`, `TerminalExportsProofs` and `EventStreamProofs` are about
the module they are named for. `EffectsProofs` is about what goes out and what it
costs (`EffectJournal`, `BudgetReservations`, `LivePlanning`, `RestoreFence`),
`ResearchProofs` about the parts of a research run (`SourceRecords`,
`Verification`, `EvidenceAcquisition`, `ResearchRun`, `WorkflowGraph`),
`StudiesProofs` about the studies (`SchemeComparison`, `ObservationLedger`,
`PairedExperiment`, `BlindReview`, `AblationRunner`, `ProspectiveGate`).
`SumTheorems` has what they need of sums over finite sets and of the least and
greatest of some numbers.

`MCTaskLifecycle` gives the constants of one module small values. `MCDelivery`,
`MCEffects`, `MCResearch` and `MCStudies` do so for several modules at once: the variable `part` says which of
them a behaviour is about and the constant `Parts` which are explored; the
others stay in an initial state. The modules share no variable, so what such a
run shows of a part is what a run of its own would. They are joined because each is
small and they answer one question together: whether accepted work is served and
reported to the browser; what goes out and what it costs;
whether a result is earned; whether a study's figures are its own.

In the modules a definition may be preceded by a wrong form of it, named for its
mistake and used by nothing: `PROJECT.json` lists under "mutants" which property
refuses it. A property whose name is a conjunction of named parts
(`DecisionsHold == OnlyApprovedPlansRun /\ ...`) keeps the parts as definitions,
each with its own statement.

Where a handler is one step. What the state lock protects is one step unless a
worker that does not take the lock, or a loss of the process, can come between
two of its writes. `approve_task`, `cancel_task` and `resume_task` are split at
their commits for that reason; `create_task`, `modify` and `reject` are not.
In `TaskLifecycle` `generate_plan` is one step; `LivePlanning` has the live call,
which runs with the lock released, and Gate A in its separate commits.

## 3. What the runs check

| Run | Instance | Shows |
|---|---|---|
| `Delivery` | executor: 2 tasks, 2 workers, 1 place, 2 submissions each, callbacks that may raise, a shutdown at any moment; exports: the ending worker and a retry, 1 fault, 1 restart, with and without a stored result; stream: 3 events, 3 cuts against 2 attempts, 1 manual retry, a kind the hook does not know; fairness | `SubmissionsAreTracked`, `AcceptedWorkFinishes`, and that the executor implements `QueueContract` (`ImplementsContract`); `ReadyMeansStored`, `ReportsAgree`, `StreamIsClosed`; `TimelineIsWhole`, `EndIsLearned` |
| `LifecycleShared` | 2 demo tasks, 1 worker, 1 place, approvals whose audit writes fail, export retries, no restart, fairness | `QueuedIsServed`, `TerminalIsAnnounced`, `CancellingEnds` |
| `LifecycleRecovery` | 1 task, a real one with live planning or an offline-research one, 2 plan versions, 2 restarts, audit writes that fail at any commit | `AdmittedWorkIsFunded`, `DecisionsHold`, `RecoveryIsBounded`, `CancelledRealNeverPublishes`, `NothingIsTakenBack` |
| `Effects` (1.7 million states) | journal: 2 stages, 3 calls (2 concurrent, ceilings 3 and 2), envelope 4, 2 restarts, 2 resumes; reservations: a demo and a real task, capacity 3; planning: 2 generations, 2 versions, 2 crashes; fence: 2 operations, 3 directories, 2 archives | `NothingIsReissued`, `SpendIsMeasured`, `RunsKnowTheirPast`; `ReservationsHold`, `RealExposureIsHeld`; `PlanningCallsAreAuthorized`, `ApprovedPlanStands`; `NothingIsRepeated` |
| `Research` (1.8 million states) | records: 4 days, 2 to a year, 4 cutoffs; identity: up to 4 of 6 candidates that share and contradict identifiers; http: 2 sources, 2 attempts, 3 requests, delays 0 and 2, 2 expansions of the same seeds, caches that are new or hold an answer that does not parse; evidence: 2 collections, one of which hands over no hash, 1 paper of 2 revisions; workflow: 2 rounds, 3 papers, 2 workers, 2 crashes; verification: 2 claims of 4 kinds, evidence of 4 kinds, 3 runs; run: 2 papers, 2 sessions, a deadline | `KeptIsProvable`; `PapersAreTheirIdentities`; `SourcesAreSpared`; `EvidenceIsOfItsSource`; `WorkflowIsAccounted`; `VerdictsAreSound`; `ResumeReproduces`, `ResultIsEarned`, `DispatchIsInTime` |
| `Studies` (1.9 million states) | ablation: 1 question, 2 variants, 2 claims, 3 starts, budget 7, a check of 2 against a charge of 4 for a lost answer; comparison: 2 questions, 3 starts; gate: 1 process, target 1 to 3; observations: 2 processes, window 1, 3 questions; paired: 2 pairs, 2 claims, 3 starts; review: 1 question, 2 packets, 1 edit | `StudyIsAccounted`, `NothingIsResent`; `HardCapHolds`; `GateIsFair`; `LedgerStaysValid`; `RunIsAccounted`; `ScoresReachTheirVariant` |

`AdmittedWorkIsFunded` excepts a resume after a restart, and one after an approval
whose audit write failed: both left the reservation to reconciliation, see below.
The liveness properties of the lifecycle are checked without restarts: a process
lost at the wrong moment breaks them by design of the store. `FailingAudits` says
which of the audit writes that follow a commit may fail, those of a decision or those
of an outcome; `TerminalIsAnnounced` holds without the latter only, and `GateIsFair`
is checked for one process at a time, see "Observed while modelling".

What the source says of itself and the code does not do, each found as a
counterexample and listed under "findings" with the quoted line:

| Run | The code |
|---|---|
| `CancelLost` | `cancel_task` can overwrite a status the worker wrote without the lock; the task stays `cancelling` (`CancellingEnds`, on a research task) |
| `BudgetStartup` | a second start-up can raise on the audit event of the same reservation (`StartupNeverFails`) |
| `ExportsRetryRace` | a retry beside the ending worker downgrades a task whose reports all exist (`NoteIsTruthful`) |
| `CleanupIsOwn` | of two collections of a paper that list the documents before either uploads, one deletes the document of the other |
| `TitleMerge` | the title pass compares clusters as they were before it, so a record without a DOI joins two with different ones (`DoisStayApart`, against docs/DATA.md:129) |
| `ResumeRefused` | a result saved and not yet published is derived again with the interruption in its timeline, and refused (`SavedResearchResumes`) |

### Observed while modelling

Visible in the models, and without a run of their own.

Executor and service. A callback that raises ends its thread, and `shutdown()`
then returns True with work still queued, though its docstring says it waits for
accepted work to drain (`queue.py:94, 114, 145`). A cancelled real run can end
`interrupted`, because its authorizations are revoked before its cancel event is
set (`service.py:578-582`). A process lost between the terminal status and its
exports leaves no terminal event, and start-up does not look at terminal tasks
(`service.py:264-287`). An error after the commit of an outcome, in its audit
event or in `_write_exports`, reaches the `except` of `_execute_queued`, which
overwrites a completed or degraded task with failed (`service.py:743-749, 1254-1259,
1338-1350, 1702`); `DecidedStatusIsFinal` says when an outcome stands. A terminal status is committed
before its audit event, and `_write_exports` is called after both: when the append
raises in a rejection (`service.py:487-561`) or inside the worker's failure handlers
(`1324-1337`, `1350-1363`, `1469-1489`), no export and no terminal event follows, though
the docstring says every terminal path funnels through there (`1678-1681`); TLC finds it
with `FailingAudits = {"outcome"}` in `LifecycleShared.cfg`. Start-up settles the reservation of an interrupted
offline task, so its granted resume fails in `check_usage`
(`service.py:289-321`, `budget.py:408-417`). After a fault between two formats
the row and the events have changed, so a retry renders reports that conflict
with the stored ones (`store.py:216-221`). `exports_ready` may follow
`task_terminal_no_exports`, on which the hook has closed
(`useTaskEvents.ts:26`). `planning_authorized` is not among the kinds the hook
listens to (`useTaskEvents.ts:39`, `service.py:1026`). A manually entered plan of
an offline research task can be approved and queued and always fails, because its
origin is not the fixture planner (`service.py:687`).

Journal and planning. A journal error while projecting makes a confirmed effect
`unknown` (`effects.py:498-537`), though the comment there says the result stays
recoverable. The planner reads the phase it dispatches under outside the lock, so
it may be a later one than it registered with (`live_planning.py:57-61`). A
pending and an unknown call count differently (`authorization.py:283-287`). A
planning answer that completed but cannot be read is replayed for ever. Rejection
and cancellation revoke in the journal before the task database commits, so a
loss in between leaves a waiting task nobody can plan for.

Workflow and search. A loss between storing the draft plan and its charge leaves
a plan whose model call is never charged: the repeated node finds the plan and
returns (`workflow/graph.py:86-107`). Replays are deduplicated by unique effect
keys (docs/M3_WORKFLOW_BASELINE.md:37), but a round that charged its results and
died before it stored them is repeated against a ledger that already counts them.
It may keep fewer papers and charge the same key with another amount, which
`charge` refuses (`graph.py:248-271`, `storage.py:176-187`; `conflict` in the
model). The version check looks at the records of arXiv itself
(`providers.py:91`); a record of the same preprint from another source passes on
its publication date, compare docs/production-configuration.md:73. A 2xx body
that does not parse is cached, and audited as one attempt, also when it took more
or came from the cache; so is a question whose request cannot be built
(`providers.py:189-203`, `citations/provider.py:226-240`). The attempts in an audit
are those of the network only where every answer parsed.

Research run. docs/research-runtime.md:44 says that live recovery is disabled, and
line 121 that a resume is for offline tasks only; `resume_task` accepts a real task
where a live runner is composed (`service.py:618-625`), and the model does too.

Evidence and verification. A collection compares the PDF it uploads with the one it
acquired only where its caller hands over the hash: `delivery/research.py:307` and
`run_m2_live_smoke.py:115` do, `prepare_m6_b3_b4_evidence.py:416-424` does not
(`HashChecked`). A file replaced in between is then what its evidence is about, of the
hash it was uploaded with. An upload whose hash check fails afterwards is never
counted as created, nor is one whose process dies (`evidence/live.py:355-373`),
so it is not cleaned up. Clean-up that fails hides the results of the collection
in `prepare_m6_b3_b4_evidence.py`. A second run into the same output directory
leaves artifacts of two runs until it has written its manifest
(`artifacts.py:42-110`). `version_target_missing` concerns the set of papers and
not the evidence of the claim it is raised for (`validator.py:228`).
`report_safe` cannot be false: the gate excludes unsupported claims and marks the
other weak ones (`gate.py:47-56`).

Studies. The import of a review digests the question files as they are
(`import_m6_b3_b4_review.py:44-45`), the run that made the packet with CRLF line
ends (`run_m6_b3_b4_full.py:648-649`, `evaluation.py:167`), so on a checkout with
LF the import is refused. Once `private_run.json` exists every later start
refuses (`run_m6_b3_b4_full.py:680-681`), also after a loss before the packet or
the summary was written. `active_claim_id` is never read on resume, and the
ScholarGraph calls of a killed run for an unfinished report are in no file,
although docs/M6_B3_B4_PROTOCOL.md section 2 bounds them. The comment at
`run_sp04_comparison.py:284-285` names F + S - B as an upper bound of what is
paid, but a row of the baseline that failed is served again by each study, so
what is paid is bounded only by B + F + S; `HardCapHolds` is about the sum of the
shares. The ablation checks a request with the candidate's own estimate and
charges a lost answer with the greater of that and the frozen reserve
(`ledger.py:57-61, 130-136`; 0.063 or 0.081 against 0.375 CNY,
`run_sp04_comparison.py:71-73, 197`): the ledger can say that more than the budget is
exposed, though the provider cannot have asked for it; the reserve is an assumption and
not a bill (docs/VERIFICATION_ABLATION_RUNBOOK.md:37). Two processes
of `manage_m9_p2.py` can both pass their checks before either inserts, so a chain can
be forked, and a Gold revision checked before another process reveals is inserted after
it (`prospective_gate.py:670-720`), though docs/M9_P2_INFRASTRUCTURE_REVIEW.md:20 forbids
to revise the Gold of a batch once a condition is revealed: with two operators and
`Parts = {"gate"}` TLC finds `ScoredGoldIsBound` violated. A capture counts the eligible
questions and reads the last row in two statements without a transaction
(`real_miss.py:506-517`), so captures by several processes can register more than the 50
of docs/M9_REAL_MISS_PROTOCOL.md:88 and docs/M9_P0_RUNBOOK.md:119, with a valid chain:
`LedgerStaysValid` allows one more for each process beyond the first, and the run, with a
window of one and two processes, reaches that bound. Even with one, `attach_condition` compares counts, Gold of records of any origin against eligible
records of real origin (`prospective_gate.py:556, 757, 819`), so a condition can be
revealed while a real question has no Gold, if a record of another origin has one.

### Bounds

They are named in the CONSTANTS of each module (`MaxSubmissions`, `MaxRestarts`,
`MaxPlanVersions`, `MaxFaults`, `MaxCuts`, `MaxPlanCrashes`, `MaxTrees`,
`MaxVerifyRuns`, `MaxSessions`, `MaxStarts`, `MaxRuns`, ...). Two tasks compete
for one place and one worker, so a full queue, a refused approval and a waiting
task all happen; two submissions of a task are what a handle can be confused
with; two restarts are a restart of what a restart left; two concurrent calls
and one later are enough for an envelope to be overrun by either. The service
composes one worker by default, so a second worker is only used in `TaskQueue`.
Two generations are one that supersedes another; three directories are a restore
of a backup of a restored one. Four candidates are a chain (its ends
only linked through what is between) with a conflict inside it, and one more paper
or two chains that a union has to move as a whole. Two collections
are enough for every race over a shared document, each being one process; the
six kinds of candidates, the four of evidence and the answers of the search are
chosen so that each branch of the code is taken. Three starts of a study are a
resume of what a resume left; budgets are one unit short of what all requests
would cost.
`CHECK_DEADLOCK FALSE` is set where the system stops: a task that cannot be
resumed, a start-up that was refused, a pool that is closed, a run or a study
that has ended.

## 4. Fairness

- `TaskQueue`: weak fairness of each thread's steps. A thread is scheduled, and
  a callback ends, by returning or by raising; `get()` has a time-out, so polling
  never blocks for ever. `AcceptedWorkFinishes` speaks of
  behaviours in which no callback raises (`CallbacksReturn`).
- `TaskLifecycle`: weak fairness of a handler that is inside the lock and of an
  export; strong fairness of each worker, because the lock is free again and
  again: the handlers inside it are short. What clients ask for, restarts,
  `close()` and its deadline are not fair.
- `TerminalExports`: weak fairness of a writer, including its next attempt, for
  `StreamIsClosed`: somebody asks again. Faults are bounded
  and not fair.
- `EventStream`: the server answers and polls, frames arrive, timers fire. Cuts
  and clicks are not fair; `EndIsLearned` excuses a hook that was cut more often
  than it retries.
- The other modules state safety only: `SearchHttp`, `ResearchRun` and the
  studies end by their bounds or by an operator, and the source promises no
  progress beyond the deadlines.

## 5. Abstractions

Time is not modelled, except in `SearchHttp` and `ResearchRun`, where it is a
bounded integer: elsewhere a deadline or a time-out may come at any moment. A plan is
its version, its approval state and whether the fixture planner made it; the
digest a client must quote is the version, and a stale request is refused
without effect. Reports, events and results are what they were made from. The
queue inside `TaskLifecycle` is the one of `QueueContract`, which `TaskQueue` is
shown to implement. In `TaskLifecycle` a task's concurrent exports are one;
`TerminalExports` has them apart. In `BudgetReservations` calls and seconds are
left out, they follow the same code as CNY. `EffectJournal` has one execution
phase of one task; a grant is revoked, never renewed. The interval between the
last check of an authorization and the start of its operation is in the model
(`Verify`, then `Send`), as the source accepts it.

Texts are what tells them apart: a paper is its identifiers or its rank, an
answer is one of a small set, a digest is equal to another exactly when the
contents are. Money and tokens are units. In the studies a lost answer costs its
whole estimate; in the ablation it is charged `LostCharge`, the greater of the estimate
and the frozen reserve, as in the code. What a stage of the research run computes is an
answer chosen when its request is made, and what the run derives from it is
computed in the model. DocuMind, arXiv, the academic sources and the model
providers are external: they answer, fail, or are never heard of again.

## 6. What is proved

TLAPS proves the theorems below for every value of the constants that satisfies
the assumption of the module: any number of tasks, workers, submissions,
settings, stages, calls, writers, faults, events, cuts, planning generations,
backups, resumes and restarts.

| Module | Theorem | Statement |
|---|---|---|
| `TaskQueueProofs` (`QueueAssumption`) | `TypeCorrect` | `QueueSpec => []QueueTypeOK` |
| | `HandlesAreLive` | `QueueSpec => []HandlesMatchLive` |
| | `EachServedOnce` | `QueueSpec => []ServedOnce` |
| | `CountIsExact` | `QueueSpec => []UnfinishedCountsItems` |
| | `LaggardsAreTold` | `QueueSpec => []LaggardsAreCancelled` |
| | `AllIsTracked` | `QueueSpec => []SubmissionsAreTracked`, the conjunction of the four before |
| | `DrainIsTrue` | `QueueSpec => DrainedMeansServed`: in a behaviour without raising callbacks, True from `shutdown()` means everything was served |
| | `Implements` | `QueueSpec => ImplementsContract` |
| `TaskLifecycleProofs` (`LifecycleAssumption`) | `TypeCorrect` | `Spec => []TypeOK` |
| | `PlansAreApproved` | `Spec => []OnlyApprovedPlansRun` |
| | `ApprovalIsOpen` | `Spec => []WaitingTaskIsApprovable` |
| | `RejectionIsInert` | `Spec => []RejectedIsInert` |
| | `DecisionsAreKept` | `Spec => []DecisionsHold`, the conjunction of `OnlyApprovedPlansRun`, `WaitingTaskIsApprovable`, `RejectedIsInert` and `CompletedHasResult` |
| | `ExecutionsAreBounded` | `Spec => []RecoveryIsBounded` |
| | `AdmissionIsFunded` | `Spec => []AdmittedWorkIsFunded` |
| | `OutcomesAreFinal` | `Spec => DecidedStatusIsFinal` |
| | `RealExposureIsKept` | `Spec => ExposureIsKept` |
| | `CompletionHasResult` | `Spec => []CompletedHasResult` |
| | `CancelledStaysUnpublished` | `Spec => CancelledRealNeverPublishes` |
| | `CancellingIsNoSuccess` | `Spec => CancellingNeverCompletes` |
| | `NothingIsUndone` | `Spec => NothingIsTakenBack`, the conjunction of `DecidedStatusIsFinal`, `ExposureIsKept` and `CancellingNeverCompletes` |
| `TerminalExportsProofs` (`ExportAssumption`) | `TypeCorrect` | `ExportSpec => []ExportTypeOK` |
| | `ReadyIsTrue` | `ExportSpec => []ReadyMeansStored` |
| | `ReportsAreOfOneMoment` | `ExportSpec => []ReportsAgree` |
| `EventStreamProofs` (`StreamAssumption`) | `TimelineIsAlwaysWhole` | `StreamSpec => []TimelineIsWhole` |
| `EffectsProofs`: the journal (`JournalAssumption`) | `JournalTypeCorrect` | `Spec => []TypeOK` |
| | `CallsAreSentOnce` | `Spec => []NothingIsReissued` |
| | `NoRunOverDoubt` | `Spec => []RunsKnowTheirPast` |
| | `ChargesAreMeasured` | `Spec => []LedgerIsBacked` |
| | `SpendIsBounded` | `Spec => []SpendIsMeasured` |
| reservations (`BudgetAssumption`) | `BudgetTypeCorrect` | `BudgetSpec => []BudgetTypeOK` |
| | `SettlementsAreFinal` | `BudgetSpec => []SettlementIsFinal` |
| | `ReservationsAreHonoured` | `BudgetSpec => []ReservationsHold` |
| | `ExposureOnlyGrows` | `BudgetSpec => RealExposureIsHeld` |
| planning calls (`PlanningAssumption`) | `CallsAreAuthorized` | `PlanningSpec => []PlanningCallsAreAuthorized` |
| | `ApprovedPlanIsCurrent` | `PlanningSpec => ApprovedPlanStands` |
| the fence (`FenceAssumption`) | `CallsGoOutOnce` | `FenceSpec => []NothingIsRepeated` |
| `ResearchProofs`: records (`RecordsAssumption`) | `KeptRecordsAreProvable` | `RecordsSpec => []KeptIsProvable` |
| verification (`VerificationAssumption`) | `ReportsRestOnEvidence` | `VerificationSpec => []VerdictsAreSound` |
| evidence (`AcquisitionAssumption`) | `EvidenceKeepsItsSource` | `AcquisitionSpec => []EvidenceIsOfItsSource` |
| the run (`ResearchAssumption`) | `ResumedRunsReproduce` | `ResearchSpec => []ResumeReproduces` |
| | `ResultsAreEarned` | `ResearchSpec => []ResultIsEarned` |
| | `DeadlinesOutliveSessions` | `ResearchSpec => DispatchIsInTime` |
| the workflow (`WorkflowAssumption`) | `WorkflowsAreAccounted` | `WorkflowSpec => []WorkflowIsAccounted` |
| identities (`IdentityAssumption`) | `PapersStayTheirIdentities` | `IdentitySpec => []PapersAreTheirIdentities` |
| academic requests (`HttpAssumption`) | `SourcesStaySpared` | `HttpSpec => []SourcesAreSpared` |
| `StudiesProofs`: the comparison (`ComparisonAssumption`) | `CapIsHard` | `ComparisonSpec => []HardCapHolds` |
| observations (`LedgerAssumption`) | `LedgerIsValid` | `LedgerSpec => []LedgerStaysValid` |
| the paired run (`PairedAssumption`) | `PaidRunIsAccounted` | `PairedSpec => []RunIsAccounted` |
| the blind review (`ReviewAssumption`) | `ScoresAreCredited` | `ReviewSpec => []ScoresReachTheirVariant` |
| the ablation (`AblationAssumption`) | `StudyKeepsItsAccount` | `AblationSpec => []StudyIsAccounted` |
| | `NoAnswerIsBoughtTwice` | `AblationSpec => NothingIsResent` |
| the gate (`GateAssumption`) | `RevealsStayOrdered` | `GateSpec => []RevealsAreOrdered`, a part of `GateIsFair`, for any number of processes |

The assumptions say what the constants are: finite sets of tasks, calls, papers
or questions, natural numbers for limits, prices and times, and distinct values
where one stands for "none". A few say something of the code. A call costs no more
than was reserved for it (`PairedAssumption`, `AblationAssumption`): the estimate
prices every character of the request as a token and all output tokens it allows
(`model_provider/verifier.py:120`); a provider that bills more breaks this, which
the counters notice only in the total. Every collection has a binding database of
its own (`RepositoryOf` in `AcquisitionAssumption`): a task's is named for it
(`delivery/production.py:202`), a script creates one in the directory of its run
(`run_m2_live_smoke.py:80`, `prepare_m6_b3_b4_evidence.py:390`). The reviewers
of the observation ledger are a finite number of processes, at least one
(`LedgerAssumption`).

The arguments. Few of these properties are inductive alone; each module that is
proved about has one inductive invariant (`IInv`, `JournalInv`, `BudgetInv`, ...),
confirmed by TLC on the instances above before it was proved, and a lemma for
each action or group of actions that disturbs it.

`TaskQueueProofs`. The handle table is right only if a submission is in one
place, and that only if numbers once issued are not issued again. `IInv` conjoins
`QueueTypeOK` with `Places`: the handle table is the live submissions, each in one
place, every item a worker holds is a real submission, every submission anywhere
has a number already issued, and the counter is the queue's length plus the busy
workers. `LaggardsAreTold` adds that between the deadline and the return of
`shutdown()` the snapshot covers the handles and, past the deadline, is
cancelled; `DrainIsTrue` adds that without exceptions a thread only ends in a
closed, empty pool, so with no live thread nothing is counted and nothing is
live. `Implements` maps a slot to the item of a worker between `get()` and the
locked clean-up; every step is a step of the contract or a stutter.

`TaskLifecycleProofs`. The difficulty is that three parties write a status: a
request inside the lock, the worker outside it, and a start-up. What makes them
compatible is that a task in the executor is in one place (`Assigned`) and that
its place decides its status (`Placed`): behind a closed gate there is exactly
the request that will open it, behind an admitted one the task is queued or
cancelling, a worker past it works on a task that is queued, running or
cancelling, unless it is in an error handler: what that one finds may be an outcome
the worker has committed itself, so only a cancellation is safe from it. `Requested` is what a request under way still knows of its task
after it has committed: an approval finds its task queued and never started, a
cancellation that read a task as active cannot find it completed or cancelled,
because a worker needs the lock to write those. `Stands` is what a step leaves of an
outcome: its cases are the worker that still has the task, a request about it, and
nobody. From this follow the bound on
executions (`Counted`: an admitted task has not used its last approval or resume
yet), that a waiting or rejected task is not in the executor (`LiveStatus`), and
which statuses no write meets (`FinalStep`). `Planned` carries the approval
of the plan along with the submission. The lemmas `WorkerMoves` and
`WorkerWrites` cover the two shapes a step of a worker can have. On top of `IInv`
a second invariant, `CInv`, says what the cancel event of a live submission
knows: a task that is cancelling has it set (`Told`), and a real task whose
cancellation is recorded has its grant revoked, so it can neither be approved nor
resumed, and its live submission, if any, told to stop (`Withdrawn`); what a
worker has published under the lock was not told to stop before (`Concluded`). A
third, `FInv`, follows the reservation: exports give it up, and a task whose exports
are written has no execution ahead or under way (`Unexported`); from the commit of
the approval until then it is open, also where a run was interrupted, as long as no
process and no submission of the task was lost (`FundsHold`).

The effect journal. A dispatch is tied to an admitted attempt: `Counted` bounds
the dispatches of an effect by its attempts, and strictly so between the intent
and the dispatch; `Fresh` says that a call that may be admitted was never sent.
`Attended` ties the coroutine of an effect to a run and to a pending row, which is
what a restart has to break without losing the doubt. What the envelope holds is a
sum over the calls that are out: `SumTheorems` proves, by induction on the set,
how such a sum changes when one summand or one member does. A call is admitted
with its ceiling still free and its measurement is only put in place of the
ceiling when the call is over (`Priced`), so the sum of the ceilings stays inside
the envelope and what was confirmed inside that.

`TerminalExportsProofs`. Formats are stored in one order, so a writer at its
n-th format knows those before it to be stored (`Filled`), and one past the first
format read the moment the stored JSON describes (`Alike`): `put` refuses anything
else.

The restore fence. Only the first directory was not restored, so it alone is
without a fence (`CopiesAreFenced`); a call under way is one of the first
directory, which has a pending row for it (`CallsAreAtHome`), and once a call is
out that directory knows the operation (`SentIsKnown`). A fenced directory
admits no call, and the first one none it knows.

The reservations. A real task is never settled; a demo that runs has an
open reservation, and only a real task has usage the journal still projects. So
what is charged is never charged to a settled row. The lemmas `RowMoves` and
`TaskMoves` name the few things a step may do to one task; `RealExposureIsHeld`
follows from them task by task. Only a reservation opens a row or raises what a row
reserves (`RowsOnlyClose`), and it adds to the sum of the open rows no more than
the capacity has left.

The planning calls. Gate A writes in one order, so by the time it activates a
phase the other two databases have it (`GateAIsOrdered`, `ActiveIsOnRecord`); the
planner's call has a pending row from its intent on and verified an active phase
(`PlannerHasItsCall`), and what went out is among the calls that count against
the allowance (`DispatchIsCounted`). A phase read outside the lock may be another
one than that registered with, so both are in the state.

`EventStreamProofs`. What is on the wire, what the generator has read and has not
yielded, and what is still in the ledger follow on each other, and on what the
hook has heard, without a gap (`NoGapInFlight`). A generator that closes has a
terminal event ahead of what the client reads next (`EndIsAhead`), and the hook
is done when it reads that (`TerminalIsLast`): in this model it never reads a
`stream_end`, and `EndIsSeen` is never true when the endpoint accepts.

Records, verification, evidence. What a candidate says follows from the work it was
read from (`TellsOf`), and a day or a year that is missing is missing in it too, so
the cutoff decides on facts. The verifier settles claims in one order, so a saved
verdict has all earlier ones saved (`VerdictsAreOrdered`), an answer is lost,
under way or saved (`CallsAreOwned`), and a verdict other than unsupported is of a
claim without issues. A collection works paper by paper: `RunHolds` says of each
point of it which papers its bindings agree with the hashes it uploaded, and that
those are the ones it acquired where its caller hands them over; the content of the
shared PDFs and documents may be anything.

The research run. `todo` is what is left of the program and `Place` numbers the
steps in the order of the code. `ProgramHolds` says that a live run is in its
opening, its body or its closing, that what is left lies within the places of that
part, and that whatever the part has to achieve is done or still ahead; a new
session starts over with the whole opening, and the journal answers what was
completed. `AnswersHold` ties a completed stage to the one answer its request was
given; `StartHolds` the deadline to the first start, in whichever session;
`TimelineHolds` says that of the run's own events each comes once and after those
before it in the story, whatever the service tells in between; `SavedHolds` says of
each stored document that it is what the journal yields again, of the result that it
is so but for its timeline, a prefix of the one there is, and of each refused content
that it is a result whose timeline is longer; what is published has a saved result
and no run that could save another.

The workflow. A crash leaves the checkpoint behind the stores. `Agrees` is what a
checkpoint says of them, of the saved one and of the one a node is about to return
alike; `SearchHolds` says that a stored round is at most one ahead and is then
asked for again, so that it is counted once; `BillsHold` and `AnalysesHold` put
each bill before what it pays. `FirstAreFew` (no more than n of a set come before n
others) bounds the papers analysed.

The identities. Of the pairs that were looked at, those that share an identifier
have one root (`SharersMeet`), and what has one root is linked by a chain
(`RootsAreChains`), because a union joins two classes and nothing else
(`UnionJoins`) and links go back and on (`LinksGoBack`, `LinksGoOn`). The exact
clusters stay when the title pass joins them (`ClustersHold`). In the title pass the
pairs of clusters that were looked at and match have one root (`MatchesMeet`), and what
has one root is linked by a chain of exact clusters and of matches (`RootsAreAkin`), as
in the pass before; after it both closures are exact. A paper goes by an
identifier of one of its records (`CanonicalIsAKey`), so two papers with one name
would share it. `IdentityAssumption` has each candidate carry an identifier: every
parser drops an item without that of its source (`providers.py:277, 508, 607`),
OpenAlex names its works `W...`, and `canonical_id` raises on a record without any.

The academic requests. The next slot of a client is an interval past every request
it has sent (`SlotsAreAhead`). A get has tried nothing before it begins and after it
has ended, and then has the only record of its question in its expansion
(`RecordsHold`); searches and expansions exclude each other (`PhasesHold`). So each
unit of the request budget is an attempt of an open get or of one record, except
those of an answer that did not parse.

The studies. Comparison: a share is a bound of its own, so the three together are
within the cap. Observations: what a process has read is next, or its number is
taken by now (`WorkIsCurrent`), and the chain refuses the second. The eligible questions
that are stored and those that are counted and not yet inserted are together no more
than the window and the other processes (`WindowIsBounded`): whoever counts when the
window still has a place adds one of at most as many as there are processes. Paired run: what
is reserved covers the calls that are out too (`AsksCovered`, `ReportsCovered`),
a row is paid for when no report was lost (`RowsArePaid`), and the active report is
the one served or one a crash lost (`ActiveIsServed`). Blind review: labels and
digests come from one seed (`LabelsOf`), so a row whose digest matches shows the
answers where the labels say. Ablation: a record is written before what it
stands for (`CallsAreCounted`, `RecordIsSound`), a call that may go out was sent
less often than starts were told to resend (`ResendIsAllowed`), and an answered
request is final (`ReportsRest`, `RowsRest`). A call is checked with at most what it
can be charged, so the budget holds of what can be asked and the ledger's own figure is
over it by at most the difference (`BudgetsHold`). Gate: captures and Gold only grow, so what lets a condition be
revealed (`MayReveal`) is still true at its insert, whatever other processes did since
(`RevealStays`); only that the record is not revealed yet can be overtaken, and that
the table itself refuses. The rest of `GateIsFair` is not so: it is true of one process.

Only model-checked. Liveness under fairness, like everything that needs ENABLED,
is beyond the prover: `AcceptedWorkFinishes`, `QueuedIsServed`,
`TerminalIsAnnounced`, `CancellingEnds`, `StreamIsClosed`, `EndIsLearned`.
Of the safety invariants and action properties that a passing run checks, all but
`GateIsFair` are theorems; of that `RevealsAreOrdered` is one.

## 7. Not modelled, and the plan

Next: models of the parts listed below that keep state (plan validation, the
schema migrations), and their theorems. What liveness rests on can be proved in
parts, as invariants: that no waiting state is without the step that ends it.

Parts of modelled components that are not modelled:

- the acknowledgement of a plan's cost and the validation of modified plans,
  readiness, idempotent creation of a task, schema migrations;
- `operations/release.py` and `scholargraph/capacity.py`: summaries of files and
  measurements, without a state that outlives them;
- the selection of questions, the review packets and the reports of the ablation,
  and the statistics of every study: functions of finished files;
- the earlier pilots, fixtures and smoke scripts, except the evidence smoke,
  which shares `evidence/` with the collection.

Components that are not modelled: the HTTP API and its request validation, the
contracts, the views of the web client, the rendering of reports, prompts, the
parsing of streamed provider answers, and the remaining command-line scripts.
They transform data and keep no state beyond that of the modules above; tests
reach what can go wrong in them.
