--------------------------- MODULE TaskLifecycle ---------------------------
(***************************************************************************)
(* M6TaskService (delivery/service.py): the life of a research task from   *)
(* creation to its terminal exports.                                       *)
(*                                                                         *)
(* Request handlers and the worker threads share a state lock.  What runs  *)
(* under the lock is one step here, unless a worker that does not take the *)
(* lock, or the loss of the process, can come between two of its writes:   *)
(* approve, cancel and resume are therefore split at the commits of the    *)
(* three databases (tasks, runtime ledger, effect journal).  The handlers  *)
(* of an uncertain, unavailable or failed run do not take the lock.        *)
(*                                                                         *)
(* The queue is the one of QueueContract: TaskQueue shows that             *)
(* BoundedTaskExecutor provides it.  A task has at most one live           *)
(* submission, so a submission is named by its task.                       *)
(***************************************************************************)
EXTENDS Naturals, Sequences

CONSTANTS Tasks,
          Workers,
          Settings,           \* how the service may be composed and used
          MaxQueueSize,
          MaxPlanVersions,    \* bound on plan versions of a task
          MaxRestarts,        \* bound on losses of the process
          FailingAudits,      \* where the audit write after a commit may fail
          NoTask

ASSUME LifecycleAssumption ==
    /\ Settings \subseteq [real : SUBSET Tasks, offline : BOOLEAN, live : BOOLEAN]
    /\ NoTask \notin Tasks
    /\ MaxQueueSize \in Nat \ {0}
    /\ MaxPlanVersions \in Nat
    /\ MaxRestarts \in Nat
    /\ {"free", "request"} \intersect Workers = {}

ASSUME AuditsAssumption == FailingAudits \subseteq {"decision", "outcome"}

VARIABLES
    status,        \* tasks.status; "absent" before creation
    plan,          \* the current plan: version, approval_state, and whether
                   \* its origin is the fixture planner
    reservation,   \* the task's row in budget_reservations
    result,        \* is the research-result artifact stored?
    events,        \* the lifecycle events the ledger holds, by kind
    resumes,       \* number of task_resume_requested events
    grant,         \* authorizations in the effect journal
    queue,         \* executor: tasks waiting
    job,           \* executor: the task each worker holds
    cancelSet,     \* tasks whose live submission has its cancel_event set
    gate,          \* per live submission: closed, admitted or refused
    pc,            \* where each worker is in _execute_queued
    request,       \* the request handler inside the state lock
    exporting,     \* progress of _write_exports, per task
    lock,          \* holder of _state_lock
    started,       \* history: executions that passed the admission gate
    open,          \* executor: are submissions accepted?
    setting,       \* the tasks of execution_mode "real" (the others are demo),
                   \* and which research runners are composed; never changes
    restarts

durable == <<status, plan, reservation, result, events, resumes, grant>>
volatile == <<queue, job, cancelSet, gate, pc, request, exporting, lock>>
process == <<open, restarts, setting>>
vars == <<durable, volatile, started, process>>

Terminal == {"completed", "degraded", "failed", "cancelled", "rejected"}
Interrupted == {"running", "queued", "cancelling"}
Statuses == Terminal \union Interrupted
                \union {"absent", "waiting_approval", "interrupted"}
TerminalEvents == {"exports_ready", "task_terminal_no_exports"}
PlanStates == {"none", "waiting_approval", "approved", "rejected"}
Reservations == {"none", "open", "reconciliation_required", "settled"}

(* none; a planning phase is active; besides it an execution phase is       *)
(* pending; the execution phase is active; everything is revoked.           *)
Grants == {"none", "planning", "prepared", "execution", "revoked"}

Idle == [op |-> "idle", task |-> NoTask]

Waiting == {queue[i] : i \in DOMAIN queue}
Live == Waiting \union ({job[w] : w \in Workers} \ {NoTask})

Real(t) == t \in setting.real
Research(t) == IF Real(t) THEN setting.live ELSE setting.offline

-----------------------------------------------------------------------------
Init ==
    /\ status = [t \in Tasks |-> "absent"]
    /\ plan = [t \in Tasks |-> [version |-> 0, state |-> "none", fixture |-> FALSE]]
    /\ reservation = [t \in Tasks |-> "none"]
    /\ result = [t \in Tasks |-> FALSE]
    /\ events = [t \in Tasks |-> {}]
    /\ resumes = [t \in Tasks |-> 0]
    /\ grant = [t \in Tasks |-> "none"]
    /\ queue = <<>>
    /\ job = [w \in Workers |-> NoTask]
    /\ cancelSet = {}
    /\ gate = [t \in Tasks |-> "closed"]
    /\ pc = [w \in Workers |-> "idle"]
    /\ request = Idle
    /\ exporting = [t \in Tasks |-> "no"]
    /\ lock = "free"
    /\ started = [t \in Tasks |-> 0]
    /\ open = TRUE
    /\ setting \in Settings
    /\ restarts = 0

-----------------------------------------------------------------------------
(* Handlers that are one step: creation and planning.                       *)

CreateTask(t) ==
    /\ status[t] = "absent"
    /\ status' = [status EXCEPT ![t] = "waiting_approval"]
    /\ UNCHANGED <<plan, reservation, result, events, resumes, grant, volatile,
                   started, process>>

(* Gate A of a real task: its whole envelope is reserved, and the journal   *)
(* gets the task grant and an active planning phase.                        *)
AuthorizePlanning(t) ==
    /\ lock = "free"
    /\ Real(t)
    /\ status[t] = "waiting_approval"
    /\ reservation[t] = "none"
    /\ grant[t] = "none"
    /\ reservation' = [reservation EXCEPT ![t] = "open"]
    /\ grant' = [grant EXCEPT ![t] = "planning"]
    /\ UNCHANGED <<status, plan, result, events, resumes, volatile, started,
                   process>>

(* A new plan version supersedes the one awaiting approval.                 *)
NewVersion(t, isFixture) ==
    /\ plan[t].version < MaxPlanVersions
    /\ plan' = [plan EXCEPT ![t] = [version |-> @.version + 1,
                                    state |-> "waiting_approval",
                                    fixture |-> isFixture]]

Plannable(t) ==
    /\ status[t] = "waiting_approval"
    /\ Real(t) => setting.live /\ grant[t] \in {"planning", "prepared"}

GeneratePlan(t) ==
    /\ lock = "free"
    /\ Plannable(t)
    /\ NewVersion(t, ~Real(t))
    /\ UNCHANGED <<status, reservation, result, events, resumes, grant,
                   volatile, started, process>>

-----------------------------------------------------------------------------
(* approve_task.                                                            *)

(* What every decision requires: the caller names the current version, so a *)
(* stale request is refused and only the current one is modelled.           *)
Reviewable(t) ==
    /\ lock = "free"
    /\ status[t] = "waiting_approval"
    /\ plan[t].state \in {"none", "waiting_approval"}

FundableWithoutPlan(t) ==
    IF Real(t) THEN reservation[t] = "open" /\ grant[t] \in {"planning", "prepared"}
    ELSE reservation[t] = "none"

(* A demo task reserves on approval; a real one binds the reservation and   *)
(* prepares an execution phase, which needs its Gate A to be in order.      *)
Fundable(t) ==
    IF Real(t)
    THEN /\ plan[t].state = "waiting_approval"
         /\ reservation[t] = "open"
         /\ grant[t] \in {"planning", "prepared"}
    ELSE reservation[t] = "none"

(* The executor takes the submission of t.                                  *)
Acceptable(t) == open /\ t \notin Live /\ Len(queue) < MaxQueueSize

Prepared(t) == IF Real(t) THEN [grant EXCEPT ![t] = "prepared"] ELSE grant

(* The tasks.sqlite transaction commits and the submission is in the queue, *)
(* its gate still closed.                                                   *)
ApproveCommit(t) ==
    /\ Reviewable(t)
    /\ Fundable(t)
    /\ Acceptable(t)
    /\ reservation' = [reservation EXCEPT ![t] = "open"]
    /\ plan' = IF plan[t].state = "none" THEN plan
               ELSE [plan EXCEPT ![t].state = "approved"]
    /\ status' = [status EXCEPT ![t] = "queued"]
    /\ grant' = Prepared(t)
    /\ queue' = Append(queue, t)
    /\ gate' = [gate EXCEPT ![t] = "closed"]
    /\ request' = [op |-> "approve", task |-> t]
    /\ lock' = "request"
    /\ UNCHANGED <<result, events, resumes, job, cancelSet, pc, exporting,
                   started, process>>

RolledBack(t) == reservation

(* The queue is full or closed: the transaction is rolled back, the phase   *)
(* prepared in the other database stays.                                    *)
ApproveRolledBack(t) ==
    /\ Reviewable(t)
    /\ Fundable(t)
    /\ ~open \/ Len(queue) = MaxQueueSize
    /\ grant' = Prepared(t)
    /\ reservation' = RolledBack(t)
    /\ UNCHANGED <<status, plan, result, events, resumes, volatile, started,
                   process>>

(* Audit events and the activation of the execution phase; the gate opens.  *)
ApproveAdmit ==
    /\ request.op = "approve"
    /\ LET t == request.task
       IN  /\ grant' = IF Real(t) THEN [grant EXCEPT ![t] = "execution"] ELSE grant
           /\ gate' = [gate EXCEPT ![t] = "admitted"]
    /\ request' = Idle
    /\ lock' = "free"
    /\ UNCHANGED <<status, plan, reservation, result, events, resumes, queue,
                   job, cancelSet, pc, exporting, started, process>>

DecisionNotSet(t) == gate
Refused(t) == [gate EXCEPT ![t] = "refused"]

(* One of those writes fails: nothing is dispatched.                        *)
ApproveFails ==
    /\ "decision" \in FailingAudits
    /\ request.op = "approve"
    /\ LET t == request.task
       IN  /\ status' = [status EXCEPT ![t] = "interrupted"]
           /\ reservation' = [reservation EXCEPT ![t] = "reconciliation_required"]
           /\ gate' = Refused(t)
    /\ request' = Idle
    /\ lock' = "free"
    /\ UNCHANGED <<plan, result, events, resumes, grant, queue, job, cancelSet,
                   pc, exporting, started, process>>

ModifyPlan(t) ==
    /\ Reviewable(t)
    /\ plan[t].state = "waiting_approval"
    /\ NewVersion(t, FALSE)
    /\ grant' = IF grant[t] = "prepared" THEN [grant EXCEPT ![t] = "planning"]
                ELSE grant
    /\ UNCHANGED <<status, reservation, result, events, resumes, volatile,
                   started, process>>

NotRevoked(t) == grant
Revoked(t) == IF grant[t] = "none" THEN grant ELSE [grant EXCEPT ![t] = "revoked"]

(* The audit event of an outcome, written after the status, may fail: the   *)
(* statements after it, the exports among them, are then not reached.       *)
ExportsFollow(t) == exporting' = [exporting EXCEPT ![t] = "settle"]
AuditFails == "outcome" \in FailingAudits /\ UNCHANGED exporting

(* The rejection commits; its exports are written after the lock is freed.  *)
RejectPlan(t) ==
    /\ Reviewable(t)
    /\ Real(t) => plan[t].state = "waiting_approval"
    /\ exporting[t] = "no"
    /\ grant' = Revoked(t)
    /\ plan' = IF plan[t].state = "none" THEN plan
               ELSE [plan EXCEPT ![t].state = "rejected"]
    /\ status' = [status EXCEPT ![t] = "rejected"]
    /\ ExportsFollow(t) \/ AuditFails
    /\ UNCHANGED <<reservation, result, events, resumes, queue, job, cancelSet,
                   gate, pc, request, lock, started, process>>

-----------------------------------------------------------------------------
(* cancel_task.                                                             *)

Cancellable(t) == status[t] \notin Terminal \union {"absent"}

(* The status is read and the task's authorizations are revoked, in the     *)
(* effect journal, before anything else is told.                            *)
CancelRevoke(t) ==
    /\ lock = "free"
    /\ Cancellable(t)
    /\ grant' = Revoked(t)
    /\ request' = [op |-> IF status[t] \in {"waiting_approval", "interrupted"}
                          THEN "cancel_direct" ELSE "cancel_signal",
                   task |-> t]
    /\ lock' = "request"
    /\ UNCHANGED <<status, plan, reservation, result, events, resumes, queue,
                   job, cancelSet, gate, pc, exporting, started, process>>

(* Nothing is submitted: _finish_cancelled, its exports under the lock.     *)
CancelDirect ==
    /\ request.op = "cancel_direct"
    /\ exporting[request.task] = "no"
    /\ status' = [status EXCEPT ![request.task] = "cancelled"]
    /\ \/ /\ ExportsFollow(request.task)
          /\ request' = [request EXCEPT !.op = "cancel_export"]
          /\ UNCHANGED lock
       \/ AuditFails /\ request' = Idle /\ lock' = "free"
    /\ UNCHANGED <<plan, reservation, result, events, resumes, grant, queue,
                   job, cancelSet, gate, pc, started, process>>

(* The executor is asked to cancel; without a handle the request fails.     *)
CancelSignal ==
    /\ request.op = "cancel_signal"
    /\ LET found == request.task \in Live
       IN  /\ cancelSet' = IF found THEN cancelSet \union {request.task}
                           ELSE cancelSet
           /\ request' = IF found THEN [request EXCEPT !.op = "cancel_write"]
                         ELSE Idle
           /\ lock' = IF found THEN lock ELSE "free"
    /\ UNCHANGED <<durable, queue, job, gate, pc, exporting, started, process>>

(* The status is overwritten without being read again.                      *)
CancelWrite ==
    /\ request.op = "cancel_write"
    /\ status' = [status EXCEPT ![request.task] = "cancelling"]
    /\ \/ events' = [events EXCEPT ![request.task] = @ \union {"task_cancel_requested"}]
       \/ "outcome" \in FailingAudits /\ UNCHANGED events
    /\ request' = Idle
    /\ lock' = "free"
    /\ UNCHANGED <<plan, reservation, result, resumes, grant, queue, job,
                   cancelSet, gate, pc, exporting, started, process>>

-----------------------------------------------------------------------------
ThreeResumes(t) == resumes[t] <= 2
ResumesLeft(t) == resumes[t] < 2

(* resume_task: the exact plan approved before; at most two requests. A     *)
(* real task also needs its execution phase active, and the journal may     *)
(* refuse: the request is then not made in this model.                      *)
ResumeCommit(t) ==
    /\ lock = "free"
    /\ status[t] = "interrupted"
    /\ plan[t].state = "approved"
    /\ ResumesLeft(t)
    /\ Research(t)
    /\ Real(t) => grant[t] = "execution"
    /\ Acceptable(t)
    /\ status' = [status EXCEPT ![t] = "queued"]
    /\ queue' = Append(queue, t)
    /\ gate' = [gate EXCEPT ![t] = "closed"]
    /\ request' = [op |-> "resume", task |-> t]
    /\ lock' = "request"
    /\ UNCHANGED <<plan, reservation, result, events, resumes, grant, job,
                   cancelSet, pc, exporting, started, process>>

ResumeAdmit ==
    /\ request.op = "resume"
    /\ resumes' = [resumes EXCEPT ![request.task] = @ + 1]
    /\ gate' = [gate EXCEPT ![request.task] = "admitted"]
    /\ request' = Idle
    /\ lock' = "free"
    /\ UNCHANGED <<status, plan, reservation, result, events, grant, queue, job,
                   cancelSet, pc, exporting, started, process>>

ResumeFails ==
    /\ "decision" \in FailingAudits
    /\ request.op = "resume"
    /\ status' = [status EXCEPT ![request.task] = "interrupted"]
    /\ gate' = Refused(request.task)
    /\ request' = Idle
    /\ lock' = "free"
    /\ UNCHANGED <<plan, reservation, result, events, resumes, grant, queue,
                   job, cancelSet, pc, exporting, started, process>>

-----------------------------------------------------------------------------
(* _write_exports. Its writes are idempotent by stable key, so concurrent   *)
(* writers of one task are modelled as one.                                 *)

RetryExports(t) ==
    /\ status[t] \in Terminal
    /\ exporting[t] = "no"
    /\ exporting' = [exporting EXCEPT ![t] = "settle"]
    /\ UNCHANGED <<durable, queue, job, cancelSet, gate, pc, request, lock,
                   started, process>>

SettledAlike(t) ==
    IF reservation[t] \in {"none", "settled"} THEN reservation[t] ELSE "settled"

(* _settle_for_task: a real task keeps its exposure, a demo task settles.   *)
Settled(t) ==
    IF reservation[t] \in {"none", "settled"} THEN reservation[t]
    ELSE IF Real(t) THEN "reconciliation_required" ELSE "settled"

ExportSettle(t) ==
    /\ exporting[t] = "settle"
    /\ reservation' = [reservation EXCEPT ![t] = Settled(t)]
    /\ exporting' = [exporting EXCEPT ![t] = "render"]
    /\ UNCHANGED <<status, plan, result, events, resumes, grant, queue, job,
                   cancelSet, gate, pc, request, lock, started, process>>

(* The end of _write_exports gives the state lock back where it was held. A *)
(* worker that called it while the task ran goes on as "after" says; one    *)
(* that called it from a handler (closing) is done with the task.           *)
ExportEnds(t, after) ==
    LET held == lock = "request" /\ request = [op |-> "cancel_export", task |-> t]
        holders == {w \in Workers : pc[w] \in {"export", "closing"} /\ job[w] = t}
    IN  /\ exporting' = [exporting EXCEPT ![t] = "no"]
        /\ request' = IF held THEN Idle ELSE request
        /\ pc' = [w \in Workers |-> IF w \notin holders THEN pc[w]
                                    ELSE IF pc[w] = "export" THEN after ELSE "leaving"]
        /\ lock' = IF held \/ lock \in holders THEN "free" ELSE lock

AnnouncedIfReady(t, kind) ==
    IF kind = "exports_ready" THEN [events EXCEPT ![t] = @ \union {kind}] ELSE events
Announced(t, kind) == [events EXCEPT ![t] = @ \union {kind}]

ExportReady(t) ==
    /\ exporting[t] = "render"
    /\ events' = Announced(t, "exports_ready")
    /\ ExportEnds(t, "leaving")
    /\ UNCHANGED <<status, plan, reservation, result, resumes, grant, queue,
                   job, cancelSet, gate, started, process>>

Downgraded(t) == IF status[t] = "completed"
                 THEN [status EXCEPT ![t] = "degraded"] ELSE status

(* Rendering fails: a success claim is downgraded.                          *)
ExportFails(t) ==
    /\ exporting[t] = "render"
    /\ events' = Announced(t, "task_terminal_no_exports")
    /\ status' = Downgraded(t)
    /\ ExportEnds(t, "leaving")
    /\ UNCHANGED <<plan, reservation, result, resumes, grant, queue, job,
                   cancelSet, gate, started, process>>

(* Rendering fails and the failure event is refused as well, which leaves   *)
(* _write_exports with that error: the ledger fails, or an overlapping      *)
(* retry of the exports has announced another error under the same key. A   *)
(* task that is running ends in the handler of _execute_queued.             *)
ExportRaises(t) ==
    /\ exporting[t] = "render"
    /\ \/ "outcome" \in FailingAudits /\ UNCHANGED <<events, status>>
       \/ /\ events' = Announced(t, "task_terminal_no_exports")
          /\ status' \in {status, Downgraded(t)}
    /\ ExportEnds(t, "failing")
    /\ UNCHANGED <<plan, reservation, result, resumes, grant, queue, job,
                   cancelSet, gate, started, process>>

-----------------------------------------------------------------------------
(* _execute_queued, in a worker thread.                                     *)

Goto(w, where) == pc' = [pc EXCEPT ![w] = where]

(* A step of w that may only move its program counter.                      *)
Moves(w, where) ==
    /\ Goto(w, where)
    /\ UNCHANGED <<durable, queue, job, cancelSet, gate, request, exporting,
                   lock, started, process>>

(* A step of w that writes the status and moves on.                         *)
Writes(w, s, where) ==
    /\ status' = [status EXCEPT ![job[w]] = s]
    /\ Goto(w, where)
    /\ UNCHANGED <<plan, reservation, result, events, resumes, grant, queue,
                   job, cancelSet, gate, request, started, process>>

(* ... and whose next statement is _write_exports, unless the audit event   *)
(* fails: the error then takes the worker out of its locks to a handler.    *)
WritesAndExports(w, s, where) == Writes(w, s, where) /\ ExportsFollow(job[w])
WritesUnaudited(w, s, where) ==
    /\ Writes(w, s, where)
    /\ AuditFails
    /\ lock' = IF lock = w THEN "free" ELSE lock

(* w can enter a block guarded by the state lock.                           *)
MayEnter(w) == lock \in {"free", w}

Take(w) ==
    /\ pc[w] = "idle"
    /\ queue # <<>>
    /\ job' = [job EXCEPT ![w] = Head(queue)]
    /\ queue' = Tail(queue)
    /\ Goto(w, "gate")
    /\ UNCHANGED <<durable, cancelSet, gate, request, exporting, lock, started,
                   process>>

GateIgnored(t) == TRUE
Admitted(t) == gate[t] = "admitted"

(* gate.wait(): a submission that was not admitted is dropped here.         *)
PassGate(w) ==
    /\ pc[w] = "gate"
    /\ gate[job[w]] # "closed"
    /\ IF Admitted(job[w])
       THEN /\ Goto(w, "start")
            /\ started' = [started EXCEPT ![job[w]] = @ + 1]
       ELSE /\ Goto(w, "leaving")
            /\ UNCHANGED started
    /\ UNCHANGED <<durable, queue, job, cancelSet, gate, request, exporting,
                   lock, process>>

(* A stored offline result needs no budget; anything else must find the     *)
(* reservation open and confirmed, or the run fails with BudgetError.       *)
Funded(t) ==
    \/ ~Real(t) /\ setting.offline /\ result[t]
    \/ reservation[t] = "open"

CheckUsage(w) ==
    /\ pc[w] = "start"
    /\ Moves(w, IF Funded(job[w]) THEN "run" ELSE "failing")

(* RealTaskExecutor.preflight finds a dependency missing.                   *)
PreflightRefuses(w) ==
    /\ pc[w] = "run"
    /\ Real(job[w])
    /\ Moves(w, "unavailable")

CancelIsSet(w) == job[w] \in cancelSet

(* The deterministic demo: the phases, each under the lock; the demo mode   *)
(* "production_unavailable" ends degraded without any.                      *)
DemoPhase(w) ==
    /\ pc[w] \in {"run", "phases"}
    /\ ~Real(job[w]) /\ ~setting.offline
    /\ MayEnter(w)
    /\ IF CancelIsSet(w)
       THEN Moves(w, "cancelling")
       ELSE \/ Writes(w, "running", "phases") /\ UNCHANGED <<exporting, lock>>
            \/ WritesUnaudited(w, "running", "failing")

DemoFinish(w) ==
    /\ pc[w] \in {"run", "phases"}
    /\ ~Real(job[w]) /\ ~setting.offline
    /\ MayEnter(w)
    /\ IF CancelIsSet(w)
       THEN Moves(w, "cancelling")
       ELSE \E s \in (IF pc[w] = "run" THEN {"degraded"} ELSE {"completed", "degraded"}) :
               \/ WritesAndExports(w, s, "export") /\ UNCHANGED lock
               \/ WritesUnaudited(w, s, "failing")

(* _run_offline_research and _run_live_research up to the runner. A live    *)
(* run first asks the journal for the task's policy.                        *)
ResearchRefused(w) ==
    /\ pc[w] = "run"
    /\ Real(job[w])
    /\ grant[job[w]] = "revoked"
    /\ Moves(w, "uncertain")

(* An offline run wants a plan of the fixture planner, a live one an        *)
(* approved plan of another origin.                                         *)
Runnable(t) ==
    IF Real(t) THEN plan[t].state = "approved" /\ ~plan[t].fixture
    ELSE plan[t].fixture

PlanRefused(w) ==
    /\ pc[w] = "run"
    /\ Research(job[w])
    /\ ~Runnable(job[w])
    /\ Moves(w, "failing")

ResearchBegin(w) ==
    /\ pc[w] = "run"
    /\ Research(job[w])
    /\ Runnable(job[w])
    /\ MayEnter(w)
    /\ IF CancelIsSet(w)
       THEN /\ Goto(w, "cancelling")
            /\ lock' = w
            /\ UNCHANGED <<durable, queue, job, cancelSet, gate, request,
                           exporting, started, process>>
       ELSE Writes(w, "running", "researching") /\ UNCHANGED <<exporting, lock>>

(* The runner ends without a result: it saw the cancel event, an operation  *)
(* has an unknown outcome or lost its authorization, or it failed. A live   *)
(* result is also kept back while the journal is not projected.             *)
ResearchStops(w) ==
    /\ pc[w] = "researching"
    /\ \/ ~result[job[w]] /\ CancelIsSet(w) /\ Moves(w, "cancelling")
       \/ (Real(job[w]) \/ ~result[job[w]]) /\ Moves(w, "uncertain")
       \/ ~result[job[w]] /\ Moves(w, "failing")

ResultStored(t) == [result EXCEPT ![t] = TRUE]

(* A result, from the runner or stored by an earlier run, is published      *)
(* under the lock unless the task was cancelled in the meantime.            *)
PublishResult(w) ==
    /\ pc[w] = "researching"
    /\ MayEnter(w)
    /\ lock' = w
    /\ IF CancelIsSet(w)
       THEN Goto(w, "cancelling") /\ UNCHANGED result
       ELSE Goto(w, "conclude") /\ result' = ResultStored(job[w])
    /\ UNCHANGED <<status, plan, reservation, events, resumes, grant, queue, job,
                   cancelSet, gate, request, exporting, started, process>>

(* The status commits apart from the artifact; the lock is then released.   *)
(* An audit event may fail before that commit (those of the stages) or after *)
(* it (that of the outcome).                                                *)
Conclude(w) ==
    /\ pc[w] = "conclude"
    /\ lock' = "free"
    /\ \E s \in {"completed", "degraded", "failed"} :
          \/ WritesAndExports(w, s, "export")
          \/ WritesUnaudited(w, s, "failing")
          \/ WritesUnaudited(w, status[job[w]], "failing")

FinishUnlessCancelling(w) ==
    /\ pc[w] = "cancelling"
    /\ MayEnter(w)
    /\ IF status[job[w]] = "cancelling" THEN Moves(w, "leaving")
       ELSE WritesAndExports(w, "cancelled", "closing") /\ UNCHANGED lock

(* _finish_cancelled, called while the task runs, perhaps by a holder of the *)
(* lock, or by the handler of a cancelled run, whose errors end the worker.  *)
FinishCancelled(w) ==
    /\ pc[w] = "cancelling"
    /\ MayEnter(w)
    /\ \/ \E next \in {"export", "closing"} :
             WritesAndExports(w, "cancelled", next) /\ UNCHANGED lock
       \/ \E next \in {"failing", "leaving"} : WritesUnaudited(w, "cancelled", next)

(* The except clauses write the status without the lock.                    *)
FinishUncertain(w) ==
    /\ pc[w] = "uncertain"
    /\ Writes(w, "interrupted", "leaving")
    /\ UNCHANGED <<exporting, lock>>

FinishUnavailable(w) ==
    /\ pc[w] = "unavailable"
    /\ \/ WritesAndExports(w, "degraded", "closing") /\ UNCHANGED lock
       \/ WritesUnaudited(w, "degraded", "leaving")

FailsAnyway(w) ==
    /\ pc[w] = "failing"
    /\ \/ WritesAndExports(w, "failed", "closing") /\ UNCHANGED lock
       \/ WritesUnaudited(w, "failed", "leaving")

(* The run failed, or an error followed the commit of its outcome: whatever *)
(* was written, a success among it, is overwritten, but not a cancellation. *)
FinishFailed(w) ==
    /\ pc[w] = "failing"
    /\ IF status[job[w]] \in {"cancelled", "rejected"}
       THEN Moves(w, "leaving")
       ELSE \/ WritesAndExports(w, "failed", "closing") /\ UNCHANGED lock
            \/ WritesUnaudited(w, "failed", "leaving")

(* The worker's clean-up: the handle goes, its cancel event with it.        *)
Leave(w) ==
    /\ pc[w] = "leaving"
    /\ cancelSet' = cancelSet \ {job[w]}
    /\ job' = [job EXCEPT ![w] = NoTask]
    /\ Goto(w, "idle")
    /\ UNCHANGED <<durable, queue, gate, request, exporting, lock, started,
                   process>>

-----------------------------------------------------------------------------
(* close(): the pool accepts nothing more; what it holds at the deadline is *)
(* cancelled, and the status of those tasks says nothing of it.             *)
Close ==
    /\ open
    /\ lock = "free"
    /\ open' = FALSE
    /\ UNCHANGED <<durable, volatile, started, restarts, setting>>

CloseDeadline ==
    /\ ~open
    /\ ~(Live \subseteq cancelSet)
    /\ cancelSet' = cancelSet \union Live
    /\ UNCHANGED <<durable, queue, job, gate, pc, request, exporting, lock,
                   started, process>>

(* The process is lost at any point and a new service starts:               *)
(* _detect_interrupted_tasks, then _reconcile_budget_on_start on what that  *)
(* left. Everything volatile is gone.                                       *)
Restart ==
    /\ restarts < MaxRestarts
    /\ restarts' = restarts + 1
    /\ open' = TRUE
    /\ status' = [t \in Tasks |->
          IF status[t] \in Interrupted THEN "interrupted" ELSE status[t]]
    /\ reservation' = [t \in Tasks |->
          IF Real(t) \/ status[t] # "waiting_approval" THEN Settled(t)
          ELSE reservation[t]]
    /\ queue' = <<>>
    /\ job' = [w \in Workers |-> NoTask]
    /\ cancelSet' = {}
    /\ gate' = [t \in Tasks |-> "closed"]
    /\ pc' = [w \in Workers |-> "idle"]
    /\ request' = Idle
    /\ exporting' = [t \in Tasks |-> "no"]
    /\ lock' = "free"
    /\ UNCHANGED <<plan, result, events, resumes, grant, started, setting>>

-----------------------------------------------------------------------------
Requests(t) ==
    \/ CreateTask(t) \/ AuthorizePlanning(t) \/ GeneratePlan(t)
    \/ ApproveCommit(t) \/ ApproveRolledBack(t) \/ ModifyPlan(t) \/ RejectPlan(t)
    \/ CancelRevoke(t) \/ ResumeCommit(t) \/ RetryExports(t)

RequestContinues ==
    \/ ApproveAdmit \/ ApproveFails \/ CancelDirect \/ CancelSignal
    \/ CancelWrite \/ ResumeAdmit \/ ResumeFails

Exports(t) == ExportSettle(t) \/ ExportReady(t) \/ ExportFails(t) \/ ExportRaises(t)

Executes(w) ==
    \/ Take(w) \/ PassGate(w) \/ CheckUsage(w) \/ PreflightRefuses(w)
    \/ DemoPhase(w) \/ DemoFinish(w)
    \/ ResearchRefused(w) \/ ResearchBegin(w) \/ PlanRefused(w)
    \/ ResearchStops(w) \/ PublishResult(w) \/ Conclude(w)
    \/ FinishCancelled(w) \/ FinishUncertain(w) \/ FinishUnavailable(w)
    \/ FinishFailed(w) \/ Leave(w)

Next ==
    \/ \E t \in Tasks : Requests(t) \/ Exports(t)
    \/ RequestContinues
    \/ \E w \in Workers : Executes(w)
    \/ Close \/ CloseDeadline \/ Restart

Spec == Init /\ [][Next]_vars

(* Requests go on, exports end, and a worker that again and again finds the *)
(* lock free gets it: the handlers inside it are short and clients do not   *)
(* ask without end. What the clients ask for and the loss of the process    *)
(* are not fair.                                                            *)
Fairness ==
    /\ WF_vars(RequestContinues)
    /\ \A t \in Tasks : WF_vars(Exports(t))
    /\ \A w \in Workers : SF_vars(Executes(w))

FairSpec == Spec /\ Fairness

-----------------------------------------------------------------------------
WorkerStates == {"idle", "gate", "start", "run", "phases", "researching",
                 "conclude", "cancelling", "uncertain", "unavailable",
                 "failing", "export", "closing", "leaving"}
Ops == {"idle", "approve", "cancel_direct", "cancel_export", "cancel_signal",
        "cancel_write", "resume"}

TypeOK ==
    /\ status \in [Tasks -> Statuses]
    /\ plan \in [Tasks -> [version : 0 .. MaxPlanVersions, state : PlanStates,
                           fixture : BOOLEAN]]
    /\ reservation \in [Tasks -> Reservations]
    /\ result \in [Tasks -> BOOLEAN]
    /\ events \in [Tasks -> SUBSET ({"task_cancel_requested"} \union TerminalEvents)]
    /\ resumes \in [Tasks -> 0 .. 2]
    /\ grant \in [Tasks -> Grants]
    /\ queue \in Seq(Tasks) /\ Len(queue) <= MaxQueueSize
    /\ job \in [Workers -> Tasks \union {NoTask}]
    /\ cancelSet \subseteq Tasks
    /\ gate \in [Tasks -> {"closed", "admitted", "refused"}]
    /\ pc \in [Workers -> WorkerStates]
    /\ request \in [op : Ops, task : Tasks \union {NoTask}]
    /\ exporting \in [Tasks -> {"no", "settle", "render"}]
    /\ lock \in {"free", "request"} \union Workers
    /\ started \in [Tasks -> Nat]
    /\ open \in BOOLEAN
    /\ setting \in Settings
    /\ restarts \in 0 .. MaxRestarts

(* No work without a decision: a worker past the gate works on a task whose *)
(* current plan is approved, through resumes and restarts too; only a demo  *)
(* task may have no plan at all (service.py:415-431, 602-613).              *)
OnlyApprovedPlansRun ==
    \A w \in Workers :
        pc[w] \in {"start", "run", "phases", "researching", "conclude"} =>
            \/ plan[job[w]].state = "approved"
            \/ ~Real(job[w]) /\ plan[job[w]].version = 0

(* A first run, or one of a process that was not lost and dropped no        *)
(* submission of the task for an audit write that failed.                   *)
Undisturbed(t) == resumes[t] = 0 \/ (restarts = 0 /\ started[t] = 1 + resumes[t])

(* What was admitted can start: the reservation a run needs is there when   *)
(* the worker looks for it.  The exception are resumes of what a restart or *)
(* a failed audit write handed to reconciliation (service.py:1294-1295,     *)
(* budget.py:408-417).                                                      *)
AdmittedWorkIsFunded ==
    \A w \in Workers : pc[w] = "start" /\ Undisturbed(job[w]) => Funded(job[w])

(* A refused approval leaves no trace that would refuse the next one: a     *)
(* demo task that waits for approval holds no reservation and is not in the *)
(* executor ("decision and budget transactions are rolled back, may be      *)
(* approved again", INTERFACE.md; budget.py:311-316).                       *)
WaitingTaskIsApprovable ==
    \A t \in Tasks : status[t] = "waiting_approval" =>
        /\ ~Real(t) => reservation[t] = "none"
        /\ t \notin Live

(* The exposure of a real task is never given back by a terminal path, a    *)
(* retry or a restart: only reconciliation outside this program may         *)
(* (budget.py:368-369, service.py:1604-1606).                               *)
ExposureIsKept ==
    [][\A t \in setting.real : reservation[t] # "none" =>
          reservation'[t] \in {reservation[t], "reconciliation_required"}]_vars

(* Once the cancellation of a real task is recorded no result of it is      *)
(* published, whatever its operations do and even after a restart: its      *)
(* authorizations were revoked first (service.py:578-598, 1233-1241).       *)
CancelledRealNeverPublishes ==
    [][\A t \in setting.real : "task_cancel_requested" \in events[t] =>
          result'[t] = result[t]]_vars

(* A task does not go from cancelling to success (service.py:704, 1234,     *)
(* 1447: the cancel event is read again under the lock before publication). *)
CancellingNeverCompletes ==
    [][\A t \in Tasks : status[t] = "cancelling" => status'[t] # "completed"]_vars

(* A cancellation or rejection is final. An outcome that was written is     *)
(* taken back only by the worker that still has the task, when an error     *)
(* follows its commit: to failed. Once the task left the executor, and no   *)
(* cancellation of it is under way, its outcome stands, but for the         *)
(* downgrade of a success whose exports fail (service.py:1338-1350,         *)
(* 1698-1720).                                                              *)
DecidedStatusIsFinal ==
    [][\A t \in Tasks :
          /\ status[t] \in {"cancelled", "rejected"} => status'[t] = status[t]
          /\ status[t] = "completed" =>
                \/ status'[t] \in {"completed", "degraded"}
                \/ t \in Live /\ status'[t] = "failed"
          /\ status[t] \in {"degraded", "failed"} /\ t \notin Live /\ request.task # t =>
                status'[t] = status[t]]_vars

(* A rejected task was never executed and never will be (service.py:470-486).*)
RejectedIsInert ==
    \A t \in Tasks : status[t] = "rejected" => started[t] = 0 /\ t \notin Live

(* A research task reported as completed has its result stored: the         *)
(* artifact commits before the status (service.py:709-741, 1237-1253).      *)
CompletedHasResult ==
    \A t \in Tasks : Research(t) /\ status[t] = "completed" => result[t]

(* However often the process is lost, work is executed at most once per     *)
(* approval and accepted resume, and resumes are at most two ("allows at    *)
(* most two resume requests", research-runtime.md:43).                      *)
RecoveryIsBounded ==
    \A t \in Tasks : resumes[t] <= 2 /\ started[t] <= 1 + resumes[t]

(* A row means what it says: what runs was approved, what waits or was      *)
(* rejected is nowhere in the executor, what completed has its result.      *)
DecisionsHold ==
    OnlyApprovedPlansRun /\ WaitingTaskIsApprovable /\ RejectedIsInert /\ CompletedHasResult

(* No step takes back an outcome, a cancellation or the exposure of a real  *)
(* task.                                                                    *)
NothingIsTakenBack == DecidedStatusIsFinal /\ CancellingNeverCompletes /\ ExposureIsKept

(* A queued task leaves the queue.                                          *)
QueuedIsServed == \A t \in Tasks : status[t] = "queued" ~> status[t] # "queued"

(* Every terminal path announces its end, with or without exports           *)
(* (service.py:1679: "guaranteeing a terminal event either way").           *)
TerminalIsAnnounced ==
    \A t \in Tasks : status[t] \in Terminal ~> events[t] \intersect TerminalEvents # {}

(* An accepted cancellation takes effect: the task does not stay in         *)
(* cancelling (service.py:589-591: "the active phase will stop at its next  *)
(* boundary").                                                              *)
CancellingEnds == \A t \in Tasks : status[t] = "cancelling" ~> status[t] # "cancelling"
=============================================================================
