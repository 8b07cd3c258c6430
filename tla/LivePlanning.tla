---------------------------- MODULE LivePlanning ----------------------------
(***************************************************************************)
(* How the plan of a real task comes to be: Gate A authorizes one paid     *)
(* call of the Coordinator per generation, the call is made outside the    *)
(* lock of the service, and its plan is published for review (delivery/    *)
(* service.py, live_planning.py, authorization.py, plans.py).              *)
(*                                                                         *)
(* Two databases: the effect journal holds grant, phases and calls, the    *)
(* task database everything else.  One handler at a time holds the state   *)
(* lock; the planner, which does not, runs beside it.                      *)
(***************************************************************************)
EXTENDS Naturals, FiniteSets, FiniteSetsExt

CONSTANTS MaxGenerations,   \* bound: generations the user authorizes
          PhaseCalls,       \* max_remote_calls of the planning allowance
          MaxVersions,      \* bound: plan versions of the task
          MaxPlanCrashes    \* bound: losses of the process

ASSUME PlanningAssumption ==
    {MaxGenerations, PhaseCalls, MaxVersions, MaxPlanCrashes} \subseteq Nat \ {0}

Generations == 1 .. MaxGenerations

VARIABLES
    grant,       \* of the task: "none", "active", "expired" or "revoked"
    phase,       \* of each planning generation, "absent" when not prepared
    call,        \* the row of coordinator:g<generation>, "absent" before
    answer,      \* what a completed call returned
    status,      \* of the task: "waiting", "queued" or "over"
    reserved,    \* the capacity of the task is reserved
    recorded,    \* generations whose authorization the task database holds
    version,     \* of the current plan, 0 when there is none
    approved,    \* the version that was approved, 0 before
    binding,     \* the plan version committed for a generation, 0 before
    announced,   \* stable keys of the events of Gate A and of plan versions
    handler,     \* the request that holds the state lock
    planner,     \* the planning thread; gen is the phase it registered with,
                 \* via the phase its call goes out under
    stop,        \* its cancel event
    dispatched,        \* history: dispatches of each generation's call
    planCrashes

journal == <<grant, phase, call, answer>>
task == <<status, reserved, recorded, version, approved, binding, announced>>
planningVars == <<journal, task, handler, planner, stop, dispatched, planCrashes>>

NoHandler == [kind |-> "none", at |-> "idle", gen |-> 0]
NoPlanner == [at |-> "idle", gen |-> 0, via |-> 0]
Unlocked == handler = NoHandler
Planning == planner.at # "idle"

Step(kind, at, g) == handler' = [kind |-> kind, at |-> at, gen |-> g]
Release == handler' = NoHandler
Plan(at) == planner' = [planner EXCEPT !.at = at]

PlanningInit ==
    /\ grant = "none"
    /\ phase = [g \in Generations |-> "absent"]
    /\ call = [g \in Generations |-> "absent"]
    /\ answer = [g \in Generations |-> "none"]
    /\ status = "waiting"
    /\ reserved = FALSE
    /\ recorded = {}
    /\ version = 0
    /\ approved = 0
    /\ binding = [g \in Generations |-> 0]
    /\ announced = {}
    /\ handler = NoHandler
    /\ planner = NoPlanner
    /\ stop = FALSE
    /\ dispatched = [g \in Generations |-> 0]
    /\ planCrashes = 0

-----------------------------------------------------------------------------
(* Gate A. Both commits to the journal come before the commit to the task   *)
(* database that they are nested in.                                        *)
AuthorizeTask(g) ==
    /\ Unlocked
    /\ status = "waiting"
    /\ grant \in {"none", "active"}
    /\ grant' = "active"
    /\ Step("gateA", "granted", g)
    /\ UNCHANGED <<phase, call, answer, task, planner, stop, dispatched, planCrashes>>

(* A phase is prepared once; a repeated one must still be of use.           *)
Latest == Max({0} \union {g \in Generations : phase[g] # "absent"})
MayPrepare(g) ==
    /\ grant = "active"
    /\ phase[g] \in {"pending", "active"} \/ (phase[g] = "absent" /\ g > Latest)

PreparePhase ==
    LET g == handler.gen IN
    /\ handler.kind = "gateA" /\ handler.at = "granted"
    /\ IF MayPrepare(g)
       THEN /\ phase' = [phase EXCEPT ![g] = IF @ = "absent" THEN "pending" ELSE @]
            /\ Step("gateA", "prepared", g)
       ELSE Release /\ UNCHANGED phase
    /\ UNCHANGED <<grant, call, answer, task, planner, stop, dispatched, planCrashes>>

(* Reservation, acknowledgement and authorization.                          *)
CommitGateA ==
    /\ handler.kind = "gateA" /\ handler.at = "prepared"
    /\ reserved' = TRUE
    /\ recorded' = recorded \union {handler.gen}
    /\ Step("gateA", "committed", handler.gen)
    /\ UNCHANGED <<journal, status, version, approved, binding, announced,
                   planner, stop, dispatched, planCrashes>>

AnnounceGateA ==
    /\ handler.kind = "gateA" /\ handler.at = "committed"
    /\ announced' = announced \union {<<"authorized", handler.gen>>}
    /\ Step("gateA", "announced", handler.gen)
    /\ UNCHANGED <<journal, status, reserved, recorded, version, approved, binding,
                   planner, stop, dispatched, planCrashes>>

(* The newest generation becomes active, the one before it is superseded,   *)
(* whether a planner is using it or not.                                    *)
Activated(g) ==
    [h \in Generations |-> IF h = g THEN "active"
                           ELSE IF phase[h] = "active" THEN "superseded" ELSE phase[h]]
ActivatePhase ==
    LET g == handler.gen IN
    /\ handler.kind = "gateA" /\ handler.at = "announced"
    /\ phase' = IF MayPrepare(g) /\ Latest = g THEN Activated(g) ELSE phase
    /\ Release
    /\ UNCHANGED <<grant, call, answer, task, planner, stop, dispatched, planCrashes>>

(* The task database, or the ledger of events, fails: nothing of the        *)
(* transaction stays, what the journal committed does.                      *)
GateAFails ==
    /\ handler.kind = "gateA" /\ handler.at \in {"prepared", "committed"}
    /\ Release
    /\ UNCHANGED <<journal, task, planner, stop, dispatched, planCrashes>>

-----------------------------------------------------------------------------
(* generate_plan, under the lock: a generation that has its plan is not     *)
(* planned again.                                                           *)
ActivePhase == {g \in Generations : phase[g] = "active"}

RepeatPlan ==
    /\ Unlocked /\ ~Planning
    /\ status = "waiting" /\ grant = "active"
    /\ \E g \in ActivePhase :
          /\ binding[g] = version /\ version > 0
          /\ announced' = announced \union {<<"plan", version>>}
    /\ UNCHANGED <<journal, status, reserved, recorded, version, approved, binding,
                   handler, planner, stop, dispatched, planCrashes>>

StartPlanning ==
    /\ Unlocked /\ ~Planning
    /\ status = "waiting" /\ grant = "active"
    /\ \E g \in ActivePhase :
          /\ binding[g] = 0
          /\ planner' = [at |-> "registered", gen |-> g, via |-> 0]
    /\ stop' = FALSE
    /\ UNCHANGED <<journal, task, handler, dispatched, planCrashes>>

PlannerGivesUp ==
    /\ planner' = NoPlanner
    /\ UNCHANGED <<phase, grant, answer, task, handler, stop, dispatched, planCrashes>>

(* The factory reads the active phase again, outside the lock.              *)
ReadPhase ==
    /\ planner.at = "registered"
    /\ grant = "active"
    /\ \E g \in ActivePhase : planner' = [planner EXCEPT !.at = "read", !.via = g]
    /\ UNCHANGED <<journal, task, handler, stop, dispatched, planCrashes>>

Authorized == grant = "active" /\ phase[planner.via] = "active"

(* Calls of all generations count against the allowance.                    *)
CountedPending == {g \in Generations : call[g] = "pending"}
Counted == {g \in Generations : call[g] \notin {"absent", "retryable"}}
CallAdmissible ==
    /\ ~stop /\ Authorized
    /\ call[planner.via] = "absent"
    /\ \A g \in Generations : call[g] # "unknown"
    /\ Cardinality(Counted) < PhaseCalls

AdmitCall ==
    /\ planner.at = "read"
    /\ CallAdmissible
    /\ call' = [call EXCEPT ![planner.via] = "pending"]
    /\ Plan("intent")
    /\ UNCHANGED <<grant, phase, answer, task, handler, stop, dispatched, planCrashes>>

(* A completed call is not made again.                                      *)
ReplayCall ==
    /\ planner.at = "read"
    /\ ~stop /\ Authorized
    /\ call[planner.via] = "completed"
    /\ Plan("answered")
    /\ UNCHANGED <<journal, task, handler, stop, dispatched, planCrashes>>

CallRefused ==
    /\ \/ planner.at = "registered" /\ (grant # "active" \/ ActivePhase = {})
       \/ planner.at = "read" /\ ~CallAdmissible
          /\ (stop \/ ~Authorized \/ call[planner.via] # "completed")
    /\ UNCHANGED call
    /\ PlannerGivesUp

(* The last check before the request leaves, and the request.               *)
VerifyCall ==
    /\ planner.at = "intent"
    /\ ~stop /\ Authorized
    /\ Plan("verified")
    /\ UNCHANGED <<journal, task, handler, stop, dispatched, planCrashes>>

CallUnsent ==
    /\ planner.at = "intent"
    /\ stop \/ ~Authorized
    /\ call' = [call EXCEPT ![planner.via] = "retryable"]
    /\ PlannerGivesUp

SendCall ==
    /\ planner.at = "verified"
    /\ dispatched' = [dispatched EXCEPT ![planner.via] = @ + 1]
    /\ Plan("sent")
    /\ UNCHANGED <<journal, task, handler, stop, planCrashes>>

(* The answer has the approved model and a usage within the limits: result  *)
(* and usage commit, whether it holds a plan or not.                        *)
Answers == {"plan", "malformed", "outOfScope"}
ConfirmCall ==
    /\ planner.at = "sent"
    /\ call' = [call EXCEPT ![planner.via] = "completed"]
    /\ \E reply \in Answers : answer' = [answer EXCEPT ![planner.via] = reply]
    /\ Plan("answered")
    /\ UNCHANGED <<grant, phase, task, handler, stop, dispatched, planCrashes>>

(* No answer, one that cannot be used, or the wait is cut short.            *)
CallInDoubt ==
    /\ planner.at = "sent"
    /\ call' = [call EXCEPT ![planner.via] = "unknown"]
    /\ PlannerGivesUp

(* The answer is no plan, or one beyond what was approved.                  *)
PlanUnusable ==
    /\ planner.at = "answered"
    /\ answer[planner.via] # "plan" \/ grant # "active"
    /\ UNCHANGED call
    /\ PlannerGivesUp

PlanRead ==
    /\ planner.at = "answered"
    /\ answer[planner.via] = "plan"
    /\ grant = "active" /\ reserved
    /\ Plan("drafted")
    /\ UNCHANGED <<journal, task, handler, stop, dispatched, planCrashes>>

(* Draft, plan version and binding commit together.                         *)
PublishesUnchecked == TRUE
MayPublish == ~stop /\ status = "waiting" /\ grant = "active"
Publish ==
    /\ planner.at = "drafted" /\ Unlocked
    /\ MayPublish
    /\ version < MaxVersions
    /\ version' = version + 1
    /\ binding' = [binding EXCEPT ![planner.gen] = version + 1]
    /\ Plan("published")
    /\ UNCHANGED <<journal, status, reserved, recorded, approved, announced, handler,
                   stop, dispatched, planCrashes>>

(* Cancelled meanwhile, or the transaction fails.                           *)
PublishFails ==
    /\ planner.at = "drafted" /\ Unlocked
    /\ UNCHANGED call
    /\ PlannerGivesUp

AnnouncePlan ==
    /\ planner.at = "published"
    /\ announced' = announced \union {<<"plan", binding[planner.gen]>>}
    /\ planner' = NoPlanner
    /\ UNCHANGED <<journal, status, reserved, recorded, version, approved, binding,
                   handler, stop, dispatched, planCrashes>>

-----------------------------------------------------------------------------
(* The other requests on a task in review.                                  *)
Reviewable == Unlocked /\ status = "waiting" /\ version > 0 /\ ~Planning

Modify ==
    /\ Reviewable
    /\ version < MaxVersions
    /\ version' = version + 1
    /\ UNCHANGED <<journal, status, reserved, recorded, approved, binding, announced,
                   handler, planner, stop, dispatched, planCrashes>>

Approve ==
    /\ Reviewable
    /\ grant = "active" /\ reserved
    /\ status' = "queued"
    /\ approved' = version
    /\ Step("approve", "committed", 0)
    /\ UNCHANGED <<journal, reserved, recorded, version, binding, announced, planner,
                   stop, dispatched, planCrashes>>

Ended == [g \in Generations |-> IF phase[g] \in {"pending", "active"} THEN "revoked"
                                ELSE phase[g]]

ApproveEndsPlanning ==
    /\ handler.kind = "approve"
    /\ phase' = Ended
    /\ Release
    /\ UNCHANGED <<grant, call, answer, task, planner, stop, dispatched, planCrashes>>

(* Rejection and cancellation revoke first; a cancellation also signals the *)
(* planner.                                                                 *)
Revoked == IF grant = "none" THEN "none" ELSE "revoked"
Reject ==
    /\ Reviewable
    /\ grant' = Revoked
    /\ phase' = Ended
    /\ Step("end", "revoked", 0)
    /\ UNCHANGED <<call, answer, task, planner, stop, dispatched, planCrashes>>

Cancel ==
    /\ Unlocked /\ status = "waiting"
    /\ stop' = Planning
    /\ grant' = Revoked
    /\ phase' = Ended
    /\ Step("end", "revoked", 0)
    /\ UNCHANGED <<call, answer, task, planner, dispatched, planCrashes>>

EndTask ==
    /\ handler.kind = "end"
    /\ status' = "over"
    /\ Release
    /\ UNCHANGED <<journal, reserved, recorded, version, approved, binding, announced,
                   planner, stop, dispatched, planCrashes>>

(* A close of the service while a plan is made signals, and leaves.         *)
CloseWhilePlanning ==
    /\ Unlocked /\ Planning /\ ~stop
    /\ stop' = TRUE
    /\ UNCHANGED <<journal, task, handler, planner, dispatched, planCrashes>>

DeadlinePasses ==
    /\ grant = "active"
    /\ grant' = "expired"
    /\ UNCHANGED <<phase, call, answer, task, handler, planner, stop, dispatched, planCrashes>>

CrashInPlanning ==
    /\ planCrashes < MaxPlanCrashes
    /\ ~Unlocked \/ Planning
    /\ planCrashes' = planCrashes + 1
    /\ handler' = NoHandler
    /\ planner' = NoPlanner
    /\ stop' = FALSE
    /\ UNCHANGED <<journal, task, dispatched>>

PlanningNext ==
    \/ \E g \in Generations : AuthorizeTask(g)
    \/ PreparePhase \/ CommitGateA \/ AnnounceGateA \/ ActivatePhase \/ GateAFails
    \/ RepeatPlan \/ StartPlanning \/ ReadPhase \/ AdmitCall \/ ReplayCall \/ CallRefused
    \/ VerifyCall \/ CallUnsent \/ SendCall \/ ConfirmCall \/ CallInDoubt
    \/ PlanUnusable \/ PlanRead \/ Publish \/ PublishFails \/ AnnouncePlan
    \/ Modify \/ Approve \/ ApproveEndsPlanning \/ Reject \/ Cancel \/ EndTask
    \/ CloseWhilePlanning \/ DeadlinePasses \/ CrashInPlanning

PlanningSpec == PlanningInit /\ [][PlanningNext]_planningVars

-----------------------------------------------------------------------------
(* "incomplete cross-database work cannot dispatch" (research-runtime.md,   *)
(* Explicit authorization): a call that went out has its reservation, its   *)
(* authorization and its event in the other databases, whatever crashed in  *)
(* between (service.py:958-1032).                                           *)
DispatchIsOnRecord ==
    \A g \in Generations :
        dispatched[g] > 0 => /\ reserved
                       /\ g \in recorded
                       /\ <<"authorized", g>> \in announced

(* "Changing a phase generation does not replenish its allowance": crashes, *)
(* repeated requests and new generations together never pay for more calls  *)
(* than one planning phase allows, nor twice for one generation             *)
(* (authorization.py:252-302, effects.py:389-440).                          *)
AllowanceIsShared ==
    /\ \A g \in Generations : dispatched[g] <= 1
    /\ Cardinality({g \in Generations : dispatched[g] > 0}) <= PhaseCalls

(* The two together: no planning call goes out but an authorized one.       *)
PlanningCallsAreAuthorized == DispatchIsOnRecord /\ AllowanceIsShared

(* The plan that was approved stays the current one: no planner that was    *)
(* still at work publishes behind the approval, and none publishes on a     *)
(* task that is over (service.py:1088-1170, 433).                           *)
ApprovedPlanStands ==
    [][/\ status # "waiting" => version' = version
       /\ approved # 0 => approved' = approved]_planningVars
=============================================================================
