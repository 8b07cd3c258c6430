------------------------- MODULE BudgetReservations -------------------------
(***************************************************************************)
(* The budget of the tasks: the rows of budget_reservations                *)
(* (delivery/budget.py), the recorded usage of the runtime ledger, the     *)
(* confirmed usage of the effect journal that is not projected to it yet,  *)
(* and what the service does with them on approval, at a terminal state,   *)
(* on a budget report and at start-up (delivery/service.py).               *)
(*                                                                         *)
(* Amounts are CNY in units; calls and seconds go the same way and are     *)
(* left out.  A demo task charges the ledger itself, a real task through   *)
(* the journal.                                                            *)
(***************************************************************************)
EXTENDS Naturals, FiniteSetsExt

CONSTANTS Tasks,
          RealTasks,
          Capacity,        \* reservation_capacity_cny
          Amounts,         \* bound: the amounts plans and envelopes ask for
          MaxUsage,        \* bound: what a task can come to use
          MaxStartups,     \* bound: losses of the process
          NoRow, NotSettled, NoEvent

(* A row of budget_reservations.                                            *)
Rows == [reserved : Nat, recorded : Nat, settled : Nat \union {NotSettled},
         required : BOOLEAN]

ASSUME BudgetAssumption ==
    /\ IsFiniteSet(Tasks)
    /\ RealTasks \subseteq Tasks
    /\ Amounts \subseteq Nat
    /\ {Capacity, MaxUsage, MaxStartups} \subseteq Nat
    /\ {NoRow, NotSettled, NoEvent} \intersect Nat = {}
    /\ NoRow \notin Rows

VARIABLES
    stage,        \* of the task: "waiting", "queued", "running",
                  \* "interrupted" or "terminal"
    row,          \* its reservation
    usage,        \* its usage in the runtime ledger
    unprojected,  \* its confirmed usage that is only in the journal
    reconciled,   \* the payload of its budget-reconciled event
    service,      \* "down", "starting", "up", or "refused": the constructor
                  \* raised
    audits,       \* reconciled tasks the start-up has yet to append an event for
    startups

budgetVars == <<stage, row, usage, unprojected, reconciled, service, audits, startups>>

Real(t) == t \in RealTasks
LargerOf(a, b) == IF a > b THEN a ELSE b

Reserved(amount) == [reserved |-> amount, recorded |-> 0,
                     settled |-> NotSettled, required |-> FALSE]
Open(t) == row[t] # NoRow /\ row[t].settled = NotSettled

(* _open_committed_cny, and what one row contributes.                       *)
Exposure(t) == LargerOf(row[t].reserved, row[t].recorded)
CommittedConfirmed ==
    SumFunction([t \in {u \in Tasks : Open(u) /\ ~row[u].required} |-> Exposure(t)])
Opened == {t \in Tasks : Open(t)}
Promised == SumFunction([t \in Opened |-> Exposure(t)])

BudgetInit ==
    /\ stage = [t \in Tasks |-> "waiting"]
    /\ row = [t \in Tasks |-> NoRow]
    /\ usage = [t \in Tasks |-> 0]
    /\ unprojected = [t \in Tasks |-> 0]
    /\ reconciled = [t \in Tasks |-> NoEvent]
    /\ service = "up"
    /\ audits = {}
    /\ startups = 0

-----------------------------------------------------------------------------
(* reserve, by Gate A of a real task or by the approval of a demo task.     *)
ReserveBudget(t, amount) ==
    /\ service = "up"
    /\ stage[t] = "waiting"
    /\ row[t] = NoRow
    /\ Promised + amount <= Capacity
    /\ row' = [row EXCEPT ![t] = Reserved(amount)]
    /\ stage' = [stage EXCEPT ![t] = IF Real(t) THEN "waiting" ELSE "queued"]
    /\ UNCHANGED <<usage, unprojected, reconciled, service, audits, startups>>

(* bind_authorized_plan: the approval of a real task takes its reservation. *)
Bind(t) ==
    /\ service = "up"
    /\ Real(t)
    /\ stage[t] = "waiting"
    /\ Open(t) /\ ~row[t].required
    /\ stage' = [stage EXCEPT ![t] = "queued"]
    /\ UNCHANGED <<row, usage, unprojected, reconciled, service, audits, startups>>

(* mark_unconfirmed.                                                        *)
Unconfirmed(t, used) ==
    IF Open(t) THEN [row[t] EXCEPT !.required = TRUE, !.recorded = LargerOf(@, used)]
    ELSE row[t]

(* settle: a second settlement with another figure is an error, which the   *)
(* callers log.                                                             *)
Settled(t, used) ==
    IF Open(t)
    THEN [row[t] EXCEPT !.settled = used, !.recorded = used, !.required = FALSE]
    ELSE row[t]

ClosedAlike(t) == Settled(t, usage[t])

(* What the end of a task does to its row: the exposure of a real task may  *)
(* only be marked.                                                          *)
Closed(t) == IF Real(t) THEN Unconfirmed(t, usage[t]) ELSE Settled(t, usage[t])

(* The approval committed and its audit records failed.                     *)
AdmissionFails(t) ==
    /\ service = "up"
    /\ stage[t] = "queued"
    /\ row' = [row EXCEPT ![t] = Unconfirmed(t, usage[t])]
    /\ stage' = [stage EXCEPT ![t] = "interrupted"]
    /\ UNCHANGED <<usage, unprojected, reconciled, service, audits, startups>>

(* check_usage, in the worker: without a confirmed open reservation that    *)
(* covers the usage the run fails.                                          *)
CheckUsage(t) ==
    /\ service = "up"
    /\ stage[t] = "queued"
    /\ IF Open(t) /\ ~row[t].required /\ usage[t] <= row[t].reserved
       THEN stage' = [stage EXCEPT ![t] = "running"] /\ UNCHANGED row
       ELSE /\ stage' = [stage EXCEPT ![t] = "terminal"]
            /\ row' = IF row[t] = NoRow THEN row
                      ELSE [row EXCEPT ![t] = Closed(t)]
    /\ UNCHANGED <<usage, unprojected, reconciled, service, audits, startups>>

ResumeTask(t) ==
    /\ service = "up"
    /\ stage[t] = "interrupted"
    /\ stage' = [stage EXCEPT ![t] = "queued"]
    /\ UNCHANGED <<row, usage, unprojected, reconciled, service, audits, startups>>

(* A call is measured: a demo charges the ledger; a real task, which also   *)
(* plans while it waits, commits to the journal first.                      *)
Spend(t) ==
    /\ service = "up"
    /\ usage[t] + unprojected[t] < MaxUsage
    /\ IF Real(t)
       THEN /\ stage[t] \in {"waiting", "running"}
            /\ row[t] # NoRow
            /\ unprojected' = [unprojected EXCEPT ![t] = @ + 1]
            /\ UNCHANGED usage
       ELSE /\ stage[t] = "running"
            /\ usage' = [usage EXCEPT ![t] = @ + 1]
            /\ UNCHANGED unprojected
    /\ UNCHANGED <<stage, row, reconciled, service, audits, startups>>

(* project_usage, after each call, before a resume and on a budget report.  *)
ProjectUsage(t) ==
    /\ service = "up"
    /\ unprojected[t] > 0
    /\ usage' = [usage EXCEPT ![t] = @ + unprojected[t]]
    /\ unprojected' = [unprojected EXCEPT ![t] = 0]
    /\ UNCHANGED <<stage, row, reconciled, service, audits, startups>>

(* _settle_for_task, at the terminal state and on every retried export.     *)
Settle(t) ==
    /\ service = "up"
    /\ stage[t] # "queued"
    /\ row[t] # NoRow
    /\ row' = [row EXCEPT ![t] = Closed(t)]
    /\ stage' = [stage EXCEPT ![t] = "terminal"]
    /\ UNCHANGED <<usage, unprojected, reconciled, service, audits, startups>>

-----------------------------------------------------------------------------
BudgetCrash ==
    /\ service # "down"
    /\ startups < MaxStartups
    /\ startups' = startups + 1
    /\ service' = "down"
    /\ audits' = {}
    /\ UNCHANGED <<stage, row, usage, unprojected, reconciled>>

(* The constructor: abandoned work is marked, then every open reservation   *)
(* that is nobody's is reconciled.                                          *)
Abandoned(p) == IF p \in {"queued", "running"} THEN "interrupted" ELSE p

Start ==
    LET orphans == {t \in Tasks : Open(t) /\ (Real(t) \/ stage[t] # "waiting")}
    IN  /\ service = "down"
        /\ stage' = [t \in Tasks |-> Abandoned(stage[t])]
        /\ row' = [t \in Tasks |->
              IF t \in orphans THEN Closed(t) ELSE row[t]]
        /\ audits' = orphans
        /\ service' = "starting"
        /\ UNCHANGED <<usage, unprojected, reconciled, startups>>

(* One event per reconciled row under a key of its own; the ledger refuses  *)
(* the same key with another payload, and the constructor raises.           *)
AuditOne(t) ==
    LET payload == row[t]
    IN  /\ service = "starting"
        /\ t \in audits
        /\ audits' = audits \ {t}
        /\ IF reconciled[t] \in {NoEvent, payload}
           THEN reconciled' = [reconciled EXCEPT ![t] = payload] /\ UNCHANGED service
           ELSE service' = "refused" /\ UNCHANGED reconciled
        /\ UNCHANGED <<stage, row, usage, unprojected, startups>>

Started ==
    /\ service = "starting"
    /\ audits = {}
    /\ service' = "up"
    /\ UNCHANGED <<stage, row, usage, unprojected, reconciled, audits, startups>>

BudgetNext ==
    \/ \E t \in Tasks :
          \/ \E amount \in Amounts : ReserveBudget(t, amount)
          \/ Bind(t) \/ AdmissionFails(t) \/ CheckUsage(t) \/ ResumeTask(t)
          \/ Spend(t) \/ ProjectUsage(t) \/ Settle(t) \/ AuditOne(t)
    \/ BudgetCrash \/ Start \/ Started

BudgetSpec == BudgetInit /\ [][BudgetNext]_budgetVars

-----------------------------------------------------------------------------
BudgetTypeOK ==
    /\ stage \in [Tasks -> {"waiting", "queued", "running", "interrupted", "terminal"}]
    /\ row \in [Tasks -> Rows \union {NoRow}]
    /\ usage \in [Tasks -> Nat]
    /\ unprojected \in [Tasks -> Nat]
    /\ reconciled \in [Tasks -> Rows \union {NoEvent}]
    /\ service \in {"down", "starting", "up", "refused"}
    /\ audits \subseteq Tasks
    /\ startups \in 0 .. MaxStartups

(* What is promised to the tasks never exceeds the shared capacity, though  *)
(* reservations of crashed tasks stay open and usage may exceed its         *)
(* reservation (budget.py:183-190; service.py:1534-1535).                   *)
ReservedAmount(t) == row[t].reserved
CapacityIsShared == SumFunction([t \in Opened |-> ReservedAmount(t)]) <= Capacity

(* The exposure of a real task is never given back: through terminal paths, *)
(* retries, crashes and start-ups it is only held or grows (budget.py:369,  *)
(* service.py:290).                                                         *)
RealExposureIsHeld ==
    [][\A t \in RealTasks : Open(t) =>
          /\ Open(t)'
          /\ Exposure(t)' >= Exposure(t)
          /\ row[t].required => row'[t].required]_budgetVars

(* A settlement is the whole usage of the task, and stays so: nothing is    *)
(* charged after it (budget.py:260-266; service.py:1590).                   *)
SettlementIsFinal ==
    \A t \in Tasks : row[t] # NoRow /\ row[t].settled # NotSettled => row[t].settled = usage[t]

(* The reservations and the usage they settle agree with the capacity.      *)
ReservationsHold == BudgetTypeOK /\ CapacityIsShared /\ SettlementIsFinal

(* "startup must not fail on bookkeeping" (service.py:323).                 *)
StartupNeverFails == service # "refused"
=============================================================================
