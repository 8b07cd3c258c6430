--------------------------- MODULE AblationRunner ---------------------------
(***************************************************************************)
(* The paired verification study (verification_ablation): every question   *)
(* is answered with and without the semantic verifier, each request to the *)
(* paid provider is written ahead as an attempt, and the checkpoint file   *)
(* lets a killed run go on without paying twice.                           *)
(*                                                                         *)
(* A condition is a question and a variant; its requests are one per claim *)
(* (V-on only) and one for the report.  Token and price arithmetic is      *)
(* abstracted to a price: an answered call costs CallPrice; a dispatch is   *)
(* checked with the Reserve of its own request; and a call whose usage     *)
(* never came back is charged the frozen LostReserve where that is more.   *)
(***************************************************************************)
EXTENDS Integers, Sequences, FiniteSets, FiniteSetsExt

CONSTANTS
    Questions,        \* the frozen questions, 1 .. n in the order they are served
    ClaimIds,         \* the claims of a question that the selector verifies, 1 .. n
    VariantOrder,     \* <<"V-on", "V-off">> or the reverse
    MaxVerifierCalls, MaxReportCalls, MaxCost,    \* the shared frozen budget
    CallPrice, Reserve,
    LostReserve,      \* unknown_attempt_reserve_cny of the frozen budget
    MaxStarts         \* bound: how often the script is started

\* The reserve of a request prices the most tokens it may use.
ASSUME AblationAssumption ==
    /\ IsFiniteSet(Questions) /\ Questions = 1 .. Cardinality(Questions)
    /\ IsFiniteSet(ClaimIds) /\ ClaimIds = 1 .. Cardinality(ClaimIds)
    /\ VariantOrder \in {<<"V-on", "V-off">>, <<"V-off", "V-on">>}
    /\ {MaxVerifierCalls, MaxReportCalls, MaxCost, CallPrice, Reserve, LostReserve} \subseteq Nat
    /\ CallPrice <= Reserve

VARIABLES
    attempts,   \* checkpoint: request |-> its attempt records, oldest first
    rows,       \* checkpoint: condition |-> its last row, or NoRow
    policy,     \* checkpoint: the unknown-usage policy of the frozen budget
    live,       \* rows_by_key of the running process: conditions it will not serve again
    cond,       \* the condition being served, 0 when no process runs
    step,       \* where the process is inside that condition
    subject,    \* the request being handled, a claim or ReportSubject
    retry,      \* the --retry-unknown flag of this start
    starts,     \* how often the script was started
    retries,    \* history: how often it was started with --retry-unknown
    sent        \* history: how many calls of a request really went out

ablationVars == <<attempts, rows, policy, live, cond, step, subject, retry, starts,
                  retries, sent>>

-----------------------------------------------------------------------------
ReportSubject == Cardinality(ClaimIds) + 1
NoRow == [status |-> "none", known |-> TRUE, counted |-> FALSE, budget |-> FALSE,
          included |-> {}]

\* The conditions in the order the runner serves them.
Conditions == 1 .. 2 * Cardinality(Questions)
Question(c) == ((c - 1) \div 2) + 1
Variant(c) == VariantOrder[((c - 1) % 2) + 1]
FirstSubject(c) == IF Variant(c) = "V-on" THEN 1 ELSE ReportSubject
SubjectsOf(c) == FirstSubject(c) .. ReportSubject
Requests == {r \in Conditions \X (1 .. ReportSubject) : r[2] \in SubjectsOf(r[1])}
This == <<cond, subject>>

Latest(r) == attempts[r][Len(attempts[r])]
LatestIs(r, states) == attempts[r] # <<>> /\ Latest(r).state \in states
Recoveries(r) == LatestIs(r, {"succeeded"})
BlockedIfUnknown(r) == LatestIs(r, {"unknown"})
Blocked(r) == LatestIs(r, {"dispatched", "failed", "unknown"})

\* Every attempt record of the ledger that stands for a call.
Paid(r) == {i \in DOMAIN attempts[r] : attempts[r][i].calls > 0}
CallsOfLatest(R) == Cardinality({r \in R : attempts[r] # <<>> /\ Latest(r).calls > 0})
CallsOf(R) == SumFunction([r \in R |-> Cardinality(Paid(r))])
Unmetered(r) == {i \in Paid(r) : ~attempts[r][i].metered}
\* What the calls of a request cost when each call that was lost counts "lost".
CostAt(lost, r) == CallPrice * Cardinality(Paid(r) \ Unmetered(r)) + lost * Cardinality(Unmetered(r))
Owed(lost) == SumFunction([r \in Requests |-> CostAt(lost, r)])
\* The ledger's own figure, and the most the provider can have asked.
LostCharge == Max({Reserve, LostReserve})
Exposed == Owed(LostCharge)
Billable == Owed(Reserve)

VerifierRequests == {r \in Requests : r[2] # ReportSubject}
ReportRequests == {r \in Requests : r[2] = ReportSubject}

-----------------------------------------------------------------------------
AblationInit ==
    /\ attempts = [r \in Requests |-> <<>>]
    /\ rows = [c \in Conditions |-> NoRow]
    /\ policy \in {"stop", "bounded_reserve"}
    /\ live = {}
    /\ cond = 0 /\ step = "down" /\ subject = 0
    /\ retry = FALSE
    /\ starts = 0 /\ retries = 0
    /\ sent = [r \in Requests |-> 0]

StopProcess ==
    /\ step' = "down" /\ cond' = 0 /\ subject' = 0 /\ live' = {} /\ retry' = FALSE

\* The conditions a process has still to serve; failed rows are history, not work done.
Unserved(done) == Conditions \ done
EnterNext(done) ==
    IF Unserved(done) = {}
    THEN StopProcess
    ELSE /\ live' = done
         /\ cond' = Min(Unserved(done))
         /\ step' = "prepare"
         /\ subject' = FirstSubject(Min(Unserved(done)))
         /\ UNCHANGED retry

Completed == {c \in Conditions : rows[c].status = "ok"}
\* Rows the script accepts as a reason for --retry-unknown.
RetryableRows == {c \in Conditions :
    rows[c].status = "failed" /\ (~rows[c].known \/ rows[c].budget)}

(***************************************************************************)
(* The script starts or resumes: the checkpoint is loaded, a changed       *)
(* budget policy is migrated into it, completed rows are not served again. *)
(***************************************************************************)
Start(flag, newPolicy) ==
    /\ step = "down"
    /\ starts < MaxStarts
    /\ flag => starts > 0 /\ RetryableRows # {}
    /\ starts' = starts + 1
    /\ Unserved(Completed) # {}
    /\ retry' = flag
    /\ retries' = IF flag THEN retries + 1 ELSE retries
    /\ policy' = newPolicy
    /\ live' = Completed
    /\ cond' = Min(Unserved(Completed))
    /\ step' = "prepare"
    /\ subject' = FirstSubject(Min(Unserved(Completed)))
    /\ UNCHANGED <<attempts, rows, sent>>

\* The process is killed at any point; only the checkpoint survives.
Crash ==
    /\ cond # 0
    /\ StopProcess
    /\ UNCHANGED <<attempts, rows, policy, starts, retries, sent>>

-----------------------------------------------------------------------------
\* Every request of the condition is written ahead before the first one is sent.
Advance == IF subject = ReportSubject
           THEN step' = "work" /\ subject' = FirstSubject(cond)
           ELSE subject' = subject + 1 /\ UNCHANGED step

Intent == [state |-> "intent", calls |-> 0, metered |-> FALSE, verdict |-> "none",
           included |-> {}]
NeedsIntent(r) == ~LatestIs(r, {"intent", "succeeded"})

Prepare ==
    /\ step = "prepare"
    /\ ~(Blocked(This) /\ ~retry)
    /\ attempts' = IF NeedsIntent(This)
                   THEN [attempts EXCEPT ![This] = Append(@, Intent)]
                   ELSE attempts
    /\ Advance
    /\ UNCHANGED <<rows, policy, live, cond, retry, starts, retries, sent>>

\* An unanswered request of an earlier start: the run stops instead of resending.
BlockResend ==
    /\ step = "prepare"
    /\ Blocked(This) /\ ~retry
    /\ StopProcess
    /\ UNCHANGED <<attempts, rows, policy, starts, retries, sent>>

-----------------------------------------------------------------------------
\* check_dispatch: the whole ledger, every start included, plus this request.
WithinCalls(r) ==
    IF r \in VerifierRequests
    THEN CallsOf(VerifierRequests) + 1 <= MaxVerifierCalls
    ELSE CallsOf(ReportRequests) + 1 <= MaxReportCalls
WithinCost == Exposed + Reserve <= MaxCost
UsageIsKnown == \A r \in Requests : Unmetered(r) = {}
MayDispatch(r) ==
    /\ WithinCalls(r)
    /\ WithinCost
    /\ policy = "stop" => UsageIsKnown

Rewrite(r, new) == attempts' = [attempts EXCEPT ![r][Len(attempts[r])] = new]

FailedRow(known, counted, budget) ==
    [status |-> "failed", known |-> known, counted |-> counted, budget |-> budget,
     included |-> {}]

\* The row is checkpointed; usage that stays unknown stops the whole run.
UsageStops(c, allRows, done) ==
    \E variant \in {"V-on", "V-off"} :
        LET mine == {d \in done : Variant(d) = variant}
        IN  /\ \E d \in mine : ~allRows[d].known
            /\ ~(policy = "bounded_reserve" /\ \E d \in mine : allRows[d].counted)

RecordRow(row) ==
    LET done == live \cup {cond}
        all == [rows EXCEPT ![cond] = row]
    IN  /\ rows' = all
        /\ IF Unserved(done) # {} /\ UsageStops(cond, all, done)
           THEN StopProcess
           ELSE EnterNext(done)

\* A recovered answer is used as it stands; nothing is sent.
UseRecovered ==
    /\ step = "work" /\ subject # ReportSubject /\ Recoveries(This)
    /\ subject' = subject + 1
    /\ UNCHANGED <<attempts, rows, policy, live, cond, step, retry, starts, retries, sent>>

\* The dispatch is durable before the provider is called.
Dispatch ==
    /\ step = "work" /\ ~Recoveries(This)
    /\ MayDispatch(This)
    /\ Rewrite(This, [Latest(This) EXCEPT !.state = "dispatched", !.calls = 1])
    /\ step' = "dispatched"
    /\ UNCHANGED <<rows, policy, live, cond, subject, retry, starts, retries, sent>>

\* The budget has no room: the request is marked skipped and the condition fails.
SkipForBudget ==
    /\ step = "work" /\ ~Recoveries(This)
    /\ ~MayDispatch(This)
    /\ Rewrite(This, [Latest(This) EXCEPT !.state = "skipped", !.calls = 0])
    /\ RecordRow(FailedRow(TRUE, FALSE, policy = "stop" => UsageIsKnown))
    /\ UNCHANGED <<policy, starts, retries, sent>>

\* The provider's own counter refuses before anything leaves the process.
NotSent ==
    /\ step = "dispatched"
    /\ Rewrite(This, [Latest(This) EXCEPT !.state = "skipped", !.calls = 0])
    /\ RecordRow(FailedRow(subject = ReportSubject, FALSE, TRUE))
    /\ UNCHANGED <<policy, starts, retries, sent>>

Send ==
    /\ step = "dispatched"
    /\ step' = "sent"
    /\ sent' = [sent EXCEPT ![This] = @ + 1]
    /\ UNCHANGED <<attempts, rows, policy, live, cond, subject, retry, starts, retries>>

-----------------------------------------------------------------------------
\* The claims a prepared V-on context keeps; V-off keeps every claim, unverified.
Prepared(c) == IF Variant(c) = "V-off" THEN ClaimIds
               ELSE {s \in ClaimIds : Latest(<<c, s>>).verdict # "unsupported"}

VerifierAnswers(verdict) ==
    /\ step = "sent" /\ subject # ReportSubject
    /\ Rewrite(This, [Latest(This) EXCEPT !.state = "succeeded", !.metered = TRUE,
                                          !.verdict = verdict])
    /\ step' = "work" /\ subject' = subject + 1
    /\ UNCHANGED <<rows, policy, live, cond, retry, starts, retries, sent>>

\* A lost answer (timeout or transport), or an answer the contract rejects.
VerifierFails(how) ==
    /\ step = "sent" /\ subject # ReportSubject
    /\ Rewrite(This, [Latest(This) EXCEPT !.state = IF how = "timeout" THEN "unknown" ELSE "failed",
                                          !.metered = how = "rejected"])
    /\ RecordRow([FailedRow(FALSE, how # "rejected" /\ LostReserve > 0, FALSE)
                  EXCEPT !.status = IF how = "timeout" THEN "timeout" ELSE "failed"])
    /\ UNCHANGED <<policy, starts, retries, sent>>

ReportAnswers ==
    /\ step = "sent" /\ subject = ReportSubject
    /\ Rewrite(This, [Latest(This) EXCEPT !.state = "succeeded", !.metered = TRUE,
                                          !.included = Prepared(cond)])
    /\ step' = "work"
    /\ UNCHANGED <<rows, policy, live, cond, subject, retry, starts, retries, sent>>

\* The report of this start or of an earlier one passes the frozen limits, or not.
\* (The calls and the cost it checks again were checked before the dispatch.)
AcceptReport ==
    /\ step = "work" /\ subject = ReportSubject /\ Recoveries(This)
    /\ RecordRow([NoRow EXCEPT !.status = "ok", !.included = Prepared(cond)])
    /\ UNCHANGED <<attempts, policy, starts, retries, sent>>

RejectReport(budget) ==
    /\ step = "work" /\ subject = ReportSubject /\ Recoveries(This)
    /\ RecordRow(FailedRow(TRUE, FALSE, budget))
    /\ UNCHANGED <<attempts, policy, starts, retries, sent>>

\* metered: invalid content after the usage came back; timeout and lost: no usage;
\* crashed: any other exception, which leaves the attempt as it was dispatched.
ReportFails(how) ==
    /\ step = "sent" /\ subject = ReportSubject
    /\ \/ how = "metered" /\ Rewrite(This, [Latest(This) EXCEPT !.state = "failed", !.metered = TRUE])
       \/ how = "crashed" /\ UNCHANGED attempts
       \/ how \in {"timeout", "lost"} /\ Rewrite(This, [Latest(This) EXCEPT !.state = "unknown"])
    /\ RecordRow([FailedRow(how = "metered", how # "metered" /\ LostReserve > 0, FALSE)
                  EXCEPT !.status = IF how = "timeout" THEN "timeout" ELSE "failed"])
    /\ UNCHANGED <<policy, starts, retries, sent>>

AblationNext ==
    \/ \E flag \in BOOLEAN, p \in {"stop", "bounded_reserve"} : Start(flag, p)
    \/ Crash
    \/ Prepare
    \/ BlockResend
    \/ UseRecovered
    \/ Dispatch
    \/ SkipForBudget
    \/ NotSent
    \/ Send
    \/ \E verdict \in {"supported", "unsupported"} : VerifierAnswers(verdict)
    \/ \E how \in {"timeout", "lost", "rejected"} : VerifierFails(how)
    \/ ReportAnswers
    \/ AcceptReport
    \/ \E budget \in BOOLEAN : RejectReport(budget)
    \/ \E how \in {"metered", "timeout", "lost", "crashed"} : ReportFails(how)

AblationSpec == AblationInit /\ [][AblationNext]_ablationVars

-----------------------------------------------------------------------------
\* The paid ledger survives every crash: each call that really went out is counted by
\* an attempt record of the checkpoint, so no restart can forget it
\* (runner.persist_attempt before the provider call, ledger.execution_usage).
LedgerCoversCalls == \A r \in Requests : sent[r] <= Cardinality(Paid(r))

\* An answered request is never sent twice, and one whose answer is lost goes out at
\* most once more for each time the operator passed --retry-unknown, whatever crashes
\* come between the written intent and the call (runner.run: "unknown request blocks
\* automatic resend").
NothingIsResent ==
    [][\A r \in Requests : sent'[r] > sent[r] =>
           /\ sent[r] <= retries
           /\ \A i \in DOMAIN attempts[r] : attempts[r][i].state # "succeeded"]_ablationVars

\* However often the study is resumed, its calls and what the provider can have asked
\* for them stay inside the frozen budget.  What the ledger counts does not: it checks a
\* request with one amount and charges a lost answer with another, and is over the
\* budget by at most what one call differs (ledger.check_dispatch, execution_usage).
StudyStaysFunded ==
    /\ SumFunction([r \in VerifierRequests |-> sent[r]]) <= MaxVerifierCalls
    /\ SumFunction([r \in ReportRequests |-> sent[r]]) <= MaxReportCalls
    /\ Billable <= MaxCost
    /\ Exposed <= MaxCost + (LostCharge - Reserve)

\* An accepted row shows the report that was written from exactly the claims its
\* verifier answers left in, also when report and answers come from different starts
\* (runner.prepare_variant_input, recovered_report).
RowsMatchVerdicts ==
    \A c \in Conditions : rows[c].status = "ok" =>
        /\ Latest(<<c, ReportSubject>>).included = rows[c].included
        /\ rows[c].included = Prepared(c)

\* The checkpoint accounts for every start of the study: its calls, its money and
\* its rows (ledger.check_dispatch, runner.persist_attempt).
StudyIsAccounted == LedgerCoversCalls /\ StudyStaysFunded /\ RowsMatchVerdicts

=============================================================================
