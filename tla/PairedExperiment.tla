-------------------------- MODULE PairedExperiment --------------------------
(***************************************************************************)
(* The paid comparison of reports without (B3) and with (B4) ScholarGraph: *)
(* scripts/run_m6_b3_b4_full.py over scholargraph/experiment.py.  Claims   *)
(* are verified by the paid verifier, then two reports are generated per   *)
(* question.  Two progress files let a killed run go on; a counter in each *)
(* reserves money before a request is sent.                                *)
(*                                                                         *)
(* The process holds nothing that its files do not, except the answer it   *)
(* waits for and the outcome of the last graph query: every change of a    *)
(* counter or a row is written before the next await.  Jobs number the     *)
(* reports in the order they are served: 2q - 1 is B3 of q and 2q is B4.   *)
(***************************************************************************)
EXTENDS Integers, FiniteSets, FiniteSetsExt

CONSTANTS
    Pairs,             \* the frozen questions, 1 .. n
    Scope,             \* question |-> "inside", "outside" or "write" (the routing scope)
    Eligible,          \* the questions of the eligible subset
    PairClaims,        \* the claims to verify, 1 .. m, in the order they are served
    ClaimOf,           \* claim |-> its question
    InvalidClaims,     \* claims whose deterministic validation failed
    Draft,             \* the verdicts a verifier may return
    MaxAsked, MaxAskedCost, AskEstimate,
    MaxReports, MaxReportCost, ReportEstimate,
    Prices,            \* what the provider may charge for a call
    MaxRuns            \* bound: how often the script is started

\* An estimate prices the most tokens a request may use, so no call costs more.
ASSUME PairedAssumption ==
    /\ IsFiniteSet(Pairs) /\ Pairs = 1 .. Cardinality(Pairs)
    /\ Eligible \subseteq Pairs
    /\ IsFiniteSet(PairClaims) /\ PairClaims = 1 .. Cardinality(PairClaims)
    /\ {MaxAskedCost, MaxReportCost, AskEstimate, ReportEstimate} \subseteq Nat
    /\ Prices \subseteq 0 .. AskEstimate
    /\ Prices \subseteq 0 .. ReportEstimate

VARIABLES
    verifierFile,   \* verifier_progress.json
    reportFile,     \* report_progress.json
    outputs,        \* the artifacts written at the end
    at,             \* where the process is
    graph,          \* outcome of the graph query of the report being served
    price,          \* what the request on the wire will cost
    runs,           \* how often the script was started
    asked,          \* history: claim |-> requests sent
    callsSent,      \* history: job |-> requests sent
    pairSpent       \* history: money spent on the verifier and on the reports

pairedVars == <<verifierFile, reportFile, outputs, at, graph, price, runs, asked, callsSent,
                pairSpent>>

-----------------------------------------------------------------------------
Jobs == 1 .. 2 * Cardinality(Pairs)
PairOf(j) == (j + 1) \div 2
WithGraph(j) == j % 2 = 0
JobsOf(graphed) == {j \in Jobs : WithGraph(j) = graphed}

ZeroCounter == [calls |-> 0, reserved |-> 0, actual |-> 0]
Nobody == 0
NoGraph == "none"

\* ApiCallCounter.reserve and record_actual.
Greater(a, b) == IF a > b THEN a ELSE b
CanReserve(c, estimate, maxCalls, maxCost) ==
    /\ c.calls < maxCalls
    /\ Greater(c.reserved, c.actual) + estimate <= maxCost
ReserveCall(c, estimate) ==
    [calls |-> c.calls + 1, reserved |-> c.reserved + estimate, actual |-> c.actual]
RecordActual(c, cost) == [c EXCEPT !.actual = @ + cost]

\* CapabilityRouter.decide on a frozen scope: a request to write is rejected, whatever
\* else does not fit (topic, years, level, method, budget) is skipped.
Route(scope) == CASE scope = "write"   -> "reject"
                  [] scope = "outside" -> "skip"
                  [] scope = "inside"  -> "call"
RoutesAreFrozen == \A q \in Pairs : (Route(Scope[q]) = "call") <=> q \in Eligible

\* ScholarGraphTool.execute: what a query can come back with.
GraphOutcomes == {"succeeded", "degraded", "failed", "timeout", "provider_error",
                  "protocol_error"}
FallsBack(outcome) == outcome \in {"failed", "timeout", "provider_error", "protocol_error"}

-----------------------------------------------------------------------------
FirstVerifierFile == [counter |-> ZeroCounter, active |-> Nobody,
                      verdicts |-> [c \in {} |-> "none"]]
NoReportFile == [exists |-> FALSE, counter |-> ZeroCounter, active |-> Nobody,
                 manifest |-> {}, rows |-> [j \in {} |-> "none"]]

PairedInit ==
    /\ verifierFile = FirstVerifierFile
    /\ reportFile = NoReportFile
    /\ outputs = {}
    /\ at = "down" /\ graph = NoGraph /\ price = 0
    /\ runs = 0
    /\ asked = [c \in PairClaims |-> 0]
    /\ callsSent = [j \in Jobs |-> 0]
    /\ pairSpent = [verifier |-> 0, reports |-> 0]

history == <<asked, callsSent, pairSpent>>
Unverified == PairClaims \ DOMAIN verifierFile.verdicts
UnservedJobs == Jobs \ DOMAIN reportFile.rows
ThisClaim == Min(Unverified)
ThisJob == Min(UnservedJobs)

Exit == at' = "down" /\ graph' = NoGraph /\ price' = 0

(***************************************************************************)
(* The script starts: frozen inputs and routes are checked, ScholarGraph   *)
(* must be ready, and a finished private run refuses to be repeated.       *)
(***************************************************************************)
StartRun ==
    /\ at = "down"
    /\ runs < MaxRuns
    /\ RoutesAreFrozen
    /\ "private_run" \notin outputs
    /\ at' = "verify"
    /\ runs' = runs + 1
    /\ UNCHANGED <<verifierFile, reportFile, outputs, graph, price, history>>

\* The process dies, by a kill or by an error nobody catches; the files stay.
Die ==
    /\ at # "down"
    /\ Exit
    /\ UNCHANGED <<verifierFile, reportFile, outputs, runs, history>>

-----------------------------------------------------------------------------
\* A claim that failed its deterministic validation is decided without a request.
VerdictWithoutCall ==
    /\ at = "verify"
    /\ Unverified # {} /\ ThisClaim \in InvalidClaims
    /\ verifierFile' =
          [verifierFile EXCEPT
              !.active = Nobody,
              !.verdicts = [c \in DOMAIN @ \cup {ThisClaim} |->
                               IF c = ThisClaim THEN "unsupported" ELSE @[c]]]
    /\ UNCHANGED <<reportFile, outputs, at, graph, price, runs, history>>

\* The reservation and the claim are in the progress file before the request leaves.
ReserveAsk ==
    /\ at = "verify"
    /\ Unverified # {} /\ ThisClaim \notin InvalidClaims
    /\ CanReserve(verifierFile.counter, AskEstimate, MaxAsked, MaxAskedCost)
    /\ verifierFile' = [verifierFile EXCEPT
                           !.active = ThisClaim,
                           !.counter = ReserveCall(@, AskEstimate)]
    /\ at' = "ask"
    /\ UNCHANGED <<reportFile, outputs, graph, price, runs, history>>

SendAsk ==
    /\ at = "ask"
    /\ \E p \in Prices :
          /\ price' = p
          /\ pairSpent' = [pairSpent EXCEPT !.verifier = @ + p]
    /\ asked' = [asked EXCEPT ![ThisClaim] = @ + 1]
    /\ at' = "asked"
    /\ UNCHANGED <<verifierFile, reportFile, outputs, graph, runs, callsSent>>

\* A usable draft: the actual cost is recorded and the checkpoint holds the verdict.
AnswerAsk(verdict) ==
    /\ at = "asked"
    /\ verifierFile.counter.actual + price <= MaxAskedCost
    /\ verifierFile' =
          [verifierFile EXCEPT
              !.active = Nobody,
              !.counter = RecordActual(@, price),
              !.verdicts = [c \in DOMAIN @ \cup {ThisClaim} |->
                               IF c = ThisClaim THEN verdict ELSE @[c]]]
    /\ at' = "verify" /\ price' = 0
    /\ UNCHANGED <<reportFile, outputs, graph, runs, history>>

-----------------------------------------------------------------------------
\* The claims a report may rest on: the gate leaves the unsupported ones out.
Included(q) == {c \in DOMAIN verifierFile.verdicts :
                  ClaimOf[c] = q /\ verifierFile.verdicts[c] # "unsupported"}
\* The manifest hashes every question's evidence input, and with it the verdicts.
Manifest == {<<c, verifierFile.verdicts[c]>> : c \in DOMAIN verifierFile.verdicts}

(***************************************************************************)
(* All claims are verified: the inputs are prepared, every question that   *)
(* has claims keeps at least one, and the report progress is opened.  A    *)
(* file of another manifest, or one with a report whose outcome nobody     *)
(* knows, stops the run.                                                   *)
(***************************************************************************)
MayContinueAnyway == reportFile.manifest = Manifest
MayContinue == /\ reportFile.manifest = Manifest
               /\ reportFile.active = Nobody

OpenReports ==
    /\ at = "verify"
    /\ Unverified = {}
    /\ \A q \in {ClaimOf[c] : c \in PairClaims} : Included(q) # {}
    /\ \/ reportFile.exists /\ MayContinue /\ UNCHANGED reportFile
       \/ /\ ~reportFile.exists
          /\ reportFile' = [NoReportFile EXCEPT !.exists = TRUE, !.manifest = Manifest]
    /\ at' = "reports"
    /\ UNCHANGED <<verifierFile, outputs, graph, price, runs, history>>

\* The usage of a variant is what its rows say: both are written by one checkpoint.
VariantCost(graphed, rows) ==
    SumFunction([j \in DOMAIN rows \cap JobsOf(graphed) |-> rows[j].cost])
GraphCalls(rows) ==
    Cardinality({j \in DOMAIN rows : rows[j].called})

\* B4 asks ScholarGraph first; a query that fails falls back to the plain report.
QueryGraph ==
    /\ at = "reports"
    /\ UnservedJobs # {} /\ WithGraph(ThisJob)
    /\ graph = NoGraph
    /\ Route(Scope[PairOf(ThisJob)]) = "call"
    /\ graph' \in GraphOutcomes
    /\ UNCHANGED <<verifierFile, reportFile, outputs, at, price, runs, asked, callsSent, pairSpent>>

GraphIsSettled == WithGraph(ThisJob) /\ Route(Scope[PairOf(ThisJob)]) = "call"
                  => graph # NoGraph

ReserveReport ==
    /\ at = "reports"
    /\ UnservedJobs # {} /\ GraphIsSettled
    /\ CanReserve(reportFile.counter, ReportEstimate, MaxReports, MaxReportCost)
    /\ reportFile' = [reportFile EXCEPT
                         !.active = ThisJob,
                         !.counter = ReserveCall(@, ReportEstimate)]
    /\ at' = "request"
    /\ UNCHANGED <<verifierFile, outputs, graph, price, runs, history>>

SendReport ==
    /\ at = "request"
    /\ \E p \in Prices :
          /\ price' = p
          /\ pairSpent' = [pairSpent EXCEPT !.reports = @ + p]
    /\ callsSent' = [callsSent EXCEPT ![ThisJob] = @ + 1]
    /\ at' = "requested"
    /\ UNCHANGED <<verifierFile, reportFile, outputs, graph, runs, asked>>

Row == [cost   |-> price,
        called |-> graph # NoGraph,
        status |-> IF FallsBack(graph) \/ graph = "degraded" THEN "degraded" ELSE "succeeded"]

\* A valid report inside the envelope of its variant becomes a row; anything else kills the
\* run with the report still marked active.
AnswerReport ==
    /\ at = "requested"
    /\ reportFile.counter.actual + price <= MaxReportCost
    /\ LET rows == [j \in DOMAIN reportFile.rows \cup {ThisJob} |->
                       IF j = ThisJob THEN Row ELSE reportFile.rows[j]]
       IN /\ 2 * VariantCost(WithGraph(ThisJob), rows) <= MaxReportCost
          /\ reportFile' = [reportFile EXCEPT
                               !.active = Nobody,
                               !.counter = RecordActual(@, price),
                               !.rows = rows]
    /\ at' = "reports" /\ graph' = NoGraph /\ price' = 0
    /\ UNCHANGED <<verifierFile, outputs, runs, history>>

-----------------------------------------------------------------------------
\* The private archive, the blind packet and the public summary, one file after another.
WriteArchive ==
    /\ at = "reports" /\ UnservedJobs = {}
    /\ outputs' = outputs \cup {"private_run"}
    /\ at' = "archived"
    /\ UNCHANGED <<verifierFile, reportFile, graph, price, runs, history>>

WritePacket ==
    /\ at = "archived"
    /\ outputs' = outputs \cup {"blind_review"}
    /\ at' = "packed"
    /\ UNCHANGED <<verifierFile, reportFile, graph, price, runs, history>>

RunPassed ==
    /\ GraphCalls(reportFile.rows) = Cardinality(Eligible)
    /\ \A graphed \in BOOLEAN : 2 * VariantCost(graphed, reportFile.rows) <= MaxReportCost
    /\ \A j \in Jobs : reportFile.rows[j].status = "succeeded"

WriteSummary ==
    /\ at = "packed"
    /\ outputs' = outputs \cup {IF RunPassed THEN "passed" ELSE "not_passed"}
    /\ Exit
    /\ UNCHANGED <<verifierFile, reportFile, runs, history>>

-----------------------------------------------------------------------------
PairedNext ==
    \/ StartRun \/ Die
    \/ VerdictWithoutCall \/ ReserveAsk \/ SendAsk
    \/ \E verdict \in Draft : AnswerAsk(verdict)
    \/ OpenReports \/ QueryGraph \/ ReserveReport \/ SendReport \/ AnswerReport
    \/ WriteArchive \/ WritePacket \/ WriteSummary

PairedSpec == PairedInit /\ [][PairedNext]_pairedVars

-----------------------------------------------------------------------------
(***************************************************************************)
(* However often the run is killed and started again, no report of a       *)
(* question is requested from the paid provider twice.                     *)
(***************************************************************************)
ReportsPaidOnce == \A j \in Jobs : callsSent[j] <= 1

(***************************************************************************)
(* Money that really left, answers that were lost in a crash included, is  *)
(* covered by what the progress files reserve, and those reservations keep *)
(* the two approved budgets.                                               *)
(***************************************************************************)
SpendIsCovered ==
    /\ pairSpent.verifier <= verifierFile.counter.reserved
    /\ verifierFile.counter.reserved <= MaxAskedCost
    /\ pairSpent.reports <= reportFile.counter.reserved
    /\ reportFile.counter.reserved <= MaxReportCost

(***************************************************************************)
(* A run that is published as passed says what happened: each report was   *)
(* requested once, the cost of the rows is the money spent on reports, and *)
(* exactly the eligible questions have an answer of the graph.             *)
(***************************************************************************)
PassIsHonest ==
    "passed" \in outputs =>
        /\ \A j \in Jobs : callsSent[j] = 1
        /\ pairSpent.reports = VariantCost(TRUE, reportFile.rows) + VariantCost(FALSE, reportFile.rows)
        /\ {PairOf(j) : j \in {k \in Jobs : reportFile.rows[k].called}} = Eligible

(***************************************************************************)
(* The money, the requests and the published figures of a run that was     *)
(* killed and started again agree (run_m6_b3_b4_full.py).                  *)
(***************************************************************************)
RunIsAccounted == ReportsPaidOnce /\ SpendIsCovered /\ PassIsHonest
=============================================================================
