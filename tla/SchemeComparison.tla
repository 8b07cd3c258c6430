-------------------------- MODULE SchemeComparison --------------------------
(***************************************************************************)
(* The paid three-scheme comparison (run_sp04_comparison.py): a baseline   *)
(* answers every question once without verification, its rows are copied   *)
(* as the V-off half of two ablation studies (every claim verified, or     *)
(* only the selected ones), and one hard cap is split between the three.   *)
(* A killed comparison is resumed from its directory: the baseline archive *)
(* and one checkpoint per study.                                           *)
(*                                                                         *)
(* A condition of a study is one request here; AblationRunner models what  *)
(* happens inside it.  Every call costs one unit, known or reserved.       *)
(***************************************************************************)
EXTENDS Integers, Sequences, FiniteSets, FiniteSetsExt

CONSTANTS
    Qs,              \* the frozen questions
    BaselineShare, FullShare, SelectiveShare,   \* the allocated parts of the cap
    MaxComparisons   \* bound: how often the script is started

ASSUME ComparisonAssumption ==
    /\ IsFiniteSet(Qs)
    /\ {BaselineShare, FullShare, SelectiveShare} \subseteq Nat

VARIABLES
    phase,      \* "down", "baseline", "full" or "selective"
    answered,   \* the baseline rows of the running process: question |-> status
    archive,    \* baseline_archive.json: question |-> status, or all "none"
    results,    \* the checkpoints: study |-> condition |-> status of its last row
    tried,      \* conditions of the running study that failed in this start
    pending,    \* requests whose answer never came, per study
    spent,      \* history: units really paid, per scheme
    resend,     \* the --retry-unknown flag of this start
    launches    \* how often the script was started

comparisonVars == <<phase, answered, archive, results, tried, pending, spent, resend,
                    launches>>

-----------------------------------------------------------------------------
Studies == {"full", "selective"}
StudyConditions == Qs \X {"V-on", "V-off"}
NoRows == [q \in Qs |-> "none"]
Share(s) == [baseline |-> BaselineShare, full |-> FullShare, selective |-> SelectiveShare][s]
HardCap == BaselineShare + FullShare + SelectiveShare

ComparisonInit ==
    /\ phase = "down"
    /\ answered = NoRows
    /\ archive = NoRows
    /\ results = [s \in Studies |-> [c \in StudyConditions |-> "none"]]
    /\ tried = {}
    /\ pending = [s \in Studies |-> {}]
    /\ spent = [s \in Studies \cup {"baseline"} |-> 0]
    /\ resend = FALSE
    /\ launches = 0

-----------------------------------------------------------------------------
\* A first start owns a new directory; it never overwrites another one's artifacts.
StartComparison ==
    /\ phase = "down" /\ launches = 0
    /\ phase' = "baseline" /\ launches' = 1
    /\ answered' = NoRows
    /\ UNCHANGED <<archive, results, tried, pending, spent, resend>>

\* A baseline archive is reused only whole: every row of it must be an answer.
Reusable == \A q \in Qs : archive[q] = "ok"

ResumeComparison(flag) ==
    /\ phase = "down" /\ launches \in 1 .. MaxComparisons - 1
    /\ Reusable
    /\ phase' = "full" /\ launches' = launches + 1
    /\ answered' = archive
    /\ resend' = flag
    /\ UNCHANGED <<archive, results, tried, pending, spent>>

EndProcess ==
    phase' = "down" /\ answered' = NoRows /\ tried' = {} /\ resend' = FALSE

CrashComparison ==
    /\ phase # "down"
    /\ EndProcess
    /\ UNCHANGED <<archive, results, pending, spent, launches>>

-----------------------------------------------------------------------------
\* One report request per question; the counter refuses once its share is used up,
\* and every outcome becomes a row.
BaselineRow(q) ==
    /\ phase = "baseline" /\ answered[q] = "none"
    /\ \A p \in Qs : p < q => answered[p] # "none"
    /\ IF spent["baseline"] + 1 > BaselineShare
       THEN answered' = [answered EXCEPT ![q] = "failed"] /\ UNCHANGED spent
       ELSE /\ \E outcome \in {"ok", "failed"} :
                   answered' = [answered EXCEPT ![q] = outcome]
            /\ spent' = [spent EXCEPT !["baseline"] = @ + 1]
    /\ UNCHANGED <<phase, archive, results, tried, pending, resend, launches>>

WriteBaseline ==
    /\ phase = "baseline" /\ \A q \in Qs : answered[q] # "none"
    /\ archive' = answered
    /\ phase' = "full"
    /\ UNCHANGED <<answered, results, tried, pending, spent, resend, launches>>

-----------------------------------------------------------------------------
\* simple_row_as_v_off: the baseline's answers are the V-off rows of both studies.
Copied == {<<q, "V-off">> : q \in {p \in Qs : answered[p] = "ok"}}
\* merge_existing_rows: a baseline answer wins; a failed row is replaced by the
\* checkpoint's and served again.
Served(s) == Copied \cup {c \in StudyConditions : results[s][c] = "ok"}
Tried(s) == Served(s) \cup tried

\* The ledger of a study: the copied rows and every call of its own attempts.
ChargedRows(s) ==
    Cardinality(Copied) + Cardinality({c \in StudyConditions : results[s][c] = "ok"})
Charged(s) == Cardinality(Copied) + spent[s]

\* The next condition of a study in the order it is served.
Before(c, d) == c[1] < d[1] \/ (c[1] = d[1] /\ c[2] = "V-on" /\ d[2] = "V-off")
Turn(s, c) == /\ c \in StudyConditions \ Tried(s)
              /\ \A d \in StudyConditions \ Tried(s) : d = c \/ Before(c, d)

\* The last request of a condition was sent and not answered: resend only if told to.
StopAtPending(s, c) ==
    /\ phase = s /\ Turn(s, c) /\ c \in pending[s] /\ ~resend
    /\ EndProcess
    /\ UNCHANGED <<archive, results, pending, spent, launches>>

\* A row that failed is history: this start goes on, the next one serves it again.
Serve(s, c) ==
    /\ phase = s /\ Turn(s, c) /\ (c \in pending[s] => resend)
    /\ \/ /\ Charged(s) + 1 > Share(s)
          /\ results' = [results EXCEPT ![s][c] = "failed"]
          /\ tried' = tried \cup {c}
          /\ UNCHANGED <<spent, pending>>
       \/ /\ Charged(s) + 1 <= Share(s)
          /\ spent' = [spent EXCEPT ![s] = @ + 1]
          /\ \/ /\ results' = [results EXCEPT ![s][c] = "ok"]
                /\ pending' = [pending EXCEPT ![s] = @ \ {c}]
                /\ UNCHANGED tried
             \/ /\ results' = [results EXCEPT ![s][c] = "failed"]
                /\ pending' = [pending EXCEPT ![s] = @ \cup {c}]
                /\ tried' = tried \cup {c}
    /\ UNCHANGED <<phase, answered, archive, resend, launches>>

\* The call went out and the process died with it.
DieServing(s, c) ==
    /\ phase = s /\ Turn(s, c) /\ (c \in pending[s] => resend)
    /\ Charged(s) + 1 <= Share(s)
    /\ spent' = [spent EXCEPT ![s] = @ + 1]
    /\ pending' = [pending EXCEPT ![s] = @ \cup {c}]
    /\ EndProcess
    /\ UNCHANGED <<archive, results, launches>>

\* A study that tried every condition hands over; its failed rows do not stop the next.
FinishStudy(s) ==
    /\ phase = s /\ Tried(s) = StudyConditions
    /\ IF s = "selective" THEN EndProcess
       ELSE /\ phase' = "selective" /\ tried' = {}
            /\ UNCHANGED <<answered, resend>>
    /\ UNCHANGED <<archive, results, pending, spent, launches>>

ComparisonNext ==
    \/ StartComparison
    \/ \E flag \in BOOLEAN : ResumeComparison(flag)
    \/ CrashComparison
    \/ \E q \in Qs : BaselineRow(q)
    \/ WriteBaseline
    \/ \E s \in Studies, c \in StudyConditions :
           StopAtPending(s, c) \/ Serve(s, c) \/ DieServing(s, c)
    \/ \E s \in Studies : FinishStudy(s)

ComparisonSpec == ComparisonInit /\ [][ComparisonNext]_comparisonVars

-----------------------------------------------------------------------------
Paid3 == spent["baseline"] + spent["full"] + spent["selective"]

\* Whatever is killed, resumed and retried, the three schemes together never pay more
\* than the hard cap, nor a scheme more than its share (run_sp04_comparison.allocated_costs, ledger.check_dispatch).
HardCapHolds ==
    /\ Paid3 <= HardCap
    /\ \A s \in Studies \cup {"baseline"} : spent[s] <= Share(s)

=============================================================================
