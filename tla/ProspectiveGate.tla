--------------------------- MODULE ProspectiveGate ---------------------------
(***************************************************************************)
(* The prospective ledger M9P2Store: questions are captured, a reviewer    *)
(* freezes their Gold, and only then the retrieval conditions are revealed *)
(* and scored.  Every operation is a process of its own that first reads   *)
(* and checks and then inserts; the database only serialises the inserts.  *)
(* The reads of one check are one step.  That makes no difference to one   *)
(* process at a time, nor to RevealsAreOrdered: none of the facts it rests *)
(* on is ever taken back.                                                  *)
(*                                                                         *)
(* A repeated source event or question inserts nothing and is left out.    *)
(* Papers are abstracted to what a condition says of the confirmed Gold    *)
(* paper: B5 found it ("hit"), only B7's hint did ("recovered"), neither   *)
(* did ("missed"), or B7 added a wrong hint ("noise").                     *)
(***************************************************************************)
EXTENDS Integers, Sequences, FiniteSets, FiniteSetsExt, SequencesExt

CONSTANTS
    Operators,                      \* the processes that use the ledger at a time
    InitialTarget, MaxTarget,       \* 30 and 50 eligible questions
    MinOpportunities, MinRecoveries, MinStrata,
    Strata,
    Verdicts,                       \* among "hit", "recovered", "missed", "noise"
    MaxCaptures, MaxGold            \* bounds: rows captured, Gold entries

ASSUME GateAssumption ==
    /\ {InitialTarget, MaxTarget, MinOpportunities} \subseteq Nat \ {0}
    /\ InitialTarget <= MaxTarget
    /\ {MinRecoveries, MinStrata, MaxCaptures, MaxGold} \subseteq Nat
    /\ Verdicts \subseteq {"hit", "recovered", "missed", "noise"}

VARIABLES
    captures,    \* the captured questions, in sequence
    golds,       \* the Gold reviews, in the order they were inserted
    conditions,  \* the revealed condition snapshots
    job          \* what a process has checked and is about to insert

gateVars == <<captures, golds, conditions, job>>

-----------------------------------------------------------------------------
Idle == [op |-> "none"]

\* What a validated capture can be: eligible questions carry a stratum, others none.
CaptureRows == [real : BOOLEAN, eligible : {TRUE}, stratum : Strata]
               \cup [real : BOOLEAN, eligible : {FALSE}, stratum : {"none"}]

Records == 1 .. Len(captures)
Real(r) == captures[r].real /\ captures[r].eligible
EligibleReal == {r \in Records : Real(r)}

GoldsOf(r) == {i \in 1 .. Len(golds) : golds[i].record = r}
Revision(r) == Cardinality(GoldsOf(r))
LatestGold(r) == golds[Max(GoldsOf(r))]
\* _latest_gold_count: every record with Gold, whatever its origin.
GoldCount == Cardinality({golds[i].record : i \in 1 .. Len(golds)})
Revealed == {conditions[i].record : i \in 1 .. Len(conditions)}
ConditionOf(r) == conditions[CHOOSE i \in 1 .. Len(conditions) : conditions[i].record = r]

\* verify_integrity: every entry links to the one inserted before it.
Chained(log) == \A i \in 1 .. Len(log) : log[i].previous = i - 1

-----------------------------------------------------------------------------
\* public_report: what the gate decides from the ledger as it stands.
Scored == {r \in EligibleReal \cap Revealed :
              GoldsOf(r) # {} /\ LatestGold(r).confirmed}
Showing(verdict) == {r \in Scored : ConditionOf(r).verdict \in verdict}
Opportunities == Showing(Verdicts \ {"hit"})
Recovered == Showing({"recovered"})
RecoveredStrata == {captures[r].stratum : r \in Recovered}

\* B5 returns one paper per question here, and B7 adds at most one hint.
PrecisionKept ==
    LET b5Hits == Cardinality(Showing({"hit"}))
        b7Hits == b5Hits + Cardinality(Recovered)
        b5Returned == Cardinality(Scored)
        b7Returned == b5Returned + Cardinality(Showing({"recovered", "noise"}))
    IN  10 * b7Hits * b5Returned >= (10 * b5Hits - b5Returned) * b7Returned
PerformancePass ==
    /\ Cardinality(Recovered) >= MinRecoveries
    /\ 2 * Cardinality(Recovered) >= Cardinality(Opportunities)
    /\ Cardinality(RecoveredStrata) >= MinStrata
    /\ PrecisionKept

IntegrityPass ==
    /\ Chained(golds) /\ Chained(conditions)
    /\ \A r \in Revealed : captures[r].real => ConditionOf(r).sound
BatchSize == Cardinality(EligibleReal)
BatchOpen == BatchSize < InitialTarget \/ BatchSize \in InitialTarget + 1 .. MaxTarget - 1
Decision ==
    LET revealedReal == {r \in Revealed : captures[r].real}
    IN  IF ~IntegrityPass /\ revealedReal # {} THEN "NO_GO"
        ELSE IF BatchOpen \/ \E r \in EligibleReal : GoldsOf(r) = {} THEN "COLLECTING"
        ELSE IF ~(EligibleReal \subseteq revealedReal) THEN "READY_FOR_CONDITIONS"
        ELSE IF Cardinality(Opportunities) < MinOpportunities
             THEN IF BatchSize < MaxTarget THEN "COLLECT_MORE" ELSE "INCONCLUSIVE"
        ELSE IF PerformancePass THEN "GO_EVIDENCE_GATE" ELSE "NO_GO"

-----------------------------------------------------------------------------
GateInit ==
    /\ captures = <<>> /\ golds = <<>> /\ conditions = <<>>
    /\ job = [p \in Operators |-> Idle]

\* A real question beyond the initial batch is taken only while the gate asks for more.
MayCollectUpToMax == BatchSize < MaxTarget
MayCollect ==
    BatchSize >= InitialTarget =>
        \/ BatchSize = InitialTarget /\ Decision = "COLLECT_MORE"
        \/ BatchSize \in InitialTarget + 1 .. MaxTarget - 1 /\ Decision = "COLLECTING"

CheckCapture(p, row) ==
    /\ job[p] = Idle
    /\ Len(captures) < MaxCaptures
    /\ row.real => MayCollect
    /\ job' = [job EXCEPT ![p] = [op |-> "capture", row |-> row,
                                  sequence |-> Len(captures) + 1]]
    /\ UNCHANGED <<captures, golds, conditions>>

\* The sequence number is the primary key: of two captures that read the same
\* last row, one fails.
InsertCapture(p) ==
    /\ job[p].op = "capture"
    /\ captures' = IF job[p].sequence = Len(captures) + 1
                   THEN Append(captures, job[p].row) ELSE captures
    /\ job' = [job EXCEPT ![p] = Idle]
    /\ UNCHANGED <<golds, conditions>>

\* The submission names the revision it replaces; Gold that exists is final once
\* any condition of the batch is revealed.
CheckGold(p, r, confirmed) ==
    /\ job[p] = Idle
    /\ Len(golds) < MaxGold
    /\ captures[r].eligible
    /\ ~(conditions # <<>> /\ GoldsOf(r) # {})
    /\ job' = [job EXCEPT ![p] = [op |-> "gold", revision |-> Revision(r) + 1,
                   row |-> [record |-> r, confirmed |-> confirmed,
                            previous |-> Len(golds)]]]
    /\ UNCHANGED <<captures, golds, conditions>>

\* A record has each revision once.
InsertGold(p) ==
    /\ job[p].op = "gold"
    /\ golds' = IF job[p].revision = Revision(job[p].row.record) + 1
                THEN Append(golds, job[p].row) ELSE golds
    /\ job' = [job EXCEPT ![p] = Idle]
    /\ UNCHANGED <<captures, conditions>>

\* The batch is complete, the snapshot binds the latest Gold; attached once.
CheckCondition(p, r, verdict, sound) ==
    /\ job[p] = Idle
    /\ captures[r].eligible
    /\ BatchSize >= InitialTarget /\ GoldCount = BatchSize
    /\ ~(BatchSize \in InitialTarget + 1 .. MaxTarget - 1)
    /\ GoldsOf(r) # {}
    /\ r \notin Revealed
    /\ job' = [job EXCEPT ![p] = [op |-> "condition",
                   row |-> [record |-> r, gold |-> Revision(r), verdict |-> verdict,
                            sound |-> sound, previous |-> Len(conditions)]]]
    /\ UNCHANGED <<captures, golds, conditions>>

InsertCondition(p) ==
    /\ job[p].op = "condition"
    /\ conditions' = IF job[p].row.record \notin Revealed
                     THEN Append(conditions, job[p].row) ELSE conditions
    /\ job' = [job EXCEPT ![p] = Idle]
    /\ UNCHANGED <<captures, golds>>

\* A process that is killed between its checks and its insert leaves nothing behind.
Abandon(p) ==
    /\ job[p] # Idle
    /\ job' = [job EXCEPT ![p] = Idle]
    /\ UNCHANGED <<captures, golds, conditions>>

GateNext ==
    \E p \in Operators :
        \/ \E row \in CaptureRows : CheckCapture(p, row)
        \/ InsertCapture(p)
        \/ \E r \in Records, confirmed \in BOOLEAN : CheckGold(p, r, confirmed)
        \/ InsertGold(p)
        \/ \E r \in Records, verdict \in Verdicts, sound \in BOOLEAN :
               CheckCondition(p, r, verdict, sound)
        \/ InsertCondition(p)
        \/ Abandon(p)

GateSpec == GateInit /\ [][GateNext]_gateVars

-----------------------------------------------------------------------------
\* What is scored was blind: the Gold a revealed condition is measured against is the
\* Gold its receipt was bound to.  That holds of one process at a time; a Gold that was
\* checked before another process revealed is still inserted after it (freeze_gold,
\* attach_condition).
ScoredGoldIsBound ==
    \A r \in Revealed : ConditionOf(r).gold = Revision(r)

\* No question joins a batch whose result is already known to be enough: the first
\* extension row needs a complete scored batch with too few opportunities, and the
\* eligible batch never exceeds the frozen maximum (capture).
ExtensionIsNeeded ==
    BatchSize > InitialTarget =>
        /\ BatchSize <= MaxTarget
        /\ LET first == {r \in EligibleReal :
                            Cardinality({q \in EligibleReal : q <= r}) <= InitialTarget}
           IN  /\ first \subseteq Revealed
               /\ Cardinality(first \cap Opportunities) < MinOpportunities

\* No result is seen early or twice: conditions are revealed of eligible questions only,
\* once each, after the initial batch was complete, and against a Gold that was frozen
\* before; however many processes use the ledger (attach_condition).
RevealsAreOrdered ==
    /\ conditions # <<>> => BatchSize >= InitialTarget
    /\ \A i \in 1 .. Len(conditions) :
          /\ conditions[i].record \in Records /\ captures[conditions[i].record].eligible
          /\ conditions[i].gold \in 1 .. Revision(conditions[i].record)
          /\ \A j \in 1 .. Len(conditions) : conditions[i].record = conditions[j].record => i = j

\* Together: what the gate scores was blind, and neither its batch nor the moment of
\* the reveal was chosen by the result.
GateIsFair == ScoredGoldIsBound /\ ExtensionIsNeeded /\ RevealsAreOrdered

=============================================================================
