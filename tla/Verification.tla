---- MODULE Verification ----
(***************************************************************************)
(* The reliability pipeline: deterministic validation of every claim, the  *)
(* semantic verifier over what passed, the report gate, one follow-up, and *)
(* the outcome.  The verifier run saves its results as it goes and is       *)
(* started again with them after a loss of the process or an error.        *)
(***************************************************************************)
EXTENDS Integers, FiniteSets, FiniteSetsExt

CONSTANTS NClaims,       \* claims are 1..NClaims, in the order of their ids
          ClaimKinds,    \* what a claim may be
          EvidenceKinds, \* what a piece of evidence may be
          MaxVerifyRuns, \* bound: starts of the verifier run
          MaxRounds      \* budget.limits.max_rounds

ASSUME VerificationAssumption ==
    /\ NClaims \in Nat \ {0} /\ MaxVerifyRuns \in Nat
    /\ ClaimKinds \subseteq [critical : BOOLEAN, counter : BOOLEAN, numbersFound : BOOLEAN,
                             edgesFound : BOOLEAN, asked : BOOLEAN]
    /\ EvidenceKinds \subseteq [exists : BOOLEAN, paper : BOOLEAN, versionTarget : BOOLEAN,
                                analyzed : BOOLEAN, intact : BOOLEAN, fulltext : BOOLEAN,
                                binding : {"same", "changed", "absent"},
                                chunk : {"same", "changed", "absent"}]

VARIABLES claim,     \* the claims: importance, counter-evidence, numbers, subquestion
          support,   \* the evidence behind each claim, as the stores hold it
          checked,   \* deterministic validation of this run: the issues of a claim
          persisted,     \* verifications on disk
          results,   \* verifications of this run
          asking,    \* the claim the verifier is being asked about, 0 if none
          stage,     \* "validate", "verify", "gate", "done", "down", "error"
          report, followUps, outcome,
          starts, requested, lost

verificationVars == <<claim, support, checked, persisted, results, asking, stage, report,
                      followUps, outcome, starts, requested, lost>>

ClaimIds == 1..NClaims
Statuses == {"supported", "partially_supported", "conflicted", "unsupported"}

\* _validate_evidence, with its early returns: the issues of one item.
Issue(code, holds) == IF holds THEN {code} ELSE {}
ChunkIssues(e) ==
    IF e.chunk = "absent" THEN {"chunk_missing"}
    ELSE Issue("quote_not_in_chunk", e.chunk = "changed")
BindingIssues(e) ==
    IF e.binding = "absent" THEN {"binding_missing"}
    ELSE Issue("index_id_mismatch", e.binding = "changed") \cup ChunkIssues(e)
EvidenceIssues(e) ==
    IF ~e.exists THEN {"evidence_missing"}
    ELSE IF ~e.paper THEN {"evidence_paper_missing"}
    ELSE Issue("version_target_missing", ~e.versionTarget)
         \cup Issue("lifecycle_incomplete", ~e.analyzed)
         \cup Issue("content_hash_mismatch", ~e.intact)
         \cup (IF e.fulltext THEN BindingIssues(e) ELSE {})

\* _validate_claim: numbers come from supporting evidence, edges from the graph.
ClaimIssues(c) ==
    Issue("claim_missing_evidence", support[c] = {})
        \cup UNION {EvidenceIssues(e) : e \in support[c]}
        \cup Issue("numeric_mismatch", ~claim[c].numbersFound)
        \cup Issue("citation_edge_missing", ~claim[c].edgesFound)
Passed(c) == checked[c] = {}

VerificationInit ==
    /\ claim \in [ClaimIds -> ClaimKinds]
    /\ support \in [ClaimIds -> {{}} \cup {{e} : e \in EvidenceKinds}]
    /\ checked = [c \in ClaimIds |-> {}]
    /\ persisted = {} /\ results = {} /\ asking = 0 /\ stage = "validate"
    /\ report = {} /\ followUps = {} /\ outcome = "none"
    /\ starts = 1 /\ requested = [c \in ClaimIds |-> 0] /\ lost = [c \in ClaimIds |-> 0]

Validate ==
    /\ stage = "validate"
    /\ checked' = [c \in ClaimIds |-> ClaimIssues(c)]
    /\ results' = {} /\ stage' = "verify"
    /\ UNCHANGED <<claim, support, persisted, asking, report, followUps, outcome, starts, requested, lost>>

Verified == {r.claim : r \in results}
NextClaim == Min(ClaimIds \ Verified)
Verdict(c, status, action, by) ==
    [claim |-> c, status |-> status, action |-> action, by |-> by, of |-> support[c]]
EarlierInMemory(c) == {r \in results : r.claim = c}
Earlier(c) == {r \in persisted : r.claim = c}
Turn(c) == stage = "verify" /\ asking = 0 /\ ClaimIds # Verified /\ c = NextClaim

\* A result of an earlier run stands if the same evidence was checked.
Reuse(c) ==
    /\ Turn(c) /\ Earlier(c) # {}
    /\ IF \E r \in Earlier(c) :
            \/ {e \in r.of : e.exists} # {e \in support[c] : e.exists}
            \/ r.status = "conflicted" /\ ~claim[c].counter
       THEN stage' = "error" /\ UNCHANGED results
       ELSE results' = results \cup Earlier(c) /\ UNCHANGED stage
    /\ UNCHANGED <<claim, support, checked, persisted, asking, report, followUps, outcome, starts,
                   requested, lost>>

\* A claim that failed validation never reaches the verifier.
RejectInvalid(c) ==
    /\ Turn(c) /\ Earlier(c) = {} /\ ~Passed(c)
    /\ results' = results \cup
         {Verdict(c, "unsupported", IF claim[c].critical THEN "follow_up" ELSE "remove",
                  "deterministic")}
    /\ persisted' = results'
    /\ UNCHANGED <<claim, support, checked, asking, stage, report, followUps, outcome, starts,
                   requested, lost>>

AskVerifier(c) ==
    /\ Turn(c) /\ Earlier(c) = {} /\ Passed(c)
    /\ asking' = c /\ requested' = [requested EXCEPT ![c] = @ + 1]
    /\ UNCHANGED <<claim, support, checked, persisted, results, stage, report, followUps, outcome,
                   starts, lost>>

\* The profile gate refuses the backend before its first call.
GateBackend(c) ==
    /\ Turn(c) /\ Earlier(c) = {} /\ Passed(c)
    /\ \A r \in results \ persisted : r.by = "deterministic"
    /\ stage' = "error"
    /\ UNCHANGED <<claim, support, checked, persisted, results, asking, report, followUps, outcome,
                   starts, requested, lost>>

\* An answer the caller never gets: the process ends, the backend raises, or a
\* conflict is claimed without counter-evidence.
Lose(c) == [d \in ClaimIds |-> IF d = c THEN lost[d] + 1 ELSE lost[d]]

Answer ==
    /\ stage = "verify" /\ asking # 0
    /\ \E status \in Statuses, action \in {"keep", "follow_up"} :
         IF status = "conflicted" /\ ~claim[asking].counter
         THEN stage' = "error" /\ lost' = Lose(asking) /\ UNCHANGED <<results, persisted>>
         ELSE /\ results' = results \cup {Verdict(asking, status, action, "model")}
              /\ persisted' = results' /\ UNCHANGED <<stage, lost>>
    /\ asking' = 0
    /\ UNCHANGED <<claim, support, checked, report, followUps, outcome, starts, requested>>

VerifierFails ==
    /\ stage = "verify" /\ asking # 0
    /\ stage' = "error" /\ asking' = 0 /\ lost' = Lose(asking)
    /\ UNCHANGED <<claim, support, checked, persisted, results, report, followUps, outcome, starts,
                   requested>>

\* VerificationReportGate.apply: everything but the unsupported, marked unless
\* supported.
Marker(status) == status \in {"partially_supported", "conflicted"}
Disposition(r) ==
    [claim |-> r.claim, status |-> r.status, included |-> r.status # "unsupported",
     marked |-> Marker(r.status)]
ReportSafe(ds) == \A d \in ds : ~d.included \/ d.status = "supported" \/ d.marked

\* FollowUpPolicy.select: none if one exists or rounds do not allow it, else
\* the critical and most disputed claim of a known subquestion.
Priority(r) ==
    <<IF claim[r.claim].critical THEN 0 ELSE 1,
      CASE r.status = "conflicted" -> 0 [] r.status = "unsupported" -> 1
        [] OTHER -> 2, r.claim>>
Before(p, q) ==
    \/ p[1] < q[1]
    \/ p[1] = q[1] /\ p[2] < q[2]
    \/ p[1] = q[1] /\ p[2] = q[2] /\ p[3] < q[3]
Eligible ==
    {r \in results : r.action = "follow_up" /\ r.status # "supported" /\ claim[r.claim].asked}
FollowUp ==
    IF followUps # {} \/ MaxRounds < 2 THEN {}
    ELSE {r.claim : r \in {f \in Eligible :
              \A o \in Eligible : o = f \/ Before(Priority(f), Priority(o))}}

Conclude ==
    /\ stage = "verify" /\ Verified = ClaimIds
    /\ report' = {Disposition(r) : r \in results}
    /\ followUps' = followUps \cup FollowUp
    /\ outcome' = IF ~ReportSafe(report') THEN "failed"
                  ELSE IF \A r \in results : r.status = "supported" THEN "succeeded"
                  ELSE "degraded"
    /\ stage' = "done"
    /\ UNCHANGED <<claim, support, checked, persisted, results, asking, starts, requested, lost>>

CrashVerifier ==
    /\ stage = "verify"
    /\ stage' = "down" /\ asking' = 0 /\ results' = {}
    /\ lost' = Lose(asking)
    /\ UNCHANGED <<claim, support, checked, persisted, report, followUps, outcome, starts, requested>>

\* Started again with what was saved; the caller refuses other inputs.
StartAgain ==
    /\ stage \in {"down", "error"} /\ starts < MaxVerifyRuns
    /\ starts' = starts + 1 /\ stage' = "validate"
    /\ UNCHANGED <<claim, support, checked, persisted, results, asking, report, followUps, outcome, requested, lost>>

VerificationNext ==
    \/ Validate \/ Answer \/ VerifierFails \/ Conclude \/ CrashVerifier \/ StartAgain
    \/ \E c \in ClaimIds :
         Reuse(c) \/ RejectInvalid(c) \/ AskVerifier(c) \/ GateBackend(c)
VerificationSpec == VerificationInit /\ [][VerificationNext]_verificationVars

(***************************************************************************)
(* What the report may rest on.                                            *)
(***************************************************************************)
Backed(e) ==
    /\ e.exists /\ e.paper /\ e.intact /\ e.analyzed
    /\ e.fulltext => e.binding = "same" /\ e.chunk = "same"

\* A claim in the report has evidence that resolves in the stores, was not
\* rejected, and shows its status when it is not fully supported, also when its
\* verdict came from an earlier run (verifier.py:113).
ReportIsBacked ==
    stage = "done" =>
        \A d \in report : d.included =>
            /\ support[d.claim] # {} /\ \A e \in support[d.claim] : Backed(e)
            /\ d.status = "supported" \/ d.marked

\* A claim the verifier answered about is never sent again, however often the
\* run is started; a second call needs a lost answer (verifier.py:113, 168).
AskedOnce == \A c \in ClaimIds : requested[c] <= 1 + lost[c]

\* Verdicts rest on evidence and are bought once, whatever was lost between two
\* runs (verifier.py:113-190).
VerdictsAreSound == ReportIsBacked /\ AskedOnce
====
