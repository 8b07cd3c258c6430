--------------------------- MODULE ResearchProofs ---------------------------
(***************************************************************************)
(* Theorems about the parts of a research run, from the records of the     *)
(* sources to the verified report, for any value of their constants.       *)
(***************************************************************************)
EXTENDS SourceRecords, SearchIdentity, SearchHttp, EvidenceAcquisition, WorkflowGraph,
        Verification, ResearchRun, SumTheorems, SequenceTheorems, TLAPS

-----------------------------------------------------------------------------
(* Source records: any calendar, cutoffs and days.                         *)

\* A day is no later than the last one of its year.
LEMMA DayIsInItsYear == \A d \in Nat : d <= LastDay(YearOf(d))
<1> SUFFICES ASSUME NEW d \in Nat PROVE d <= LastDay(YearOf(d))
  OBVIOUS
<1>1. YearDays \in Nat /\ YearDays > 0
  BY RecordsAssumption
<1>2. /\ d = YearDays * (d \div YearDays) + (d % YearDays)
      /\ d % YearDays \in 0 .. YearDays - 1 /\ d \div YearDays \in Int
  BY <1>1
<1> DEFINE q == d \div YearDays
           x == YearDays * q
           y == q * YearDays
<1>3. x = y /\ x \in Int /\ y \in Int
  BY <1>1, <1>2
<1>4. d = x + (d % YearDays) /\ LastDay(YearOf(d)) = y + YearDays - 1
  BY <1>2 DEF LastDay, YearOf
<1> HIDE DEF x, y, q
<1> QED BY <1>1, <1>2, <1>3, <1>4

\* What a candidate says of the work it was read from.
TellsOf(c) ==
    /\ c.source = record.source /\ c.year = YearOf(work.published)
    /\ c.day \in {work.published, NoDay}
    /\ c.source = "arxiv" => c.version = work.versions /\ c.versionDate \in {work.latest, NoDay}
RecordsInv ==
    /\ work.published \in Nat /\ work.latest \in Nat /\ work.versions \in 1 .. 2
    /\ work.versions = 1 => work.latest = work.published
    /\ request.before \in Int
    /\ \A c \in candidate : TellsOf(c)
    /\ verdict \in {"parsed", "kept"} => candidate # {}
    /\ verdict = "kept" => \A c \in candidate : WithinDates(c)

LEMMA RecordsInitially == RecordsInit => RecordsInv
BY RecordsAssumption DEF RecordsInit, RecordsInv

LEMMA RecordsPreserved == RecordsInv /\ [RecordsNext]_recordsVars => RecordsInv'
<1> SUFFICES ASSUME RecordsInv, [RecordsNext]_recordsVars PROVE RecordsInv'
  OBVIOUS
<1>1. ASSUME NEW c, TellsOf(c), candidate' = {c}, verdict' = "parsed", UNCHANGED <<work, record, request>>
      PROVE  RecordsInv'
  BY <1>1 DEF RecordsInv, TellsOf
<1>2. CASE Skip /\ UNCHANGED <<work, record, request>>
  BY <1>2 DEF Skip, RecordsInv, TellsOf
<1>3. CASE ParseArxiv
  <2> DEFINE c == [source |-> record.source, year |-> YearOf(work.published),
                   day |-> CalendarDate(work.published), version |-> work.versions,
                   versionDate |-> IF record.dated THEN work.latest ELSE NoDay, arxiv |-> TRUE]
  <2>1. TellsOf(c)
    BY DEF TellsOf, CalendarDate
  <2>2. ((candidate' = {c} /\ verdict' = "parsed") \/ Skip) /\ UNCHANGED <<work, record, request>>
    BY <1>3, Zenon DEF ParseArxiv, Candidate
  <2> HIDE DEF c
  <2> QED BY <1>1, <1>2, <2>1, <2>2
<1>4. CASE ParseOpenAlex \/ ParseCrossref \/ ParseSemanticScholar
  <2> DEFINE c == [source |-> record.source, year |-> YearOf(work.published),
                   day |-> CalendarDate(work.published), version |-> 0,
                   versionDate |-> NoDay, arxiv |-> record.onArxiv]
  <2>1. record.source # "arxiv"
    BY <1>4 DEF ParseOpenAlex, ParseCrossref, ParseSemanticScholar
  <2>2. TellsOf(c)
    BY <2>1 DEF TellsOf, CalendarDate
  <2>3. ((candidate' = {c} /\ verdict' = "parsed") \/ Skip) /\ UNCHANGED <<work, record, request>>
    BY <1>4, Zenon DEF ParseOpenAlex, ParseCrossref, ParseSemanticScholar, Candidate
  <2> HIDE DEF c
  <2> QED BY <1>1, <1>2, <2>2, <2>3
<1>5. CASE Filter
  BY <1>5 DEF Filter, RecordsInv, TellsOf, WithinDates, WithinYears, Published, VersionIsDated
<1>6. CASE UNCHANGED recordsVars
  BY <1>6 DEF recordsVars, RecordsInv, TellsOf, WithinDates, WithinYears, Published, VersionIsDated
<1> QED BY <1>3, <1>4, <1>5, <1>6 DEF RecordsNext

(* Whatever the calendar and the precision of a record: what the cutoff     *)
(* lets through was published by then, an arXiv entry in the version that   *)
(* was found (providers.candidate_within_dates).                            *)
THEOREM KeptRecordsAreProvable == RecordsSpec => []KeptIsProvable
<1>1. RecordsInv => KeptIsProvable
  <2> SUFFICES ASSUME RecordsInv, verdict = "kept", request.before # NoDay
               PROVE  /\ work.published <= request.before
                      /\ record.source = "arxiv" => work.latest <= request.before
    BY DEF KeptIsProvable
  <2>1. PICK c \in candidate : TellsOf(c) /\ WithinDates(c)
    BY DEF RecordsInv
  <2>2. work.published \in Nat /\ request.before \in Int /\ work.published <= LastDay(YearOf(work.published))
        /\ LastDay(YearOf(work.published)) \in Int
    <3>1. work.published \in Nat /\ request.before \in Int
      BY DEF RecordsInv
    <3>2. \A d \in Nat : LastDay(YearOf(d)) \in Int
      BY RecordsAssumption DEF LastDay, YearOf
    <3> QED BY <3>1, <3>2, DayIsInItsYear
  <2>3. work.published <= request.before
    BY <2>1, <2>2 DEF TellsOf, WithinDates, Published, NoDay
  <2>4. record.source = "arxiv" => work.latest <= request.before
    BY <2>1, <2>3 DEF TellsOf, WithinDates, VersionIsDated, RecordsInv, NoDay
  <2> QED BY <2>3, <2>4
<1> QED BY <1>1, RecordsInitially, RecordsPreserved, PTL DEF RecordsSpec

-----------------------------------------------------------------------------
(* Verification: any number of claims, kinds of evidence and starts.       *)

VerdictIsSound(r) ==
    /\ r.claim \in ClaimIds /\ r.status \in Statuses
    /\ r.status # "unsupported" => ClaimIssues(r.claim) = {}
IsOrdered(rs) ==
    \A r \in rs : \A d \in ClaimIds : d < r.claim => \E s \in rs : s.claim = d
VerificationTypes ==
    /\ claim \in [ClaimIds -> ClaimKinds]
    /\ support \in [ClaimIds -> SUBSET EvidenceKinds]
    /\ asking \in Nat
    /\ requested \in [ClaimIds -> Nat] /\ lost \in [ClaimIds -> Nat]
VerdictsHold ==
    /\ \A r \in persisted : VerdictIsSound(r)
    /\ \A r \in results : VerdictIsSound(r)
VerdictsAreOrdered == IsOrdered(persisted) /\ IsOrdered(results)
\* What is saved was reused as far as the verifier got, and it is ahead of what is saved.
SavedIsReused == stage = "verify" => \A r \in persisted : r.claim \in Verified => r \in results
ChecksHold == stage = "verify" => \A c \in ClaimIds : checked[c] = ClaimIssues(c)
QuestionIsNew ==
    asking # 0 =>
        /\ stage = "verify" /\ asking \in ClaimIds /\ ClaimIssues(asking) = {}
        /\ Earlier(asking) = {} /\ asking = NextClaim /\ ClaimIds # Verified
\* A call is lost, under way, or its verdict is saved.
CallsAreOwned ==
    \A c \in ClaimIds :
        requested[c] <= lost[c] + (IF asking = c THEN 1 ELSE 0) + (IF Earlier(c) # {} THEN 1 ELSE 0)
ReportIsSound ==
    \A d \in report :
        /\ d.claim \in ClaimIds
        /\ d.included => ClaimIssues(d.claim) = {} /\ (d.status = "supported" \/ d.marked)
VerificationInv ==
    /\ VerificationTypes /\ VerdictsHold /\ VerdictsAreOrdered /\ SavedIsReused /\ ChecksHold
    /\ QuestionIsNew /\ CallsAreOwned /\ ReportIsSound

LEMMA VerificationInitially == VerificationInit => VerificationInv
<1> SUFFICES ASSUME VerificationInit PROVE VerificationInv
  OBVIOUS
<1>1. support \in [ClaimIds -> SUBSET EvidenceKinds]
  BY DEF VerificationInit
<1>2. VerificationTypes
  BY <1>1 DEF VerificationInit, VerificationTypes
<1>3. VerdictsHold /\ VerdictsAreOrdered /\ SavedIsReused /\ ChecksHold /\ QuestionIsNew /\ ReportIsSound
  BY DEF VerificationInit, VerdictsHold, VerdictsAreOrdered, IsOrdered, SavedIsReused, ChecksHold,
         QuestionIsNew, ReportIsSound
<1>4. CallsAreOwned
  BY DEF VerificationInit, CallsAreOwned, ClaimIds
<1> QED BY <1>2, <1>3, <1>4 DEF VerificationInv

\* A claim that passes has evidence, and all of it resolves in the stores.
LEMMA PassedIsBacked ==
    ASSUME VerificationTypes, NEW c \in ClaimIds, ClaimIssues(c) = {}
    PROVE  support[c] # {} /\ \A e \in support[c] : Backed(e)
<1>1. support[c] # {}
  BY DEF ClaimIssues, Issue
<1>2. ASSUME NEW e \in support[c] PROVE Backed(e)
  <2>1. EvidenceIssues(e) = {}
    BY DEF ClaimIssues
  <2>2. /\ e.exists \in BOOLEAN /\ e.paper \in BOOLEAN /\ e.analyzed \in BOOLEAN /\ e.intact \in BOOLEAN
        /\ e.fulltext \in BOOLEAN
        /\ e.binding \in {"same", "changed", "absent"} /\ e.chunk \in {"same", "changed", "absent"}
    <3>1. e \in EvidenceKinds
      BY DEF VerificationTypes
    <3> QED BY <3>1, VerificationAssumption
  <2>3. e.exists /\ e.paper /\ e.intact /\ e.analyzed
    BY <2>1, <2>2 DEF EvidenceIssues, Issue
  <2>4. ASSUME e.fulltext PROVE e.binding = "same" /\ e.chunk = "same"
    <3>1. BindingIssues(e) = {}
      BY <2>1, <2>3, <2>4 DEF EvidenceIssues
    <3> QED BY <3>1, <2>2 DEF BindingIssues, ChunkIssues, Issue
  <2> QED BY <2>3, <2>4 DEF Backed
<1> QED BY <1>1, <1>2

LEMMA NextIsLeast ==
    ASSUME ClaimIds # Verified, VerdictsHold
    PROVE  /\ NextClaim \in ClaimIds /\ NextClaim \notin Verified
           /\ \A d \in ClaimIds : d < NextClaim => d \in Verified
<1> DEFINE S == ClaimIds \ Verified
<1>1. S \in SUBSET Nat /\ S # {}
  BY DEF VerdictsHold, VerdictIsSound, Verified, ClaimIds
<1>2. Min(S) \in S /\ \A y \in S : Min(S) <= y
  BY <1>1, LeastNumber DEF Min
<1>3. \A d \in ClaimIds : d < Min(S) => d \in Verified
  BY <1>1, <1>2 DEF ClaimIds
<1> QED BY <1>2, <1>3 DEF NextClaim

\* Before a new verdict everything saved has been reused.
LEMMA AllSavedIsReused ==
    ASSUME VerificationInv, stage = "verify", ClaimIds # Verified, Earlier(NextClaim) = {}
    PROVE  persisted \subseteq results
<1> SUFFICES ASSUME NEW r \in persisted PROVE r \in results
  OBVIOUS
<1>1. r.claim \in ClaimIds /\ VerdictsHold
  BY DEF VerificationInv, VerdictsHold, VerdictIsSound
<1>2. NextClaim \in ClaimIds /\ \A d \in ClaimIds : d < NextClaim => d \in Verified
  BY <1>1, NextIsLeast
<1>3. r.claim # NextClaim
  BY DEF Earlier
<1>4. ~(NextClaim < r.claim)
  BY <1>2 DEF VerificationInv, VerdictsAreOrdered, IsOrdered, Earlier
<1>5. r.claim \in Verified
  BY <1>1, <1>2, <1>3, <1>4 DEF ClaimIds
<1> QED BY <1>5 DEF VerificationInv, SavedIsReused

\* A new verdict, of the next claim, is added and saved.
LEMMA VerdictIsAdded ==
    ASSUME VerificationInv, stage = "verify", ClaimIds # Verified, NEW c, c = NextClaim, Earlier(c) = {},
           asking \in {0, c}, NEW r, VerdictIsSound(r), r.claim = c,
           results' = results \cup {r}, persisted' = results', asking' = 0,
           UNCHANGED <<claim, support, checked, stage, report, requested, lost>>
    PROVE  VerificationInv'
<1>1. persisted \subseteq results
  BY AllSavedIsReused
<1>2. c \in ClaimIds /\ \A d \in ClaimIds : d < c => d \in Verified
  BY NextIsLeast DEF VerificationInv
<1>3. \A d : ClaimIssues(d)' = ClaimIssues(d)
  BY DEF ClaimIssues
<1>4. VerificationTypes'
  BY DEF VerificationInv, VerificationTypes
<1>5. VerdictsHold'
  BY <1>3 DEF VerificationInv, VerdictsHold, VerdictIsSound
<1>6. IsOrdered(results \cup {r})
  BY <1>2 DEF VerificationInv, VerdictsAreOrdered, IsOrdered, Verified
<1>7. VerdictsAreOrdered'
  <2>1. results' = results \cup {r} /\ persisted' = results \cup {r}
    OBVIOUS
  <2> QED BY <1>6, <2>1 DEF VerdictsAreOrdered, IsOrdered
<1>8. SavedIsReused' /\ ChecksHold' /\ QuestionIsNew'
  BY <1>3 DEF VerificationInv, SavedIsReused, ChecksHold, QuestionIsNew
<1>9. CallsAreOwned'
  <2> SUFFICES ASSUME NEW d \in ClaimIds
               PROVE  requested[d] <= lost[d] + (IF 0 = d THEN 1 ELSE 0)
                                        + (IF Earlier(d)' # {} THEN 1 ELSE 0)
    BY DEF CallsAreOwned
  <2>1. requested[d] \in Nat /\ lost[d] \in Nat
    BY DEF VerificationInv, VerificationTypes
  <2>2. Earlier(d) # {} => Earlier(d)' # {}
    BY <1>1 DEF Earlier
  <2>3. d = c => Earlier(d)' # {}
    BY DEF Earlier
  <2>4. asking = d => d = c
    BY DEF ClaimIds
  <2>5. requested[d] <= lost[d] + (IF asking = d THEN 1 ELSE 0) + (IF Earlier(d) # {} THEN 1 ELSE 0)
    BY DEF VerificationInv, CallsAreOwned
  <2>6. d = c => Earlier(d) = {}
    OBVIOUS
  <2> QED BY <2>1, <2>2, <2>3, <2>4, <2>5, <2>6
<1>10. ReportIsSound'
  BY <1>3 DEF VerificationInv, ReportIsSound
<1> QED BY <1>4, <1>5, <1>7, <1>8, <1>9, <1>10 DEF VerificationInv

\* The run ends, fails or is lost: a call that was under way is lost with it.
LEMMA RunStops ==
    ASSUME VerificationInv, stage' \in {"error", "down"}, asking' = 0, results' \in {results, {}},
           lost' = Lose(asking) \/ (asking = 0 /\ lost' = lost),
           UNCHANGED <<claim, support, checked, persisted, report, requested>>
    PROVE  VerificationInv'
<1>1. \A d : ClaimIssues(d)' = ClaimIssues(d)
  BY DEF ClaimIssues
<1>2. VerificationTypes'
  BY DEF VerificationInv, VerificationTypes, Lose
<1>3. VerdictsHold' /\ VerdictsAreOrdered'
  BY <1>1 DEF VerificationInv, VerdictsHold, VerdictIsSound, VerdictsAreOrdered, IsOrdered
<1>4. SavedIsReused' /\ ChecksHold' /\ QuestionIsNew' /\ ReportIsSound'
  BY <1>1 DEF VerificationInv, SavedIsReused, ChecksHold, QuestionIsNew, ReportIsSound
<1>5. CallsAreOwned'
  <2> SUFFICES ASSUME NEW c \in ClaimIds
               PROVE  requested[c] <= lost'[c] + (IF 0 = c THEN 1 ELSE 0)
                                        + (IF Earlier(c) # {} THEN 1 ELSE 0)
    BY DEF CallsAreOwned, Earlier
  <2>1. requested[c] \in Nat /\ lost[c] \in Nat
    BY DEF VerificationInv, VerificationTypes
  <2>2. requested[c] <= lost[c] + (IF asking = c THEN 1 ELSE 0) + (IF Earlier(c) # {} THEN 1 ELSE 0)
    BY DEF VerificationInv, CallsAreOwned
  <2>3. lost'[c] \in Nat /\ lost'[c] >= lost[c] + (IF asking = c THEN 1 ELSE 0)
    <3>1. asking = 0 => asking # c
      BY DEF ClaimIds
    <3>2. CASE lost' = Lose(asking)
      <4>1. lost'[c] = IF c = asking THEN lost[c] + 1 ELSE lost[c]
        BY <3>2 DEF Lose
      <4> QED BY <4>1, <2>1
    <3>3. CASE asking = 0 /\ lost' = lost
      BY <3>1, <3>3, <2>1
    <3> QED BY <3>2, <3>3
  <2> QED BY <2>1, <2>2, <2>3
<1> QED BY <1>2, <1>3, <1>4, <1>5 DEF VerificationInv

LEMMA VerificationPreserved == VerificationInv /\ [VerificationNext]_verificationVars => VerificationInv'
<1> SUFFICES ASSUME VerificationInv, [VerificationNext]_verificationVars PROVE VerificationInv'
  OBVIOUS
<1>1. ASSUME UNCHANGED <<claim, support>> PROVE \A d : ClaimIssues(d)' = ClaimIssues(d)
  BY <1>1 DEF ClaimIssues
<1>2. CASE Validate
  <2>1. UNCHANGED <<claim, support, persisted, asking, report, requested, lost>> /\ stage = "validate"
        /\ stage' = "verify" /\ results' = {} /\ checked' = [c \in ClaimIds |-> ClaimIssues(c)]
    BY <1>2 DEF Validate
  <2>2. VerificationTypes' /\ CallsAreOwned'
    BY <2>1 DEF VerificationInv, VerificationTypes, CallsAreOwned, Earlier
  <2>3. VerdictsHold' /\ VerdictsAreOrdered' /\ SavedIsReused' /\ ChecksHold' /\ QuestionIsNew' /\ ReportIsSound'
    BY <1>1, <2>1 DEF VerificationInv, VerdictsHold, VerdictIsSound, VerdictsAreOrdered, IsOrdered,
       SavedIsReused, Verified, ChecksHold, QuestionIsNew, ReportIsSound
  <2> QED BY <2>2, <2>3 DEF VerificationInv
<1>3. CASE Answer
  <2>1. PICK status \in Statuses, action \in {"keep", "follow_up"} :
          IF status = "conflicted" /\ ~claim[asking].counter
          THEN stage' = "error" /\ lost' = Lose(asking) /\ UNCHANGED <<results, persisted>>
          ELSE /\ results' = results \cup {Verdict(asking, status, action, "model")}
               /\ persisted' = results' /\ UNCHANGED <<stage, lost>>
    BY <1>3 DEF Answer
  <2>2. /\ stage = "verify" /\ asking # 0 /\ asking' = 0
        /\ UNCHANGED <<claim, support, checked, report, followUps, outcome, starts, requested>>
    BY <1>3 DEF Answer
  <2> DEFINE r == Verdict(asking, status, action, "model")
  <2>3. /\ asking \in ClaimIds /\ ClaimIssues(asking) = {} /\ Earlier(asking) = {} /\ asking = NextClaim
        /\ ClaimIds # Verified
    BY <2>2 DEF VerificationInv, QuestionIsNew
  <2>4. VerdictIsSound(r) /\ r.claim = asking
    BY <2>3 DEF VerdictIsSound, Verdict
  <2>5. CASE status = "conflicted" /\ ~claim[asking].counter
    BY <2>1, <2>2, <2>5, RunStops
  <2>6. CASE ~(status = "conflicted" /\ ~claim[asking].counter)
    <3>1. results' = results \cup {r} /\ persisted' = results' /\ UNCHANGED <<stage, lost>>
      BY <2>1, <2>6
    <3> HIDE DEF r
    <3> QED BY <2>2, <2>3, <2>4, <3>1, VerdictIsAdded
  <2> QED BY <2>5, <2>6
<1>4. CASE VerifierFails
  BY <1>4, RunStops DEF VerifierFails
<1>5. CASE CrashVerifier
  BY <1>5, RunStops DEF CrashVerifier
<1>6. CASE Conclude
  <2>1. UNCHANGED <<claim, support, checked, persisted, results, asking, requested, lost>>
        /\ stage = "verify" /\ stage' = "done" /\ report' = {Disposition(r) : r \in results}
        /\ Verified = ClaimIds
    BY <1>6 DEF Conclude
  <2>2. VerificationTypes' /\ CallsAreOwned'
    BY <2>1 DEF VerificationInv, VerificationTypes, CallsAreOwned, Earlier
  <2>3. VerdictsHold' /\ VerdictsAreOrdered' /\ SavedIsReused' /\ ChecksHold' /\ QuestionIsNew'
    BY <1>1, <2>1 DEF VerificationInv, VerdictsHold, VerdictIsSound, VerdictsAreOrdered, IsOrdered,
       SavedIsReused, ChecksHold, QuestionIsNew
  <2>4. ReportIsSound'
    <3>1. ASSUME NEW r \in results
          PROVE  /\ Disposition(r).claim \in ClaimIds
                 /\ Disposition(r).included =>
                      /\ ClaimIssues(Disposition(r).claim) = {}
                      /\ Disposition(r).status = "supported" \/ Disposition(r).marked
      BY DEF VerificationInv, VerdictsHold, VerdictIsSound, Disposition, Statuses, Marker
    <3> QED BY <1>1, <2>1, <3>1 DEF ReportIsSound
  <2> QED BY <2>2, <2>3, <2>4 DEF VerificationInv
<1>7. CASE StartAgain
  <2>1. UNCHANGED <<claim, support, checked, persisted, results, asking, report, requested, lost>>
        /\ stage \in {"down", "error"} /\ stage' = "validate"
    BY <1>7 DEF StartAgain
  <2>2. VerificationTypes' /\ CallsAreOwned'
    BY <2>1 DEF VerificationInv, VerificationTypes, CallsAreOwned, Earlier
  <2>3. VerdictsHold' /\ VerdictsAreOrdered' /\ SavedIsReused' /\ ChecksHold' /\ QuestionIsNew' /\ ReportIsSound'
    BY <1>1, <2>1 DEF VerificationInv, VerdictsHold, VerdictIsSound, VerdictsAreOrdered, IsOrdered,
       SavedIsReused, ChecksHold, QuestionIsNew, ReportIsSound
  <2> QED BY <2>2, <2>3 DEF VerificationInv
<1>8. ASSUME NEW c \in ClaimIds, Reuse(c) PROVE VerificationInv'
  <2>1. /\ stage = "verify" /\ asking = 0 /\ ClaimIds # Verified /\ c = NextClaim
        /\ UNCHANGED <<claim, support, checked, persisted, asking, report, requested, lost>>
    BY <1>8 DEF Reuse, Turn
  <2>2. CASE stage' = "error" /\ UNCHANGED results
    BY <2>1, <2>2, RunStops
  <2>3. CASE results' = results \cup Earlier(c) /\ UNCHANGED stage
    <3>1. \A d \in ClaimIds : d < c => d \in Verified
      BY <2>1, NextIsLeast DEF VerificationInv
    <3>2. VerificationTypes' /\ CallsAreOwned'
      BY <2>1 DEF VerificationInv, VerificationTypes, CallsAreOwned, Earlier
    <3>3. VerdictsHold' /\ ChecksHold' /\ QuestionIsNew' /\ ReportIsSound'
      BY <1>1, <2>1, <2>3 DEF VerificationInv, VerdictsHold, VerdictIsSound, Earlier, ChecksHold,
         QuestionIsNew, ReportIsSound
    <3>4. VerdictsAreOrdered'
      BY <2>1, <2>3, <3>1 DEF VerificationInv, VerdictsAreOrdered, IsOrdered, Earlier, Verified
    <3>5. SavedIsReused'
      BY <2>1, <2>3 DEF VerificationInv, SavedIsReused, Verified, Earlier
    <3> QED BY <3>2, <3>3, <3>4, <3>5 DEF VerificationInv
  <2> QED BY <1>8, <2>2, <2>3 DEF Reuse
<1>9. ASSUME NEW c \in ClaimIds, RejectInvalid(c) PROVE VerificationInv'
  <2> DEFINE r == Verdict(c, "unsupported", IF claim[c].critical THEN "follow_up" ELSE "remove",
                          "deterministic")
  <2>1. /\ stage = "verify" /\ asking = 0 /\ ClaimIds # Verified /\ c = NextClaim /\ Earlier(c) = {}
        /\ results' = results \cup {r} /\ persisted' = results'
        /\ UNCHANGED <<claim, support, checked, asking, stage, report, requested, lost>>
    BY <1>9 DEF RejectInvalid, Turn
  <2>2. VerdictIsSound(r) /\ r.claim = c
    BY DEF VerdictIsSound, Verdict, Statuses
  <2> HIDE DEF r
  <2> QED BY <2>1, <2>2, VerdictIsAdded
<1>10. ASSUME NEW c \in ClaimIds, AskVerifier(c) PROVE VerificationInv'
  <2>1. /\ stage = "verify" /\ asking = 0 /\ ClaimIds # Verified /\ c = NextClaim /\ Earlier(c) = {}
        /\ Passed(c) /\ asking' = c /\ requested' = [requested EXCEPT ![c] = @ + 1]
        /\ UNCHANGED <<claim, support, checked, persisted, results, stage, report, lost>>
    BY <1>10 DEF AskVerifier, Turn
  <2>2. VerificationTypes'
    BY <2>1 DEF VerificationInv, VerificationTypes, ClaimIds
  <2>3. VerdictsHold' /\ VerdictsAreOrdered' /\ SavedIsReused' /\ ChecksHold' /\ ReportIsSound'
    <3>1. VerdictsHold' /\ VerdictsAreOrdered'
      BY <1>1, <2>1 DEF VerificationInv, VerdictsHold, VerdictIsSound, VerdictsAreOrdered, IsOrdered
    <3>2. SavedIsReused' /\ ReportIsSound'
      BY <1>1, <2>1 DEF VerificationInv, SavedIsReused, Verified, ReportIsSound
    <3>3. ChecksHold'
      BY <1>1, <2>1 DEF VerificationInv, ChecksHold, Verified
    <3> QED BY <3>1, <3>2, <3>3
  <2>4. QuestionIsNew'
    BY <1>1, <2>1 DEF VerificationInv, QuestionIsNew, Earlier, NextClaim, Verified, ChecksHold, Passed
  <2>5. CallsAreOwned'
    BY <2>1 DEF VerificationInv, VerificationTypes, CallsAreOwned, Earlier, ClaimIds
  <2> QED BY <2>2, <2>3, <2>4, <2>5 DEF VerificationInv
<1>11. ASSUME NEW c \in ClaimIds, GateBackend(c) PROVE VerificationInv'
  BY <1>11, RunStops DEF GateBackend, Turn
<1>12. CASE UNCHANGED verificationVars
  <2>1. VerificationTypes' /\ CallsAreOwned'
    BY <1>12 DEF VerificationInv, VerificationTypes, CallsAreOwned, Earlier, verificationVars
  <2>2. VerdictsHold' /\ VerdictsAreOrdered' /\ SavedIsReused' /\ ChecksHold' /\ ReportIsSound'
    BY <1>1, <1>12 DEF VerificationInv, VerdictsHold, VerdictIsSound, VerdictsAreOrdered, IsOrdered,
       SavedIsReused, Verified, ChecksHold, ReportIsSound, verificationVars
  <2>3. QuestionIsNew'
    BY <1>1, <1>12 DEF VerificationInv, QuestionIsNew, Earlier, NextClaim, Verified, verificationVars
  <2> QED BY <2>1, <2>2, <2>3 DEF VerificationInv
<1> QED BY <1>2, <1>3, <1>4, <1>5, <1>6, <1>7, <1>8, <1>9, <1>10, <1>11, <1>12 DEF VerificationNext

(* Whatever is lost between the starts of the verifier: a claim that is in  *)
(* the report has evidence that resolves in the stores and shows a status   *)
(* short of supported, and no claim is sent twice without a lost answer     *)
(* (verifier.py:113-190, pipeline.py).                                      *)
THEOREM ReportsRestOnEvidence == VerificationSpec => []VerdictsAreSound
<1>1. VerificationInv => VerdictsAreSound
  <2> SUFFICES ASSUME VerificationInv PROVE VerdictsAreSound
    OBVIOUS
  <2>1. ReportIsBacked
    <3> SUFFICES ASSUME NEW d \in report, d.included
                 PROVE  /\ support[d.claim] # {} /\ \A e \in support[d.claim] : Backed(e)
                        /\ d.status = "supported" \/ d.marked
      BY DEF ReportIsBacked
    <3>1. /\ d.claim \in ClaimIds /\ ClaimIssues(d.claim) = {} /\ VerificationTypes
          /\ d.status = "supported" \/ d.marked
      BY DEF VerificationInv, ReportIsSound
    <3> QED BY <3>1, PassedIsBacked
  <2>2. AskedOnce
    <3> SUFFICES ASSUME NEW c \in ClaimIds PROVE requested[c] <= 1 + lost[c]
      BY DEF AskedOnce
    <3>1. requested[c] \in Nat /\ lost[c] \in Nat
      BY DEF VerificationInv, VerificationTypes
    <3>2. requested[c] <= lost[c] + (IF asking = c THEN 1 ELSE 0) + (IF Earlier(c) # {} THEN 1 ELSE 0)
      BY DEF VerificationInv, CallsAreOwned
    <3>3. asking = c => Earlier(c) = {}
      BY DEF VerificationInv, QuestionIsNew, ClaimIds
    <3> QED BY <3>1, <3>2, <3>3
  <2> QED BY <2>1, <2>2 DEF VerdictsAreSound
<1> QED BY <1>1, VerificationInitially, VerificationPreserved, PTL DEF VerificationSpec

-----------------------------------------------------------------------------
(* Evidence: any number of collections, papers, revisions and starts.      *)

Contents == {"none", "junk"} \cup Revisions
Texts == [Subjects -> Contents]
Ingesting == {"check", "upload", "confirm", "detail", "bind"}
RunFields == {"at", "starts", "temp", "sums", "hash", "listed", "created", "next", "sent", "read", "tries",
              "got", "bound", "analysed", "sound"}
RunIsTyped(r) ==
    /\ r = [f \in RunFields |-> r[f]]
    /\ r.temp \in Texts /\ r.sums \in Texts /\ r.hash \in Texts /\ r.got \in Texts /\ r.bound \in Texts
    /\ r.next \in Nat \ {0} /\ r.analysed \subseteq Subjects
AcquisitionTypes ==
    /\ arxiv \in Texts /\ files \in Texts /\ documind \in Texts
    /\ bindings \in [{RepositoryOf[c] : c \in Collections} -> Texts]
    /\ run = [c \in Collections |-> run[c]]
    /\ \A c \in Collections : RunIsTyped(run[c])

\* What a collection r has done with the PDFs it hashed, where b are its bindings.
RunHolds(c, r, b) ==
    /\ r.at = "acquire" => r.next = 1 /\ \A p \in Subjects : r.hash[p] = "none"
    /\ r.at \in Ingesting =>
         r.next \in Subjects /\ \A p \in Subjects : p < r.next => b[p] = r.hash[p]
    /\ r.at \in Ingesting \cup {"acquire"} => \A p \in Subjects : r.got[p] = "none"
    /\ r.at \in {"detail", "bind"} => r.sent = r.hash[r.next]
    /\ r.at = "retrieve" => \A p \in Subjects : b[p] = r.hash[p]
    /\ \A p \in Subjects : r.got[p] # "none" => r.got[p] = r.hash[p] /\ r.bound[p] = r.hash[p]
    /\ r.at = "analyse" => \A p \in Subjects : r.got[p] # "none"
    /\ \A p \in r.analysed : r.got[p] # "none"
    /\ c \in HashChecked => \A p \in Subjects : r.hash[p] # "none" => r.hash[p] = r.sums[p]
AcquisitionInv == AcquisitionTypes /\ \A c \in Collections : RunHolds(c, run[c], Bound(c))

LEMMA IdleIsTyped ==
    ASSUME NoRevision \in Texts
    PROVE  RunIsTyped(IdleRun)
<1>1. IdleRun = [f \in RunFields |-> IdleRun[f]]
  BY Zenon DEF IdleRun, RunFields
<1>2. IdleRun.next = 1 /\ IdleRun.analysed = {} /\ IdleRun.temp = NoRevision
      /\ IdleRun.sums = NoRevision /\ IdleRun.hash = NoRevision /\ IdleRun.got = NoRevision /\ IdleRun.bound = NoRevision
  BY DEF IdleRun
<1> QED BY <1>1, <1>2 DEF RunIsTyped

LEMMA AcquisitionInitially == AcquisitionInit => AcquisitionInv
<1> SUFFICES ASSUME AcquisitionInit PROVE AcquisitionInv
  OBVIOUS
<1>1. NoRevision \in Texts
  BY DEF NoRevision, Texts, Contents
<1>2. RunIsTyped(IdleRun)
  BY <1>1, IdleIsTyped
<1>3. AcquisitionTypes
  BY <1>1, <1>2 DEF AcquisitionInit, AcquisitionTypes, Texts, Contents
<1>4. \A c, b : RunHolds(c, IdleRun, b)
  BY DEF RunHolds, IdleRun, Ingesting, NoRevision
<1> QED BY <1>3, <1>4 DEF AcquisitionInv, AcquisitionInit

\* A step of one collection: what the others rest on is not touched.
LEMMA OneCollectionMoves ==
    ASSUME AcquisitionInv, NEW c \in Collections, NEW r, RunIsTyped(r), NEW b \in Texts, RunHolds(c, r, b),
           run' = [run EXCEPT ![c] = r], bindings' = [bindings EXCEPT ![RepositoryOf[c]] = b],
           arxiv' = arxiv, files' \in Texts, documind' \in Texts
    PROVE  AcquisitionInv'
<1>1. AcquisitionTypes'
  BY DEF AcquisitionInv, AcquisitionTypes
<1>2. ASSUME NEW d \in Collections PROVE RunHolds(d, run'[d], Bound(d)')
  <2>1. CASE d = c
    BY <2>1 DEF AcquisitionInv, AcquisitionTypes, Bound
  <2>2. CASE d # c
    <3>1. RepositoryOf[d] # RepositoryOf[c]
      BY <2>2, AcquisitionAssumption
    <3>2. run'[d] = run[d] /\ Bound(d)' = Bound(d)
      BY <2>2, <3>1 DEF AcquisitionInv, AcquisitionTypes, Bound
    <3> QED BY <3>2 DEF AcquisitionInv
  <2> QED BY <2>1, <2>2
<1> QED BY <1>1, <1>2 DEF AcquisitionInv

LEMMA BindingsStay ==
    ASSUME AcquisitionInv, NEW c \in Collections, NEW r, RunIsTyped(r), RunHolds(c, r, Bound(c)),
           run' = [run EXCEPT ![c] = r], UNCHANGED <<arxiv, bindings>>,
           files' \in Texts, documind' \in Texts
    PROVE  AcquisitionInv'
<1> DEFINE b == Bound(c)
<1>1. b \in Texts /\ bindings' = [bindings EXCEPT ![RepositoryOf[c]] = b]
  BY DEF AcquisitionInv, AcquisitionTypes, Bound
<1> HIDE DEF b
<1> QED BY <1>1, OneCollectionMoves DEF b

\* The stage a collection enters that asks nothing new of what it holds.
LEMMA StageEntered ==
    ASSUME AcquisitionInv, NEW c \in Collections, NEW s, Enter(c, s),
           s \in Ingesting => run[c].at \in Ingesting /\ s \notin {"detail", "bind"},
           s \notin {"acquire", "retrieve"}, s = "analyse" => \A p \in Subjects : run[c].got[p] # "none",
           UNCHANGED <<arxiv, bindings, files, documind>>
    PROVE  AcquisitionInv'
<1> DEFINE r == [run[c] EXCEPT !.at = s]
<1>1. RunIsTyped(run[c]) /\ RunHolds(c, run[c], Bound(c))
  BY DEF AcquisitionInv, AcquisitionTypes
<1>2. RunIsTyped(r)
  BY <1>1 DEF RunIsTyped, RunFields
<1>3. r.at = s /\ r.next = run[c].next /\ r.sums = run[c].sums /\ r.hash = run[c].hash /\ r.got = run[c].got
      /\ r.bound = run[c].bound /\ r.analysed = run[c].analysed
  BY <1>1 DEF RunIsTyped, RunFields
<1>4. run' = [run EXCEPT ![c] = r]
  BY <1>1 DEF Enter, AcquisitionInv, AcquisitionTypes, RunIsTyped, RunFields
<1>5. files' \in Texts /\ documind' \in Texts
  BY DEF AcquisitionInv, AcquisitionTypes
<1> HIDE DEF r
<1>6. RunHolds(c, r, Bound(c))
  BY <1>1, <1>3 DEF RunHolds, Ingesting
<1> QED BY <1>2, <1>4, <1>5, <1>6, BindingsStay

\* Acquiring the PDFs, up to the listing of the documents.
LEMMA PdfsAreAcquired ==
    ASSUME AcquisitionInv, NEW c \in Collections,
           \/ StartCollection(c) \/ ListDocuments(c)
           \/ \E p \in Subjects : RecordSum(c, p) \/ Download(c, p) \/ ReplaceFile(c, p)
    PROVE  AcquisitionInv'
<1>1. /\ run = [d \in Collections |-> run[d]] /\ RunIsTyped(run[c]) /\ RunHolds(c, run[c], Bound(c))
      /\ arxiv \in Texts /\ files \in Texts /\ documind \in Texts
  BY DEF AcquisitionInv, AcquisitionTypes
<1>2. CASE StartCollection(c)
  <2> DEFINE r == [IdleRun EXCEPT !.at = "acquire", !.starts = run[c].starts + 1]
  <2>1. NoRevision \in Texts
    BY DEF NoRevision, Texts, Contents
  <2>2. RunIsTyped(r)
    BY <2>1, IdleIsTyped DEF RunIsTyped, RunFields
  <2>3. RunHolds(c, r, Bound(c))
    BY DEF RunHolds, IdleRun, Ingesting, NoRevision
  <2>4. run' = [run EXCEPT ![c] = r] /\ UNCHANGED <<arxiv, bindings, files, documind>>
    BY <1>2 DEF StartCollection
  <2> HIDE DEF r
  <2> QED BY <1>1, <2>2, <2>3, <2>4, BindingsStay
<1>3. CASE ListDocuments(c)
  <2> DEFINE r == [run[c] EXCEPT !.at = "check", !.listed = Present]
  <2>1. run' = [run EXCEPT ![c] = r] /\ UNCHANGED <<arxiv, bindings, files, documind>>
        /\ run[c].at = "acquire" /\ run[c].next = 1
    <3>1. run' = [run EXCEPT ![c] = r] /\ UNCHANGED <<arxiv, bindings, files, documind>>
      BY <1>1, <1>3 DEF ListDocuments, RunIsTyped, RunFields
    <3> QED BY <1>1, <1>3, <3>1 DEF ListDocuments, InStage, RunHolds
  <2>2. RunIsTyped(r)
    BY <1>1 DEF RunIsTyped, RunFields
  <2>3. 1 \in Subjects /\ \A p \in Subjects : ~(p < 1)
    BY AcquisitionAssumption DEF Subjects
  <2>4. RunHolds(c, r, Bound(c))
    BY <1>1, <2>1, <2>3 DEF RunHolds, RunIsTyped, RunFields
  <2> HIDE DEF r
  <2> QED BY <1>1, <2>1, <2>2, <2>4, BindingsStay
<1>4. ASSUME NEW p \in Subjects, RecordSum(c, p) PROVE AcquisitionInv'
  <2> DEFINE r == [run[c] EXCEPT !.sums = [run[c].sums EXCEPT ![p] = files[p]]]
  <2>1. /\ run' = [run EXCEPT ![c] = r] /\ UNCHANGED <<arxiv, bindings, files, documind>>
        /\ run[c].at = "acquire" /\ run[c].sums[p] = "none"
    BY <1>1, <1>4 DEF RecordSum, RunIsTyped, RunFields, InStage
  <2>2. RunIsTyped(r)
    BY <1>1 DEF RunIsTyped, RunFields, Texts
  <2>3. /\ r.at = "acquire" /\ r.next = run[c].next /\ r.got = run[c].got /\ r.bound = run[c].bound
        /\ r.analysed = run[c].analysed /\ r.hash = run[c].hash
    BY <1>1, <2>1 DEF RunIsTyped, RunFields, Texts
  <2> HIDE DEF r
  <2>4. RunHolds(c, r, Bound(c))
    BY <1>1, <2>1, <2>3 DEF RunHolds, Ingesting
  <2> QED BY <1>1, <2>1, <2>2, <2>4, BindingsStay
<1>5. ASSUME NEW p \in Subjects, Download(c, p) \/ ReplaceFile(c, p) PROVE AcquisitionInv'
  <2> DEFINE r == [run[c] EXCEPT !.temp = run'[c].temp]
  <2>1. run' = [run EXCEPT ![c] = r] /\ UNCHANGED <<arxiv, bindings, documind>>
    BY <1>1, <1>5 DEF Download, ReplaceFile, RunIsTyped, RunFields
  <2>2. files' \in Texts /\ run'[c].temp \in Texts
    BY <1>1, <1>5 DEF Download, ReplaceFile, RunIsTyped, RunFields, Texts, Contents
  <2>3. RunIsTyped(r)
    BY <1>1, <2>2 DEF RunIsTyped, RunFields
  <2>4. RunHolds(c, r, Bound(c))
    BY <1>1 DEF RunHolds, RunIsTyped, RunFields
  <2> HIDE DEF r
  <2> QED BY <1>1, <2>1, <2>2, <2>3, <2>4, BindingsStay
<1> QED BY <1>2, <1>3, <1>4, <1>5

\* Ingesting a paper: checked, uploaded, confirmed, bound.
LEMMA PapersAreIngested ==
    ASSUME AcquisitionInv, NEW c \in Collections,
           CheckSource(c) \/ Upload(c) \/ ConfirmUpload(c) \/ CheckActive(c) \/ PutBinding(c)
    PROVE  AcquisitionInv'
<1>1. /\ run = [d \in Collections |-> run[d]] /\ RunIsTyped(run[c]) /\ RunHolds(c, run[c], Bound(c))
      /\ arxiv \in Texts /\ files \in Texts /\ documind \in Texts
  BY DEF AcquisitionInv, AcquisitionTypes
<1>2. CASE CheckSource(c)
  <2> DEFINE p == Current(c)
             h == [run[c].hash EXCEPT ![p] = files[p]]
             r == [run[c] EXCEPT !.at = "upload", !.hash = h]
  <2>1. run' = [run EXCEPT ![c] = r] /\ UNCHANGED <<arxiv, bindings, files, documind>>
        /\ run[c].at = "check" /\ p = run[c].next /\ (c \in HashChecked => files[p] = run[c].sums[p])
    BY <1>1, <1>2 DEF CheckSource, RunIsTyped, RunFields, InStage, Current
  <2>2. /\ p \in Subjects /\ p \in Nat /\ run[c].hash \in Texts
        /\ \A q \in Subjects : q < p => Bound(c)[q] = run[c].hash[q]
    BY <1>1, <2>1 DEF RunHolds, Ingesting, RunIsTyped, RunFields
  <2>3. h \in Texts /\ h[p] = files[p] /\ \A q \in Subjects : q # p => h[q] = run[c].hash[q]
    BY <1>1, <2>2 DEF Texts
  <2> HIDE DEF p, h
  <2>4. RunIsTyped(r)
    BY <1>1, <2>3 DEF RunIsTyped, RunFields
  <2>5. /\ r.at = "upload" /\ r.next = p /\ r.sums = run[c].sums /\ r.hash = h
        /\ r.got = run[c].got /\ r.bound = run[c].bound /\ r.analysed = run[c].analysed
    BY <1>1, <2>1 DEF RunIsTyped, RunFields
  <2>6. \A q \in Subjects : q < p => q # p
    BY <2>2 DEF Subjects
  <2> HIDE DEF r
  <2>7. RunHolds(c, r, Bound(c))
    BY <1>1, <2>1, <2>2, <2>3, <2>5, <2>6 DEF RunHolds, Ingesting
  <2> QED BY <1>1, <2>1, <2>4, <2>7, BindingsStay
<1>3. CASE Upload(c)
  <2> DEFINE r == [run[c] EXCEPT !.at = "confirm", !.sent = files[Current(c)]]
  <2>1. run' = [run EXCEPT ![c] = r] /\ UNCHANGED <<arxiv, bindings, files>> /\ run[c].at = "upload"
    BY <1>1, <1>3 DEF Upload, RunIsTyped, RunFields, InStage
  <2>2. Current(c) \in Subjects
    BY <1>1, <2>1 DEF RunHolds, Ingesting, Current
  <2>3. documind' \in Texts
    BY <1>1, <1>3, <2>2 DEF Upload, Texts
  <2>4. RunIsTyped(r)
    BY <1>1 DEF RunIsTyped, RunFields
  <2>5. RunHolds(c, r, Bound(c))
    BY <1>1, <2>1 DEF RunHolds, RunIsTyped, RunFields, Ingesting
  <2> HIDE DEF r
  <2> QED BY <1>1, <2>1, <2>3, <2>4, <2>5, BindingsStay
<1>4. CASE ConfirmUpload(c)
  <2> DEFINE r == [run[c] EXCEPT !.at = "detail", !.created = run'[c].created, !.listed = run'[c].listed]
  <2>1. run' = [run EXCEPT ![c] = r] /\ UNCHANGED <<arxiv, bindings, files, documind>>
    BY <1>1, <1>4 DEF ConfirmUpload, RunIsTyped, RunFields
  <2>2. run[c].at = "confirm" /\ run[c].sent = run[c].hash[run[c].next]
    BY <1>4 DEF ConfirmUpload, InStage, UploadConfirmed, Current
  <2>3. RunIsTyped(r)
    BY <1>1 DEF RunIsTyped, RunFields
  <2>4. RunHolds(c, r, Bound(c))
    BY <1>1, <2>2 DEF RunHolds, RunIsTyped, RunFields, Ingesting
  <2> HIDE DEF r
  <2> QED BY <1>1, <2>1, <2>3, <2>4, BindingsStay
<1>5. CASE CheckActive(c)
  <2> DEFINE r == [run[c] EXCEPT !.at = "bind", !.read = Bound(c)[Current(c)]]
  <2>1. run' = [run EXCEPT ![c] = r] /\ UNCHANGED <<arxiv, bindings, files, documind>>
        /\ run[c].at = "detail"
    BY <1>1, <1>5 DEF CheckActive, RunIsTyped, RunFields, InStage
  <2>2. RunIsTyped(r)
    BY <1>1 DEF RunIsTyped, RunFields
  <2>3. RunHolds(c, r, Bound(c))
    BY <1>1, <2>1 DEF RunHolds, RunIsTyped, RunFields, Ingesting
  <2> HIDE DEF r
  <2> QED BY <1>1, <2>1, <2>2, <2>3, BindingsStay
<1>6. CASE PutBinding(c)
  <2> DEFINE p == Current(c)
             s == IF p < NPapers THEN "check" ELSE "retrieve"
             r == [run[c] EXCEPT !.at = s, !.next = p + 1]
             b == [Bound(c) EXCEPT ![p] = run[c].sent]
  <2>1. /\ run' = [run EXCEPT ![c] = r] /\ UNCHANGED <<arxiv, files, documind>>
        /\ run[c].at = "bind" /\ p = run[c].next
    BY <1>1, <1>6 DEF PutBinding, RunIsTyped, RunFields, InStage, Current
  <2>2. /\ p \in Subjects /\ run[c].sent = run[c].hash[p] /\ run[c].hash \in Texts /\ NPapers \in Nat
        /\ \A q \in Subjects : q < p => Bound(c)[q] = run[c].hash[q]
    BY <1>1, <2>1, AcquisitionAssumption DEF RunHolds, Ingesting, RunIsTyped, RunFields
  <2>3. Bound(c) \in Texts /\ bindings' = [bindings EXCEPT ![RepositoryOf[c]] = b]
    BY <1>6 DEF PutBinding, AcquisitionInv, AcquisitionTypes, Bound
  <2>4. /\ b \in Texts /\ b[p] = run[c].hash[p]
        /\ \A q \in Subjects : q <= p => b[q] = run[c].hash[q]
    BY <2>2, <2>3 DEF Texts, Subjects
  <2>5. RunIsTyped(r)
    <3>1. p + 1 \in Nat \ {0}
      BY <2>2 DEF Subjects
    <3> HIDE DEF p, s
    <3> QED BY <1>1, <3>1 DEF RunIsTyped, RunFields
  <2>6. /\ r.at = s /\ r.next = p + 1 /\ r.sums = run[c].sums /\ r.hash = run[c].hash
        /\ r.got = run[c].got /\ r.bound = run[c].bound /\ r.analysed = run[c].analysed
    BY <1>1 DEF RunIsTyped, RunFields
  <2> HIDE DEF p, s, r, b
  <2>7. RunHolds(c, r, b)
    <3>1. p < NPapers => p + 1 \in Subjects
      BY <2>2 DEF Subjects
    <3>2. \A q \in Subjects : q < p + 1 => b[q] = run[c].hash[q]
      BY <2>2, <2>4 DEF Subjects
    <3>3. ~(p < NPapers) => \A q \in Subjects : q < p + 1
      BY <2>2 DEF Subjects
    <3>4. /\ \A q \in Subjects : run[c].got[q] = "none"
          /\ \A q \in run[c].analysed : run[c].got[q] # "none"
          /\ c \in HashChecked =>
               \A q \in Subjects : run[c].hash[q] # "none" => run[c].hash[q] = run[c].sums[q]
      BY <1>1, <2>1 DEF RunHolds, Ingesting
    <3>5. (s = "check" /\ p < NPapers) \/ (s = "retrieve" /\ ~(p < NPapers))
      BY DEF s
    <3> QED BY <2>6, <3>1, <3>2, <3>3, <3>4, <3>5 DEF RunHolds, Ingesting
  <2> QED BY <1>1, <2>1, <2>3, <2>4, <2>5, <2>7, OneCollectionMoves
<1> QED BY <1>2, <1>3, <1>4, <1>5, <1>6

\* Retrieval, in the scope of the binding, and the analysis of what came back.
LEMMA PapersAreAnalysed ==
    ASSUME AcquisitionInv, NEW c \in Collections, NEW p \in Subjects,
           Retrieve(c, p) \/ RetrieveAgain(c, p) \/ AnalysePaper(c, p) \/ DraftRejected(c, p)
    PROVE  AcquisitionInv'
<1>1. /\ run = [d \in Collections |-> run[d]] /\ RunIsTyped(run[c]) /\ RunHolds(c, run[c], Bound(c))
      /\ arxiv \in Texts /\ files \in Texts /\ documind \in Texts /\ Bound(c) \in Texts
  BY DEF AcquisitionInv, AcquisitionTypes, Bound
<1>2. CASE Retrieve(c, p)
  <2> DEFINE g == [run[c].got EXCEPT ![p] = documind[p]]
             b == [run[c].bound EXCEPT ![p] = Bound(c)[p]]
             r == [run[c] EXCEPT !.got = g, !.bound = b, !.tries = run'[c].tries]
  <2>1. /\ run' = [run EXCEPT ![c] = r] /\ UNCHANGED <<arxiv, bindings, files, documind>>
    BY <1>1, <1>2 DEF Retrieve, RunIsTyped, RunFields
  <2>2. run[c].at = "retrieve" /\ documind[p] = Bound(c)[p]
    BY <1>2 DEF Retrieve, InStage, InScope
  <2>3. Bound(c)[p] = run[c].hash[p]
    BY <1>1, <2>2 DEF RunHolds
  <2>4. g \in Texts /\ b \in Texts
    BY <1>1 DEF RunIsTyped, Texts
  <2>5. /\ g[p] = run[c].hash[p] /\ b[p] = run[c].hash[p]
        /\ \A q \in Subjects : q # p => g[q] = run[c].got[q] /\ b[q] = run[c].bound[q]
    BY <1>1, <2>2, <2>3 DEF RunIsTyped, Texts
  <2>6. g[p] # "none"
    BY <1>1, <1>2 DEF Retrieve, InScope, RunIsTyped, Texts
  <2> HIDE DEF g, b
  <2>7. RunIsTyped(r)
    BY <1>1, <2>4 DEF RunIsTyped, RunFields
  <2>8. /\ r.at = "retrieve" /\ r.sums = run[c].sums /\ r.hash = run[c].hash /\ r.got = g /\ r.bound = b
        /\ r.analysed = run[c].analysed /\ r.analysed \subseteq Subjects
    BY <1>1, <2>2 DEF RunIsTyped, RunFields
  <2> HIDE DEF r
  <2>9. RunHolds(c, r, Bound(c))
    BY <1>1, <2>2, <2>5, <2>6, <2>8 DEF RunHolds, Ingesting
  <2> QED BY <1>1, <2>1, <2>7, <2>9, BindingsStay
<1>3. CASE RetrieveAgain(c, p) \/ DraftRejected(c, p)
  <2> DEFINE r == [run[c] EXCEPT !.tries = run'[c].tries]
  <2>1. run' = [run EXCEPT ![c] = r] /\ UNCHANGED <<arxiv, bindings, files, documind>>
    BY <1>1, <1>3 DEF RetrieveAgain, DraftRejected, RunIsTyped, RunFields
  <2>2. RunIsTyped(r)
    BY <1>1 DEF RunIsTyped, RunFields
  <2>3. RunHolds(c, r, Bound(c))
    BY <1>1 DEF RunHolds, RunIsTyped, RunFields
  <2> HIDE DEF r
  <2> QED BY <1>1, <2>1, <2>2, <2>3, BindingsStay
<1>4. CASE AnalysePaper(c, p)
  <2> DEFINE r == [run[c] EXCEPT !.analysed = @ \union {p}]
  <2>1. /\ run' = [run EXCEPT ![c] = r] /\ UNCHANGED <<arxiv, bindings, files, documind>>
        /\ run[c].at = "analyse"
    BY <1>1, <1>4 DEF AnalysePaper, RunIsTyped, RunFields, InStage
  <2>2. RunIsTyped(r)
    BY <1>1 DEF RunIsTyped, RunFields
  <2>3. RunHolds(c, r, Bound(c))
    BY <1>1, <2>1 DEF RunHolds, RunIsTyped, RunFields, Ingesting
  <2> HIDE DEF r
  <2> QED BY <1>1, <2>1, <2>2, <2>3, BindingsStay
<1> QED BY <1>2, <1>3, <1>4

\* The end of a collection, however it comes, and the deletion of what it created.
LEMMA CollectionEnds ==
    ASSUME AcquisitionInv, NEW c \in Collections,
           \/ Persist(c) \/ FinishCollection(c) \/ FalterCollection(c) \/ Barrier(c)
           \/ DeleteDocument(c) \/ DeletionFails(c) \/ EndCollection(c) \/ LoseCollection(c)
    PROVE  AcquisitionInv'
<1>1. /\ run = [d \in Collections |-> run[d]] /\ RunIsTyped(run[c]) /\ RunHolds(c, run[c], Bound(c))
      /\ arxiv \in Texts /\ files \in Texts /\ documind \in Texts
  BY DEF AcquisitionInv, AcquisitionTypes
<1>2. CASE Persist(c)
  BY <1>2 DEF Persist, AcquisitionInv, AcquisitionTypes, Bound
<1>3. CASE FinishCollection(c) \/ LoseCollection(c)
  BY <1>3, StageEntered DEF FinishCollection, LoseCollection, Ingesting
<1>4. CASE EndCollection(c)
  <2> DEFINE s == IF run[c].sound THEN "done" ELSE "failed"
  <2>1. Enter(c, s) /\ s \in {"done", "failed"} /\ UNCHANGED <<arxiv, bindings, files, documind>>
    BY <1>4 DEF EndCollection
  <2> HIDE DEF s
  <2> QED BY <2>1, StageEntered DEF Ingesting
<1>5. CASE Barrier(c)
  BY <1>5, StageEntered DEF Barrier, Ingesting
<1>6. CASE FalterCollection(c) \/ DeleteDocument(c) \/ DeletionFails(c)
  <2> DEFINE r == [run[c] EXCEPT !.at = run'[c].at, !.created = run'[c].created, !.sound = run'[c].sound]
  <2>1. run' = [run EXCEPT ![c] = r] /\ UNCHANGED <<arxiv, bindings, files>>
    <3>1. CASE FalterCollection(c)
      BY <1>1, <3>1 DEF FalterCollection, RunIsTyped, RunFields
    <3>2. CASE DeleteDocument(c)
      BY <1>1, <3>2 DEF DeleteDocument, RunIsTyped, RunFields
    <3>3. CASE DeletionFails(c)
      BY <1>1, <3>3 DEF DeletionFails, RunIsTyped, RunFields
    <3> QED BY <1>6, <3>1, <3>2, <3>3
  <2>2. documind' \in Texts
    BY <1>1, <1>6 DEF FalterCollection, DeleteDocument, DeletionFails, Texts, Contents
  <2>3. run'[c].at \in {"failed", "cleanup"}
    BY <1>1, <1>6 DEF FalterCollection, DeleteDocument, DeletionFails, InStage, RunIsTyped, RunFields
  <2>4. RunIsTyped(r)
    BY <1>1 DEF RunIsTyped, RunFields
  <2>5. RunHolds(c, r, Bound(c))
    BY <1>1, <2>3 DEF RunHolds, RunIsTyped, RunFields, Ingesting
  <2> HIDE DEF r
  <2> QED BY <1>1, <2>1, <2>2, <2>4, <2>5, BindingsStay
<1> QED BY <1>2, <1>3, <1>4, <1>5, <1>6

LEMMA AcquisitionPreserved == AcquisitionInv /\ [AcquisitionNext]_acquisitionVars => AcquisitionInv'
<1> SUFFICES ASSUME AcquisitionInv, [AcquisitionNext]_acquisitionVars PROVE AcquisitionInv'
  OBVIOUS
<1>1. CASE Revise
  <2>1. arxiv' \in Texts
    BY <1>1 DEF Revise, AcquisitionInv, AcquisitionTypes, Texts, Contents
  <2> QED BY <1>1, <2>1 DEF Revise, AcquisitionInv, AcquisitionTypes, Bound
<1>2. CASE UNCHANGED acquisitionVars
  BY <1>2 DEF acquisitionVars, AcquisitionInv, AcquisitionTypes, Bound
<1> QED BY <1>1, <1>2, PdfsAreAcquired, PapersAreIngested, PapersAreAnalysed, CollectionEnds
        DEF AcquisitionNext

(* Any number of collections at once, each lost and started again at any    *)
(* point, over the PDFs, documents and indexes they share: what a paper is  *)
(* analysed from is the PDF its collection hashed and uploaded, and the one *)
(* it acquired where it hands over that hash (live.py:343-400).             *)
THEOREM EvidenceKeepsItsSource == AcquisitionSpec => []EvidenceIsOfItsSource
<1>1. AcquisitionInv => EvidenceIsOfItsSource
  BY DEF AcquisitionInv, AcquisitionTypes, RunIsTyped, RunHolds, EvidenceIsOfItsSource
<1> QED BY <1>1, AcquisitionInitially, AcquisitionPreserved, PTL DEF AcquisitionSpec

-----------------------------------------------------------------------------
(* The research run: any answers, papers, scopes, sessions and times.      *)

\* Sequences that are put together: what is in them.
LEMMA ConcatHas ==
    ASSUME NEW X, NEW s \in Seq(X), NEW t \in Seq(X)
    PROVE  s \o t \in Seq(X) /\ ToSet(s \o t) = ToSet(s) \cup ToSet(t)
<1>1. /\ s \o t \in Seq(X) /\ Len(s) \in Nat /\ Len(t) \in Nat
      /\ Len(s \o t) = Len(s) + Len(t)
      /\ \A i \in 1 .. Len(s) + Len(t) : (s \o t)[i] = IF i <= Len(s) THEN s[i] ELSE t[i - Len(s)]
      /\ DOMAIN s = 1 .. Len(s) /\ DOMAIN t = 1 .. Len(t) /\ DOMAIN (s \o t) = 1 .. Len(s \o t)
  BY ConcatProperties, LenProperties
<1> DEFINE u == s \o t
<1>2. \A i \in DOMAIN u : u[i] \in ToSet(s) \cup ToSet(t)
  BY <1>1 DEF ToSet
<1>3. \A i \in DOMAIN s : s[i] \in ToSet(u)
  BY <1>1 DEF ToSet
<1>4. \A i \in DOMAIN t : t[i] \in ToSet(u)
  <2> SUFFICES ASSUME NEW i \in DOMAIN t PROVE t[i] \in ToSet(u)
    OBVIOUS
  <2>1. Len(s) + i \in DOMAIN u /\ u[Len(s) + i] = t[i]
    BY <1>1
  <2> QED BY <2>1 DEF ToSet
<1> QED BY <1>1, <1>2, <1>3, <1>4 DEF ToSet

LEMMA FlattenUnfolds ==
    ASSUME NEW s, Len(s) \in Nat \ {0}
    PROVE  \E f : /\ f = [i \in 1 .. Len(s) |-> IF i = 1 THEN s[i] ELSE f[i - 1] \o s[i]]
                  /\ FlattenSeq(s) = f[Len(s)]
<1> DEFINE Unfolded(g, n) == [i \in 1 .. n |-> IF i = 1 THEN s[i] ELSE g[i - 1] \o s[i]]
           P == {n \in Nat : \E g : g = Unfolded(g, n)}
<1>1. 0 \in P
  <2> DEFINE g == [i \in 1 .. 0 |-> 0]
  <2>1. g = Unfolded(g, 0)
    OBVIOUS
  <2> HIDE DEF Unfolded, g
  <2> QED BY <2>1
<1>2. ASSUME NEW n \in P PROVE n + 1 \in P
  <2>1. PICK g : g = Unfolded(g, n)
    OBVIOUS
  <2> DEFINE h == [i \in 1 .. n + 1 |-> IF i <= n THEN g[i]
                                        ELSE IF i = 1 THEN s[i] ELSE g[i - 1] \o s[i]]
  <2>2. \A i \in 1 .. n + 1 : h[i] = IF i = 1 THEN s[i] ELSE h[i - 1] \o s[i]
    <3> SUFFICES ASSUME NEW i \in 1 .. n + 1
                 PROVE  h[i] = IF i = 1 THEN s[i] ELSE h[i - 1] \o s[i]
      OBVIOUS
    <3>1. i # 1 => i - 1 \in 1 .. n /\ h[i - 1] = g[i - 1]
      OBVIOUS
    <3>2. CASE i <= n
      <4>1. h[i] = g[i] /\ i \in 1 .. n
        BY <3>2
      <4>2. g[i] = IF i = 1 THEN s[i] ELSE g[i - 1] \o s[i]
        BY <2>1, <4>1
      <4> QED BY <3>1, <4>1, <4>2
    <3>3. CASE ~(i <= n)
      BY <3>1, <3>3
    <3> QED BY <3>2, <3>3
  <2>3. h = Unfolded(h, n + 1)
    <3> HIDE DEF h
    <3>1. h = [i \in 1 .. n + 1 |-> h[i]]
      BY DEF h
    <3> QED BY <2>2, <3>1
  <2> HIDE DEF Unfolded, h
  <2> QED BY <2>3
<1>3. Len(s) \in P
  <2> HIDE DEF P
  <2>1. P \in SUBSET Nat
    BY DEF P
  <2> QED BY <1>1, <1>2, <2>1, SetInduction
<1> DEFINE f == CHOOSE g : g = Unfolded(g, Len(s))
<1>4. f = Unfolded(f, Len(s))
  <2> HIDE DEF Unfolded
  <2> QED BY <1>3
<1>5. FlattenSeq(s) = f[Len(s)]
  BY DEF FlattenSeq
<1> HIDE DEF f
<1> QED BY <1>4, <1>5

LEMMA FlattenHas ==
    ASSUME NEW X, NEW s \in Seq(Seq(X))
    PROVE  /\ FlattenSeq(s) \in Seq(X)
           /\ ToSet(FlattenSeq(s)) = UNION {ToSet(s[i]) : i \in DOMAIN s}
<1>1. Len(s) \in Nat /\ DOMAIN s = 1 .. Len(s) /\ \A i \in DOMAIN s : s[i] \in Seq(X)
  BY LenProperties
<1>2. CASE Len(s) = 0
  <2>1. s = <<>> /\ FlattenSeq(s) = s
    BY <1>2, EmptySeq DEF FlattenSeq
  <2>2. DOMAIN s = {}
    BY <1>1, <1>2
  <2> QED BY <2>1, <2>2, EmptySeq DEF ToSet
<1>3. CASE Len(s) # 0
  <2>1. PICK f : /\ f = [i \in 1 .. Len(s) |-> IF i = 1 THEN s[i] ELSE f[i - 1] \o s[i]]
                 /\ FlattenSeq(s) = f[Len(s)]
    BY <1>1, <1>3, FlattenUnfolds
  <2> DEFINE Gives(n) == f[n] \in Seq(X) /\ ToSet(f[n]) = UNION {ToSet(s[i]) : i \in 1 .. n}
             P == {n \in Nat : n \in 1 .. Len(s) => Gives(n)}
  <2>2. 0 \in P
    OBVIOUS
  <2>3. ASSUME NEW n \in P PROVE n + 1 \in P
    <3> SUFFICES ASSUME n + 1 \in 1 .. Len(s) PROVE Gives(n + 1)
      BY <1>1
    <3>1. CASE n = 0
      <4>1. f[1] = s[1]
        BY <1>1, <2>1, <3>1
      <4>2. s[1] \in Seq(X)
        BY <1>1, <3>1
      <4> QED BY <3>1, <4>1, <4>2
    <3>2. CASE n # 0
      <4> DEFINE m == n + 1
      <4>a. m \in 1 .. Len(s) /\ m # 1 /\ m - 1 = n /\ n \in 1 .. Len(s)
        BY <1>1, <3>2
      <4>b. f[m] = f[m - 1] \o s[m]
        <5> HIDE DEF m
        <5> QED BY <2>1, <4>a
      <4>1. f[n + 1] = f[n] \o s[n + 1] /\ n \in 1 .. Len(s) /\ s[n + 1] \in Seq(X)
        BY <1>1, <4>a, <4>b
      <4>2. f[n] \in Seq(X) /\ ToSet(f[n]) = UNION {ToSet(s[i]) : i \in 1 .. n}
        BY <4>1
      <4>3. f[n + 1] \in Seq(X) /\ ToSet(f[n + 1]) = ToSet(f[n]) \cup ToSet(s[n + 1])
        BY <4>1, <4>2, ConcatHas
      <4>4. 1 .. n + 1 = 1 .. n \cup {n + 1}
        BY <1>1
      <4> HIDE DEF P
      <4> QED BY <4>2, <4>3, <4>4
    <3> QED BY <3>1, <3>2
  <2>4. Gives(Len(s))
    <3> HIDE DEF Gives
    <3>1. P \in SUBSET Nat
      OBVIOUS
    <3> HIDE DEF P
    <3>2. Len(s) \in P
      BY <1>1, <2>2, <2>3, <3>1, SetInduction
    <3> QED BY <1>1, <1>3, <3>2 DEF P
  <2> QED BY <1>1, <2>1, <2>4
<1> QED BY <1>2, <1>3

\* The papers of a set in rank order: there is one of every rank.
LEMMA RankIsTaken ==
    ASSUME NEW S \in SUBSET Nat, IsFiniteSet(S), NEW n \in Nat, n < Cardinality(S)
    PROVE  \E p \in S : Lower(p, S) = n
<1> DEFINE P == {k \in Nat : k < Cardinality(S) => \E p \in S : Lower(p, S) = k}
<1>1. Cardinality(S) \in Nat
  BY FS_CardinalityType
<1>2. 0 \in P
  <2> SUFFICES ASSUME 0 < Cardinality(S) PROVE \E p \in S : Lower(p, S) = 0
    OBVIOUS
  <2>1. S # {}
    BY FS_EmptySet
  <2>2. PICK p \in S : \A q \in S : p <= q
    BY <2>1, LeastNumber
  <2>3. {q \in S : q < p} = {}
    <3>1. \A q \in S : q \in Nat /\ p \in Nat /\ p <= q
      BY <2>2
    <3>2. \A q \in S : ~(q < p)
      BY <3>1
    <3> QED BY <3>2
  <2> QED BY <2>3, FS_EmptySet DEF Lower
<1>3. ASSUME NEW k \in P PROVE k + 1 \in P
  <2> SUFFICES ASSUME k + 1 < Cardinality(S) PROVE \E p \in S : Lower(p, S) = k + 1
    OBVIOUS
  <2>1. PICK p \in S : Lower(p, S) = k
    BY <1>1
  <2> DEFINE A == {q \in S : q < p}
             B == A \cup {p}
             T == S \ B
  <2>2. IsFiniteSet(A) /\ p \notin A
    BY FS_Subset
  <2>3. IsFiniteSet(B) /\ Cardinality(B) = k + 1
    BY <2>1, <2>2, FS_AddElement DEF Lower
  <2>4. T # {}
    <3>1. S # B
      BY <1>1, <2>3
    <3> QED BY <3>1
  <2>5. PICK r \in T : \A q \in T : r <= q
    BY <2>4, LeastNumber
  <2>6. {q \in S : q < r} = B
    <3>1. \A q \in S : q \in Nat
      OBVIOUS
    <3>2. r \in S /\ r # p /\ ~(r < p)
      BY <2>5
    <3>3. p < r
      BY <2>1, <3>1, <3>2
    <3>4. \A q \in S : q < r <=> q < p \/ q = p
      <4> SUFFICES ASSUME NEW q \in S PROVE q < r <=> q < p \/ q = p
        OBVIOUS
      <4>1. q \in T \/ q < p \/ q = p
        OBVIOUS
      <4>2. q \in T => r <= q
        BY <2>5
      <4>3. q \in Nat /\ p \in Nat /\ r \in Nat
        BY <2>1, <3>1, <3>2
      <4> HIDE DEF T
      <4> QED BY <3>3, <4>1, <4>2, <4>3
    <3> QED BY <3>4
  <2> QED BY <2>3, <2>5, <2>6 DEF Lower
<1>4. n \in P
  <2>1. P \in SUBSET Nat
    OBVIOUS
  <2> HIDE DEF P
  <2> QED BY <1>2, <1>3, <2>1, SetInduction
<1> QED BY <1>4

LEMMA SortedHas ==
    ASSUME NEW S \in SUBSET Nat, IsFiniteSet(S)
    PROVE  Sorted(S) \in Seq(S)
<1>1. Cardinality(S) \in Nat
  BY FS_CardinalityType
<1>2. \A i \in 1 .. Cardinality(S) : (CHOOSE p \in S : Lower(p, S) = i - 1) \in S
  <2> SUFFICES ASSUME NEW i \in 1 .. Cardinality(S)
               PROVE  (CHOOSE p \in S : Lower(p, S) = i - 1) \in S
    OBVIOUS
  <2>1. i - 1 \in Nat /\ i - 1 < Cardinality(S)
    BY <1>1
  <2>2. \E p \in S : Lower(p, S) = i - 1
    BY <2>1, RankIsTaken
  <2> QED BY <2>2
<1>3. Sorted(S) \in [1 .. Cardinality(S) -> S]
  BY <1>2 DEF Sorted
<1> QED BY <1>1, <1>3

\* The steps of the program and their place in it.
Act(kind, x) == [kind |-> kind, on |-> x]
Tales == {"search", "retrieval", "citations", "evidence", "verification", "synthesis"}
ServiceTales == {"plan_approved", "task_interrupted", "task_resume_requested",
                 "task_cancel_requested", "workflow_finished"}
Names == {"search", "analysis", "citations", "verification", "result"}
Program ==
    {Act("stage", k) : k \in Keys} \cup {Act("save", n) : n \in Names}
      \cup {Act("event", e) : e \in Tales}
      \cup {Act("mark", x) : x \in Found \X {"acquired", "ingested", "analyzed"}}
      \cup {Act(k, None) : k \in {"select", "merge", "report", "check", "usable"}}
StagePlace == [start |-> 1, search |-> 2, citations |-> 3, acquire |-> 7, ingest |-> 7,
               retrieve |-> 8, analyze |-> 10, verify |-> 17, synthesis |-> 21]
SavePlace == [search |-> 5, analysis |-> 11, citations |-> 13, verification |-> 18, result |-> 24]
EventPlace == [search |-> 6, retrieval |-> 9, citations |-> 14, evidence |-> 15,
               verification |-> 19, synthesis |-> 23]
MarkPlace == [acquired |-> 7, ingested |-> 7, analyzed |-> 12]
OtherPlace == [select |-> 4, merge |-> 16, report |-> 20, usable |-> 22, check |-> 0]
Place(t) ==
    IF t.kind = "stage" THEN StagePlace[t.on[1]]
    ELSE IF t.kind = "save" THEN SavePlace[t.on]
    ELSE IF t.kind = "event" THEN EventPlace[t.on]
    ELSE IF t.kind = "mark" THEN MarkPlace[t.on[2]]
    ELSE OtherPlace[t.kind]
\* A piece of the program, in order, from place a to place b; a check has no place.
Within(s, a, b) ==
    /\ \A i \in DOMAIN s : s[i].kind # "check" => a <= Place(s[i]) /\ Place(s[i]) <= b
    /\ \A i, j \in DOMAIN s :
         i < j /\ s[i].kind # "check" /\ s[j].kind # "check" => Place(s[i]) <= Place(s[j])

Completed(k) == journal[k].state = "completed"
Told(e) == e \in ToSet(timeline)
Ahead(kind, x) == Act(kind, x) \in ToSet(todo)

JournalTypes ==
    /\ journal = [k \in Keys |-> [state |-> journal[k].state, tries |-> journal[k].tries,
                                  value |-> journal[k].value]]
    /\ requests = [k \in Keys |-> [state |-> requests[k].state, answer |-> requests[k].answer]]
    /\ sent \in [Keys -> Nat] /\ now \in Nat /\ todo \in Seq(Program)
\* A stage that is running is in doubt in the journal, and so is its request.
StageIsInDoubt ==
    /\ runState \in {"staging", "calling"} =>
         /\ todo # <<>> /\ Step.kind = "stage" /\ Step.on \in Keys
         /\ journal[Step.on].state = "pending"
    /\ runState = "calling" => requests[Step.on].state = "pending"
AnswersHold ==
    \A k \in Keys :
        /\ requests[k].state = "completed" => requests[k].answer \in AnswersTo(k)
        /\ Completed(k) /\ k # Plain("start") =>
             requests[k].state = "completed" /\ Value(k).answer = requests[k].answer
        /\ requests[k].state = "absent" => sent[k] = 0
        /\ sent[k] <= 1
StartHolds ==
    /\ Completed(Plain("start")) => firstStart \in Nat /\ Value(Plain("start")).at = firstStart
    /\ ~Completed(Plain("start")) => firstStart = None
    /\ deadline = 0 \/ (Completed(Plain("start")) /\ deadline = DeadlineOf(firstStart))
TimelineHolds ==
    /\ timeline \in Seq(Tales \cup ServiceTales) /\ InOrder(timeline)
    /\ \A m, n \in DOMAIN Story : m < n /\ Told(Story[n]) => Told(Story[m])

SearchDone ==
    Completed(Plain("search")) /\ (ExpansionAnswers # {} => Completed(Plain("citations")))
PapersHold ==
    /\ SearchDone /\ papers = Selection /\ Len(papers) >= MinPapers
    /\ lifecycle = [p \in ToSet(papers) |-> [stage |-> lifecycle[p].stage, at |-> Stamp]]
BodyKeys(chosen) ==
    {Plain("verify")} \cup {Key(s, p) : s \in {"acquire", "ingest"}, p \in ToSet(chosen)}
      \cup {Key("analyze", q) : q \in 1 .. Scopes}
\* The opening, the body and the closing of the program: what is done of it, or still ahead.
Opens ==
    /\ Ahead("select", None) /\ Within(todo, 1, 4)
    /\ Completed(Plain("search")) \/ Ahead("stage", Plain("search"))
    /\ ExpansionAnswers # {} =>
         Completed(Plain("citations")) \/ Ahead("stage", Plain("citations"))
Collects ==
    /\ Ahead("report", None) /\ Within(todo, 5, 20) /\ PapersHold
    /\ \A p \in ToSet(papers) : lifecycle[p].stage = "analyzed" \/ Ahead("mark", <<p, "analyzed">>)
    /\ \A k \in BodyKeys(papers) : Completed(k) \/ Ahead("stage", k)
    /\ \A e \in Tales \ {"synthesis"} : Told(e) \/ Ahead("event", e)
Closes ==
    /\ Ahead("save", "result") /\ Within(todo, 21, 24) /\ PapersHold
    /\ \A p \in ToSet(papers) : lifecycle[p].stage = "analyzed"
    /\ \A k \in BodyKeys(papers) : Completed(k)
    /\ \A e \in Tales \ {"synthesis"} : Told(e)
    /\ Told("synthesis") \/ Ahead("event", "synthesis")
    /\ Reliability.answer.included =>
         /\ Completed(Plain("synthesis")) \/ Ahead("stage", Plain("synthesis"))
         /\ Ahead("usable", None)
              \/ (Completed(Plain("synthesis")) /\ Value(Plain("synthesis")).answer = "usable")
ProgramHolds == Live => Opens \/ Collects \/ Closes

\* The result of the completed stages, with the timeline there was when it was derived.
ResultOf(t) ==
    [papers |-> Selection,
     lifecycle |-> [p \in ToSet(Selection) |-> [stage |-> "analyzed", at |-> Stamp]],
     outcome |-> FinalOutcome, timeline |-> t]
Ended == runState \in {"returning", "publishing", "finished"}
ResultHolds ==
    /\ "result" \in DOMAIN saved =>
         /\ ResultIsEarned /\ SearchDone /\ \A k \in BodyKeys(Selection) : Completed(k)
         /\ FinalOutcome = "succeeded" => Completed(Plain("synthesis"))
         /\ saved["result"] = ResultOf(saved["result"].timeline)
         /\ saved["result"].timeline \in Seq(Tales \cup ServiceTales)
         /\ IsPrefix(saved["result"].timeline, timeline)
    /\ "published" \in DOMAIN saved => "result" \in DOMAIN saved /\ ~Live
    /\ Ended => "result" \in DOMAIN saved
RefusedHolds ==
    /\ refused # {} => runState = "failed" /\ "published" \notin DOMAIN saved
    /\ \A r \in refused :
         /\ r.name = "result"
         /\ r.content = [saved["result"] EXCEPT !.timeline = r.content.timeline]
         /\ IsStrictPrefix(saved["result"].timeline, r.content.timeline)
SavedHolds ==
    /\ RefusedHolds
    /\ "search" \in DOMAIN saved => SearchDone /\ saved["search"] = Snapshot
    /\ "analysis" \in DOMAIN saved =>
         /\ \A q \in 1 .. Scopes : Completed(Key("analyze", q))
         /\ saved["analysis"] = [q \in 1 .. Scopes |-> Value(Key("analyze", q))]
    /\ "citations" \in DOMAIN saved =>
         /\ SearchDone
         /\ saved["citations"] =
              [nodes |-> [p \in ToSet(Selection) |-> [stage |-> "analyzed", at |-> Stamp]],
               at |-> Stamp]
    /\ "verification" \in DOMAIN saved =>
         Completed(Plain("verify")) /\ saved["verification"] = Reliability
    /\ ResultHolds
ResearchInv ==
    /\ JournalTypes /\ StageIsInDoubt /\ AnswersHold /\ StartHolds /\ TimelineHolds
    /\ ProgramHolds /\ SavedHolds

LEMMA SomeAnswers ==
    /\ AnswersTo(Plain("search")) = SearchAnswers
    /\ AnswersTo(Plain("citations")) = ExpansionAnswers
    /\ AnswersTo(Plain("verify")) = {[included |-> TRUE, outcome |-> "succeeded"],
                                     [included |-> FALSE, outcome |-> "degraded"]}
    /\ AnswersTo(Plain("synthesis")) = {"usable", "failed"}
BY DEF AnswersTo, Plain, Key

LEMMA AcceptedHas ==
    ASSUME NEW S \in SUBSET Found
    PROVE  Sorted(Accepted(S)) \in Seq(Found)
<1>1. Accepted(S) \in SUBSET Nat /\ Accepted(S) \subseteq Found /\ IsFiniteSet(Accepted(S))
  BY ResearchAssumption, FS_Subset DEF Accepted, Found
<1> QED BY <1>1, SortedHas, SeqMonotonic

LEMMA SelectionHas ==
    ASSUME SearchDone, AnswersHold
    PROVE  Selection \in Seq(Found)
<1>1. Plain("search") \in Keys /\ Plain("citations") \in Keys
      /\ Plain("search") # Plain("start") /\ Plain("citations") # Plain("start")
  BY DEF Plain, Key, Keys
<1>2. Snapshot.answer.found \in SUBSET Found
  <2>1. Snapshot.answer \in SearchAnswers
    BY <1>1, SomeAnswers DEF SearchDone, AnswersHold, Snapshot
  <2> QED BY <2>1, ResearchAssumption DEF Found
<1>3. Ranked \in Seq(Found)
  BY <1>2, AcceptedHas DEF Ranked
<1>4. Discovered \in Seq(Found)
  <2>1. CASE ExpansionAnswers = {}
    BY <2>1 DEF Discovered
  <2>2. CASE ExpansionAnswers # {}
    <3>1. Expansion.answer \in ExpansionAnswers
      BY <1>1, <2>2, SomeAnswers DEF SearchDone, AnswersHold, Expansion
    <3> DEFINE all == Expansion.answer.found
               few == {p \in all : Lower(p, all) < MaxDiscovered}
               T == few \ Snapshot.answer.found
    <3>2. T \in SUBSET Found
      BY <3>1, ResearchAssumption DEF Found
    <3>3. Discovered = Sorted(Accepted(T))
      BY <2>2 DEF Discovered
    <3> HIDE DEF T
    <3> QED BY <3>2, <3>3, AcceptedHas
  <2> QED BY <2>1, <2>2
<1>5. Accessible \in Seq(Found)
  BY <1>3, <1>4, ConcatProperties DEF Accessible
<1> DEFINE n == IF Len(Accessible) < MaxPapers THEN Len(Accessible) ELSE MaxPapers
<1>6. n \in Nat /\ n <= Len(Accessible) /\ \A i \in 1 .. n : Accessible[i] \in Found
  BY <1>5, ElementOfSeq, LenProperties, ResearchAssumption
<1>7. Selection = SubSeq(Accessible, 1, n)
  BY DEF Selection
<1> HIDE DEF n
<1> QED BY <1>6, <1>7, SubSeqProperties

\* Pieces of the program: in order when put together in order.
LEMMA PiecesJoin ==
    ASSUME NEW s \in Seq(Program), NEW t \in Seq(Program), NEW a \in Nat, NEW b \in Nat, NEW c \in Nat,
           NEW d \in Nat, Within(s, a, b), Within(t, c, d), a <= b, b <= c, c <= d,
           \A x \in Program : Place(x) \in Nat
    PROVE  s \o t \in Seq(Program) /\ Within(s \o t, a, d)
<1> DEFINE u == s \o t
<1>1. /\ u \in Seq(Program) /\ Len(s) \in Nat /\ Len(t) \in Nat
      /\ Len(u) = Len(s) + Len(t)
      /\ \A i \in 1 .. Len(s) + Len(t) : u[i] = IF i <= Len(s) THEN s[i] ELSE t[i - Len(s)]
      /\ DOMAIN s = 1 .. Len(s) /\ DOMAIN t = 1 .. Len(t) /\ DOMAIN u = 1 .. Len(s) + Len(t)
  BY ConcatProperties, LenProperties
<1>2. /\ \A i \in DOMAIN s : s[i] \in Program
      /\ \A i \in DOMAIN t : t[i] \in Program
  BY <1>1, ElementOfSeq
<1> HIDE DEF u
<1>3. ASSUME NEW i \in DOMAIN u
      PROVE  \/ i \in DOMAIN s /\ u[i] = s[i]
             \/ i - Len(s) \in DOMAIN t /\ u[i] = t[i - Len(s)] /\ i > Len(s)
  <2>1. i \in 1 .. Len(s) + Len(t) /\ u[i] = IF i <= Len(s) THEN s[i] ELSE t[i - Len(s)]
    BY <1>1
  <2>2. CASE i <= Len(s)
    BY <1>1, <2>1, <2>2
  <2>3. CASE ~(i <= Len(s))
    <3>1. i - Len(s) \in 1 .. Len(t) /\ i > Len(s)
      BY <1>1, <2>1, <2>3
    <3> QED BY <1>1, <2>1, <2>3, <3>1
  <2> QED BY <2>2, <2>3
<1>4. ASSUME NEW i \in DOMAIN u, u[i].kind # "check" PROVE a <= Place(u[i]) /\ Place(u[i]) <= d
  <2>1. CASE i \in DOMAIN s /\ u[i] = s[i]
    <3>1. a <= Place(s[i]) /\ Place(s[i]) <= b /\ Place(s[i]) \in Nat
      BY <1>2, <1>4, <2>1 DEF Within
    <3> QED BY <2>1, <3>1
  <2>2. CASE i - Len(s) \in DOMAIN t /\ u[i] = t[i - Len(s)]
    <3> DEFINE j == i - Len(s)
    <3>1. c <= Place(t[j]) /\ Place(t[j]) <= d /\ Place(t[j]) \in Nat
      BY <1>2, <1>4, <2>2 DEF Within
    <3> QED BY <2>2, <3>1
  <2> QED BY <1>3, <2>1, <2>2
<1>5. ASSUME NEW i \in DOMAIN u, NEW j \in DOMAIN u, i < j, u[i].kind # "check", u[j].kind # "check"
      PROVE  Place(u[i]) <= Place(u[j])
  <2>1. CASE j \in DOMAIN s /\ u[j] = s[j]
    <3>1. i \in DOMAIN s /\ u[i] = s[i]
      BY <1>1, <1>5, <2>1
    <3> QED BY <1>5, <2>1, <3>1 DEF Within
  <2>2. CASE i \in DOMAIN s /\ u[i] = s[i] /\ j - Len(s) \in DOMAIN t /\ u[j] = t[j - Len(s)]
    <3>1. Place(s[i]) <= b /\ Place(s[i]) \in Nat
      BY <1>2, <1>5, <2>2 DEF Within
    <3>2. c <= Place(t[j - Len(s)]) /\ Place(t[j - Len(s)]) \in Nat
      BY <1>2, <1>5, <2>2 DEF Within
    <3> QED BY <2>2, <3>1, <3>2
  <2>3. CASE /\ i - Len(s) \in DOMAIN t /\ u[i] = t[i - Len(s)]
             /\ j - Len(s) \in DOMAIN t /\ u[j] = t[j - Len(s)]
    <3>1. i - Len(s) < j - Len(s)
      BY <1>1, <1>5
    <3> QED BY <1>5, <2>3, <3>1 DEF Within
  <2>4. i > Len(s) => ~(j \in DOMAIN s)
    BY <1>1, <1>5
  <2> QED BY <1>3, <2>1, <2>2, <2>3, <2>4
<1>6. Within(u, a, d)
  BY <1>4, <1>5 DEF Within
<1> QED BY <1>1, <1>6 DEF u

LEMMA PieceOfOne ==
    ASSUME NEW x \in Program, NEW a \in Nat, Place(x) = a \/ x.kind = "check"
    PROVE  <<x>> \in Seq(Program) /\ ToSet(<<x>>) = {x} /\ Within(<<x>>, a, a)
<1>1. <<x>> \in Seq(Program) /\ Len(<<x>>) = 1 /\ <<x>>[1] = x /\ DOMAIN <<x>> = {1}
  OBVIOUS
<1> QED BY <1>1 DEF Within, ToSet

\* A piece all of which has one place.
LEMMA PieceOfPlace ==
    ASSUME NEW s \in Seq(Program), NEW a \in Nat, \A t \in ToSet(s) : Place(t) = a
    PROVE  Within(s, a, a)
BY DEF Within, ToSet

\* Every step has its place.
LEMMA Places ==
    /\ \A k \in Keys : Act("stage", k) \in Program /\ Place(Act("stage", k)) = StagePlace[k[1]]
    /\ \A n \in Names : Act("save", n) \in Program /\ Place(Act("save", n)) = SavePlace[n]
    /\ \A e \in Tales : Act("event", e) \in Program /\ Place(Act("event", e)) = EventPlace[e]
    /\ \A p \in Found : \A s \in {"acquired", "ingested", "analyzed"} :
         Act("mark", <<p, s>>) \in Program /\ Place(Act("mark", <<p, s>>)) = MarkPlace[s]
    /\ \A k \in {"select", "merge", "report", "check", "usable"} :
         Act(k, None) \in Program /\ Place(Act(k, None)) = OtherPlace[k]
<1>1. ASSUME NEW k \in Keys
      PROVE  Act("stage", k) \in Program /\ Place(Act("stage", k)) = StagePlace[k[1]]
  BY DEF Program, Act, Place
<1>2. ASSUME NEW n \in Names PROVE Act("save", n) \in Program /\ Place(Act("save", n)) = SavePlace[n]
  BY DEF Program, Act, Place
<1>3. ASSUME NEW e \in Tales PROVE Act("event", e) \in Program /\ Place(Act("event", e)) = EventPlace[e]
  BY DEF Program, Act, Place
<1>4. ASSUME NEW p \in Found, NEW s \in {"acquired", "ingested", "analyzed"}
      PROVE  Act("mark", <<p, s>>) \in Program /\ Place(Act("mark", <<p, s>>)) = MarkPlace[s]
  <2>1. <<p, s>> \in Found \X {"acquired", "ingested", "analyzed"} /\ <<p, s>>[2] = s
    OBVIOUS
  <2> QED BY <2>1 DEF Program, Act, Place
<1>5. ASSUME NEW k \in {"select", "merge", "report", "check", "usable"}
      PROVE  Act(k, None) \in Program /\ Place(Act(k, None)) = OtherPlace[k]
  BY DEF Program, Act, Place
<1> QED BY <1>1, <1>2, <1>3, <1>4, <1>5

LEMMA KeysHave ==
    /\ \A s \in {"start", "search", "citations", "verify", "synthesis"} :
         Plain(s) \in Keys /\ Plain(s)[1] = s
    /\ \A p \in Found : \A s \in {"acquire", "ingest"} : Key(s, p) \in Keys /\ Key(s, p)[1] = s
    /\ \A q \in 1 .. Scopes : \A s \in {"retrieve", "analyze"} : Key(s, q) \in Keys /\ Key(s, q)[1] = s
BY DEF Keys, Plain, Key

LEMMA PlacesAreNumbers == \A t \in Program : Place(t) \in Nat
<1>1. \A k \in Keys : k[1] \in {"start", "search", "citations", "verify", "synthesis", "acquire", "ingest",
                                "retrieve", "analyze"}
  BY DEF Keys, Plain, Key
<1>2. \A k \in Keys : StagePlace[k[1]] \in Nat
  BY <1>1 DEF StagePlace
<1>3. \A n \in Names : SavePlace[n] \in Nat
  BY DEF Names, SavePlace
<1>4. \A e \in Tales : EventPlace[e] \in Nat
  BY DEF Tales, EventPlace
<1>5. \A s \in {"acquired", "ingested", "analyzed"} : MarkPlace[s] \in Nat
  BY DEF MarkPlace
<1>6. \A k \in {"select", "merge", "report", "check", "usable"} : OtherPlace[k] \in Nat
  BY DEF OtherPlace
<1> SUFFICES ASSUME NEW t \in Program PROVE Place(t) \in Nat
  OBVIOUS
<1>7. CASE t \in {Act("stage", k) : k \in Keys}
  BY <1>2, <1>7, Places
<1>8. CASE t \in {Act("save", n) : n \in Names}
  BY <1>3, <1>8, Places
<1>9. CASE t \in {Act("event", e) : e \in Tales}
  BY <1>4, <1>9, Places
<1>10. CASE t \in {Act("mark", x) : x \in Found \X {"acquired", "ingested", "analyzed"}}
  <2>1. PICK x \in Found \X {"acquired", "ingested", "analyzed"} : t = Act("mark", x)
    BY <1>10
  <2>2. x = <<x[1], x[2]>> /\ x[1] \in Found /\ x[2] \in {"acquired", "ingested", "analyzed"}
    OBVIOUS
  <2> QED BY <1>5, <2>1, <2>2, Places
<1>11. CASE t \in {Act(k, None) : k \in {"select", "merge", "report", "check", "usable"}}
  BY <1>6, <1>11, Places
<1> QED BY <1>7, <1>8, <1>9, <1>10, <1>11 DEF Program

\* One more piece.
LEMMA PieceJoins ==
    ASSUME NEW s \in Seq(Program), NEW t \in Seq(Program), NEW a \in Nat, NEW b \in Nat, NEW c \in Nat,
           Within(s, a, b), Within(t, c, c), a <= b, b <= c
    PROVE  s \o t \in Seq(Program) /\ Within(s \o t, a, c) /\ ToSet(s \o t) = ToSet(s) \cup ToSet(t)
BY PiecesJoin, ConcatHas, PlacesAreNumbers

LEMMA DoHas ==
    ASSUME NEW kind, NEW x, Act(kind, x) \in Program, NEW a \in Nat, Place(Act(kind, x)) = a
    PROVE  Do(kind, x) \in Seq(Program) /\ ToSet(Do(kind, x)) = {Act(kind, x)} /\ Within(Do(kind, x), a, a)
<1>1. Do(kind, x) = <<Act(kind, x)>>
  BY DEF Do, Act
<1> QED BY <1>1, PieceOfOne

\* A loop over steps of one place.
LEMMA LoopHas ==
    ASSUME NEW f \in Seq(Seq(Program)), NEW a \in Nat,
           \A i \in DOMAIN f : \A t \in ToSet(f[i]) : Place(t) = a
    PROVE  /\ FlattenSeq(f) \in Seq(Program) /\ Within(FlattenSeq(f), a, a)
           /\ ToSet(FlattenSeq(f)) = UNION {ToSet(f[i]) : i \in DOMAIN f}
<1>1. FlattenSeq(f) \in Seq(Program) /\ ToSet(FlattenSeq(f)) = UNION {ToSet(f[i]) : i \in DOMAIN f}
  BY FlattenHas
<1>2. \A t \in ToSet(FlattenSeq(f)) : Place(t) = a
  BY <1>1
<1> QED BY <1>1, <1>2, PieceOfPlace

LEMMA StepsJoin ==
    ASSUME NEW s \in Seq(Program), NEW t \in Seq(Program)
    PROVE  s \o t \in Seq(Program) /\ ToSet(s \o t) = ToSet(s) \cup ToSet(t)
BY ConcatHas

LEMMA AcquisitionHas ==
    ASSUME NEW p \in Found
    PROVE  /\ Acquisition(p) \in Seq(Program)
           /\ ToSet(Acquisition(p)) = {Act("stage", Key("acquire", p)), Act("mark", <<p, "acquired">>),
                                       Act("stage", Key("ingest", p)), Act("mark", <<p, "ingested">>)}
           /\ \A t \in ToSet(Acquisition(p)) : Place(t) = 7
<1> DEFINE a == Act("stage", Key("acquire", p))
           b == Act("mark", <<p, "acquired">>)
           c == Act("stage", Key("ingest", p))
           d == Act("mark", <<p, "ingested">>)
<1>1. Key("acquire", p) \in Keys /\ Key("acquire", p)[1] = "acquire"
      /\ Key("ingest", p) \in Keys /\ Key("ingest", p)[1] = "ingest"
  BY KeysHave
<1>2. a \in Program /\ Place(a) = 7 /\ c \in Program /\ Place(c) = 7
  BY <1>1, Places DEF StagePlace
<1>3. b \in Program /\ Place(b) = 7 /\ d \in Program /\ Place(d) = 7
  BY Places DEF MarkPlace
<1> DEFINE a1 == Do("stage", Key("acquire", p))
           b1 == Do("mark", <<p, "acquired">>)
           c1 == Do("stage", Key("ingest", p))
           d1 == Do("mark", <<p, "ingested">>)
           e == a1 \o b1
           f == e \o c1
<1>4. a1 \in Seq(Program) /\ ToSet(a1) = {a} /\ c1 \in Seq(Program) /\ ToSet(c1) = {c}
  <2> HIDE DEF a, c
  <2>1. \A k, x : Act(k, x) \in Program /\ Place(Act(k, x)) = 7 =>
          Do(k, x) \in Seq(Program) /\ ToSet(Do(k, x)) = {Act(k, x)}
    BY DoHas
  <2> QED BY <1>2, <2>1 DEF a, c
<1>5. b1 \in Seq(Program) /\ ToSet(b1) = {b} /\ d1 \in Seq(Program) /\ ToSet(d1) = {d}
  <2>1. \A k, x : Act(k, x) \in Program /\ Place(Act(k, x)) = 7 =>
          Do(k, x) \in Seq(Program) /\ ToSet(Do(k, x)) = {Act(k, x)}
    BY DoHas
  <2> QED BY <1>3, <2>1
<1>6. Acquisition(p) = f \o d1
  BY DEF Acquisition
<1> HIDE DEF a, b, c, d, a1, b1, c1, d1
<1>7. e \in Seq(Program) /\ ToSet(e) = {a, b}
  <2>1. e \in Seq(Program) /\ ToSet(e) = ToSet(a1) \cup ToSet(b1)
    BY <1>4, <1>5, StepsJoin
  <2> QED BY <1>4, <1>5, <2>1
<1> HIDE DEF e
<1>8. f \in Seq(Program) /\ ToSet(f) = {a, b, c}
  <2>1. f \in Seq(Program) /\ ToSet(f) = ToSet(e) \cup ToSet(c1)
    BY <1>4, <1>7, StepsJoin
  <2> QED BY <1>4, <1>7, <2>1
<1> HIDE DEF f
<1>9. Acquisition(p) \in Seq(Program) /\ ToSet(Acquisition(p)) = {a, b, c, d}
  <2>1. f \o d1 \in Seq(Program) /\ ToSet(f \o d1) = ToSet(f) \cup ToSet(d1)
    BY <1>5, <1>8, StepsJoin
  <2> QED BY <1>5, <1>6, <1>8, <2>1
<1> USE DEF a, b, c, d
<1> QED BY <1>2, <1>3, <1>9

LEMMA BodyHas ==
    ASSUME NEW chosen \in Seq(Found)
    PROVE  /\ Body(chosen) \in Seq(Program) /\ Within(Body(chosen), 5, 20)
           /\ Act("report", None) \in ToSet(Body(chosen))
           /\ \A p \in ToSet(chosen) : Act("mark", <<p, "analyzed">>) \in ToSet(Body(chosen))
           /\ \A k \in BodyKeys(chosen) : Act("stage", k) \in ToSet(Body(chosen))
           /\ \A e \in Tales \ {"synthesis"} : Act("event", e) \in ToSet(Body(chosen))
<1> DEFINE f1 == [i \in DOMAIN chosen |-> Acquisition(chosen[i])]
           f2 == [q \in 1 .. Scopes |-> Do("stage", Key("retrieve", q))]
           f3 == [q \in 1 .. Scopes |-> Do("stage", Key("analyze", q))]
           f4 == [i \in DOMAIN chosen |-> Do("mark", <<chosen[i], "analyzed">>)]
           b1 == Do("save", "search")
           b2 == Do("event", "search")
           b3 == FlattenSeq(f1)
           b4 == FlattenSeq(f2)
           b5 == Do("event", "retrieval")
           b6 == FlattenSeq(f3)
           b7 == Do("save", "analysis")
           b8 == FlattenSeq(f4)
           b9 == Do("save", "citations")
           b10 == Do("event", "citations")
           b11 == Do("event", "evidence")
           b12 == Do("merge", None)
           b13 == Do("stage", Plain("verify"))
           b14 == Do("save", "verification")
           b15 == Do("event", "verification")
           b16 == Do("report", None)
           c1 == b1
           c2 == c1 \o b2
           c3 == c2 \o b3
           c4 == c3 \o b4
           c5 == c4 \o b5
           c6 == c5 \o b6
           c7 == c6 \o b7
           c8 == c7 \o b8
           c9 == c8 \o b9
           c10 == c9 \o b10
           c11 == c10 \o b11
           c12 == c11 \o b12
           c13 == c12 \o b13
           c14 == c13 \o b14
           c15 == c14 \o b15
           c16 == c15 \o b16
<1>1. Body(chosen) = c16
  BY DEF Body, ForEach, ScopeSeq
<1>2. /\ DOMAIN chosen = 1 .. Len(chosen) /\ Len(chosen) \in Nat /\ Scopes \in Nat
      /\ \A i \in DOMAIN chosen : chosen[i] \in Found
  BY LenProperties, ElementOfSeq, ResearchAssumption
<1>3. /\ b3 \in Seq(Program) /\ Within(b3, 7, 7)
      /\ \A p \in ToSet(chosen) : \A s \in {"acquire", "ingest"} : Act("stage", Key(s, p)) \in ToSet(b3)
  <2>1. \A i \in DOMAIN chosen : f1[i] \in Seq(Program) /\ \A t \in ToSet(f1[i]) : Place(t) = 7
    BY <1>2, AcquisitionHas
  <2>2. \A i \in DOMAIN chosen : \A s \in {"acquire", "ingest"} : Act("stage", Key(s, chosen[i])) \in ToSet(f1[i])
    BY <1>2, AcquisitionHas
  <2>3. f1 \in Seq(Seq(Program)) /\ DOMAIN f1 = DOMAIN chosen
    BY <1>2, <2>1
  <2> HIDE DEF f1
  <2>4. /\ b3 \in Seq(Program) /\ Within(b3, 7, 7)
        /\ ToSet(b3) = UNION {ToSet(f1[i]) : i \in DOMAIN f1}
    <3>1. \A i \in DOMAIN f1 : \A t \in ToSet(f1[i]) : Place(t) = 7
      BY <2>1, <2>3
    <3> QED BY <2>3, <3>1, LoopHas
  <2>5. \A p \in ToSet(chosen) : \E i \in DOMAIN f1 : p = chosen[i]
    BY <2>3 DEF ToSet
  <2> QED BY <2>2, <2>3, <2>4, <2>5
<1>4. b4 \in Seq(Program) /\ Within(b4, 8, 8)
  <2>1. \A q \in 1 .. Scopes : f2[q] \in Seq(Program) /\ \A t \in ToSet(f2[q]) : Place(t) = 8
    BY Places, KeysHave DEF Do, Act, StagePlace, ToSet
  <2>2. f2 \in Seq(Seq(Program)) /\ DOMAIN f2 = 1 .. Scopes
    BY <1>2, <2>1
  <2> HIDE DEF f2
  <2> QED BY <2>1, <2>2, LoopHas
<1>5. /\ b6 \in Seq(Program) /\ Within(b6, 10, 10)
      /\ \A q \in 1 .. Scopes : Act("stage", Key("analyze", q)) \in ToSet(b6)
  <2>1. \A q \in 1 .. Scopes : /\ f3[q] \in Seq(Program) /\ \A t \in ToSet(f3[q]) : Place(t) = 10
                               /\ Act("stage", Key("analyze", q)) \in ToSet(f3[q])
    BY Places, KeysHave DEF Do, Act, StagePlace, ToSet
  <2>2. f3 \in Seq(Seq(Program)) /\ DOMAIN f3 = 1 .. Scopes
    BY <1>2, <2>1
  <2> HIDE DEF f3
  <2> QED BY <2>1, <2>2, LoopHas
<1>6. /\ b8 \in Seq(Program) /\ Within(b8, 12, 12)
      /\ \A p \in ToSet(chosen) : Act("mark", <<p, "analyzed">>) \in ToSet(b8)
  <2>1. \A i \in DOMAIN chosen : /\ f4[i] \in Seq(Program) /\ \A t \in ToSet(f4[i]) : Place(t) = 12
                                 /\ Act("mark", <<chosen[i], "analyzed">>) \in ToSet(f4[i])
    <3> SUFFICES ASSUME NEW i \in DOMAIN chosen
                 PROVE  /\ f4[i] \in Seq(Program) /\ \A t \in ToSet(f4[i]) : Place(t) = 12
                        /\ Act("mark", <<chosen[i], "analyzed">>) \in ToSet(f4[i])
      OBVIOUS
    <3> DEFINE t == Act("mark", <<chosen[i], "analyzed">>)
    <3>1. t \in Program /\ Place(t) = 12
      BY <1>2, Places DEF MarkPlace
    <3>2. f4[i] \in Seq(Program) /\ ToSet(f4[i]) = {t}
      BY <3>1, DoHas
    <3> QED BY <3>1, <3>2
  <2>2. f4 \in Seq(Seq(Program)) /\ DOMAIN f4 = DOMAIN chosen
    BY <1>2, <2>1
  <2> HIDE DEF f4
  <2>3. /\ b8 \in Seq(Program) /\ Within(b8, 12, 12)
        /\ ToSet(b8) = UNION {ToSet(f4[i]) : i \in DOMAIN f4}
    BY <2>1, <2>2, LoopHas
  <2>4. \A p \in ToSet(chosen) : \E i \in DOMAIN f4 : p = chosen[i]
    BY <2>2 DEF ToSet
  <2> QED BY <2>1, <2>2, <2>3, <2>4
<1>7. b1 \in Seq(Program) /\ ToSet(b1) = {Act("save", "search")} /\ Within(b1, 5, 5)
  <2>1. Act("save", "search") \in Program /\ Place(Act("save", "search")) = 5
    BY Places DEF SavePlace, Names
  <2> QED BY <2>1, DoHas
<1>8. b2 \in Seq(Program) /\ ToSet(b2) = {Act("event", "search")} /\ Within(b2, 6, 6)
  <2>1. Act("event", "search") \in Program /\ Place(Act("event", "search")) = 6
    BY Places DEF EventPlace, Tales
  <2> QED BY <2>1, DoHas
<1>9. b5 \in Seq(Program) /\ ToSet(b5) = {Act("event", "retrieval")} /\ Within(b5, 9, 9)
  <2>1. Act("event", "retrieval") \in Program /\ Place(Act("event", "retrieval")) = 9
    BY Places DEF EventPlace, Tales
  <2> QED BY <2>1, DoHas
<1>10. b7 \in Seq(Program) /\ ToSet(b7) = {Act("save", "analysis")} /\ Within(b7, 11, 11)
  <2>1. Act("save", "analysis") \in Program /\ Place(Act("save", "analysis")) = 11
    BY Places DEF SavePlace, Names
  <2> QED BY <2>1, DoHas
<1>11. b9 \in Seq(Program) /\ ToSet(b9) = {Act("save", "citations")} /\ Within(b9, 13, 13)
  <2>1. Act("save", "citations") \in Program /\ Place(Act("save", "citations")) = 13
    BY Places DEF SavePlace, Names
  <2> QED BY <2>1, DoHas
<1>12. b10 \in Seq(Program) /\ ToSet(b10) = {Act("event", "citations")} /\ Within(b10, 14, 14)
  <2>1. Act("event", "citations") \in Program /\ Place(Act("event", "citations")) = 14
    BY Places DEF EventPlace, Tales
  <2> QED BY <2>1, DoHas
<1>13. b11 \in Seq(Program) /\ ToSet(b11) = {Act("event", "evidence")} /\ Within(b11, 15, 15)
  <2>1. Act("event", "evidence") \in Program /\ Place(Act("event", "evidence")) = 15
    BY Places DEF EventPlace, Tales
  <2> QED BY <2>1, DoHas
<1>14. b12 \in Seq(Program) /\ ToSet(b12) = {Act("merge", None)} /\ Within(b12, 16, 16)
  <2>1. Act("merge", None) \in Program /\ Place(Act("merge", None)) = 16
    BY Places DEF OtherPlace
  <2> QED BY <2>1, DoHas
<1>15. b13 \in Seq(Program) /\ ToSet(b13) = {Act("stage", Plain("verify"))} /\ Within(b13, 17, 17)
  <2>1. Act("stage", Plain("verify")) \in Program /\ Place(Act("stage", Plain("verify"))) = 17
    BY Places, KeysHave DEF StagePlace
  <2> QED BY <2>1, DoHas
<1>16. b14 \in Seq(Program) /\ ToSet(b14) = {Act("save", "verification")} /\ Within(b14, 18, 18)
  <2>1. Act("save", "verification") \in Program /\ Place(Act("save", "verification")) = 18
    BY Places DEF SavePlace, Names
  <2> QED BY <2>1, DoHas
<1>17. b15 \in Seq(Program) /\ ToSet(b15) = {Act("event", "verification")} /\ Within(b15, 19, 19)
  <2>1. Act("event", "verification") \in Program /\ Place(Act("event", "verification")) = 19
    BY Places DEF EventPlace, Tales
  <2> QED BY <2>1, DoHas
<1>18. b16 \in Seq(Program) /\ ToSet(b16) = {Act("report", None)} /\ Within(b16, 20, 20)
  <2>1. Act("report", None) \in Program /\ Place(Act("report", None)) = 20
    BY Places DEF OtherPlace
  <2> QED BY <2>1, DoHas
<1> HIDE DEF b1, b2, b3, b4, b5, b6, b7, b8, b9, b10, b11, b12, b13, b14, b15, b16
<1>19. c2 \in Seq(Program) /\ Within(c2, 5, 6) /\ ToSet(c2) = ToSet(c1) \cup ToSet(b2)
  <2> QED BY <1>7, <1>8, PieceJoins
<1>20. c3 \in Seq(Program) /\ Within(c3, 5, 7) /\ ToSet(c3) = ToSet(c2) \cup ToSet(b3)
  <2> HIDE DEF c2
  <2> QED BY <1>19, <1>3, PieceJoins
<1>21. c4 \in Seq(Program) /\ Within(c4, 5, 8) /\ ToSet(c4) = ToSet(c3) \cup ToSet(b4)
  <2> HIDE DEF c3
  <2> QED BY <1>20, <1>4, PieceJoins
<1>22. c5 \in Seq(Program) /\ Within(c5, 5, 9) /\ ToSet(c5) = ToSet(c4) \cup ToSet(b5)
  <2> HIDE DEF c4
  <2> QED BY <1>21, <1>9, PieceJoins
<1>23. c6 \in Seq(Program) /\ Within(c6, 5, 10) /\ ToSet(c6) = ToSet(c5) \cup ToSet(b6)
  <2> HIDE DEF c5
  <2> QED BY <1>22, <1>5, PieceJoins
<1>24. c7 \in Seq(Program) /\ Within(c7, 5, 11) /\ ToSet(c7) = ToSet(c6) \cup ToSet(b7)
  <2> HIDE DEF c6
  <2> QED BY <1>23, <1>10, PieceJoins
<1>25. c8 \in Seq(Program) /\ Within(c8, 5, 12) /\ ToSet(c8) = ToSet(c7) \cup ToSet(b8)
  <2> HIDE DEF c7
  <2> QED BY <1>24, <1>6, PieceJoins
<1>26. c9 \in Seq(Program) /\ Within(c9, 5, 13) /\ ToSet(c9) = ToSet(c8) \cup ToSet(b9)
  <2> HIDE DEF c8
  <2> QED BY <1>25, <1>11, PieceJoins
<1>27. c10 \in Seq(Program) /\ Within(c10, 5, 14) /\ ToSet(c10) = ToSet(c9) \cup ToSet(b10)
  <2> HIDE DEF c9
  <2> QED BY <1>26, <1>12, PieceJoins
<1>28. c11 \in Seq(Program) /\ Within(c11, 5, 15) /\ ToSet(c11) = ToSet(c10) \cup ToSet(b11)
  <2> HIDE DEF c10
  <2> QED BY <1>27, <1>13, PieceJoins
<1>29. c12 \in Seq(Program) /\ Within(c12, 5, 16) /\ ToSet(c12) = ToSet(c11) \cup ToSet(b12)
  <2> HIDE DEF c11
  <2> QED BY <1>28, <1>14, PieceJoins
<1>30. c13 \in Seq(Program) /\ Within(c13, 5, 17) /\ ToSet(c13) = ToSet(c12) \cup ToSet(b13)
  <2> HIDE DEF c12
  <2> QED BY <1>29, <1>15, PieceJoins
<1>31. c14 \in Seq(Program) /\ Within(c14, 5, 18) /\ ToSet(c14) = ToSet(c13) \cup ToSet(b14)
  <2> HIDE DEF c13
  <2> QED BY <1>30, <1>16, PieceJoins
<1>32. c15 \in Seq(Program) /\ Within(c15, 5, 19) /\ ToSet(c15) = ToSet(c14) \cup ToSet(b15)
  <2> HIDE DEF c14
  <2> QED BY <1>31, <1>17, PieceJoins
<1>33. c16 \in Seq(Program) /\ Within(c16, 5, 20) /\ ToSet(c16) = ToSet(c15) \cup ToSet(b16)
  <2> HIDE DEF c15
  <2> QED BY <1>32, <1>18, PieceJoins
<1> HIDE DEF c2, c3, c4, c5, c6, c7, c8, c9, c10, c11, c12, c13, c14, c15, c16
<1>35. /\ ToSet(b2) \subseteq ToSet(c16)
      /\ ToSet(b3) \subseteq ToSet(c16)
      /\ ToSet(b4) \subseteq ToSet(c16)
      /\ ToSet(b5) \subseteq ToSet(c16)
      /\ ToSet(b6) \subseteq ToSet(c16)
      /\ ToSet(b7) \subseteq ToSet(c16)
      /\ ToSet(b8) \subseteq ToSet(c16)
      /\ ToSet(b9) \subseteq ToSet(c16)
      /\ ToSet(b10) \subseteq ToSet(c16)
      /\ ToSet(b11) \subseteq ToSet(c16)
      /\ ToSet(b12) \subseteq ToSet(c16)
      /\ ToSet(b13) \subseteq ToSet(c16)
      /\ ToSet(b14) \subseteq ToSet(c16)
      /\ ToSet(b15) \subseteq ToSet(c16)
      /\ ToSet(b16) \subseteq ToSet(c16)
  BY <1>19, <1>20, <1>21, <1>22, <1>23, <1>24, <1>25, <1>26, <1>27, <1>28, <1>29, <1>30, <1>31, <1>32, <1>33
<1>36. Act("report", None) \in ToSet(c16)
  BY <1>35, <1>18
<1>37. /\ Act("event", "search") \in ToSet(c16) /\ Act("event", "retrieval") \in ToSet(c16)
       /\ Act("event", "citations") \in ToSet(c16) /\ Act("event", "evidence") \in ToSet(c16)
       /\ Act("event", "verification") \in ToSet(c16)
  BY <1>35, <1>8, <1>9, <1>12, <1>13, <1>17
<1>38. \A e \in Tales \ {"synthesis"} : Act("event", e) \in ToSet(c16)
  BY <1>37 DEF Tales
<1>39. Act("stage", Plain("verify")) \in ToSet(c16)
  BY <1>35, <1>15
<1>40. \A k \in BodyKeys(chosen) : Act("stage", k) \in ToSet(c16)
  BY <1>3, <1>5, <1>35, <1>39 DEF BodyKeys
<1> QED BY <1>1, <1>6, <1>33, <1>35, <1>36, <1>38, <1>40

\* The same with only the places between which a piece lies.
LEMMA PiecesMeet ==
    ASSUME NEW s \in Seq(Program), NEW t \in Seq(Program), NEW a \in Nat, NEW b \in Nat, NEW c \in Nat,
           NEW d \in Nat, Within(s, a, b), Within(t, c, d), a <= b, b <= c, c <= d
    PROVE  s \o t \in Seq(Program) /\ Within(s \o t, a, d) /\ ToSet(s \o t) = ToSet(s) \cup ToSet(t)
BY PiecesJoin, StepsJoin, PlacesAreNumbers

LEMMA NothingHas ==
    ASSUME NEW a \in Nat
    PROVE  <<>> \in Seq(Program) /\ ToSet(<<>>) = {} /\ Within(<<>>, a, a)
<1>1. <<>> \in Seq(Program) /\ DOMAIN <<>> = {}
  OBVIOUS
<1> QED BY <1>1 DEF Within, ToSet

LEMMA CheckHas ==
    ASSUME NEW a \in Nat
    PROVE  /\ Do("check", None) \in Seq(Program) /\ ToSet(Do("check", None)) = {Act("check", None)}
           /\ Within(Do("check", None), a, a)
<1>1. Act("check", None) \in Program /\ Act("check", None).kind = "check"
  BY Places DEF Act
<1>2. Do("check", None) = <<Act("check", None)>>
  BY DEF Do, Act
<1> QED BY <1>1, <1>2, PieceOfOne

LEMMA StageHas ==
    ASSUME NEW s \in {"start", "search", "citations", "verify", "synthesis"},
           NEW a \in Nat, StagePlace[s] = a
    PROVE  /\ Do("stage", Plain(s)) \in Seq(Program) /\ Within(Do("stage", Plain(s)), a, a)
           /\ ToSet(Do("stage", Plain(s))) = {Act("stage", Plain(s))}
<1>1. Act("stage", Plain(s)) \in Program /\ Place(Act("stage", Plain(s))) = a
  BY Places, KeysHave
<1> QED BY <1>1, DoHas

LEMMA OpeningHas ==
    /\ Opening \in Seq(Program) /\ Within(Opening, 1, 4)
    /\ Act("select", None) \in ToSet(Opening)
    /\ Act("stage", Plain("search")) \in ToSet(Opening)
    /\ ExpansionAnswers # {} => Act("stage", Plain("citations")) \in ToSet(Opening)
<1> DEFINE b1 == Do("stage", Plain("start"))
           b2 == Do("stage", Plain("search"))
           b3 == IF ExpansionAnswers = {} THEN <<>> ELSE Do("stage", Plain("citations"))
           b4 == Do("select", None)
           c2 == b1 \o b2
           c3 == c2 \o b3
           c4 == c3 \o b4
<1>1. Opening = c4
  BY DEF Opening
<1>2. b1 \in Seq(Program) /\ Within(b1, 1, 1)
  BY StageHas DEF StagePlace
<1>3. b2 \in Seq(Program) /\ Within(b2, 2, 2) /\ ToSet(b2) = {Act("stage", Plain("search"))}
  BY StageHas DEF StagePlace
<1>4. /\ b3 \in Seq(Program) /\ Within(b3, 3, 3)
      /\ ExpansionAnswers # {} => ToSet(b3) = {Act("stage", Plain("citations"))}
  <2>1. CASE ExpansionAnswers = {}
    BY <2>1, NothingHas
  <2>2. CASE ExpansionAnswers # {}
    BY <2>2, StageHas DEF StagePlace
  <2> QED BY <2>1, <2>2
<1>5. b4 \in Seq(Program) /\ ToSet(b4) = {Act("select", None)} /\ Within(b4, 4, 4)
  <2>1. Act("select", None) \in Program /\ Place(Act("select", None)) = 4
    BY Places DEF OtherPlace
  <2> QED BY <2>1, DoHas
<1> HIDE DEF b1, b2, b3, b4
<1>6. c2 \in Seq(Program) /\ Within(c2, 1, 2) /\ ToSet(c2) = ToSet(b1) \cup ToSet(b2)
  BY <1>2, <1>3, PieceJoins
<1> HIDE DEF c2
<1>7. c3 \in Seq(Program) /\ Within(c3, 1, 3) /\ ToSet(c3) = ToSet(c2) \cup ToSet(b3)
  BY <1>4, <1>6, PieceJoins
<1> HIDE DEF c3
<1>8. c4 \in Seq(Program) /\ Within(c4, 1, 4) /\ ToSet(c4) = ToSet(c3) \cup ToSet(b4)
  BY <1>5, <1>7, PieceJoins
<1> HIDE DEF c4
<1> QED BY <1>1, <1>3, <1>4, <1>5, <1>6, <1>7, <1>8

\* The closing, as Report writes it.
Reporting ==
    Do("check", None)
      \o (IF Reliability.answer.included
          THEN Do("stage", Plain("synthesis")) \o Do("usable", None) ELSE <<>>)
      \o Closing

LEMMA ReportingHas ==
    /\ Reporting \in Seq(Program) /\ Within(Reporting, 21, 24)
    /\ Act("save", "result") \in ToSet(Reporting)
    /\ Act("event", "synthesis") \in ToSet(Reporting)
    /\ Reliability.answer.included =>
         /\ Act("stage", Plain("synthesis")) \in ToSet(Reporting)
         /\ Act("usable", None) \in ToSet(Reporting)
<1> DEFINE b1 == Do("check", None)
           n1 == Do("stage", Plain("synthesis"))
           n2 == Do("usable", None)
           b2 == IF Reliability.answer.included THEN n1 \o n2 ELSE <<>>
           b4 == Do("event", "synthesis")
           b5 == Do("save", "result")
           k1 == b1 \o b4
           k2 == k1 \o b5
           c2 == b1 \o b2
           c3 == c2 \o k2
<1>1. Reporting = c3
  BY DEF Reporting, Closing
<1>2. \A a \in Nat : b1 \in Seq(Program) /\ Within(b1, a, a)
  BY CheckHas
<1>3. n1 \in Seq(Program) /\ Within(n1, 21, 21) /\ ToSet(n1) = {Act("stage", Plain("synthesis"))}
  BY StageHas DEF StagePlace
<1>4. n2 \in Seq(Program) /\ Within(n2, 22, 22) /\ ToSet(n2) = {Act("usable", None)}
  <2>1. Act("usable", None) \in Program /\ Place(Act("usable", None)) = 22
    BY Places DEF OtherPlace
  <2> QED BY <2>1, DoHas
<1>5. b4 \in Seq(Program) /\ Within(b4, 23, 23) /\ ToSet(b4) = {Act("event", "synthesis")}
  <2>1. Act("event", "synthesis") \in Program /\ Place(Act("event", "synthesis")) = 23
    BY Places DEF EventPlace, Tales
  <2> QED BY <2>1, DoHas
<1>6. b5 \in Seq(Program) /\ Within(b5, 24, 24) /\ ToSet(b5) = {Act("save", "result")}
  <2>1. Act("save", "result") \in Program /\ Place(Act("save", "result")) = 24
    BY Places DEF SavePlace, Names
  <2> QED BY <2>1, DoHas
<1> HIDE DEF b1, b4, b5, n1, n2
<1>7. /\ b2 \in Seq(Program) /\ Within(b2, 21, 22)
      /\ Reliability.answer.included =>
           /\ Act("stage", Plain("synthesis")) \in ToSet(b2)
           /\ Act("usable", None) \in ToSet(b2)
  <2>1. CASE Reliability.answer.included
    <3>1. /\ n1 \o n2 \in Seq(Program) /\ Within(n1 \o n2, 21, 22)
          /\ ToSet(n1 \o n2) = ToSet(n1) \cup ToSet(n2)
      BY <1>3, <1>4, PiecesMeet
    <3> QED BY <1>3, <1>4, <2>1, <3>1
  <2>2. CASE ~Reliability.answer.included
    <3>1. <<>> \in Seq(Program) /\ Within(<<>>, 21, 22)
      BY NothingHas DEF Within
    <3> QED BY <2>2, <3>1
  <2> QED BY <2>1, <2>2
<1> HIDE DEF b2
<1>8. k1 \in Seq(Program) /\ Within(k1, 23, 23) /\ ToSet(k1) = ToSet(b1) \cup ToSet(b4)
  BY <1>2, <1>5, PiecesMeet
<1> HIDE DEF k1
<1>9. k2 \in Seq(Program) /\ Within(k2, 23, 24) /\ ToSet(k2) = ToSet(k1) \cup ToSet(b5)
  BY <1>6, <1>8, PiecesMeet
<1> HIDE DEF k2
<1>10. c2 \in Seq(Program) /\ Within(c2, 21, 22) /\ ToSet(c2) = ToSet(b1) \cup ToSet(b2)
  <2>1. b1 \in Seq(Program) /\ Within(b1, 21, 21)
    BY <1>2
  <2> QED BY <1>7, <2>1, PiecesMeet
<1> HIDE DEF c2
<1>11. c3 \in Seq(Program) /\ Within(c3, 21, 24) /\ ToSet(c3) = ToSet(c2) \cup ToSet(k2)
  BY <1>9, <1>10, PiecesMeet
<1> HIDE DEF c3
<1> QED BY <1>1, <1>5, <1>6, <1>7, <1>8, <1>9, <1>10, <1>11

\* What is left of the program once its next step is taken.
LEMMA TailHas ==
    ASSUME NEW s \in Seq(Program), s # <<>>, NEW a \in Nat, NEW b \in Nat, Within(s, a, b)
    PROVE  /\ Head(s) \in Program /\ Head(s) \in ToSet(s)
           /\ Tail(s) \in Seq(Program) /\ Within(Tail(s), a, b)
           /\ ToSet(s) = {Head(s)} \cup ToSet(Tail(s))
           /\ Head(s).kind # "check" =>
                \A t \in ToSet(s) : t.kind # "check" => Place(Head(s)) <= Place(t)
<1>1. /\ Len(s) \in Nat \ {0} /\ DOMAIN s = 1 .. Len(s)
      /\ Head(s) = s[1]
      /\ \A i \in DOMAIN s : s[i] \in Program
  BY LenProperties, EmptySeq, ElementOfSeq, HeadTailProperties
<1>2. /\ Tail(s) \in Seq(Program) /\ DOMAIN Tail(s) = 1 .. (Len(s) - 1)
      /\ \A i \in 1 .. (Len(s) - 1) : Tail(s)[i] = s[i + 1]
  BY HeadTailProperties, LenProperties
<1> DEFINE u == Tail(s)
<1> HIDE DEF u
<1>3. /\ u \in Seq(Program) /\ DOMAIN u = 1 .. (Len(s) - 1)
      /\ \A i \in DOMAIN u : i + 1 \in DOMAIN s /\ u[i] = s[i + 1]
  BY <1>1, <1>2 DEF u
<1>4. Within(u, a, b)
  BY <1>1, <1>3 DEF Within
<1>5. ToSet(s) = {s[1]} \cup ToSet(u)
  <2>1. \A i \in DOMAIN s : i = 1 \/ (i - 1 \in DOMAIN u /\ u[i - 1] = s[i])
    BY <1>1, <1>3
  <2>2. 1 \in DOMAIN s
    BY <1>1
  <2>3. \A i \in DOMAIN s : s[i] \in {s[1]} \cup ToSet(u)
    <3> SUFFICES ASSUME NEW i \in DOMAIN s, i # 1 PROVE s[i] \in ToSet(u)
      OBVIOUS
    <3>1. i - 1 \in DOMAIN u /\ u[i - 1] = s[i]
      BY <2>1
    <3> QED BY <3>1 DEF ToSet
  <2>4. \A i \in DOMAIN u : u[i] \in ToSet(s)
    BY <1>3 DEF ToSet
  <2>5. s[1] \in ToSet(s)
    BY <2>2 DEF ToSet
  <2>6. ToSet(s) \subseteq {s[1]} \cup ToSet(u)
    BY <2>3 DEF ToSet
  <2>7. ToSet(u) \subseteq ToSet(s)
    BY <2>4 DEF ToSet
  <2> QED BY <2>5, <2>6, <2>7
<1>6. Head(s).kind # "check" => \A t \in ToSet(s) : t.kind # "check" => Place(s[1]) <= Place(t)
  <2> SUFFICES ASSUME Head(s).kind # "check", NEW i \in DOMAIN s, s[i].kind # "check"
               PROVE  Place(s[1]) <= Place(s[i])
    BY <1>1 DEF ToSet
  <2>1. CASE i = 1
    BY <1>1, <2>1, PlacesAreNumbers
  <2>2. CASE i # 1
    <3>1. 1 < i /\ 1 \in DOMAIN s
      BY <1>1, <2>2
    <3> QED BY <1>1, <3>1 DEF Within
  <2> QED BY <2>1, <2>2
<1> QED BY <1>1, <1>3, <1>4, <1>5, <1>6 DEF u

\* A step keeps what the journal says of a completed stage.
Keeps == \A k \in Keys : Completed(k) => Completed(k)' /\ Value(k)' = Value(k)

LEMMA SelectionStays ==
    ASSUME SearchDone, Keeps
    PROVE  /\ SearchDone' /\ Snapshot' = Snapshot /\ Selection' = Selection /\ Stamp' = Stamp
           /\ ExpansionAnswers # {} => Expansion' = Expansion
<1>1. Plain("search") \in Keys /\ Plain("citations") \in Keys
  BY KeysHave
<1>2. Snapshot' = Snapshot /\ SearchDone' /\ (ExpansionAnswers # {} => Expansion' = Expansion)
  BY <1>1 DEF Keeps, SearchDone, Snapshot, Expansion
<1>3. Ranked' = Ranked /\ Stamp' = Stamp
  BY <1>2 DEF Ranked, Stamp
<1>4. Discovered' = Discovered
  <2>1. CASE ExpansionAnswers = {}
    BY <2>1 DEF Discovered
  <2>2. CASE ExpansionAnswers # {}
    BY <1>2, <2>2 DEF Discovered
  <2> QED BY <2>1, <2>2
<1>5. Accessible' = Accessible
  BY <1>3, <1>4 DEF Accessible
<1> QED BY <1>2, <1>3, <1>5 DEF Selection

LEMMA PapersAre ==
    ASSUME PapersHold, AnswersHold
    PROVE  papers \in Seq(Found) /\ ToSet(papers) \subseteq Found /\ BodyKeys(papers) \subseteq Keys
<1>1. papers \in Seq(Found)
  BY SelectionHas DEF PapersHold
<1>2. ToSet(papers) \subseteq Found
  BY <1>1, ElementOfSeq, LenProperties DEF ToSet
<1>3. Plain("verify") \in Keys
  BY KeysHave
<1>4. \A p \in ToSet(papers) : \A s \in {"acquire", "ingest"} : Key(s, p) \in Keys
  BY <1>2, KeysHave
<1>5. \A q \in 1 .. Scopes : Key("analyze", q) \in Keys
  BY KeysHave
<1> QED BY <1>1, <1>2, <1>3, <1>4, <1>5 DEF BodyKeys

LEMMA PapersStay ==
    ASSUME PapersHold, Keeps, papers' = papers,
           lifecycle' = [p \in ToSet(papers) |-> [stage |-> lifecycle'[p].stage, at |-> Stamp]]
    PROVE  PapersHold'
BY SelectionStays DEF PapersHold

\* What a step did is done when it leaves the program.
DoneOf(h) ==
    /\ h.kind \notin {"select", "report"} /\ h # Act("save", "result")
    /\ \A k \in Keys : h = Act("stage", k) => Completed(k)
    /\ \A p \in ToSet(papers) : h = Act("mark", <<p, "analyzed">>) => lifecycle[p].stage = "analyzed"
    /\ \A e \in Tales : h = Act("event", e) => Told(e)
    /\ h = Act("usable", None) /\ Reliability.answer.included =>
         Completed(Plain("synthesis")) /\ Value(Plain("synthesis")).answer = "usable"
Goes == Opens \/ Collects \/ Closes

\* The program goes on: a step is done when it leaves, and nothing done is undone.
LEMMA ProgramGoesOn ==
    ASSUME Goes, AnswersHold, Keeps, papers' = papers, NEW h, DoneOf(h)',
           \A t \in ToSet(todo) : t \in ToSet(todo') \/ t = h,
           \A a, b \in Nat : Within(todo, a, b) => Within(todo', a, b),
           \A p \in ToSet(papers) : lifecycle[p].stage = "analyzed" => lifecycle'[p].stage = "analyzed",
           PapersHold => PapersHold',
           \A e \in Tales : Told(e) => Told(e)'
    PROVE  Goes'
<1>1. Plain("search") \in Keys /\ Plain("citations") \in Keys /\ Plain("verify") \in Keys
      /\ Plain("synthesis") \in Keys
  BY KeysHave
<1>2. h # Act("select", None) /\ h # Act("report", None) /\ h # Act("save", "result")
  BY DEF DoneOf, Act
<1>3. \A k \in Keys : Completed(k) \/ Ahead("stage", k) => Completed(k)' \/ Ahead("stage", k)'
  BY DEF Keeps, Ahead, DoneOf
<1>4. \A e \in Tales : Told(e) \/ Ahead("event", e) => Told(e)' \/ Ahead("event", e)'
  BY DEF Ahead, DoneOf
<1>5. CASE Opens
  <2>1. Ahead("select", None)'
    BY <1>2, <1>5 DEF Opens, Ahead
  <2>2. Within(todo', 1, 4)
    BY <1>5 DEF Opens
  <2> QED BY <1>1, <1>3, <1>5, <2>1, <2>2 DEF Opens, Goes
<1>6. ASSUME PapersHold, NEW p \in ToSet(papers),
             lifecycle[p].stage = "analyzed" \/ Ahead("mark", <<p, "analyzed">>)
      PROVE  lifecycle'[p].stage = "analyzed" \/ Ahead("mark", <<p, "analyzed">>)'
  <2>1. p \in ToSet(papers')
    BY <1>6
  <2> QED BY <1>6, <2>1 DEF Ahead, DoneOf
<1>7. CASE Collects
  <2>1. Ahead("report", None)' /\ Within(todo', 5, 20) /\ PapersHold'
    BY <1>2, <1>7 DEF Collects, Ahead
  <2>2. \A p \in ToSet(papers) : lifecycle'[p].stage = "analyzed" \/ Ahead("mark", <<p, "analyzed">>)'
    BY <1>6, <1>7 DEF Collects
  <2>3. \A k \in BodyKeys(papers) : Completed(k)' \/ Ahead("stage", k)'
    BY <1>3, <1>7, PapersAre DEF Collects
  <2>4. \A e \in Tales \ {"synthesis"} : Told(e)' \/ Ahead("event", e)'
    BY <1>4, <1>7 DEF Collects
  <2>5. BodyKeys(papers') = BodyKeys(papers)
    OBVIOUS
  <2> HIDE DEF Keeps
  <2> QED BY <2>1, <2>2, <2>3, <2>4, <2>5 DEF Collects, Goes
<1>8. CASE Closes
  <2>1. Ahead("save", "result")' /\ Within(todo', 21, 24) /\ PapersHold'
    BY <1>2, <1>8 DEF Closes, Ahead
  <2>2. \A p \in ToSet(papers) : lifecycle'[p].stage = "analyzed"
    BY <1>8 DEF Closes
  <2>3. \A k \in BodyKeys(papers) : Completed(k)'
    BY <1>8, PapersAre DEF Closes, Keeps
  <2>4. \A e \in Tales \ {"synthesis"} : Told(e)'
    BY <1>8 DEF Closes
  <2>5. Told("synthesis")' \/ Ahead("event", "synthesis")'
    BY <1>4, <1>8 DEF Closes, Tales
  <2>6. Reliability' = Reliability
    BY <1>1, <1>8 DEF Closes, Keeps, BodyKeys, Reliability
  <2>7. ASSUME Reliability.answer.included
        PROVE  /\ Completed(Plain("synthesis"))' \/ Ahead("stage", Plain("synthesis"))'
               /\ Ahead("usable", None)'
                    \/ (Completed(Plain("synthesis"))' /\ Value(Plain("synthesis"))'.answer = "usable")
    <3>1. Completed(Plain("synthesis")) \/ Ahead("stage", Plain("synthesis"))
      BY <1>8, <2>7 DEF Closes
    <3>2. Ahead("usable", None)
            \/ (Completed(Plain("synthesis")) /\ Value(Plain("synthesis")).answer = "usable")
      BY <1>8, <2>7 DEF Closes
    <3>3. Completed(Plain("synthesis"))' \/ Ahead("stage", Plain("synthesis"))'
      BY <1>1, <1>3, <3>1
    <3>4. CASE Ahead("usable", None)
      <4>1. Act("usable", None) \in ToSet(todo') \/ Act("usable", None) = h
        BY <3>4 DEF Ahead
      <4>2. CASE Act("usable", None) \in ToSet(todo')
        BY <3>3, <4>2 DEF Ahead
      <4>3. CASE Act("usable", None) = h
        BY <2>6, <2>7, <4>3 DEF DoneOf
      <4> QED BY <4>1, <4>2, <4>3
    <3>5. CASE Completed(Plain("synthesis")) /\ Value(Plain("synthesis")).answer = "usable"
      BY <1>1, <3>5 DEF Keeps
    <3> QED BY <3>2, <3>3, <3>4, <3>5
  <2> QED BY <2>1, <2>2, <2>3, <2>4, <2>5, <2>6, <2>7 DEF Closes, Goes
<1> QED BY <1>5, <1>7, <1>8 DEF Goes

\* The timeline only grows, and where an event of the program is told, those before it are.
Grows ==
    /\ TimelineHolds'
    /\ timeline' = timeline \/ \E x \in Tales \cup ServiceTales : timeline' = Append(timeline, x)
    /\ \A e \in Tales : Told(e) => Told(e)'

LEMMA PrefixGrows ==
    ASSUME NEW S, NEW s \in Seq(S), NEW t \in Seq(S), NEW x \in S, IsPrefix(s, t)
    PROVE  IsPrefix(s, Append(t, x)) /\ IsPrefix(t, t)
<1>1. Len(s) \in Nat /\ Len(t) \in Nat /\ Len(s) <= Len(t) /\ SubSeq(s, 1, Len(s)) = SubSeq(t, 1, Len(s))
  BY LenProperties DEF IsPrefix
<1>2. Append(t, x) \in Seq(S) /\ Len(Append(t, x)) = Len(t) + 1
  BY AppendProperties
<1>3. SubSeq(Append(t, x), 1, Len(s)) = SubSeq(t, 1, Len(s))
  <2>1. SubSeq(Append(t, x), 1, Len(s)) = [i \in 1 .. Len(s) |-> Append(t, x)[i]]
    BY <1>1, <1>2
  <2>2. SubSeq(t, 1, Len(s)) = [i \in 1 .. Len(s) |-> t[i]]
    BY <1>1
  <2>3. \A i \in 1 .. Len(s) : Append(t, x)[i] = t[i]
    BY <1>1, AppendProperties
  <2> QED BY <2>1, <2>2, <2>3
<1> QED BY <1>1, <1>2, <1>3 DEF IsPrefix

LEMMA PrefixIsItself ==
    ASSUME NEW S, NEW t \in Seq(S)
    PROVE  IsPrefix(t, t)
<1>1. Len(t) \in Nat
  BY LenProperties
<1> QED BY <1>1 DEF IsPrefix

\* What a step may do with the state of a run that has a result saved, or one refused.
StateMoves ==
    /\ runState = "failed" => runState' = "failed"
    /\ "published" \in DOMAIN saved => ~Live'
    /\ Ended' => "result" \in DOMAIN saved

LEMMA SelectionKeys ==
    ASSUME SearchDone, AnswersHold
    PROVE  /\ Selection \in Seq(Found) /\ ToSet(Selection) \subseteq Found
           /\ BodyKeys(Selection) \subseteq Keys
<1>1. Selection \in Seq(Found)
  BY SelectionHas
<1>2. ToSet(Selection) \subseteq Found
  BY <1>1, ElementOfSeq, LenProperties DEF ToSet
<1>3. \A p \in ToSet(Selection) : \A s \in {"acquire", "ingest"} : Key(s, p) \in Keys
  BY <1>2, KeysHave
<1> QED BY <1>1, <1>2, <1>3, KeysHave DEF BodyKeys

\* Nothing saved depends on more than completed stages.
LEMMA ResultStays ==
    ASSUME ResultHolds, AnswersHold, AnswersHold', TimelineHolds, Keeps, saved' = saved, Grows, StateMoves
    PROVE  ResultHolds'
<1>1. CASE "result" \in DOMAIN saved
  <2>1. /\ ResultIsEarned /\ SearchDone /\ \A k \in BodyKeys(Selection) : Completed(k)
        /\ FinalOutcome = "succeeded" => Completed(Plain("synthesis"))
        /\ saved["result"] = ResultOf(saved["result"].timeline)
        /\ saved["result"].timeline \in Seq(Tales \cup ServiceTales)
        /\ IsPrefix(saved["result"].timeline, timeline)
    BY <1>1 DEF ResultHolds
  <2>2. /\ SearchDone' /\ Snapshot' = Snapshot /\ Selection' = Selection /\ Stamp' = Stamp
        /\ ExpansionAnswers # {} => Expansion' = Expansion
    BY <2>1, SelectionStays
  <2>3. /\ ToSet(Selection) \subseteq Found /\ BodyKeys(Selection) \subseteq Keys
        /\ BodyKeys(Selection)' = BodyKeys(Selection)
    BY <2>1, <2>2, SelectionKeys DEF BodyKeys
  <2>4. \A k \in BodyKeys(Selection)' : Completed(k)'
    BY <2>1, <2>3 DEF Keeps
  <2>5. Reliability' = Reliability
    BY <2>1, KeysHave DEF Keeps, Reliability, BodyKeys
  <2>6. FinalOutcome' = FinalOutcome
    BY <2>2, <2>5 DEF FinalOutcome
  <2>7. (FinalOutcome = "succeeded" => Completed(Plain("synthesis")))'
    BY <2>1, <2>6, KeysHave DEF Keeps
  <2>8. (saved["result"] = ResultOf(saved["result"].timeline))'
    BY <2>1, <2>2, <2>6 DEF ResultOf
  <2>9. IsPrefix(saved["result"].timeline, timeline')
    <3>1. timeline \in Seq(Tales \cup ServiceTales)
      BY DEF TimelineHolds
    <3> DEFINE t == saved["result"].timeline
    <3> HIDE DEF t
    <3>2. t \in Seq(Tales \cup ServiceTales) /\ IsPrefix(t, timeline)
      BY <2>1 DEF t
    <3>3. IsPrefix(t, timeline')
      BY <3>1, <3>2, PrefixGrows DEF Grows
    <3> QED BY <3>3 DEF t
  <2>10. ResultIsEarned'
    <3> DEFINE r == saved["result"]
    <3>1. /\ Len(r.papers) >= MinPapers
          /\ \A p \in ToSet(r.papers) :
               /\ r.lifecycle[p].stage = "analyzed"
               /\ \A k \in {"acquire", "ingest"} : requests[Key(k, p)].state = "completed"
          /\ ToSet(Story) \subseteq ToSet(r.timeline) /\ InOrder(r.timeline)
          /\ "published" \in DOMAIN saved => saved["published"] = r
          /\ r.outcome = "succeeded" =>
               /\ requests[Plain("search")].answer.ok
               /\ ExpansionAnswers # {} => requests[Plain("citations")].answer.ok
               /\ requests[Plain("synthesis")].answer = "usable"
      BY <1>1, <2>1 DEF ResultIsEarned
    <3>2. r.papers = Selection /\ r.outcome = FinalOutcome
      BY <2>1 DEF ResultOf
    <3>3. \A k \in Keys : Completed(k) /\ k # Plain("start") =>
            /\ requests'[k].state = "completed" /\ requests'[k].answer = requests[k].answer
      BY DEF AnswersHold, Keeps, Value, Completed
    <3>4. /\ Plain("search") \in Keys /\ Plain("search") # Plain("start")
          /\ Plain("citations") \in Keys /\ Plain("citations") # Plain("start")
          /\ Plain("synthesis") \in Keys /\ Plain("synthesis") # Plain("start")
      BY KeysHave DEF Plain, Key
    <3>5. ASSUME NEW p \in ToSet(r.papers), NEW k \in {"acquire", "ingest"}
          PROVE  requests'[Key(k, p)].state = "completed"
      <4>1. Key(k, p) \in BodyKeys(Selection) /\ Key(k, p) # Plain("start")
        BY <3>2 DEF BodyKeys, Key, Plain
      <4> QED BY <2>1, <2>3, <3>3, <4>1
    <3>6. r.outcome = "succeeded" =>
            /\ requests'[Plain("search")].answer.ok
            /\ ExpansionAnswers # {} => requests'[Plain("citations")].answer.ok
            /\ requests'[Plain("synthesis")].answer = "usable"
      BY <2>1, <3>1, <3>2, <3>3, <3>4 DEF SearchDone
    <3> HIDE DEF r
    <3>7. saved'["result"] = r /\ DOMAIN saved' = DOMAIN saved /\ saved'["published"] = saved["published"]
      BY DEF r
    <3> QED BY <3>1, <3>5, <3>6, <3>7 DEF ResultIsEarned
  <2> QED BY <1>1, <2>1, <2>2, <2>4, <2>7, <2>8, <2>9, <2>10 DEF ResultHolds, StateMoves
<1>2. CASE "result" \notin DOMAIN saved
  BY <1>2 DEF ResultHolds, StateMoves
<1> QED BY <1>1, <1>2

LEMMA ContentsStay ==
    ASSUME SavedHolds, AnswersHold, AnswersHold', TimelineHolds, Keeps, saved' = saved, Grows, StateMoves,
           RefusedHolds'
    PROVE  SavedHolds'
<1>2. Plain("verify") \in Keys /\ \A q \in 1 .. Scopes : Key("analyze", q) \in Keys
  BY KeysHave
<1>3. "search" \in DOMAIN saved => SearchDone' /\ saved["search"] = Snapshot'
  BY SelectionStays DEF SavedHolds
<1>4. "analysis" \in DOMAIN saved =>
        /\ \A q \in 1 .. Scopes : Completed(Key("analyze", q))'
        /\ saved["analysis"] = [q \in 1 .. Scopes |-> Value(Key("analyze", q))']
  BY <1>2 DEF SavedHolds, Keeps
<1>5. "citations" \in DOMAIN saved =>
        /\ SearchDone'
        /\ saved["citations"] =
             [nodes |-> [p \in ToSet(Selection)' |-> [stage |-> "analyzed", at |-> Stamp']],
              at |-> Stamp']
  BY SelectionStays DEF SavedHolds
<1>6. "verification" \in DOMAIN saved => Completed(Plain("verify"))' /\ saved["verification"] = Reliability'
  BY <1>2 DEF SavedHolds, Keeps, Reliability
<1>7. ResultHolds'
  BY ResultStays DEF SavedHolds
<1> QED BY <1>3, <1>4, <1>5, <1>6, <1>7 DEF SavedHolds

LEMMA SavedStays ==
    ASSUME SavedHolds, AnswersHold, AnswersHold', TimelineHolds, Keeps, saved' = saved, refused' = refused,
           Grows, StateMoves
    PROVE  SavedHolds'
<1>1. RefusedHolds'
  BY DEF SavedHolds, RefusedHolds, StateMoves
<1> QED BY <1>1, ContentsStay

LEMMA ClockStays ==
    ASSUME StartHolds, UNCHANGED <<journal, firstStart>>, deadline' = deadline \/ deadline' = 0
    PROVE  StartHolds'
BY DEF StartHolds, Completed, Value, DeadlineOf

\* A step that leaves the journal and the requests alone.
LEMMA JournalStays ==
    ASSUME ResearchInv, UNCHANGED <<journal, requests, sent, firstStart>>, now' \in Nat, todo' \in Seq(Program),
           deadline' = deadline \/ deadline' = 0
    PROVE  Keeps /\ JournalTypes' /\ AnswersHold' /\ StartHolds'
<1>1. Keeps
  BY DEF Keeps, Completed, Value
<1>2. JournalTypes'
  BY DEF ResearchInv, JournalTypes
<1>3. AnswersHold'
  BY DEF ResearchInv, AnswersHold, Completed, Value, AnswersTo
<1>4. StartHolds'
  BY ClockStays DEF ResearchInv
<1> QED BY <1>1, <1>2, <1>3, <1>4

LEMMA TimelineStays ==
    ASSUME TimelineHolds, timeline' = timeline
    PROVE  Grows
BY DEF TimelineHolds, Told, Grows

LEMMA StoryIs ==
    /\ DOMAIN Story = 1 .. 6 /\ \A n \in 1 .. 6 : Story[n] \in Tales
    /\ \A e \in Tales : \E n \in 1 .. 6 : Story[n] = e
    /\ \A m, n \in 1 .. 6 : Story[m] = Story[n] => m = n
    /\ \A m, n \in 1 .. 6 : m < n <=> EventPlace[Story[m]] < EventPlace[Story[n]]
<1>1. /\ Story[1] = "search" /\ Story[2] = "retrieval" /\ Story[3] = "citations"
      /\ Story[4] = "evidence" /\ Story[5] = "verification" /\ Story[6] = "synthesis"
      /\ DOMAIN Story = 1 .. 6
  BY DEF Story
<1>2. /\ EventPlace["search"] = 6 /\ EventPlace["retrieval"] = 9 /\ EventPlace["citations"] = 14
      /\ EventPlace["evidence"] = 15 /\ EventPlace["verification"] = 19
      /\ EventPlace["synthesis"] = 23
  BY DEF EventPlace
<1>3. \A n \in 1 .. 6 : Story[n] \in Tales
  BY <1>1 DEF Tales
<1>4. \A e \in Tales : \E n \in 1 .. 6 : Story[n] = e
  <2>1. {1, 2, 3, 4, 5, 6} = 1 .. 6
    OBVIOUS
  <2> QED BY <1>1, <2>1 DEF Tales
<1>5. \A i \in 1 .. 6 : EventPlace[Story[i]] =
        (IF i = 1 THEN 6 ELSE IF i = 2 THEN 9 ELSE IF i = 3 THEN 14 ELSE IF i = 4 THEN 15
         ELSE IF i = 5 THEN 19 ELSE 23)
  BY <1>1, <1>2
<1> QED BY <1>1, <1>3, <1>4, <1>5

\* An event that comes after all those told and before all those that are not.
LEMMA TimelineGrows ==
    ASSUME TimelineHolds, NEW x \in Tales \cup ServiceTales, timeline' = Append(timeline, x),
           \A n \in 1 .. 6 : x = Story[n] => ~Told(x) /\ \A m \in 1 .. 6 : m < n => Told(Story[m])
    PROVE  Grows /\ Told(x)'
<1> DEFINE L == Len(timeline)
<1>1. /\ timeline \in Seq(Tales \cup ServiceTales) /\ L \in Nat /\ DOMAIN timeline = 1 .. L
      /\ timeline' \in Seq(Tales \cup ServiceTales) /\ DOMAIN timeline' = 1 .. L + 1
      /\ \A i \in 1 .. L : timeline'[i] = timeline[i]
      /\ timeline'[L + 1] = x
  BY AppendProperties, LenProperties DEF TimelineHolds
<1>2. \A e : Told(e) <=> \E i \in 1 .. L : timeline[i] = e
  BY <1>1 DEF Told, ToSet
<1>3. \A e : Told(e)' <=> \E i \in 1 .. L + 1 : timeline'[i] = e
  BY <1>1 DEF Told, ToSet
<1>4. \A e : Told(e)' <=> Told(e) \/ e = x
  BY <1>1, <1>2, <1>3
<1>5. \A m, n \in 1 .. 6 : m < n /\ Told(Story[n]) => Told(Story[m])
  BY StoryIs DEF TimelineHolds
<1>6. ASSUME NEW m \in 1 .. 6, NEW n \in 1 .. 6, m < n, Told(Story[n])' PROVE Told(Story[m])'
  BY <1>4, <1>5, <1>6
<1>7. ASSUME NEW i \in 1 .. L + 1, NEW j \in 1 .. L + 1, NEW m \in 1 .. 6, NEW n \in 1 .. 6,
             timeline'[i] = Story[m], timeline'[j] = Story[n]
      PROVE  i < j <=> m < n
  <2>1. CASE i \in 1 .. L /\ j \in 1 .. L
    BY <1>1, <1>7, <2>1, StoryIs DEF TimelineHolds, InOrder
  <2>2. CASE i = L + 1 /\ j = L + 1
    <3>1. m = n
      BY <1>7, <2>2, StoryIs
    <3> QED BY <2>2, <3>1
  <2>3. CASE i = L + 1 /\ j \in 1 .. L
    <3>1. x = Story[m] /\ Told(Story[n]) /\ ~Told(Story[m])
      BY <1>1, <1>2, <1>7, <2>3
    <3>2. ~(m < n)
      BY <1>5, <3>1
    <3> QED BY <1>1, <2>3, <3>2
  <2>4. CASE i \in 1 .. L /\ j = L + 1
    <3>1. x = Story[n] /\ Told(Story[m]) /\ ~Told(Story[n])
      BY <1>1, <1>2, <1>7, <2>4
    <3>2. ~(n < m) /\ n # m
      BY <1>5, <3>1
    <3> QED BY <1>1, <2>4, <3>2
  <2>5. /\ i \in 1 .. L \/ i = L + 1
        /\ j \in 1 .. L \/ j = L + 1
    BY <1>1
  <2> QED BY <2>1, <2>2, <2>3, <2>4, <2>5
<1>8. InOrder(timeline')
  BY <1>1, <1>7, StoryIs DEF InOrder
<1>9. TimelineHolds'
  BY <1>1, <1>6, <1>8, StoryIs DEF TimelineHolds
<1> QED BY <1>4, <1>9 DEF Grows

LEMMA TheServiceTells ==
    ASSUME TimelineHolds, NEW x \in ServiceTales, Tell(x) \/ TellOnce(x) \/ UNCHANGED timeline
    PROVE  Grows
<1>1. CASE timeline' = timeline
  BY <1>1, TimelineStays
<1>2. CASE timeline' = Append(timeline, x)
  <2>1. \A n \in 1 .. 6 : x # Story[n]
    BY StoryIs DEF Tales, ServiceTales
  <2> QED BY <1>2, <2>1, TimelineGrows
<1> QED BY <1>1, <1>2 DEF Tell, TellOnce

\* A session that ends leaves nothing of its program.
LEMMA SessionEnds ==
    ASSUME ResearchInv, UNCHANGED <<journal, requests, saved, now, firstStart, sent, refused>>, Grows,
           deadline' = deadline \/ deadline' = 0, todo' = <<>>,
           runState # "failed", ~Live', Ended' => "result" \in DOMAIN saved
    PROVE  ResearchInv'
<1>1. Keeps /\ JournalTypes' /\ AnswersHold' /\ StartHolds'
  BY JournalStays, NothingHas DEF ResearchInv, JournalTypes
<1>2. TimelineHolds' /\ SavedHolds'
  BY <1>1, SavedStays DEF ResearchInv, Grows, StateMoves
<1>3. StageIsInDoubt' /\ ProgramHolds'
  BY DEF StageIsInDoubt, ProgramHolds, Live
<1> QED BY <1>1, <1>2, <1>3 DEF ResearchInv

\* The session of a task ends with the mark of an interruption, which may be told.
LEMMA Interrupted ==
    ASSUME TimelineHolds, Interrupts \/ EndsUncertain
    PROVE  /\ Grows /\ todo' = <<>> /\ ~Live' /\ ~Ended'
           /\ runState' \in {"interrupted", "cancelled"}
<1>1. CASE Interrupts
  <2>1. "task_interrupted" \in ServiceTales
    BY DEF ServiceTales
  <2>2. Grows
    BY <1>1, <2>1, TheServiceTells DEF Interrupts
  <2> QED BY <1>1, <2>2 DEF Interrupts, Ends, Live, Ended
<1>2. CASE cancelSet /\ Ends("cancelled") /\ UNCHANGED timeline
  BY <1>2, TimelineStays DEF Ends, Live, Ended
<1> QED BY <1>1, <1>2 DEF EndsUncertain

\* What a session that walks has before it.
LEMMA StepIs ==
    ASSUME ResearchInv, Live
    PROVE  /\ Goes /\ todo \in Seq(Program) /\ todo # <<>> /\ Step \in Program
           /\ Tail(todo) \in Seq(Program)
           /\ \A t \in ToSet(todo) : t \in ToSet(Tail(todo)) \/ t = Step
           /\ \A a, b \in Nat : Within(todo, a, b) =>
                /\ Within(Tail(todo), a, b)
                /\ Step.kind # "check" => a <= Place(Step) /\ Place(Step) <= b
           /\ Step.kind # "check" =>
                \A t \in ToSet(todo) : t.kind # "check" => Place(Step) <= Place(t)
<1>1. Goes /\ todo \in Seq(Program)
  BY DEF ResearchInv, JournalTypes, ProgramHolds, Live, Goes
<1>2. todo # <<>>
  <2>1. \E t : t \in ToSet(todo)
    BY <1>1 DEF Goes, Opens, Collects, Closes, Ahead
  <2> QED BY <2>1, NothingHas
<1>3. \E a, b \in Nat : Within(todo, a, b)
  BY <1>1 DEF Goes, Opens, Collects, Closes
<1>4. \A a, b \in Nat : Within(todo, a, b) =>
        /\ Step \in Program /\ Step \in ToSet(todo)
        /\ Tail(todo) \in Seq(Program) /\ Within(Tail(todo), a, b)
        /\ ToSet(todo) = {Step} \cup ToSet(Tail(todo))
        /\ Step.kind # "check" => \A t \in ToSet(todo) : t.kind # "check" => Place(Step) <= Place(t)
  BY <1>1, <1>2, TailHas DEF Step
<1>5. ASSUME NEW a \in Nat, NEW b \in Nat, Within(todo, a, b), Step.kind # "check"
      PROVE  a <= Place(Step) /\ Place(Step) <= b
  <2>1. PICK i \in DOMAIN todo : todo[i] = Step
    BY <1>4, <1>5 DEF ToSet
  <2> QED BY <1>5, <2>1 DEF Within
<1> QED BY <1>1, <1>2, <1>3, <1>4, <1>5

LEMMA KindsAre ==
    ASSUME NEW t \in Program
    PROVE  /\ t.kind = "stage" => t.on \in Keys /\ t = Act("stage", t.on)
           /\ t.kind = "save" => t.on \in Names /\ t = Act("save", t.on)
           /\ t.kind = "event" => t.on \in Tales /\ t = Act("event", t.on)
           /\ t.kind = "mark" =>
                \E p \in Found : \E s \in {"acquired", "ingested", "analyzed"} :
                  t.on = <<p, s>> /\ t = Act("mark", <<p, s>>)
           /\ t.kind \in {"select", "merge", "report", "check", "usable"} => t = Act(t.kind, None)
           /\ t.kind \in {"stage", "save", "event", "mark", "select", "merge", "report", "check", "usable"}
<1>1. CASE t \in {Act("stage", k) : k \in Keys}
  BY <1>1 DEF Act
<1>2. CASE t \in {Act("save", n) : n \in Names}
  BY <1>2 DEF Act
<1>3. CASE t \in {Act("event", e) : e \in Tales}
  BY <1>3 DEF Act
<1>4. CASE t \in {Act("mark", x) : x \in Found \X {"acquired", "ingested", "analyzed"}}
  <2>1. PICK x \in Found \X {"acquired", "ingested", "analyzed"} : t = Act("mark", x)
    BY <1>4
  <2>2. x = <<x[1], x[2]>> /\ x[1] \in Found /\ x[2] \in {"acquired", "ingested", "analyzed"}
    OBVIOUS
  <2>3. t.kind = "mark" /\ t.on = x
    BY <2>1 DEF Act
  <2> QED BY <2>1, <2>2, <2>3
<1>5. CASE t \in {Act(k, None) : k \in {"select", "merge", "report", "check", "usable"}}
  BY <1>5 DEF Act
<1> QED BY <1>1, <1>2, <1>3, <1>4, <1>5 DEF Program

\* A session that walks on: its step is done, and nothing that was done is undone.
LEMMA SessionGoesOn ==
    ASSUME ResearchInv, Live, todo' = Tail(todo), runState' = "walking", papers' = papers,
           Keeps, todo' \in Seq(Program) => JournalTypes', AnswersHold', StartHolds', TimelineHolds', SavedHolds',
           NEW h, h = Step, DoneOf(h)', PapersHold => PapersHold',
           \A p \in ToSet(papers) : lifecycle[p].stage = "analyzed" => lifecycle'[p].stage = "analyzed",
           Grows
    PROVE  ResearchInv'
<1>1. /\ Goes /\ todo' \in Seq(Program) /\ AnswersHold
      /\ \A t \in ToSet(todo) : t \in ToSet(todo') \/ t = h
      /\ \A a, b \in Nat : Within(todo, a, b) => Within(todo', a, b)
  BY StepIs DEF ResearchInv
<1>2. Goes'
  BY <1>1, ProgramGoesOn DEF Grows
<1>3. StageIsInDoubt'
  BY DEF StageIsInDoubt
<1> QED BY <1>1, <1>2, <1>3 DEF ResearchInv, ProgramHolds, Goes

LEMMA LiveMoves ==
    ASSUME ResearchInv, Live, Live' \/ (~Ended' /\ saved' = saved)
    PROVE  StateMoves
BY DEF StateMoves, Live, Ended, ResearchInv, SavedHolds, ResultHolds

\* The same, for a step that moves no stage of a paper and journals nothing.
LEMMA WalksOn ==
    ASSUME ResearchInv, runState = "walking", todo' = Tail(todo),
           UNCHANGED <<journal, requests, saved, papers, lifecycle, runState, now, firstStart, sent, refused>>,
           StartHolds', Grows, NEW h, h = Step, DoneOf(h)'
    PROVE  ResearchInv'
<1>1. Live /\ runState' = "walking" /\ papers' = papers /\ todo' = Tail(todo) /\ TimelineHolds'
  BY DEF Live, Grows
<1>2. Keeps /\ (todo' \in Seq(Program) => JournalTypes') /\ AnswersHold'
  <2>1. Keeps
    BY DEF Keeps, Completed, Value
  <2>2. todo' \in Seq(Program) => JournalTypes'
    BY DEF ResearchInv, JournalTypes
  <2>3. AnswersHold'
    BY DEF ResearchInv, AnswersHold, Completed, Value, AnswersTo
  <2> QED BY <2>1, <2>2, <2>3
<1>3. PapersHold => PapersHold'
  <2>1. PapersHold =>
          lifecycle' = [p \in ToSet(papers) |-> [stage |-> lifecycle'[p].stage, at |-> Stamp]]
    BY DEF PapersHold
  <2> QED BY <1>1, <1>2, <2>1, PapersStay
<1>4. SavedHolds'
  BY <1>1, <1>2, LiveMoves, SavedStays DEF ResearchInv, Live
<1>5. \A p \in ToSet(papers) : lifecycle[p].stage = "analyzed" => lifecycle'[p].stage = "analyzed"
  OBVIOUS
<1> QED BY <1>1, <1>2, <1>3, <1>4, <1>5, SessionGoesOn

LEMMA TheSessionStarts ==
    ASSUME ResearchInv, StartSession
    PROVE  ResearchInv'
<1>1. /\ runState = "queued" /\ deadline' = 0 /\ ~Live
      /\ UNCHANGED <<journal, requests, saved, timeline, now, firstStart, sent, refused>>
  BY DEF StartSession, Live
<1>2. Grows
  BY <1>1, TimelineStays DEF ResearchInv
<1>3. CASE cancelSet
  <2>1. todo' = <<>> /\ ~Live' /\ ~Ended'
    BY <1>3 DEF StartSession, Ends, Live, Ended
  <2> QED BY <1>1, <1>2, <2>1, SessionEnds
<1>4. CASE ~cancelSet /\ "published" \in DOMAIN saved
  <2>1. todo' = <<>> /\ ~Live'
    BY <1>4 DEF StartSession, Ends, Live
  <2>2. "result" \in DOMAIN saved
    BY <1>4 DEF ResearchInv, SavedHolds, ResultHolds
  <2> QED BY <1>1, <1>2, <2>1, <2>2, SessionEnds
<1>5. CASE ~cancelSet /\ "published" \notin DOMAIN saved
  <2>1. todo' = Opening /\ runState' = "walking"
    BY <1>5 DEF StartSession
  <2>2. Keeps /\ JournalTypes' /\ AnswersHold' /\ StartHolds'
    BY <1>1, <2>1, JournalStays, OpeningHas DEF ResearchInv, JournalTypes
  <2>3. TimelineHolds' /\ SavedHolds'
    <3>1. StateMoves
      BY <1>1, <1>5, <2>1 DEF StateMoves, Live, Ended
    <3> QED BY <1>1, <1>2, <2>2, <3>1, SavedStays DEF ResearchInv, Grows
  <2>4. StageIsInDoubt'
    BY <2>1 DEF StageIsInDoubt
  <2>5. Opens'
    BY <2>1, OpeningHas DEF Opens, Ahead
  <2> QED BY <2>2, <2>3, <2>4, <2>5 DEF ResearchInv, ProgramHolds
<1> QED BY <1>3, <1>4, <1>5

\* The ways in which a session ends with all it has as it was.
LEMMA TheSessionEnds ==
    ASSUME ResearchInv, StopAtStage \/ CrashRun \/ RefuseUnsynced \/ CloseTask
    PROVE  ResearchInv'
<1>1. UNCHANGED <<journal, requests, saved, deadline, now, firstStart, sent, refused>> /\ TimelineHolds
  BY DEF StopAtStage, CrashRun, RefuseUnsynced, CloseTask, ResearchInv
<1>2. CASE StopAtStage
  <2>1. todo' = <<>> /\ ~Live' /\ ~Ended' /\ runState # "failed" /\ UNCHANGED timeline
    BY <1>2 DEF StopAtStage, Ends, Live, Ended
  <2> QED BY <1>1, <2>1, TimelineStays, SessionEnds
<1>3. CASE CrashRun \/ RefuseUnsynced
  <2>1. Interrupts /\ runState # "failed"
    BY <1>3 DEF CrashRun, RefuseUnsynced, Running, Live
  <2> QED BY <1>1, <2>1, Interrupted, SessionEnds
<1>4. CASE CloseTask
  <2>1. /\ todo' = <<>> /\ ~Live' /\ runState = "publishing" /\ TellOnce("workflow_finished")
        /\ "workflow_finished" \in ServiceTales
    BY <1>4 DEF CloseTask, Ends, Live, ServiceTales
  <2>2. "result" \in DOMAIN saved
    BY <2>1 DEF ResearchInv, SavedHolds, ResultHolds, Ended
  <2>3. Grows
    BY <1>1, <2>1, TheServiceTells
  <2> QED BY <1>1, <2>1, <2>2, <2>3, SessionEnds
<1> QED BY <1>2, <1>3, <1>4

\* The service takes the result of the run as its own, or ends a task that was cancelled.
LEMMA TheResultIsPublished ==
    ASSUME ResearchInv, Publish
    PROVE  ResearchInv'
<1>1. /\ runState = "returning" /\ ~Live
      /\ UNCHANGED <<journal, requests, timeline, papers, lifecycle, deadline, now, firstStart, sent, refused>>
  BY DEF Publish, Live
<1>2. Grows /\ "result" \in DOMAIN saved
  BY <1>1, TimelineStays DEF ResearchInv, SavedHolds, ResultHolds, Ended
<1>3. CASE cancelSet
  <2>1. todo' = <<>> /\ ~Live' /\ ~Ended' /\ saved' = saved
    BY <1>3 DEF Publish, Ends, Live, Ended
  <2> QED BY <1>1, <1>2, <2>1, SessionEnds
<1>4. CASE ~cancelSet
  <2>1. /\ runState' = "publishing" /\ todo' = todo /\ ~Live'
        /\ saved' = [n \in DOMAIN saved \cup {"published"} |->
                       IF n \in DOMAIN saved THEN saved[n] ELSE saved["result"]]
    BY <1>4 DEF Publish, Live
  <2>2. /\ DOMAIN saved' = DOMAIN saved \cup {"published"}
        /\ \A n \in DOMAIN saved : saved'[n] = saved[n]
        /\ "published" \notin DOMAIN saved => saved'["published"] = saved["result"]
    BY <2>1
  <2>3. Keeps /\ JournalTypes' /\ AnswersHold' /\ StartHolds'
    BY <1>1, <2>1, JournalStays DEF ResearchInv, JournalTypes
  <2>4. StageIsInDoubt' /\ ProgramHolds' /\ TimelineHolds'
    BY <1>2, <2>1 DEF StageIsInDoubt, ProgramHolds, Live, Grows
  <2>5. /\ Snapshot' = Snapshot /\ SearchDone' = SearchDone /\ Selection' = Selection
        /\ Stamp' = Stamp /\ Reliability' = Reliability /\ FinalOutcome' = FinalOutcome
    BY <1>1 DEF Snapshot, SearchDone, Selection, Stamp, Reliability, Value, Completed, Accessible,
                Ranked, Discovered, Expansion, FinalOutcome
  <2>6. ResultIsEarned'
    <3>1. ResultIsEarned /\ saved'["result"] = saved["result"]
      BY <1>2, <2>2 DEF ResearchInv, SavedHolds, ResultHolds
    <3>2. saved'["published"] = saved["result"]
      BY <1>2, <2>2, <3>1 DEF ResultIsEarned
    <3> QED BY <1>1, <1>2, <3>1, <3>2 DEF ResultIsEarned
  <2>7. ResultHolds'
    <3>1. /\ SearchDone /\ \A k \in BodyKeys(Selection) : Completed(k)
          /\ FinalOutcome = "succeeded" => Completed(Plain("synthesis"))
          /\ saved["result"] = ResultOf(saved["result"].timeline)
          /\ saved["result"].timeline \in Seq(Tales \cup ServiceTales)
          /\ IsPrefix(saved["result"].timeline, timeline)
      BY <1>2 DEF ResearchInv, SavedHolds, ResultHolds
    <3>2. saved'["result"] = saved["result"] /\ "result" \in DOMAIN saved'
      BY <1>2, <2>2
    <3>3. (saved["result"] = ResultOf(saved["result"].timeline))'
      BY <2>5, <3>1, <3>2 DEF ResultOf
    <3>4. \A k \in BodyKeys(Selection)' : Completed(k)'
      BY <1>1, <2>5, <3>1 DEF BodyKeys, Completed
    <3>5. (FinalOutcome = "succeeded" => Completed(Plain("synthesis")))'
      BY <1>1, <2>5, <3>1 DEF Completed
    <3> QED BY <1>1, <2>1, <2>5, <2>6, <3>1, <3>2, <3>3, <3>4, <3>5 DEF ResultHolds
  <2>8. RefusedHolds'
    BY <1>1 DEF ResearchInv, SavedHolds, RefusedHolds
  <2>9. SavedHolds'
    <3>1. /\ \A n \in Names : n \in DOMAIN saved' <=> n \in DOMAIN saved
          /\ \A n \in Names \cap DOMAIN saved : saved'[n] = saved[n]
      BY <2>2 DEF Names
    <3> QED BY <1>1, <2>5, <2>7, <2>8, <3>1 DEF ResearchInv, SavedHolds, Completed, Value, Names
  <2> QED BY <2>3, <2>4, <2>9 DEF ResearchInv
<1> QED BY <1>3, <1>4

LEMMA ACheckIsPassed ==
    ASSUME ResearchInv, Checked
    PROVE  ResearchInv'
<1>1. /\ runState = "walking" /\ todo' = Tail(todo) /\ Step.kind = "check"
      /\ UNCHANGED <<journal, requests, saved, timeline, papers, lifecycle, deadline, runState, now,
                     firstStart, sent, refused>>
  BY DEF Checked, Onward
<1>2. StartHolds' /\ Grows
  BY <1>1, ClockStays, TimelineStays DEF ResearchInv
<1> PICK h : h = Step
  OBVIOUS
<1>3. DoneOf(h)'
  BY <1>1 DEF DoneOf, Act
<1> QED BY <1>1, <1>2, <1>3, WalksOn

LEMMA AStageIsReplayed ==
    ASSUME ResearchInv, Replay
    PROVE  ResearchInv'
<1>1. /\ runState = "walking" /\ todo' = Tail(todo) /\ Step.kind = "stage" /\ Completed(Step.on)
      /\ UNCHANGED <<journal, requests, saved, timeline, papers, lifecycle, runState, now,
                     firstStart, sent, refused>>
      /\ deadline' = NewDeadline(Step.on, Value(Step.on))
  BY DEF Replay, Onward, Completed
<1>2. StartHolds'
  <2>1. CASE Step.on = Plain("start")
    <3>1. Completed(Plain("start")) /\ deadline' = DeadlineOf(firstStart)
      BY <1>1, <2>1 DEF NewDeadline, ResearchInv, StartHolds
    <3> QED BY <1>1, <3>1 DEF ResearchInv, StartHolds, Completed, Value, DeadlineOf
  <2>2. CASE Step.on # Plain("start")
    <3>1. deadline' = deadline
      BY <1>1, <2>2 DEF NewDeadline
    <3> QED BY <1>1, <3>1, ClockStays DEF ResearchInv
  <2> QED BY <2>1, <2>2
<1>3. Grows
  BY <1>1, TimelineStays DEF ResearchInv
<1> PICK h : h = Step
  OBVIOUS
<1>4. DoneOf(h)'
  <2>1. h.kind = "stage" /\ \A k \in Keys : h = Act("stage", k) => Completed(k)'
    BY <1>1 DEF Act, Completed
  <2> QED BY <2>1 DEF DoneOf, Act
<1> QED BY <1>1, <1>2, <1>3, <1>4, WalksOn

LEMMA TheAnswersAgree ==
    ASSUME ResearchInv, Merge
    PROVE  ResearchInv'
<1>1. CASE Ends("failed")
  <2>1. /\ UNCHANGED <<journal, requests, saved, timeline, deadline, now, firstStart, sent, refused>>
        /\ todo' = <<>> /\ runState # "failed" /\ ~Live' /\ ~Ended'
    BY <1>1 DEF Merge, Ends, Live, Ended
  <2> QED BY <2>1, TimelineStays, SessionEnds DEF ResearchInv
<1>2. CASE Onward /\ UNCHANGED runState
  <2>1. /\ runState = "walking" /\ todo' = Tail(todo) /\ Step.kind = "merge"
        /\ UNCHANGED <<journal, requests, saved, timeline, papers, lifecycle, deadline, runState, now,
                       firstStart, sent, refused>>
    BY <1>2 DEF Merge, Onward
  <2>2. StartHolds' /\ Grows
    BY <2>1, ClockStays, TimelineStays DEF ResearchInv
  <2> PICK h : h = Step
    OBVIOUS
  <2>3. DoneOf(h)'
    BY <2>1 DEF DoneOf, Act
  <2> QED BY <2>1, <2>2, <2>3, WalksOn
<1> QED BY <1>1, <1>2 DEF Merge

LEMMA TheNarrativeIsUsed ==
    ASSUME ResearchInv, Usable
    PROVE  ResearchInv'
<1>1. CASE Ends("failed")
  <2>1. /\ UNCHANGED <<journal, requests, saved, timeline, deadline, now, firstStart, sent, refused>>
        /\ todo' = <<>> /\ runState # "failed" /\ ~Live' /\ ~Ended'
    BY <1>1 DEF Usable, Ends, Live, Ended
  <2> QED BY <2>1, TimelineStays, SessionEnds DEF ResearchInv
<1>2. CASE Onward /\ UNCHANGED runState /\ Value(Plain("synthesis")).answer = "usable"
  <2>1. /\ runState = "walking" /\ todo' = Tail(todo) /\ Step.kind = "usable"
        /\ UNCHANGED <<journal, requests, saved, timeline, papers, lifecycle, deadline, runState, now,
                       firstStart, sent, refused>>
    BY <1>2 DEF Usable, Onward
  <2>2. StartHolds' /\ Grows
    BY <2>1, ClockStays, TimelineStays DEF ResearchInv
  <2>3. ASSUME Reliability.answer.included PROVE Completed(Plain("synthesis"))
    <3>1. Live
      BY <2>1 DEF Live
    <3>2. Step = Act("usable", None) /\ Place(Step) = 22
      BY <2>1, <3>1, StepIs, KindsAre, Places DEF OtherPlace
    <3>3. Act("stage", Plain("synthesis")).kind # "check" /\ Place(Act("stage", Plain("synthesis"))) = 21
      BY KeysHave, Places DEF Act, StagePlace
    <3>4. ~Ahead("stage", Plain("synthesis"))
      BY <2>1, <3>1, <3>2, <3>3, StepIs DEF Ahead
    <3>5. Closes
      <4>1. \A a, b \in Nat : Within(todo, a, b) => a <= 22 /\ 22 <= b
        BY <2>1, <3>1, <3>2, StepIs
      <4> QED BY <3>1, <4>1, StepIs DEF Goes, Opens, Collects
    <3> QED BY <2>3, <3>4, <3>5 DEF Closes
  <2> PICK h : h = Step
    OBVIOUS
  <2>4. DoneOf(h)'
    BY <1>2, <2>1, <2>3 DEF DoneOf, Act, Completed, Value, Reliability
  <2> QED BY <2>1, <2>2, <2>4, WalksOn
<1> QED BY <1>1, <1>2 DEF Usable

\* A step that takes nothing off the program.
LEMMA ProgramStands ==
    ASSUME Goes, AnswersHold, Keeps, UNCHANGED <<todo, papers, lifecycle>>, Grows
    PROVE  Goes'
<1>1. \A e \in Tales : Told(e) => Told(e)'
  BY DEF Grows
<1>2. PapersHold => PapersHold'
  <2>1. PapersHold =>
          lifecycle' = [p \in ToSet(papers) |-> [stage |-> lifecycle'[p].stage, at |-> Stamp]]
    BY DEF PapersHold
  <2> QED BY <2>1, PapersStay
<1> PICK h : h = Act("check", None)
  OBVIOUS
<1>3. DoneOf(h)'
  BY DEF DoneOf, Act
<1>4. /\ \A t \in ToSet(todo) : t \in ToSet(todo') \/ t = h
      /\ \A a, b \in Nat : Within(todo, a, b) => Within(todo', a, b)
      /\ papers' = papers
      /\ \A p \in ToSet(papers) : lifecycle[p].stage = "analyzed" => lifecycle'[p].stage = "analyzed"
  OBVIOUS
<1> QED BY <1>1, <1>2, <1>3, <1>4, ProgramGoesOn

\* A step of the running stage, or of nothing the session has before it.
LEMMA SessionStands ==
    ASSUME ResearchInv, UNCHANGED <<saved, todo, papers, lifecycle, refused>>, Grows,
           (Live /\ Live') \/ runState' = runState,
           Keeps, JournalTypes', StageIsInDoubt', AnswersHold', StartHolds'
    PROVE  ResearchInv'
<1>1. StateMoves
  <2>1. CASE Live /\ Live'
    BY <2>1, LiveMoves
  <2>2. CASE runState' = runState
    BY <2>2 DEF StateMoves, Live, Ended, ResearchInv, SavedHolds, ResultHolds
  <2> QED BY <2>1, <2>2
<1>2. TimelineHolds' /\ SavedHolds'
  BY <1>1, SavedStays DEF ResearchInv, Grows
<1>3. ProgramHolds'
  <2>1. Live' => Live
    BY DEF Live
  <2>2. Live => Goes /\ AnswersHold
    BY DEF ResearchInv, ProgramHolds, Goes
  <2>3. Live => Goes'
    BY <2>2, ProgramStands
  <2> QED BY <2>1, <2>3 DEF ProgramHolds, Goes
<1> QED BY <1>2, <1>3 DEF ResearchInv

\* The cancel flag, its event and the clock move nothing of a session; a task that waits
\* for its resumption ends with the flag.
LEMMA TheFlagIsSet ==
    ASSUME ResearchInv, CancelRun \/ CancelIsTold \/ Elapse
    PROVE  ResearchInv'
<1>1. CASE CancelRun /\ runState = "interrupted" /\ Ends("cancelled")
  <2>1. /\ UNCHANGED <<journal, requests, saved, timeline, deadline, now, firstStart, sent, refused>>
        /\ todo' = <<>> /\ runState # "failed" /\ ~Live' /\ ~Ended'
    BY <1>1 DEF CancelRun, Ends, Live, Ended
  <2> QED BY <2>1, TimelineStays, SessionEnds DEF ResearchInv
<1>2. CASE ~(CancelRun /\ runState = "interrupted" /\ Ends("cancelled"))
  <2>1. /\ UNCHANGED <<journal, requests, saved, todo, papers, lifecycle, deadline, runState,
                       firstStart, sent, refused>>
        /\ now' = now \/ now' = now + 1
        /\ Tell("task_cancel_requested") \/ UNCHANGED timeline
    BY <1>2 DEF CancelRun, CancelIsTold, Elapse
  <2>2. Keeps /\ JournalTypes' /\ AnswersHold' /\ StartHolds'
    BY <2>1, JournalStays DEF ResearchInv, JournalTypes
  <2>3. StageIsInDoubt'
    BY <2>1 DEF ResearchInv, StageIsInDoubt, Step
  <2>4. Grows
    <3>1. "task_cancel_requested" \in ServiceTales
      BY DEF ServiceTales
    <3> QED BY <2>1, <3>1, TheServiceTells DEF ResearchInv
  <2> QED BY <2>1, <2>2, <2>3, <2>4, SessionStands
<1> QED BY <1>1, <1>2

JournalIs(j) ==
    j = [k \in Keys |-> [state |-> j[k].state, tries |-> j[k].tries, value |-> j[k].value]]
RequestsAre(r) == r = [k \in Keys |-> [state |-> r[k].state, answer |-> r[k].answer]]

\* No stage completes, and none that did is touched.
SameDone ==
    \A k \in Keys :
        /\ journal'[k].state = "completed" => journal[k].state = "completed"
        /\ journal[k].state = "completed" =>
             journal'[k].state = "completed" /\ journal'[k].value = journal[k].value

LEMMA NoStageCompletes ==
    ASSUME ResearchInv, SameDone, UNCHANGED <<deadline, firstStart>>,
           \A k \in Keys :
             /\ requests'[k].state = "completed" => requests'[k].answer \in AnswersTo(k)
             /\ requests[k].state = "completed" =>
                  requests'[k].state = "completed" /\ requests'[k].answer = requests[k].answer
             /\ requests'[k].state = "absent" => sent'[k] = 0
             /\ sent'[k] <= 1
    PROVE  Keeps /\ AnswersHold' /\ StartHolds'
<1>1. Keeps
  BY DEF SameDone, Keeps, Completed, Value
<1>2. AnswersHold'
  BY DEF SameDone, ResearchInv, AnswersHold, Completed, Value, AnswersTo
<1>3. StartHolds'
  <2>1. Plain("start") \in Keys
    BY KeysHave
  <2> QED BY <2>1 DEF SameDone, ResearchInv, StartHolds, Completed, Value, DeadlineOf
<1> QED BY <1>1, <1>2, <1>3

LEMMA AStageBegins ==
    ASSUME ResearchInv, BeginStage
    PROVE  ResearchInv'
<1> DEFINE s == Step.on
<1>1. Live /\ s \in Keys
  <2>1. Live /\ Step.kind = "stage"
    BY DEF BeginStage, Live
  <2> QED BY <2>1, StepIs, KindsAre
<1>2. /\ journal' = [journal EXCEPT ![s].state = "pending", ![s].tries = @ + 1]
      /\ journal[s].state \in {"absent", "retryable"} /\ Step.kind = "stage"
      /\ UNCHANGED <<requests, saved, timeline, todo, papers, lifecycle, deadline, now, firstStart,
                     sent, refused>>
      /\ runState' = "staging" /\ Live'
  BY DEF BeginStage, Live
<1>3. /\ todo' = todo /\ todo # <<>> /\ (s)' = s /\ (Step.kind)' = "stage"
  BY <1>1, <1>2, StepIs DEF Step
<1> HIDE DEF s
<1>4. /\ JournalIs(journal')
      /\ journal'[s].state = "pending"
      /\ \A k \in Keys : k # s => journal'[k] = journal[k]
  <2> DEFINE e == journal[s]
  <2> PICK n : n = e.tries + 1
    OBVIOUS
  <2>1. /\ DOMAIN journal = Keys /\ e = [state |-> e.state, tries |-> e.tries, value |-> e.value]
        /\ \A k \in Keys : journal[k] = [state |-> journal[k].state, tries |-> journal[k].tries,
                                         value |-> journal[k].value]
    BY <1>1 DEF ResearchInv, JournalTypes
  <2>2. journal' = [k \in Keys |-> IF k = s THEN [e EXCEPT !.state = "pending", !.tries = n]
                                            ELSE journal[k]]
    BY <1>1, <1>2, <2>1
  <2> HIDE DEF e
  <2>3. [e EXCEPT !.state = "pending", !.tries = n]
          = [state |-> "pending", tries |-> n, value |-> e.value]
    <3> DEFINE m == [e EXCEPT !.state = "pending"]
    <3>1. m = [state |-> "pending", tries |-> e.tries, value |-> e.value]
      BY <2>1
    <3>2. [e EXCEPT !.state = "pending", !.tries = n] = [m EXCEPT !.tries = n]
      OBVIOUS
    <3> HIDE DEF m
    <3>3. [m EXCEPT !.tries = n] = [state |-> "pending", tries |-> n, value |-> e.value]
      BY <3>1
    <3> QED BY <3>2, <3>3
  <2>4. journal' = [k \in Keys |->
          IF k = s THEN [state |-> "pending", tries |-> n, value |-> e.value] ELSE journal[k]]
    BY <2>2, <2>3
  <2>5. /\ journal'[s] = [state |-> "pending", tries |-> n, value |-> e.value]
        /\ \A k \in Keys : k # s => journal'[k] = journal[k]
    BY <1>1, <2>4
  <2>6. \A k \in Keys : journal'[k] = [state |-> journal'[k].state, tries |-> journal'[k].tries,
                                       value |-> journal'[k].value]
    BY <2>1, <2>5
  <2>7. journal' = [k \in Keys |-> journal'[k]]
    BY <2>4
  <2>8. JournalIs(journal')
    BY <2>6, <2>7 DEF JournalIs
  <2> QED BY <2>5, <2>8 DEF e
<1>5. SameDone
  BY <1>1, <1>2, <1>4 DEF SameDone
<1>6. Keeps /\ AnswersHold' /\ StartHolds'
  BY <1>2, <1>5, NoStageCompletes DEF ResearchInv, AnswersHold
<1>7. JournalTypes'
  BY <1>2, <1>4 DEF ResearchInv, JournalTypes, JournalIs
<1>8. StageIsInDoubt'
  BY <1>1, <1>2, <1>3, <1>4 DEF StageIsInDoubt, s
<1>9. Grows
  BY <1>2, TimelineStays DEF ResearchInv
<1> QED BY <1>1, <1>2, <1>6, <1>7, <1>8, <1>9, SessionStands

\* What a running stage knows of itself.
LEMMA RunningStage ==
    ASSUME ResearchInv, runState \in {"staging", "calling"}
    PROVE  /\ Live /\ todo # <<>> /\ Step.kind = "stage" /\ Step.on \in Keys
           /\ journal[Step.on].state = "pending" /\ ~Completed(Step.on)
           /\ JournalIs(journal) /\ RequestsAre(requests)
BY DEF ResearchInv, StageIsInDoubt, JournalTypes, JournalIs, RequestsAre, Live, Completed

\* The request of a stage moves while its entry stands.
LEMMA TheRequestMoves ==
    ASSUME ResearchInv, Dispatch \/ Answered
    PROVE  ResearchInv'
<1> PICK s : s = Step.on
  OBVIOUS
<1>1. /\ runState \in {"staging", "calling"} /\ runState' \in {"staging", "calling"}
      /\ UNCHANGED <<journal, saved, timeline, todo, papers, lifecycle, deadline, now, firstStart, refused>>
  BY DEF Dispatch, Answered
<1>2. /\ Live /\ Live' /\ s \in Keys /\ journal[s].state = "pending"
      /\ todo # <<>> /\ Step.kind = "stage" /\ RequestsAre(requests) /\ sent \in [Keys -> Nat]
  BY <1>1, RunningStage DEF Live, ResearchInv, JournalTypes
<1>3. Step' = Step
  BY <1>1 DEF Step
<1>4. /\ requests' = [k \in Keys |-> [state |-> requests'[k].state, answer |-> requests'[k].answer]]
      /\ \A k \in Keys : k # s => requests'[k] = requests[k] /\ sent'[k] = sent[k]
      /\ sent' \in [Keys -> Nat]
      /\ \/ /\ Dispatch /\ requests'[s].state = "pending" /\ sent'[s] = sent[s] + 1
            /\ requests[s].state = "absent" /\ runState' = "calling"
         \/ /\ Answered /\ requests'[s].state = "completed" /\ requests'[s].answer \in AnswersTo(s)
            /\ sent'[s] = sent[s] /\ requests[s].state = "pending" /\ runState' = "staging"
  <2> DEFINE e == requests[s]
  <2>1. /\ DOMAIN requests = Keys /\ e = [state |-> e.state, answer |-> e.answer]
        /\ \A k \in Keys : requests[k] = [state |-> requests[k].state, answer |-> requests[k].answer]
    BY <1>2 DEF RequestsAre
  <2>2. CASE Dispatch
    <3>1. /\ requests' = [k \in Keys |-> IF k = s THEN [e EXCEPT !.state = "pending"] ELSE requests[k]]
          /\ requests[s].state = "absent" /\ runState' = "calling"
      BY <1>2, <2>1, <2>2 DEF Dispatch
    <3>2. sent' = [sent EXCEPT ![s] = sent[s] + 1]
      BY <1>2, <2>2 DEF Dispatch
    <3> HIDE DEF e
    <3>3. [e EXCEPT !.state = "pending"] = [state |-> "pending", answer |-> e.answer]
      BY <2>1
    <3>4. requests' = [k \in Keys |-> IF k = s THEN [state |-> "pending", answer |-> e.answer]
                                               ELSE requests[k]]
      BY <3>1, <3>3
    <3>5. \A k \in Keys : requests'[k] = [state |-> requests'[k].state, answer |-> requests'[k].answer]
      BY <2>1, <3>4
    <3>6. requests' = [k \in Keys |-> requests'[k]]
      BY <3>4
    <3>7. requests' = [k \in Keys |-> [state |-> requests'[k].state, answer |-> requests'[k].answer]]
      BY <3>5, <3>6
    <3>8. /\ \A k \in Keys : k # s => requests'[k] = requests[k] /\ sent'[k] = sent[k]
          /\ sent' \in [Keys -> Nat] /\ requests'[s].state = "pending" /\ sent'[s] = sent[s] + 1
      BY <1>2, <3>2, <3>4
    <3> QED BY <2>2, <3>1, <3>7, <3>8
  <2>3. CASE Answered
    <3>1. PICK a \in AnswersTo(s) : requests' = [requests EXCEPT ![s] = [state |-> "completed", answer |-> a]]
      BY <2>3 DEF Answered
    <3>2. requests' = [k \in Keys |-> IF k = s THEN [state |-> "completed", answer |-> a] ELSE requests[k]]
      BY <1>2, <2>1, <3>1
    <3>3. \A k \in Keys : requests'[k] = [state |-> requests'[k].state, answer |-> requests'[k].answer]
      BY <2>1, <3>2
    <3>4. requests' = [k \in Keys |-> requests'[k]]
      BY <3>2
    <3>5. requests' = [k \in Keys |-> [state |-> requests'[k].state, answer |-> requests'[k].answer]]
      BY <3>3, <3>4
    <3>6. sent' = sent /\ runState = "calling" /\ runState' = "staging" /\ requests[s].state = "pending"
      BY <2>3 DEF Answered, ResearchInv, StageIsInDoubt
    <3>7. /\ \A k \in Keys : k # s => requests'[k] = requests[k]
          /\ requests'[s].state = "completed" /\ requests'[s].answer \in AnswersTo(s)
      BY <1>2, <3>2
    <3> QED BY <1>2, <2>3, <3>5, <3>6, <3>7
  <2> QED BY <2>2, <2>3
<1>5. SameDone
  BY <1>1 DEF SameDone
<1>6. \A k \in Keys :
        /\ requests'[k].state = "completed" => requests'[k].answer \in AnswersTo(k)
        /\ requests[k].state = "completed" =>
             requests'[k].state = "completed" /\ requests'[k].answer = requests[k].answer
        /\ requests'[k].state = "absent" => sent'[k] = 0
        /\ sent'[k] <= 1
  <2> SUFFICES ASSUME NEW k \in Keys
               PROVE  /\ requests'[k].state = "completed" => requests'[k].answer \in AnswersTo(k)
                      /\ requests[k].state = "completed" =>
                           requests'[k].state = "completed" /\ requests'[k].answer = requests[k].answer
                      /\ requests'[k].state = "absent" => sent'[k] = 0
                      /\ sent'[k] <= 1
    OBVIOUS
  <2>1. CASE k # s
    BY <1>4, <2>1 DEF ResearchInv, AnswersHold
  <2>2. CASE k = s
    BY <1>2, <1>4, <2>2 DEF ResearchInv, AnswersHold
  <2> QED BY <2>1, <2>2
<1>7. Keeps /\ AnswersHold' /\ StartHolds'
  BY <1>1, <1>5, <1>6, NoStageCompletes
<1>8. JournalTypes'
  BY <1>1, <1>4 DEF ResearchInv, JournalTypes
<1>9. StageIsInDoubt'
  BY <1>1, <1>2, <1>3, <1>4 DEF StageIsInDoubt
<1>10. Grows
  BY <1>1, TimelineStays DEF ResearchInv
<1> QED BY <1>1, <1>2, <1>7, <1>8, <1>9, <1>10, SessionStands

\* A stage that raises, or whose request is in doubt, is left in doubt and ends the session.
LEMMA TheStageIsInDoubt ==
    ASSUME ResearchInv, RequestInDoubt \/ StageFails \/ NotDispatched
    PROVE  ResearchInv'
<1> PICK s : s = Step.on
  OBVIOUS
<1> PICK x \in {"unknown", "retryable"} : x = IF NotDispatched THEN "retryable" ELSE "unknown"
  OBVIOUS
<1>1. /\ runState \in {"staging", "calling"} /\ Live
      /\ journal' = [journal EXCEPT ![s].state = x]
      /\ UNCHANGED <<saved, papers, lifecycle, deadline, now, firstStart, sent, refused>>
      /\ requests' = requests
           \/ (runState = "calling" /\ requests' = [requests EXCEPT ![s].state = "unknown"])
  BY DEF RequestInDoubt, StageFails, NotDispatched, Live
<1>0. Grows /\ todo' = <<>> /\ ~Live' /\ ~Ended'
  <2>1. CASE NotDispatched
    BY <2>1, TimelineStays DEF NotDispatched, Ends, Live, Ended, ResearchInv
  <2>2. CASE RequestInDoubt \/ StageFails
    <3>1. EndsUncertain /\ TimelineHolds
      BY <2>2 DEF RequestInDoubt, StageFails, ResearchInv
    <3> QED BY <3>1, Interrupted
  <2> QED BY <2>1, <2>2
<1>2. /\ s \in Keys /\ journal[s].state = "pending" /\ JournalIs(journal) /\ RequestsAre(requests)
      /\ runState = "calling" => requests[s].state = "pending"
      /\ sent \in [Keys -> Nat] /\ now \in Nat
  BY <1>1, RunningStage DEF ResearchInv, StageIsInDoubt, JournalTypes
<1>3. /\ JournalIs(journal') /\ journal'[s].state = x
      /\ \A k \in Keys : k # s => journal'[k] = journal[k]
  <2> DEFINE e == journal[s]
  <2>1. /\ DOMAIN journal = Keys /\ e = [state |-> e.state, tries |-> e.tries, value |-> e.value]
        /\ \A k \in Keys : journal[k] = [state |-> journal[k].state, tries |-> journal[k].tries,
                                         value |-> journal[k].value]
    BY <1>2 DEF JournalIs
  <2>2. journal' = [k \in Keys |-> IF k = s THEN [e EXCEPT !.state = x] ELSE journal[k]]
    BY <1>1, <1>2, <2>1
  <2> HIDE DEF e
  <2>3. [e EXCEPT !.state = x] = [state |-> x, tries |-> e.tries, value |-> e.value]
    BY <2>1
  <2>4. journal' = [k \in Keys |->
          IF k = s THEN [state |-> x, tries |-> e.tries, value |-> e.value] ELSE journal[k]]
    BY <2>2, <2>3
  <2>5. journal'[s].state = x /\ \A k \in Keys : k # s => journal'[k] = journal[k]
    BY <1>2, <2>4
  <2>6. \A k \in Keys : journal'[k] = [state |-> journal'[k].state, tries |-> journal'[k].tries,
                                       value |-> journal'[k].value]
    BY <2>1, <2>4
  <2>7. journal' = [k \in Keys |-> journal'[k]]
    BY <2>4
  <2>8. JournalIs(journal')
    BY <2>6, <2>7 DEF JournalIs
  <2> QED BY <2>5, <2>8
<1>4. /\ RequestsAre(requests')
      /\ \A k \in Keys : k # s => requests'[k] = requests[k]
      /\ requests'[s] = requests[s] \/ (requests'[s].state = "unknown" /\ requests[s].state = "pending")
  <2>1. CASE requests' = requests
    BY <1>2, <2>1
  <2>2. CASE runState = "calling" /\ requests' = [requests EXCEPT ![s].state = "unknown"]
    <3> DEFINE e == requests[s]
    <3>1. /\ DOMAIN requests = Keys /\ e = [state |-> e.state, answer |-> e.answer]
          /\ \A k \in Keys : requests[k] = [state |-> requests[k].state, answer |-> requests[k].answer]
      BY <1>2 DEF RequestsAre
    <3>2. requests' = [k \in Keys |-> IF k = s THEN [e EXCEPT !.state = "unknown"] ELSE requests[k]]
      BY <1>2, <2>2, <3>1
    <3> HIDE DEF e
    <3>3. [e EXCEPT !.state = "unknown"] = [state |-> "unknown", answer |-> e.answer]
      BY <3>1
    <3>4. requests' = [k \in Keys |-> IF k = s THEN [state |-> "unknown", answer |-> e.answer]
                                               ELSE requests[k]]
      BY <3>2, <3>3
    <3>5. requests'[s].state = "unknown" /\ \A k \in Keys : k # s => requests'[k] = requests[k]
      BY <1>2, <3>4
    <3>6. \A k \in Keys : requests'[k] = [state |-> requests'[k].state, answer |-> requests'[k].answer]
      BY <3>1, <3>4
    <3>7. requests' = [k \in Keys |-> requests'[k]]
      BY <3>4
    <3>8. RequestsAre(requests')
      BY <3>6, <3>7 DEF RequestsAre
    <3> QED BY <1>2, <2>2, <3>5, <3>8
  <2> QED BY <1>1, <2>1, <2>2
<1>5. SameDone
  BY <1>2, <1>3 DEF SameDone
<1>6. \A k \in Keys :
        /\ requests'[k].state = "completed" => requests'[k].answer \in AnswersTo(k)
        /\ requests[k].state = "completed" =>
             requests'[k].state = "completed" /\ requests'[k].answer = requests[k].answer
        /\ requests'[k].state = "absent" => sent'[k] = 0
        /\ sent'[k] <= 1
  BY <1>1, <1>2, <1>4 DEF ResearchInv, AnswersHold
<1>7. Keeps /\ AnswersHold' /\ StartHolds'
  BY <1>1, <1>5, <1>6, NoStageCompletes
<1>8. JournalTypes'
  BY <1>0, <1>1, <1>2, <1>3, <1>4, NothingHas DEF JournalTypes, JournalIs, RequestsAre
<1>9. StageIsInDoubt' /\ ProgramHolds'
  BY <1>0 DEF StageIsInDoubt, ProgramHolds, Live
<1>10. TimelineHolds' /\ SavedHolds'
  BY <1>0, <1>1, <1>7, LiveMoves, SavedStays DEF ResearchInv, Grows
<1> QED BY <1>7, <1>8, <1>9, <1>10 DEF ResearchInv

LEMMA TheRunIsResumed ==
    ASSUME ResearchInv, ResumeRun
    PROVE  ResearchInv'
<1>1. /\ runState = "interrupted" /\ runState' = "queued" /\ Tell("task_resume_requested")
      /\ journal' = [k \in Keys |-> IF journal[k].state \in InDoubt
                                    THEN [journal[k] EXCEPT !.state = "retryable"] ELSE journal[k]]
      /\ UNCHANGED <<requests, saved, todo, papers, lifecycle, deadline, now, firstStart,
                     sent, refused>>
  BY DEF ResumeRun
<1>2. \A k \in Keys : journal[k] = [state |-> journal[k].state, tries |-> journal[k].tries,
                                    value |-> journal[k].value]
  BY DEF ResearchInv, JournalTypes
<1>3. ASSUME NEW k \in Keys
      PROVE  /\ journal'[k] = [state |-> journal'[k].state, tries |-> journal'[k].tries,
                               value |-> journal'[k].value]
             /\ journal'[k] = journal[k]
                  \/ (journal[k].state \in InDoubt /\ journal'[k].state = "retryable")
  <2> DEFINE e == journal[k]
  <2>1. e = [state |-> e.state, tries |-> e.tries, value |-> e.value]
    BY <1>2
  <2>2. journal'[k] = IF e.state \in InDoubt THEN [e EXCEPT !.state = "retryable"] ELSE e
    BY <1>1
  <2> HIDE DEF e
  <2>3. [e EXCEPT !.state = "retryable"] = [state |-> "retryable", tries |-> e.tries, value |-> e.value]
    BY <2>1
  <2>4. CASE e.state \in InDoubt
    <3>1. journal'[k] = [state |-> "retryable", tries |-> e.tries, value |-> e.value]
      BY <2>2, <2>3, <2>4
    <3> QED BY <2>4, <3>1 DEF e
  <2>5. CASE e.state \notin InDoubt
    <3>1. journal'[k] = e
      BY <2>2, <2>5
    <3> QED BY <2>1, <3>1 DEF e
  <2> QED BY <2>4, <2>5
<1>4. SameDone
  <2>1. "completed" \notin InDoubt
    BY DEF InDoubt
  <2> QED BY <1>3, <2>1 DEF SameDone
<1>5. Keeps /\ AnswersHold' /\ StartHolds'
  BY <1>1, <1>4, NoStageCompletes DEF ResearchInv, AnswersHold
<1>6. JournalTypes'
  <2>1. journal' = [k \in Keys |-> journal'[k]]
    BY <1>1
  <2>2. journal' = [k \in Keys |-> [state |-> journal'[k].state, tries |-> journal'[k].tries,
                                    value |-> journal'[k].value]]
    BY <1>3, <2>1
  <2> QED BY <1>1, <2>2 DEF ResearchInv, JournalTypes
<1>7. StageIsInDoubt' /\ ProgramHolds'
  BY <1>1 DEF StageIsInDoubt, ProgramHolds, Live
<1>8. TimelineHolds' /\ SavedHolds'
  <2>1. "task_resume_requested" \in ServiceTales
    BY DEF ServiceTales
  <2>2. Grows
    BY <1>1, <2>1, TheServiceTells DEF ResearchInv
  <2>3. StateMoves
    BY <1>1 DEF StateMoves, Live, Ended
  <2> QED BY <1>1, <1>5, <2>2, <2>3, SavedStays DEF ResearchInv, Grows
<1> QED BY <1>5, <1>6, <1>7, <1>8 DEF ResearchInv

LEMMA AStageCompletes ==
    ASSUME ResearchInv, CompleteStage
    PROVE  ResearchInv'
<1> PICK s : s = Step.on
  OBVIOUS
<1> PICK value : value = [answer |-> requests[s].answer, at |-> now]
  OBVIOUS
<1>1. /\ runState = "staging" /\ runState' = "walking" /\ todo' = Tail(todo)
      /\ s = Plain("start") \/ requests[s].state = "completed"
      /\ journal' = [journal EXCEPT ![s].state = "completed", ![s].value = value]
      /\ deadline' = NewDeadline(s, value)
      /\ firstStart' = IF s = Plain("start") /\ firstStart = None THEN now ELSE firstStart
      /\ UNCHANGED <<requests, saved, timeline, papers, lifecycle, now, sent, refused>>
  BY DEF CompleteStage, Onward
<1>2. /\ Live /\ s \in Keys /\ journal[s].state = "pending" /\ Step.kind = "stage"
      /\ JournalIs(journal) /\ now \in Nat
  BY <1>1, RunningStage DEF ResearchInv, JournalTypes
<1>3. /\ JournalIs(journal') /\ journal'[s].state = "completed" /\ journal'[s].value = value
      /\ \A k \in Keys : k # s => journal'[k] = journal[k]
  <2> DEFINE e == journal[s]
  <2>1. /\ DOMAIN journal = Keys /\ e = [state |-> e.state, tries |-> e.tries, value |-> e.value]
        /\ \A k \in Keys : journal[k] = [state |-> journal[k].state, tries |-> journal[k].tries,
                                         value |-> journal[k].value]
    BY <1>2 DEF JournalIs
  <2>2. journal' = [k \in Keys |-> IF k = s THEN [e EXCEPT !.state = "completed", !.value = value]
                                            ELSE journal[k]]
    BY <1>1, <1>2, <2>1
  <2> HIDE DEF e
  <2>3. [e EXCEPT !.state = "completed", !.value = value]
          = [state |-> "completed", tries |-> e.tries, value |-> value]
    <3> DEFINE m == [e EXCEPT !.state = "completed"]
    <3>1. m = [state |-> "completed", tries |-> e.tries, value |-> e.value]
      BY <2>1
    <3>2. [e EXCEPT !.state = "completed", !.value = value] = [m EXCEPT !.value = value]
      OBVIOUS
    <3> HIDE DEF m
    <3>3. [m EXCEPT !.value = value] = [state |-> "completed", tries |-> e.tries, value |-> value]
      BY <3>1
    <3> QED BY <3>2, <3>3
  <2>4. journal' = [k \in Keys |->
          IF k = s THEN [state |-> "completed", tries |-> e.tries, value |-> value] ELSE journal[k]]
    BY <2>2, <2>3
  <2>5. /\ journal'[s].state = "completed" /\ journal'[s].value = value
        /\ \A k \in Keys : k # s => journal'[k] = journal[k]
    BY <1>2, <2>4
  <2>6. \A k \in Keys : journal'[k] = [state |-> journal'[k].state, tries |-> journal'[k].tries,
                                       value |-> journal'[k].value]
    BY <2>1, <2>4
  <2>7. journal' = [k \in Keys |-> journal'[k]]
    BY <2>4
  <2>8. JournalIs(journal')
    BY <2>6, <2>7 DEF JournalIs
  <2> QED BY <2>5, <2>8
<1>4. Keeps
  BY <1>2, <1>3 DEF Keeps, Completed, Value
<1>5. todo' \in Seq(Program) => JournalTypes'
  BY <1>1, <1>3 DEF ResearchInv, JournalTypes, JournalIs
<1>6. AnswersHold'
  <2> SUFFICES ASSUME NEW k \in Keys
               PROVE  /\ requests[k].state = "completed" => requests[k].answer \in AnswersTo(k)
                      /\ journal'[k].state = "completed" /\ k # Plain("start") =>
                           requests[k].state = "completed"
                             /\ journal'[k].value.answer = requests[k].answer
                      /\ requests[k].state = "absent" => sent[k] = 0
                      /\ sent[k] <= 1
    BY <1>1 DEF AnswersHold, Completed, Value, AnswersTo
  <2>1. CASE k # s
    BY <1>3, <2>1 DEF ResearchInv, AnswersHold, Completed, Value
  <2>2. CASE k = s
    <3>1. value.answer = requests[k].answer
      BY <2>2
    <3> QED BY <1>1, <1>3, <2>2, <3>1 DEF ResearchInv, AnswersHold
  <2> QED BY <2>1, <2>2
<1>7. StartHolds'
  <2>1. CASE s = Plain("start")
    <3>1. firstStart = None
      BY <1>2, <2>1 DEF ResearchInv, StartHolds, Completed
    <3>2. value.at = now /\ firstStart' = now /\ deadline' = DeadlineOf(now)
      BY <1>1, <2>1, <3>1 DEF NewDeadline
    <3> QED BY <1>2, <1>3, <2>1, <3>2 DEF StartHolds, Completed, Value, DeadlineOf
  <2>2. CASE s # Plain("start")
    <3>1. firstStart' = firstStart /\ deadline' = deadline
      BY <1>1, <2>2 DEF NewDeadline
    <3>2. journal'[Plain("start")] = journal[Plain("start")]
      BY <1>3, <2>2, KeysHave
    <3> QED BY <3>1, <3>2 DEF ResearchInv, StartHolds, Completed, Value, DeadlineOf
  <2> QED BY <2>1, <2>2
<1>8. Grows /\ TimelineHolds' /\ SavedHolds'
  <2>1. Grows /\ StateMoves
    BY <1>1, <1>2, TimelineStays, LiveMoves DEF ResearchInv, Live
  <2> QED BY <1>1, <1>4, <1>6, <2>1, SavedStays DEF ResearchInv, Grows
<1>9. PapersHold => PapersHold'
  <2>1. PapersHold =>
          lifecycle' = [p \in ToSet(papers) |-> [stage |-> lifecycle'[p].stage, at |-> Stamp]]
    BY <1>1 DEF PapersHold
  <2> QED BY <1>1, <1>4, <2>1, PapersStay
<1> PICK h : h = Step
  OBVIOUS
<1>10. DoneOf(h)'
  <2>1. h.kind = "stage" /\ \A k \in Keys : h = Act("stage", k) => Completed(k)'
    BY <1>2, <1>3 DEF Act, Completed
  <2> QED BY <2>1 DEF DoneOf, Act
<1>11. \A p \in ToSet(papers) : lifecycle[p].stage = "analyzed" => lifecycle'[p].stage = "analyzed"
  BY <1>1
<1> QED BY <1>1, <1>2, <1>4, <1>5, <1>6, <1>7, <1>8, <1>9, <1>10, <1>11, SessionGoesOn

\* What is still ahead of a step is later than it, so what comes earlier is done.
LEMMA AheadIsLater ==
    ASSUME ResearchInv, Live, Step.kind # "check"
    PROVE  /\ \A k \in Keys : Ahead("stage", k) => Place(Step) <= StagePlace[k[1]]
           /\ \A e \in Tales : Ahead("event", e) => Place(Step) <= EventPlace[e]
           /\ \A p \in Found : Ahead("mark", <<p, "analyzed">>) => Place(Step) <= 12
           /\ Ahead("usable", None) => Place(Step) <= 22
           /\ Place(Step) \in Nat
           /\ Opens => 1 <= Place(Step) /\ Place(Step) <= 4
           /\ Collects => 5 <= Place(Step) /\ Place(Step) <= 20
           /\ Closes => 21 <= Place(Step) /\ Place(Step) <= 24
<1>1. \A t \in ToSet(todo) : t.kind # "check" => Place(Step) <= Place(t)
  BY StepIs
<1>2. \A k, x : Act(k, x).kind = k
  BY DEF Act
<1>3. \A k \in Keys : Ahead("stage", k) => Place(Step) <= StagePlace[k[1]]
  BY <1>1, <1>2, Places DEF Ahead
<1>4. \A e \in Tales : Ahead("event", e) => Place(Step) <= EventPlace[e]
  BY <1>1, <1>2, Places DEF Ahead
<1>5. \A p \in Found : Ahead("mark", <<p, "analyzed">>) => Place(Step) <= 12
  <2>1. \A p \in Found : Place(Act("mark", <<p, "analyzed">>)) = 12
    BY Places DEF MarkPlace
  <2> QED BY <1>1, <1>2, <2>1 DEF Ahead
<1>6. Ahead("usable", None) => Place(Step) <= 22
  BY <1>1, <1>2, Places DEF Ahead, OtherPlace
<1>7. \A a, b \in Nat : Within(todo, a, b) => a <= Place(Step) /\ Place(Step) <= b
  BY StepIs
<1>8. Place(Step) \in Nat
  BY StepIs, PlacesAreNumbers
<1>9. /\ Opens => 1 <= Place(Step) /\ Place(Step) <= 4
      /\ Collects => 5 <= Place(Step) /\ Place(Step) <= 20
      /\ Closes => 21 <= Place(Step) /\ Place(Step) <= 24
  BY <1>7 DEF Opens, Collects, Closes
<1> QED BY <1>3, <1>4, <1>5, <1>6, <1>8, <1>9

LEMMA ThePapersAreChosen ==
    ASSUME ResearchInv, Select
    PROVE  ResearchInv'
<1> DEFINE poor == Len(Selection) < MinPapers \/ \E i \in DOMAIN Selection : Fate[Selection[i]] = "legacy"
<1>1. CASE poor
  <2>1. /\ UNCHANGED <<journal, requests, saved, timeline, deadline, now, firstStart, sent, refused>>
        /\ todo' = <<>> /\ runState # "failed" /\ ~Live' /\ ~Ended'
    BY <1>1 DEF Select, Ends, Live, Ended
  <2> QED BY <2>1, TimelineStays, SessionEnds DEF ResearchInv
<1>2. CASE ~poor
  <2>1. /\ runState = "walking" /\ runState' = runState /\ Step.kind = "select"
        /\ papers' = Selection /\ todo' = Body(Selection)
        /\ lifecycle' = [p \in ToSet(Selection) |-> [stage |-> "access_resolved", at |-> Stamp]]
        /\ UNCHANGED <<journal, requests, saved, timeline, deadline, now, firstStart, sent, refused>>
    BY <1>2 DEF Select
  <2>2. Live /\ Step.kind # "check" /\ Place(Step) = 4
    <3>1. Live
      BY <2>1 DEF Live
    <3> QED BY <2>1, <3>1, StepIs, KindsAre, Places DEF OtherPlace
  <2>3. Opens /\ AnswersHold
    BY <2>2, StepIs, AheadIsLater DEF Goes, ResearchInv
  <2>4. SearchDone
    <3>1. /\ Plain("search") \in Keys /\ StagePlace[Plain("search")[1]] = 2
          /\ Plain("citations") \in Keys /\ StagePlace[Plain("citations")[1]] = 3
      BY KeysHave DEF StagePlace
    <3>2. ~Ahead("stage", Plain("search")) /\ ~Ahead("stage", Plain("citations"))
      BY <2>2, <3>1, AheadIsLater
    <3> QED BY <2>3, <3>2 DEF Opens, SearchDone
  <2>5. Selection \in Seq(Found)
    BY <2>3, <2>4, SelectionHas
  <2>6. todo' \in Seq(Program)
    BY <2>1, <2>5, BodyHas
  <2>7. Keeps /\ JournalTypes' /\ AnswersHold' /\ StartHolds'
    BY <2>1, <2>6, JournalStays DEF ResearchInv, JournalTypes
  <2>8. SearchDone' /\ Selection' = Selection /\ Stamp' = Stamp
    BY <2>4, <2>7, SelectionStays
  <2>9. PapersHold'
    <3>1. Len(Selection) \in Nat /\ MinPapers \in Nat
      BY <2>5, LenProperties, ResearchAssumption
    <3>2. Len(Selection) >= MinPapers
      BY <1>2, <3>1
    <3>3. lifecycle' = [p \in ToSet(Selection) |-> [stage |-> lifecycle'[p].stage, at |-> Stamp]]
      BY <2>1
    <3> QED BY <2>1, <2>8, <3>2, <3>3 DEF PapersHold
  <2>10. Collects'
    <3>1. /\ Within(Body(Selection), 5, 20)
          /\ Act("report", None) \in ToSet(Body(Selection))
          /\ \A p \in ToSet(Selection) : Act("mark", <<p, "analyzed">>) \in ToSet(Body(Selection))
          /\ \A k \in BodyKeys(Selection) : Act("stage", k) \in ToSet(Body(Selection))
          /\ \A e \in Tales \ {"synthesis"} : Act("event", e) \in ToSet(Body(Selection))
      BY <2>5, BodyHas
    <3>2. BodyKeys(papers') = BodyKeys(Selection)
      BY <2>1
    <3>3. Ahead("report", None)' /\ Within(todo', 5, 20)
      BY <2>1, <3>1 DEF Ahead
    <3>4. \A p \in ToSet(papers') : Ahead("mark", <<p, "analyzed">>)'
      BY <2>1, <3>1 DEF Ahead
    <3>5. \A k \in BodyKeys(papers') : Ahead("stage", k)'
      BY <2>1, <3>1, <3>2 DEF Ahead
    <3>6. \A e \in Tales \ {"synthesis"} : Ahead("event", e)'
      BY <2>1, <3>1 DEF Ahead
    <3> QED BY <2>9, <3>3, <3>4, <3>5, <3>6 DEF Collects
  <2>11. TimelineHolds' /\ SavedHolds'
    <3>1. Grows /\ StateMoves
      BY <2>1, <2>2, TimelineStays, LiveMoves DEF ResearchInv, Live
    <3> QED BY <2>1, <2>7, <3>1, SavedStays DEF ResearchInv, Grows
  <2>12. StageIsInDoubt'
    BY <2>1 DEF StageIsInDoubt
  <2> QED BY <2>7, <2>10, <2>11, <2>12 DEF ResearchInv, ProgramHolds
<1> QED BY <1>1, <1>2

LEMMA APaperIsMarked ==
    ASSUME ResearchInv, Mark
    PROVE  ResearchInv'
<1>1. CASE Ends("failed")
  <2>1. /\ UNCHANGED <<journal, requests, saved, timeline, deadline, now, firstStart, sent, refused>>
        /\ todo' = <<>> /\ runState # "failed" /\ ~Live' /\ ~Ended'
    BY <1>1 DEF Mark, Ends, Live, Ended
  <2> QED BY <2>1, TimelineStays, SessionEnds DEF ResearchInv
<1>2. CASE ~Ends("failed")
  <2>1. /\ runState = "walking" /\ todo' = Tail(todo) /\ runState' = "walking" /\ Step.kind = "mark"
        /\ UNCHANGED <<journal, requests, saved, timeline, papers, deadline, now, firstStart, sent, refused>>
        /\ lifecycle[Step.on[1]].stage = Gates[Step.on[2]]
        /\ lifecycle' = [lifecycle EXCEPT ![Step.on[1]] = [stage |-> Step.on[2], at |-> Stamp]]
    BY <1>2 DEF Mark, Onward
  <2>2. Live
    BY <2>1 DEF Live
  <2>3. PICK p \in Found, s \in {"acquired", "ingested", "analyzed"} :
          Step.on = <<p, s>> /\ Step = Act("mark", <<p, s>>)
    BY <2>1, <2>2, StepIs, KindsAre
  <2>4. Step.on[1] = p /\ Step.on[2] = s
    BY <2>3
  <2>5. /\ lifecycle[p].stage = Gates[s]
        /\ lifecycle' = [lifecycle EXCEPT ![p] = [stage |-> s, at |-> Stamp]]
    BY <2>1, <2>4
  <2>6. Gates[s] # "analyzed"
    BY DEF Gates
  <2>7. PapersHold
    <3>1. Place(Step) \in {7, 12}
      BY <2>3, Places DEF MarkPlace
    <3>2. ~Opens
      BY <2>1, <2>2, <3>1, AheadIsLater
    <3> QED BY <2>2, <3>2, StepIs DEF Goes, Collects, Closes
  <2>8. lifecycle = [q \in ToSet(papers) |-> [stage |-> lifecycle[q].stage, at |-> Stamp]]
    BY <2>7 DEF PapersHold
  <2>9. /\ DOMAIN lifecycle' = ToSet(papers)
        /\ \A q \in ToSet(papers) : lifecycle'[q] = IF q = p THEN [stage |-> s, at |-> Stamp] ELSE lifecycle[q]
        /\ lifecycle' = [q \in ToSet(papers) |-> lifecycle'[q]]
    <3>1. DOMAIN lifecycle = ToSet(papers)
      BY <2>8
    <3> QED BY <2>5, <3>1
  <2>10. \A q \in ToSet(papers) : lifecycle'[q] = [stage |-> lifecycle'[q].stage, at |-> Stamp]
    <3> SUFFICES ASSUME NEW q \in ToSet(papers)
                 PROVE  lifecycle'[q] = [stage |-> lifecycle'[q].stage, at |-> Stamp]
      OBVIOUS
    <3>1. CASE q = p
      <4>1. lifecycle'[q] = [stage |-> s, at |-> Stamp]
        BY <2>9, <3>1
      <4> QED BY <4>1
    <3>2. CASE q # p
      <4>1. lifecycle'[q] = lifecycle[q]
        BY <2>9, <3>2
      <4> QED BY <2>8, <4>1
    <3> QED BY <3>1, <3>2
  <2>11. lifecycle' = [q \in ToSet(papers) |-> [stage |-> lifecycle'[q].stage, at |-> Stamp]]
    BY <2>9, <2>10
  <2>12. Keeps /\ (todo' \in Seq(Program) => JournalTypes') /\ AnswersHold' /\ StartHolds'
    <3>1. todo' \in Seq(Program)
      BY <2>1, <2>2, StepIs
    <3> QED BY <2>1, <3>1, JournalStays DEF ResearchInv, JournalTypes
  <2>13. PapersHold'
    BY <2>1, <2>7, <2>11, <2>12, PapersStay
  <2>14. \A q \in ToSet(papers) : lifecycle[q].stage = "analyzed" => lifecycle'[q].stage = "analyzed"
    BY <2>5, <2>6, <2>9
  <2>15. Grows /\ TimelineHolds' /\ SavedHolds'
    <3>1. Grows /\ StateMoves
      BY <2>1, <2>2, TimelineStays, LiveMoves DEF ResearchInv, Live
    <3> QED BY <2>1, <2>12, <3>1, SavedStays DEF ResearchInv, Grows
  <2> PICK h : h = Step
    OBVIOUS
  <2>16. DoneOf(h)'
    <3>1. h.kind = "mark" /\ h = Act("mark", <<p, s>>)
      BY <2>1, <2>3
    <3>2. ASSUME NEW q \in ToSet(papers), h = Act("mark", <<q, "analyzed">>)
          PROVE  lifecycle'[q].stage = "analyzed"
      <4>1. <<p, s>> = <<q, "analyzed">>
        BY <3>1, <3>2 DEF Act
      <4>2. q = p /\ s = "analyzed"
        BY <4>1
      <4> QED BY <2>9, <4>2
    <3> QED BY <2>1, <3>1, <3>2 DEF DoneOf, Act
  <2> QED BY <2>1, <2>2, <2>12, <2>13, <2>14, <2>15, <2>16, SessionGoesOn
<1> QED BY <1>1, <1>2

\* What is done of the body once its last step is reached.
LEMMA TheReportIsMade ==
    ASSUME ResearchInv, Report
    PROVE  ResearchInv'
<1>1. /\ runState = "walking" /\ runState' = runState /\ Step.kind = "report" /\ todo' = Reporting
      /\ UNCHANGED <<journal, requests, saved, timeline, papers, lifecycle, deadline, now, firstStart,
                     sent, refused>>
  BY DEF Report, Reporting
<1>2. Live /\ Step.kind # "check" /\ Place(Step) = 20
  <2>1. Live
    BY <1>1 DEF Live
  <2> QED BY <1>1, <2>1, StepIs, KindsAre, Places DEF OtherPlace
<1>3. Collects /\ AnswersHold
  BY <1>2, StepIs, AheadIsLater DEF Goes, ResearchInv
<1>4. papers \in Seq(Found) /\ ToSet(papers) \subseteq Found /\ BodyKeys(papers) \subseteq Keys
  BY <1>3, PapersAre DEF Collects
<1>5. \A p \in ToSet(papers) : lifecycle[p].stage = "analyzed"
  <2>1. \A p \in ToSet(papers) : ~Ahead("mark", <<p, "analyzed">>)
    <3>1. \A p \in Found : Ahead("mark", <<p, "analyzed">>) => Place(Step) <= 12
      BY <1>2, AheadIsLater
    <3>2. ~(Place(Step) <= 12)
      BY <1>2
    <3> QED BY <1>4, <3>1, <3>2
  <2> QED BY <1>3, <2>1 DEF Collects
<1>6. \A k \in BodyKeys(papers) : Completed(k)
  <2>1. \A k \in BodyKeys(papers) : StagePlace[k[1]] \in {7, 10, 17}
    BY DEF BodyKeys, Key, Plain, StagePlace
  <2> QED BY <1>2, <1>3, <1>4, <2>1, AheadIsLater DEF Collects
<1>7. \A e \in Tales \ {"synthesis"} : Told(e)
  <2>1. \A e \in Tales \ {"synthesis"} : EventPlace[e] \in {6, 9, 14, 15, 19}
    BY DEF Tales, EventPlace
  <2> QED BY <1>2, <1>3, <2>1, AheadIsLater DEF Collects
<1>8. Keeps /\ JournalTypes' /\ AnswersHold' /\ StartHolds'
  <2>1. todo' \in Seq(Program) /\ now' \in Nat
    BY <1>1, ReportingHas DEF ResearchInv, JournalTypes
  <2> QED BY <1>1, <2>1, JournalStays
<1>9. PapersHold'
  <2>1. lifecycle' = [p \in ToSet(papers) |-> [stage |-> lifecycle'[p].stage, at |-> Stamp]]
    BY <1>1, <1>3 DEF Collects, PapersHold
  <2> QED BY <1>1, <1>3, <1>8, <2>1, PapersStay DEF Collects
<1>10. Reliability' = Reliability
  BY <1>1 DEF Reliability, Value
<1>11. Closes'
  <2>1. Ahead("save", "result")' /\ Within(todo', 21, 24) /\ Ahead("event", "synthesis")'
    BY <1>1, ReportingHas DEF Ahead
  <2>2. Reliability'.answer.included =>
          Ahead("stage", Plain("synthesis"))' /\ Ahead("usable", None)'
    BY <1>1, <1>10, ReportingHas DEF Ahead
  <2>3. \A p \in ToSet(papers') : lifecycle'[p].stage = "analyzed"
    BY <1>1, <1>5
  <2>4. \A k \in BodyKeys(papers') : Completed(k)'
    <3>1. BodyKeys(papers') = BodyKeys(papers)
      BY <1>1
    <3> QED BY <1>4, <1>6, <1>8, <3>1 DEF Keeps
  <2>5. \A e \in Tales \ {"synthesis"} : Told(e)'
    BY <1>1, <1>7 DEF Told
  <2> QED BY <1>9, <2>1, <2>2, <2>3, <2>4, <2>5 DEF Closes
<1>12. TimelineHolds' /\ SavedHolds' /\ StageIsInDoubt'
  <2>1. Grows /\ StateMoves
    BY <1>1, <1>2, TimelineStays, LiveMoves DEF ResearchInv, Live
  <2> QED BY <1>1, <1>8, <2>1, SavedStays DEF ResearchInv, StageIsInDoubt, Grows
<1> QED BY <1>8, <1>11, <1>12 DEF ResearchInv, ProgramHolds

\* An event is told after all that come before it in the story.
LEMMA AnEventIsTold ==
    ASSUME ResearchInv, Event
    PROVE  ResearchInv'
<1>1. /\ runState = "walking" /\ runState' = "walking" /\ Step.kind = "event" /\ todo' = Tail(todo)
      /\ TellOnce(Step.on)
      /\ UNCHANGED <<journal, requests, saved, papers, lifecycle, deadline, runState, now, firstStart,
                     sent, refused>>
  BY DEF Event, Onward
<1>2. Live
  BY <1>1 DEF Live
<1> PICK e : e = Step.on
  OBVIOUS
<1>3. e \in Tales /\ Step = Act("event", e) /\ Place(Step) = EventPlace[e]
  BY <1>1, <1>2, StepIs, KindsAre, Places
<1>4. now \in Nat /\ TimelineHolds
  BY DEF ResearchInv, JournalTypes
<1>5. \A d \in Tales : EventPlace[d] < EventPlace[e] => Told(d)
  <2>1. \A d \in Tales : EventPlace[d] \in Nat /\ EventPlace[d] >= 6 /\ EventPlace[d] <= 23
          /\ (d # "synthesis" => EventPlace[d] <= 19) /\ EventPlace["synthesis"] = 23
    BY DEF Tales, EventPlace
  <2>2. \A d \in Tales : EventPlace[d] < EventPlace[e] => ~Ahead("event", d)
    BY <1>1, <1>2, <1>3, <2>1, AheadIsLater
  <2>3. ~Opens
    BY <1>1, <1>2, <1>3, <2>1, AheadIsLater
  <2>4. CASE Collects
    <3>1. e # "synthesis"
      BY <1>1, <1>2, <1>3, <2>1, <2>4, AheadIsLater
    <3>2. \A d \in Tales : EventPlace[d] < EventPlace[e] => d # "synthesis"
      BY <1>3, <2>1, <3>1
    <3> QED BY <2>2, <2>4, <3>2 DEF Collects
  <2>5. CASE Closes
    <3>1. \A d \in Tales \ {"synthesis"} : Told(d)
      BY <2>5 DEF Closes
    <3>2. ~(EventPlace["synthesis"] < EventPlace[e])
      BY <1>3, <2>1
    <3> QED BY <3>1, <3>2
  <2> QED BY <1>2, <2>3, <2>4, <2>5, StepIs DEF Goes
<1>6. Grows /\ Told(e)'
  <2>1. CASE Told(e)
    <3>1. timeline' = timeline
      BY <1>1, <2>1 DEF Told, TellOnce
    <3> QED BY <1>4, <2>1, <3>1, TimelineStays DEF Told
  <2>2. CASE ~Told(e)
    <3>1. timeline' = Append(timeline, e)
      BY <1>1, <2>2 DEF Told, TellOnce, Tell
    <3>2. \A n \in 1 .. 6 : e = Story[n] => \A m \in 1 .. 6 : m < n => Told(Story[m])
      BY <1>5, StoryIs
    <3> QED BY <1>3, <1>4, <2>2, <3>1, <3>2, TimelineGrows
  <2> QED BY <2>1, <2>2
<1>7. StartHolds'
  BY <1>1, ClockStays DEF ResearchInv
<1> PICK h : h = Step
  OBVIOUS
<1>8. DoneOf(h)'
  <2>1. \A d \in Tales : h = Act("event", d) => d = e
    BY <1>3 DEF Act
  <2> QED BY <1>3, <1>6, <2>1 DEF DoneOf, Act
<1> QED BY <1>1, <1>6, <1>7, <1>8, WalksOn

\* A run that succeeded has a report with claims, and a narrative for it.
LEMMA TheNarrativeIs ==
    ASSUME ResearchInv, Closes, Live, Step = Act("save", "result"), Place(Step) = 24,
           FinalOutcome = "succeeded"
    PROVE  Completed(Plain("synthesis")) /\ Value(Plain("synthesis")).answer = "usable"
<1>1. Plain("verify") \in Keys /\ Plain("verify") # Plain("start") /\ AnswersHold
  BY KeysHave DEF Plain, Key, ResearchInv
<1>2. Reliability.answer.included
  <2>1. Completed(Plain("verify"))
    BY DEF Closes, BodyKeys
  <2>2. Reliability.answer \in {[included |-> TRUE, outcome |-> "succeeded"],
                                [included |-> FALSE, outcome |-> "degraded"]}
    BY <1>1, <2>1, SomeAnswers DEF AnswersHold, Reliability
  <2>3. Reliability.answer.outcome = "succeeded"
    BY DEF FinalOutcome
  <2> QED BY <2>2, <2>3
<1>3. ~Ahead("usable", None)
  BY AheadIsLater DEF Act
<1> QED BY <1>2, <1>3 DEF Closes

\* What the result stands on when it is saved.
LEMMA TheResultIsEarned ==
    ASSUME ResearchInv, Closes, Live, Step = Act("save", "result"), Place(Step) = 24
    PROVE  LET r == Content("result") IN
             /\ Len(r.papers) >= MinPapers
             /\ \A p \in ToSet(r.papers) :
                  /\ r.lifecycle[p].stage = "analyzed"
                  /\ \A s \in {"acquire", "ingest"} : requests[Key(s, p)].state = "completed"
             /\ ToSet(Story) \subseteq ToSet(r.timeline) /\ InOrder(r.timeline)
             /\ r.outcome = "succeeded" =>
                  /\ requests[Plain("search")].answer.ok
                  /\ ExpansionAnswers # {} => requests[Plain("citations")].answer.ok
                  /\ requests[Plain("synthesis")].answer = "usable"
<1> DEFINE r == Content("result")
<1>1. /\ r.papers = papers /\ r.lifecycle = lifecycle /\ r.outcome = FinalOutcome
      /\ r.timeline = timeline
  BY DEF Content
<1> HIDE DEF r
<1>2. AnswersHold /\ TimelineHolds /\ PapersHold /\ SearchDone /\ Len(papers) >= MinPapers
  BY DEF ResearchInv, Closes, PapersHold
<1>3. /\ \A s \in {"search", "citations", "verify", "synthesis"} :
           Plain(s) \in Keys /\ Plain(s) # Plain("start")
      /\ \A p : \A s \in {"acquire", "ingest"} : Key(s, p) # Plain("start")
  BY KeysHave DEF Plain, Key
<1>4. ASSUME NEW p \in ToSet(papers), NEW s \in {"acquire", "ingest"}
      PROVE  requests[Key(s, p)].state = "completed"
  <2>1. Key(s, p) \in BodyKeys(papers) /\ Key(s, p) \in Keys
    <3>1. Key(s, p) \in BodyKeys(papers)
      BY DEF BodyKeys
    <3> QED BY <1>2, <3>1, PapersAre
  <2>2. Completed(Key(s, p))
    BY <2>1 DEF Closes
  <2> QED BY <1>2, <1>3, <2>1, <2>2 DEF AnswersHold
<1>5. \A p \in ToSet(papers) : lifecycle[p].stage = "analyzed"
  BY DEF Closes
<1>6. Step.kind # "check"
  BY DEF Act
<1>7. ToSet(Story) \subseteq ToSet(timeline) /\ InOrder(timeline)
  <2>1. Told("synthesis")
    <3>1. ~Ahead("event", "synthesis")
      BY <1>6, AheadIsLater DEF Tales, EventPlace
    <3> QED BY <3>1 DEF Closes
  <2>2. \A e \in Tales : Told(e)
    BY <2>1 DEF Closes
  <2> QED BY <1>2, <2>2, StoryIs DEF TimelineHolds, Told, ToSet
<1>8. ASSUME FinalOutcome = "succeeded"
      PROVE  /\ requests[Plain("search")].answer.ok
             /\ ExpansionAnswers # {} => requests[Plain("citations")].answer.ok
             /\ requests[Plain("synthesis")].answer = "usable"
  <2>1. /\ Reliability.answer.outcome = "succeeded" /\ Snapshot.answer.ok
        /\ ExpansionAnswers # {} => Expansion.answer.ok
    BY <1>8 DEF FinalOutcome
  <2>2. Snapshot.answer = requests[Plain("search")].answer
    BY <1>2, <1>3 DEF AnswersHold, SearchDone, Snapshot
  <2>3. ExpansionAnswers # {} => Expansion.answer = requests[Plain("citations")].answer
    BY <1>2, <1>3 DEF AnswersHold, SearchDone, Expansion
  <2>5. Completed(Plain("synthesis")) /\ Value(Plain("synthesis")).answer = "usable"
    BY <1>8, TheNarrativeIs
  <2>6. requests[Plain("synthesis")].answer = "usable"
    BY <1>2, <1>3, <2>5 DEF AnswersHold
  <2> QED BY <2>1, <2>2, <2>3, <2>6
<1>9. /\ Len(r.papers) >= MinPapers
      /\ \A p \in ToSet(r.papers) :
           /\ r.lifecycle[p].stage = "analyzed"
           /\ \A s \in {"acquire", "ingest"} : requests[Key(s, p)].state = "completed"
      /\ ToSet(Story) \subseteq ToSet(r.timeline) /\ InOrder(r.timeline)
  BY <1>1, <1>2, <1>4, <1>5, <1>7
<1>10. r.outcome = "succeeded" =>
         /\ requests[Plain("search")].answer.ok
         /\ ExpansionAnswers # {} => requests[Plain("citations")].answer.ok
         /\ requests[Plain("synthesis")].answer = "usable"
  BY <1>1, <1>8
<1> USE DEF r
<1> QED BY <1>9, <1>10

\* What every content stands on when it is saved.
LEMMA TheContentIs ==
    ASSUME ResearchInv, Live, Step.kind = "save"
    PROVE  /\ Step.on \in Names /\ Step = Act("save", Step.on) /\ Place(Step) = SavePlace[Step.on]
           /\ PapersHold
           /\ Step.on = "analysis" => \A q \in 1 .. Scopes : Completed(Key("analyze", q))
           /\ Step.on = "citations" =>
                lifecycle = [p \in ToSet(Selection) |-> [stage |-> "analyzed", at |-> Stamp]]
           /\ Step.on = "verification" => Completed(Plain("verify"))
           /\ Step.on = "result" => Closes
<1>1. Step.on \in Names /\ Step = Act("save", Step.on) /\ Place(Step) = SavePlace[Step.on]
  BY StepIs, KindsAre, Places
<1>2. /\ \A n \in Names : SavePlace[n] \in 5 .. 24
      /\ SavePlace["analysis"] = 11 /\ SavePlace["citations"] = 13 /\ SavePlace["verification"] = 18
      /\ SavePlace["result"] = 24
  BY DEF Names, SavePlace
<1>3. Collects \/ Closes
  <2>1. ~Opens
    BY <1>1, <1>2, AheadIsLater
  <2> QED BY <2>1, StepIs DEF Goes
<1>4. PapersHold /\ AnswersHold
  BY <1>3 DEF Collects, Closes, ResearchInv
<1>5. ASSUME Step.on = "analysis", NEW q \in 1 .. Scopes PROVE Completed(Key("analyze", q))
  <2>1. Key("analyze", q) \in BodyKeys(papers)
    BY DEF BodyKeys
  <2>2. ~Ahead("stage", Key("analyze", q))
    <3>1. Key("analyze", q) \in Keys /\ StagePlace[Key("analyze", q)[1]] = 10
      BY KeysHave DEF StagePlace
    <3>2. Ahead("stage", Key("analyze", q)) => 11 <= 10
      BY <1>1, <1>2, <1>5, <3>1, AheadIsLater
    <3> QED BY <3>2
  <2> QED BY <1>3, <2>1, <2>2 DEF Collects, Closes
<1>6. ASSUME Step.on = "citations"
      PROVE  lifecycle = [p \in ToSet(Selection) |-> [stage |-> "analyzed", at |-> Stamp]]
  <2>1. ToSet(papers) \subseteq Found /\ papers = Selection
    BY <1>4, PapersAre DEF PapersHold
  <2>2. \A p \in ToSet(papers) : lifecycle[p].stage = "analyzed"
    <3>1. \A p \in Found : Ahead("mark", <<p, "analyzed">>) => Place(Step) <= 12
      BY AheadIsLater
    <3>2. ~(Place(Step) <= 12)
      BY <1>1, <1>2, <1>6
    <3>3. \A p \in ToSet(papers) : ~Ahead("mark", <<p, "analyzed">>)
      BY <2>1, <3>1, <3>2
    <3> QED BY <1>3, <3>3 DEF Collects, Closes
  <2>3. lifecycle = [p \in ToSet(papers) |-> [stage |-> lifecycle[p].stage, at |-> Stamp]]
    BY <1>4 DEF PapersHold
  <2> QED BY <2>1, <2>2, <2>3
<1>7. ASSUME Step.on = "verification" PROVE Completed(Plain("verify"))
  <2>1. Plain("verify") \in BodyKeys(papers)
    BY DEF BodyKeys
  <2>2. ~Ahead("stage", Plain("verify"))
    <3>1. Plain("verify") \in Keys /\ StagePlace[Plain("verify")[1]] = 17
      BY KeysHave DEF StagePlace
    <3>2. Ahead("stage", Plain("verify")) => 18 <= 17
      BY <1>1, <1>2, <1>7, <3>1, AheadIsLater
    <3> QED BY <3>2
  <2> QED BY <1>3, <2>1, <2>2 DEF Collects, Closes
<1>8. ASSUME Step.on = "result" PROVE Closes
  BY <1>1, <1>2, <1>3, <1>8, AheadIsLater
<1> QED BY <1>1, <1>4, <1>5, <1>6, <1>7, <1>8

LEMMA SomeContents ==
    /\ Content("search") = Snapshot
    /\ Content("analysis") = [q \in 1 .. Scopes |-> Value(Key("analyze", q))]
    /\ Content("citations") = [nodes |-> lifecycle, at |-> Stamp]
    /\ Content("verification") = Reliability
BY DEF Content

\* The result that the run derives, and what it stands on.
LEMMA TheResultIs ==
    ASSUME ResearchInv, Closes, Live, Step = Act("save", "result"), Place(Step) = 24
    PROVE  /\ Content("result") = ResultOf(timeline)
           /\ \A k \in BodyKeys(Selection) : Completed(k)
           /\ FinalOutcome = "succeeded" => Completed(Plain("synthesis"))
<1>1. /\ papers = Selection
      /\ lifecycle = [p \in ToSet(papers) |-> [stage |-> lifecycle[p].stage, at |-> Stamp]]
      /\ \A p \in ToSet(papers) : lifecycle[p].stage = "analyzed"
      /\ \A k \in BodyKeys(papers) : Completed(k)
  BY DEF Closes, PapersHold
<1>2. lifecycle = [p \in ToSet(Selection) |-> [stage |-> "analyzed", at |-> Stamp]]
  BY <1>1
<1>3. Content("result") = ResultOf(timeline)
  BY <1>1, <1>2 DEF Content, ResultOf
<1>4. ASSUME FinalOutcome = "succeeded" PROVE Completed(Plain("synthesis"))
  BY <1>4, TheNarrativeIs
<1> QED BY <1>1, <1>3, <1>4

LEMMA AnArtifactIsSaved ==
    ASSUME ResearchInv, Save
    PROVE  ResearchInv'
<1> PICK name : name = Step.on
  OBVIOUS
<1>1. /\ runState = "walking" /\ Step.kind = "save" /\ AnswersHold /\ TimelineHolds
      /\ UNCHANGED <<journal, requests, timeline, papers, lifecycle, deadline, now, firstStart, sent>>
  BY DEF Save, ResearchInv
<1>2. Live
  BY <1>1 DEF Live
<1>3. /\ name \in Names /\ Step = Act("save", name) /\ PapersHold /\ SearchDone
      /\ Place(Step) = SavePlace[name]
      /\ name = "analysis" => \A q \in 1 .. Scopes : Completed(Key("analyze", q))
      /\ name = "citations" =>
           lifecycle = [p \in ToSet(Selection) |-> [stage |-> "analyzed", at |-> Stamp]]
      /\ name = "verification" => Completed(Plain("verify"))
      /\ name = "result" => Closes
  BY <1>1, <1>2, TheContentIs DEF PapersHold
<1>4. refused = {} /\ "published" \notin DOMAIN saved /\ SavedHolds /\ ResultHolds /\ RefusedHolds
  BY <1>1, <1>2 DEF ResearchInv, SavedHolds, ResultHolds, RefusedHolds
<1>5. name # "result" /\ name \in DOMAIN saved => saved[name] = Content(name)
  BY <1>3, <1>4, SomeContents DEF SavedHolds, Names
<1>6. todo' \in Seq(Program) /\ Grows
  <2>1. todo' = <<>> \/ todo' = Tail(todo)
    BY DEF Save, Ends, Onward
  <2> QED BY <1>1, <1>2, <2>1, StepIs, NothingHas, TimelineStays
<1>7. Keeps /\ JournalTypes' /\ AnswersHold' /\ StartHolds' /\ TimelineHolds'
  BY <1>1, <1>6, JournalStays DEF ResearchInv, JournalTypes, Grows
<1>8. name = "result" =>
        /\ Step = Act("save", "result") /\ Place(Step) = 24 /\ Closes
        /\ Content(name) = ResultOf(timeline) /\ \A k \in BodyKeys(Selection) : Completed(k)
        /\ FinalOutcome = "succeeded" => Completed(Plain("synthesis"))
  BY <1>2, <1>3, TheResultIs DEF SavePlace
<1>9. CASE name \in DOMAIN saved /\ saved[name] # Content(name)
  <2>1. /\ todo' = <<>> /\ ~Live' /\ ~Ended' /\ runState' = "failed" /\ saved' = saved
        /\ refused' = {[name |-> name, content |-> Content(name)]}
    BY <1>1, <1>4, <1>9 DEF Save, Ends, Live, Ended
  <2>2. /\ name = "result" /\ "result" \in DOMAIN saved
        /\ saved["result"] = ResultOf(saved["result"].timeline)
        /\ IsPrefix(saved["result"].timeline, timeline)
    BY <1>4, <1>5, <1>9 DEF ResultHolds
  <2> PICK s : s = saved["result"].timeline
    OBVIOUS
  <2>3. /\ [ResultOf(s) EXCEPT !.timeline = timeline] = ResultOf(timeline)
        /\ ResultOf(timeline).timeline = timeline
    BY DEF ResultOf
  <2>4. IsStrictPrefix(s, timeline)
    BY <1>8, <1>9, <2>2 DEF IsStrictPrefix
  <2>5. \A r \in refused' : r.name = "result" /\ r.content = ResultOf(timeline)
    BY <1>8, <2>1, <2>2
  <2>6. RefusedHolds'
    BY <1>4, <2>1, <2>2, <2>3, <2>4, <2>5 DEF RefusedHolds
  <2>7. SavedHolds'
    BY <1>1, <1>2, <1>4, <1>6, <1>7, <2>1, <2>6, LiveMoves, ContentsStay
  <2>8. StageIsInDoubt' /\ ProgramHolds'
    BY <2>1 DEF StageIsInDoubt, ProgramHolds, Live
  <2> QED BY <1>7, <2>7, <2>8 DEF ResearchInv
<1>10. CASE ~(name \in DOMAIN saved /\ saved[name] # Content(name))
  <2>1. /\ saved' = [n \in DOMAIN saved \cup {name} |-> IF n = name THEN Content(name) ELSE saved[n]]
        /\ refused' = refused
        /\ name = "result" => runState' = "returning" /\ todo' = <<>>
        /\ name # "result" => todo' = Tail(todo) /\ runState' = "walking"
    BY <1>1, <1>10 DEF Save, Ends, Onward
  <2>2. /\ DOMAIN saved' = DOMAIN saved \cup {name} /\ saved'[name] = Content(name)
        /\ \A n \in DOMAIN saved : saved'[n] = saved[n]
    BY <1>10, <2>1
  <2>3. SearchDone' /\ Snapshot' = Snapshot /\ Selection' = Selection /\ Stamp' = Stamp
        /\ (ExpansionAnswers # {} => Expansion' = Expansion)
    BY <1>3, <1>7, SelectionStays
  <2>4. /\ Plain("verify") \in Keys /\ \A q \in 1 .. Scopes : Key("analyze", q) \in Keys
    BY KeysHave
  <2>5. "search" \in DOMAIN saved' => SearchDone' /\ saved'["search"] = Snapshot'
    <3>1. "search" \in DOMAIN saved' => saved'["search"] = Snapshot
      BY <1>3, <1>4, <2>2, SomeContents DEF SavedHolds
    <3> QED BY <2>3, <3>1
  <2>6. "analysis" \in DOMAIN saved' =>
          /\ \A q \in 1 .. Scopes : Completed(Key("analyze", q))'
          /\ saved'["analysis"] = [q \in 1 .. Scopes |-> Value(Key("analyze", q))']
    <3>1. "analysis" \in DOMAIN saved' =>
            /\ \A q \in 1 .. Scopes : Completed(Key("analyze", q))
            /\ saved'["analysis"] = [q \in 1 .. Scopes |-> Value(Key("analyze", q))]
      <4>1. CASE name = "analysis"
        BY <1>3, <2>2, <4>1, SomeContents
      <4>2. CASE name # "analysis"
        BY <1>4, <2>2, <4>2 DEF SavedHolds
      <4> QED BY <4>1, <4>2
    <3> QED BY <1>7, <2>4, <3>1 DEF Keeps
  <2>7. "citations" \in DOMAIN saved' =>
          /\ SearchDone'
          /\ saved'["citations"] =
               [nodes |-> [p \in ToSet(Selection)' |-> [stage |-> "analyzed", at |-> Stamp']],
                at |-> Stamp']
    <3>1. "citations" \in DOMAIN saved' =>
            saved'["citations"] =
                 [nodes |-> [p \in ToSet(Selection) |-> [stage |-> "analyzed", at |-> Stamp]],
                  at |-> Stamp]
      <4>1. CASE name = "citations"
        BY <1>3, <2>2, <4>1, SomeContents
      <4>2. CASE name # "citations"
        BY <1>4, <2>2, <4>2 DEF SavedHolds
      <4> QED BY <4>1, <4>2
    <3> QED BY <2>3, <3>1
  <2>8. "verification" \in DOMAIN saved' => Completed(Plain("verify"))' /\ saved'["verification"] = Reliability'
    <3>1. "verification" \in DOMAIN saved' =>
            Completed(Plain("verify")) /\ saved'["verification"] = Reliability
      <4>1. CASE name = "verification"
        BY <1>3, <2>2, <4>1, SomeContents
      <4>2. CASE name # "verification"
        BY <1>4, <2>2, <4>2 DEF SavedHolds
      <4> QED BY <4>1, <4>2
    <3> QED BY <1>7, <2>4, <3>1 DEF Keeps, Reliability
  <2>9. "published" \notin DOMAIN saved'
    BY <1>3, <1>4, <2>2 DEF Names
  <2>10. RefusedHolds'
    BY <1>4, <2>1 DEF RefusedHolds
  <2>11. CASE name = "result"
    <3> DEFINE r == Content("result")
    <3>1. /\ Len(r.papers) >= MinPapers
          /\ \A p \in ToSet(r.papers) :
               /\ r.lifecycle[p].stage = "analyzed"
               /\ \A s \in {"acquire", "ingest"} : requests[Key(s, p)].state = "completed"
          /\ ToSet(Story) \subseteq ToSet(r.timeline) /\ InOrder(r.timeline)
          /\ r.outcome = "succeeded" =>
               /\ requests[Plain("search")].answer.ok
               /\ ExpansionAnswers # {} => requests[Plain("citations")].answer.ok
               /\ requests[Plain("synthesis")].answer = "usable"
      BY <1>2, <1>8, <2>11, TheResultIsEarned
    <3> HIDE DEF r
    <3>2. saved'["result"] = r /\ r = ResultOf(timeline) /\ "result" \in DOMAIN saved'
      BY <1>8, <2>2, <2>11 DEF r
    <3>3. ResultIsEarned'
      BY <1>1, <2>9, <3>1, <3>2 DEF ResultIsEarned
    <3>4. FinalOutcome' = FinalOutcome
      BY <1>1 DEF FinalOutcome, Reliability, Snapshot, Expansion, Value
    <3>5. saved'["result"].timeline = timeline /\ (ResultOf(timeline))' = ResultOf(timeline)
      BY <1>1, <2>3, <3>2, <3>4 DEF ResultOf
    <3>6. timeline \in Seq(Tales \cup ServiceTales) /\ IsPrefix(timeline, timeline)
      <4>1. timeline \in Seq(Tales \cup ServiceTales)
        BY <1>1 DEF TimelineHolds
      <4> QED BY <4>1, PrefixIsItself
    <3>7. /\ \A k \in BodyKeys(Selection)' : Completed(k)'
          /\ (FinalOutcome = "succeeded" => Completed(Plain("synthesis")))'
      BY <1>1, <1>8, <2>3, <2>11, <3>4 DEF BodyKeys, Completed
    <3>8. ResultHolds'
      BY <1>1, <2>1, <2>3, <2>9, <2>11, <3>2, <3>3, <3>5, <3>6, <3>7 DEF ResultHolds, Ended
    <3>9. SavedHolds'
      BY <2>5, <2>6, <2>7, <2>8, <2>10, <3>8 DEF SavedHolds
    <3>10. StageIsInDoubt' /\ ProgramHolds'
      BY <2>1, <2>11 DEF StageIsInDoubt, ProgramHolds, Live
    <3> QED BY <1>7, <3>9, <3>10 DEF ResearchInv
  <2>12. CASE name # "result"
    <3>1. ResultHolds'
      <4>1. /\ "result" \in DOMAIN saved' <=> "result" \in DOMAIN saved
            /\ "result" \in DOMAIN saved => saved'["result"] = saved["result"]
            /\ "published" \notin DOMAIN saved'
        BY <2>2, <2>9, <2>12
      <4>2. /\ Snapshot' = Snapshot /\ Reliability' = Reliability /\ FinalOutcome' = FinalOutcome
        BY <1>1 DEF FinalOutcome, Reliability, Snapshot, Expansion, Value
      <4>3. ~Ended'
        BY <2>1, <2>12 DEF Ended
      <4>4. CASE "result" \in DOMAIN saved
        <5>1. ResultIsEarned'
          <6> PICK r : r = saved["result"]
            OBVIOUS
          <6>1. /\ Len(r.papers) >= MinPapers
                /\ \A p \in ToSet(r.papers) :
                     /\ r.lifecycle[p].stage = "analyzed"
                     /\ \A s \in {"acquire", "ingest"} : requests[Key(s, p)].state = "completed"
                /\ ToSet(Story) \subseteq ToSet(r.timeline) /\ InOrder(r.timeline)
                /\ r.outcome = "succeeded" =>
                     /\ requests[Plain("search")].answer.ok
                     /\ ExpansionAnswers # {} => requests[Plain("citations")].answer.ok
                     /\ requests[Plain("synthesis")].answer = "usable"
            BY <1>4, <4>4 DEF ResultHolds, ResultIsEarned
          <6> QED BY <1>1, <4>1, <4>4, <6>1 DEF ResultIsEarned
        <5>3. /\ saved["result"] = ResultOf(saved["result"].timeline)
              /\ saved["result"].timeline \in Seq(Tales \cup ServiceTales)
              /\ IsPrefix(saved["result"].timeline, timeline)
              /\ \A k \in BodyKeys(Selection) : Completed(k)
              /\ FinalOutcome = "succeeded" => Completed(Plain("synthesis"))
          BY <1>4, <4>4 DEF ResultHolds
        <5>4. (saved["result"] = ResultOf(saved["result"].timeline))'
          BY <2>3, <4>1, <4>2, <4>4, <5>3 DEF ResultOf
        <5>5. /\ \A k \in BodyKeys(Selection)' : Completed(k)'
              /\ (FinalOutcome = "succeeded" => Completed(Plain("synthesis")))'
          BY <1>1, <2>3, <4>2, <5>3 DEF BodyKeys, Completed
        <5> QED BY <1>1, <2>3, <4>1, <4>3, <4>4, <5>1, <5>3, <5>4, <5>5 DEF ResultHolds
      <4>5. CASE "result" \notin DOMAIN saved
        BY <4>1, <4>3, <4>5 DEF ResultHolds
      <4> QED BY <4>4, <4>5
    <3>2. SavedHolds'
      BY <2>5, <2>6, <2>7, <2>8, <2>10, <3>1 DEF SavedHolds
    <3>3. PapersHold'
      <4>1. lifecycle' = [p \in ToSet(papers) |-> [stage |-> lifecycle'[p].stage, at |-> Stamp]]
        BY <1>1, <1>3 DEF PapersHold
      <4> QED BY <1>1, <1>3, <1>7, <4>1, PapersStay
    <3> PICK h : h = Step
      OBVIOUS
    <3>4. DoneOf(h)'
      <4>1. h.kind = "save" /\ h # Act("save", "result")
        BY <1>1, <1>3, <2>12 DEF Act
      <4> QED BY <4>1 DEF DoneOf, Act
    <3>5. /\ papers' = papers /\ todo' = Tail(todo) /\ runState' = "walking"
          /\ \A p \in ToSet(papers) : lifecycle[p].stage = "analyzed" => lifecycle'[p].stage = "analyzed"
      BY <1>1, <2>1, <2>12
    <3> QED BY <1>2, <1>6, <1>7, <3>2, <3>3, <3>4, <3>5, SessionGoesOn
  <2> QED BY <2>11, <2>12
<1> QED BY <1>9, <1>10

LEMMA ResearchInitially == ResearchInit => ResearchInv
<1> SUFFICES ASSUME ResearchInit PROVE ResearchInv
  OBVIOUS
<1> USE DEF ResearchInit
<1>1. JournalTypes
  <2>1. \A k \in Keys : /\ journal[k] = [state |-> "absent", tries |-> 0, value |-> None]
                        /\ requests[k] = [state |-> "absent", answer |-> None]
    OBVIOUS
  <2> QED BY <2>1, NothingHas DEF JournalTypes
<1>2. StageIsInDoubt /\ ProgramHolds
  BY DEF StageIsInDoubt, ProgramHolds, Live
<1>3. AnswersHold /\ StartHolds
  BY KeysHave DEF AnswersHold, StartHolds, Completed
<1>4. SavedHolds
  BY DEF SavedHolds, ResultHolds, RefusedHolds, Ended
<1>5. TimelineHolds
  <2>1. /\ timeline \in Seq(Tales \cup ServiceTales) /\ DOMAIN timeline = {1}
        /\ timeline[1] = "plan_approved"
    BY DEF ServiceTales
  <2>2. \A n \in DOMAIN Story : Story[n] # "plan_approved" /\ ~Told(Story[n])
    BY <2>1, StoryIs DEF Tales, Told, ToSet
  <2> QED BY <2>1, <2>2 DEF TimelineHolds, InOrder
<1> QED BY <1>1, <1>2, <1>3, <1>4, <1>5 DEF ResearchInv

LEMMA ResearchPreserved == ResearchInv /\ [ResearchNext]_researchVars => ResearchInv'
<1> SUFFICES ASSUME ResearchInv, [ResearchNext]_researchVars PROVE ResearchInv'
  OBVIOUS
<1>1. CASE UNCHANGED researchVars
  <2>1. UNCHANGED <<journal, requests, saved, timeline, todo, papers, lifecycle, deadline, runState, now,
                    firstStart, sent, refused>>
    BY <1>1 DEF researchVars
  <2>2. Keeps /\ JournalTypes' /\ AnswersHold' /\ StartHolds'
    BY <2>1, JournalStays DEF ResearchInv, JournalTypes
  <2>3. StageIsInDoubt' /\ Grows
    BY <2>1, TimelineStays DEF ResearchInv, StageIsInDoubt, Step
  <2> QED BY <2>1, <2>2, <2>3, SessionStands
<1>2. CASE StartSession
  BY <1>2, TheSessionStarts
<1>3. CASE StopAtStage \/ CrashRun \/ RefuseUnsynced \/ CloseTask
  BY <1>3, TheSessionEnds
<1>4. CASE Checked
  BY <1>4, ACheckIsPassed
<1>5. CASE Replay
  BY <1>5, AStageIsReplayed
<1>6. CASE BeginStage
  BY <1>6, AStageBegins
<1>7. CASE Dispatch \/ Answered
  BY <1>7, TheRequestMoves
<1>8. CASE RequestInDoubt \/ StageFails \/ NotDispatched
  BY <1>8, TheStageIsInDoubt
<1>9. CASE CompleteStage
  BY <1>9, AStageCompletes
<1>10. CASE Select
  BY <1>10, ThePapersAreChosen
<1>11. CASE Mark
  BY <1>11, APaperIsMarked
<1>12. CASE Merge
  BY <1>12, TheAnswersAgree
<1>13. CASE Report
  BY <1>13, TheReportIsMade
<1>14. CASE Usable
  BY <1>14, TheNarrativeIsUsed
<1>15. CASE Save
  BY <1>15, AnArtifactIsSaved
<1>16. CASE Event
  BY <1>16, AnEventIsTold
<1>17. CASE CancelRun \/ CancelIsTold \/ Elapse
  BY <1>17, TheFlagIsSet
<1>18. CASE ResumeRun
  BY <1>18, TheRunIsResumed
<1>19. CASE Publish
  BY <1>19, TheResultIsPublished
<1> QED BY <1>1, <1>2, <1>3, <1>4, <1>5, <1>6, <1>7, <1>8, <1>9, <1>10, <1>11, <1>12, <1>13, <1>14,
           <1>15, <1>16, <1>17, <1>18, <1>19 DEF ResearchNext

LEMMA ResearchStays == ResearchSpec => []ResearchInv
BY ResearchInitially, ResearchPreserved, PTL DEF ResearchSpec

\* However often a run is stopped and resumed: what it derives again is what an earlier
\* session saved, but for the timeline in its result, which the events told in between
\* have only made longer; nothing else of it is ever refused as conflicting, that not
\* once its result is published, and no request of it goes out twice
\* (delivery/research.py, ArtifactStore.put, RuntimeLedger).
THEOREM ResumedRunsReproduce == ResearchSpec => []ResumeReproduces
<1>1. ResearchInv => ResumeReproduces
  BY DEF ResearchInv, SavedHolds, RefusedHolds, AnswersHold, ResumeReproduces
<1> QED BY <1>1, ResearchStays, PTL

\* A result is saved only with all its papers through every gate, with every event of
\* the program once and in order among those of the service, and with an outcome its
\* stages earned, whatever sessions, failures and crashes there were before; what the
\* service publishes is that result (delivery/research.py, ResearchPipeline._run;
\* M6TaskService._run_live_research).
THEOREM ResultsAreEarned == ResearchSpec => []ResultIsEarned
<1>1. ResearchInv => ResultIsEarned
  BY DEF ResearchInv, SavedHolds, ResultHolds, ResultIsEarned
<1> QED BY <1>1, ResearchStays, PTL

\* However often and however late a run is resumed, no request of it leaves after the
\* wall clock of its first session or the approved deadline (ResearchStages.deadline).
THEOREM DeadlinesOutliveSessions == ResearchSpec => DispatchIsInTime
<1>1. ResearchInv /\ [ResearchNext]_researchVars =>
        [sent' # sent => now < firstStart + WallClock /\ now < ApprovedDeadline]_researchVars
  <2> SUFFICES ASSUME ResearchInv, ResearchNext, sent' # sent
               PROVE  now < firstStart + WallClock /\ now < ApprovedDeadline
    BY DEF researchVars
  <2>1. Dispatch
    BY DEF ResearchNext, StartSession, StopAtStage, Checked, Replay, BeginStage, Answered,
           RequestInDoubt, StageFails, NotDispatched, CompleteStage, Select, Mark, Merge, Report,
           Usable, Save, Event, Publish, CloseTask, RefuseUnsynced, CrashRun, CancelRun, CancelIsTold,
           ResumeRun, Elapse
  <2>2. now \in Nat /\ now < deadline
    BY <2>1 DEF Dispatch, ResearchInv, JournalTypes
  <2>3. deadline = DeadlineOf(firstStart) /\ firstStart \in Nat
    BY <2>2 DEF ResearchInv, StartHolds
  <2> QED BY <2>2, <2>3, ResearchAssumption DEF DeadlineOf
<1> QED BY <1>1, ResearchStays, PTL DEF ResearchSpec, DispatchIsInTime

-----------------------------------------------------------------------------
(* The workflow graph: any papers, answers, limits and crashes.            *)

Nodes == {"create_plan", "approval", "search", "papers", "finalize", "end"}
RunStatuses == {"created", "waiting_approval", "running", "degraded", "rejected", "completed"}
TimedOut == {"search_timed_out", "search_budget_exhausted"}
Stops == {"none", "coverage_complete", "max_rounds", "query_budget_exhausted", "saturated",
          "plan_rejected"} \cup TimedOut
Results == {"none", "succeeded", "failed", "timed_out"}
RoundRecords == [new : SUBSET Papers, fresh : Int, found : SUBSET Papers,
                 papers : SUBSET Papers, covered : SUBSET Subquestions]
Checkpoints == [node : Nodes, status : RunStatuses, rounds : Nat, selected : SUBSET Papers,
                stop : Stops, failed : SUBSET Papers]

WorkflowTyped ==
    /\ checkpoint \in Checkpoints
    /\ artifacts \in [draft : BOOLEAN, approved : {"none", "approve", "modify"},
                      rounds : Seq(RoundRecords), papers : [Papers -> Results]]
    /\ charges \in [plan : BOOLEAN, calls : SUBSET Nat, results : [Indices -> Nat \cup {Unbilled}],
                    papers : SUBSET Papers]
    /\ worker \in [Papers -> {"idle", "charged", "running", "stored", "done"}]
    /\ asked \subseteq Nat

\* What a checkpoint says of the stores, whether it is saved or about to be.
Chosen(c) == FirstOf(c.selected, Limits.fulltext)
Agrees(c, rounds, analysed, calls, paid) ==
    /\ c \in Checkpoints
    /\ c.node \in {"create_plan", "approval"} =>
          c.status \in {"created", "waiting_approval"} /\ c.rounds = 0 /\ c.stop = "none"
    /\ c.node \in {"create_plan", "approval"} \/ c.status = "rejected" =>
          calls = {} /\ paid = {} /\ rounds = <<>> /\ c.selected = {}
    /\ c.node = "search" => c.status = "running" /\ c.stop = "none" /\ paid = {}
    /\ c.node = "papers" => c.status \in {"running", "degraded"}
    /\ c.node # "end" => c.status # "completed"
    /\ c.stop \in TimedOut => c.status = "degraded"
    /\ c.rounds <= Len(rounds)
    /\ c.node # "search" => c.rounds = Len(rounds)
    /\ c.selected = UNION {rounds[i].new : i \in 1 .. c.rounds}
    /\ paid \subseteq Chosen(c)
    /\ (c.node = "finalize" /\ c.failed = {} /\ c.status # "rejected") \/ c.status = "completed" =>
          \A p \in Chosen(c) : analysed[p] = "succeeded"
AgreesNow(c) == Agrees(c, artifacts.rounds, artifacts.papers, charges.calls, charges.papers)

\* What the running node holds, by its step.
PendingHolds ==
    /\ step = "answered" => checkpoint.node = "search" /\ pending.answer \in Answers
    /\ step \in {"billed", "stored"} =>
          checkpoint.node = "search" /\ pending.round \in RoundRecords
    /\ step = "return" => AgreesNow(pending.state) /\ pending.state.rounds = Len(artifacts.rounds)

\* A stored round is at most one ahead of the checkpoint, and then it is asked for again.
SearchHolds ==
    /\ Len(artifacts.rounds) <= Limits.rounds
    /\ Len(artifacts.rounds) # Round =>
          /\ Len(artifacts.rounds) = Round + 1
          /\ checkpoint.node = "search" /\ NextAction(History) = "search"
    /\ step \in {"call", "answered", "billed"} =>
          /\ Len(artifacts.rounds) = Round
          /\ checkpoint.node = "search" /\ NextAction(History) = "search"
    /\ step = "call" => Round \in charges.calls
    /\ step = "billed" => charges.results[Round] = Cardinality(pending.round.new)
    /\ step = "stored" => /\ Len(artifacts.rounds) = Round + 1
                          /\ artifacts.rounds[Round + 1] = pending.round

BillsHold ==
    /\ \A i \in 1 .. Len(artifacts.rounds) :
          charges.results[i - 1] = Cardinality(artifacts.rounds[i].new)
    /\ asked \subseteq charges.calls
    /\ CandidatesUsed <= Limits.candidates

\* A paper that is analysed was charged.
AnalysesHold ==
    \A p \in Papers :
        worker[p] \in {"charged", "running", "stored"} \/ artifacts.papers[p] # "none"
            => p \in charges.papers

WorkflowInv == /\ WorkflowTyped /\ AgreesNow(checkpoint) /\ PendingHolds
               /\ SearchHolds /\ BillsHold /\ AnalysesHold

\* Of a set of papers, no more than n come before n others.
LEMMA FirstAreFew ==
    ASSUME NEW S \in SUBSET Papers, NEW n \in Nat
    PROVE  /\ FirstOf(S, n) \subseteq S
           /\ IsFiniteSet(FirstOf(S, n))
           /\ Cardinality(FirstOf(S, n)) \in Nat
           /\ Cardinality(FirstOf(S, n)) <= n
<1> DEFINE T == FirstOf(S, n)
<1>1. T \subseteq S /\ IsFiniteSet(S) /\ S \subseteq Int
  BY WorkflowAssumption, FS_Subset DEF FirstOf
<1>2. IsFiniteSet(T) /\ Cardinality(T) \in Nat
  BY <1>1, FS_Subset, FS_CardinalityType
<1>3. CASE T = {}
  BY <1>1, <1>2, <1>3, FS_EmptySet
<1>4. CASE T # {}
  <2>1. T \in SUBSET Int
    BY <1>1
  <2> HIDE DEF T
  <2>2. PICK m \in T : \A y \in T : y <= m
    BY <1>2, <1>4, <2>1, GreatestNumber
  <2>3. IsFiniteSet(T \ {m}) /\ Cardinality(T \ {m}) = Cardinality(T) - 1
    BY <1>2, FS_RemoveElement
  <2>4. T \ {m} \subseteq {q \in S : q < m}
    BY <1>1, <2>1, <2>2
  <2>5. IsFiniteSet({q \in S : q < m})
    BY <1>1, FS_Subset
  <2>6. /\ Cardinality(T \ {m}) <= Cardinality({q \in S : q < m})
        /\ Cardinality({q \in S : q < m}) \in Nat
    BY <2>4, <2>5, FS_Subset, FS_CardinalityType
  <2>7. Cardinality({q \in S : q < m}) < n
    BY DEF T, FirstOf
  <2> QED BY <1>1, <1>2, <2>3, <2>6, <2>7 DEF T
<1> QED BY <1>3, <1>4

\* A step that leaves what the invariant says of the stores as it is.
QuietStores ==
    /\ checkpoint' = checkpoint
    /\ artifacts' \in [draft : BOOLEAN, approved : {"none", "approve", "modify"},
                       rounds : {artifacts.rounds}, papers : {artifacts.papers}]
    /\ charges' \in [plan : BOOLEAN, calls : {charges.calls}, results : {charges.results},
                     papers : {charges.papers}]
    /\ worker' \in {worker, [p \in Papers |-> "idle"]}
    /\ asked' \subseteq charges.calls

\* Changes of a plan's draft, approval and charge are of this kind.
LEMMA PlanStores ==
    WorkflowTyped =>
        /\ artifacts \in [draft : BOOLEAN, approved : {"none", "approve", "modify"},
                          rounds : {artifacts.rounds}, papers : {artifacts.papers}]
        /\ charges \in [plan : BOOLEAN, calls : {charges.calls}, results : {charges.results},
                        papers : {charges.papers}]
        /\ [artifacts EXCEPT !.draft = TRUE]
              \in [draft : BOOLEAN, approved : {"none", "approve", "modify"},
                   rounds : {artifacts.rounds}, papers : {artifacts.papers}]
        /\ \A action \in {"approve", "modify"} :
              [artifacts EXCEPT !.approved = action]
                 \in [draft : BOOLEAN, approved : {"none", "approve", "modify"},
                      rounds : {artifacts.rounds}, papers : {artifacts.papers}]
        /\ [charges EXCEPT !.plan = TRUE]
              \in [plan : BOOLEAN, calls : {charges.calls}, results : {charges.results},
                   papers : {charges.papers}]
BY DEF WorkflowTyped

LEMMA QuietStoresStay ==
    ASSUME WorkflowInv, QuietStores
    PROVE  /\ artifacts'.rounds = artifacts.rounds /\ artifacts'.papers = artifacts.papers
           /\ charges'.calls = charges.calls /\ charges'.results = charges.results
           /\ charges'.papers = charges.papers
           /\ WorkflowTyped' /\ AgreesNow(checkpoint)' /\ BillsHold' /\ AnalysesHold'
           /\ Round' = Round /\ History' = History
<1>1. /\ artifacts'.rounds = artifacts.rounds /\ artifacts'.papers = artifacts.papers
      /\ charges'.calls = charges.calls /\ charges'.results = charges.results
      /\ charges'.papers = charges.papers
  BY DEF QuietStores
<1>2. WorkflowTyped'
  <2>1. artifacts' \in [draft : BOOLEAN, approved : {"none", "approve", "modify"},
                        rounds : Seq(RoundRecords), papers : [Papers -> Results]]
    BY DEF QuietStores, WorkflowInv, WorkflowTyped
  <2>2. charges' \in [plan : BOOLEAN, calls : SUBSET Nat,
                      results : [Indices -> Nat \cup {Unbilled}], papers : SUBSET Papers]
    BY DEF QuietStores, WorkflowInv, WorkflowTyped
  <2> QED BY <2>1, <2>2 DEF QuietStores, WorkflowInv, WorkflowTyped
<1>3. AgreesNow(checkpoint)'
  BY <1>1 DEF AgreesNow, QuietStores, WorkflowInv
<1>4. BillsHold'
  <2>1. CandidatesUsed' = CandidatesUsed
    BY <1>1 DEF CandidatesUsed
  <2> QED BY <1>1, <2>1 DEF BillsHold, QuietStores, WorkflowInv
<1>5. AnalysesHold'
  BY <1>1 DEF AnalysesHold, QuietStores, WorkflowInv, WorkflowTyped
<1> QED BY <1>1, <1>2, <1>3, <1>4, <1>5 DEF QuietStores, Round, History

\* The node goes on, or its process dies or comes back.
LEMMA NodeGoesOn ==
    ASSUME WorkflowInv, QuietStores,
           step' \in {"begin", "drafted", "charged", "interrupted", "approved", "down", "deleted"}
    PROVE  WorkflowInv'
<1>1. PendingHolds'
  BY DEF PendingHolds
<1>2. SearchHolds'
  BY QuietStoresStay DEF SearchHolds, WorkflowInv, QuietStores, NextAction, Saturated, Covered
<1> QED BY <1>1, <1>2, QuietStoresStay DEF WorkflowInv

\* The node returns a state that agrees with the stores.
LEMMA NodeReturns ==
    ASSUME WorkflowInv, QuietStores, NEW c, AgreesNow(c), c.rounds = Len(artifacts.rounds),
           step' = "return", pending' = Update(c)
    PROVE  WorkflowInv'
<1>1. PendingHolds'
  <2>1. pending'.state = c
    BY DEF Update
  <2> QED BY <2>1, QuietStoresStay DEF PendingHolds, AgreesNow
<1>2. SearchHolds'
  BY QuietStoresStay DEF SearchHolds, WorkflowInv, QuietStores, NextAction, Saturated, Covered
<1> QED BY <1>1, <1>2, QuietStoresStay DEF WorkflowInv

LEMMA ThePlanIsDecided ==
    ASSUME WorkflowInv,
           \/ DraftPlan \/ ChargePlan \/ AnnouncePlan \/ RequestApproval \/ Reject
           \/ AnnounceApproval \/ \E action \in {"approve", "modify"} : Approve(action)
    PROVE  WorkflowInv'
<1>1. /\ WorkflowTyped /\ asked \subseteq charges.calls /\ checkpoint \in Checkpoints
      /\ AgreesNow(checkpoint)
  BY DEF WorkflowInv, BillsHold, WorkflowTyped
<1>2. QuietStores
  BY <1>1, PlanStores DEF DraftPlan, ChargePlan, AnnouncePlan, RequestApproval, Reject,
     AnnounceApproval, Approve, QuietStores
<1>3. checkpoint.node \in {"create_plan", "approval"}
  BY DEF DraftPlan, ChargePlan, AnnouncePlan, RequestApproval, Reject, AnnounceApproval, Approve, At
<1>4. checkpoint.rounds = Len(artifacts.rounds) /\ charges.papers = {}
  BY <1>1, <1>3 DEF AgreesNow, Agrees
<1>5. CASE step' = "return"
  <2>1. PICK c : /\ pending' = Update(c)
                 /\ c \in {Planned,
                           [checkpoint EXCEPT !.node = "finalize", !.status = "rejected",
                                              !.stop = "plan_rejected"],
                           [checkpoint EXCEPT !.node = "search", !.status = "running"]}
    BY <1>5 DEF DraftPlan, ChargePlan, AnnouncePlan, RequestApproval, Reject, AnnounceApproval,
       Approve, Return, Move
  <2>2. /\ c \in Checkpoints /\ c.rounds = checkpoint.rounds /\ c.selected = checkpoint.selected
        /\ \/ c.node = "approval" /\ c.status = "waiting_approval" /\ c.stop = checkpoint.stop
           \/ c.node = "finalize" /\ c.status = "rejected" /\ c.stop = "plan_rejected"
           \/ c.node = "search" /\ c.status = "running" /\ c.stop = checkpoint.stop
    BY <1>1, <2>1 DEF Planned, Checkpoints, Nodes, RunStatuses, Stops
  <2>3. AgreesNow(c)
    BY <1>1, <1>3, <1>4, <2>2 DEF AgreesNow, Agrees, TimedOut, Chosen
  <2> QED BY <1>2, <1>4, <1>5, <2>1, <2>2, <2>3, NodeReturns
<1>6. CASE step' # "return"
  <2>1. step' \in {"drafted", "charged", "interrupted", "approved"}
    BY <1>6 DEF DraftPlan, ChargePlan, AnnouncePlan, RequestApproval, Reject, AnnounceApproval,
       Approve, Return, Move
  <2> QED BY <1>2, <2>1, NodeGoesOn
<1> QED BY <1>5, <1>6

\* The state a search node returns, whether it goes on or stops.
LEMMA AfterSearchAgrees ==
    ASSUME WorkflowInv, checkpoint.node = "search", NEW d \in Checkpoints, d.node = "search",
           d.status \in {"running", "degraded"}, d.stop = "none" => d.status = "running",
           d.stop \in TimedOut => d.status = "degraded", d.rounds = Len(artifacts.rounds),
           d.selected = UNION {artifacts.rounds[i].new : i \in 1 .. Len(artifacts.rounds)}
    PROVE  AgreesNow(AfterSearch(d)) /\ AfterSearch(d).rounds = Len(artifacts.rounds)
<1> DEFINE c == AfterSearch(d)
<1>1. /\ c \in Checkpoints /\ c.status = d.status /\ c.stop = d.stop /\ c.rounds = d.rounds
      /\ c.selected = d.selected /\ c.failed = d.failed
      /\ c.node \in {"search", "papers", "finalize"}
      /\ c.node = "search" <=> d.stop = "none"
      /\ c.node = "finalize" => c.selected = {}
  <2> DEFINE n == IF d.stop = "none" THEN "search"
                  ELSE IF d.selected = {} THEN "finalize" ELSE "papers"
  <2>1. c = [d EXCEPT !.node = n]
    BY DEF AfterSearch
  <2>2. \/ n = "search" /\ d.stop = "none"
        \/ n = "finalize" /\ d.stop # "none" /\ d.selected = {}
        \/ n = "papers" /\ d.stop # "none"
    OBVIOUS
  <2> HIDE DEF c, n
  <2> QED BY <2>1, <2>2 DEF Checkpoints, Nodes
<1>2. charges.papers = {}
  BY DEF WorkflowInv, AgreesNow, Agrees
<1>3. c.selected = {} => Chosen(c) = {}
  BY DEF Chosen, FirstOf
<1>4. Len(artifacts.rounds) \in Nat
  BY DEF WorkflowInv, WorkflowTyped
<1> HIDE DEF c
<1> QED BY <1>1, <1>2, <1>3, <1>4 DEF AgreesNow, Agrees, c

LEMMA CountedAgrees ==
    ASSUME WorkflowInv, checkpoint.node = "search", Len(artifacts.rounds) = Round + 1
    PROVE  /\ AgreesNow(Counted(artifacts.rounds[Round + 1]))
           /\ Counted(artifacts.rounds[Round + 1]).rounds = Len(artifacts.rounds)
<1> DEFINE r == artifacts.rounds[Round + 1]
           d == [checkpoint EXCEPT !.rounds = @ + 1, !.selected = @ \cup r.new]
<1>1. /\ checkpoint \in Checkpoints /\ AgreesNow(checkpoint) /\ Round \in Nat
      /\ artifacts.rounds \in Seq(RoundRecords)
  BY DEF WorkflowInv, WorkflowTyped, Round, Checkpoints
<1>2. r.new \in SUBSET Papers
  <2>1. Round + 1 \in 1 .. Len(artifacts.rounds)
    BY <1>1
  <2>2. r \in RoundRecords
    BY <1>1, <2>1, ElementOfSeq
  <2> QED BY <2>2 DEF RoundRecords
<1> HIDE DEF r
<1>3. /\ d \in Checkpoints /\ d.node = "search" /\ d.status = "running" /\ d.stop = "none"
      /\ d.rounds = Round + 1 /\ d.selected = checkpoint.selected \cup r.new
  <2> DEFINE s == checkpoint.selected \cup r.new
             m == [checkpoint EXCEPT !.rounds = checkpoint.rounds + 1]
  <2>1. m \in Checkpoints /\ m.rounds = Round + 1 /\ m.selected = checkpoint.selected
        /\ m.node = checkpoint.node /\ m.status = checkpoint.status /\ m.stop = checkpoint.stop
    BY <1>1 DEF Checkpoints, Round
  <2>2. d = [m EXCEPT !.selected = s]
    OBVIOUS
  <2>3. s \in SUBSET Papers
    BY <1>1, <1>2 DEF Checkpoints
  <2> HIDE DEF m, s, d
  <2>4. /\ d \in Checkpoints /\ d.rounds = m.rounds /\ d.selected = s
        /\ d.node = m.node /\ d.status = m.status /\ d.stop = m.stop
    BY <2>1, <2>2, <2>3 DEF Checkpoints
  <2> QED BY <1>1, <2>1, <2>4 DEF AgreesNow, Agrees, s
<1>4. 1 .. Len(artifacts.rounds) = (1 .. Round) \cup {Round + 1}
  BY <1>1
<1>5. checkpoint.selected = UNION {artifacts.rounds[i].new : i \in 1 .. Round}
  BY <1>1 DEF AgreesNow, Agrees, Round
<1>6. UNION {artifacts.rounds[i].new : i \in 1 .. Len(artifacts.rounds)} = d.selected
  <2> HIDE DEF d
  <2> QED BY <1>3, <1>4, <1>5 DEF r
<1>7. Counted(r) = AfterSearch(d)
  BY DEF Counted, r
<1> HIDE DEF d
<1>8. AgreesNow(AfterSearch(d)) /\ AfterSearch(d).rounds = Len(artifacts.rounds)
  BY <1>3, <1>6, AfterSearchAgrees DEF TimedOut
<1> QED BY <1>7, <1>8 DEF r

LEMMA ActionsAre ==
    /\ NextAction(History) \in Stops \cup {"search"}
    /\ NextAction(History) \notin TimedOut \cup {"none"}
BY DEF NextAction, Stops, TimedOut

\* The search node stops, counts a round or gives up.
LEMMA TheSearchReturns ==
    ASSUME WorkflowInv, StopSearch \/ ReuseRound \/ AnnounceRound \/ SearchTimesOut
                        \/ (ChargeCall /\ step' = "return")
    PROVE  WorkflowInv'
<1>1. /\ WorkflowTyped /\ asked \subseteq charges.calls /\ checkpoint \in Checkpoints
      /\ AgreesNow(checkpoint) /\ SearchHolds /\ Round \in Nat /\ Len(artifacts.rounds) \in Nat
  BY DEF WorkflowInv, BillsHold, WorkflowTyped, Round, Checkpoints
<1>2. QuietStores
  BY <1>1, PlanStores DEF StopSearch, ReuseRound, AnnounceRound, SearchTimesOut, ChargeCall,
     QuietStores, SearchHolds, At, Return, Move
<1>3. checkpoint.node = "search" /\ checkpoint.status = "running" /\ checkpoint.stop = "none"
  BY <1>1 DEF StopSearch, ReuseRound, AnnounceRound, SearchTimesOut, ChargeCall, At, AgreesNow, Agrees
<1>4. ASSUME NEW c, pending' = Update(c), AgreesNow(c), c.rounds = Len(artifacts.rounds), step' = "return"
      PROVE  WorkflowInv'
  BY <1>2, <1>4, NodeReturns
<1>5. CASE ReuseRound \/ AnnounceRound
  <2>1. Len(artifacts.rounds) = Round + 1
    BY <1>1, <1>5 DEF ReuseRound, AnnounceRound, At, SearchHolds
  <2>2. step' = "return" /\ pending' = Update(Counted(artifacts.rounds[Round + 1]))
    BY <1>1, <1>5 DEF ReuseRound, AnnounceRound, At, SearchHolds, Return
  <2>3. PICK c : c = Counted(artifacts.rounds[Round + 1])
    OBVIOUS
  <2> QED BY <1>3, <1>4, <2>1, <2>2, <2>3, CountedAgrees
<1>6. CASE ~(ReuseRound \/ AnnounceRound)
  <2>1. Len(artifacts.rounds) = Round
    BY <1>1, <1>6 DEF StopSearch, SearchTimesOut, ChargeCall, SearchHolds, At
  <2>2. checkpoint.selected = UNION {artifacts.rounds[i].new : i \in 1 .. Len(artifacts.rounds)}
    BY <1>1, <2>1 DEF AgreesNow, Agrees, Round
  <2>3. PICK d : /\ pending' = Update(AfterSearch(d)) /\ step' = "return"
                 /\ \/ d = [checkpoint EXCEPT !.stop = NextAction(History)]
                       /\ NextAction(History) # "search"
                    \/ d = [checkpoint EXCEPT !.stop = "search_timed_out", !.status = "degraded"]
                    \/ d = [checkpoint EXCEPT !.stop = "search_budget_exhausted", !.status = "degraded"]
    BY <1>6 DEF StopSearch, SearchTimesOut, ChargeCall, Return, Degraded, Move
  <2>4. /\ d \in Checkpoints /\ d.node = "search" /\ d.rounds = Round
        /\ d.selected = checkpoint.selected /\ d.stop # "none"
        /\ \/ d.status = "running" /\ d.stop \notin TimedOut
           \/ d.status = "degraded"
    BY <1>1, <1>3, <2>3, ActionsAre DEF Checkpoints, Stops, TimedOut, RunStatuses, Round
  <2>5. PICK c : c = AfterSearch(d)
    OBVIOUS
  <2> QED BY <1>3, <1>4, <2>1, <2>2, <2>3, <2>4, <2>5, AfterSearchAgrees
<1> QED BY <1>5, <1>6

LEMMA SameHistory ==
    checkpoint' = checkpoint /\ artifacts'.rounds = artifacts.rounds =>
        Round' = Round /\ History' = History /\ NextAction(History)' = NextAction(History)
<1> SUFFICES ASSUME checkpoint' = checkpoint, artifacts'.rounds = artifacts.rounds
             PROVE  Round' = Round /\ History' = History /\ NextAction(History)' = NextAction(History)
  OBVIOUS
<1>1. Round' = Round /\ History' = History
  BY DEF Round, History
<1>2. NextAction(History)' = NextAction(History)
  BY <1>1 DEF NextAction, Saturated, Covered
<1> QED BY <1>1, <1>2

\* A round is asked for only while the limits leave one.
LEMMA ARoundIsLeft ==
    ASSUME WorkflowInv, NextAction(History) = "search"
    PROVE  Round < Limits.rounds /\ Round \in Indices /\ Round + 1 <= Limits.rounds
<1>1. Round \in Nat /\ artifacts.rounds \in Seq(RoundRecords) /\ Round <= Len(artifacts.rounds)
  BY DEF WorkflowInv, WorkflowTyped, Checkpoints, Round, AgreesNow, Agrees
<1>2. Len(History) = Round
  <2>1. Len(SubSeq(artifacts.rounds, 1, Round)) = Round
    BY <1>1, SubSeqProperties
  <2> QED BY <2>1 DEF History, Round
<1>3. ~(Len(History) >= Limits.rounds)
  BY DEF NextAction
<1> QED BY <1>1, <1>2, <1>3, WorkflowAssumption DEF Indices

LEMMA TheCallIsCharged ==
    ASSUME WorkflowInv, ChargeCall, step' # "return"
    PROVE  WorkflowInv'
<1>1. /\ WorkflowTyped /\ checkpoint \in Checkpoints /\ AgreesNow(checkpoint)
      /\ SearchHolds /\ BillsHold /\ AnalysesHold /\ Round \in Nat
  BY DEF WorkflowInv, WorkflowTyped, Round, Checkpoints
<1>2. /\ checkpoint.node = "search" /\ step' = "call" /\ checkpoint' = checkpoint
      /\ artifacts' = artifacts /\ worker' = worker /\ asked' = asked
      /\ charges' = [charges EXCEPT !.calls = @ \cup {Round}]
      /\ NextAction(History) = "search" /\ Len(artifacts.rounds) = Round
  BY DEF ChargeCall, Return, Move, At
<1>3. /\ charges'.calls = charges.calls \cup {Round} /\ charges'.results = charges.results
      /\ charges'.papers = charges.papers /\ charges'.plan = charges.plan
  BY <1>1, <1>2 DEF WorkflowTyped
<1>4. WorkflowTyped'
  BY <1>1, <1>2 DEF WorkflowTyped
<1>5. AgreesNow(checkpoint)'
  BY <1>1, <1>2, <1>3 DEF AgreesNow, Agrees
<1>6. PendingHolds'
  BY <1>2 DEF PendingHolds
<1>7. Round' = Round /\ NextAction(History)' = NextAction(History)
  BY <1>2, SameHistory
<1>8. SearchHolds'
  BY <1>1, <1>2, <1>3, <1>7 DEF SearchHolds
<1>9. BillsHold'
  <2>1. CandidatesUsed' = CandidatesUsed
    BY <1>3 DEF CandidatesUsed
  <2> QED BY <1>1, <1>2, <1>3, <2>1 DEF BillsHold
<1>10. AnalysesHold'
  BY <1>1, <1>2, <1>3 DEF AnalysesHold
<1> QED BY <1>4, <1>5, <1>6, <1>8, <1>9, <1>10 DEF WorkflowInv

LEMMA TheServiceAnswers ==
    ASSUME WorkflowInv, \E answer \in Answers : Search(answer)
    PROVE  WorkflowInv'
<1>1. /\ WorkflowTyped /\ AgreesNow(checkpoint) /\ SearchHolds /\ BillsHold /\ AnalysesHold
  BY DEF WorkflowInv
<1>2. PICK answer \in Answers : Search(answer)
  OBVIOUS
<1>3. /\ checkpoint.node = "search" /\ step = "call" /\ step' = "answered"
      /\ pending'.answer = answer /\ checkpoint' = checkpoint /\ artifacts' = artifacts
      /\ charges' = charges /\ worker' = worker /\ asked' = asked \cup {Round}
  BY <1>2 DEF Search, At
<1>4. QuietStores
  BY <1>1, <1>3, PlanStores DEF QuietStores, SearchHolds, BillsHold
<1>5. PendingHolds'
  BY <1>3 DEF PendingHolds
<1>6. SearchHolds'
  BY <1>1, <1>3, SameHistory DEF SearchHolds
<1> QED BY <1>4, <1>5, <1>6, QuietStoresStay DEF WorkflowInv

\* What is kept of an answer fits into what the candidate budget has left.
LEMMA KeptIsAffordable ==
    ASSUME WorkflowInv, NEW answer \in Answers
    PROVE  /\ Keep(answer) \in RoundRecords
           /\ Cardinality(Keep(answer).new) \in Nat
           /\ CandidatesUsed \in Nat
           /\ CandidatesUsed + Cardinality(Keep(answer).new) <= Limits.candidates
<1> DEFINE fresh == answer.papers \ Seen(History)
           left == Max({0, Limits.candidates - CandidatesUsed})
<1>1. answer \in [papers : SUBSET Papers, covered : SUBSET Subquestions]
  BY WorkflowAssumption
<1>2. fresh \in SUBSET Papers /\ IsFiniteSet(fresh) /\ Cardinality(fresh) \in Nat
  BY <1>1, WorkflowAssumption, FS_Subset, FS_CardinalityType
<1>3. CandidatesUsed \in Nat
  <2> DEFINE S == {i \in Indices : charges.results[i] # Unbilled}
  <2>1. IsFiniteSet(Indices)
    BY FS_Interval, WorkflowAssumption DEF Indices
  <2>2. IsFiniteSet(S)
    BY <2>1, FS_Subset
  <2>3. \A i \in S : charges.results[i] \in Nat
    BY DEF WorkflowInv, WorkflowTyped
  <2> HIDE DEF S
  <2>4. SumFunctionOnSet(charges.results, S) \in Nat
    BY <2>2, <2>3, SumType
  <2> QED BY <2>4 DEF CandidatesUsed, S
<1>4. CandidatesUsed <= Limits.candidates /\ Limits.candidates \in Nat
  BY WorkflowAssumption DEF WorkflowInv, BillsHold
<1>5. left = Limits.candidates - CandidatesUsed /\ left \in Nat
  <2>1. \E x \in {0, Limits.candidates - CandidatesUsed} :
           \A y \in {0, Limits.candidates - CandidatesUsed} : x >= y
    BY <1>3, <1>4
  <2>2. /\ left \in {0, Limits.candidates - CandidatesUsed}
        /\ \A y \in {0, Limits.candidates - CandidatesUsed} : left >= y
    BY <2>1 DEF Max
  <2> QED BY <1>3, <1>4, <2>2
<1> HIDE DEF fresh, left
<1>6. /\ FirstOf(fresh, left) \subseteq fresh
      /\ Cardinality(FirstOf(fresh, left)) \in Nat /\ Cardinality(FirstOf(fresh, left)) <= left
  BY <1>2, <1>5, FirstAreFew
<1>7. Keep(answer) = [new |-> FirstOf(fresh, left), fresh |-> Cardinality(fresh),
                      found |-> answer.papers,
                      papers |-> (answer.papers \cap Seen(History)) \cup FirstOf(fresh, left),
                      covered |-> answer.covered]
  BY DEF Keep, fresh, left
<1>8. Keep(answer) \in RoundRecords
  BY <1>1, <1>2, <1>6, <1>7 DEF RoundRecords
<1> QED BY <1>3, <1>4, <1>5, <1>6, <1>7, <1>8

LEMMA TheResultsAreBilled ==
    ASSUME WorkflowInv, BillResults, step' = "billed"
    PROVE  WorkflowInv'
<1> DEFINE r == Keep(pending.answer)
           n == Cardinality(r.new)
           bills == charges.results
           bills2 == [bills EXCEPT ![Round] = n]
<1>1. /\ WorkflowTyped /\ AgreesNow(checkpoint) /\ SearchHolds /\ BillsHold /\ AnalysesHold
      /\ PendingHolds
  BY DEF WorkflowInv
<1>2. /\ checkpoint.node = "search" /\ step = "answered"
      /\ checkpoint' = checkpoint /\ artifacts' = artifacts
      /\ worker' = worker /\ asked' = asked /\ pending'.round = r
      /\ charges' = [charges EXCEPT !.results = bills2]
      /\ bills[Round] \in {Unbilled, n}
  BY DEF BillResults, At
<1>3. NextAction(History) = "search" /\ Len(artifacts.rounds) = Round
  BY <1>1, <1>2 DEF SearchHolds
<1>4. Round \in Indices /\ Round \in Nat
  BY <1>3, ARoundIsLeft DEF Indices
<1>5. /\ r \in RoundRecords /\ n \in Nat /\ CandidatesUsed \in Nat
      /\ CandidatesUsed + n <= Limits.candidates
  <2>1. pending.answer \in Answers
    BY <1>1, <1>2 DEF PendingHolds
  <2> QED BY <2>1, KeptIsAffordable
<1> HIDE DEF r, n
<1>6. /\ bills \in [Indices -> Nat \cup {Unbilled}]
      /\ bills2 \in [Indices -> Nat \cup {Unbilled}]
      /\ bills2[Round] = n /\ \A i \in Indices \ {Round} : bills2[i] = bills[i]
  BY <1>1, <1>4, <1>5 DEF WorkflowTyped
<1> HIDE DEF bills2
<1>7. /\ charges'.calls = charges.calls /\ charges'.results = bills2
      /\ charges'.papers = charges.papers
  BY <1>1, <1>2 DEF WorkflowTyped
<1>8. WorkflowTyped'
  <2>1. charges' \in [plan : BOOLEAN, calls : SUBSET Nat,
                      results : [Indices -> Nat \cup {Unbilled}], papers : SUBSET Papers]
    BY <1>1, <1>2, <1>6 DEF WorkflowTyped
  <2> QED BY <1>1, <1>2, <2>1 DEF WorkflowTyped
<1>9. AgreesNow(checkpoint)'
  BY <1>1, <1>2, <1>7 DEF AgreesNow
<1>10. PendingHolds'
  BY <1>2, <1>5 DEF PendingHolds
<1>11. SearchHolds'
  <2>1. Round' = Round /\ NextAction(History)' = NextAction(History)
    BY <1>2, SameHistory
  <2>2. charges'.results[Round] = Cardinality(pending'.round.new)
    BY <1>2, <1>6, <1>7 DEF n
  <2> QED BY <1>1, <1>2, <1>3, <2>1, <2>2 DEF SearchHolds
<1>12. CandidatesUsed' <= Limits.candidates
  <2> DEFINE S == {i \in Indices : bills[i] # Unbilled}
             T == {i \in Indices : bills2[i] # Unbilled}
  <2>1. CandidatesUsed = SumFunctionOnSet(bills, S) /\ CandidatesUsed' = SumFunctionOnSet(bills2, T)
    BY <1>7 DEF CandidatesUsed
  <2>2. IsFiniteSet(S) /\ Limits.candidates \in Nat
    <3>1. IsFiniteSet(Indices) /\ Limits.candidates \in Nat
      BY FS_Interval, WorkflowAssumption DEF Indices
    <3> QED BY <3>1, FS_Subset
  <2>3. \A i \in S : bills[i] \in Int /\ bills2[i] \in Int
    BY <1>5, <1>6 DEF Unbilled
  <2>4. n # Unbilled /\ bills2[Round] \in Int
    BY <1>5, <1>6 DEF Unbilled
  <2>5. CASE bills[Round] = Unbilled
    <3>0. \A i \in Indices : bills2[i] = IF i = Round THEN n ELSE bills[i]
      BY <1>6
    <3>1. T = S \cup {Round} /\ Round \notin S
      BY <1>4, <2>4, <2>5, <3>0
    <3>2. \A i \in S : bills2[i] = bills[i]
      BY <1>6, <3>1
    <3> HIDE DEF S, T
    <3>3. SumFunctionOnSet(bills2, S \cup {Round}) = bills2[Round] + SumFunctionOnSet(bills2, S)
      BY <2>2, <2>3, <2>4, <3>1, SumAdd
    <3>4. SumFunctionOnSet(bills2, S) = SumFunctionOnSet(bills, S)
      BY <2>2, <3>2, SumSame
    <3> QED BY <1>5, <1>6, <2>1, <2>2, <3>1, <3>3, <3>4
  <2>6. CASE bills[Round] = n
    <3>1. T = S /\ \A i \in S : bills2[i] = bills[i]
      BY <1>4, <1>6, <2>4, <2>6
    <3> HIDE DEF S, T
    <3>2. SumFunctionOnSet(bills2, S) = SumFunctionOnSet(bills, S)
      BY <2>2, <3>1, SumSame
    <3> QED BY <1>1, <2>1, <3>1, <3>2 DEF BillsHold
  <2> QED BY <1>2, <2>5, <2>6
<1>13. BillsHold'
  <2>1. \A i \in 1 .. Len(artifacts.rounds) : i - 1 \in Indices \ {Round}
    BY <1>3, <1>4, WorkflowAssumption DEF Indices
  <2> QED BY <1>1, <1>2, <1>6, <1>7, <1>12, <2>1 DEF BillsHold
<1>14. AnalysesHold'
  BY <1>1, <1>2, <1>7 DEF AnalysesHold
<1> QED BY <1>8, <1>9, <1>10, <1>11, <1>13, <1>14 DEF WorkflowInv

LEMMA TheBillIsRefused ==
    ASSUME WorkflowInv, BillResults, step' # "billed"
    PROVE  WorkflowInv'
<1>1. WorkflowTyped /\ asked \subseteq charges.calls
  BY DEF WorkflowInv, BillsHold
<1>2. QuietStores /\ step' = "down"
  BY <1>1, PlanStores DEF BillResults, QuietStores
<1> QED BY <1>2, NodeGoesOn

LEMMA TheRoundIsStored ==
    ASSUME WorkflowInv, StoreRound
    PROVE  WorkflowInv'
<1> DEFINE r == pending.round
           old == artifacts.rounds
           new == Append(old, r)
<1>1. /\ WorkflowTyped /\ AgreesNow(checkpoint) /\ SearchHolds /\ BillsHold /\ AnalysesHold
      /\ PendingHolds
  BY DEF WorkflowInv
<1>2. /\ checkpoint.node = "search" /\ step = "billed" /\ step' = "stored"
      /\ checkpoint' = checkpoint /\ pending' = pending /\ charges' = charges
      /\ worker' = worker /\ asked' = asked
      /\ artifacts' = [artifacts EXCEPT !.rounds = new]
  BY DEF StoreRound, At, Move
<1>3. /\ NextAction(History) = "search" /\ Len(old) = Round
      /\ charges.results[Round] = Cardinality(r.new) /\ r \in RoundRecords
      /\ old \in Seq(RoundRecords) /\ Round \in Nat
  BY <1>1, <1>2 DEF SearchHolds, PendingHolds, WorkflowTyped, Round, Checkpoints
<1> HIDE DEF r
<1>4. /\ new \in Seq(RoundRecords) /\ Len(new) = Round + 1 /\ new[Round + 1] = r
      /\ \A i \in 1 .. Round : new[i] = old[i]
  BY <1>3, AppendProperties
<1> HIDE DEF new
<1>5. artifacts'.rounds = new /\ artifacts'.papers = artifacts.papers
  BY <1>1, <1>2 DEF WorkflowTyped
<1>6. WorkflowTyped'
  BY <1>1, <1>2, <1>4 DEF WorkflowTyped
<1>7. AgreesNow(checkpoint)'
  <2>1. UNION {new[i].new : i \in 1 .. checkpoint.rounds} = UNION {old[i].new : i \in 1 .. checkpoint.rounds}
    BY <1>4 DEF Round
  <2>2. checkpoint.rounds <= Len(new)
    BY <1>3, <1>4 DEF Round
  <2>3. checkpoint.status = "running"
    BY <1>1, <1>2 DEF AgreesNow, Agrees
  <2>4. Agrees(checkpoint, new, artifacts.papers, charges.calls, charges.papers)
    BY <1>1, <1>2, <2>1, <2>2, <2>3 DEF AgreesNow, Agrees
  <2> QED BY <1>2, <1>5, <2>4 DEF AgreesNow
<1>8. PendingHolds'
  BY <1>1, <1>2 DEF PendingHolds
<1>9. Round' = Round /\ History' = History
  <2>1. SubSeq(new, 1, Round) = SubSeq(old, 1, Round)
    <3> DEFINE a == SubSeq(new, 1, Round)
               b == SubSeq(old, 1, Round)
    <3>1. /\ a \in Seq(RoundRecords) /\ Len(a) = Round /\ \A i \in 1 .. Round : a[i] = new[i]
          /\ b \in Seq(RoundRecords) /\ Len(b) = Round /\ \A i \in 1 .. Round : b[i] = old[i]
      <4>1. \A i \in 1 .. Round : new[i] \in RoundRecords /\ old[i] \in RoundRecords
        BY <1>3, <1>4
      <4>2. /\ a \in Seq(RoundRecords) /\ Len(a) = (IF 1 <= Round THEN Round - 1 + 1 ELSE 0)
            /\ \A i \in 1 .. Round - 1 + 1 : a[i] = new[1 + i - 1]
        BY <1>3, <4>1, SubSeqProperties, 1 \in Int, Round \in Int
      <4>3. /\ b \in Seq(RoundRecords) /\ Len(b) = (IF 1 <= Round THEN Round - 1 + 1 ELSE 0)
            /\ \A i \in 1 .. Round - 1 + 1 : b[i] = old[1 + i - 1]
        BY <1>3, <4>1, SubSeqProperties, 1 \in Int, Round \in Int
      <4> HIDE DEF a, b
      <4> QED BY <1>3, <4>2, <4>3
    <3> HIDE DEF a, b
    <3>2. a = b
      BY <1>4, <3>1, SeqEqual
    <3> QED BY <3>2 DEF a, b
  <2> QED BY <1>2, <1>5, <2>1 DEF History, Round
<1>10. NextAction(History)' = "search"
  BY <1>3, <1>9 DEF NextAction, Saturated, Covered
<1>11. SearchHolds'
  <2>1. Len(artifacts'.rounds) = Round + 1 /\ artifacts'.rounds[Round + 1] = pending'.round
    BY <1>2, <1>4, <1>5 DEF r
  <2>2. Round + 1 <= Limits.rounds
    BY <1>3, ARoundIsLeft
  <2> QED BY <1>2, <1>9, <1>10, <2>1, <2>2 DEF SearchHolds
<1>12. BillsHold'
  <2>1. CandidatesUsed' = CandidatesUsed
    BY <1>2 DEF CandidatesUsed
  <2>2. ASSUME NEW i \in 1 .. Round + 1 PROVE charges.results[i - 1] = Cardinality(new[i].new)
    <3>1. CASE i = Round + 1
      BY <1>3, <1>4, <3>1
    <3>2. CASE i \in 1 .. Round
      BY <1>1, <1>3, <1>4, <3>2 DEF BillsHold
    <3> QED BY <1>3, <3>1, <3>2
  <2> QED BY <1>1, <1>2, <1>4, <1>5, <2>1, <2>2 DEF BillsHold
<1>13. AnalysesHold'
  BY <1>1, <1>2, <1>5 DEF AnalysesHold
<1> QED BY <1>6, <1>7, <1>8, <1>11, <1>12, <1>13 DEF WorkflowInv

\* A worker is admitted, which charges its paper, or analyses, stores and announces.
LEMMA AWorkerMoves ==
    ASSUME WorkflowInv, NEW p \in Papers,
           \/ Admit(p) \/ Analyse(p) \/ AnnounceResult(p)
           \/ \E status \in {"succeeded", "failed", "timed_out"} : StoreResult(p, status)
    PROVE  WorkflowInv'
<1>1. /\ WorkflowTyped /\ AgreesNow(checkpoint) /\ SearchHolds /\ BillsHold /\ AnalysesHold
  BY DEF WorkflowInv
<1>2. /\ checkpoint.node = "papers" /\ step = "begin" /\ p \in Bounded
      /\ checkpoint' = checkpoint /\ step' = step /\ asked' = asked
  BY DEF Admit, Analyse, AnnounceResult, StoreResult, WorkerAt, At
<1>3. PICK w \in {"charged", "running", "stored", "done"} :
         /\ worker' = [worker EXCEPT ![p] = w]
         /\ \/ /\ w = "charged" /\ artifacts' = artifacts
               /\ charges' = [charges EXCEPT !.papers = charges.papers \cup {p}]
            \/ /\ charges' = charges /\ artifacts' = artifacts
               /\ w = "done" \/ worker[p] \in {"charged", "running", "stored"}
            \/ /\ charges' = charges /\ worker[p] = "running"
               /\ \E status \in {"succeeded", "failed", "timed_out"} :
                     artifacts' = [artifacts EXCEPT !.papers[p] = status]
  BY DEF Admit, Analyse, AnnounceResult, StoreResult, WorkerAt, WorkerTo
<1>4. /\ artifacts'.rounds = artifacts.rounds
      /\ artifacts' = [draft |-> artifacts'.draft, approved |-> artifacts'.approved,
                       rounds |-> artifacts'.rounds, papers |-> artifacts'.papers]
      /\ artifacts'.draft = artifacts.draft /\ artifacts'.approved = artifacts.approved
      /\ \/ artifacts' = artifacts
         \/ /\ charges' = charges /\ worker[p] = "running"
            /\ \E status \in {"succeeded", "failed", "timed_out"} :
                  artifacts'.papers = [artifacts.papers EXCEPT ![p] = status]
  BY <1>1, <1>3 DEF WorkflowTyped
<1>5. /\ charges'.calls = charges.calls /\ charges'.results = charges.results
      /\ charges'.papers \in {charges.papers, charges.papers \cup {p}}
      /\ charges' \in [plan : BOOLEAN, calls : SUBSET Nat,
                       results : [Indices -> Nat \cup {Unbilled}], papers : SUBSET Papers]
  BY <1>1, <1>3 DEF WorkflowTyped, AnalysesHold
<1>6. WorkflowTyped'
  <2>1. artifacts'.papers \in [Papers -> Results]
    BY <1>1, <1>4 DEF WorkflowTyped, Results
  <2>2. artifacts' \in [draft : BOOLEAN, approved : {"none", "approve", "modify"},
                        rounds : Seq(RoundRecords), papers : [Papers -> Results]]
    BY <1>1, <1>4, <2>1 DEF WorkflowTyped
  <2> QED BY <1>1, <1>2, <1>3, <1>5, <2>2 DEF WorkflowTyped
<1>7. AgreesNow(checkpoint)'
  <2>1. /\ checkpoint.status \notin {"rejected", "completed"}
        /\ p \in Chosen(checkpoint)
    BY <1>1, <1>2 DEF AgreesNow, Agrees, Bounded, Chosen
  <2>2. Agrees(checkpoint, artifacts.rounds, artifacts'.papers, charges.calls, charges'.papers)
    BY <1>1, <1>2, <1>5, <2>1 DEF AgreesNow, Agrees
  <2> QED BY <1>2, <1>4, <1>5, <2>2 DEF AgreesNow
<1>8. PendingHolds'
  BY <1>2 DEF PendingHolds
<1>9. SearchHolds'
  BY <1>1, <1>2, <1>4, SameHistory DEF SearchHolds
<1>10. BillsHold'
  <2>1. CandidatesUsed' = CandidatesUsed
    BY <1>5 DEF CandidatesUsed
  <2> QED BY <1>1, <1>2, <1>4, <1>5, <2>1 DEF BillsHold
<1>11. AnalysesHold'
  <2> SUFFICES ASSUME NEW q \in Papers,
                      worker'[q] \in {"charged", "running", "stored"} \/ artifacts'.papers[q] # "none"
               PROVE  q \in charges'.papers
    BY DEF AnalysesHold
  <2>1. CASE q # p
    <3>1. worker'[q] = worker[q] /\ artifacts'.papers[q] = artifacts.papers[q]
      BY <1>1, <1>3, <1>4, <2>1 DEF WorkflowTyped
    <3> QED BY <1>1, <1>5, <3>1 DEF AnalysesHold
  <2>2. CASE q = p
    <3>1. worker'[p] = w
      BY <1>1, <1>3 DEF WorkflowTyped
    <3>2. CASE w = "charged" /\ charges' = [charges EXCEPT !.papers = charges.papers \cup {p}]
      BY <1>1, <2>2, <3>2 DEF WorkflowTyped
    <3>3. CASE /\ charges' = charges
               /\ (w = "done" /\ artifacts' = artifacts) \/ worker[p] \in {"charged", "running", "stored"}
      <4>1. worker[p] \in {"charged", "running", "stored"} \/ artifacts.papers[p] # "none"
        BY <2>2, <3>1, <3>3
      <4> QED BY <1>1, <2>2, <3>3, <4>1 DEF AnalysesHold
    <3> QED BY <1>3, <3>2, <3>3
  <2> QED BY <2>1, <2>2
<1> QED BY <1>6, <1>7, <1>8, <1>9, <1>10, <1>11 DEF WorkflowInv

\* The workers are joined, the run is concluded.
LEMMA TheRunEnds ==
    ASSUME WorkflowInv, JoinWorkers \/ Finalize
    PROVE  WorkflowInv'
<1>1. /\ WorkflowTyped /\ AgreesNow(checkpoint) /\ checkpoint \in Checkpoints
      /\ asked \subseteq charges.calls
  BY DEF WorkflowInv, BillsHold, WorkflowTyped
<1>2. /\ QuietStores /\ step' = "return" /\ checkpoint.node \in {"papers", "finalize"}
  BY <1>1, PlanStores DEF JoinWorkers, Finalize, QuietStores, Return, At
<1>3. PICK c : /\ pending' = Update(c)
               /\ \/ /\ c = [checkpoint EXCEPT !.node = "finalize",
                               !.failed = {p \in Bounded : artifacts.papers[p] # "succeeded"}]
                     /\ checkpoint.node = "papers"
                  \/ /\ c = [checkpoint EXCEPT !.node = "end", !.status = Outcome(checkpoint)]
                     /\ checkpoint.node = "finalize"
  BY DEF JoinWorkers, Finalize, Return, At
<1>4. /\ c \in Checkpoints /\ c.rounds = checkpoint.rounds /\ c.selected = checkpoint.selected
      /\ c.stop = checkpoint.stop
      /\ \/ /\ c.node = "finalize" /\ c.status = checkpoint.status
            /\ c.failed = {p \in Bounded : artifacts.papers[p] # "succeeded"}
            /\ checkpoint.node = "papers"
         \/ /\ c.node = "end" /\ c.status = Outcome(checkpoint) /\ c.failed = checkpoint.failed
            /\ checkpoint.node = "finalize"
  <2>1. {p \in Bounded : artifacts.papers[p] # "succeeded"} \in SUBSET Papers
    BY <1>1 DEF Bounded, FirstOf, Checkpoints
  <2>2. Outcome(checkpoint) \in RunStatuses
    BY DEF Outcome, RunStatuses
  <2> QED BY <1>1, <1>3, <2>1, <2>2 DEF Checkpoints, Nodes
<1>5. AgreesNow(c)
  <2>1. Chosen(c) = Chosen(checkpoint) /\ Chosen(checkpoint) = Bounded
    BY <1>4 DEF Chosen, Bounded
  <2>2. CASE checkpoint.node = "papers"
    BY <1>1, <1>4, <2>1, <2>2 DEF AgreesNow, Agrees
  <2>3. CASE checkpoint.node = "finalize"
    <3>1. /\ c.status = "rejected" <=> checkpoint.status = "rejected"
          /\ c.status = "completed" => checkpoint.failed = {} /\ checkpoint.status # "rejected"
          /\ checkpoint.status = "degraded" => c.status = "degraded"
      BY <1>4, <2>3 DEF Outcome
    <3> QED BY <1>1, <1>4, <2>1, <2>3, <3>1 DEF AgreesNow, Agrees
  <2> QED BY <1>2, <2>2, <2>3
<1>6. c.rounds = Len(artifacts.rounds)
  BY <1>1, <1>2, <1>4 DEF AgreesNow, Agrees
<1> QED BY <1>2, <1>3, <1>5, <1>6, NodeReturns

\* The checkpoint is saved.
LEMMA TheNodeCommits ==
    ASSUME WorkflowInv, Commit
    PROVE  WorkflowInv'
<1>1. /\ WorkflowTyped /\ PendingHolds /\ SearchHolds /\ BillsHold /\ AnalysesHold
  BY DEF WorkflowInv
<1>2. /\ checkpoint' = pending.state /\ step' = "begin" /\ artifacts' = artifacts
      /\ charges' = charges /\ asked' = asked /\ worker' = [p \in Papers |-> "idle"]
      /\ AgreesNow(pending.state) /\ pending.state.rounds = Len(artifacts.rounds)
  BY <1>1 DEF Commit, PendingHolds
<1>3. AgreesNow(checkpoint)' /\ checkpoint' \in Checkpoints
  BY <1>2 DEF AgreesNow, Agrees
<1>4. WorkflowTyped'
  BY <1>1, <1>2, <1>3 DEF WorkflowTyped
<1>5. PendingHolds'
  BY <1>2 DEF PendingHolds
<1>6. SearchHolds'
  BY <1>1, <1>2 DEF SearchHolds, Round
<1>7. BillsHold' /\ AnalysesHold'
  BY <1>1, <1>2 DEF BillsHold, AnalysesHold, CandidatesUsed
<1> QED BY <1>3, <1>4, <1>5, <1>6, <1>7 DEF WorkflowInv

LEMMA TheProcessDiesOrReturns ==
    ASSUME WorkflowInv, Crash \/ Resume \/ DeleteThread
    PROVE  WorkflowInv'
<1>1. WorkflowTyped /\ asked \subseteq charges.calls
  BY DEF WorkflowInv, BillsHold
<1>2. QuietStores /\ step' \in {"begin", "down", "deleted"}
  BY <1>1, PlanStores DEF Crash, Resume, DeleteThread, QuietStores
<1> QED BY <1>2, NodeGoesOn

LEMMA WorkflowInitially == WorkflowInit => WorkflowInv
<1> SUFFICES ASSUME WorkflowInit PROVE WorkflowInv
  OBVIOUS
<1>1. /\ checkpoint.node = "create_plan" /\ checkpoint.rounds = 0 /\ checkpoint.selected = {}
      /\ checkpoint.status = "created" /\ checkpoint.stop = "none" /\ checkpoint \in Checkpoints
      /\ artifacts.rounds = <<>> /\ charges.papers = {} /\ charges.calls = {}
      /\ step = "begin" /\ asked = {}
  BY DEF WorkflowInit, Checkpoints, Nodes, RunStatuses, Stops
<1>2. WorkflowTyped
  BY <1>1 DEF WorkflowInit, WorkflowTyped, Results
<1>3. AgreesNow(checkpoint)
  BY <1>1 DEF AgreesNow, Agrees, TimedOut
<1>4. PendingHolds
  BY <1>1 DEF PendingHolds
<1>5. SearchHolds
  BY <1>1, WorkflowAssumption DEF SearchHolds, Round
<1>6. BillsHold
  <2>1. {i \in Indices : charges.results[i] # Unbilled} = {}
    BY DEF WorkflowInit
  <2>2. CandidatesUsed = 0
    BY <2>1, SumEmpty DEF CandidatesUsed
  <2> QED BY <1>1, <2>2, WorkflowAssumption DEF BillsHold
<1>7. AnalysesHold
  BY DEF WorkflowInit, AnalysesHold
<1> QED BY <1>2, <1>3, <1>4, <1>5, <1>6, <1>7 DEF WorkflowInv

LEMMA WorkflowPreserved == WorkflowInv /\ [WorkflowNext]_workflowVars => WorkflowInv'
<1> SUFFICES ASSUME WorkflowInv, [WorkflowNext]_workflowVars PROVE WorkflowInv'
  OBVIOUS
<1>1. CASE \/ DraftPlan \/ ChargePlan \/ AnnouncePlan \/ RequestApproval \/ Reject
           \/ AnnounceApproval \/ \E action \in {"approve", "modify"} : Approve(action)
  BY <1>1, ThePlanIsDecided
<1>2. CASE StopSearch \/ ReuseRound \/ AnnounceRound \/ SearchTimesOut \/ ChargeCall
  BY <1>2, TheSearchReturns, TheCallIsCharged
<1>3. CASE \E answer \in Answers : Search(answer)
  BY <1>3, TheServiceAnswers
<1>4. CASE BillResults
  BY <1>4, TheResultsAreBilled, TheBillIsRefused
<1>5. CASE StoreRound
  BY <1>5, TheRoundIsStored
<1>6. CASE \E p \in Papers :
              \/ Admit(p) \/ Analyse(p) \/ AnnounceResult(p)
              \/ \E status \in {"succeeded", "failed", "timed_out"} : StoreResult(p, status)
  BY <1>6, AWorkerMoves
<1>7. CASE JoinWorkers \/ Finalize
  BY <1>7, TheRunEnds
<1>8. CASE Commit
  BY <1>8, TheNodeCommits
<1>9. CASE Crash \/ Resume \/ DeleteThread
  BY <1>9, TheProcessDiesOrReturns
<1>10. CASE UNCHANGED workflowVars
  <2>1. /\ checkpoint' = checkpoint /\ artifacts' = artifacts /\ charges' = charges
        /\ step' = step /\ pending' = pending /\ worker' = worker /\ asked' = asked
    BY <1>10 DEF workflowVars
  <2>2. WorkflowTyped' /\ AgreesNow(checkpoint)' /\ PendingHolds'
    BY <2>1 DEF WorkflowInv, WorkflowTyped, AgreesNow, PendingHolds
  <2>3. SearchHolds'
    BY <2>1, SameHistory DEF WorkflowInv, SearchHolds
  <2>4. BillsHold' /\ AnalysesHold'
    BY <2>1 DEF WorkflowInv, BillsHold, AnalysesHold, CandidatesUsed
  <2> QED BY <2>2, <2>3, <2>4 DEF WorkflowInv
<1> QED BY <1>1, <1>2, <1>3, <1>4, <1>5, <1>6, <1>7, <1>8, <1>9, <1>10 DEF WorkflowNext

LEMMA WorkflowStays == WorkflowSpec => []WorkflowInv
BY WorkflowInitially, WorkflowPreserved, PTL DEF WorkflowSpec

\* The stores agree with each other, with the limits and with what the run reports.
LEMMA AccountsFollow == WorkflowInv => WorkflowIsAccounted
<1> SUFFICES ASSUME WorkflowInv PROVE WorkflowIsAccounted
  OBVIOUS
<1>1. /\ WorkflowTyped /\ AgreesNow(checkpoint) /\ SearchHolds /\ BillsHold /\ AnalysesHold
      /\ checkpoint.selected \in SUBSET Papers
  BY DEF WorkflowInv, WorkflowTyped, Checkpoints
<1>2. Cardinality(charges.papers) <= Limits.fulltext
  <2>1. charges.papers \subseteq Chosen(checkpoint)
    BY <1>1 DEF AgreesNow, Agrees
  <2>2. /\ IsFiniteSet(Chosen(checkpoint)) /\ Cardinality(Chosen(checkpoint)) \in Nat
        /\ Cardinality(Chosen(checkpoint)) <= Limits.fulltext /\ Limits.fulltext \in Nat
    BY <1>1, FirstAreFew, WorkflowAssumption DEF Chosen
  <2>3. /\ Cardinality(charges.papers) <= Cardinality(Chosen(checkpoint))
        /\ Cardinality(charges.papers) \in Nat
    BY <2>1, <2>2, FS_Subset, FS_CardinalityType
  <2> QED BY <2>2, <2>3
<1>3. EffectsArePaid
  BY <1>1, <1>2 DEF EffectsArePaid, BillsHold, AnalysesHold
<1>4. OutcomeIsHonest
  <2> SUFFICES ASSUME checkpoint.node = "end"
               PROVE  /\ checkpoint.status = "completed" =>
                            /\ checkpoint.stop \notin TimedOut
                            /\ \A p \in Chosen(checkpoint) : artifacts.papers[p] = "succeeded"
                            /\ UNION {artifacts.rounds[i].new : i \in DOMAIN artifacts.rounds}
                                  = checkpoint.selected
                      /\ checkpoint.status = "rejected" =>
                            charges.calls = {} /\ charges.papers = {} /\ artifacts.rounds = <<>>
    BY DEF OutcomeIsHonest, Chosen, TimedOut
  <2>1. 1 .. checkpoint.rounds = DOMAIN artifacts.rounds
    BY <1>1 DEF AgreesNow, Agrees, WorkflowTyped
  <2>2. UNION {artifacts.rounds[i].new : i \in DOMAIN artifacts.rounds} = checkpoint.selected
    BY <1>1, <2>1 DEF AgreesNow, Agrees
  <2> QED BY <1>1, <2>2 DEF AgreesNow, Agrees
<1> QED BY <1>3, <1>4 DEF WorkflowIsAccounted

\* However often its process dies between a store, a charge and an event, a thread
\* has paid for what it did, within the approved limits, and reports what it did
\* (graph.py:199-262, 312-327, workers.py:48-60).
THEOREM WorkflowsAreAccounted == WorkflowSpec => []WorkflowIsAccounted
BY WorkflowStays, AccountsFollow, PTL

-----------------------------------------------------------------------------
(* The academic clients: any sources, attempts, delays and expansions.     *)

Asking == {"begin", "loop", "limiter", "inflight", "backoff"}
CallStates == [at : Asking \cup {"idle", "ended"}, attempts : Nat, until : Nat]

HttpTyped ==
    /\ used \in [Sources -> Nat] /\ allowed \in [Sources -> Nat]
    /\ call \in [Callers -> CallStates]
    /\ IsFiniteSet(records) /\ \A r \in records : r.attempts \in Nat /\ r.expansion \in Nat
    /\ clock \in Nat /\ expansions \in Nat
    /\ requestsSent \in [Sources -> Seq(Nat)]

\* The next slot of a client is past every request it has sent.
SlotsAreAhead ==
    \A s \in Sources : \A i \in 1 .. Len(requestsSent[s]) :
        requestsSent[s][i] + Interval <= allowed[s]

\* Who asks in which phase, and that a get which has not begun has tried nothing.
PhasesHold ==
    /\ \A c \in Callers : call[c].at \in {"idle", "begin", "ended"} => call[c].attempts = 0
    /\ \A s \in Sources : call[s].at \in Asking => phase = "search"
    /\ call[Expand].at \in Asking \cup {"ended"} => phase \in {"seeds", "references"}
    /\ phase = "search" => expansions = 0

\* A get has one record, written when it ends.
RecordsHold ==
    /\ \A c \in Callers : \A r \in records :
          call[c].at \in Asking =>
              ~(r.of = Asked(c) /\ r.source = ClientOf(c) /\ r.expansion = expansions)
    /\ \A r \in records : r.of # "search" =>
          /\ r.of \in {"seeds", "references"} /\ r.expansion <= expansions
          /\ phase = "seeds" /\ r.of = "references" => r.expansion < expansions

HttpInv == HttpTyped /\ RateHolds /\ SlotsAreAhead /\ AttemptsAreTold /\ PhasesHold /\ RecordsHold

\* The sums are over finite sets of naturals.
LEMMA UsersAreFew ==
    ASSUME NEW s \in Sources
    PROVE  IsFiniteSet({c \in Callers : ClientOf(c) = s})
<1>1. IsFiniteSet(Callers)
  BY HttpAssumption, FS_AddElement DEF Callers
<1> QED BY <1>1, FS_Subset

LEMMA ClientsAreOfSources == \A c \in Callers : ClientOf(c) \in Sources
BY HttpAssumption DEF Callers, ClientOf

LEMMA SumsAreNumbers ==
    ASSUME HttpTyped, NEW s \in Sources
    PROVE  AttemptsToldOf(s) \in Nat /\ AttemptsOpen(s) \in Nat
<1>1. IsFiniteSet(ToldOf(s)) /\ \A r \in ToldOf(s) : [q \in ToldOf(s) |-> q.attempts][r] \in Nat
  BY FS_Subset DEF HttpTyped, ToldOf
<1>2. AttemptsToldOf(s) \in Nat
  BY <1>1, SumType DEF AttemptsToldOf
<1> DEFINE users == {c \in Callers : ClientOf(c) = s}
           f == [c \in Callers |-> call[c].attempts]
<1>3. IsFiniteSet(users) /\ \A c \in users : f[c] \in Nat
  BY UsersAreFew DEF HttpTyped, CallStates
<1>4. SumFunctionOnSet(f, users) \in Nat
  <2> HIDE DEF f, users
  <2> QED BY <1>3, SumType
<1> QED BY <1>2, <1>4 DEF AttemptsOpen

\* One caller's attempts change: so does what its client has open.
LEMMA OpenMoves ==
    ASSUME HttpTyped, HttpTyped', NEW c \in Callers,
           \A d \in Callers \ {c} : call'[d].attempts = call[d].attempts, NEW s \in Sources
    PROVE  AttemptsOpen(s)' = IF ClientOf(c) = s
                              THEN AttemptsOpen(s) + call'[c].attempts - call[c].attempts
                              ELSE AttemptsOpen(s)
<1> DEFINE users == {d \in Callers : ClientOf(d) = s}
           f == [d \in Callers |-> call[d].attempts]
           e == [d \in Callers |-> call'[d].attempts]
<1>1. AttemptsOpen(s) = SumFunctionOnSet(f, users) /\ AttemptsOpen(s)' = SumFunctionOnSet(e, users)
  BY DEF AttemptsOpen
<1>2. IsFiniteSet(users)
  BY UsersAreFew
<1>3. /\ \A d \in users : f[d] \in Int /\ e[d] \in Int
      /\ \A d \in users \ {c} : e[d] = f[d]
  BY DEF HttpTyped, CallStates
<1>4. f[c] = call[c].attempts /\ e[c] = call'[c].attempts
  OBVIOUS
<1>5. c \in users <=> ClientOf(c) = s
  OBVIOUS
<1> HIDE DEF f, e, users
<1>6. CASE c \in users
  BY <1>1, <1>2, <1>3, <1>4, <1>5, <1>6, SumChange
<1>7. CASE c \notin users
  <2>1. \A d \in users : f[d] = e[d]
    BY <1>3, <1>7
  <2> QED BY <1>1, <1>2, <1>5, <1>7, <2>1, SumSame
<1> QED BY <1>6, <1>7

\* A new record is told, unless its answer did not parse.
LEMMA ToldMoves ==
    ASSUME HttpTyped, NEW r, r \notin records, r.attempts \in Nat, records' = records \cup {r},
           NEW s \in Sources
    PROVE  AttemptsToldOf(s)' = IF r.source = s /\ r.error # "invalid_response"
                                THEN AttemptsToldOf(s) + r.attempts ELSE AttemptsToldOf(s)
<1> DEFINE S == ToldOf(s)
           T == {q \in records \cup {r} : q.source = s /\ q.error # "invalid_response"}
           f == [q \in S |-> q.attempts]
           e == [q \in T |-> q.attempts]
<1>1. AttemptsToldOf(s) = SumFunctionOnSet(f, S) /\ AttemptsToldOf(s)' = SumFunctionOnSet(e, T)
  BY DEF AttemptsToldOf, ToldOf
<1>2. IsFiniteSet(S) /\ r \notin S /\ S \subseteq T
  BY FS_Subset DEF HttpTyped, ToldOf
<1>3. T = IF r.source = s /\ r.error # "invalid_response" THEN S \cup {r} ELSE S
  BY DEF ToldOf
<1>4. \A q \in T : e[q] = q.attempts /\ e[q] \in Int
  BY DEF HttpTyped
<1>5. \A q \in S : f[q] = e[q] /\ e[q] \in Int
  BY <1>2, <1>4
<1> HIDE DEF S, T, f, e
<1>6. SumFunctionOnSet(f, S) = SumFunctionOnSet(e, S)
  BY <1>2, <1>5, SumSame
<1>7. SumFunctionOnSet(e, S) \in Int
  BY <1>2, <1>5, SumType
<1>8. CASE r.source = s /\ r.error # "invalid_response"
  <2>1. T = S \cup {r} /\ e[r] = r.attempts
    BY <1>3, <1>4, <1>8
  <2>2. SumFunctionOnSet(e, S \cup {r}) = e[r] + SumFunctionOnSet(e, S)
    BY <1>2, <1>4, <2>1, SumAdd
  <2> QED BY <1>1, <1>6, <1>7, <1>8, <2>1, <2>2
<1>9. CASE ~(r.source = s /\ r.error # "invalid_response")
  BY <1>1, <1>3, <1>6, <1>9
<1> QED BY <1>8, <1>9

LEMMA HttpInitially == HttpInit => HttpInv
<1> SUFFICES ASSUME HttpInit PROVE HttpInv
  OBVIOUS
<1>1. \A c \in Callers : call[c] \in CallStates /\ call[c].attempts = 0
  BY DEF HttpInit, Waiting, CallStates, Asking
<1>2. HttpTyped
  BY <1>1, FS_EmptySet DEF HttpInit, HttpTyped
<1>3. RateHolds /\ SlotsAreAhead
  BY DEF HttpInit, RateHolds, SlotsAreAhead
<1>4. AttemptsAreTold
  <2> SUFFICES ASSUME NEW s \in Sources
               PROVE  AttemptsToldOf(s) = 0 /\ AttemptsOpen(s) = 0 /\ used[s] = 0
    BY HttpAssumption DEF AttemptsAreTold
  <2>1. ToldOf(s) = {}
    BY DEF HttpInit, ToldOf
  <2>2. AttemptsToldOf(s) = 0
    BY <2>1, SumEmpty DEF AttemptsToldOf
  <2> DEFINE users == {c \in Callers : ClientOf(c) = s}
             f == [c \in Callers |-> call[c].attempts]
  <2>3. IsFiniteSet(users) /\ \A c \in users : f[c] = 0
    BY <1>1, UsersAreFew
  <2>4. SumFunctionOnSet(f, users) = 0
    <3> HIDE DEF f, users
    <3> QED BY <2>3, SumOfZeros
  <2>5. used[s] = 0
    BY DEF HttpInit
  <2> QED BY <2>2, <2>4, <2>5 DEF AttemptsOpen
<1>5. PhasesHold
  <2>1. call[Expand].at = "idle"
    BY DEF HttpInit, Waiting, Callers
  <2> QED BY <1>1, <2>1 DEF HttpInit, PhasesHold, Asking
<1>6. RecordsHold
  BY DEF HttpInit, RecordsHold
<1> QED BY <1>2, <1>3, <1>4, <1>5, <1>6 DEF HttpInv

LEMMA AskersAreServed ==
    ASSUME HttpInv, NEW c \in Callers, call[c].at \in Asking
    PROVE  /\ ClientOf(c) \in Sources /\ call[c].attempts \in Nat
           /\ Asked(c) \in {"search", "seeds", "references"}
           /\ c = Expand => phase = Asked(c) /\ phase \in {"seeds", "references"}
           /\ c # Expand => phase = "search" /\ Asked(c) = "search"
BY ClientsAreOfSources, HttpAssumption DEF HttpInv, HttpTyped, PhasesHold, Callers, Asked, CallStates

\* Only the call of c moves.
Moves(c, where, n) ==
    /\ call' \in [Callers -> CallStates]
    /\ \A d \in Callers \ {c} : call'[d] = call[d]
    /\ call'[c].at = where /\ call'[c].attempts = call[c].attempts + n

\* A get turns elsewhere, waits, or tries once more.
LEMMA GetTurns ==
    ASSUME HttpInv, NEW c \in Callers, NEW where \in Asking, call' = [call EXCEPT ![c].at = where]
    PROVE  Moves(c, where, 0)
<1>1. call[c] \in CallStates /\ call \in [Callers -> CallStates]
  BY DEF HttpInv, HttpTyped
<1>2. call'[c] = [at |-> where, attempts |-> call[c].attempts, until |-> call[c].until]
  BY <1>1 DEF CallStates
<1> QED BY <1>1, <1>2 DEF Moves, CallStates

LEMMA GetWaits ==
    ASSUME HttpInv, NEW c \in Callers, NEW where \in Asking, NEW m \in Nat,
           call' = [call EXCEPT ![c].at = where, ![c].until = m]
    PROVE  Moves(c, where, 0)
<1>1. call[c] \in CallStates /\ call \in [Callers -> CallStates]
  BY DEF HttpInv, HttpTyped
<1>2. call'[c] = [[call[c] EXCEPT !.at = where] EXCEPT !.until = m]
  BY <1>1
<1>3. call'[c] = [at |-> where, attempts |-> call[c].attempts, until |-> m]
  BY <1>1, <1>2 DEF CallStates
<1> QED BY <1>1, <1>3 DEF Moves, CallStates

LEMMA GetTries ==
    ASSUME HttpInv, NEW c \in Callers, NEW where \in Asking,
           call' = [call EXCEPT ![c].at = where, ![c].attempts = @ + 1]
    PROVE  Moves(c, where, 1)
<1>1. call[c] \in CallStates /\ call \in [Callers -> CallStates]
  BY DEF HttpInv, HttpTyped
<1>2. call'[c] = [[call[c] EXCEPT !.at = where] EXCEPT !.attempts = @ + 1]
  BY <1>1
<1>3. call'[c] = [at |-> where, attempts |-> call[c].attempts + 1, until |-> call[c].until]
  BY <1>1, <1>2 DEF CallStates
<1> QED BY <1>1, <1>3 DEF Moves, CallStates

\* A get goes on: what it tries is paid, and it has no record yet.
LEMMA GetGoesOn ==
    ASSUME HttpInv, NEW c \in Callers, call[c].at \in Asking,
           NEW where \in Asking \ {"begin"}, NEW n \in Nat, Moves(c, where, n),
           used' = [used EXCEPT ![ClientOf(c)] = @ + n], used[ClientOf(c)] + n <= MaxRequests,
           records' = records, phase' = phase, expansions' = expansions, clock' = clock,
           allowed' \in [Sources -> Nat], requestsSent' \in [Sources -> Seq(Nat)],
           RateHolds', SlotsAreAhead'
    PROVE  HttpInv'
<1>1. ClientOf(c) \in Sources
  BY AskersAreServed
<1>2. HttpTyped'
  <2>1. used' \in [Sources -> Nat]
    BY <1>1 DEF HttpInv, HttpTyped
  <2> QED BY <2>1 DEF HttpInv, HttpTyped, Moves
<1>3. /\ \A d \in Callers \ {c} : call'[d] = call[d]
      /\ call'[c].at = where /\ call'[c].attempts = call[c].attempts + n
  BY DEF Moves
<1>4. AttemptsAreTold'
  <2> SUFFICES ASSUME NEW s \in Sources
               PROVE  /\ AttemptsToldOf(s)' + AttemptsOpen(s)' <= used'[s] /\ used'[s] <= MaxRequests
                      /\ (\A r \in records : r.source = s => r.error # "invalid_response")
                            => AttemptsToldOf(s)' + AttemptsOpen(s)' = used'[s]
    BY DEF AttemptsAreTold
  <2>1. AttemptsToldOf(s)' = AttemptsToldOf(s)
    BY DEF AttemptsToldOf, ToldOf
  <2>2. AttemptsOpen(s)' = IF ClientOf(c) = s THEN AttemptsOpen(s) + n ELSE AttemptsOpen(s)
    <3>1. call[c].attempts \in Nat /\ AttemptsOpen(s) \in Nat
      BY AskersAreServed, SumsAreNumbers DEF HttpInv
    <3>2. AttemptsOpen(s)' = IF ClientOf(c) = s
                             THEN AttemptsOpen(s) + call'[c].attempts - call[c].attempts
                             ELSE AttemptsOpen(s)
      BY <1>2, <1>3, OpenMoves DEF HttpInv
    <3> QED BY <1>3, <3>1, <3>2
  <2>3. used'[s] = IF ClientOf(c) = s THEN used[s] + n ELSE used[s]
    BY <1>1 DEF HttpInv, HttpTyped
  <2>4. /\ AttemptsToldOf(s) + AttemptsOpen(s) <= used[s] /\ used[s] <= MaxRequests
        /\ (\A r \in records : r.source = s => r.error # "invalid_response")
              => AttemptsToldOf(s) + AttemptsOpen(s) = used[s]
    BY DEF HttpInv, AttemptsAreTold
  <2>5. AttemptsToldOf(s) \in Nat /\ AttemptsOpen(s) \in Nat /\ used[s] \in Nat
    BY SumsAreNumbers DEF HttpInv, HttpTyped
  <2> QED BY <2>1, <2>2, <2>3, <2>4, <2>5
<1>5. PhasesHold'
  <2>1. \A d \in Callers : call'[d].at \in {"idle", "begin", "ended"} => call'[d].attempts = 0
    BY <1>3 DEF HttpInv, PhasesHold, Asking
  <2>2. \A s \in Sources : call'[s].at \in Asking => phase = "search"
    BY <1>3, AskersAreServed, HttpAssumption DEF HttpInv, PhasesHold, Callers, Expand
  <2>3. call'[Expand].at \in Asking \cup {"ended"} => phase \in {"seeds", "references"}
    BY <1>3, AskersAreServed DEF HttpInv, PhasesHold, Callers
  <2> QED BY <2>1, <2>2, <2>3 DEF HttpInv, PhasesHold
<1>6. RecordsHold'
  <2>1. \A d : Asked(d)' = Asked(d)
    BY DEF Asked
  <2>2. \A d \in Callers : call'[d].at \in Asking => call[d].at \in Asking
    BY <1>3
  <2> QED BY <2>1, <2>2 DEF HttpInv, RecordsHold
<1> QED BY <1>2, <1>4, <1>5, <1>6 DEF HttpInv

\* A get ends: its attempts are told with its only record.
LEMMA GetEnds ==
    ASSUME HttpInv, NEW c \in Callers, call[c].at \in Asking, NEW body, NEW error, NEW n \in Nat,
           Finish(c, body, error, n), n = call[c].attempts, error # "invalid_response",
           used' = used, allowed' = allowed, phase' = phase, expansions' = expansions,
           clock' = clock, requestsSent' = requestsSent
    PROVE  HttpInv'
<1> DEFINE bad == error = "none" /\ body = "garbled"
<1>1. PICK r : /\ records' = records \cup {r}
               /\ r.of = Asked(c) /\ r.source = ClientOf(c) /\ r.expansion = expansions
               /\ r.attempts = IF bad THEN 1 ELSE n
               /\ r.error = IF bad THEN "invalid_response" ELSE error
  <2> DEFINE q == [of |-> Asked(c), source |-> ClientOf(c), expansion |-> expansions,
                   status |-> IF error # "none" \/ body = "garbled" THEN "failed"
                              ELSE IF body = "empty" THEN "empty" ELSE "succeeded",
                   error |-> IF bad THEN "invalid_response" ELSE error,
                   attempts |-> IF bad THEN 1 ELSE n]
  <2>1. records' = records \cup {q}
    BY DEF Finish
  <2>2. /\ q.of = Asked(c) /\ q.source = ClientOf(c) /\ q.expansion = expansions
        /\ q.attempts = IF bad THEN 1 ELSE n
        /\ q.error = IF bad THEN "invalid_response" ELSE error
    OBVIOUS
  <2> QED BY <2>1, <2>2
<1>2. r \notin records /\ r.attempts \in Nat
  BY <1>1 DEF HttpInv, RecordsHold
<1>3. /\ \A d \in Callers \ {c} : call'[d] = call[d]
      /\ call' \in [Callers -> CallStates]
      /\ call'[c].at = "ended" /\ call'[c].attempts = 0
  <2>1. [Waiting EXCEPT !.at = "ended"] = [at |-> "ended", attempts |-> 0, until |-> 0]
    BY DEF Waiting
  <2> QED BY <2>1 DEF Finish, HttpInv, HttpTyped, CallStates
<1>4. HttpTyped'
  <2>1. IsFiniteSet(records')
    BY <1>1, FS_AddElement DEF HttpInv, HttpTyped
  <2>2. \A q \in records' : q.attempts \in Nat /\ q.expansion \in Nat
    BY <1>1, <1>2 DEF HttpInv, HttpTyped
  <2> QED BY <1>3, <2>1, <2>2 DEF HttpInv, HttpTyped
<1>5. RateHolds' /\ SlotsAreAhead'
  BY DEF HttpInv, RateHolds, SlotsAreAhead
<1>6. AttemptsAreTold'
  <2> SUFFICES ASSUME NEW s \in Sources
               PROVE  /\ AttemptsToldOf(s)' + AttemptsOpen(s)' <= used[s] /\ used[s] <= MaxRequests
                      /\ (\A q \in records' : q.source = s => q.error # "invalid_response")
                            => AttemptsToldOf(s)' + AttemptsOpen(s)' = used[s]
    BY DEF AttemptsAreTold
  <2>1. AttemptsToldOf(s)' = IF r.source = s /\ r.error # "invalid_response"
                             THEN AttemptsToldOf(s) + r.attempts ELSE AttemptsToldOf(s)
    BY <1>1, <1>2, ToldMoves DEF HttpInv
  <2>2. AttemptsOpen(s)' = IF ClientOf(c) = s
                           THEN AttemptsOpen(s) + call'[c].attempts - call[c].attempts
                           ELSE AttemptsOpen(s)
    BY <1>3, <1>4, OpenMoves DEF HttpInv
  <2>3. /\ AttemptsToldOf(s) + AttemptsOpen(s) <= used[s] /\ used[s] <= MaxRequests
        /\ (\A q \in records : q.source = s => q.error # "invalid_response")
              => AttemptsToldOf(s) + AttemptsOpen(s) = used[s]
    BY DEF HttpInv, AttemptsAreTold
  <2>4. AttemptsToldOf(s) \in Nat /\ AttemptsOpen(s) \in Nat /\ used[s] \in Nat
    BY SumsAreNumbers DEF HttpInv, HttpTyped
  <2>5. (\A q \in records' : q.source = s => q.error # "invalid_response") =>
           /\ \A q \in records : q.source = s => q.error # "invalid_response"
           /\ r.source = s => r.error # "invalid_response"
    BY <1>1
  <2>6. r.error # "invalid_response" => r.attempts = n
    BY <1>1
  <2>7. AttemptsOpen(s)' = IF ClientOf(c) = s THEN AttemptsOpen(s) - n ELSE AttemptsOpen(s)
    BY <1>3, <2>2, <2>4
  <2> HIDE DEF bad
  <2> QED BY <1>1, <2>1, <2>3, <2>4, <2>5, <2>6, <2>7
<1>7. PhasesHold'
  <2>1. \A d \in Callers : call'[d].at \in {"idle", "begin", "ended"} => call'[d].attempts = 0
    BY <1>3 DEF HttpInv, PhasesHold
  <2>2. \A s \in Sources : call'[s].at \in Asking => phase = "search"
    BY <1>3 DEF HttpInv, PhasesHold, Callers, Asking
  <2>3. call'[Expand].at \in Asking \cup {"ended"} => phase \in {"seeds", "references"}
    BY <1>3, AskersAreServed DEF HttpInv, PhasesHold, Callers
  <2> QED BY <2>1, <2>2, <2>3 DEF HttpInv, PhasesHold
<1>8. RecordsHold'
  <2>1. \A d : Asked(d)' = Asked(d)
    BY DEF Asked
  <2>2. \A d \in Callers : call'[d].at \in Asking => d # c /\ call[d].at \in Asking
    BY <1>3 DEF Asking
  <2>3. \A d \in Callers : call'[d].at \in Asking =>
           ~(r.of = Asked(d) /\ r.source = ClientOf(d) /\ r.expansion = expansions)
    <3> SUFFICES ASSUME NEW d \in Callers, call'[d].at \in Asking
                 PROVE  Asked(d) # Asked(c) \/ ClientOf(d) # ClientOf(c)
      BY <1>1
    <3>1. d # c /\ call[d].at \in Asking
      BY <2>2
    <3> QED BY <3>1, AskersAreServed DEF ClientOf
  <2>4. r.of # "search" =>
          /\ r.of \in {"seeds", "references"} /\ r.expansion <= expansions
          /\ phase = "seeds" /\ r.of = "references" => r.expansion < expansions
    BY <1>1, AskersAreServed DEF HttpInv, HttpTyped
  <2> QED BY <1>1, <2>1, <2>2, <2>3, <2>4 DEF HttpInv, RecordsHold
<1> QED BY <1>4, <1>5, <1>6, <1>7, <1>8 DEF HttpInv

LEMMA SlotIsLater == \A a, b \in Nat : a >= b => Max({a, b}) = a
<1> SUFFICES ASSUME NEW a \in Nat, NEW b \in Nat, a >= b PROVE Max({a, b}) = a
  OBVIOUS
<1> QED BY DEF Max

\* A request goes out in its slot, and the next slot is an interval later.
LEMMA RequestIsSpaced ==
    ASSUME HttpInv, NEW c \in Callers, SendRequest(c) PROVE HttpInv'
<1> DEFINE s == ClientOf(c)
<1>1. s \in Sources /\ call[c].at = "limiter" /\ "limiter" \in Asking
  BY ClientsAreOfSources DEF SendRequest, Asking
<1>2. /\ clock \in Nat /\ allowed[s] \in Nat /\ clock >= allowed[s] /\ Interval \in Nat
      /\ requestsSent \in [Sources -> Seq(Nat)] /\ requestsSent[s] \in Seq(Nat)
  BY <1>1, HttpAssumption DEF SendRequest, HttpInv, HttpTyped
<1>3. NextAllowed(s) = clock + Interval
  BY <1>2, SlotIsLater DEF NextAllowed
<1>4. allowed' = [allowed EXCEPT ![s] = clock + Interval]
  BY <1>3 DEF SendRequest
<1>5. requestsSent' = [requestsSent EXCEPT ![s] = Append(@, clock)]
  BY DEF SendRequest
<1> HIDE DEF s
<1>6. /\ allowed' \in [Sources -> Nat] /\ requestsSent' \in [Sources -> Seq(Nat)]
      /\ \A t \in Sources \ {s} : requestsSent'[t] = requestsSent[t] /\ allowed'[t] = allowed[t]
      /\ requestsSent'[s] = Append(requestsSent[s], clock) /\ allowed'[s] = clock + Interval
  <2>1. Append(requestsSent[s], clock) \in Seq(Nat)
    BY <1>2, AppendProperties
  <2> QED BY <1>1, <1>2, <1>4, <1>5, <2>1 DEF HttpInv, HttpTyped
<1>7. /\ Len(requestsSent[s]) \in Nat /\ Len(requestsSent'[s]) = Len(requestsSent[s]) + 1
      /\ \A i \in 1 .. Len(requestsSent[s]) : requestsSent'[s][i] = requestsSent[s][i]
      /\ requestsSent'[s][Len(requestsSent[s]) + 1] = clock
      /\ \A i \in 1 .. Len(requestsSent[s]) : requestsSent[s][i] \in Nat
  <2>1. \A i \in 1 .. Len(requestsSent[s]) : requestsSent[s][i] \in Nat
    BY <1>2, ElementOfSeq
  <2>2. Len(requestsSent[s]) \in Nat
    BY <1>2, LenProperties
  <2>3. /\ Len(Append(requestsSent[s], clock)) = Len(requestsSent[s]) + 1
        /\ \A i \in 1 .. Len(requestsSent[s]) :
              Append(requestsSent[s], clock)[i] = requestsSent[s][i]
        /\ Append(requestsSent[s], clock)[Len(requestsSent[s]) + 1] = clock
    BY <1>2, AppendProperties
  <2>4. requestsSent'[s] = Append(requestsSent[s], clock)
    BY <1>6
  <2> QED BY <2>1, <2>2, <2>3, <2>4
<1>8. \A i \in 1 .. Len(requestsSent[s]) : requestsSent[s][i] + Interval <= allowed[s]
  BY <1>1 DEF HttpInv, SlotsAreAhead
<1>9. RateHolds'
  <2> SUFFICES ASSUME NEW t \in Sources, NEW i \in 1 .. Len(requestsSent'[t]) - 1
               PROVE  requestsSent'[t][i + 1] >= requestsSent'[t][i] + Interval
    BY DEF RateHolds
  <2>1. CASE t # s
    BY <1>6, <2>1 DEF HttpInv, RateHolds
  <2>2. CASE t = s /\ i = Len(requestsSent[s])
    BY <1>2, <1>7, <1>8, <2>2
  <2>3. CASE t = s /\ i # Len(requestsSent[s])
    <3>1. i \in 1 .. Len(requestsSent[s]) - 1 /\ i \in 1 .. Len(requestsSent[s])
          /\ i + 1 \in 1 .. Len(requestsSent[s])
      BY <1>7, <2>3
    <3>2. requestsSent[s][i + 1] >= requestsSent[s][i] + Interval
      BY <1>1, <3>1 DEF HttpInv, RateHolds
    <3> QED BY <1>7, <2>3, <3>1, <3>2
  <2> QED BY <2>1, <2>2, <2>3
<1>10. SlotsAreAhead'
  <2> SUFFICES ASSUME NEW t \in Sources, NEW i \in 1 .. Len(requestsSent'[t])
               PROVE  requestsSent'[t][i] + Interval <= allowed'[t]
    BY DEF SlotsAreAhead
  <2>1. CASE t # s
    BY <1>6, <2>1 DEF HttpInv, SlotsAreAhead
  <2>2. CASE t = s /\ i = Len(requestsSent[s]) + 1
    BY <1>2, <1>6, <1>7, <2>2
  <2>3. CASE t = s /\ i # Len(requestsSent[s]) + 1
    <3>1. i \in 1 .. Len(requestsSent[s])
      BY <1>7, <2>3
    <3>2. requestsSent[s][i] \in Nat /\ requestsSent[s][i] + Interval <= allowed[s]
      BY <1>7, <1>8, <3>1
    <3>3. requestsSent'[t][i] = requestsSent[s][i] /\ allowed'[t] = clock + Interval
      BY <1>6, <1>7, <2>3, <3>1
    <3> QED BY <1>2, <3>2, <3>3
  <2> QED BY <2>1, <2>2, <2>3
<1>11. Moves(c, "inflight", 0)
  <2>1. call' = [call EXCEPT ![c].at = "inflight"] /\ "inflight" \in Asking
    BY DEF SendRequest, Go, Asking
  <2> QED BY <2>1, GetTurns
<1>12. /\ used' = [used EXCEPT ![ClientOf(c)] = @ + 0] /\ used[ClientOf(c)] + 0 <= MaxRequests
  BY <1>1 DEF SendRequest, HttpInv, HttpTyped, AttemptsAreTold, s
<1>13. /\ records' = records /\ phase' = phase /\ expansions' = expansions /\ clock' = clock
  BY DEF SendRequest
<1>14. "inflight" \in Asking \ {"begin"} /\ call[c].at \in Asking
  BY <1>1 DEF Asking
<1> QED BY <1>6, <1>9, <1>10, <1>11, <1>12, <1>13, <1>14, GetGoesOn

\* Steps of a get that leave its client's limiter alone.
LEMMA GetMoves ==
    ASSUME HttpInv, NEW c \in Callers, call[c].at \in Asking,
           NEW where \in Asking \ {"begin"}, NEW n \in Nat, Moves(c, where, n),
           used' = [used EXCEPT ![ClientOf(c)] = @ + n], used[ClientOf(c)] + n <= MaxRequests,
           UNCHANGED <<allowed, records, phase, expansions, clock, requestsSent>>
    PROVE  HttpInv'
<1>1. /\ allowed' \in [Sources -> Nat] /\ requestsSent' \in [Sources -> Seq(Nat)]
      /\ RateHolds' /\ SlotsAreAhead'
  BY DEF HttpInv, HttpTyped, RateHolds, SlotsAreAhead
<1> QED BY <1>1, GetGoesOn

LEMMA UsedIsUnchanged ==
    ASSUME HttpInv, NEW c \in Callers, used' = used
    PROVE  used' = [used EXCEPT ![ClientOf(c)] = @ + 0] /\ used[ClientOf(c)] + 0 <= MaxRequests
<1>1. ClientOf(c) \in Sources
  BY ClientsAreOfSources
<1>2. used \in [Sources -> Nat] /\ used[ClientOf(c)] \in Nat /\ used[ClientOf(c)] <= MaxRequests
  BY <1>1 DEF HttpInv, HttpTyped, AttemptsAreTold
<1> HIDE DEF ClientOf
<1> QED BY <1>1, <1>2

\* Every step of a get keeps the invariant.
LEMMA AGetIsServed ==
    ASSUME HttpInv, NEW c \in Callers, Serve(c) PROVE HttpInv'
<1>1. call[c] \in CallStates /\ call[c].attempts \in Nat
  BY DEF HttpInv, HttpTyped, CallStates
<1>2. CASE Lookup(c)
  <2>1. call[c].at = "begin" /\ call[c].at \in Asking /\ call[c].attempts = 0
    BY <1>2 DEF Lookup, Asking, HttpInv, PhasesHold
  <2>2. CASE stored[ClientOf(c)][Asked(c)] = "none"
    <3>1. call' = [call EXCEPT ![c].at = "loop"]
      BY <1>2, <2>2 DEF Lookup, Go
    <3>3. Moves(c, "loop", 0)
      <4>1. "loop" \in Asking
        BY DEF Asking
      <4> QED BY <3>1, <4>1, GetTurns
    <3>2. UNCHANGED <<used, allowed, records, phase, expansions, clock, requestsSent>>
      BY <1>2, <2>2 DEF Lookup
    <3>4. "loop" \in Asking \ {"begin"}
      BY DEF Asking
    <3>5. used' = [used EXCEPT ![ClientOf(c)] = @ + 0] /\ used[ClientOf(c)] + 0 <= MaxRequests
      BY <3>2, UsedIsUnchanged
    <3>6. UNCHANGED <<allowed, records, phase, expansions, clock, requestsSent>>
      BY <3>2
    <3>7. call[c].at \in Asking
      BY <2>1
    <3> QED BY <3>3, <3>4, <3>5, <3>6, <3>7, GetMoves
  <2>3. CASE stored[ClientOf(c)][Asked(c)] # "none"
    <3>1. PICK body : Finish(c, body, "none", 0)
      BY <1>2, <2>3 DEF Lookup
    <3>2. UNCHANGED <<used, allowed, phase, expansions, clock, requestsSent>>
      BY <1>2 DEF Lookup
    <3>3. call[c].at \in Asking /\ 0 = call[c].attempts /\ 0 \in Nat
      BY <2>1
    <3>4. Finish(c, body, "none", 0) => HttpInv'
      BY <3>2, <3>3, GetEnds
    <3> QED BY <3>1, <3>4
  <2> QED BY <2>2, <2>3
<1>3. CASE ConsumeBudget(c)
  <2>1. call[c].at = "loop" /\ call[c].at \in Asking
    BY <1>3 DEF ConsumeBudget, Asking
  <2>2. UNCHANGED <<allowed, phase, expansions, clock, requestsSent>>
    BY <1>3 DEF ConsumeBudget
  <2>3. CASE used[ClientOf(c)] >= MaxRequests
    <3>1. Finish(c, "none", "budget_exhausted", call[c].attempts) /\ used' = used
      BY <1>3, <2>3 DEF ConsumeBudget
    <3> QED BY <1>1, <2>1, <2>2, <3>1, GetEnds
  <2>4. CASE ~(used[ClientOf(c)] >= MaxRequests)
    <3>1. /\ call' = [call EXCEPT ![c].at = "limiter", ![c].attempts = @ + 1]
          /\ used' = [used EXCEPT ![ClientOf(c)] = @ + 1] /\ records' = records
      BY <1>3, <2>4 DEF ConsumeBudget
    <3>2. Moves(c, "limiter", 1)
      <4>1. "limiter" \in Asking
        BY DEF Asking
      <4> QED BY <3>1, <4>1, GetTries
    <3>3. used[ClientOf(c)] + 1 <= MaxRequests
      BY <2>4, ClientsAreOfSources, HttpAssumption DEF HttpInv, HttpTyped
    <3>4. "limiter" \in Asking \ {"begin"}
      BY DEF Asking
    <3> QED BY <2>1, <2>2, <3>1, <3>2, <3>3, <3>4, GetMoves
  <2> QED BY <2>3, <2>4
<1>4. CASE Succeed(c)
  <2>1. PICK body \in Bodies : Finish(c, body, "none", call[c].attempts)
    BY <1>4 DEF Succeed
  <2>2. /\ call[c].at \in Asking
        /\ UNCHANGED <<used, allowed, phase, expansions, clock, requestsSent>>
    BY <1>4 DEF Succeed, Asking
  <2> QED BY <1>1, <2>1, <2>2, GetEnds
<1>5. CASE Refuse(c)
  <2>1. /\ call[c].at \in Asking /\ Finish(c, "none", "client_error", call[c].attempts)
        /\ UNCHANGED <<used, allowed, phase, expansions, clock, requestsSent>>
    BY <1>5 DEF Refuse, Asking
  <2> QED BY <1>1, <2>1, GetEnds
<1>6. CASE Falter(c)
  <2>1. /\ call[c].at \in Asking
        /\ UNCHANGED <<used, allowed, phase, expansions, clock, requestsSent>>
    BY <1>6 DEF Falter, Asking
  <2>2. CASE call[c].attempts >= HttpAttempts
    <3>1. Finish(c, "none", "unavailable", call[c].attempts)
      BY <1>6, <2>2 DEF Falter
    <3> QED BY <1>1, <2>1, <3>1, GetEnds
  <2>3. CASE ~(call[c].attempts >= HttpAttempts)
    <3>1. PICK d \in Delays : call' = [call EXCEPT ![c].at = "backoff", ![c].until = clock + d]
      BY <1>6, <2>3 DEF Falter
    <3>2. records' = records
      BY <1>6, <2>3 DEF Falter
    <3>3. clock + d \in Nat
      BY HttpAssumption DEF HttpInv, HttpTyped
    <3>4. Moves(c, "backoff", 0)
      <4>1. "backoff" \in Asking
        BY DEF Asking
      <4> QED BY <3>1, <3>3, <4>1, GetWaits
    <3>5. "backoff" \in Asking \ {"begin"}
      BY DEF Asking
    <3>6. used' = [used EXCEPT ![ClientOf(c)] = @ + 0] /\ used[ClientOf(c)] + 0 <= MaxRequests
      BY <2>1, UsedIsUnchanged
    <3> QED BY <2>1, <3>2, <3>4, <3>5, <3>6, GetMoves
  <2> QED BY <2>2, <2>3
<1>7. CASE Retry(c)
  <2>1. call' = [call EXCEPT ![c].at = "loop", ![c].until = 0]
    BY <1>7 DEF Retry
  <2>2. Moves(c, "loop", 0)
    <3>1. "loop" \in Asking /\ 0 \in Nat
      BY DEF Asking
    <3> QED BY <2>1, <3>1, GetWaits
  <2>3. /\ call[c].at \in Asking
        /\ UNCHANGED <<used, allowed, records, phase, expansions, clock, requestsSent>>
    BY <1>7 DEF Retry, Asking
  <2>4. "loop" \in Asking \ {"begin"}
    BY DEF Asking
  <2>5. used' = [used EXCEPT ![ClientOf(c)] = @ + 0] /\ used[ClientOf(c)] + 0 <= MaxRequests
    BY <2>3, UsedIsUnchanged
  <2> QED BY <2>2, <2>3, <2>4, <2>5, GetMoves
<1> QED BY <1>2, <1>3, <1>4, <1>5, <1>6, <1>7, RequestIsSpaced DEF Serve

\* A question that cannot be asked ends a get that tried nothing.
LEMMA UnaskableIsTold ==
    ASSUME HttpInv, NEW s \in Sources, CannotBeAsked(s) PROVE HttpInv'
<1>1. s \in Callers /\ call[s].at \in Asking /\ call[s].attempts = 0
  BY DEF CannotBeAsked, Asking, Callers, HttpInv, PhasesHold
<1>2. /\ Finish(s, "garbled", "none", 0)
      /\ UNCHANGED <<used, allowed, phase, expansions, clock, requestsSent>>
  BY DEF CannotBeAsked
<1>3. 0 = call[s].attempts /\ 0 \in Nat
  BY <1>1
<1>4. Finish(s, "garbled", "none", 0) => HttpInv'
  BY <1>1, <1>2, <1>3, GetEnds
<1> QED BY <1>2, <1>4

\* Nobody's attempts move, nothing is told: the counts stand.
LEMMA CountsStand ==
    ASSUME HttpInv, HttpTyped', UNCHANGED <<used, records>>,
           \A d \in Callers : call'[d].attempts = call[d].attempts
    PROVE  AttemptsAreTold'
<1> SUFFICES ASSUME NEW s \in Sources
             PROVE  AttemptsToldOf(s)' = AttemptsToldOf(s) /\ AttemptsOpen(s)' = AttemptsOpen(s)
  BY DEF HttpInv, AttemptsAreTold
<1>1. AttemptsToldOf(s)' = AttemptsToldOf(s)
  BY DEF AttemptsToldOf, ToldOf
<1>2. Expand \in Callers
  BY DEF Callers
<1>3. AttemptsOpen(s) \in Nat /\ call[Expand].attempts \in Nat
  BY <1>2, SumsAreNumbers DEF HttpInv, HttpTyped, CallStates
<1>4. AttemptsOpen(s)' = IF ClientOf(Expand) = s
                         THEN AttemptsOpen(s) + call'[Expand].attempts - call[Expand].attempts
                         ELSE AttemptsOpen(s)
  BY <1>2, OpenMoves DEF HttpInv
<1> QED BY <1>1, <1>2, <1>3, <1>4

\* The citation provider begins, or stops, between its gets.
LEMMA ProviderTurns ==
    ASSUME HttpInv, phase # "search" \/ \A s \in Sources : call[s].at = "ended",
           phase = "search" \/ call[Expand].at = "ended",
           phase' \in {"seeds", "references", "done"},
           call' = [call EXCEPT ![Expand].at = IF phase' = "done" THEN "idle" ELSE "begin"],
           expansions' \in Nat, expansions <= expansions',
           phase' = "seeds" => expansions' > expansions,
           phase' = "references" => phase = "seeds" /\ expansions' = expansions,
           UNCHANGED <<used, allowed, stored, records, clock, requestsSent>>
    PROVE  HttpInv'
<1> DEFINE where == IF phase' = "done" THEN "idle" ELSE "begin"
<1>1. Expand \in Callers /\ call[Expand] \in CallStates /\ call \in [Callers -> CallStates]
  BY DEF Callers, HttpInv, HttpTyped
<1>2. call'[Expand] = [at |-> where, attempts |-> call[Expand].attempts,
                       until |-> call[Expand].until]
  BY <1>1 DEF CallStates
<1>3. call' \in [Callers -> CallStates] /\ \A d \in Callers \ {Expand} : call'[d] = call[d]
  BY <1>1, <1>2 DEF CallStates, Asking
<1>4. HttpTyped'
  BY <1>3 DEF HttpInv, HttpTyped
<1>5. RateHolds' /\ SlotsAreAhead'
  BY DEF HttpInv, RateHolds, SlotsAreAhead
<1>6. AttemptsAreTold'
  BY <1>2, <1>3, <1>4, CountsStand
<1>7. call[Expand].attempts = 0
  BY <1>1 DEF HttpInv, PhasesHold, CallStates
<1>8. \A s \in Sources : s \in Callers \ {Expand} /\ call'[s].at = call[s].at
                         /\ call'[s].at \notin Asking
  BY <1>3, HttpAssumption DEF HttpInv, PhasesHold, Callers, Expand, Asking
<1>9. PhasesHold'
  <2>1. \A d \in Callers : call'[d].at \in {"idle", "begin", "ended"} => call'[d].attempts = 0
    BY <1>2, <1>3, <1>7 DEF HttpInv, PhasesHold
  <2>2. call'[Expand].at \in Asking \cup {"ended"} => phase' \in {"seeds", "references"}
    BY <1>2 DEF Asking
  <2> QED BY <1>8, <2>1, <2>2 DEF PhasesHold
<1>10. RecordsHold'
  <2>1. \A r \in records : r.of # "search" =>
           /\ r.of \in {"seeds", "references"} /\ r.expansion <= expansions'
           /\ phase' \in {"seeds", "references"} /\ r.of = phase' => r.expansion < expansions'
           /\ phase' = "seeds" /\ r.of = "references" => r.expansion < expansions'
    BY DEF HttpInv, HttpTyped, RecordsHold
  <2>2. \A d \in Callers : call'[d].at \in Asking =>
           d = Expand /\ Asked(d)' = phase' /\ phase' \in {"seeds", "references"}
    BY <1>2, <1>8 DEF Callers, Asked, Asking
  <2>3. \A r \in records : r.expansion \in Nat
    BY DEF HttpInv, HttpTyped
  <2> QED BY <2>1, <2>2, <2>3 DEF RecordsHold
<1> QED BY <1>4, <1>5, <1>6, <1>9, <1>10 DEF HttpInv

LEMMA HttpPreserved == HttpInv /\ [HttpNext]_httpVars => HttpInv'
<1> SUFFICES ASSUME HttpInv, [HttpNext]_httpVars PROVE HttpInv'
  OBVIOUS
<1>1. CASE \E c \in Callers : Serve(c)
  BY <1>1, AGetIsServed
<1>2. CASE \E s \in Sources : CannotBeAsked(s)
  BY <1>2, UnaskableIsTold
<1>3. CASE SearchesEnd
  <2>1. CASE MaxExpansions > 0
    <3>1. phase = "search" /\ phase' = "seeds" /\ expansions' = 1 /\ expansions = 0
          /\ \A s \in Sources : call[s].at = "ended"
      BY <1>3, <2>1 DEF SearchesEnd, HttpInv, PhasesHold
    <3>2. call' = [call EXCEPT ![Expand].at = "begin"]
      BY <1>3, <2>1 DEF SearchesEnd, Go
    <3> QED BY <1>3, <3>1, <3>2, ProviderTurns DEF SearchesEnd
  <2>2. CASE ~(MaxExpansions > 0)
    <3>1. /\ \A s \in Sources : call[s].at = "ended"
          /\ phase' = "done" /\ call' = call /\ expansions' = expansions
          /\ UNCHANGED <<used, allowed, records, clock, requestsSent>> /\ phase = "search"
      BY <1>3, <2>2 DEF SearchesEnd
    <3>2. HttpTyped' /\ RateHolds' /\ SlotsAreAhead'
      BY <3>1 DEF HttpInv, HttpTyped, RateHolds, SlotsAreAhead
    <3>3. AttemptsAreTold'
      BY <3>1, <3>2, CountsStand
    <3>4. PhasesHold'
      BY <3>1 DEF HttpInv, PhasesHold, Asking
    <3>5. RecordsHold'
      <4>1. \A d \in Callers : call'[d].at \notin Asking
        BY <3>1 DEF HttpInv, PhasesHold, Callers, Asking
      <4>2. \A r \in records' : r.of # "search" =>
               r.of \in {"seeds", "references"} /\ r.expansion <= expansions' /\ phase' # "seeds"
        BY <3>1 DEF HttpInv, RecordsHold
      <4> QED BY <4>1, <4>2 DEF RecordsHold
    <3> QED BY <3>2, <3>3, <3>4, <3>5 DEF HttpInv
  <2> QED BY <2>1, <2>2
<1>4. CASE ExpansionContinues
  <2>1. /\ call[Expand].at = "ended" /\ phase \in {"seeds", "references"}
        /\ UNCHANGED <<used, allowed, stored, records, clock, requestsSent>>
        /\ expansions \in Nat
    BY <1>4 DEF ExpansionContinues, HttpInv, HttpTyped, PhasesHold
  <2>2. CASE phase = "seeds" /\ phase' = "references" /\ call' = Go(Expand, "begin")
             /\ expansions' = expansions
    BY <2>1, <2>2, ProviderTurns DEF Go
  <2>3. CASE phase' = "seeds" /\ expansions' = expansions + 1 /\ call' = Go(Expand, "begin")
    BY <2>1, <2>3, ProviderTurns DEF Go
  <2>4. CASE phase' = "done" /\ call' = Go(Expand, "idle") /\ expansions' = expansions
    BY <2>1, <2>4, ProviderTurns DEF Go
  <2> QED BY <1>4, <2>2, <2>3, <2>4 DEF ExpansionContinues
<1>5. CASE Tick
  <2>1. clock' \in Nat /\ UNCHANGED <<used, allowed, call, records, phase, expansions, requestsSent>>
    BY <1>5 DEF Tick, HttpInv, HttpTyped
  <2>2. HttpTyped' /\ RateHolds' /\ SlotsAreAhead' /\ PhasesHold'
    BY <2>1 DEF HttpInv, HttpTyped, RateHolds, SlotsAreAhead, PhasesHold
  <2>3. AttemptsAreTold'
    BY <2>1, <2>2, CountsStand
  <2>4. RecordsHold'
    BY <2>1 DEF HttpInv, RecordsHold, Asked
  <2> QED BY <2>2, <2>3, <2>4 DEF HttpInv
<1>6. CASE UNCHANGED httpVars
  <2>1. HttpTyped' /\ RateHolds' /\ SlotsAreAhead' /\ PhasesHold'
    BY <1>6 DEF HttpInv, HttpTyped, RateHolds, SlotsAreAhead, PhasesHold, httpVars
  <2>2. AttemptsAreTold'
    BY <1>6, <2>1, CountsStand DEF httpVars
  <2>3. RecordsHold'
    BY <1>6 DEF HttpInv, RecordsHold, Asked, httpVars
  <2> QED BY <2>1, <2>2, <2>3 DEF HttpInv
<1> QED BY <1>1, <1>2, <1>3, <1>4, <1>5, <1>6 DEF HttpNext

\* However many sources, attempts and expansions the policy allows and whatever earlier
\* runs left in the caches, a source receives its requests an interval apart and within
\* the run's budget, and the audit tells every one of them (http.py:59, http.py:140-230).
THEOREM SourcesStaySpared == HttpSpec => []SourcesAreSpared
<1>1. HttpInv => SourcesAreSpared
  BY DEF HttpInv, SourcesAreSpared
<1> QED BY <1>1, HttpInitially, HttpPreserved, PTL DEF HttpSpec

-----------------------------------------------------------------------------
(* The identities of papers: any candidates, in any order.                 *)

\* Two records name a common identifier.
Sharing(i, j) == IdentityKeys(batch[i]) \cap IdentityKeys(batch[j]) # {}

IdentityTyped ==
    /\ DOMAIN batch \subseteq Nat /\ \A i \in DOMAIN batch : batch[i] \in Candidates
    /\ root \in [DOMAIN batch -> DOMAIN batch]
    /\ pass \in {"exact", "title", "versions", "done"}
    /\ pairs \subseteq (DOMAIN batch) \X (DOMAIN batch)
\* A root is the root of itself.
RootsAreRoots == \A k \in DOMAIN batch : root[root[k]] = root[k]
\* Of the pairs that were looked at, those that share an identifier have one
\* root, and what has one root is linked by a chain.
SharersMeet ==
    pass = "exact" =>
        \A i, j \in DOMAIN batch :
            i < j /\ <<i, j>> \notin pairs /\ Sharing(i, j) => root[i] = root[j]
RootsAreChains ==
    pass = "exact" => \A i, j \in DOMAIN batch : root[i] = root[j] => Linked(i, j)
\* The clusters of the exact pass stay, and later passes only join them.
ClustersHold ==
    pass # "exact" =>
        /\ exact \in [DOMAIN batch -> DOMAIN batch]
        /\ \A i, j \in DOMAIN batch :
             /\ Sharing(i, j) => exact[i] = exact[j]
             /\ exact[i] = exact[j] => Linked(i, j) /\ root[i] = root[j]
IdentityInv ==
    /\ IdentityTyped /\ RootsAreRoots
    /\ SharersMeet /\ RootsAreChains /\ ClustersHold

\* A set of indices that holds the sharers of each of its members.
Closed(S) == \A k \in S, l \in DOMAIN batch : Sharing(k, l) => l \in S

LEMMA ChainsAreClosed ==
    ASSUME NEW i, NEW j
    PROVE  Linked(i, j) <=> \A S \in SUBSET DOMAIN batch : i \in S /\ Closed(S) => j \in S
BY DEF Linked, Closed, Sharing

\* What shares an identifier is linked, both ways and over others.
LEMMA SharersAreLinked ==
    ASSUME NEW i \in DOMAIN batch, NEW j \in DOMAIN batch, Sharing(i, j)
    PROVE  Linked(i, j)
<1>1. \A S \in SUBSET DOMAIN batch : i \in S /\ Closed(S) => j \in S
  BY DEF Closed
<1> QED BY <1>1, ChainsAreClosed

LEMMA LinksGoOn ==
    ASSUME NEW i, NEW j, NEW k, Linked(i, j), Linked(j, k)
    PROVE  Linked(i, k)
BY ChainsAreClosed

\* The complement of a closed set is closed.
LEMMA LinksGoBack ==
    ASSUME NEW i \in DOMAIN batch, NEW j \in DOMAIN batch, Linked(i, j)
    PROVE  Linked(j, i)
<1>1. SUFFICES ASSUME NEW S \in SUBSET DOMAIN batch, j \in S, Closed(S), i \notin S
              PROVE  FALSE
  BY ChainsAreClosed
<1> DEFINE R == (DOMAIN batch) \ S
<1>2. \A k, l : Sharing(k, l) => Sharing(l, k)
  BY DEF Sharing
<1>3. R \in SUBSET DOMAIN batch /\ i \in R /\ Closed(R)
  BY <1>1, <1>2 DEF Closed
<1>4. j \in R
  BY <1>3, ChainsAreClosed
<1> QED BY <1>1, <1>4

\* A record is linked to itself.
LEMMA LinksBegin == \A i : Linked(i, i)
BY DEF Linked

\* The pair the loops come to next is one of those that are left.
LEMMA NextPairIsLeft ==
    ASSUME NEW P \in SUBSET (Nat \X Nat), P # {}
    PROVE  NextPair(P) \in P
<1> DEFINE A == {p[1] : p \in P}
           B == {p[2] : p \in {q \in P : q[1] = Min(A)}}
<1>1. A \in SUBSET Nat /\ A # {}
  OBVIOUS
<1>2. Min(A) \in A
  BY <1>1, LeastNumber DEF Min
<1>3. B \in SUBSET Nat /\ B # {}
  BY <1>2
<1>4. Min(B) \in B
  BY <1>3, LeastNumber DEF Min
<1>5. PICK p \in P : p[1] = Min(A) /\ p[2] = Min(B)
  BY <1>4
<1>6. p = <<Min(A), Min(B)>>
  BY <1>5
<1> HIDE DEF A, B
<1>7. NextPair(P) = <<Min(A), Min(B)>>
  BY DEF NextPair, A, B
<1> QED BY <1>6, <1>7

\* A union joins the two classes, and nothing else.
Joined(D, r, i, j, u) ==
    /\ u \in [D -> D] /\ u[i] = u[j]
    /\ \A k \in D : u[u[k]] = u[k]
    /\ \A a, b \in D : r[a] = r[b] => u[a] = u[b]
    /\ \A a, b \in D : u[a] = u[b] =>
         r[a] = r[b] \/ (r[a] \in {r[i], r[j]} /\ r[b] \in {r[i], r[j]})

LEMMA UnionJoins ==
    ASSUME NEW D \in SUBSET Nat, NEW r \in [D -> D], \A k \in D : r[r[k]] = r[k],
           NEW i \in D, NEW j \in D
    PROVE  Joined(D, r, i, j, UnionOf(r, i, j))
<1> DEFINE T == {r[i], r[j]}
           u == UnionOf(r, i, j)
           low == Min(T)
<1>1. low \in T
  <2>1. T \in SUBSET Nat /\ T # {}
    OBVIOUS
  <2> QED BY <2>1, LeastNumber DEF Min
<1>2. /\ DOMAIN r = D
      /\ u = [k \in D |-> IF r[k] \in T THEN low ELSE r[k]]
  BY DEF UnionOf
<1>3. low \in D /\ r[low] = low /\ r[i] \in T /\ r[j] \in T
  BY <1>1
<1> HIDE DEF T, low, u
<1>4. /\ u \in [D -> D] /\ u[i] = u[j]
      /\ \A a, b \in D : r[a] = r[b] => u[a] = u[b]
  BY <1>2, <1>3
<1>5. \A k \in D : u[u[k]] = u[k]
  BY <1>1, <1>2, <1>3
<1>6. \A a, b \in D : u[a] = u[b] => r[a] = r[b] \/ (r[a] \in T /\ r[b] \in T)
  BY <1>1, <1>2, <1>3
<1> QED BY <1>4, <1>5, <1>6 DEF T, u, Joined

LEMMA IdentityInitially == IdentityInit => IdentityInv
<1> SUFFICES ASSUME IdentityInit PROVE IdentityInv
  OBVIOUS
<1>1. PICK m \in Nat : batch \in [1 .. m -> Candidates]
  BY IdentityAssumption DEF IdentityInit, SeqOf
<1>2. DOMAIN batch = 1 .. m /\ DOMAIN batch \subseteq Nat
  BY <1>1
<1>3. root = [i \in DOMAIN batch |-> i] /\ pass = "exact" /\ pairs = PairsOf(DOMAIN batch)
  BY DEF IdentityInit
<1>4. IdentityTyped
  BY <1>1, <1>2, <1>3 DEF IdentityTyped, PairsOf
<1>5. RootsAreRoots
  BY <1>3 DEF RootsAreRoots
<1>6. SharersMeet
  BY <1>3 DEF SharersMeet, PairsOf
<1>7. RootsAreChains
  BY <1>3, LinksBegin DEF RootsAreChains
<1>8. ClustersHold
  BY <1>3 DEF ClustersHold
<1> QED BY <1>4, <1>5, <1>6, <1>7, <1>8 DEF IdentityInv

\* The records stay, so do their identifiers and chains.
LEMMA ChainsStand ==
    ASSUME batch' = batch, NEW i, NEW j
    PROVE  (Sharing(i, j)' <=> Sharing(i, j)) /\ (Linked(i, j)' <=> Linked(i, j))
BY DEF Sharing, Linked

LEMMA ExactStepPreserves ==
    ASSUME IdentityInv, ExactStep
    PROVE  IdentityInv'
<1> DEFINE D == DOMAIN batch
           i == NextPair(pairs)[1]
           j == NextPair(pairs)[2]
<1>1. D \in SUBSET Nat /\ root \in [D -> D] /\ (\A k \in D : root[root[k]] = root[k])
  BY DEF IdentityInv, IdentityTyped, RootsAreRoots
<1>2. NextPair(pairs) \in pairs
  BY NextPairIsLeft DEF ExactStep, IdentityInv, IdentityTyped
<1>3. i \in D /\ j \in D /\ NextPair(pairs) = <<i, j>>
  BY <1>2 DEF IdentityInv, IdentityTyped
<1>4. /\ batch' = batch /\ pass = "exact" /\ pass' = "exact"
      /\ pairs' = pairs \ {NextPair(pairs)}
  BY DEF ExactStep
<1> HIDE DEF i, j
<1>5. CASE Sharing(i, j) /\ root[i] # root[j]
  <2>1. root' = UnionOf(root, i, j)
    BY <1>5 DEF ExactStep, Sharing, i, j
  <2>2. Joined(D, root, i, j, root')
    BY <1>1, <1>3, <2>1, UnionJoins
  <2>3. Linked(i, j) /\ Linked(j, i)
    BY <1>3, <1>5, SharersAreLinked, LinksGoBack
  <2>4. ASSUME NEW a \in D, NEW b \in D, root'[a] = root'[b]
        PROVE  Linked(a, b)
    <3>1. \A c, d \in D : root[c] = root[d] => Linked(c, d)
      BY <1>4 DEF IdentityInv, RootsAreChains
    <3>2. CASE root[a] = root[b]
      BY <3>1, <3>2
    <3>3. CASE root[a] = root[i] /\ root[b] = root[j]
      BY <1>3, <2>3, <3>1, <3>3, LinksGoOn
    <3>4. CASE root[a] = root[j] /\ root[b] = root[i]
      BY <1>3, <2>3, <3>1, <3>4, LinksGoOn
    <3> QED BY <2>2, <2>4, <3>2, <3>3, <3>4 DEF Joined
  <2>5. \A a, b \in D : a < b /\ <<a, b>> \notin pairs' /\ Sharing(a, b) => root'[a] = root'[b]
    BY <1>3, <1>4, <2>2 DEF IdentityInv, SharersMeet, Joined
  <2> QED BY <1>1, <1>4, <2>2, <2>4, <2>5, ChainsStand
       DEF Joined, IdentityInv, IdentityTyped, RootsAreRoots, SharersMeet,
           RootsAreChains, ClustersHold
<1>6. CASE ~(Sharing(i, j) /\ root[i] # root[j])
  <2>1. root' = root
    BY <1>6 DEF ExactStep, Sharing, i, j
  <2>2. \A a, b \in D : a < b /\ <<a, b>> \notin pairs' /\ Sharing(a, b) => root'[a] = root'[b]
    BY <1>3, <1>4, <1>6, <2>1 DEF IdentityInv, SharersMeet
  <2>3. \A a, b \in D : root'[a] = root'[b] => Linked(a, b)
    BY <1>4, <2>1 DEF IdentityInv, RootsAreChains
  <2> QED BY <1>1, <1>4, <2>1, <2>2, <2>3, ChainsStand
       DEF IdentityInv, IdentityTyped, RootsAreRoots, SharersMeet, RootsAreChains, ClustersHold
<1> QED BY <1>5, <1>6

LEMMA ExactEndsPreserves ==
    ASSUME IdentityInv, ExactEnds
    PROVE  IdentityInv'
<1> DEFINE D == DOMAIN batch
<1>1. /\ batch' = batch /\ root' = root /\ exact' = root
      /\ pass = "exact" /\ pairs = {} /\ pass' = "title"
      /\ pairs' = PairsOf({root[k] : k \in DOMAIN root})
  BY DEF ExactEnds
<1>2. D \in SUBSET Nat /\ root \in [D -> D]
  BY DEF IdentityInv, IdentityTyped
<1>3. pairs' \subseteq D \X D
  BY <1>1, <1>2 DEF PairsOf
<1>4. \A a, b \in D : Sharing(a, b) => root[a] = root[b]
  <2>1. \A a, b \in D : a < b /\ Sharing(a, b) => root[a] = root[b]
    BY <1>1 DEF IdentityInv, SharersMeet
  <2>2. \A a, b : Sharing(a, b) => Sharing(b, a)
    BY DEF Sharing
  <2>3. \A a, b \in D : a < b \/ b < a \/ a = b
    BY <1>2
  <2> QED BY <2>1, <2>2, <2>3
<1>5. \A a, b \in D : root[a] = root[b] => Linked(a, b)
  BY <1>1 DEF IdentityInv, RootsAreChains
<1> QED BY <1>1, <1>2, <1>3, <1>4, <1>5, ChainsStand
     DEF IdentityInv, IdentityTyped, RootsAreRoots, SharersMeet, RootsAreChains, ClustersHold

LEMMA TitleStepPreserves ==
    ASSUME IdentityInv, TitleStep
    PROVE  IdentityInv'
<1> DEFINE D == DOMAIN batch
           l == NextPair(pairs)[1]
           r == NextPair(pairs)[2]
<1>1. D \in SUBSET Nat /\ root \in [D -> D] /\ (\A k \in D : root[root[k]] = root[k])
  BY DEF IdentityInv, IdentityTyped, RootsAreRoots
<1>2. NextPair(pairs) \in pairs
  BY NextPairIsLeft DEF TitleStep, IdentityInv, IdentityTyped
<1>3. l \in D /\ r \in D
  BY <1>2 DEF IdentityInv, IdentityTyped
<1>4. /\ batch' = batch /\ exact' = exact /\ pass = "title" /\ pass' = "title"
      /\ pairs' \subseteq pairs
      /\ root' = root \/ root' = UnionOf(root, l, r)
  BY DEF TitleStep
<1> HIDE DEF l, r
<1>5. /\ root' \in [D -> D]
      /\ \A k \in D : root'[root'[k]] = root'[k]
      /\ \A a, b \in D : root[a] = root[b] => root'[a] = root'[b]
  <2>1. CASE root' = UnionOf(root, l, r)
    <3>1. Joined(D, root, l, r, root')
      BY <1>1, <1>3, <2>1, UnionJoins
    <3> QED BY <3>1 DEF Joined
  <2>2. CASE root' = root
    BY <1>1, <2>2
  <2> QED BY <1>4, <2>1, <2>2
<1>6. /\ exact \in [D -> D]
      /\ \A a, b \in D : /\ Sharing(a, b) => exact[a] = exact[b]
                         /\ exact[a] = exact[b] => Linked(a, b) /\ root[a] = root[b]
  BY <1>4 DEF IdentityInv, ClustersHold
<1> QED BY <1>1, <1>4, <1>5, <1>6, ChainsStand
     DEF IdentityInv, IdentityTyped, RootsAreRoots, SharersMeet, RootsAreChains, ClustersHold

\* The version pass and what surrounds it leave records and roots alone.
LEMMA LaterStepsPreserve ==
    ASSUME IdentityInv, TitleEnds \/ VersionStep \/ VersionsEnd \/ UNCHANGED identityVars
    PROVE  IdentityInv'
<1> DEFINE D == DOMAIN batch
<1>1. /\ batch' = batch /\ root' = root /\ exact' = exact
      /\ pass' = pass \/ (pass # "exact" /\ pass' \in {"versions", "done"})
      /\ pass = "exact" => pairs' = pairs
  BY DEF TitleEnds, VersionStep, VersionsEnd, identityVars
<1>2. D \in SUBSET Nat /\ root \in [D -> D] /\ pairs \subseteq D \X D
  BY DEF IdentityInv, IdentityTyped
<1>3. pairs' \subseteq D \X D
  <2>1. CASE TitleEnds
    BY <1>2, <2>1 DEF TitleEnds, PairsOf, PaperRoots
  <2>2. CASE VersionStep
    BY <1>2, <2>2 DEF VersionStep
  <2>3. CASE VersionsEnd \/ UNCHANGED identityVars
    BY <1>2, <2>3 DEF VersionsEnd, identityVars
  <2> QED BY <2>1, <2>2, <2>3
<1> QED BY <1>1, <1>2, <1>3, ChainsStand
     DEF IdentityInv, IdentityTyped, RootsAreRoots, SharersMeet, RootsAreChains, ClustersHold

LEMMA IdentityPreserved == IdentityInv /\ [IdentityNext]_identityVars => IdentityInv'
BY ExactStepPreserves, ExactEndsPreserves, TitleStepPreserves, LaterStepsPreserve
   DEF IdentityNext

\* The exact pass computes the closure of sharing.
LEMMA ExactIsClosure == IdentityInv => ExactPassIsClosure
<1> SUFFICES ASSUME IdentityInv, pass \in {"title", "versions", "done"},
                    NEW i \in DOMAIN batch, NEW j \in DOMAIN batch
             PROVE  exact[i] = exact[j] <=> Linked(i, j)
  BY DEF ExactPassIsClosure
<1>1. \A a, b \in DOMAIN batch : /\ Sharing(a, b) => exact[a] = exact[b]
                                 /\ exact[a] = exact[b] => Linked(a, b)
  BY DEF IdentityInv, ClustersHold
<1>2. ASSUME Linked(i, j) PROVE exact[i] = exact[j]
  <2> DEFINE S == {k \in DOMAIN batch : exact[k] = exact[i]}
  <2>1. S \in SUBSET DOMAIN batch /\ i \in S /\ Closed(S)
    BY <1>1 DEF Closed
  <2>2. j \in S
    BY <1>2, <2>1, ChainsAreClosed
  <2> QED BY <2>2
<1> QED BY <1>1, <1>2

\* The first value of a field is the value of some record, if one has a value.
LEMMA FirstIsSomeones ==
    ASSUME NEW C \in SUBSET Nat, NEW field
    PROVE  IF \A i \in C : batch[i][field] = NoId
           THEN FirstValue(C, field) = NoId
           ELSE FirstValue(C, field) # NoId
                /\ \E i \in C : FirstValue(C, field) = batch[i][field]
<1> DEFINE known == {i \in C : batch[i][field] # NoId}
<1>1. CASE known = {}
  BY <1>1 DEF FirstValue
<1>2. CASE known # {}
  <2>1. Min(known) \in known
    BY <1>2, LeastNumber DEF Min
  <2>2. FirstValue(C, field) = batch[Min(known)][field]
    BY <1>2 DEF FirstValue
  <2> QED BY <2>1, <2>2
<1> QED BY <1>1, <1>2

\* A paper goes by an identifier of one of its records.
LEMMA CanonicalIsAKey ==
    ASSUME IdentityTyped, NEW C \in SUBSET DOMAIN batch, C # {}
    PROVE  \E i \in C : CanonicalId(C) \in IdentityKeys(batch[i])
<1>1. C \in SUBSET Nat
  BY DEF IdentityTyped
<1>2. \A i \in C : {batch[i].doi, batch[i].arxiv, batch[i].openalex, batch[i].semantic} # {NoId}
  BY IdentityAssumption DEF IdentityTyped
<1>3. CASE PaperDoi(C) # NoId
  <2>1. PICK i \in C : PaperDoi(C) = batch[i].doi
    BY <1>1, <1>3, FirstIsSomeones DEF PaperDoi
  <2>2. <<"doi", batch[i].doi>> \in IdentityKeys(batch[i])
    BY <1>3, <2>1 DEF IdentityKeys
  <2> QED BY <1>3, <2>1, <2>2 DEF CanonicalId
<1>4. CASE PaperDoi(C) = NoId
  <2>1. \A i \in C : batch[i].doi = NoId
    BY <1>1, <1>4, FirstIsSomeones DEF PaperDoi
  <2>2. PaperArxiv(C) = FirstValue(C, "arxiv")
    BY <1>4, IdentityAssumption DEF PaperArxiv
  <2>3. CASE PaperArxiv(C) # NoId
    <3>1. PICK i \in C : PaperArxiv(C) = batch[i].arxiv
      BY <1>1, <2>2, <2>3, FirstIsSomeones
    <3>2. ArxivIdOf(batch[i]) = batch[i].arxiv
      BY <2>3, <3>1 DEF ArxivIdOf
    <3>3. <<"arxiv", ArxivIdOf(batch[i])>> \in IdentityKeys(batch[i])
      BY <2>3, <3>1, <3>2 DEF IdentityKeys
    <3> QED BY <1>4, <2>3, <3>1, <3>2, <3>3 DEF CanonicalId
  <2>4. CASE PaperArxiv(C) = NoId /\ FirstValue(C, "openalex") # NoId
    <3>1. PICK i \in C : FirstValue(C, "openalex") = batch[i].openalex
      BY <1>1, <2>4, FirstIsSomeones
    <3>2. <<"openalex", batch[i].openalex>> \in IdentityKeys(batch[i])
      BY <2>4, <3>1 DEF IdentityKeys
    <3> QED BY <1>4, <2>4, <3>1, <3>2 DEF CanonicalId
  <2>5. CASE PaperArxiv(C) = NoId /\ FirstValue(C, "openalex") = NoId
    <3>1. \A i \in C : batch[i].arxiv = NoId
      BY <1>1, <2>2, <2>5, FirstIsSomeones
    <3>2. \A i \in C : batch[i].openalex = NoId
      BY <1>1, <2>5, FirstIsSomeones
    <3>3. \A i \in C : batch[i].semantic # NoId
      BY <1>2, <2>1, <3>1, <3>2
    <3>4. FirstValue(C, "semantic") # NoId
          /\ \E i \in C : FirstValue(C, "semantic") = batch[i].semantic
      BY <1>1, <3>3, FirstIsSomeones
    <3>5. PICK i \in C : FirstValue(C, "semantic") = batch[i].semantic
      BY <3>4
    <3>6. <<"s2", batch[i].semantic>> \in IdentityKeys(batch[i])
      BY <3>3 DEF IdentityKeys
    <3> QED BY <1>4, <2>5, <3>5, <3>6 DEF CanonicalId
  <2> QED BY <2>3, <2>4, <2>5
<1> QED BY <1>3, <1>4

\* Papers that go by one identifier are one paper.
LEMMA PapersStayDistinct == IdentityInv => PapersAreDistinct
<1> SUFFICES ASSUME IdentityInv, pass \in {"versions", "done"} PROVE PapersAreDistinct
  BY DEF PapersAreDistinct
<1>1. \A i, j \in DOMAIN batch : Sharing(i, j) => root[i] = root[j]
  BY DEF IdentityInv, ClustersHold
<1>2. ASSUME NEW r \in PaperRoots, NEW s \in PaperRoots,
             CanonicalId(Paper(r)) = CanonicalId(Paper(s))
      PROVE  r = s
  <2>1. /\ IdentityTyped /\ DOMAIN root = DOMAIN batch
        /\ Paper(r) \in SUBSET DOMAIN batch /\ Paper(r) # {}
        /\ Paper(s) \in SUBSET DOMAIN batch /\ Paper(s) # {}
    BY DEF IdentityInv, IdentityTyped, PaperRoots, Paper, ClusterOf
  <2>2. PICK i \in Paper(r) : CanonicalId(Paper(r)) \in IdentityKeys(batch[i])
    BY <2>1, CanonicalIsAKey
  <2>3. PICK j \in Paper(s) : CanonicalId(Paper(s)) \in IdentityKeys(batch[j])
    BY <2>1, CanonicalIsAKey
  <2>4. Sharing(i, j) /\ i \in DOMAIN batch /\ j \in DOMAIN batch
    BY <1>2, <2>1, <2>2, <2>3 DEF Sharing
  <2>5. root[i] = r /\ root[j] = s
    BY DEF Paper, ClusterOf
  <2> QED BY <1>1, <2>4, <2>5
<1> QED BY <1>1, <1>2 DEF PapersAreDistinct, Sharing

\* What the title pass adds: pairs are of roots of the exact pass, those that were
\* looked at have met if they match, and what has met is linked by matches.
TitleTyped ==
    /\ pass # "exact" => \A k \in DOMAIN batch : exact[exact[k]] = exact[k]
    /\ pass = "title" => \A p \in pairs : exact[p[1]] = p[1] /\ exact[p[2]] = p[2]
MatchesMeet ==
    pass = "title" =>
        \A i, j \in DOMAIN batch :
            i < j /\ exact[i] = i /\ exact[j] = j /\ <<i, j>> \notin pairs /\ Alike(i, j)
                => root[i] = root[j]
MatchesMet ==
    pass \in {"versions", "done"} =>
        \A i, j \in DOMAIN batch : Alike(i, j) => root[i] = root[j]
RootsAreAkin ==
    pass # "exact" => \A i, j \in DOMAIN batch : root[i] = root[j] => Akin(i, j)
TitleInv == TitleTyped /\ MatchesMeet /\ MatchesMet /\ RootsAreAkin

\* A set of indices that holds whatever is taken for the same as its members.
Whole(S) == \A k \in S, l \in DOMAIN batch : Alike(k, l) => l \in S

LEMMA AkinIsWhole ==
    ASSUME NEW i, NEW j
    PROVE  Akin(i, j) <=> \A S \in SUBSET DOMAIN batch : i \in S /\ Whole(S) => j \in S
BY DEF Akin, Whole

LEMMA AlikeAreAkin ==
    ASSUME NEW i \in DOMAIN batch, NEW j \in DOMAIN batch, Alike(i, j)
    PROVE  Akin(i, j)
<1>1. \A S \in SUBSET DOMAIN batch : i \in S /\ Whole(S) => j \in S
  BY DEF Whole
<1> QED BY <1>1, AkinIsWhole

LEMMA AkinGoesOn ==
    ASSUME NEW i, NEW j, NEW k, Akin(i, j), Akin(j, k)
    PROVE  Akin(i, k)
BY AkinIsWhole

\* A match is one in both directions.
LEMMA AlikeBothWays ==
    ASSUME NEW i, NEW j, Alike(i, j)
    PROVE  Alike(j, i)
<1>1. \A S, T : Disagree(S, T) => Disagree(T, S)
  BY DEF Disagree
<1>2. \A C, D : StrongConflict(C, D) => StrongConflict(D, C)
  BY <1>1 DEF StrongConflict
<1>3. \A C, D : Matching(C, D) => Matching(D, C)
  BY <1>2 DEF Matching
<1> QED BY <1>3 DEF Alike

LEMMA AkinGoesBack ==
    ASSUME NEW i \in DOMAIN batch, NEW j \in DOMAIN batch, Akin(i, j)
    PROVE  Akin(j, i)
<1>1. SUFFICES ASSUME NEW S \in SUBSET DOMAIN batch, j \in S, Whole(S), i \notin S
              PROVE  FALSE
  BY AkinIsWhole
<1> DEFINE R == (DOMAIN batch) \ S
<1>2. R \in SUBSET DOMAIN batch /\ i \in R /\ Whole(R)
  BY <1>1, AlikeBothWays DEF Whole
<1>3. j \in R
  BY <1>2, AkinIsWhole
<1> QED BY <1>1, <1>3

\* The clusters of the exact pass stay, so do their matches and the chains of these.
LEMMA MatchesStand ==
    ASSUME batch' = batch, exact' = exact, NEW i, NEW j
    PROVE  (Alike(i, j)' <=> Alike(i, j)) /\ (Akin(i, j)' <=> Akin(i, j))
<1>1. \A C : PreferredCandidate(C)' = PreferredCandidate(C)
  BY DEF PreferredCandidate
<1>2. \A C : FallbackKey(C)' = FallbackKey(C)
  BY <1>1 DEF FallbackKey
<1>3. \A C : /\ ClusterDois(C)' = ClusterDois(C)
             /\ ClusterArxiv(C)' = ClusterArxiv(C)
             /\ FormalDois(C)' = FormalDois(C)
  BY DEF ClusterDois, ClusterArxiv, FormalDois
<1>4. \A C, D : StrongConflict(C, D)' <=> StrongConflict(C, D)
  BY <1>3 DEF StrongConflict
<1>5. \A C, D : Matching(C, D)' <=> Matching(C, D)
  BY <1>2, <1>4 DEF Matching
<1>6. \A k, l : Alike(k, l)' <=> Alike(k, l)
  BY <1>5 DEF Alike, ClusterOf
<1> QED BY <1>6 DEF Akin

LEMMA TitleInitially == IdentityInit => TitleInv
BY DEF IdentityInit, TitleInv, TitleTyped, MatchesMeet, MatchesMet, RootsAreAkin

LEMMA ExactStepKeepsTitles ==
    ASSUME TitleInv, ExactStep
    PROVE  TitleInv'
BY DEF ExactStep, TitleInv, TitleTyped, MatchesMeet, MatchesMet, RootsAreAkin

LEMMA ExactEndsKeepsTitles ==
    ASSUME IdentityInv, ExactEnds
    PROVE  TitleInv'
<1> DEFINE D == DOMAIN batch
<1>1. /\ batch' = batch /\ root' = root /\ exact' = root /\ pass' = "title"
      /\ pairs' = PairsOf({root[k] : k \in DOMAIN root})
  BY DEF ExactEnds
<1>2. D \in SUBSET Nat /\ root \in [D -> D] /\ (\A k \in D : root[root[k]] = root[k])
  BY DEF IdentityInv, IdentityTyped, RootsAreRoots
<1>3. \A p \in pairs' : root[p[1]] = p[1] /\ root[p[2]] = p[2]
  BY <1>1, <1>2 DEF PairsOf
<1>4. \A i, j \in D : i < j /\ root[i] = i /\ root[j] = j => <<i, j>> \in pairs'
  BY <1>1, <1>2 DEF PairsOf
<1>5. ASSUME NEW i \in D, NEW j \in D, root[i] = root[j] PROVE Akin(i, j)'
  <2>1. Alike(i, j)'
    BY <1>1, <1>5 DEF Alike
  <2> QED BY <1>1, <2>1 DEF Akin
<1> QED BY <1>1, <1>2, <1>3, <1>4, <1>5
     DEF TitleInv, TitleTyped, MatchesMeet, MatchesMet, RootsAreAkin

LEMMA TitleStepKeepsTitles ==
    ASSUME IdentityInv, TitleInv, TitleStep
    PROVE  TitleInv'
<1> DEFINE D == DOMAIN batch
           l == NextPair(pairs)[1]
           r == NextPair(pairs)[2]
<1>1. D \in SUBSET Nat /\ root \in [D -> D] /\ (\A k \in D : root[root[k]] = root[k])
  BY DEF IdentityInv, IdentityTyped, RootsAreRoots
<1>2. NextPair(pairs) \in pairs
  BY NextPairIsLeft DEF TitleStep, IdentityInv, IdentityTyped
<1>3. /\ l \in D /\ r \in D /\ NextPair(pairs) = <<l, r>>
      /\ pass = "title" /\ exact[l] = l /\ exact[r] = r
  BY <1>2 DEF IdentityInv, IdentityTyped, TitleInv, TitleTyped, TitleStep
<1>4. /\ batch' = batch /\ exact' = exact /\ pass' = "title"
      /\ pairs' = pairs \ {NextPair(pairs)}
  BY DEF TitleStep
<1>5. /\ \A i, j : Alike(i, j)' <=> Alike(i, j)
      /\ \A i, j : Akin(i, j)' <=> Akin(i, j)
  BY <1>4, MatchesStand
<1>6. TitleTyped'
  BY <1>3, <1>4 DEF TitleInv, TitleTyped
<1>7. /\ \A i, j \in D : i < j /\ exact[i] = i /\ exact[j] = j /\ <<i, j>> \notin pairs
                           /\ Alike(i, j) => root[i] = root[j]
      /\ \A i, j \in D : root[i] = root[j] => Akin(i, j)
  BY <1>3 DEF TitleInv, MatchesMeet, RootsAreAkin
<1>8. CASE root[l] # root[r] /\ Matching(ClusterOf(exact, l), ClusterOf(exact, r))
  <2>1. root' = UnionOf(root, l, r)
    BY <1>8 DEF TitleStep, Matching
  <2>2. Joined(D, root, l, r, root')
    BY <1>1, <1>3, <2>1, UnionJoins
  <2>3. Alike(l, r)
    BY <1>3, <1>8 DEF Alike
  <2>4. Akin(l, r) /\ Akin(r, l)
    BY <1>3, <2>3, AlikeAreAkin, AkinGoesBack
  <2> HIDE DEF l, r
  <2>5. ASSUME NEW a \in D, NEW b \in D, root'[a] = root'[b]
        PROVE  Akin(a, b)
    <3>1. CASE root[a] = root[b]
      BY <1>7, <3>1
    <3>2. CASE root[a] = root[l] /\ root[b] = root[r]
      BY <1>3, <1>7, <2>4, <3>2, AkinGoesOn
    <3>3. CASE root[a] = root[r] /\ root[b] = root[l]
      BY <1>3, <1>7, <2>4, <3>3, AkinGoesOn
    <3> QED BY <2>2, <2>5, <3>1, <3>2, <3>3 DEF Joined
  <2>6. \A i, j \in D : i < j /\ exact[i] = i /\ exact[j] = j /\ <<i, j>> \notin pairs'
                           /\ Alike(i, j) => root'[i] = root'[j]
    BY <1>3, <1>4, <1>7, <2>2 DEF Joined
  <2> QED BY <1>4, <1>5, <1>6, <2>5, <2>6 DEF TitleInv, MatchesMeet, MatchesMet, RootsAreAkin
<1>9. CASE ~(root[l] # root[r] /\ Matching(ClusterOf(exact, l), ClusterOf(exact, r)))
  <2>1. root' = root
    BY <1>9 DEF TitleStep, Matching
  <2>2. Alike(l, r) => root[l] = root[r]
    <3>1. l = r => root[l] = root[r]
      OBVIOUS
    <3> QED BY <1>3, <1>9, <3>1 DEF Alike
  <2> HIDE DEF l, r
  <2>3. \A i, j \in D : i < j /\ exact[i] = i /\ exact[j] = j /\ <<i, j>> \notin pairs'
                           /\ Alike(i, j) => root[i] = root[j]
    BY <1>3, <1>4, <1>7, <2>2
  <2> QED BY <1>4, <1>5, <1>6, <1>7, <2>1, <2>3
       DEF TitleInv, MatchesMeet, MatchesMet, RootsAreAkin
<1> QED BY <1>8, <1>9

LEMMA TitleEndsKeepsTitles ==
    ASSUME IdentityInv, TitleInv, TitleEnds
    PROVE  TitleInv'
<1> DEFINE D == DOMAIN batch
<1>1. /\ batch' = batch /\ root' = root /\ exact' = exact /\ pairs = {}
      /\ pass = "title" /\ pass' = "versions"
  BY DEF TitleEnds
<1>2. /\ D \in SUBSET Nat /\ root \in [D -> D] /\ exact \in [D -> D]
      /\ \A k \in D : exact[exact[k]] = exact[k]
      /\ \A i, j \in D : exact[i] = exact[j] => root[i] = root[j]
  BY <1>1 DEF IdentityInv, IdentityTyped, ClustersHold, TitleInv, TitleTyped
<1>3. ASSUME NEW i \in D, NEW j \in D, Alike(i, j) PROVE root[i] = root[j]
  <2> DEFINE k == exact[i]
             l == exact[j]
  <2>1. /\ k \in D /\ l \in D /\ exact[k] = k /\ exact[l] = l
        /\ root[i] = root[k] /\ root[j] = root[l]
    BY <1>2
  <2>2. Alike(k, l) /\ Alike(l, k)
    <3>1. Alike(k, l)
      BY <1>3, <2>1 DEF Alike
    <3> QED BY <3>1, AlikeBothWays
  <2> HIDE DEF k, l
  <2>3. k < l \/ l < k \/ k = l
    BY <1>2, <2>1
  <2>4. root[k] = root[l]
    BY <1>1, <2>1, <2>2, <2>3 DEF TitleInv, MatchesMeet
  <2> QED BY <2>1, <2>4
<1>4. /\ \A i, j : Alike(i, j)' <=> Alike(i, j)
      /\ \A i, j : Akin(i, j)' <=> Akin(i, j)
  BY <1>1, MatchesStand
<1> QED BY <1>1, <1>2, <1>3, <1>4 DEF TitleInv, TitleTyped, MatchesMeet, MatchesMet, RootsAreAkin

LEMMA VersionsKeepTitles ==
    ASSUME TitleInv, VersionStep \/ VersionsEnd \/ UNCHANGED identityVars
    PROVE  TitleInv'
<1>1. /\ batch' = batch /\ root' = root /\ exact' = exact
      /\ \/ pass' = pass /\ (pass = "title" => pairs' = pairs)
         \/ pass = "versions" /\ pass' = "done"
  BY DEF VersionStep, VersionsEnd, identityVars
<1>2. /\ \A i, j : Alike(i, j)' <=> Alike(i, j)
      /\ \A i, j : Akin(i, j)' <=> Akin(i, j)
  BY <1>1, MatchesStand
<1> QED BY <1>1, <1>2 DEF TitleInv, TitleTyped, MatchesMeet, MatchesMet, RootsAreAkin

LEMMA TitlesPreserved ==
    IdentityInv /\ TitleInv /\ [IdentityNext]_identityVars => TitleInv'
BY ExactStepKeepsTitles, ExactEndsKeepsTitles, TitleStepKeepsTitles, TitleEndsKeepsTitles,
   VersionsKeepTitles DEF IdentityNext

\* The title pass computes the closure of matching.
LEMMA TitleIsClosure == TitleInv => TitlePassIsClosure
<1> SUFFICES ASSUME TitleInv, pass \in {"versions", "done"},
                    NEW i \in DOMAIN batch, NEW j \in DOMAIN batch
             PROVE  root[i] = root[j] <=> Akin(i, j)
  BY DEF TitlePassIsClosure
<1>1. \A a, b \in DOMAIN batch : /\ Alike(a, b) => root[a] = root[b]
                                 /\ root[a] = root[b] => Akin(a, b)
  BY DEF TitleInv, MatchesMet, RootsAreAkin
<1>2. ASSUME Akin(i, j) PROVE root[i] = root[j]
  <2> DEFINE S == {k \in DOMAIN batch : root[k] = root[i]}
  <2>1. S \in SUBSET DOMAIN batch /\ i \in S /\ Whole(S)
    BY <1>1 DEF Whole
  <2>2. j \in S
    BY <1>2, <2>1, AkinIsWhole
  <2> QED BY <2>2
<1> QED BY <1>1, <1>2

\* Whatever candidates the sources return and in whatever order they are numbered, the
\* clusters of the exact pass are the chains of shared identifiers, the papers are the
\* chains of title matches between these clusters, and no two papers share an identifier
\* or go by the same one (normalization.py:125-260).
THEOREM PapersStayTheirIdentities == IdentitySpec => []PapersAreTheirIdentities
<1>1. IdentityInv /\ TitleInv => PapersAreTheirIdentities
  BY ExactIsClosure, TitleIsClosure, PapersStayDistinct DEF PapersAreTheirIdentities
<1> QED BY <1>1, IdentityInitially, TitleInitially, IdentityPreserved, TitlesPreserved, PTL
     DEF IdentitySpec
=============================================================================
