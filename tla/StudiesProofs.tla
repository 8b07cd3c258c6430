--------------------------- MODULE StudiesProofs ---------------------------
(***************************************************************************)
(* Theorems about the offline studies and their ledgers: the paid          *)
(* comparisons, the ledgers of observations, the blind review and the      *)
(* gate.  The components share no variable; each has a part of its own     *)
(* below, with its inductive invariant.                                    *)
(***************************************************************************)
EXTENDS AblationRunner, SchemeComparison, ObservationLedger, PairedExperiment, BlindReview,
        ProspectiveGate, SumTheorems, SequenceTheorems, TLAPS

-----------------------------------------------------------------------------
(* The three-scheme comparison: any questions, shares and restarts.        *)

Schemes == Studies \cup {"baseline"}
ComparisonInv == spent \in [Schemes -> Nat] /\ \A s \in Schemes : spent[s] <= Share(s)

LEMMA SharesAreNumbers == \A s \in Schemes : Share(s) \in Nat
BY ComparisonAssumption DEF Schemes, Studies, Share

LEMMA CopiedIsCounted == Cardinality(Copied) \in Nat
<1> DEFINE A == {p \in Qs : answered[p] = "ok"}
<1>1. IsFiniteSet(A)
  BY ComparisonAssumption, FS_Subset
<1>2. Copied = {<<q, "V-off">> : q \in A}
  BY DEF Copied
<1> HIDE DEF A
<1>3. [q \in A |-> <<q, "V-off">>] \in Surjection(A, Copied)
  BY <1>2 DEF Surjection
<1> QED BY <1>1, <1>3, FS_Surjection, FS_CardinalityType

LEMMA ComparisonPreserved == ComparisonInv /\ [ComparisonNext]_comparisonVars => ComparisonInv'
<1> SUFFICES ASSUME ComparisonInv, [ComparisonNext]_comparisonVars PROVE ComparisonInv'
  OBVIOUS
<1>1. CASE spent' = spent
  BY <1>1 DEF ComparisonInv, Share
<1>2. ASSUME NEW s \in Schemes, spent' = [spent EXCEPT ![s] = @ + 1], spent[s] + 1 <= Share(s)
      PROVE  ComparisonInv'
  BY <1>2, SharesAreNumbers DEF ComparisonInv, Share
<1>3. ASSUME NEW q \in Qs, BaselineRow(q)
      PROVE  ComparisonInv'
  <2>1. CASE UNCHANGED spent
    BY <2>1, <1>1
  <2>2. CASE spent["baseline"] + 1 <= BaselineShare /\ spent' = [spent EXCEPT !["baseline"] = @ + 1]
    BY <2>2, <1>2 DEF Schemes, Share
  <2>3. spent["baseline"] \in Nat /\ BaselineShare \in Nat
    BY ComparisonAssumption DEF ComparisonInv, Schemes
  <2> QED BY <1>3, <2>1, <2>2, <2>3 DEF BaselineRow
<1>4. ASSUME NEW s \in Studies, NEW c \in StudyConditions, Serve(s, c) \/ DieServing(s, c)
      PROVE  ComparisonInv'
  <2>1. CASE UNCHANGED spent
    BY <2>1, <1>1
  <2>2. CASE Charged(s) + 1 <= Share(s) /\ spent' = [spent EXCEPT ![s] = @ + 1]
    <3>1. s \in Schemes /\ spent[s] \in Nat /\ Share(s) \in Nat
      BY SharesAreNumbers DEF ComparisonInv, Schemes
    <3>2. spent[s] + 1 <= Share(s)
      BY <2>2, <3>1, CopiedIsCounted DEF Charged
    <3> QED BY <2>2, <3>1, <3>2, <1>2
  <2> QED BY <1>4, <2>1, <2>2 DEF Serve, DieServing
<1>5. CASE UNCHANGED comparisonVars
  BY <1>1, <1>5 DEF comparisonVars
<1> QED
  BY <1>1, <1>3, <1>4, <1>5
  DEF ComparisonNext, StartComparison, ResumeComparison, CrashComparison, WriteBaseline, StopAtPending, FinishStudy

(* Killed, resumed and retried however often, no scheme pays more than its  *)
(* share, nor the three together more than the cap                          *)
(* (run_sp04_comparison.allocated_costs, ledger.check_dispatch).            *)
THEOREM CapIsHard == ComparisonSpec => []HardCapHolds
<1>1. ComparisonInit => ComparisonInv
  BY SharesAreNumbers DEF ComparisonInit, ComparisonInv, Schemes
<1>2. ComparisonInv => HardCapHolds
  BY SharesAreNumbers DEF ComparisonInv, HardCapHolds, HardCap, Paid3, Schemes, Studies, Share
<1> QED
  BY <1>1, <1>2, ComparisonPreserved, PTL DEF ComparisonSpec

-----------------------------------------------------------------------------
(* The observation ledger: any processes, rows and revisions.              *)

LedgerRows == [real : BOOLEAN, eligible : BOOLEAN, sequence : Nat, previous : Nat]
Revisions == [status : {"confirmed", "ambiguous", "rejected"}, miss : Misses,
              cause : Causes \cup {"none"}, revision : Nat, previous : Nat]
Counts == [op : {"counted"}, row : [real : BOOLEAN, eligible : BOOLEAN]]
Captures == [op : {"capture"}, row : LedgerRows]
Submissions == [op : {"review"}, record : 1 .. MaxObservations, row : Revisions]

Works == {NoWork} \cup Counts \cup Captures \cup Submissions

LedgerTypes ==
    /\ observations \in Seq(LedgerRows) /\ Len(observations) <= MaxObservations
    /\ reviews \in [1 .. MaxObservations -> Seq(Revisions)]
    /\ work \in [Reviewers -> Works]

\* A review that blames the graph says that the corpus had the paper.
Blames(review) == review.status = "confirmed" /\ review.cause \in GraphCauses
                    => review.miss = "in_corpus"
StoredAreSound == \A r \in 1 .. MaxObservations : \A i \in 1 .. Len(reviews[r]) : Blames(reviews[r][i])

\* What was checked is either still next, or its number is taken by now.
CaptureInHand(p) ==
    /\ work[p].row.sequence \in 1 .. Len(observations) + 1
    /\ work[p].row.sequence <= MaxObservations
    /\ work[p].row.previous = work[p].row.sequence - 1
ReviewInHand(p) ==
    /\ work[p].row.revision \in 1 .. Len(reviews[work[p].record]) + 1
    /\ work[p].row.previous = work[p].row.revision - 1
    /\ Blames(work[p].row)
WorkIsCurrent == \A p \in Reviewers : /\ work[p].op = "capture" => CaptureInHand(p)
                                      /\ work[p].op = "review" => ReviewInHand(p)

\* The processes that have counted and not yet inserted an eligible question.
Pending == {p \in Reviewers : /\ work[p].op \in {"counted", "capture"}
                              /\ work[p].row.real /\ work[p].row.eligible}
WindowIsBounded ==
    Cardinality(EligibleReviews) + Cardinality(Pending) <= MaxWindow + (Cardinality(Reviewers) - 1)

\* The revisions of every record, captured or not, are a chain.
RevisionsChained == \A r \in 1 .. MaxObservations : \A i \in 1 .. Len(reviews[r]) :
                        reviews[r][i].revision = i /\ reviews[r][i].previous = i - 1

LedgerInv == LedgerTypes /\ ChainValid /\ RevisionsChained /\ WindowIsBounded
             /\ StoredAreSound /\ WorkIsCurrent

LEMMA LedgerInitially == LedgerInit => LedgerInv
<1> SUFFICES ASSUME LedgerInit PROVE LedgerInv
  OBVIOUS
<1>1. observations = <<>> /\ Len(observations) = 0 /\ Observed = {}
  BY EmptySeq DEF LedgerInit, Observed
<1>2. WindowIsBounded
  <2>1. EligibleReviews = {} /\ Pending = {} /\ Cardinality({}) = 0
    BY <1>1, FS_EmptySet DEF LedgerInit, EligibleReviews, Pending, NoWork
  <2>2. Cardinality(Reviewers) \in Nat /\ Cardinality(Reviewers) # 0
    BY LedgerAssumption, FS_CardinalityType, FS_EmptySet
  <2> QED BY <2>1, <2>2, LedgerAssumption DEF WindowIsBounded
<1>3. \A r \in 1 .. MaxObservations : reviews[r] = <<>> /\ Len(reviews[r]) = 0
  BY EmptySeq DEF LedgerInit
<1>4. LedgerTypes
  BY <1>1, LedgerAssumption, EmptySeq DEF LedgerInit, LedgerTypes, Works
<1>5. ChainValid
  BY <1>1, <1>3 DEF ChainValid
<1>6. RevisionsChained
  BY <1>3 DEF RevisionsChained
<1>7. StoredAreSound /\ WorkIsCurrent
  BY <1>3 DEF LedgerInit, StoredAreSound, WorkIsCurrent, NoWork
<1> QED BY <1>2, <1>4, <1>5, <1>6, <1>7 DEF LedgerInv

LEMMA EligibleAreCounted ==
    LedgerInv => IsFiniteSet(EligibleReviews) /\ Cardinality(EligibleReviews) \in Nat
<1> SUFFICES ASSUME LedgerInv PROVE IsFiniteSet(EligibleReviews)
  BY FS_CardinalityType
<1>1. Len(observations) \in Nat
  BY LenProperties DEF LedgerInv, LedgerTypes
<1>2. IsFiniteSet(Observed)
  BY <1>1, FS_Interval DEF Observed
<1> QED BY <1>2, FS_Subset DEF EligibleReviews

LEMMA PendingAreCounted ==
    /\ IsFiniteSet(Pending) /\ Cardinality(Pending) \in Nat
    /\ Cardinality(Reviewers) \in Nat /\ Cardinality(Pending) <= Cardinality(Reviewers)
<1>1. Pending \subseteq Reviewers
  BY DEF Pending
<1> QED BY <1>1, LedgerAssumption, FS_Subset, FS_CardinalityType

LEMMA LedgerPreserved == LedgerInv /\ [LedgerNext]_ledgerVars => LedgerInv'
<1> SUFFICES ASSUME LedgerInv, [LedgerNext]_ledgerVars PROVE LedgerInv'
  OBVIOUS
<1> USE LedgerAssumption
<1>1. Len(observations) \in Nat /\ \A r \in 1 .. MaxObservations : Len(reviews[r]) \in Nat
  BY LenProperties DEF LedgerInv, LedgerTypes
<1>2. Observed \subseteq 1 .. MaxObservations
  BY <1>1 DEF LedgerInv, LedgerTypes, Observed
<1>3. \A p \in Reviewers : work[p] \in Works
  BY DEF LedgerInv, LedgerTypes
<1>4. ASSUME UNCHANGED <<observations, reviews>>,
             work' \in [Reviewers -> Works], WorkIsCurrent', WindowIsBounded'
      PROVE  LedgerInv'
  BY <1>4 DEF LedgerInv, LedgerTypes, ChainValid, RevisionsChained, Observed, EligibleReviews, StoredAreSound
<1>5. ASSUME EligibleReviews' = EligibleReviews, Pending' \subseteq Pending PROVE WindowIsBounded'
  <2>1. Cardinality(Pending') \in Nat /\ Cardinality(Pending') <= Cardinality(Pending)
    BY <1>5, PendingAreCounted, FS_Subset, FS_CardinalityType
  <2> QED BY <1>5, <2>1, EligibleAreCounted, PendingAreCounted DEF LedgerInv, WindowIsBounded
<1>10. ASSUME NEW p \in Reviewers, NEW real \in BOOLEAN, NEW eligible \in BOOLEAN,
              CountEligible(p, real, eligible)
       PROVE  LedgerInv'
  <2> DEFINE w == [op |-> "counted", row |-> [real |-> real, eligible |-> eligible]]
  <2>1. w \in Counts /\ work' = [work EXCEPT ![p] = w] /\ UNCHANGED <<observations, reviews>>
    BY <1>10 DEF CountEligible, Counts
  <2>2. EligibleReviews' = EligibleReviews
    BY <2>1 DEF EligibleReviews, Observed
  <2>3. real /\ eligible => Cardinality(EligibleReviews) < MaxWindow
    BY <1>10 DEF CountEligible
  <2>4. w.op = "counted" /\ w.row.real = real /\ w.row.eligible = eligible
    OBVIOUS
  <2> HIDE DEF w
  <2>5. work' \in [Reviewers -> Works] /\ work'[p] = w /\ \A q \in Reviewers : q # p => work'[q] = work[q]
    BY <2>1 DEF LedgerInv, LedgerTypes, Works
  <2>6. WorkIsCurrent'
    BY <2>1, <2>4, <2>5 DEF LedgerInv, WorkIsCurrent, CaptureInHand, ReviewInHand
  <2>7. WindowIsBounded'
    <3>1. CASE real /\ eligible
      <4>1. Cardinality(Pending)' \in Nat /\ Cardinality(Pending)' <= Cardinality(Reviewers)
        <5>1. Pending' \subseteq Reviewers
          BY DEF Pending
        <5> QED BY <5>1, LedgerAssumption, FS_Subset, FS_CardinalityType
      <4> QED BY <2>2, <2>3, <3>1, <4>1, EligibleAreCounted, PendingAreCounted DEF WindowIsBounded
    <3>2. CASE ~(real /\ eligible)
      <4>1. Pending' \subseteq Pending
        BY <2>4, <2>5, <3>2 DEF Pending
      <4> QED BY <1>5, <2>2, <4>1
    <3> QED BY <3>1, <3>2
  <2> QED BY <1>4, <2>1, <2>5, <2>6, <2>7
<1>11. ASSUME NEW p \in Reviewers, ReadLast(p)
       PROVE  LedgerInv'
  <2> DEFINE w == [op |-> "capture", row |-> [real |-> work[p].row.real, eligible |-> work[p].row.eligible,
                      sequence |-> Len(observations) + 1, previous |-> Len(observations)]]
  <2>1. work[p] \in Counts /\ work[p].op = "counted"
    BY <1>3, <1>11 DEF ReadLast, NoWork, Captures, Submissions, Works
  <2>2. w \in Captures /\ work' = [work EXCEPT ![p] = w] /\ UNCHANGED <<observations, reviews>>
    BY <1>1, <1>11, <2>1 DEF ReadLast, Counts, Captures, LedgerRows
  <2>3. EligibleReviews' = EligibleReviews
    BY <2>2 DEF EligibleReviews, Observed
  <2>4. /\ w.op = "capture" /\ w.row.sequence = Len(observations) + 1 /\ w.row.previous = Len(observations)
        /\ w.row.real = work[p].row.real /\ w.row.eligible = work[p].row.eligible
        /\ Len(observations) < MaxObservations
    BY <1>11 DEF ReadLast
  <2> HIDE DEF w
  <2>5. work' \in [Reviewers -> Works] /\ work'[p] = w /\ \A q \in Reviewers : q # p => work'[q] = work[q]
    BY <2>2 DEF LedgerInv, LedgerTypes, Works
  <2>6. CaptureInHand(p)'
    BY <1>1, <2>2, <2>4, <2>5 DEF CaptureInHand
  <2>7. ASSUME NEW q \in Reviewers
        PROVE  (work[q].op = "capture" => CaptureInHand(q))' /\ (work[q].op = "review" => ReviewInHand(q))'
    <3>1. CASE q = p
      BY <2>4, <2>5, <2>6, <3>1
    <3>2. CASE q # p
      BY <2>2, <2>5, <3>2 DEF LedgerInv, WorkIsCurrent, CaptureInHand, ReviewInHand
    <3> QED BY <3>1, <3>2
  <2>8. Pending' \subseteq Pending
    BY <2>1, <2>4, <2>5 DEF Pending
  <2> QED BY <1>4, <1>5, <2>2, <2>3, <2>5, <2>7, <2>8 DEF WorkIsCurrent
<1>6. ASSUME NEW p \in Reviewers, InsertObservation(p)
      PROVE  LedgerInv'
  <2> DEFINE w == work[p].row
             n == Len(observations)
  <2>1. work[p] \in Captures /\ CaptureInHand(p)
    BY <1>3, <1>6 DEF InsertObservation, NoWork, Counts, Submissions, Works, LedgerInv, WorkIsCurrent
  <2>2. /\ w \in LedgerRows /\ w.sequence \in 1 .. n + 1 /\ w.sequence <= MaxObservations
        /\ w.previous = w.sequence - 1
        /\ w.real /\ w.eligible => p \in Pending
    BY <2>1 DEF Captures, CaptureInHand, Pending
  <2>3. work' = [work EXCEPT ![p] = NoWork] /\ reviews' = reviews
    BY <1>6 DEF InsertObservation
  <2>4. /\ work' \in [Reviewers -> Works] /\ work'[p] = NoWork
        /\ \A q \in Reviewers : q # p => work'[q] = work[q]
    BY <2>3 DEF LedgerInv, LedgerTypes, Works
  <2>7. Pending' = Pending \ {p}
    BY <2>4 DEF Pending, NoWork
  <2>5. CASE \E r \in Observed : observations[r].sequence = w.sequence
    <3>1. observations' = observations
      BY <1>6, <2>5 DEF InsertObservation
    <3>2. EligibleReviews' = EligibleReviews
      BY <3>1 DEF EligibleReviews, Observed
    <3>3. WorkIsCurrent'
      BY <2>3, <3>1, <3>2 DEF LedgerInv, LedgerTypes, WorkIsCurrent, CaptureInHand, ReviewInHand, NoWork
    <3> QED BY <1>4, <1>5, <2>3, <2>4, <2>7, <3>1, <3>2, <3>3
  <2>6. CASE ~\E r \in Observed : observations[r].sequence = w.sequence
    <3>1. observations' = Append(observations, w)
      BY <1>6, <2>6 DEF InsertObservation
    <3>2. w.sequence = n + 1
      <4>1. SUFFICES ASSUME w.sequence \in 1 .. n PROVE FALSE
        BY <1>1, <2>2
      <4>2. w.sequence \in Observed /\ observations[w.sequence].sequence = w.sequence
        BY <4>1 DEF LedgerInv, ChainValid, Observed
      <4> QED BY <2>6, <4>2
    <3> HIDE DEF w
    <3>3. /\ observations' \in Seq(LedgerRows) /\ Len(observations') = n + 1
          /\ observations'[n + 1] = w /\ \A i \in 1 .. n : observations'[i] = observations[i]
      BY <2>2, <3>1, AppendProperties DEF LedgerInv, LedgerTypes
    <3> HIDE DEF n
    <3>4. n \in Nat /\ n = Len(observations)
      BY <1>1 DEF n
    <3>5. Observed' = 1 .. n + 1 /\ Observed = 1 .. n
      BY <3>3, <3>4 DEF Observed
    <3>6. LedgerTypes'
      BY <2>2, <2>3, <2>4, <3>2, <3>3 DEF LedgerInv, LedgerTypes
    <3>7. ChainValid'
      <4>1. ASSUME NEW i \in 1 .. n + 1
            PROVE  observations'[i].sequence = i /\ observations'[i].previous = i - 1
        <5>1. CASE i = n + 1
          BY <2>2, <3>2, <3>3, <3>4, <5>1
        <5>2. CASE i # n + 1
          <6>1. i \in 1 .. n
            BY <3>4, <5>2
          <6> QED BY <3>3, <3>5, <6>1 DEF LedgerInv, ChainValid
        <5> QED BY <5>1, <5>2
      <4>2. 1 .. n + 1 \subseteq 1 .. MaxObservations
        BY <2>2, <3>2, <3>4
      <4> QED BY <2>3, <3>5, <4>1, <4>2 DEF ChainValid, LedgerInv, RevisionsChained
    <3>8. WindowIsBounded'
      <4>1. EligibleReviews' = IF w.real /\ w.eligible THEN EligibleReviews \cup {n + 1} ELSE EligibleReviews
        BY <3>3, <3>4, <3>5 DEF EligibleReviews
      <4>2. CASE ~(w.real /\ w.eligible)
        BY <1>5, <2>7, <4>1, <4>2
      <4>3. CASE w.real /\ w.eligible
        <5>1. n + 1 \notin EligibleReviews
          BY <3>4, <3>5 DEF EligibleReviews
        <5>2. Cardinality(EligibleReviews') = Cardinality(EligibleReviews) + 1
          BY <4>1, <4>3, <5>1, EligibleAreCounted, FS_AddElement
        <5>3. Cardinality(Pending') = Cardinality(Pending) - 1
          BY <2>2, <2>7, <4>3, PendingAreCounted, FS_RemoveElement
        <5> QED BY <5>2, <5>3, EligibleAreCounted, PendingAreCounted DEF LedgerInv, WindowIsBounded
      <4> QED BY <4>2, <4>3
    <3>9. WorkIsCurrent'
      <4> SUFFICES ASSUME NEW q \in Reviewers
          PROVE  (work[q].op = "capture" => CaptureInHand(q))' /\ (work[q].op = "review" => ReviewInHand(q))'
        BY DEF WorkIsCurrent
      <4>1. CASE q = p
        BY <2>3, <4>1 DEF LedgerInv, LedgerTypes, NoWork
      <4>2. CASE q # p
        BY <2>3, <3>3, <3>4, <4>2 DEF LedgerInv, LedgerTypes, WorkIsCurrent, CaptureInHand, ReviewInHand
      <4> QED BY <4>1, <4>2
    <3> QED BY <2>3, <3>6, <3>7, <3>8, <3>9 DEF LedgerInv, RevisionsChained, StoredAreSound
  <2> QED BY <2>5, <2>6
<1>7. ASSUME NEW p \in Reviewers, NEW r \in Observed, NEW review \in Reviews, CheckReview(p, r, review)
      PROVE  LedgerInv'
  <2> DEFINE w == [op |-> "review", record |-> r,
                   row |-> [status |-> review.status, miss |-> review.miss,
                            cause |-> review.cause, revision |-> Len(reviews[r]) + 1,
                            previous |-> Len(reviews[r])]]
  <2>1. r \in 1 .. MaxObservations /\ Len(reviews[r]) \in Nat
    BY <1>1, <1>2
  <2>2. /\ review.status \in {"confirmed", "ambiguous", "rejected"} /\ review.miss \in Misses
        /\ review.cause \in Causes \cup {"none"}
    BY DEF Reviews, Misses
  <2>3. w \in Submissions /\ work' = [work EXCEPT ![p] = w] /\ UNCHANGED <<observations, reviews>>
    BY <1>7, <2>1, <2>2 DEF CheckReview, Submissions, Revisions
  <2>4. Blames(review)
    BY <1>7 DEF CheckReview, Acceptable, Consistent, Blames
  <2>5. /\ w.op = "review" /\ w.record = r /\ w.row.revision = Len(reviews[r]) + 1
        /\ w.row.previous = Len(reviews[r]) /\ Blames(w.row)
    BY <2>4 DEF Blames
  <2> HIDE DEF w
  <2>6. /\ work' \in [Reviewers -> Works] /\ work'[p] = w
        /\ \A q \in Reviewers : q # p => work'[q] = work[q]
    BY <2>3 DEF LedgerInv, LedgerTypes, Works
  <2>9. Pending' \subseteq Pending
    BY <2>5, <2>6 DEF Pending
  <2>7. EligibleReviews' = EligibleReviews
    BY <2>3 DEF EligibleReviews, Observed
  <2>8. ASSUME NEW q \in Reviewers
        PROVE  (work[q].op = "capture" => CaptureInHand(q))' /\ (work[q].op = "review" => ReviewInHand(q))'
    <3>1. CASE q = p
      <4>1. work'[q] = w
        BY <2>3, <3>1 DEF LedgerInv, LedgerTypes
      <4>2. ReviewInHand(p)'
        BY <2>1, <2>3, <2>5, <3>1, <4>1 DEF ReviewInHand, Blames
      <4> QED BY <2>5, <3>1, <4>1, <4>2
    <3>2. CASE q # p
      BY <2>3, <2>7, <3>2 DEF LedgerInv, LedgerTypes, WorkIsCurrent, CaptureInHand, ReviewInHand
    <3> QED BY <3>1, <3>2
  <2> QED BY <1>4, <1>5, <2>3, <2>6, <2>7, <2>8, <2>9 DEF WorkIsCurrent
<1>8. ASSUME NEW p \in Reviewers, InsertReview(p)
      PROVE  LedgerInv'
  <2> DEFINE w == work[p].row
             r == work[p].record
             n == Len(reviews[r])
  <2>1. work[p] \in Submissions /\ ReviewInHand(p)
    BY <1>3, <1>8 DEF InsertReview, NoWork, Counts, Captures, Works, LedgerInv, WorkIsCurrent
  <2>2. /\ w \in Revisions /\ r \in 1 .. MaxObservations /\ w.revision \in 1 .. n + 1
        /\ w.previous = w.revision - 1 /\ Blames(w)
    BY <2>1 DEF Submissions, ReviewInHand
  <2>3. work' = [work EXCEPT ![p] = NoWork] /\ observations' = observations
    BY <1>8 DEF InsertReview
  <2>4. /\ work' \in [Reviewers -> Works] /\ work'[p] = NoWork
        /\ \A q \in Reviewers : q # p => work'[q] = work[q]
    BY <2>3 DEF LedgerInv, LedgerTypes, Works
  <2>5. EligibleReviews' = EligibleReviews /\ Observed' = Observed
    BY <2>3 DEF EligibleReviews, Observed
  <2>8. WindowIsBounded'
    <3>1. Pending' \subseteq Pending
      BY <2>4 DEF Pending, NoWork
    <3> QED BY <1>5, <2>5, <3>1
  <2>6. CASE TakenRevision(r, w.revision)
    <3>1. reviews' = reviews
      BY <1>8, <2>6 DEF InsertReview
    <3>2. WorkIsCurrent'
      BY <2>3, <2>5, <3>1 DEF LedgerInv, LedgerTypes, WorkIsCurrent, CaptureInHand, ReviewInHand, NoWork
    <3> QED BY <1>4, <2>3, <2>4, <2>8, <3>1, <3>2
  <2>7. CASE ~TakenRevision(r, w.revision)
    <3>1. reviews' = [reviews EXCEPT ![r] = Append(@, w)]
      BY <1>8, <2>7 DEF InsertReview
    <3> HIDE DEF w, r
    <3>2. reviews[r] \in Seq(Revisions) /\ n \in Nat
      BY <1>1, <2>2 DEF LedgerInv, LedgerTypes
    <3>3. reviews'[r] = Append(reviews[r], w) /\ \A q \in 1 .. MaxObservations : q # r => reviews'[q] = reviews[q]
      BY <2>2, <3>1 DEF LedgerInv, LedgerTypes
    <3>4. /\ reviews'[r] \in Seq(Revisions) /\ Len(reviews'[r]) = n + 1
          /\ reviews'[r][n + 1] = w /\ \A i \in 1 .. n : reviews'[r][i] = reviews[r][i]
      BY <2>2, <3>2, <3>3, AppendProperties
    <3>5. LedgerTypes'
      BY <2>2, <2>3, <2>4, <3>1, <3>4 DEF LedgerInv, LedgerTypes
    <3>6. \A q \in 1 .. MaxObservations : q # r => Len(reviews'[q]) = Len(reviews[q])
      BY <3>3
    <3>7. w.revision = n + 1
      <4>1. SUFFICES ASSUME w.revision \in 1 .. n PROVE FALSE
        BY <2>2, <3>2
      <4>2. reviews[r][w.revision].revision = w.revision
        BY <2>2, <4>1 DEF LedgerInv, RevisionsChained
      <4> QED BY <2>7, <4>1, <4>2 DEF TakenRevision
    <3> HIDE DEF n
    <3>8. n \in Nat /\ n = Len(reviews[r])
      BY <3>2 DEF n
    <3>9. RevisionsChained'
      <4> SUFFICES ASSUME NEW q \in 1 .. MaxObservations, NEW i \in 1 .. Len(reviews'[q])
                   PROVE  reviews'[q][i].revision = i /\ reviews'[q][i].previous = i - 1
        BY DEF RevisionsChained
      <4>1. CASE q = r /\ i = n + 1
        BY <2>2, <3>4, <3>7, <3>8, <4>1
      <4>2. CASE q = r /\ i # n + 1
        <5>1. i \in 1 .. n
          BY <3>4, <3>8, <4>2
        <5> QED BY <2>2, <3>4, <3>8, <4>2, <5>1 DEF LedgerInv, RevisionsChained
      <4>3. CASE q # r
        BY <3>3, <4>3 DEF LedgerInv, RevisionsChained
      <4> QED BY <4>1, <4>2, <4>3
    <3>10. StoredAreSound'
      <4> SUFFICES ASSUME NEW q \in 1 .. MaxObservations, NEW i \in 1 .. Len(reviews'[q])
                   PROVE  Blames(reviews'[q][i])
        BY DEF StoredAreSound, Blames
      <4>1. CASE q = r /\ i = n + 1
        BY <2>2, <3>4, <4>1
      <4>2. CASE q = r /\ i # n + 1
        <5>1. i \in 1 .. n
          BY <3>4, <3>8, <4>2
        <5> QED BY <2>2, <3>4, <3>8, <4>2, <5>1 DEF LedgerInv, StoredAreSound
      <4>3. CASE q # r
        BY <3>3, <4>3 DEF LedgerInv, StoredAreSound
      <4> QED BY <4>1, <4>2, <4>3
    <3>11. \A q \in 1 .. MaxObservations : Len(reviews[q]) <= Len(reviews'[q]) /\ Len(reviews'[q]) \in Nat
      <4> SUFFICES ASSUME NEW q \in 1 .. MaxObservations
                   PROVE  Len(reviews[q]) <= Len(reviews'[q]) /\ Len(reviews'[q]) \in Nat
        OBVIOUS
      <4>1. CASE q = r
        BY <3>4, <3>8, <4>1
      <4>2. CASE q # r
        BY <1>1, <3>6, <4>2
      <4> QED BY <4>1, <4>2
    <3>12. WorkIsCurrent'
      <4> SUFFICES ASSUME NEW q \in Reviewers
          PROVE  (work[q].op = "capture" => CaptureInHand(q))' /\ (work[q].op = "review" => ReviewInHand(q))'
        BY DEF WorkIsCurrent
      <4>1. CASE q = p
        BY <2>3, <4>1 DEF LedgerInv, LedgerTypes, NoWork
      <4>2. CASE q # p
        <5>1. work'[q] = work[q]
          BY <2>3, <4>2 DEF LedgerInv, LedgerTypes
        <5>2. work[q].op = "capture" => CaptureInHand(q)'
          BY <2>3, <2>5, <5>1 DEF LedgerInv, WorkIsCurrent, CaptureInHand
        <5>3. ASSUME work[q].op = "review" PROVE ReviewInHand(q)'
          <6>1. work[q] \in Submissions /\ ReviewInHand(q)
            BY <1>3, <5>3 DEF NoWork, Counts, Captures, Works, LedgerInv, WorkIsCurrent
          <6>2. work[q].record \in 1 .. MaxObservations /\ work[q].row.revision \in Nat
            BY <6>1 DEF Submissions, Revisions
          <6>3. work[q].row.revision \in 1 .. Len(reviews'[work[q].record]) + 1
            <7> DEFINE k == work[q].record
                       old == Len(reviews[k])
                       new == Len(reviews'[k])
            <7>1. old \in Nat /\ new \in Nat /\ old <= new
              BY <1>1, <3>11, <6>2
            <7>2. work[q].row.revision \in 1 .. old + 1
              BY <6>1 DEF ReviewInHand
            <7> HIDE DEF old, new
            <7> QED BY <6>2, <7>1, <7>2 DEF new
          <6> QED BY <5>1, <6>1, <6>3 DEF ReviewInHand, Blames
        <5> QED BY <5>1, <5>2, <5>3
      <4> QED BY <4>1, <4>2
    <3>13. ChainValid'
      BY <1>2, <2>3, <2>5, <3>9 DEF LedgerInv, ChainValid, RevisionsChained
    <3> QED BY <2>8, <3>5, <3>9, <3>10, <3>12, <3>13 DEF LedgerInv
  <2> QED BY <2>6, <2>7
<1>9. CASE UNCHANGED ledgerVars
  <2>1. UNCHANGED <<observations, reviews, work>>
    BY <1>9 DEF ledgerVars
  <2>2. WorkIsCurrent'
    BY <2>1 DEF LedgerInv, WorkIsCurrent, CaptureInHand, ReviewInHand, EligibleReviews, Observed
  <2>3. EligibleReviews' = EligibleReviews /\ Pending' \subseteq Pending
    BY <2>1 DEF EligibleReviews, Observed, Pending
  <2> QED BY <1>4, <1>5, <2>1, <2>2, <2>3 DEF LedgerInv, LedgerTypes
<1> QED BY <1>6, <1>7, <1>8, <1>9, <1>10, <1>11 DEF LedgerNext

(* However the statements of the processes interleave, the ledger's chain   *)
(* verifies, the frozen window is exceeded by no more questions than other  *)
(* processes had counted before it was full, and a review that blames the   *)
(* graph is of a paper the corpus had                                       *)
(* (M9P0Store.capture, review, verify_integrity, public_report).            *)
THEOREM LedgerIsValid == LedgerSpec => []LedgerStaysValid
<1>1. LedgerInv => LedgerStaysValid
  <2> SUFFICES ASSUME LedgerInv PROVE LedgerStaysValid
    OBVIOUS
  <2>1. ASSUME NEW r \in Reviewed, LastReview(r).status = "confirmed", LastReview(r).cause \in GraphCauses
        PROVE  r \in CorpusMisses
    <3>1. r \in 1 .. MaxObservations /\ reviews[r] \in Seq(Revisions) /\ reviews[r] # <<>>
      <4>1. Len(observations) \in Nat
        BY LenProperties DEF LedgerInv, LedgerTypes
      <4> QED BY <4>1, LedgerAssumption DEF Reviewed, EligibleReviews, Observed, LedgerInv, LedgerTypes
    <3>2. Len(reviews[r]) \in 1 .. Len(reviews[r])
      BY <3>1, LenProperties, EmptySeq
    <3>3. Blames(LastReview(r))
      BY <3>1, <3>2 DEF LedgerInv, StoredAreSound, LastReview
    <3> QED BY <2>1, <3>3 DEF Blames, CorpusMisses, Missed
  <2>2. Cardinality(EligibleReviews) >= MaxWindow /\ Reviewed = EligibleReviews => P0Decision # "COLLECT_MORE"
    BY DEF LedgerInv, P0Decision, WindowFull
  <2>3. Cardinality(EligibleReviews) <= MaxWindow + (Cardinality(Reviewers) - 1)
    BY EligibleAreCounted, PendingAreCounted, LedgerAssumption DEF LedgerInv, WindowIsBounded
  <2> QED BY <2>1, <2>2, <2>3 DEF LedgerInv, LedgerStaysValid
<1> QED
  BY <1>1, LedgerInitially, LedgerPreserved, PTL DEF LedgerSpec

-----------------------------------------------------------------------------
(* The paired run: any questions, claims, prices and restarts.             *)

LEMMA MinIsMember ==
    ASSUME NEW S \in SUBSET Nat, S # {}
    PROVE  Min(S) \in S /\ \A y \in S : Min(S) <= y
BY LeastNumber DEF Min

Counters == [calls : Nat, reserved : Nat, actual : Nat]
Places == {"down", "verify", "ask", "asked", "reports", "request", "requested", "archived", "packed"}

PairedTypes ==
    /\ verifierFile = [counter |-> verifierFile.counter, active |-> verifierFile.active,
                       verdicts |-> verifierFile.verdicts]
    /\ reportFile = [exists |-> reportFile.exists, counter |-> reportFile.counter,
                     active |-> reportFile.active, manifest |-> reportFile.manifest,
                     rows |-> reportFile.rows]
    /\ verifierFile.counter \in Counters /\ reportFile.counter \in Counters
    /\ DOMAIN reportFile.rows \subseteq Jobs
    /\ \A j \in DOMAIN reportFile.rows : reportFile.rows[j].cost \in Nat
    /\ at \in Places /\ price \in Nat
    /\ callsSent \in [Jobs -> Nat]
    /\ pairSpent \in [verifier : Nat, reports : Nat]

\* Reserved before it is sent: what is on its way is covered too.
AsksCovered ==
    /\ pairSpent.verifier <= verifierFile.counter.reserved
    /\ at = "ask" => pairSpent.verifier + AskEstimate <= verifierFile.counter.reserved
    /\ verifierFile.counter.reserved <= MaxAskedCost
ReportsCovered ==
    /\ pairSpent.reports <= reportFile.counter.reserved
    /\ at = "request" => pairSpent.reports + ReportEstimate <= reportFile.counter.reserved
    /\ reportFile.counter.reserved <= MaxReportCost

\* While no report is lost, the rows say what was paid.
GraphedCost == VariantCost(TRUE, reportFile.rows)
PlainCost == VariantCost(FALSE, reportFile.rows)
RowsCost == GraphedCost + PlainCost
RowsArePaid ==
    /\ reportFile.active = Nobody \/ at = "request" => pairSpent.reports = RowsCost
    /\ at = "requested" => pairSpent.reports = RowsCost + price

\* The report marked active is the one being served, or one that a crash lost.
ActiveIsServed ==
    /\ reportFile.active = Nobody \/ reportFile.active \in UnservedJobs
    /\ at \in {"request", "requested"} =>
          UnservedJobs # {} /\ reportFile.active = ThisJob /\ GraphIsSettled
    /\ at \in {"reports", "archived", "packed"} => reportFile.active = Nobody
    /\ at \in {"reports", "request", "requested", "archived", "packed"} => reportFile.exists
    /\ ~reportFile.exists => reportFile = NoReportFile

\* A request went out for the rows and at most for the active report.
RequestsSent ==
    /\ \A j \in Jobs :
           /\ j \in DOMAIN reportFile.rows => callsSent[j] = 1
           /\ j \in UnservedJobs /\ (j # reportFile.active \/ at = "request") => callsSent[j] = 0
           /\ callsSent[j] <= 1
    /\ at = "requested" => callsSent[reportFile.active] = 1

\* The graph is asked for the reports of the eligible questions.
Asks(j) == WithGraph(j) /\ Route(Scope[PairOf(j)]) = "call"
GraphIsOfJob ==
    /\ graph # NoGraph => /\ at \in {"reports", "request", "requested"}
                          /\ UnservedJobs # {} /\ Asks(ThisJob)
    /\ \A j \in DOMAIN reportFile.rows : reportFile.rows[j].called <=> Asks(j)

\* A finished run is never started again.
OutputsAreFinal ==
    /\ at # "down" => RoutesAreFrozen
    /\ "private_run" \in outputs => at \in {"down", "archived", "packed"}
    /\ at \in {"archived", "packed"} => "private_run" \in outputs /\ UnservedJobs = {}
    /\ "passed" \in outputs => /\ "private_run" \in outputs /\ at = "down" /\ RoutesAreFrozen
                               /\ UnservedJobs = {} /\ reportFile.active = Nobody

PairedInv == PairedTypes /\ AsksCovered /\ ReportsCovered /\ RowsArePaid /\ ActiveIsServed
             /\ RequestsSent /\ GraphIsOfJob /\ OutputsAreFinal

LEMMA JobsAreNumbers ==
    /\ Cardinality(Pairs) \in Nat /\ Jobs \subseteq Nat \ {0} /\ IsFiniteSet(Jobs)
    /\ UnservedJobs \subseteq Jobs
    /\ UnservedJobs # {} => ThisJob \in UnservedJobs
<1>1. Cardinality(Pairs) \in Nat
  BY PairedAssumption, FS_CardinalityType
<1>2. IsFiniteSet(Jobs) /\ Jobs \subseteq Nat \ {0}
  <2>1. 1 \in Int /\ 2 * Cardinality(Pairs) \in Int
    BY <1>1
  <2>2. IsFiniteSet(Jobs)
    BY <2>1, FS_Interval DEF Jobs
  <2> QED BY <2>1, <2>2 DEF Jobs
<1>3. UnservedJobs \subseteq Jobs
  BY DEF UnservedJobs
<1>4. UnservedJobs # {} => ThisJob \in UnservedJobs
  BY <1>2, <1>3, MinIsMember DEF ThisJob
<1> QED BY <1>1, <1>2, <1>3, <1>4

\* The rows of a variant are some of the rows, and adding a row adds its cost to its variant.
LEMMA CostsAreNumbers ==
    ASSUME NEW r, DOMAIN r \subseteq Jobs, \A j \in DOMAIN r : r[j].cost \in Nat, NEW g
    PROVE  VariantCost(g, r) \in Nat
<1> DEFINE S == DOMAIN r \cap JobsOf(g)
<1>1. IsFiniteSet(S)
  BY JobsAreNumbers, FS_Subset
<1> QED BY <1>1, SumType DEF VariantCost, SumFunction

LEMMA RowAddsItsCost ==
    ASSUME NEW r, DOMAIN r \subseteq Jobs, \A j \in DOMAIN r : r[j].cost \in Nat,
           NEW t \in Jobs, t \notin DOMAIN r, NEW new, new.cost \in Nat,
           NEW e, e = [j \in DOMAIN r \cup {t} |-> IF j = t THEN new ELSE r[j]], NEW g
    PROVE  VariantCost(g, e) = IF t \in JobsOf(g) THEN VariantCost(g, r) + new.cost
                               ELSE VariantCost(g, r)
<1> DEFINE S == DOMAIN r \cap JobsOf(g)
           T == DOMAIN e \cap JobsOf(g)
           f == [j \in S |-> r[j].cost]
           h == [j \in T |-> e[j].cost]
<1>1. IsFiniteSet(S) /\ t \notin S
  BY JobsAreNumbers, FS_Subset
<1>2. VariantCost(g, r) = SumFunctionOnSet(f, S) /\ VariantCost(g, e) = SumFunctionOnSet(h, T)
  BY DEF VariantCost, SumFunction
<1>3. T = IF t \in JobsOf(g) THEN S \cup {t} ELSE S
  OBVIOUS
<1>4. (\A j \in S : h[j] = f[j] /\ h[j] \in Nat) /\ (t \in JobsOf(g) => h[t] = new.cost)
  OBVIOUS
<1> HIDE DEF S, T, f, h
<1>5. SumFunctionOnSet(h, S) = SumFunctionOnSet(f, S) /\ SumFunctionOnSet(f, S) \in Int
  BY <1>1, <1>4, SumSame, SumType
<1>6. CASE t \in JobsOf(g)
  <2>1. SumFunctionOnSet(h, S \cup {t}) = h[t] + SumFunctionOnSet(h, S)
    BY <1>1, <1>4, <1>6, SumAdd
  <2> QED BY <1>2, <1>3, <1>4, <1>5, <1>6, <2>1
<1>7. CASE t \notin JobsOf(g)
  BY <1>2, <1>3, <1>5, <1>7
<1> QED BY <1>6, <1>7

LEMMA PairedInitially == PairedInit => PairedInv
<1> SUFFICES ASSUME PairedInit PROVE PairedInv
  OBVIOUS
<1>1. DOMAIN reportFile.rows = {} /\ UnservedJobs = Jobs
  BY DEF PairedInit, NoReportFile, UnservedJobs
<1>2. PairedTypes
  BY <1>1 DEF PairedInit, PairedTypes, FirstVerifierFile, NoReportFile, ZeroCounter, Counters, Places
<1>3. AsksCovered /\ ReportsCovered
  BY PairedAssumption DEF PairedInit, AsksCovered, ReportsCovered, FirstVerifierFile, NoReportFile, ZeroCounter
<1>4. RowsArePaid
  <2>1. ASSUME NEW g PROVE VariantCost(g, reportFile.rows) = 0
    <3>1. DOMAIN reportFile.rows \cap JobsOf(g) = {}
      BY <1>1
    <3> QED BY <3>1, SumEmpty DEF VariantCost, SumFunction
  <2>2. GraphedCost = 0 /\ PlainCost = 0
    BY <2>1, Zenon DEF GraphedCost, PlainCost
  <2>3. RowsCost = 0
    BY <2>2 DEF RowsCost
  <2> QED BY <2>3 DEF PairedInit, RowsArePaid
<1>5. ActiveIsServed /\ RequestsSent /\ GraphIsOfJob /\ OutputsAreFinal
  BY <1>1, JobsAreNumbers
  DEF PairedInit, ActiveIsServed, RequestsSent, GraphIsOfJob, OutputsAreFinal, NoReportFile, Nobody, NoGraph
<1> QED BY <1>2, <1>3, <1>4, <1>5 DEF PairedInv

\* A reservation that fits keeps the counter inside its budget.
LEMMA ReservationFits ==
    ASSUME NEW c \in Counters, NEW estimate \in Nat, NEW maxCalls, NEW maxCost \in Nat,
           CanReserve(c, estimate, maxCalls, maxCost)
    PROVE  /\ ReserveCall(c, estimate) \in Counters
           /\ ReserveCall(c, estimate).reserved = c.reserved + estimate
           /\ c.reserved + estimate <= maxCost
<1>1. c.reserved \in Nat /\ c.actual \in Nat /\ c.calls \in Nat
  BY DEF Counters
<1>2. c.reserved + estimate <= maxCost
  BY <1>1 DEF CanReserve, Greater
<1>3. ReserveCall(c, estimate) \in Counters
  BY <1>1 DEF ReserveCall, Counters
<1> QED BY <1>2, <1>3 DEF ReserveCall

\* A step that leaves the report file alone leaves what is said of its rows alone.
LEMMA SameRows ==
    reportFile' = reportFile =>
        /\ UnservedJobs' = UnservedJobs /\ ThisJob' = ThisJob /\ RowsCost' = RowsCost
        /\ Asks(ThisJob)' = Asks(ThisJob)
        /\ \A j : Asks(j)' = Asks(j)
        /\ RoutesAreFrozen' = RoutesAreFrozen
BY DEF UnservedJobs, ThisJob, RowsCost, GraphedCost, PlainCost, Asks, RoutesAreFrozen

LEMMA PairedPreserved == PairedInv /\ [PairedNext]_pairedVars => PairedInv'
<1> SUFFICES ASSUME PairedInv, [PairedNext]_pairedVars PROVE PairedInv'
  OBVIOUS
<1> USE DEF Nobody, NoGraph
\* Nothing but the place changes, or the verifier's side.
<1>1. ASSUME UNCHANGED <<reportFile, callsSent>>, pairSpent'.reports = pairSpent.reports,
             at \in {"down", "verify", "ask", "asked"} \/ at' = "down",
             at' \in {"down", "verify", "ask", "asked"},
             outputs' = outputs, graph' = IF at' = "down" THEN NoGraph ELSE graph,
             at' # "down" => RoutesAreFrozen, at = "down" /\ at' # "down" => "private_run" \notin outputs,
             PairedTypes', AsksCovered'
      PROVE  PairedInv'
  <2>1. ReportsCovered' /\ RowsArePaid'
    BY <1>1, SameRows DEF PairedInv, ReportsCovered, RowsArePaid
  <2>2. ActiveIsServed' /\ RequestsSent'
    BY <1>1, SameRows DEF PairedInv, ActiveIsServed, RequestsSent
  <2>3. GraphIsOfJob'
    BY <1>1, SameRows DEF PairedInv, GraphIsOfJob
  <2>4. OutputsAreFinal'
    BY <1>1, SameRows DEF PairedInv, OutputsAreFinal
  <2> QED BY <1>1, <2>1, <2>2, <2>3, <2>4 DEF PairedInv
<1>2. CASE StartRun
  <2>1. PairedTypes' /\ AsksCovered'
    BY <1>2 DEF StartRun, PairedInv, PairedTypes, AsksCovered, history, Places
  <2> QED BY <1>1, <1>2, <2>1 DEF StartRun, history
<1>3. CASE Die
  <2>1. PairedTypes' /\ AsksCovered'
    BY <1>3 DEF Die, Exit, PairedInv, PairedTypes, AsksCovered, history, Places
  <2> QED BY <1>1, <1>3, <2>1 DEF Die, Exit, history
\* The verifier.
<1>4. PairedTypes /\ AsksCovered /\ pairSpent.reports \in Nat /\ pairSpent.verifier \in Nat
      /\ verifierFile.counter \in Counters
  BY DEF PairedInv, PairedTypes
<1>5. CASE VerdictWithoutCall
  <2>1. PairedTypes' /\ AsksCovered'
    BY <1>4, <1>5 DEF VerdictWithoutCall, PairedTypes, AsksCovered, history
  <2>2. RoutesAreFrozen
    BY <1>5 DEF VerdictWithoutCall, PairedInv, OutputsAreFinal
  <2> QED BY <1>1, <1>5, <2>1, <2>2 DEF VerdictWithoutCall, history
<1>6. CASE ReserveAsk
  <2> DEFINE c == ReserveCall(verifierFile.counter, AskEstimate)
  <2>1. /\ c \in Counters /\ c.reserved = verifierFile.counter.reserved + AskEstimate
        /\ c.reserved <= MaxAskedCost
    BY <1>4, <1>6, PairedAssumption, ReservationFits DEF ReserveAsk
  <2> HIDE DEF c
  <2>2. /\ verifierFile' = [verifierFile EXCEPT !.active = ThisClaim, !.counter = c]
        /\ at = "verify" /\ at' = "ask"
        /\ UNCHANGED <<reportFile, outputs, graph, price, runs, callsSent, pairSpent>>
    BY <1>6 DEF ReserveAsk, history, c
  <2>3. PairedTypes'
    BY <1>4, <2>1, <2>2 DEF PairedTypes, Places
  <2>4. AsksCovered'
    BY <1>4, <2>1, <2>2, PairedAssumption DEF PairedTypes, AsksCovered, Counters
  <2>5. RoutesAreFrozen
    BY <2>2 DEF PairedInv, OutputsAreFinal
  <2> QED BY <1>1, <2>2, <2>3, <2>4, <2>5
<1>7. CASE SendAsk
  <2>1. PICK p \in Prices : price' = p /\ pairSpent' = [pairSpent EXCEPT !.verifier = @ + p]
    BY <1>7 DEF SendAsk
  <2>2. p \in Nat /\ p <= AskEstimate
    BY PairedAssumption
  <2>3. /\ at = "ask" /\ at' = "asked"
        /\ UNCHANGED <<verifierFile, reportFile, outputs, graph, runs, callsSent>>
    BY <1>7 DEF SendAsk
  <2>4. /\ pairSpent' \in [verifier : Nat, reports : Nat] /\ pairSpent'.reports = pairSpent.reports
        /\ pairSpent'.verifier = pairSpent.verifier + p
    BY <1>4, <2>1, <2>2 DEF PairedTypes
  <2>5. PairedTypes'
    BY <1>4, <2>1, <2>2, <2>3, <2>4 DEF PairedTypes, Places
  <2>6. AsksCovered'
    BY <1>4, <2>2, <2>3, <2>4, PairedAssumption DEF AsksCovered, Counters
  <2>7. RoutesAreFrozen
    BY <2>3 DEF PairedInv, OutputsAreFinal
  <2> QED BY <1>1, <2>3, <2>4, <2>5, <2>6, <2>7
<1>8. ASSUME NEW verdict \in Draft, AnswerAsk(verdict) PROVE PairedInv'
  <2> DEFINE c == RecordActual(verifierFile.counter, price)
             v == [d \in DOMAIN verifierFile.verdicts \cup {ThisClaim} |->
                      IF d = ThisClaim THEN verdict ELSE verifierFile.verdicts[d]]
  <2>1. c \in Counters /\ c.reserved = verifierFile.counter.reserved
    BY <1>4 DEF RecordActual, Counters, PairedTypes
  <2>2. /\ verifierFile' = [verifierFile EXCEPT !.active = 0, !.counter = c, !.verdicts = v]
        /\ at = "asked" /\ at' = "verify" /\ price' = 0
        /\ UNCHANGED <<reportFile, outputs, graph, runs, callsSent, pairSpent>>
    BY <1>8 DEF AnswerAsk, history
  <2> HIDE DEF c, v
  <2>3. PairedTypes'
    BY <1>4, <2>1, <2>2 DEF PairedTypes, Places
  <2>4. AsksCovered'
    BY <1>4, <2>1, <2>2 DEF AsksCovered, PairedTypes
  <2>5. RoutesAreFrozen
    BY <2>2 DEF PairedInv, OutputsAreFinal
  <2> QED BY <1>1, <2>2, <2>3, <2>4, <2>5
\* The reports.
<1>9. /\ ReportsCovered /\ RowsArePaid /\ ActiveIsServed /\ RequestsSent /\ GraphIsOfJob
      /\ OutputsAreFinal /\ reportFile.counter \in Counters /\ price \in Nat
      /\ verifierFile.counter \in Counters
  BY DEF PairedInv, PairedTypes
<1>10. CASE OpenReports
  <2>1. CASE UNCHANGED reportFile /\ reportFile.active = 0 /\ reportFile.exists
    <3>1. PairedTypes' /\ AsksCovered'
      BY <1>4, <1>10, <2>1 DEF OpenReports, PairedTypes, AsksCovered, history, Places
    <3>2. ReportsCovered' /\ RowsArePaid'
      BY <1>9, <1>10, <2>1, SameRows DEF OpenReports, ReportsCovered, RowsArePaid, history
    <3>3. ActiveIsServed' /\ RequestsSent'
      BY <1>9, <1>10, <2>1, SameRows DEF OpenReports, ActiveIsServed, RequestsSent, history
    <3>4. GraphIsOfJob' /\ OutputsAreFinal'
      BY <1>9, <1>10, <2>1, SameRows DEF OpenReports, GraphIsOfJob, OutputsAreFinal, history
    <3> QED BY <3>1, <3>2, <3>3, <3>4 DEF PairedInv
  <2>2. CASE ~reportFile.exists /\ reportFile' = [NoReportFile EXCEPT !.exists = TRUE, !.manifest = Manifest]
    <3>1. reportFile = NoReportFile
      BY <1>9, <2>2 DEF ActiveIsServed
    <3>2. /\ reportFile'.rows = reportFile.rows /\ reportFile'.counter = reportFile.counter
          /\ reportFile'.active = reportFile.active /\ reportFile.active = 0 /\ reportFile'.exists
          /\ reportFile' = [exists |-> reportFile'.exists, counter |-> reportFile'.counter,
                            active |-> reportFile'.active, manifest |-> reportFile'.manifest,
                            rows |-> reportFile'.rows]
      BY <2>2, <3>1 DEF NoReportFile
    <3>3. UnservedJobs' = UnservedJobs /\ ThisJob' = ThisJob /\ RowsCost' = RowsCost
      BY <3>2 DEF UnservedJobs, ThisJob, RowsCost, GraphedCost, PlainCost
    <3>4. /\ at = "verify" /\ at' = "reports"
          /\ UNCHANGED <<verifierFile, outputs, graph, price, runs, callsSent, pairSpent>>
      BY <1>10 DEF OpenReports, history
    <3>5. PairedTypes' /\ AsksCovered'
      BY <1>4, <3>2, <3>4 DEF PairedTypes, AsksCovered, Places
    <3>6. ReportsCovered' /\ RowsArePaid'
      BY <1>9, <3>2, <3>3, <3>4 DEF ReportsCovered, RowsArePaid
    <3>7. ActiveIsServed' /\ RequestsSent'
      BY <1>9, <3>2, <3>3, <3>4 DEF ActiveIsServed, RequestsSent
    <3>8. GraphIsOfJob' /\ OutputsAreFinal'
      BY <1>9, <3>2, <3>3, <3>4 DEF GraphIsOfJob, OutputsAreFinal, Asks, RoutesAreFrozen
    <3> QED BY <3>5, <3>6, <3>7, <3>8 DEF PairedInv
  <2> QED BY <1>10, <2>1, <2>2 DEF OpenReports, MayContinue
<1>11. CASE QueryGraph
  <2>1. /\ at = "reports" /\ UnservedJobs # {} /\ Asks(ThisJob)
        /\ UNCHANGED <<verifierFile, reportFile, outputs, at, price, runs, callsSent, pairSpent>>
    BY <1>11 DEF QueryGraph, Asks
  <2>2. PairedTypes' /\ AsksCovered'
    BY <1>4, <2>1 DEF PairedTypes, AsksCovered
  <2>3. ReportsCovered' /\ RowsArePaid'
    BY <1>9, <2>1, SameRows DEF ReportsCovered, RowsArePaid
  <2>4. ActiveIsServed' /\ RequestsSent'
    BY <1>9, <2>1, SameRows DEF ActiveIsServed, RequestsSent
  <2>5. GraphIsOfJob' /\ OutputsAreFinal'
    BY <1>9, <2>1, SameRows DEF GraphIsOfJob, OutputsAreFinal
  <2> QED BY <2>2, <2>3, <2>4, <2>5 DEF PairedInv
<1>12. CASE ReserveReport
  <2> DEFINE c == ReserveCall(reportFile.counter, ReportEstimate)
  <2>1. /\ c \in Counters /\ c.reserved = reportFile.counter.reserved + ReportEstimate
        /\ c.reserved <= MaxReportCost
    BY <1>9, <1>12, PairedAssumption, ReservationFits DEF ReserveReport
  <2> HIDE DEF c
  <2>2. /\ reportFile' = [reportFile EXCEPT !.active = ThisJob, !.counter = c]
        /\ at = "reports" /\ at' = "request" /\ UnservedJobs # {} /\ GraphIsSettled
        /\ UNCHANGED <<verifierFile, outputs, graph, price, runs, callsSent, pairSpent>>
    BY <1>12 DEF ReserveReport, history, c
  <2>3. /\ reportFile'.rows = reportFile.rows /\ reportFile'.counter = c
        /\ reportFile'.active = ThisJob /\ reportFile'.exists = reportFile.exists
        /\ reportFile' = [exists |-> reportFile'.exists, counter |-> reportFile'.counter,
                            active |-> reportFile'.active, manifest |-> reportFile'.manifest,
                            rows |-> reportFile'.rows]
    BY <1>4, <2>2 DEF PairedTypes
  <2>4. UnservedJobs' = UnservedJobs /\ ThisJob' = ThisJob /\ RowsCost' = RowsCost
    BY <2>3 DEF UnservedJobs, ThisJob, RowsCost, GraphedCost, PlainCost
  <2>5. ThisJob \in UnservedJobs
    BY <2>2, JobsAreNumbers
  <2>6. PairedTypes' /\ AsksCovered'
    BY <1>4, <2>1, <2>2, <2>3 DEF PairedTypes, AsksCovered, Places
  <2>7. ReportsCovered'
    <3>1. pairSpent' = pairSpent /\ reportFile'.counter.reserved = c.reserved
      BY <2>2, <2>3
    <3>2. pairSpent.reports \in Nat /\ reportFile.counter.reserved \in Nat /\ ReportEstimate \in Nat
      BY <1>4, PairedAssumption DEF PairedTypes, Counters
    <3>3. pairSpent.reports <= reportFile.counter.reserved
      BY <1>9 DEF ReportsCovered
    <3>4. /\ pairSpent.reports <= c.reserved /\ c.reserved <= MaxReportCost
          /\ pairSpent.reports + ReportEstimate <= c.reserved
      BY <2>1, <3>2, <3>3
    <3> QED BY <3>1, <3>4 DEF ReportsCovered
  <2>8. RowsArePaid'
    BY <1>9, <2>2, <2>3, <2>4 DEF RowsArePaid, ActiveIsServed
  <2>9. ActiveIsServed'
    BY <1>9, <2>2, <2>3, <2>4, <2>5 DEF ActiveIsServed, GraphIsSettled
  <2>10. RequestsSent'
    BY <1>9, <2>2, <2>3, <2>4, <2>5, JobsAreNumbers DEF RequestsSent, ActiveIsServed
  <2>11. GraphIsOfJob' /\ OutputsAreFinal'
    BY <1>9, <2>2, <2>3, <2>4 DEF GraphIsOfJob, OutputsAreFinal, Asks, RoutesAreFrozen
  <2> QED BY <2>6, <2>7, <2>8, <2>9, <2>10, <2>11 DEF PairedInv
<1>13. CASE SendReport
  <2>1. PICK p \in Prices : price' = p /\ pairSpent' = [pairSpent EXCEPT !.reports = @ + p]
    BY <1>13 DEF SendReport
  <2>2. p \in Nat /\ p <= ReportEstimate
    BY PairedAssumption
  <2>3. /\ at = "request" /\ at' = "requested"
        /\ callsSent' = [callsSent EXCEPT ![ThisJob] = @ + 1]
        /\ UNCHANGED <<verifierFile, reportFile, outputs, graph, runs>>
    BY <1>13 DEF SendReport
  <2>4. /\ pairSpent' \in [verifier : Nat, reports : Nat] /\ pairSpent'.verifier = pairSpent.verifier
        /\ pairSpent'.reports = pairSpent.reports + p
    BY <1>4, <2>1, <2>2 DEF PairedTypes
  <2>5. /\ ThisJob \in UnservedJobs /\ ThisJob \in Jobs /\ reportFile.active = ThisJob
        /\ UnservedJobs # {} /\ GraphIsSettled
    BY <1>9, <2>3, JobsAreNumbers DEF ActiveIsServed
  <2>6. callsSent[ThisJob] = 0
    BY <1>9, <2>3, <2>5 DEF RequestsSent
  <2>7. PairedTypes' /\ AsksCovered'
    BY <1>4, <2>1, <2>2, <2>3, <2>4, <2>5 DEF PairedTypes, AsksCovered, Places
  <2>8. ReportsCovered'
    BY <1>4, <1>9, <2>2, <2>3, <2>4, PairedAssumption DEF ReportsCovered, Counters
  <2>9. RowsArePaid'
    BY <1>9, <2>1, <2>3, <2>4, <2>5, SameRows, JobsAreNumbers DEF RowsArePaid
  <2>10. ActiveIsServed' /\ OutputsAreFinal'
    BY <1>9, <2>3, <2>5, SameRows DEF ActiveIsServed, OutputsAreFinal, GraphIsSettled
  <2>11. RequestsSent'
    BY <1>4, <1>9, <2>3, <2>5, <2>6, SameRows DEF RequestsSent, UnservedJobs, PairedTypes
  <2>12. GraphIsOfJob'
    BY <1>9, <2>3, SameRows DEF GraphIsOfJob
  <2> QED BY <2>7, <2>8, <2>9, <2>10, <2>11, <2>12 DEF PairedInv
<1>14. CASE AnswerReport
  <2> DEFINE t == ThisJob
             r == reportFile.rows
             e == [j \in DOMAIN r \cup {t} |-> IF j = t THEN Row ELSE r[j]]
             c == RecordActual(reportFile.counter, price)
  <2>1. /\ reportFile' = [reportFile EXCEPT !.active = 0, !.counter = c, !.rows = e]
        /\ at = "requested" /\ at' = "reports" /\ graph' = "none" /\ price' = 0
        /\ UNCHANGED <<verifierFile, outputs, runs, callsSent, pairSpent>>
    BY <1>14 DEF AnswerReport, history
  <2>2. c \in Counters /\ c.reserved = reportFile.counter.reserved
    BY <1>9 DEF RecordActual, Counters
  <2>3. /\ t \in UnservedJobs /\ t \in Jobs /\ t \notin DOMAIN r
        /\ reportFile.active = t /\ GraphIsSettled /\ callsSent[t] <= 1
    BY <1>9, <2>1, JobsAreNumbers DEF ActiveIsServed, UnservedJobs, RequestsSent
  <2>4. Row.cost = price /\ (Row.called <=> graph # "none")
    BY DEF Row
  <2>5. DOMAIN e = DOMAIN r \cup {t} /\ e[t] = Row /\ \A j \in DOMAIN r : e[j] = r[j]
    BY <2>3
  <2>6. DOMAIN r \subseteq Jobs /\ \A j \in DOMAIN r : r[j].cost \in Nat
    BY <1>4 DEF PairedTypes
  <2>7. ASSUME NEW g
        PROVE  VariantCost(g, e) = IF t \in JobsOf(g) THEN VariantCost(g, r) + price ELSE VariantCost(g, r)
    BY <1>9, <2>3, <2>4, <2>6, RowAddsItsCost
  <2>8. VariantCost(TRUE, r) \in Nat /\ VariantCost(FALSE, r) \in Nat
    BY <2>6, CostsAreNumbers, Zenon
  <2>9. (t \in JobsOf(TRUE) /\ t \notin JobsOf(FALSE)) \/ (t \in JobsOf(FALSE) /\ t \notin JobsOf(TRUE))
    <3>1. WithGraph(t) \in BOOLEAN
      BY DEF WithGraph
    <3> QED BY <2>3, <3>1 DEF JobsOf
  <2> HIDE DEF t, r, e, c
  <2>10. /\ reportFile'.rows = e /\ reportFile'.counter = c /\ reportFile'.active = 0
         /\ reportFile'.exists = reportFile.exists
         /\ reportFile' = [exists |-> reportFile'.exists, counter |-> reportFile'.counter,
                            active |-> reportFile'.active, manifest |-> reportFile'.manifest,
                            rows |-> reportFile'.rows]
    BY <1>4, <2>1 DEF PairedTypes
  <2>11. RowsCost' = RowsCost + price
    <3>1. GraphedCost' = VariantCost(TRUE, e) /\ PlainCost' = VariantCost(FALSE, e)
      BY <2>10 DEF GraphedCost, PlainCost
    <3>2. GraphedCost = VariantCost(TRUE, r) /\ PlainCost = VariantCost(FALSE, r)
      BY DEF GraphedCost, PlainCost, r
    <3>3. GraphedCost' = IF t \in JobsOf(TRUE) THEN GraphedCost + price ELSE GraphedCost
      BY <2>7, <3>1, <3>2, Zenon
    <3>4. PlainCost' = IF t \in JobsOf(FALSE) THEN PlainCost + price ELSE PlainCost
      BY <2>7, <3>1, <3>2, Zenon
    <3>5. GraphedCost \in Nat /\ PlainCost \in Nat
      BY <2>8, <3>2, Zenon
    <3> DEFINE inTrue == t \in JobsOf(TRUE)
               inFalse == t \in JobsOf(FALSE)
    <3>6. (inTrue /\ ~inFalse) \/ (inFalse /\ ~inTrue)
      BY <2>9
    <3> HIDE DEF inTrue, inFalse
    <3>7. /\ GraphedCost' = IF inTrue THEN GraphedCost + price ELSE GraphedCost
          /\ PlainCost' = IF inFalse THEN PlainCost + price ELSE PlainCost
      BY <3>3, <3>4 DEF inTrue, inFalse
    <3> QED BY <1>9, <3>5, <3>6, <3>7 DEF RowsCost
  <2>12. PairedTypes' /\ AsksCovered'
    <3>1. \A j \in DOMAIN e : e[j].cost \in Nat
      BY <1>9, <2>4, <2>5, <2>6
    <3>2. DOMAIN e \subseteq Jobs
      BY <2>3, <2>5, <2>6
    <3> QED BY <1>4, <2>1, <2>2, <2>10, <3>1, <3>2 DEF PairedTypes, AsksCovered, Places
  <2>13. ReportsCovered' /\ RowsArePaid'
    BY <1>9, <2>1, <2>2, <2>10, <2>11 DEF ReportsCovered, RowsArePaid
  <2>14. ActiveIsServed'
    BY <1>9, <2>1, <2>10 DEF ActiveIsServed
  <2>15. UnservedJobs' = UnservedJobs \ {t}
    BY <2>5, <2>10 DEF UnservedJobs, r
  <2>16. RequestsSent'
    <3>1. callsSent[t] = 1
      BY <1>4, <1>9, <2>1, <2>3 DEF RequestsSent, PairedTypes
    <3> QED BY <1>9, <2>1, <2>3, <2>5, <2>10, <2>15, <3>1, JobsAreNumbers DEF RequestsSent, r
  <2>17. GraphIsOfJob'
    <3>1. graph # "none" <=> Asks(t)
      BY <1>9, <2>3 DEF GraphIsOfJob, GraphIsSettled, Asks, t
    <3>2. \A j \in DOMAIN e : e[j].called <=> Asks(j)
      BY <1>9, <2>4, <2>5, <3>1 DEF GraphIsOfJob, r
    <3>3. \A j : Asks(j)' = Asks(j)
      BY DEF Asks
    <3> QED BY <2>1, <2>10, <3>2, <3>3 DEF GraphIsOfJob
  <2>18. OutputsAreFinal'
    BY <1>9, <2>1 DEF OutputsAreFinal, RoutesAreFrozen
  <2> QED BY <2>12, <2>13, <2>14, <2>16, <2>17, <2>18 DEF PairedInv
\* The outputs.
<1>15. ASSUME UNCHANGED <<verifierFile, reportFile, callsSent, pairSpent>>,
              at \in {"reports", "archived", "packed"}, at' \in {"archived", "packed", "down"},
              UnservedJobs = {}, graph' = graph \/ graph' = "none", price' \in Nat,
              "private_run" \in outputs', "passed" \in outputs' => at' = "down"
       PROVE  PairedInv'
  <2>1. graph = "none" /\ graph' = "none" /\ reportFile.active = 0 /\ RoutesAreFrozen
    BY <1>9, <1>15 DEF GraphIsOfJob, ActiveIsServed, OutputsAreFinal
  <2>2. PairedTypes' /\ AsksCovered'
    BY <1>4, <1>15 DEF PairedTypes, AsksCovered, Places
  <2>3. ReportsCovered' /\ RowsArePaid'
    BY <1>9, <1>15, <2>1, SameRows DEF ReportsCovered, RowsArePaid
  <2>4. ActiveIsServed' /\ RequestsSent'
    BY <1>9, <1>15, <2>1, SameRows DEF ActiveIsServed, RequestsSent
  <2>5. GraphIsOfJob'
    BY <1>9, <2>1, <1>15, SameRows DEF GraphIsOfJob
  <2>6. OutputsAreFinal'
    BY <1>9, <1>15, <2>1, SameRows DEF OutputsAreFinal
  <2> QED BY <2>2, <2>3, <2>4, <2>5, <2>6 DEF PairedInv
<1>16. CASE WriteArchive
  BY <1>9, <1>15, <1>16 DEF WriteArchive, OutputsAreFinal, history
<1>17. CASE WritePacket
  BY <1>9, <1>15, <1>17 DEF WritePacket, OutputsAreFinal, history
<1>18. CASE WriteSummary
  BY <1>9, <1>15, <1>18 DEF WriteSummary, Exit, OutputsAreFinal, history
<1>19. CASE UNCHANGED pairedVars
  <2>1. UNCHANGED <<verifierFile, reportFile, outputs, at, graph, price, callsSent, pairSpent>>
    BY <1>19 DEF pairedVars
  <2>2. PairedTypes' /\ AsksCovered'
    BY <1>4, <2>1 DEF PairedTypes, AsksCovered
  <2>3. ReportsCovered' /\ RowsArePaid'
    BY <1>9, <2>1, SameRows DEF ReportsCovered, RowsArePaid
  <2>4. ActiveIsServed' /\ RequestsSent'
    BY <1>9, <2>1, SameRows DEF ActiveIsServed, RequestsSent, GraphIsSettled
  <2>5. GraphIsOfJob' /\ OutputsAreFinal'
    BY <1>9, <2>1, SameRows DEF GraphIsOfJob, OutputsAreFinal
  <2> QED BY <2>2, <2>3, <2>4, <2>5 DEF PairedInv
<1> QED
  BY <1>2, <1>3, <1>5, <1>6, <1>7, <1>8, <1>10, <1>11, <1>12, <1>13, <1>14, <1>16, <1>17, <1>18, <1>19
  DEF PairedNext

(* However often a paired run is killed and started again: no report is     *)
(* requested twice, what was paid is covered by reservations inside the two *)
(* budgets, and a run published as passed asked the graph for exactly the   *)
(* eligible questions and reports what it paid                              *)
(* (run_m6_b3_b4_full.py, scholargraph/experiment.py).                      *)
THEOREM PaidRunIsAccounted == PairedSpec => []RunIsAccounted
<1>1. PairedInv => RunIsAccounted
  <2> SUFFICES ASSUME PairedInv PROVE RunIsAccounted
    OBVIOUS
  <2> USE DEF Nobody
  <2>1. ReportsPaidOnce
    BY DEF PairedInv, RequestsSent, ReportsPaidOnce
  <2>2. SpendIsCovered
    BY DEF PairedInv, AsksCovered, ReportsCovered, SpendIsCovered
  <2>3. ASSUME "passed" \in outputs
        PROVE  /\ \A j \in Jobs : callsSent[j] = 1
               /\ pairSpent.reports = VariantCost(TRUE, reportFile.rows) + VariantCost(FALSE, reportFile.rows)
               /\ {PairOf(j) : j \in {k \in Jobs : reportFile.rows[k].called}} = Eligible
    <3>1. Jobs = DOMAIN reportFile.rows /\ reportFile.active = 0 /\ RoutesAreFrozen
      BY <2>3 DEF PairedInv, PairedTypes, OutputsAreFinal, UnservedJobs
    <3>2. \A j \in Jobs : callsSent[j] = 1
      BY <3>1 DEF PairedInv, RequestsSent
    <3>3. pairSpent.reports = VariantCost(TRUE, reportFile.rows) + VariantCost(FALSE, reportFile.rows)
      <4>1. pairSpent.reports = RowsCost
        BY <3>1 DEF PairedInv, RowsArePaid
      <4> QED BY <4>1, Zenon DEF RowsCost, GraphedCost, PlainCost
    <3>4. \A j \in Jobs : reportFile.rows[j].called <=> Asks(j)
      BY <3>1 DEF PairedInv, GraphIsOfJob
    <3>5. \A q \in Pairs : Route(Scope[q]) = "call" <=> q \in Eligible
      BY <3>1 DEF RoutesAreFrozen
    <3>6. \A q \in Pairs : 2 * q \in Jobs /\ WithGraph(2 * q) /\ PairOf(2 * q) = q
      <4> SUFFICES ASSUME NEW q \in Pairs
                   PROVE  2 * q \in Jobs /\ WithGraph(2 * q) /\ PairOf(2 * q) = q
        OBVIOUS
      <4>1. q \in Nat /\ 2 * q \in Jobs
        BY JobsAreNumbers, PairedAssumption DEF Jobs
      <4>2. (2 * q) % 2 = 0
        BY <4>1
      <4>3. (2 * q + 1) \div 2 = q
        BY <4>1
      <4> QED BY <4>1, <4>2, <4>3 DEF WithGraph, PairOf
    <3>7. \A j \in Jobs : PairOf(j) \in Pairs
      BY JobsAreNumbers, PairedAssumption DEF Jobs, PairOf
    <3>8. Eligible \subseteq Pairs
      BY PairedAssumption
    <3>9. ASSUME NEW j \in Jobs, reportFile.rows[j].called PROVE PairOf(j) \in Eligible
      BY <3>4, <3>5, <3>7, <3>9 DEF Asks
    <3>10. ASSUME NEW q \in Eligible
           PROVE  2 * q \in Jobs /\ reportFile.rows[2 * q].called /\ PairOf(2 * q) = q
      BY <3>4, <3>5, <3>6, <3>8 DEF Asks
    <3> QED BY <3>2, <3>3, <3>9, <3>10
  <2> QED BY <2>1, <2>2, <2>3 DEF RunIsAccounted, PassIsHonest
<1> QED
  BY <1>1, PairedInitially, PairedPreserved, PTL DEF PairedSpec

-----------------------------------------------------------------------------
(* The blind review: any questions, answers, seeds, marks and edits.       *)

PacketRows == [id : ReviewQuestions, question : ReviewQuestions, a : Answers, b : Answers,
               scoreA : Marks \cup {Blank}, scoreB : Marks \cup {Blank}]

\* The mapping of one preparation: the seed decides the labels and the digests together.
LabelsOf(swapped) ==
    [q \in ReviewQuestions |->
        [labelA |-> IF q \in swapped THEN "b4" ELSE "b3",
         digest |-> Immutable(BlankRow(q, swapped)),
         sources |-> reports[q]]]

ReviewInv ==
    /\ packet \in Seq(PacketRows)
    /\ reports \in [ReviewQuestions -> [b3 : Answers, b4 : Answers]]
    /\ writing = NoStep \/ writing \in SUBSET ReviewQuestions
    /\ labels = NoLabels \/ \E w \in SUBSET ReviewQuestions : labels = LabelsOf(w)
    /\ comparison # NoComparison => writing = NoStep
    /\ ScoresReachTheirVariant

LEMMA ReviewInitially == ReviewInit => ReviewInv
BY EmptySeq DEF ReviewInit, ReviewInv, ScoresReachTheirVariant

LEMMA BlankRowsAreRows ==
    ASSUME ReviewInv, NEW q \in ReviewQuestions, NEW w
    PROVE  BlankRow(q, w) \in PacketRows
<1>1. reports[q].b3 \in Answers /\ reports[q].b4 \in Answers
  BY DEF ReviewInv
<1>2. Pair(q, w).a \in Answers /\ Pair(q, w).b \in Answers
  BY <1>1 DEF Pair, Shown
<1> QED BY <1>2 DEF BlankRow, PacketRows

\* Whatever the spreadsheet does, its rows stay rows.
LEMMA EditsKeepRows ==
    ASSUME NEW s \in Seq(PacketRows), NEW i \in DOMAIN s
    PROVE  /\ RemoveAt(s, i) \in Seq(PacketRows)
           /\ Append(s, s[i]) \in Seq(PacketRows)
           /\ [s EXCEPT ![i].a = s[i].b, ![i].b = s[i].a] \in Seq(PacketRows)
           /\ \A mark \in Marks : /\ [s EXCEPT ![i].scoreA = mark] \in Seq(PacketRows)
                                  /\ [s EXCEPT ![i].scoreB = mark] \in Seq(PacketRows)
<1>1. i \in 1 .. Len(s) /\ Len(s) \in Nat /\ s[i] \in PacketRows /\ \A j \in 1 .. Len(s) : s[j] \in PacketRows
  BY LenProperties, ElementOfSeq
<1>2. RemoveAt(s, i) \in Seq(PacketRows)
  <2>1. SubSeq(s, 1, i - 1) \in Seq(PacketRows)
    BY <1>1, SubSeqProperties
  <2>2. SubSeq(s, i + 1, Len(s)) \in Seq(PacketRows)
    BY <1>1, SubSeqProperties
  <2> QED BY <2>1, <2>2, ConcatProperties DEF RemoveAt
<1>3. Append(s, s[i]) \in Seq(PacketRows)
  BY <1>1, AppendProperties
<1>4. ASSUME NEW r \in PacketRows PROVE [s EXCEPT ![i] = r] \in Seq(PacketRows)
  BY <1>1, <1>4, ExceptSeq
<1>5. [s EXCEPT ![i].a = s[i].b, ![i].b = s[i].a] \in Seq(PacketRows)
  <2>1. [s[i] EXCEPT !.a = s[i].b, !.b = s[i].a] \in PacketRows
    BY <1>1 DEF PacketRows
  <2>2. [s EXCEPT ![i].a = s[i].b, ![i].b = s[i].a] = [s EXCEPT ![i] = [s[i] EXCEPT !.a = s[i].b, !.b = s[i].a]]
    BY <1>1
  <2> QED BY <1>4, <2>1, <2>2
<1>6. ASSUME NEW mark \in Marks
      PROVE  /\ [s EXCEPT ![i].scoreA = mark] \in Seq(PacketRows)
             /\ [s EXCEPT ![i].scoreB = mark] \in Seq(PacketRows)
  <2>1. [s[i] EXCEPT !.scoreA = mark] \in PacketRows /\ [s[i] EXCEPT !.scoreB = mark] \in PacketRows
    BY <1>1 DEF PacketRows
  <2>2. /\ [s EXCEPT ![i].scoreA = mark] = [s EXCEPT ![i] = [s[i] EXCEPT !.scoreA = mark]]
        /\ [s EXCEPT ![i].scoreB = mark] = [s EXCEPT ![i] = [s[i] EXCEPT !.scoreB = mark]]
    BY <1>1
  <2> QED BY <1>4, <2>1, <2>2
<1> QED BY <1>2, <1>3, <1>5, <1>6

LEMMA OneIsASeq ==
    ASSUME NEW S, NEW a \in S
    PROVE  <<a>> \in Seq(S)
OBVIOUS

LEMMA NothingRefused ==
    ASSUME Refusals = <<>>
    PROVE  /\ labels # NoLabels
           /\ Len(packet) = Cardinality(DOMAIN labels)
           /\ RowsAreDistinct
           /\ \A i \in DOMAIN packet : RowIsValid(packet[i])
<1> DEFINE s1 == IF NormalisedHash # RawHash THEN <<"question_sets">> ELSE <<>>
           s2 == IF labels = NoLabels THEN <<"mapping">> ELSE <<>>
           s3 == IF Len(packet) # Cardinality(DOMAIN labels) THEN <<"coverage">> ELSE <<>>
           s4 == IF ~RowsAreDistinct \/ \E i \in DOMAIN packet : ~RowIsValid(packet[i])
                 THEN <<"rows">> ELSE <<>>
<1> DEFINE Names == {"question_sets", "mapping", "coverage", "rows"}
<1>1. s1 \in Seq(Names) /\ s2 \in Seq(Names) /\ s3 \in Seq(Names) /\ s4 \in Seq(Names)
  <2>1. /\ <<>> \in Seq(Names) /\ <<"question_sets">> \in Seq(Names)
        /\ <<"mapping">> \in Seq(Names) /\ <<"coverage">> \in Seq(Names)
        /\ <<"rows">> \in Seq(Names)
    BY EmptySeq, OneIsASeq, Zenon
  <2> QED BY <2>1
<1>2. Refusals = ((s1 \o s2) \o s3) \o s4
  BY DEF Refusals
<1>3. <<"mapping">> # <<>> /\ <<"coverage">> # <<>> /\ <<"rows">> # <<>>
  BY EmptySeq
<1>4. s2 = <<>> => labels # NoLabels
  BY <1>3
<1>5. s3 = <<>> => Len(packet) = Cardinality(DOMAIN labels)
  BY <1>3
<1>6. s4 = <<>> => RowsAreDistinct /\ \A i \in DOMAIN packet : RowIsValid(packet[i])
  BY <1>3
<1> HIDE DEF s1, s2, s3, s4
<1>7. s1 \o s2 \in Seq(Names) /\ (s1 \o s2) \o s3 \in Seq(Names)
  BY <1>1, ConcatProperties
<1>8. s4 = <<>> /\ (s1 \o s2) \o s3 = <<>>
  <2> DEFINE u == (s1 \o s2) \o s3
  <2>1. u \in Seq(Names) /\ s4 \in Seq(Names) /\ u \o s4 = <<>>
    BY <1>1, <1>2, <1>7
  <2> HIDE DEF u
  <2>2. s4 = <<>> /\ u = <<>>
    BY <2>1, ConcatEqualIffEmpty
  <2> QED BY <2>2 DEF u
<1>9. s3 = <<>> /\ s1 \o s2 = <<>>
  BY <1>1, <1>7, <1>8, ConcatEqualIffEmpty
<1>10. s2 = <<>>
  BY <1>1, <1>9, ConcatEqualIffEmpty
<1> QED BY <1>4, <1>5, <1>6, <1>8, <1>9, <1>10

\* Every row has a question of its own, so every question has a row.
LEMMA EveryQuestionHasARow ==
    ASSUME ReviewInv, Refusals = <<>>, NEW q \in ReviewQuestions
    PROVE  RowOf(q) \in DOMAIN packet /\ packet[RowOf(q)].id = q
<1> DEFINE f == [i \in DOMAIN packet |-> packet[i].id]
<1>1. DOMAIN packet = 1 .. Len(packet) /\ Len(packet) \in Nat
  BY LenProperties DEF ReviewInv
<1>2. DOMAIN labels = ReviewQuestions
  BY NothingRefused DEF ReviewInv, LabelsOf
<1>3. Cardinality(DOMAIN packet) = Len(packet) /\ IsFiniteSet(DOMAIN packet)
  BY <1>1, FS_Interval
<1>4. f \in [DOMAIN packet -> ReviewQuestions]
  BY <1>2, NothingRefused DEF RowIsValid
<1>5. f \in Injection(DOMAIN packet, ReviewQuestions)
  BY <1>4, NothingRefused DEF Injection, IsInjective, RowsAreDistinct
<1>6. Cardinality(DOMAIN packet) = Cardinality(ReviewQuestions)
  BY <1>2, <1>3, NothingRefused
<1>7. f \in Surjection(DOMAIN packet, ReviewQuestions)
  BY <1>5, <1>6, FS_Injection, ReviewAssumption
<1>8. \E i \in DOMAIN packet : packet[i].id = q
  BY <1>7 DEF Surjection
<1> QED BY <1>8 DEF RowOf

LEMMA MarksAreBeside ==
    ASSUME ReviewInv, Refusals = <<>>, NEW q \in ReviewQuestions
    PROVE  /\ MarkOf(q, "b3") \in MarksBeside(q, Shown(reports[q].b3))
           /\ MarkOf(q, "b4") \in MarksBeside(q, Shown(reports[q].b4))
           /\ MarkOf(q, "b3") \in 0 .. 4 /\ MarkOf(q, "b4") \in 0 .. 4
<1> DEFINE i == RowOf(q)
           r == packet[i]
<1>1. PICK w \in SUBSET ReviewQuestions : labels = LabelsOf(w)
  BY NothingRefused DEF ReviewInv
<1>2. i \in DOMAIN packet /\ r.id = q
  BY EveryQuestionHasARow
<1>3. Immutable(r) = labels[q].digest /\ IsScore(r.scoreA) /\ IsScore(r.scoreB)
  BY <1>2, NothingRefused DEF RowIsValid, Entry
<1>4. labels[q].digest = Immutable(BlankRow(q, w)) /\ labels[q].labelA = IF q \in w THEN "b4" ELSE "b3"
  BY <1>1 DEF LabelsOf
<1>5. r.a = Pair(q, w).a /\ r.b = Pair(q, w).b
  BY <1>3, <1>4 DEF Immutable, BlankRow
<1>6. CASE q \in w
  <2>1. r.a = Shown(reports[q].b4) /\ r.b = Shown(reports[q].b3)
    BY <1>5, <1>6 DEF Pair
  <2>2. MarkOf(q, "b3") = r.scoreB /\ MarkOf(q, "b4") = r.scoreA
    BY <1>4, <1>6 DEF MarkOf
  <2> QED BY <1>2, <1>3, <2>1, <2>2 DEF MarksBeside, IsScore
<1>7. CASE q \notin w
  <2>1. r.a = Shown(reports[q].b3) /\ r.b = Shown(reports[q].b4)
    BY <1>5, <1>7 DEF Pair
  <2>2. MarkOf(q, "b3") = r.scoreA /\ MarkOf(q, "b4") = r.scoreB
    BY <1>4, <1>7 DEF MarkOf
  <2> QED BY <1>2, <1>3, <2>1, <2>2 DEF MarksBeside, IsScore
<1> QED BY <1>6, <1>7

LEMMA ImportCredits == ReviewInv /\ ImportScores => ReviewInv'
<1> SUFFICES ASSUME ReviewInv, ImportScores PROVE ReviewInv'
  OBVIOUS
<1>1. UNCHANGED <<lineEndings, reports, packet, labels, writing>> /\ Reviewing
  BY DEF ImportScores
<1>2. \A w : LabelsOf(w)' = LabelsOf(w)
  BY <1>1 DEF LabelsOf, BlankRow, Pair, Shown, Immutable
<1>3. CASE Refusals # <<>>
  BY <1>1, <1>2, <1>3 DEF ImportScores, ReviewInv, ScoresReachTheirVariant, Reviewing
<1>4. CASE Refusals = <<>>
  <2> DEFINE b3 == [q \in ReviewQuestions |-> MarkOf(q, "b3")]
             b4 == [q \in ReviewQuestions |-> MarkOf(q, "b4")]
             scores == [b3 |-> b3, b4 |-> b4]
  <2>1. comparison' = [decision |-> ReviewDecision(scores), b3 |-> b3, b4 |-> b4]
    BY <1>4 DEF ImportScores
  <2>2. \A q \in ReviewQuestions :
           /\ b3[q] \in MarksBeside(q, Shown(reports[q].b3))
           /\ b4[q] \in MarksBeside(q, Shown(reports[q].b4))
           /\ b3[q] \in 0 .. 4 /\ b4[q] \in 0 .. 4
    BY <1>4, MarksAreBeside
  <2> HIDE DEF b3, b4
  <2>3. Delta(scores) \in Int /\ Delta(comparison)' = Delta(scores)
    <3>1. \A q \in ReviewEligible : b4[q] - b3[q] \in Int
      BY <2>2, ReviewAssumption
    <3>2. IsFiniteSet(ReviewEligible)
      BY ReviewAssumption, FS_Subset
    <3>3. Delta(scores) = SumFunctionOnSet([q \in ReviewEligible |-> b4[q] - b3[q]], ReviewEligible)
      BY DEF Delta, SumFunction
    <3>4. Delta(comparison)' = SumFunctionOnSet([q \in ReviewEligible |-> b4[q] - b3[q]], ReviewEligible)
      BY <2>1 DEF Delta, SumFunction
    <3> QED BY <3>1, <3>2, <3>3, <3>4, SumType
  <2>4. FailureCount("b4") \in Nat /\ FailureCount("b3") \in Nat
    <3>1. ASSUME NEW v PROVE FailureCount(v) \in Nat
      BY ReviewAssumption, FS_Subset, FS_CardinalityType DEF FailureCount
    <3> QED BY <3>1
  <2>5. ReviewDecision(scores) = "human_review_required"
          => Delta(scores) > 0 /\ FailureCount("b4") <= FailureCount("b3")
    BY <2>3, <2>4 DEF ReviewDecision
  <2> HIDE DEF scores
  <2>6. /\ comparison'.decision = ReviewDecision(scores) /\ comparison'.b3 = b3 /\ comparison'.b4 = b4
    BY <2>1
  <2>7. \A q, x : MarksBeside(q, x)' = MarksBeside(q, x)
    BY <1>1 DEF MarksBeside
  <2>8. FailureCount("b4")' = FailureCount("b4") /\ FailureCount("b3")' = FailureCount("b3")
    BY <1>1 DEF FailureCount
  <2>9. ScoresReachTheirVariant'
    BY <1>1, <2>2, <2>3, <2>5, <2>6, <2>7, <2>8 DEF ScoresReachTheirVariant, Shown
  <2> QED BY <1>1, <1>2, <2>9 DEF ReviewInv, Reviewing
<1> QED BY <1>3, <1>4

LEMMA ReviewPreserved == ReviewInv /\ [ReviewNext]_reviewVars => ReviewInv'
<1> SUFFICES ASSUME ReviewInv, [ReviewNext]_reviewVars PROVE ReviewInv'
  OBVIOUS
\* No step but an import sets the comparison, and it is the last.
<1>1. ASSUME UNCHANGED <<reports, comparison>>, comparison # NoComparison => packet' = packet,
             packet' \in Seq(PacketRows), writing' = NoStep \/ writing' \in SUBSET ReviewQuestions,
             comparison # NoComparison => writing' = NoStep,
             labels' = labels \/ \E w \in SUBSET ReviewQuestions : labels' = LabelsOf(w)
      PROVE  ReviewInv'
  <2>1. \A w : LabelsOf(w)' = LabelsOf(w)
    BY <1>1 DEF LabelsOf, BlankRow, Pair, Shown, Immutable
  <2>2. ScoresReachTheirVariant'
    BY <1>1 DEF ReviewInv, ScoresReachTheirVariant, MarksBeside, Delta, FailureCount, Shown
  <2>3. labels' = NoLabels \/ \E w \in SUBSET ReviewQuestions : labels' = LabelsOf(w)'
    BY <1>1, <2>1 DEF ReviewInv
  <2> QED BY <1>1, <2>2, <2>3 DEF ReviewInv
<1>2. ASSUME NEW swapped \in Seeds, PreparePacket(swapped) PROVE ReviewInv'
  <2>1. packet' = [i \in 1 .. Cardinality(ReviewQuestions) |-> BlankRow(i, swapped)]
    BY <1>2 DEF PreparePacket
  <2>2. \A i \in 1 .. Cardinality(ReviewQuestions) : BlankRow(i, swapped) \in PacketRows
    BY BlankRowsAreRows, ReviewAssumption
  <2>3. Cardinality(ReviewQuestions) \in Nat
    BY ReviewAssumption, FS_CardinalityType
  <2>4. packet' \in Seq(PacketRows)
    BY <2>1, <2>2, <2>3
  <2>5. swapped \in SUBSET ReviewQuestions
    BY ReviewAssumption
  <2> QED BY <1>1, <1>2, <2>4, <2>5 DEF PreparePacket
<1>3. CASE WriteLabels
  <2>1. labels' = LabelsOf(writing) /\ writing \in SUBSET ReviewQuestions
    BY <1>3 DEF WriteLabels, LabelsOf, ReviewInv
  <2> QED BY <1>1, <1>3, <2>1 DEF WriteLabels, ReviewInv
<1>4. CASE KilledBeforeLabels
  BY <1>1, <1>4 DEF KilledBeforeLabels, ReviewInv
<1>5. ASSUME NEW i \in DOMAIN packet, NEW side \in {"scoreA", "scoreB"}, NEW mark \in Marks,
             Score(i, side, mark)
      PROVE  ReviewInv'
  <2>1. packet' = [packet EXCEPT ![i].scoreA = mark] \/ packet' = [packet EXCEPT ![i].scoreB = mark]
    BY <1>5 DEF Score
  <2>2. packet' \in Seq(PacketRows)
    <3>1. /\ [packet EXCEPT ![i].scoreA = mark] \in Seq(PacketRows)
          /\ [packet EXCEPT ![i].scoreB = mark] \in Seq(PacketRows)
      BY EditsKeepRows, Zenon DEF ReviewInv
    <3> QED BY <2>1, <3>1
  <2> QED BY <1>1, <1>5, <2>2 DEF Score, Reviewing, ReviewInv
<1>6. ASSUME NEW i \in DOMAIN packet, EditRow(i) PROVE ReviewInv'
  <2>1. packet' \in Seq(PacketRows)
    BY <1>6, EditsKeepRows DEF ReviewInv, EditRow, Edit, SwapAnswers
  <2> QED BY <1>1, <1>6, <2>1 DEF EditRow, Edit, Reviewing, ReviewInv
<1>7. CASE UNCHANGED reviewVars
  BY <1>1, <1>7 DEF reviewVars, ReviewInv
<1> QED BY <1>2, <1>3, <1>4, <1>5, <1>6, <1>7, ImportCredits DEF ReviewNext

(* Whatever seeds were used, whatever was edited and wherever a preparation *)
(* was killed: an imported comparison credits each variant with a mark that *)
(* stands beside its own answer, and puts ScholarGraph forward only when    *)
(* its answers were marked higher and failed no more often                  *)
(* (blind_review.import_blind_scores, evaluation.B3B4Evaluator.compare).    *)
THEOREM ScoresAreCredited == ReviewSpec => []ScoresReachTheirVariant
<1>1. ReviewInv => ScoresReachTheirVariant
  BY DEF ReviewInv
<1> QED
  BY <1>1, ReviewInitially, ReviewPreserved, PTL DEF ReviewSpec

-----------------------------------------------------------------------------
(* The paired verification study: any questions, claims, prices, budgets   *)
(* and starts.                                                             *)

AttemptRecords == [state : {"intent", "dispatched", "skipped", "failed", "unknown", "succeeded"},
                   calls : {0, 1}, metered : BOOLEAN, verdict : {"none", "supported", "unsupported"},
                   included : SUBSET ClaimIds]

AttemptTypes ==
    /\ attempts \in [Requests -> Seq(AttemptRecords)]
    /\ rows = [c \in Conditions |-> rows[c]]
    /\ sent \in [Requests -> Nat] /\ retries \in Nat

\* What the record of an attempt says of the call it stands for.
RecordIsSound(a) ==
    /\ a.state = "intent" => a.calls = 0 /\ ~a.metered
    /\ a.state = "dispatched" => a.calls = 1 /\ ~a.metered
AttemptsAreSound ==
    \A r \in Requests : \A i \in 1 .. Len(attempts[r]) :
        /\ RecordIsSound(attempts[r][i])
        /\ i < Len(attempts[r]) => attempts[r][i].state # "succeeded"

\* A running process serves a condition it has not served yet.
PlaceIsSound ==
    /\ step \in {"down", "prepare", "work", "dispatched", "sent"}
    /\ step = "down" => cond = 0
    /\ step # "down" => /\ cond \in Conditions /\ cond \notin live
                        /\ subject \in SubjectsOf(cond)

\* Requests are prepared in order, then handled in order.
Ready(c, s) == LatestIs(<<c, s>>, {"intent", "succeeded"})
WorkIsReady ==
    /\ step = "prepare" => \A s \in SubjectsOf(cond) : s < subject => Ready(cond, s)
    /\ step \in {"work", "dispatched", "sent"} =>
          \A s \in SubjectsOf(cond) : /\ s < subject => LatestIs(<<cond, s>>, {"succeeded"})
                                      /\ s > subject => Ready(cond, s)
    /\ step = "work" => Ready(cond, subject)
    /\ step \in {"dispatched", "sent"} => LatestIs(This, {"dispatched"})

\* Requests the running process has not reached.
Ahead(r) == r[1] \notin live /\ (r[1] # cond \/ (step = "prepare" /\ r[2] >= subject))
\* A new call needs a request that was never sent, or a start that was told to resend.
ResendIsAllowed ==
    /\ \A r \in Requests :
          /\ sent[r] <= retries + 1
          /\ attempts[r] = <<>> \/ LatestIs(r, {"intent", "skipped"}) => sent[r] <= retries
          /\ step # "down" /\ retry /\ Ahead(r) => sent[r] <= retries
    /\ step = "dispatched" => sent[This] <= retries

\* The checkpoint counts a call before it goes out.
CallsAreCounted ==
    /\ LedgerCoversCalls
    /\ step = "dispatched" => sent[This] + 1 <= Cardinality(Paid(This))
BudgetsHold ==
    /\ CallsOf(VerifierRequests) <= MaxVerifierCalls
    /\ CallsOf(ReportRequests) <= MaxReportCalls
    /\ Billable <= MaxCost
    /\ Exposed <= MaxCost + (LostCharge - Reserve)

\* The two amounts a lost call counts: what the check reserved, what the ledger charges.
Charges == {Reserve, LostCharge}
CostsTyped(r) == \A z \in Charges : CostAt(z, r) \in Nat
CostsSame(r) == \A z \in Charges : CostAt(z, r)' = CostAt(z, r)
CostsNoMore(r) == \A z \in Charges : CostAt(z, r)' <= CostAt(z, r)
CostsOneMore(r) == \A z \in Charges : CostAt(z, r)' = CostAt(z, r) + z

\* A report that was answered rests on answers that stay.
ReportsRest ==
    \A c \in Conditions : LatestIs(<<c, ReportSubject>>, {"succeeded"}) =>
        /\ \A s \in SubjectsOf(c) : LatestIs(<<c, s>>, {"succeeded"})
        /\ Latest(<<c, ReportSubject>>).included = Prepared(c)
RowsRest ==
    \A c \in Conditions : rows[c].status = "ok" =>
        /\ LatestIs(<<c, ReportSubject>>, {"succeeded"})
        /\ Latest(<<c, ReportSubject>>).included = rows[c].included

AblationInv == AttemptTypes /\ AttemptsAreSound /\ PlaceIsSound /\ WorkIsReady /\ ResendIsAllowed
               /\ CallsAreCounted /\ BudgetsHold /\ ReportsRest /\ RowsRest

LEMMA ChargesCover ==
    /\ Reserve \in Nat /\ LostCharge \in Nat /\ Reserve <= LostCharge /\ MaxCost \in Nat
    /\ CallPrice \in Nat /\ \A z \in Charges : z \in Nat /\ CallPrice <= z
<1>1. Reserve \in Nat /\ LostReserve \in Nat /\ MaxCost \in Nat /\ CallPrice \in Nat /\ CallPrice <= Reserve
  BY AblationAssumption
<1>2. LostCharge = IF Reserve <= LostReserve THEN LostReserve ELSE Reserve
  <2>1. \E m \in {Reserve, LostReserve} : \A y \in {Reserve, LostReserve} : m >= y
    BY <1>1
  <2>2. /\ LostCharge \in {Reserve, LostReserve}
        /\ \A y \in {Reserve, LostReserve} : LostCharge >= y
    BY <2>1 DEF LostCharge, Max
  <2> QED BY <1>1, <2>2
<1> QED BY <1>1, <1>2 DEF Charges

LEMMA StudyFacts ==
    /\ ReportSubject \in Nat \ {0} /\ ClaimIds = 1 .. ReportSubject - 1
    /\ Conditions \subseteq Nat \ {0} /\ IsFiniteSet(Conditions)
    /\ \A c \in Conditions : /\ Variant(c) \in {"V-on", "V-off"}
                             /\ FirstSubject(c) \in 1 .. ReportSubject
                             /\ SubjectsOf(c) = FirstSubject(c) .. ReportSubject
                             /\ ReportSubject \in SubjectsOf(c)
                             /\ SubjectsOf(c) \subseteq 1 .. ReportSubject
                             /\ Variant(c) = "V-on" => ClaimIds \subseteq SubjectsOf(c)
<1>1. Cardinality(ClaimIds) \in Nat /\ Cardinality(Questions) \in Nat
  BY AblationAssumption, FS_CardinalityType
<1>2. ReportSubject \in Nat \ {0} /\ ClaimIds = 1 .. ReportSubject - 1
  <2>1. Cardinality(ClaimIds) = ReportSubject - 1 /\ ReportSubject \in Nat \ {0}
    BY <1>1 DEF ReportSubject
  <2> QED BY <2>1, AblationAssumption
<1>3. Conditions \subseteq Nat \ {0} /\ IsFiniteSet(Conditions)
  <2>1. 1 \in Int /\ 2 * Cardinality(Questions) \in Int
    BY <1>1
  <2>2. IsFiniteSet(Conditions)
    BY <2>1, FS_Interval DEF Conditions
  <2> QED BY <2>1, <2>2 DEF Conditions
<1>4. ASSUME NEW c \in Conditions PROVE Variant(c) \in {"V-on", "V-off"}
  <2>1. (c - 1) % 2 \in {0, 1}
    BY <1>3
  <2>2. ((c - 1) % 2) + 1 \in {1, 2}
    BY <2>1
  <2>3. \A i \in {1, 2} : VariantOrder[i] \in {"V-on", "V-off"}
    BY AblationAssumption
  <2> QED BY <2>2, <2>3 DEF Variant
<1>5. ASSUME NEW c \in Conditions
      PROVE  /\ FirstSubject(c) \in 1 .. ReportSubject
             /\ SubjectsOf(c) = FirstSubject(c) .. ReportSubject
             /\ ReportSubject \in SubjectsOf(c)
             /\ SubjectsOf(c) \subseteq 1 .. ReportSubject
             /\ Variant(c) = "V-on" => ClaimIds \subseteq SubjectsOf(c)
  BY <1>2 DEF FirstSubject, SubjectsOf
<1> QED BY <1>2, <1>3, <1>4, <1>5

LEMMA RequestFacts ==
    /\ IsFiniteSet(Requests) /\ VerifierRequests \cup ReportRequests = Requests
    /\ IsFiniteSet(VerifierRequests) /\ IsFiniteSet(ReportRequests)
    /\ VerifierRequests \cap ReportRequests = {}
    /\ \A c \in Conditions : \A s \in SubjectsOf(c) : <<c, s>> \in Requests
    /\ \A r \in Requests : r[1] \in Conditions /\ r[2] \in SubjectsOf(r[1]) /\ r = <<r[1], r[2]>>
<1>1. IsFiniteSet(1 .. ReportSubject)
  BY StudyFacts, FS_Interval
<1>2. IsFiniteSet(Conditions \X (1 .. ReportSubject))
  BY <1>1, StudyFacts, FS_Product
<1>3. IsFiniteSet(Requests)
  BY <1>2, FS_Subset DEF Requests
<1>4. IsFiniteSet(VerifierRequests) /\ IsFiniteSet(ReportRequests)
  BY <1>3, FS_Subset DEF VerifierRequests, ReportRequests
<1>5. \A c \in Conditions : \A s \in SubjectsOf(c) : <<c, s>> \in Requests
  BY StudyFacts DEF Requests
<1>6. \A r \in Requests : r[1] \in Conditions /\ r[2] \in SubjectsOf(r[1]) /\ r = <<r[1], r[2]>>
  BY DEF Requests
<1> QED BY <1>3, <1>4, <1>5, <1>6 DEF VerifierRequests, ReportRequests

\* Rewriting the latest record of one request.
LEMMA RewriteChangesOne ==
    ASSUME AttemptTypes, NEW r \in Requests, attempts[r] # <<>>, NEW new \in AttemptRecords, Rewrite(r, new)
    PROVE  /\ attempts' \in [Requests -> Seq(AttemptRecords)]
           /\ attempts'[r] # <<>> /\ Len(attempts'[r]) = Len(attempts[r])
           /\ Len(attempts[r]) \in Nat \ {0}
           /\ Latest(r)' = new
           /\ attempts'[r][Len(attempts[r])] = new
           /\ \A i \in 1 .. Len(attempts[r]) : i # Len(attempts[r]) => attempts'[r][i] = attempts[r][i]
           /\ \A q \in Requests : q # r => attempts'[q] = attempts[q]
<1> DEFINE n == Len(attempts[r])
           t == [attempts[r] EXCEPT ![n] = new]
<1>1. attempts[r] \in Seq(AttemptRecords) /\ n \in Nat \ {0} /\ n \in 1 .. n
  BY EmptySeq DEF AttemptTypes
<1>2. attempts' = [attempts EXCEPT ![r] = t]
  BY DEF Rewrite, AttemptTypes
<1>3. t \in Seq(AttemptRecords) /\ Len(t) = n /\ t[n] = new /\ \A i \in 1 .. n : i # n => t[i] = attempts[r][i]
  BY <1>1, ExceptSeq
<1> HIDE DEF t
<1>4. attempts'[r] = t /\ \A q \in Requests : q # r => attempts'[q] = attempts[q]
  BY <1>2 DEF AttemptTypes
<1>5. attempts' \in [Requests -> Seq(AttemptRecords)]
  BY <1>2, <1>3 DEF AttemptTypes
<1>6. Latest(r)' = new /\ attempts'[r] # <<>>
  BY <1>1, <1>3, <1>4, EmptySeq DEF Latest
<1> QED BY <1>1, <1>3, <1>4, <1>5, <1>6

LEMMA RewriteCounts ==
    ASSUME AttemptTypes, NEW r \in Requests, attempts[r] # <<>>, NEW new \in AttemptRecords, Rewrite(r, new)
    PROVE  /\ Paid(r)' = IF new.calls > 0 THEN Paid(r) \cup {Len(attempts[r])}
                         ELSE Paid(r) \ {Len(attempts[r])}
           /\ Unmetered(r)' = IF new.calls > 0 /\ ~new.metered THEN Unmetered(r) \cup {Len(attempts[r])}
                              ELSE Unmetered(r) \ {Len(attempts[r])}
<1> DEFINE n == Len(attempts[r])
<1>1. /\ n \in Nat \ {0} /\ Len(attempts'[r]) = n /\ attempts'[r][n] = new
      /\ \A i \in 1 .. n : i # n => attempts'[r][i] = attempts[r][i]
      /\ attempts' \in [Requests -> Seq(AttemptRecords)]
  BY RewriteChangesOne
<1>2. DOMAIN attempts[r] = 1 .. n /\ DOMAIN attempts'[r] = 1 .. n
  <2>1. attempts[r] \in Seq(AttemptRecords) /\ attempts'[r] \in Seq(AttemptRecords)
    BY <1>1 DEF AttemptTypes
  <2> QED BY <1>1, <2>1, LenProperties
<1> HIDE DEF n
<1>3. Paid(r)' = IF new.calls > 0 THEN Paid(r) \cup {n} ELSE Paid(r) \ {n}
  BY <1>1, <1>2 DEF Paid
<1>4. Unmetered(r)' = {i \in Paid(r)' : ~attempts'[r][i].metered}
  BY DEF Unmetered
<1>5. Paid(r) \subseteq 1 .. n
  BY <1>2 DEF Paid
<1>6. Unmetered(r)' = IF new.calls > 0 /\ ~new.metered THEN Unmetered(r) \cup {n} ELSE Unmetered(r) \ {n}
  BY <1>1, <1>3, <1>4, <1>5 DEF Unmetered
<1> QED BY <1>3, <1>6 DEF n

\* A request whose records stay keeps what is counted of it.
LEMMA SameRecords ==
    ASSUME NEW r, attempts'[r] = attempts[r]
    PROVE  /\ Latest(r)' = Latest(r) /\ Paid(r)' = Paid(r) /\ Unmetered(r)' = Unmetered(r)
           /\ CostsSame(r)
           /\ \A S : LatestIs(r, S)' <=> LatestIs(r, S)
<1>1. Latest(r)' = Latest(r) /\ Paid(r)' = Paid(r) /\ Unmetered(r)' = Unmetered(r)
  BY DEF Latest, Paid, Unmetered
<1> QED BY <1>1 DEF CostAt, CostsSame, LatestIs

LEMMA CountsAreNumbers ==
    ASSUME AttemptTypes, NEW r \in Requests
    PROVE  /\ IsFiniteSet(Paid(r)) /\ Cardinality(Paid(r)) \in Nat
           /\ Unmetered(r) \subseteq Paid(r)
           /\ IsFiniteSet(Unmetered(r)) /\ Cardinality(Unmetered(r)) \in Nat
           /\ IsFiniteSet(Paid(r) \ Unmetered(r)) /\ Cardinality(Paid(r) \ Unmetered(r)) \in Nat
           /\ CostsTyped(r)
           /\ DOMAIN attempts[r] = 1 .. Len(attempts[r]) /\ Len(attempts[r]) \in Nat
<1>1. DOMAIN attempts[r] = 1 .. Len(attempts[r]) /\ Len(attempts[r]) \in Nat
  <2>1. attempts[r] \in Seq(AttemptRecords)
    BY DEF AttemptTypes
  <2> QED BY <2>1, LenProperties
<1>2. IsFiniteSet(DOMAIN attempts[r])
  <2>1. 1 \in Int /\ Len(attempts[r]) \in Int
    BY <1>1
  <2>2. IsFiniteSet(1 .. Len(attempts[r]))
    BY <2>1, FS_Interval
  <2> QED BY <1>1, <2>2
<1>3. IsFiniteSet(Paid(r)) /\ Cardinality(Paid(r)) \in Nat
  BY <1>2, FS_Subset, FS_CardinalityType DEF Paid
<1>4. Unmetered(r) \subseteq Paid(r)
  BY DEF Unmetered
<1>5. IsFiniteSet(Unmetered(r)) /\ IsFiniteSet(Paid(r) \ Unmetered(r))
  BY <1>3, <1>4, FS_Subset
<1>6. Cardinality(Unmetered(r)) \in Nat /\ Cardinality(Paid(r) \ Unmetered(r)) \in Nat
  BY <1>5, FS_CardinalityType
<1>7. CostsTyped(r)
  <2>1. ASSUME NEW z \in Charges PROVE CostAt(z, r) \in Nat
    <3>1. \A a, b \in Nat : CallPrice * a + z * b \in Nat
      BY ChargesCover
    <3> QED BY <1>6, <3>1 DEF CostAt
  <2> QED BY <2>1 DEF CostsTyped
<1> QED BY <1>1, <1>3, <1>4, <1>5, <1>6, <1>7

LEMMA NextIsUnserved ==
    ASSUME NEW done, Unserved(done) # {}
    PROVE  Min(Unserved(done)) \in Conditions \ done
<1>1. Unserved(done) \subseteq Nat
  BY StudyFacts DEF Unserved
<1> QED BY <1>1, MinIsMember DEF Unserved

\* A row ends the service of a condition: the process stops or turns to another one.
TurnsOn == /\ live' = live \cup {cond} /\ cond' \in Conditions \ live'
           /\ step' = "prepare" /\ subject' = FirstSubject(cond') /\ retry' = retry
LEMMA RowEndsCondition ==
    ASSUME NEW row, RecordRow(row)
    PROVE  rows' = [rows EXCEPT ![cond] = row] /\ (StopProcess \/ TurnsOn)
<1>1. EnterNext(live \cup {cond}) => StopProcess \/ TurnsOn
  BY NextIsUnserved DEF EnterNext, TurnsOn
<1> QED BY <1>1 DEF RecordRow

LEMMA SameIsNoMore == ASSUME NEW r, CostsSame(r), CostsTyped(r) PROVE CostsNoMore(r)
BY DEF CostsSame, CostsTyped, CostsNoMore

CountsInNat == \A r \in Requests : Cardinality(Paid(r)) \in Nat /\ CostsTyped(r)
LEMMA CountsTyped == AttemptTypes => CountsInNat
BY CountsAreNumbers DEF CountsInNat

\* A step that costs no request anything keeps the budgets.
LEMMA BudgetsKept ==
    ASSUME AttemptTypes, AttemptTypes', BudgetsHold,
           \A r \in Requests : Cardinality(Paid(r))' <= Cardinality(Paid(r)) /\ CostsNoMore(r)
    PROVE  BudgetsHold'
<1>1. \A r \in Requests : Cardinality(Paid(r)) \in Nat /\ CostsTyped(r)
  BY CountsTyped DEF CountsInNat
<1>2. \A r \in Requests : Cardinality(Paid(r))' \in Nat /\ CostsTyped(r)'
  <2>1. CountsInNat'
    BY CountsTyped, PTL
  <2> QED BY <2>1 DEF CountsInNat
<1>3. ASSUME NEW R \in SUBSET Requests, IsFiniteSet(R)
      PROVE  CallsOf(R) \in Nat /\ CallsOf(R)' \in Nat /\ CallsOf(R)' <= CallsOf(R)
  <2> DEFINE f == [r \in R |-> Cardinality(Paid(r))]
             e == [r \in R |-> Cardinality(Paid(r))']
  <2>1. CallsOf(R) = SumFunctionOnSet(f, R) /\ CallsOf(R)' = SumFunctionOnSet(e, R)
    BY DEF CallsOf, SumFunction
  <2>2. \A r \in R : f[r] \in Nat /\ e[r] \in Nat /\ e[r] <= f[r]
    BY <1>1, <1>2
  <2> HIDE DEF f, e
  <2> QED BY <1>3, <2>1, <2>2, SumMonotone, SumType
<1>4. ASSUME NEW z \in Charges PROVE Owed(z) \in Nat /\ Owed(z)' \in Nat /\ Owed(z)' <= Owed(z)
  <2> DEFINE f == [r \in Requests |-> CostAt(z, r)]
             e == [r \in Requests |-> CostAt(z, r)']
  <2>1. Owed(z) = SumFunctionOnSet(f, Requests) /\ Owed(z)' = SumFunctionOnSet(e, Requests)
    BY DEF Owed, SumFunction
  <2>2. \A r \in Requests : f[r] \in Nat /\ e[r] \in Nat /\ e[r] <= f[r]
    BY <1>1, <1>2 DEF CostsTyped, CostsNoMore
  <2> HIDE DEF f, e
  <2> QED BY <2>1, <2>2, SumMonotone, SumType, RequestFacts
<1>5. VerifierRequests \in SUBSET Requests /\ ReportRequests \in SUBSET Requests
  BY RequestFacts
<1>6. /\ CallsOf(VerifierRequests) \in Nat /\ CallsOf(VerifierRequests)' \in Nat
      /\ CallsOf(VerifierRequests)' <= CallsOf(VerifierRequests)
      /\ CallsOf(ReportRequests) \in Nat /\ CallsOf(ReportRequests)' \in Nat
      /\ CallsOf(ReportRequests)' <= CallsOf(ReportRequests)
  BY <1>3, <1>5, RequestFacts
<1>7. CallsOf(VerifierRequests)' <= MaxVerifierCalls /\ CallsOf(ReportRequests)' <= MaxReportCalls
  BY <1>6, AblationAssumption DEF BudgetsHold
<1>8. Billable' <= MaxCost /\ Exposed' <= MaxCost + (LostCharge - Reserve)
  <2>1. /\ Billable \in Nat /\ Billable' \in Nat /\ Billable' <= Billable
        /\ Exposed \in Nat /\ Exposed' \in Nat /\ Exposed' <= Exposed
    BY <1>4 DEF Billable, Exposed, Charges
  <2> QED BY <2>1, ChargesCover DEF BudgetsHold
<1> QED BY <1>7, <1>8 DEF BudgetsHold

\* Answers that were given stay, and with them the reports that rest on them.
LEMMA ReportsStay ==
    ASSUME ReportsRest, RowsRest, NEW r \in Requests, ~Recoveries(r),
           \A q \in Requests : q # r => attempts'[q] = attempts[q],
           r[2] = ReportSubject => ~Recoveries(r)',
           \A c \in Conditions : rows'[c].status = "ok" => rows'[c] = rows[c]
    PROVE  ReportsRest' /\ RowsRest'
<1>1. ASSUME NEW c \in Conditions, LatestIs(<<c, ReportSubject>>, {"succeeded"})
      PROVE  /\ \A s \in SubjectsOf(c) : /\ attempts'[<<c, s>>] = attempts[<<c, s>>]
                                         /\ LatestIs(<<c, s>>, {"succeeded"})'
                                         /\ Latest(<<c, s>>)' = Latest(<<c, s>>)
             /\ Prepared(c)' = Prepared(c)
             /\ Latest(<<c, ReportSubject>>).included = Prepared(c)
             /\ ReportSubject \in SubjectsOf(c)
  <2>1. ASSUME NEW s \in SubjectsOf(c)
        PROVE  /\ attempts'[<<c, s>>] = attempts[<<c, s>>] /\ LatestIs(<<c, s>>, {"succeeded"})'
               /\ Latest(<<c, s>>)' = Latest(<<c, s>>)
    <3>1. <<c, s>> \in Requests
      BY RequestFacts
    <3>2. LatestIs(<<c, s>>, {"succeeded"})
      BY <1>1, <2>1 DEF ReportsRest
    <3>3. <<c, s>> # r
      BY <3>2 DEF Recoveries
    <3>4. attempts'[<<c, s>>] = attempts[<<c, s>>]
      BY <3>1, <3>3
    <3> QED BY <3>2, <3>4 DEF LatestIs, Latest
  <2>2. Variant(c) \in {"V-on", "V-off"} /\ (Variant(c) = "V-on" => ClaimIds \subseteq SubjectsOf(c))
        /\ ReportSubject \in SubjectsOf(c)
    BY StudyFacts
  <2>3. Prepared(c)' = Prepared(c)
    BY <2>1, <2>2 DEF Prepared, Variant
  <2> QED BY <1>1, <2>1, <2>2, <2>3 DEF ReportsRest
<1>2. ASSUME NEW c \in Conditions, LatestIs(<<c, ReportSubject>>, {"succeeded"})'
      PROVE  LatestIs(<<c, ReportSubject>>, {"succeeded"})
  <2>1. <<c, ReportSubject>> \in Requests
    BY RequestFacts, StudyFacts
  <2>2. CASE <<c, ReportSubject>> = r
    BY <1>2, <2>2 DEF Recoveries
  <2>3. CASE <<c, ReportSubject>> # r
    <3>1. attempts'[<<c, ReportSubject>>] = attempts[<<c, ReportSubject>>]
      BY <2>1, <2>3
    <3> QED BY <1>2, <3>1 DEF LatestIs, Latest
  <2> QED BY <2>2, <2>3
<1>3. ReportsRest'
  <2>1. \A c \in Conditions : LatestIs(<<c, ReportSubject>>, {"succeeded"})' =>
           /\ \A s \in SubjectsOf(c) : LatestIs(<<c, s>>, {"succeeded"})'
           /\ Latest(<<c, ReportSubject>>)'.included = Prepared(c)'
    BY <1>1, <1>2
  <2> QED BY <2>1 DEF ReportsRest
<1>4. RowsRest'
  <2>1. ASSUME NEW c \in Conditions, rows'[c].status = "ok"
        PROVE  /\ LatestIs(<<c, ReportSubject>>, {"succeeded"})'
               /\ Latest(<<c, ReportSubject>>)'.included = rows'[c].included
    <3>1. rows'[c] = rows[c]
      BY <2>1
    <3>2. LatestIs(<<c, ReportSubject>>, {"succeeded"}) /\ Latest(<<c, ReportSubject>>).included = rows[c].included
      BY <2>1, <3>1 DEF RowsRest
    <3> QED BY <1>1, <3>1, <3>2
  <2> QED BY <2>1 DEF RowsRest
<1> QED BY <1>3, <1>4

-----------------------------------------------------------------------------
\* Where the process is, its request is one of the frozen ones and was prepared.
LEMMA RequestInHand ==
    ASSUME AblationInv, step # "down"
    PROVE  /\ This \in Requests /\ cond \in Conditions /\ subject \in SubjectsOf(cond)
           /\ attempts[This] \in Seq(AttemptRecords)
           /\ step \in {"work", "dispatched", "sent"} =>
                 /\ attempts[This] # <<>> /\ Latest(This) \in AttemptRecords
                 /\ RecordIsSound(Latest(This))
<1>1. cond \in Conditions /\ subject \in SubjectsOf(cond)
  BY DEF AblationInv, PlaceIsSound
<1>2. This \in Requests
  BY <1>1, RequestFacts DEF This
<1>3. attempts[This] \in Seq(AttemptRecords)
  BY <1>2 DEF AblationInv, AttemptTypes
<1>4. ASSUME step \in {"work", "dispatched", "sent"}
      PROVE  attempts[This] # <<>> /\ Latest(This) \in AttemptRecords /\ RecordIsSound(Latest(This))
  <2>1. attempts[This] # <<>>
    BY <1>4 DEF AblationInv, WorkIsReady, Ready, LatestIs, This
  <2>2. Len(attempts[This]) \in 1 .. Len(attempts[This])
    BY <1>3, <2>1, EmptySeq, LenProperties
  <2>3. Latest(This) \in AttemptRecords
    BY <1>3, <2>2, LenProperties DEF Latest
  <2> QED BY <1>2, <2>1, <2>2, <2>3 DEF AblationInv, AttemptsAreSound, Latest
<1> QED BY <1>1, <1>2, <1>3, <1>4

\* A step that rewrites the record in hand, and records a row or none.
Rewrites(r, new) ==
    /\ r = This /\ step \in {"work", "dispatched", "sent"} /\ ~Recoveries(r)
    /\ RecordIsSound(new) /\ Rewrite(r, new)
    /\ rows' = [c \in Conditions |-> rows'[c]] /\ sent' = sent /\ retries' = retries

LEMMA RewriteKeeps ==
    ASSUME AblationInv, NEW r \in Requests, NEW new \in AttemptRecords, Rewrites(r, new)
    PROVE  /\ AttemptTypes' /\ AttemptsAreSound'
           /\ attempts[r] # <<>> /\ attempts'[r] # <<>> /\ Latest(r)' = new
           /\ \A S : LatestIs(r, S)' <=> new.state \in S
           /\ \A q \in Requests : q # r => attempts'[q] = attempts[q]
           /\ Latest(r) \in AttemptRecords /\ RecordIsSound(Latest(r))
<1>1. attempts[r] # <<>> /\ Latest(r) \in AttemptRecords /\ RecordIsSound(Latest(r))
  BY RequestInHand DEF Rewrites
<1>2. /\ attempts' \in [Requests -> Seq(AttemptRecords)]
      /\ attempts'[r] # <<>> /\ Len(attempts'[r]) = Len(attempts[r])
      /\ Latest(r)' = new
      /\ attempts'[r][Len(attempts[r])] = new
      /\ \A i \in 1 .. Len(attempts[r]) : i # Len(attempts[r]) => attempts'[r][i] = attempts[r][i]
      /\ \A q \in Requests : q # r => attempts'[q] = attempts[q]
  BY <1>1, RewriteChangesOne DEF AblationInv, Rewrites
<1>3. AttemptTypes'
  BY <1>2 DEF AttemptTypes, AblationInv, Rewrites
<1>4. \A S : LatestIs(r, S)' <=> new.state \in S
  BY <1>2 DEF LatestIs
<1>5. ASSUME NEW q \in Requests, NEW i \in 1 .. Len(attempts'[q])
      PROVE  RecordIsSound(attempts'[q][i]) /\ (i < Len(attempts'[q]) => attempts'[q][i].state # "succeeded")
  <2>1. CASE q # r
    <3>1. attempts'[q] = attempts[q]
      BY <1>2, <2>1
    <3> QED BY <1>5, <3>1 DEF AblationInv, AttemptsAreSound
  <2>2. CASE q = r /\ i = Len(attempts[r])
    BY <1>2, <2>2 DEF Rewrites
  <2>3. CASE q = r /\ i # Len(attempts[r])
    <3>1. i \in 1 .. Len(attempts[r]) /\ Len(attempts'[q]) = Len(attempts[r])
      BY <1>2, <1>5, <2>3
    <3>2. attempts'[q][i] = attempts[r][i]
      BY <1>2, <2>3, <3>1
    <3> QED BY <3>1, <3>2 DEF AblationInv, AttemptsAreSound
  <2> QED BY <2>1, <2>2, <2>3
<1>6. AttemptsAreSound'
  BY <1>5 DEF AttemptsAreSound
<1> QED BY <1>1, <1>2, <1>3, <1>4, <1>6

\* Products of numbers.
LEMMA TimesGrows ==
    ASSUME NEW p \in Nat, NEW a \in Nat, NEW b \in Nat, a <= b
    PROVE  p * a \in Nat /\ p * b \in Nat /\ p * a <= p * b
OBVIOUS
LEMMA TimesStep ==
    ASSUME NEW p \in Nat, NEW a \in Nat
    PROVE  p * a \in Nat /\ p * (a + 1) = p * a + p
OBVIOUS

\* The latest record is counted by what it says.
LEMMA LatestIsCounted ==
    ASSUME AttemptTypes, NEW r \in Requests, attempts[r] # <<>>
    PROVE  /\ Len(attempts[r]) \in Paid(r) <=> Latest(r).calls > 0
           /\ Len(attempts[r]) \in Unmetered(r) <=> Latest(r).calls > 0 /\ ~Latest(r).metered
<1>1. Len(attempts[r]) \in DOMAIN attempts[r]
  BY EmptySeq, LenProperties DEF AttemptTypes
<1> QED BY <1>1 DEF Paid, Unmetered, Latest

\* A call is counted in full before it goes out.
LEMMA CallAdded ==
    ASSUME AblationInv, NEW r \in Requests, NEW new \in AttemptRecords, Rewrites(r, new),
           Latest(r).calls = 0, new.calls = 1, ~new.metered
    PROVE  Cardinality(Paid(r))' = Cardinality(Paid(r)) + 1 /\ CostsOneMore(r)
<1> DEFINE n == Len(attempts[r])
           m == Cardinality(Paid(r) \ Unmetered(r))
           u == Cardinality(Unmetered(r))
<1>1. AttemptTypes /\ attempts[r] # <<>>
  BY RewriteKeeps DEF AblationInv
<1>2. Paid(r)' = Paid(r) \cup {n} /\ Unmetered(r)' = Unmetered(r) \cup {n}
  BY <1>1, RewriteCounts DEF Rewrites
<1>3. n \notin Paid(r) /\ n \notin Unmetered(r)
  BY <1>1, LatestIsCounted
<1>4. /\ IsFiniteSet(Paid(r)) /\ Cardinality(Paid(r)) \in Nat
      /\ IsFiniteSet(Unmetered(r)) /\ m \in Nat /\ u \in Nat
  BY <1>1, CountsAreNumbers
<1> HIDE DEF n
<1>5. Cardinality(Paid(r))' = Cardinality(Paid(r)) + 1 /\ Cardinality(Unmetered(r))' = u + 1
  <2>1. Cardinality(Paid(r) \cup {n}) = Cardinality(Paid(r)) + 1
    BY <1>3, <1>4, FS_AddElement
  <2>2. Cardinality(Unmetered(r) \cup {n}) = u + 1
    BY <1>3, <1>4, FS_AddElement
  <2> QED BY <1>2, <2>1, <2>2
<1>6. (Paid(r) \ Unmetered(r))' = Paid(r) \ Unmetered(r)
  BY <1>2, <1>3
<1>7. ASSUME NEW z \in Charges
      PROVE  CostAt(z, r)' = CallPrice * m + z * (u + 1) /\ CostAt(z, r) = CallPrice * m + z * u
  BY <1>5, <1>6 DEF CostAt
<1> HIDE DEF m, u
<1>8. CallPrice \in Nat /\ \A z \in Charges : z \in Nat
  BY ChargesCover
<1>9. ASSUME NEW z \in Charges PROVE CostAt(z, r)' = CostAt(z, r) + z
  <2>1. z * (u + 1) = z * u + z /\ z * u \in Nat /\ CallPrice * m \in Nat
    BY <1>4, <1>8, TimesStep
  <2> DEFINE x == z * u
             y == CallPrice * m
             w == z * (u + 1)
  <2>2. w = x + z /\ x \in Nat /\ y \in Nat /\ CostAt(z, r)' = y + w /\ CostAt(z, r) = y + x
    BY <1>7, <2>1
  <2> HIDE DEF x, y, w
  <2> QED BY <2>2, <1>8
<1> QED BY <1>5, <1>9 DEF CostsOneMore

\* A call that did not go out is taken back.
LEMMA CallDropped ==
    ASSUME AblationInv, NEW r \in Requests, NEW new \in AttemptRecords, Rewrites(r, new), new.calls = 0
    PROVE  /\ Cardinality(Paid(r))' <= Cardinality(Paid(r)) /\ CostsNoMore(r)
           /\ Cardinality(Paid(r)) <= Cardinality(Paid(r))' + 1
           /\ Latest(r).calls = 0 => Cardinality(Paid(r))' = Cardinality(Paid(r))
<1> DEFINE n == Len(attempts[r])
<1>1. AttemptTypes /\ attempts[r] # <<>>
  BY RewriteKeeps DEF AblationInv
<1>2. Paid(r)' = Paid(r) \ {n} /\ Unmetered(r)' = Unmetered(r) \ {n}
  BY <1>1, RewriteCounts DEF Rewrites
<1>3. Latest(r).calls = 0 => n \notin Paid(r)
  BY <1>1, LatestIsCounted
<1>4. /\ IsFiniteSet(Paid(r)) /\ Cardinality(Paid(r)) \in Nat
      /\ IsFiniteSet(Unmetered(r)) /\ IsFiniteSet(Paid(r) \ Unmetered(r))
      /\ Cardinality(Paid(r) \ Unmetered(r)) \in Nat /\ Cardinality(Unmetered(r)) \in Nat
  BY <1>1, CountsAreNumbers
<1> HIDE DEF n
<1>5. /\ Cardinality(Paid(r))' <= Cardinality(Paid(r)) /\ Cardinality(Paid(r)) <= Cardinality(Paid(r))' + 1
      /\ Latest(r).calls = 0 => Cardinality(Paid(r))' = Cardinality(Paid(r))
  <2>1. CASE n \in Paid(r)
    <3>1. Cardinality(Paid(r) \ {n}) = Cardinality(Paid(r)) - 1
      BY <1>4, <2>1, FS_RemoveElement
    <3>2. Cardinality(Paid(r))' = Cardinality(Paid(r)) - 1
      BY <1>2, <3>1
    <3> QED BY <1>3, <1>4, <2>1, <3>2
  <2>2. CASE n \notin Paid(r)
    <3>1. Paid(r)' = Paid(r)
      BY <1>2, <2>2
    <3> QED BY <1>4, <3>1
  <2> QED BY <2>1, <2>2
<1>6. (Paid(r) \ Unmetered(r))' \subseteq Paid(r) \ Unmetered(r) /\ Unmetered(r)' \subseteq Unmetered(r)
  BY <1>2
<1>7. /\ Cardinality(Paid(r) \ Unmetered(r))' \in Nat /\ Cardinality(Unmetered(r))' \in Nat
      /\ Cardinality(Paid(r) \ Unmetered(r))' <= Cardinality(Paid(r) \ Unmetered(r))
      /\ Cardinality(Unmetered(r))' <= Cardinality(Unmetered(r))
  BY <1>4, <1>6, FS_Subset, FS_CardinalityType
<1>8. CallPrice \in Nat /\ \A z \in Charges : z \in Nat
  BY ChargesCover
<1>9. ASSUME NEW z \in Charges PROVE CostAt(z, r)' <= CostAt(z, r)
  BY <1>4, <1>7, <1>8, TimesGrows DEF CostAt
<1> QED BY <1>5, <1>9 DEF CostsNoMore

\* An outcome never costs more than the reserve the call was counted with.
LEMMA CallStays ==
    ASSUME AblationInv, NEW r \in Requests, NEW new \in AttemptRecords, Rewrites(r, new),
           Latest(r).calls = 1, ~Latest(r).metered, new.calls = 1
    PROVE  Cardinality(Paid(r))' = Cardinality(Paid(r)) /\ CostsNoMore(r)
<1> DEFINE n == Len(attempts[r])
           M == Paid(r) \ Unmetered(r)
<1>1. AttemptTypes /\ attempts[r] # <<>>
  BY RewriteKeeps DEF AblationInv
<1>2. n \in Paid(r) /\ n \in Unmetered(r)
  BY <1>1, LatestIsCounted
<1>3. /\ Paid(r)' = Paid(r)
      /\ Unmetered(r)' = IF new.metered THEN Unmetered(r) \ {n} ELSE Unmetered(r)
  <2>1. /\ Paid(r)' = Paid(r) \cup {n}
        /\ Unmetered(r)' = IF ~new.metered THEN Unmetered(r) \cup {n} ELSE Unmetered(r) \ {n}
    BY <1>1, RewriteCounts DEF Rewrites
  <2> QED BY <1>2, <2>1
<1>4. IsFiniteSet(Unmetered(r)) /\ IsFiniteSet(M) /\ Cardinality(M) \in Nat /\ Cardinality(Unmetered(r)) \in Nat
      /\ CostsTyped(r)
  BY <1>1, CountsAreNumbers
<1> HIDE DEF n
<1>5. CASE ~new.metered
  <2>1. \A z \in Charges : CostAt(z, r)' = CostAt(z, r)
    BY <1>3, <1>5 DEF CostAt
  <2> QED BY <1>3, <1>4, <2>1 DEF CostsTyped, CostsNoMore
<1>6. CASE new.metered
  <2>1. Unmetered(r)' = Unmetered(r) \ {n} /\ (Paid(r) \ Unmetered(r))' = M \cup {n} /\ n \notin M
    BY <1>2, <1>3, <1>6
  <2> DEFINE m == Cardinality(M)
             u == Cardinality(Unmetered(r) \ {n})
  <2> HIDE DEF M
  <2>2. Cardinality(M \cup {n}) = m + 1
    BY <1>4, <2>1, FS_AddElement
  <2>3. Cardinality(Unmetered(r)) = u + 1 /\ u \in Nat
    <3>1. IsFiniteSet(Unmetered(r) \ {n}) /\ u = Cardinality(Unmetered(r)) - 1
      BY <1>2, <1>4, FS_RemoveElement
    <3> HIDE DEF u
    <3>2. u \in Nat
      BY <3>1, FS_CardinalityType DEF u
    <3> QED BY <1>4, <3>1, <3>2
  <2> HIDE DEF m, u
  <2>4. \A z \in Charges : /\ CostAt(z, r) = CallPrice * m + z * (u + 1)
                            /\ CostAt(z, r)' = CallPrice * (m + 1) + z * u
    BY <2>1, <2>2, <2>3 DEF CostAt, M, m, u
  <2>5. m \in Nat /\ CallPrice \in Nat /\ \A z \in Charges : z \in Nat /\ CallPrice <= z
    BY <1>4, ChargesCover DEF m
  <2>6. ASSUME NEW z \in Charges PROVE CostAt(z, r)' <= CostAt(z, r)
    <3>1. z * (u + 1) = z * u + z /\ CallPrice * (m + 1) = CallPrice * m + CallPrice
          /\ z * u \in Nat /\ CallPrice * m \in Nat
      BY <2>3, <2>5, TimesStep
    <3>2. \A x, y \in Nat : y + CallPrice + x <= y + (x + z)
      BY <2>5
    <3> QED BY <2>4, <3>1, <3>2
  <2> QED BY <1>3, <2>6 DEF CostsNoMore
<1> QED BY <1>5, <1>6

\* Where every request keeps at least the calls that were counted, so does the ledger.
LEMMA CallsStayCounted ==
    ASSUME AblationInv, sent' = sent, step' # "dispatched", AttemptTypes',
           NEW r \in Requests, \A q \in Requests : q # r => attempts'[q] = attempts[q],
           \/ Cardinality(Paid(r))' >= Cardinality(Paid(r))
           \/ step = "dispatched" /\ r = This /\ Cardinality(Paid(r)) <= Cardinality(Paid(r))' + 1
    PROVE  CallsAreCounted'
<1>1. CountsInNat /\ CountsInNat'
  <2>1. CountsInNat
    BY CountsTyped DEF AblationInv
  <2>2. CountsInNat'
    BY CountsTyped, PTL
  <2> QED BY <2>1, <2>2
<1>2. ASSUME NEW q \in Requests PROVE sent[q] <= Cardinality(Paid(q))'
  <2>1. sent[q] \in Nat /\ sent[q] <= Cardinality(Paid(q))
    BY DEF AblationInv, AttemptTypes, CallsAreCounted, LedgerCoversCalls
  <2>2. Cardinality(Paid(q)) \in Nat /\ Cardinality(Paid(q))' \in Nat
    BY <1>1 DEF CountsInNat
  <2>3. CASE q # r
    BY <2>1, <2>3, SameRecords
  <2>4. CASE q = r /\ Cardinality(Paid(r))' >= Cardinality(Paid(r))
    BY <2>1, <2>2, <2>4
  <2>5. CASE q = r /\ step = "dispatched" /\ r = This /\ Cardinality(Paid(r)) <= Cardinality(Paid(r))' + 1
    <3>1. sent[q] + 1 <= Cardinality(Paid(q))
      BY <2>5 DEF AblationInv, CallsAreCounted
    <3> QED BY <2>1, <2>2, <2>5, <3>1
  <2> QED BY <2>3, <2>4, <2>5
<1> QED BY <1>2 DEF CallsAreCounted, LedgerCoversCalls

\* A step that sends nothing and opens no request again keeps what may be sent.
LEMMA ResendKept ==
    ASSUME AblationInv, sent' = sent, retries' = retries, step' # "dispatched",
           \A q \in Requests : attempts'[q] = <<>> \/ LatestIs(q, {"intent", "skipped"})' => sent[q] <= retries,
           step' = "down" \/ (retry' = retry /\ step # "down" /\ \A q \in Requests : Ahead(q)' => Ahead(q))
    PROVE  ResendIsAllowed'
<1>1. \A q \in Requests : sent[q] <= retries + 1
  BY DEF AblationInv, ResendIsAllowed
<1>2. ASSUME NEW q \in Requests, step' # "down", retry', Ahead(q)' PROVE sent[q] <= retries
  BY <1>2 DEF AblationInv, ResendIsAllowed
<1> QED BY <1>1, <1>2 DEF ResendIsAllowed

\* Turning to another condition leaves fewer requests ahead.
LEMMA TurningLeavesFewer ==
    ASSUME AblationInv, step # "down", StopProcess \/ TurnsOn
    PROVE  /\ step' # "dispatched" /\ PlaceIsSound' /\ WorkIsReady'
           /\ step' = "down" \/ (retry' = retry /\ \A q \in Requests : Ahead(q)' => Ahead(q))
<1>1. CASE StopProcess
  BY <1>1 DEF StopProcess, PlaceIsSound, WorkIsReady
<1>2. CASE TurnsOn
  <2>1. FirstSubject(cond') \in SubjectsOf(cond') /\ SubjectsOf(cond') \subseteq Nat
    <3>1. cond' \in Conditions
      BY <1>2 DEF TurnsOn
    <3> QED BY <3>1, StudyFacts
  <2>2. PlaceIsSound'
    BY <1>2, <2>1 DEF TurnsOn, PlaceIsSound, SubjectsOf
  <2>3. \A s \in SubjectsOf(cond') : ~(s < FirstSubject(cond'))
    <3>1. cond' \in Conditions
      BY <1>2 DEF TurnsOn
    <3> QED BY <3>1, StudyFacts
  <2>4. WorkIsReady'
    BY <1>2, <2>3 DEF TurnsOn, WorkIsReady, SubjectsOf
  <2>5. \A q \in Requests : Ahead(q)' => Ahead(q)
    BY <1>2 DEF TurnsOn, Ahead
  <2> QED BY <1>2, <2>2, <2>4, <2>5 DEF TurnsOn
<1> QED BY <1>1, <1>2

\* A row of a condition that failed is no row to rely on.
LEMMA FailedRowIsNone ==
    ASSUME AblationInv, step # "down", NEW row, row.status # "ok", RecordRow(row)
    PROVE  /\ rows' = [c \in Conditions |-> rows'[c]]
           /\ \A c \in Conditions : rows'[c].status = "ok" => rows'[c] = rows[c]
<1>1. rows' = [rows EXCEPT ![cond] = row] /\ cond \in Conditions
  BY RowEndsCondition, RequestInHand
<1>2. rows = [c \in Conditions |-> rows[c]]
  BY DEF AblationInv, AttemptTypes
<1>3. rows' = [c \in Conditions |-> IF c = cond THEN row ELSE rows[c]]
  BY <1>1, <1>2
<1> QED BY <1>3

\* A step that rewrites the record in hand and ends the service of the condition.
LEMMA FailureKeeps ==
    ASSUME AblationInv, NEW r \in Requests, NEW new \in AttemptRecords, r = This,
           step \in {"work", "dispatched", "sent"}, ~Recoveries(r), RecordIsSound(new), Rewrite(r, new),
           new.state # "succeeded", new.state \in {"intent", "skipped"} => sent[r] <= retries,
           NEW row, row.status # "ok", RecordRow(row), UNCHANGED <<policy, starts, retries, sent>>,
           \/ Latest(r).calls = 1 /\ ~Latest(r).metered /\ new.calls = 1
           \/ new.calls = 0 /\ (Latest(r).calls = 0 \/ step = "dispatched")
    PROVE  AblationInv'
<1>1. /\ rows' = [c \in Conditions |-> rows'[c]]
      /\ \A c \in Conditions : rows'[c].status = "ok" => rows'[c] = rows[c]
  BY FailedRowIsNone
<1>2. Rewrites(r, new)
  BY <1>1 DEF Rewrites
<1>3. /\ AttemptTypes' /\ AttemptsAreSound' /\ attempts'[r] # <<>>
      /\ \A S : LatestIs(r, S)' <=> new.state \in S
      /\ \A q \in Requests : q # r => attempts'[q] = attempts[q]
  BY <1>2, RewriteKeeps
<1>4. /\ step' # "dispatched" /\ PlaceIsSound' /\ WorkIsReady'
      /\ step' = "down" \/ (retry' = retry /\ \A q \in Requests : Ahead(q)' => Ahead(q))
  BY RowEndsCondition, TurningLeavesFewer
<1>5. ResendIsAllowed'
  <2>1. ASSUME NEW q \in Requests, attempts'[q] = <<>> \/ LatestIs(q, {"intent", "skipped"})'
        PROVE  sent[q] <= retries
    <3>1. CASE q = r
      BY <1>3, <2>1, <3>1
    <3>2. CASE q # r
      <4>1. attempts'[q] = attempts[q]
        BY <1>3, <3>2
      <4> QED BY <2>1, <4>1 DEF LatestIs, Latest, AblationInv, ResendIsAllowed
    <3> QED BY <3>1, <3>2
  <2> QED BY <1>4, <2>1, ResendKept
<1>6. /\ Cardinality(Paid(r))' <= Cardinality(Paid(r)) /\ CostsNoMore(r)
      /\ \/ Cardinality(Paid(r))' = Cardinality(Paid(r))
         \/ step = "dispatched" /\ Cardinality(Paid(r)) <= Cardinality(Paid(r))' + 1
  <2>1. CASE Latest(r).calls = 1 /\ ~Latest(r).metered /\ new.calls = 1
    <3>1. Cardinality(Paid(r))' = Cardinality(Paid(r)) /\ CostsNoMore(r)
      BY <1>2, <2>1, CallStays
    <3>2. Cardinality(Paid(r)) \in Nat
      BY CountsAreNumbers DEF AblationInv
    <3> QED BY <3>1, <3>2
  <2>2. CASE new.calls = 0 /\ (Latest(r).calls = 0 \/ step = "dispatched")
    BY <1>2, <2>2, CallDropped
  <2> QED BY <2>1, <2>2
<1>7. CountsInNat /\ CountsInNat'
  <2>1. CountsInNat
    BY CountsTyped DEF AblationInv
  <2>2. CountsInNat'
    BY <1>3, CountsTyped, PTL
  <2> QED BY <2>1, <2>2
<1>8. BudgetsHold'
  <2>1. ASSUME NEW q \in Requests
        PROVE  Cardinality(Paid(q))' <= Cardinality(Paid(q)) /\ CostsNoMore(q)
    <3>1. CASE q = r
      BY <1>6, <3>1
    <3>2. CASE q # r
      <4>1. Cardinality(Paid(q))' = Cardinality(Paid(q)) /\ CostsSame(q)
        BY <1>3, <3>2, SameRecords
      <4> QED BY <1>7, <4>1, SameIsNoMore DEF CountsInNat
    <3> QED BY <3>1, <3>2
  <2> QED BY <1>3, <2>1, BudgetsKept DEF AblationInv
<1>9. CallsAreCounted'
  <2>1. Cardinality(Paid(r)) \in Nat
    BY <1>7 DEF CountsInNat
  <2>2. \/ Cardinality(Paid(r))' >= Cardinality(Paid(r))
        \/ step = "dispatched" /\ r = This /\ Cardinality(Paid(r)) <= Cardinality(Paid(r))' + 1
    BY <1>6, <2>1
  <2> QED BY <1>3, <1>4, <2>2, CallsStayCounted
<1>10. ReportsRest' /\ RowsRest'
  <2>1. ~Recoveries(r)'
    BY <1>3 DEF Recoveries
  <2> QED BY <1>1, <1>3, <2>1, ReportsStay DEF AblationInv
<1> QED BY <1>3, <1>4, <1>5, <1>8, <1>9, <1>10 DEF AblationInv

LEMMA AblationInitially == AblationInit => AblationInv
<1> SUFFICES ASSUME AblationInit PROVE AblationInv
  OBVIOUS
<1>1. attempts \in [Requests -> Seq(AttemptRecords)] /\ \A r \in Requests : attempts[r] = <<>>
  BY EmptySeq DEF AblationInit
<1>2. AttemptTypes /\ sent \in [Requests -> Nat] /\ \A r \in Requests : sent[r] = 0
  BY <1>1 DEF AblationInit, AttemptTypes
<1>3. \A r \in Requests : \A S : ~LatestIs(r, S)
  BY <1>1 DEF LatestIs
<1>4. AttemptsAreSound
  BY <1>1, EmptySeq DEF AttemptsAreSound
<1>5. PlaceIsSound /\ WorkIsReady
  BY DEF AblationInit, PlaceIsSound, WorkIsReady
<1>6. ResendIsAllowed
  BY <1>2 DEF AblationInit, ResendIsAllowed
<1>7. \A r \in Requests : Cardinality(Paid(r)) = 0 /\ \A z \in Charges : CostAt(z, r) = 0
  <2> SUFFICES ASSUME NEW r \in Requests
               PROVE  Cardinality(Paid(r)) = 0 /\ \A z \in Charges : CostAt(z, r) = 0
    OBVIOUS
  <2>1. Paid(r) = {} /\ Unmetered(r) = {}
    BY <1>1, EmptySeq DEF Paid, Unmetered
  <2>2. Cardinality({}) = 0
    BY FS_EmptySet
  <2>3. \A z \in Charges : CostAt(z, r) = CallPrice * 0 + z * 0
    BY <2>1, <2>2 DEF CostAt
  <2> QED BY <2>1, <2>2, <2>3, ChargesCover
<1>8. CallsAreCounted
  BY <1>2, <1>7 DEF CallsAreCounted, LedgerCoversCalls, AblationInit
<1>9. ASSUME NEW R \in SUBSET Requests, IsFiniteSet(R) PROVE CallsOf(R) = 0
  <2> DEFINE f == [r \in R |-> Cardinality(Paid(r))]
  <2>1. CallsOf(R) = SumFunctionOnSet(f, R) /\ \A r \in R : f[r] = 0
    BY <1>7 DEF CallsOf, SumFunction
  <2> HIDE DEF f
  <2> QED BY <1>9, <2>1, SumOfZeros
<1>10. ASSUME NEW z \in Charges PROVE Owed(z) = 0
  <2> DEFINE f == [r \in Requests |-> CostAt(z, r)]
  <2>1. Owed(z) = SumFunctionOnSet(f, Requests) /\ \A r \in Requests : f[r] = 0
    BY <1>7 DEF Owed, SumFunction
  <2> HIDE DEF f
  <2> QED BY <2>1, SumOfZeros, RequestFacts
<1>11. BudgetsHold
  <2>1. VerifierRequests \in SUBSET Requests /\ ReportRequests \in SUBSET Requests
    BY RequestFacts
  <2>2. CallsOf(VerifierRequests) = 0 /\ CallsOf(ReportRequests) = 0
    BY <1>9, <2>1, RequestFacts
  <2>3. Billable = 0 /\ Exposed = 0
    BY <1>10 DEF Charges, Billable, Exposed
  <2> QED BY <2>2, <2>3, AblationAssumption, ChargesCover DEF BudgetsHold
<1>12. ReportsRest
  <2>1. \A c \in Conditions : <<c, ReportSubject>> \in Requests
    BY RequestFacts, StudyFacts
  <2> QED BY <1>3, <2>1 DEF ReportsRest
<1>13. RowsRest
  BY DEF AblationInit, NoRow, RowsRest
<1> QED BY <1>2, <1>4, <1>5, <1>6, <1>8, <1>11, <1>12, <1>13 DEF AblationInv

\* A step that touches no attempt and sends nothing.
LEMMA SameLedger ==
    ASSUME AblationInv, attempts' = attempts, sent' = sent, retries' \in Nat, step' # "dispatched",
           rows' = [c \in Conditions |-> rows'[c]]
    PROVE  AttemptTypes' /\ AttemptsAreSound' /\ CallsAreCounted' /\ BudgetsHold' /\ ReportsRest'
<1>1. AttemptTypes' /\ AttemptsAreSound'
  BY DEF AblationInv, AttemptTypes, AttemptsAreSound
<1>2. /\ \A r : Paid(r)' = Paid(r)
      /\ \A z \in Charges : \A r : CostAt(z, r)' = CostAt(z, r)
  BY SameRecords DEF CostsSame
<1>3. CallsAreCounted'
  BY <1>2 DEF AblationInv, CallsAreCounted, LedgerCoversCalls
<1>4. \A R : CallsOf(R)' = CallsOf(R)
  BY <1>2 DEF CallsOf
<1>5. Billable' = Billable /\ Exposed' = Exposed
  BY <1>2 DEF Billable, Exposed, Owed, Charges
<1>6. BudgetsHold'
  BY <1>4, <1>5 DEF AblationInv, BudgetsHold
<1>7. ReportsRest'
  BY DEF AblationInv, ReportsRest, LatestIs, Latest, Prepared
<1> QED BY <1>1, <1>3, <1>6, <1>7

\* A step that touches no attempt and turns to another condition or stops.
LEMMA TurningKeeps ==
    ASSUME AblationInv, step # "down", attempts' = attempts, sent' = sent, retries' = retries,
           StopProcess \/ TurnsOn, rows' = [c \in Conditions |-> rows'[c]], RowsRest'
    PROVE  AblationInv'
<1>1. /\ step' # "dispatched" /\ PlaceIsSound' /\ WorkIsReady'
      /\ step' = "down" \/ (retry' = retry /\ \A q \in Requests : Ahead(q)' => Ahead(q))
  BY TurningLeavesFewer
<1>2. retries' \in Nat
  BY DEF AblationInv, AttemptTypes
<1>3. AttemptTypes' /\ AttemptsAreSound' /\ CallsAreCounted' /\ BudgetsHold' /\ ReportsRest'
  BY <1>1, <1>2, SameLedger
<1>4. \A q \in Requests : attempts'[q] = <<>> \/ LatestIs(q, {"intent", "skipped"})' => sent[q] <= retries
  BY DEF AblationInv, ResendIsAllowed, LatestIs, Latest
<1>5. ResendIsAllowed'
  BY <1>1, <1>4, ResendKept
<1> QED BY <1>1, <1>3, <1>5 DEF AblationInv

LEMMA RowsAreKept ==
    ASSUME AblationInv, rows' = rows
    PROVE  rows' = [c \in Conditions |-> rows'[c]] /\ (attempts' = attempts => RowsRest')
<1>1. rows' = [c \in Conditions |-> rows'[c]]
  BY DEF AblationInv, AttemptTypes
<1>2. attempts' = attempts => RowsRest'
  BY DEF AblationInv, RowsRest, LatestIs, Latest
<1> QED BY <1>1, <1>2

-----------------------------------------------------------------------------
LEMMA StartKeeps ==
    ASSUME AblationInv, NEW flag \in BOOLEAN, NEW p, Start(flag, p) PROVE AblationInv'
<1>1. cond' \in Conditions \ live' /\ step' = "prepare" /\ subject' = FirstSubject(cond')
  BY NextIsUnserved DEF Start
<1>2. retries' \in Nat /\ retries' >= retries /\ (flag => retries' = retries + 1)
  BY DEF Start, AblationInv, AttemptTypes
<1>3. rows' = [c \in Conditions |-> rows'[c]] /\ RowsRest'
  BY RowsAreKept DEF Start
<1>4. AttemptTypes' /\ AttemptsAreSound' /\ CallsAreCounted' /\ BudgetsHold' /\ ReportsRest'
  BY <1>1, <1>2, <1>3, SameLedger DEF Start
<1>5. FirstSubject(cond') \in SubjectsOf(cond') /\ SubjectsOf(cond') \subseteq Nat
        /\ \A s \in SubjectsOf(cond') : ~(s < FirstSubject(cond'))
  BY <1>1, StudyFacts
<1>6. PlaceIsSound' /\ WorkIsReady'
  BY <1>1, <1>5 DEF PlaceIsSound, WorkIsReady, SubjectsOf
<1>7. ResendIsAllowed'
  <2>1. ASSUME NEW r \in Requests
        PROVE  /\ sent'[r] <= retries' + 1
               /\ attempts'[r] = <<>> \/ LatestIs(r, {"intent", "skipped"})' => sent'[r] <= retries'
               /\ flag => sent'[r] <= retries'
    <3>1. sent'[r] = sent[r] /\ attempts' = attempts /\ sent[r] \in Nat /\ retries \in Nat
      BY DEF Start, AblationInv, AttemptTypes
    <3>2. /\ sent[r] <= retries + 1
          /\ attempts[r] = <<>> \/ LatestIs(r, {"intent", "skipped"}) => sent[r] <= retries
      BY DEF AblationInv, ResendIsAllowed
    <3>3. LatestIs(r, {"intent", "skipped"})' <=> LatestIs(r, {"intent", "skipped"})
      BY <3>1 DEF LatestIs, Latest
    <3> QED BY <1>2, <3>1, <3>2, <3>3
  <2>2. retry' = flag
    BY DEF Start
  <2> QED BY <1>1, <2>1, <2>2 DEF ResendIsAllowed
<1> QED BY <1>3, <1>4, <1>6, <1>7 DEF AblationInv

LEMMA StoppingKeeps ==
    ASSUME AblationInv, Crash \/ BlockResend PROVE AblationInv'
<1>1. step # "down"
  <2>1. CASE Crash
    BY <2>1 DEF Crash, AblationInv, PlaceIsSound
  <2> QED BY <2>1 DEF BlockResend
<1>2. StopProcess /\ attempts' = attempts /\ sent' = sent /\ retries' = retries /\ rows' = rows
  BY DEF Crash, BlockResend
<1> QED BY <1>1, <1>2, RowsAreKept, TurningKeeps

LEMMA UseRecoveredKeeps ==
    ASSUME AblationInv, UseRecovered PROVE AblationInv'
<1>1. attempts' = attempts /\ sent' = sent /\ retries' = retries /\ rows' = rows /\ step' = "work" /\ step = "work"
      /\ cond' = cond /\ subject' = subject + 1 /\ live' = live /\ retry' = retry /\ subject # ReportSubject
  BY DEF UseRecovered
<1>2. retries' \in Nat
  BY <1>1 DEF AblationInv, AttemptTypes
<1>3. AttemptTypes' /\ AttemptsAreSound' /\ CallsAreCounted' /\ BudgetsHold' /\ ReportsRest' /\ RowsRest'
  BY <1>1, <1>2, RowsAreKept, SameLedger
<1>4. /\ cond \in Conditions /\ cond \notin live /\ subject \in SubjectsOf(cond)
      /\ SubjectsOf(cond) = FirstSubject(cond) .. ReportSubject /\ FirstSubject(cond) \in Nat /\ ReportSubject \in Nat
  <2>1. cond \in Conditions /\ cond \notin live /\ subject \in SubjectsOf(cond)
    BY <1>1 DEF AblationInv, PlaceIsSound
  <2> QED BY <2>1, StudyFacts
<1>5. subject + 1 \in SubjectsOf(cond) /\ \A s \in SubjectsOf(cond) : s < subject + 1 => s < subject \/ s = subject
  BY <1>1, <1>4
<1>6. PlaceIsSound'
  BY <1>1, <1>4, <1>5 DEF PlaceIsSound, SubjectsOf
<1>7. WorkIsReady'
  <2>1. \A r, S : LatestIs(r, S)' <=> LatestIs(r, S)
    BY <1>1 DEF LatestIs, Latest
  <2>2. LatestIs(<<cond, subject>>, {"succeeded"})
    BY DEF UseRecovered, Recoveries, This
  <2>3. \A s \in SubjectsOf(cond) : /\ s < subject => LatestIs(<<cond, s>>, {"succeeded"})
                                    /\ s > subject => Ready(cond, s)
    <3>1. step \in {"work", "dispatched", "sent"} /\ WorkIsReady
      BY <1>1 DEF AblationInv
    <3> QED BY <3>1 DEF WorkIsReady
  <2>4. \A s \in SubjectsOf(cond) : /\ s < subject + 1 => LatestIs(<<cond, s>>, {"succeeded"})
                                    /\ s > subject + 1 => Ready(cond, s)
    BY <1>4, <1>5, <2>2, <2>3
  <2>5. Ready(cond, subject + 1)
    <3>1. subject + 1 > subject
      BY <1>4
    <3> QED BY <1>5, <2>3, <3>1
  <2>6. \A s : Ready(cond, s)' <=> Ready(cond, s)
    BY <1>1, <2>1 DEF Ready
  <2> QED BY <1>1, <2>1, <2>4, <2>5, <2>6 DEF WorkIsReady, SubjectsOf
<1>8. ResendIsAllowed'
  <2>1. \A q \in Requests : attempts'[q] = <<>> \/ LatestIs(q, {"intent", "skipped"})' => sent[q] <= retries
    BY <1>1 DEF AblationInv, ResendIsAllowed, LatestIs, Latest
  <2>2. \A q \in Requests : Ahead(q)' => Ahead(q)
    BY <1>1 DEF Ahead
  <2> QED BY <1>1, <2>1, <2>2, ResendKept
<1> QED BY <1>3, <1>6, <1>7, <1>8 DEF AblationInv

-----------------------------------------------------------------------------
\* A request that is about to go out stands as its intent; one that is out, as dispatched.
LEMMA RecordInHand ==
    ASSUME AblationInv, step \in {"work", "dispatched", "sent"}
    PROVE  /\ step = "work" /\ ~Recoveries(This) =>
                 /\ Latest(This).state = "intent" /\ Latest(This).calls = 0 /\ ~Latest(This).metered
                 /\ sent[This] <= retries
           /\ step \in {"dispatched", "sent"} =>
                 /\ Latest(This).state = "dispatched" /\ Latest(This).calls = 1 /\ ~Latest(This).metered
                 /\ ~Recoveries(This)
           /\ \A s \in SubjectsOf(cond) : /\ s < subject => LatestIs(<<cond, s>>, {"succeeded"})
                                          /\ s > subject => Ready(cond, s)
<1>1. /\ This \in Requests /\ attempts[This] # <<>>
      /\ Latest(This) \in AttemptRecords /\ RecordIsSound(Latest(This))
  BY RequestInHand
<1>2. \A s \in SubjectsOf(cond) : /\ s < subject => LatestIs(<<cond, s>>, {"succeeded"})
                                  /\ s > subject => Ready(cond, s)
  BY DEF AblationInv, WorkIsReady
<1>3. ASSUME step = "work", ~Recoveries(This)
      PROVE  /\ Latest(This).state = "intent" /\ Latest(This).calls = 0 /\ ~Latest(This).metered
             /\ sent[This] <= retries
  <2>1. LatestIs(This, {"intent", "succeeded"})
    BY <1>3 DEF AblationInv, WorkIsReady, Ready, This
  <2>2. Latest(This).state = "intent"
    BY <1>3, <2>1 DEF Recoveries, LatestIs
  <2>3. LatestIs(This, {"intent", "skipped"})
    BY <1>1, <2>2 DEF LatestIs
  <2> QED BY <1>1, <2>2, <2>3 DEF RecordIsSound, AblationInv, ResendIsAllowed
<1>4. ASSUME step \in {"dispatched", "sent"}
      PROVE  /\ Latest(This).state = "dispatched" /\ Latest(This).calls = 1 /\ ~Latest(This).metered
             /\ ~Recoveries(This)
  <2>1. Latest(This).state = "dispatched"
    BY <1>4 DEF AblationInv, WorkIsReady, LatestIs
  <2> QED BY <1>1, <2>1 DEF RecordIsSound, Recoveries, LatestIs
<1> QED BY <1>2, <1>3, <1>4

\* The ledger never counts less than the provider can have asked.
LEMMA BillableIsExposed == AttemptTypes => Billable <= Exposed
<1> SUFFICES ASSUME AttemptTypes PROVE Billable <= Exposed
  OBVIOUS
<1> DEFINE f == [r \in Requests |-> CostAt(Reserve, r)]
           e == [r \in Requests |-> CostAt(LostCharge, r)]
<1>1. Billable = SumFunctionOnSet(f, Requests) /\ Exposed = SumFunctionOnSet(e, Requests)
  BY DEF Billable, Exposed, Owed, SumFunction
<1>2. ASSUME NEW r \in Requests
      PROVE  CostAt(Reserve, r) \in Nat /\ CostAt(LostCharge, r) \in Nat
             /\ CostAt(Reserve, r) <= CostAt(LostCharge, r)
  <2> DEFINE m == Cardinality(Paid(r) \ Unmetered(r))
             u == Cardinality(Unmetered(r))
  <2>1. CostsTyped(r) /\ m \in Nat /\ u \in Nat
    BY CountsAreNumbers
  <2>2. CostAt(Reserve, r) = CallPrice * m + Reserve * u /\ CostAt(LostCharge, r) = CallPrice * m + LostCharge * u
    BY DEF CostAt
  <2> HIDE DEF m, u
  <2>3. \A a, b, c \in Nat : b <= c => a + b <= a + c
    OBVIOUS
  <2>4. CallPrice * m \in Nat /\ Reserve * u \in Nat /\ LostCharge * u \in Nat /\ Reserve * u <= LostCharge * u
    BY <2>1, ChargesCover, TimesGrows
  <2> QED BY <2>1, <2>2, <2>3, <2>4 DEF CostsTyped, Charges
<1>3. \A r \in Requests : f[r] \in Nat /\ e[r] \in Nat /\ f[r] <= e[r]
  BY <1>2
<1> HIDE DEF f, e
<1> QED BY <1>1, <1>3, SumMonotone, RequestFacts

\* The check before a dispatch leaves room for this one call.
LEMMA DispatchIsPaid ==
    ASSUME AblationInv, NEW r \in Requests, NEW new \in AttemptRecords, Rewrites(r, new), MayDispatch(r),
           Cardinality(Paid(r))' = Cardinality(Paid(r)) + 1, CostsOneMore(r)
    PROVE  BudgetsHold'
<1>1. /\ AttemptTypes' /\ \A q \in Requests : q # r => attempts'[q] = attempts[q]
  BY RewriteKeeps
<1>2. CountsInNat
  BY CountsTyped DEF AblationInv
<1>3. CountsInNat'
  BY <1>1, CountsTyped, PTL
<1>4. \A q \in Requests : /\ Cardinality(Paid(q)) \in Nat /\ CostsTyped(q)
                          /\ Cardinality(Paid(q))' \in Nat /\ CostsTyped(q)'
                          /\ q # r => Cardinality(Paid(q))' = Cardinality(Paid(q)) /\ CostsSame(q)
  BY <1>1, <1>2, <1>3, SameRecords DEF CountsInNat
<1>5. ASSUME NEW R \in SUBSET Requests, IsFiniteSet(R)
      PROVE  /\ CallsOf(R) \in Nat
             /\ CallsOf(R)' = IF r \in R THEN CallsOf(R) + 1 ELSE CallsOf(R)
  <2> DEFINE f == [q \in R |-> Cardinality(Paid(q))]
             e == [q \in R |-> Cardinality(Paid(q))']
  <2>1. CallsOf(R) = SumFunctionOnSet(f, R) /\ CallsOf(R)' = SumFunctionOnSet(e, R)
    BY DEF CallsOf, SumFunction
  <2>2. \A q \in R : f[q] \in Nat /\ e[q] \in Nat /\ (q # r => e[q] = f[q])
    BY <1>4
  <2>3. r \in R => e[r] = f[r] + 1
    BY DEF f
  <2> HIDE DEF f, e
  <2>4. SumFunctionOnSet(f, R) \in Nat
    BY <1>5, <2>2, SumType
  <2>5. CASE r \in R
    <3>1. SumFunctionOnSet(e, R) = SumFunctionOnSet(f, R) + e[r] - f[r]
      BY <1>5, <2>2, <2>5, SumChange
    <3>2. f[r] \in Nat /\ e[r] = f[r] + 1
      BY <2>2, <2>3, <2>5
    <3> QED BY <2>1, <2>4, <2>5, <3>1, <3>2
  <2>6. CASE r \notin R
    <3>1. SumFunctionOnSet(e, R) = SumFunctionOnSet(f, R)
      BY <1>5, <2>2, <2>6, SumSame
    <3> QED BY <2>1, <2>4, <2>6, <3>1
  <2> QED BY <2>5, <2>6
<1>6. ASSUME NEW z \in Charges PROVE Owed(z) \in Nat /\ Owed(z)' = Owed(z) + z
  <2> DEFINE f == [q \in Requests |-> CostAt(z, q)]
             e == [q \in Requests |-> CostAt(z, q)']
  <2>1. Owed(z) = SumFunctionOnSet(f, Requests) /\ Owed(z)' = SumFunctionOnSet(e, Requests)
    BY DEF Owed, SumFunction
  <2>2. \A q \in Requests : f[q] \in Nat /\ e[q] \in Nat /\ (q # r => e[q] = f[q])
    BY <1>4 DEF CostsTyped, CostsSame
  <2>3. e[r] = f[r] + z /\ f[r] \in Nat
    BY <1>4 DEF CostsTyped, CostsOneMore
  <2> HIDE DEF f, e
  <2>4. SumFunctionOnSet(f, Requests) \in Nat
    BY <2>2, SumType, RequestFacts
  <2>5. SumFunctionOnSet(e, Requests) = SumFunctionOnSet(f, Requests) + e[r] - f[r]
    BY <2>2, SumChange, RequestFacts
  <2> QED BY <2>1, <2>3, <2>4, <2>5, ChargesCover
<1>7. VerifierRequests \in SUBSET Requests /\ ReportRequests \in SUBSET Requests
      /\ IsFiniteSet(VerifierRequests) /\ IsFiniteSet(ReportRequests)
      /\ ((r \in VerifierRequests /\ r \notin ReportRequests) \/ (r \in ReportRequests /\ r \notin VerifierRequests))
  <2>1. VerifierRequests \in SUBSET Requests /\ ReportRequests \in SUBSET Requests
    BY DEF VerifierRequests, ReportRequests
  <2>2. IsFiniteSet(VerifierRequests) /\ IsFiniteSet(ReportRequests)
    BY RequestFacts
  <2>3. (r \in VerifierRequests /\ r \notin ReportRequests) \/ (r \in ReportRequests /\ r \notin VerifierRequests)
    BY DEF VerifierRequests, ReportRequests
  <2> QED BY <2>1, <2>2, <2>3
<1>8. Billable' <= MaxCost /\ Exposed' <= MaxCost + (LostCharge - Reserve)
  <2>1. /\ Exposed \in Nat /\ Exposed' = Exposed + LostCharge
        /\ Billable \in Nat /\ Billable' = Billable + Reserve
    BY <1>6 DEF Exposed, Billable, Charges
  <2>2. Exposed + Reserve <= MaxCost
    BY DEF MayDispatch, WithinCost
  <2>3. Billable <= Exposed
    BY BillableIsExposed DEF AblationInv
  <2> QED BY <2>1, <2>2, <2>3, ChargesCover
<1>9. CallsOf(VerifierRequests)' <= MaxVerifierCalls /\ CallsOf(ReportRequests)' <= MaxReportCalls
  <2>1. CallsOf(VerifierRequests) <= MaxVerifierCalls /\ CallsOf(ReportRequests) <= MaxReportCalls
    BY DEF AblationInv, BudgetsHold
  <2>2. CASE r \in VerifierRequests /\ r \notin ReportRequests
    BY <1>5, <1>7, <2>1, <2>2 DEF MayDispatch, WithinCalls
  <2>3. CASE r \in ReportRequests /\ r \notin VerifierRequests
    BY <1>5, <1>7, <2>1, <2>3 DEF MayDispatch, WithinCalls
  <2> QED BY <1>7, <2>2, <2>3
<1> QED BY <1>8, <1>9 DEF BudgetsHold

LEMMA SkipKeeps ==
    ASSUME AblationInv, SkipForBudget \/ NotSent PROVE AblationInv'
<1> DEFINE new == [Latest(This) EXCEPT !.state = "skipped", !.calls = 0]
<1>1. step \in {"work", "dispatched", "sent"} /\ ~Recoveries(This)
  BY RecordInHand DEF SkipForBudget, NotSent
<1>2. This \in Requests /\ Latest(This) \in AttemptRecords
  BY <1>1, RequestInHand
<1>3. new \in AttemptRecords /\ new.state = "skipped" /\ new.calls = 0
  BY <1>2 DEF AttemptRecords
<1>4. Rewrite(This, new) /\ UNCHANGED <<policy, starts, retries, sent>>
  BY DEF SkipForBudget, NotSent
<1>5. RecordIsSound(new)
  BY <1>3 DEF RecordIsSound
<1>6. sent[This] <= retries /\ (Latest(This).calls = 0 \/ step = "dispatched")
  <2>1. CASE SkipForBudget
    BY <1>1, <2>1, RecordInHand DEF SkipForBudget
  <2>2. CASE NotSent
    BY <2>2 DEF NotSent, AblationInv, ResendIsAllowed
  <2> QED BY <2>1, <2>2
<1>7. \E row : row.status # "ok" /\ RecordRow(row)
  <2> DEFINE skipped == FailedRow(TRUE, FALSE, policy = "stop" => UsageIsKnown)
             refused == FailedRow(subject = ReportSubject, FALSE, TRUE)
  <2>1. skipped.status # "ok" /\ refused.status # "ok"
    BY DEF FailedRow
  <2>2. RecordRow(skipped) \/ RecordRow(refused)
    BY DEF SkipForBudget, NotSent
  <2> HIDE DEF skipped, refused
  <2> QED BY <2>1, <2>2
<1> HIDE DEF new
<1> QED BY <1>1, <1>2, <1>3, <1>4, <1>5, <1>6, <1>7, FailureKeeps

LEMMA FailsKeeps ==
    ASSUME AblationInv,
           \/ \E how \in {"timeout", "lost", "rejected"} : VerifierFails(how)
           \/ \E how \in {"metered", "timeout", "lost", "crashed"} : ReportFails(how)
    PROVE  AblationInv'
<1>1. step = "sent"
  BY DEF VerifierFails, ReportFails
<1>2. This \in Requests /\ Latest(This) \in AttemptRecords
  BY <1>1, RequestInHand
<1>3. ~Recoveries(This) /\ Latest(This).calls = 1 /\ ~Latest(This).metered /\ Latest(This).state = "dispatched"
  BY <1>1, RecordInHand
<1>4. UNCHANGED <<policy, starts, retries, sent>>
  BY DEF VerifierFails, ReportFails
<1>5. ASSUME NEW new \in AttemptRecords, new.state \in {"failed", "unknown"}, new.calls = 1,
             Rewrite(This, new), NEW row, row.status # "ok", RecordRow(row)
      PROVE  AblationInv'
  <2>1. RecordIsSound(new)
    BY <1>5 DEF RecordIsSound
  <2>2. new.state # "succeeded" /\ ~(new.state \in {"intent", "skipped"})
    BY <1>5
  <2> QED BY <1>1, <1>2, <1>3, <1>4, <1>5, <2>1, <2>2, FailureKeeps
<1>6. ASSUME NEW how \in {"timeout", "lost", "rejected"}, VerifierFails(how)
      PROVE  AblationInv'
  <2> DEFINE new == [Latest(This) EXCEPT !.state = IF how = "timeout" THEN "unknown" ELSE "failed",
                                         !.metered = how = "rejected"]
             row == [FailedRow(FALSE, how # "rejected" /\ LostReserve > 0, FALSE)
                     EXCEPT !.status = IF how = "timeout" THEN "timeout" ELSE "failed"]
  <2>1. new \in AttemptRecords /\ new.state \in {"failed", "unknown"} /\ new.calls = 1
    BY <1>2, <1>3 DEF AttemptRecords
  <2>2. row.status # "ok"
    BY DEF FailedRow
  <2>3. Rewrite(This, new) /\ RecordRow(row)
    BY <1>6 DEF VerifierFails
  <2> HIDE DEF new, row
  <2> QED BY <1>5, <2>1, <2>2, <2>3
<1>7. ASSUME NEW how \in {"metered", "timeout", "lost", "crashed"}, ReportFails(how)
      PROVE  AblationInv'
  <2> DEFINE row == [FailedRow(how = "metered", how # "metered" /\ LostReserve > 0, FALSE)
                     EXCEPT !.status = IF how = "timeout" THEN "timeout" ELSE "failed"]
             failed == [Latest(This) EXCEPT !.state = "failed", !.metered = TRUE]
             unknown == [Latest(This) EXCEPT !.state = "unknown"]
  <2>1. row.status # "ok"
    BY DEF FailedRow
  <2>2. /\ failed \in AttemptRecords /\ failed.state = "failed" /\ failed.calls = 1
        /\ unknown \in AttemptRecords /\ unknown.state = "unknown" /\ unknown.calls = 1
    BY <1>2, <1>3 DEF AttemptRecords
  <2>3. RecordRow(row) /\ (Rewrite(This, failed) \/ Rewrite(This, unknown) \/ attempts' = attempts)
    BY <1>7 DEF ReportFails
  <2> HIDE DEF row, failed, unknown
  <2>4. CASE attempts' = attempts
    <3>1. /\ rows' = [c \in Conditions |-> rows'[c]]
          /\ \A c \in Conditions : rows'[c].status = "ok" => rows'[c] = rows[c]
      BY <1>1, <2>1, <2>3, FailedRowIsNone
    <3>2. RowsRest'
      BY <2>4, <3>1 DEF AblationInv, RowsRest, LatestIs, Latest
    <3>3. StopProcess \/ TurnsOn
      BY <2>3, RowEndsCondition
    <3> QED BY <1>1, <1>4, <2>4, <3>1, <3>2, <3>3, TurningKeeps
  <2> QED BY <1>5, <2>1, <2>2, <2>3, <2>4
<1> QED BY <1>6, <1>7

\* The row of a report that was answered, kept or refused.
LEMMA VerdictOnReportKeeps ==
    ASSUME AblationInv, AcceptReport \/ \E budget \in BOOLEAN : RejectReport(budget)
    PROVE  AblationInv'
<1>1. /\ step = "work" /\ subject = ReportSubject /\ Recoveries(This)
      /\ attempts' = attempts /\ sent' = sent /\ retries' = retries
  BY DEF AcceptReport, RejectReport
<1>2. ASSUME NEW budget \in BOOLEAN, RejectReport(budget) PROVE AblationInv'
  <2> DEFINE row == FailedRow(TRUE, FALSE, budget)
  <2>1. row.status # "ok" /\ RecordRow(row)
    BY <1>2 DEF FailedRow, RejectReport
  <2> HIDE DEF row
  <2>2. /\ rows' = [c \in Conditions |-> rows'[c]]
        /\ \A c \in Conditions : rows'[c].status = "ok" => rows'[c] = rows[c]
    BY <1>1, <2>1, FailedRowIsNone
  <2>3. RowsRest'
    BY <1>1, <2>2 DEF AblationInv, RowsRest, LatestIs, Latest
  <2>4. StopProcess \/ TurnsOn
    BY <2>1, RowEndsCondition
  <2> QED BY <1>1, <2>2, <2>3, <2>4, TurningKeeps
<1>3. CASE AcceptReport
  <2> DEFINE row == [NoRow EXCEPT !.status = "ok", !.included = Prepared(cond)]
  <2>1. row.status = "ok" /\ row.included = Prepared(cond) /\ RecordRow(row)
    BY <1>3 DEF NoRow, AcceptReport
  <2> HIDE DEF row
  <2>2. rows' = [rows EXCEPT ![cond] = row] /\ (StopProcess \/ TurnsOn) /\ cond \in Conditions
    BY <1>1, <2>1, RowEndsCondition, RequestInHand
  <2>3. rows = [c \in Conditions |-> rows[c]]
    BY DEF AblationInv, AttemptTypes
  <2>4. rows' = [c \in Conditions |-> IF c = cond THEN row ELSE rows[c]]
    BY <2>2, <2>3
  <2>5. LatestIs(<<cond, ReportSubject>>, {"succeeded"}) /\ Latest(<<cond, ReportSubject>>).included = Prepared(cond)
    BY <1>1, <2>2 DEF AblationInv, ReportsRest, Recoveries, This
  <2>6. RowsRest'
    <3>1. ASSUME NEW c \in Conditions, rows'[c].status = "ok"
          PROVE  LatestIs(<<c, ReportSubject>>, {"succeeded"}) /\ Latest(<<c, ReportSubject>>).included = rows'[c].included
      <4>1. CASE c = cond
        BY <2>1, <2>4, <2>5, <4>1
      <4>2. CASE c # cond
        BY <2>4, <3>1, <4>2 DEF AblationInv, RowsRest
      <4> QED BY <4>1, <4>2
    <3> QED BY <1>1, <3>1 DEF RowsRest, LatestIs, Latest
  <2>7. rows' = [c \in Conditions |-> rows'[c]]
    BY <2>4
  <2> QED BY <1>1, <2>2, <2>6, <2>7, TurningKeeps
<1> QED BY <1>2, <1>3

\* The requests before the one in hand are answered, and those after it wait: a step
\* that leaves them alone may go on to the next request.
LEMMA WorkMovesOn ==
    ASSUME AblationInv, step \in {"work", "dispatched", "sent"}, subject # ReportSubject,
           cond' = cond, subject' = subject + 1, step' = "work", live' = live,
           \A q \in Requests : q # This => attempts'[q] = attempts[q],
           NEW r, r = This, LatestIs(r, {"succeeded"})'
    PROVE  PlaceIsSound' /\ WorkIsReady'
<1>1. /\ cond \in Conditions /\ cond \notin live /\ subject \in SubjectsOf(cond)
      /\ SubjectsOf(cond) = FirstSubject(cond) .. ReportSubject /\ FirstSubject(cond) \in Nat /\ ReportSubject \in Nat
  <2>1. cond \in Conditions /\ cond \notin live /\ subject \in SubjectsOf(cond)
    BY DEF AblationInv, PlaceIsSound
  <2> QED BY <2>1, StudyFacts
<1>2. subject + 1 \in SubjectsOf(cond) /\ subject + 1 > subject /\ subject \in Nat
      /\ \A s \in SubjectsOf(cond) : s \in Nat
  BY <1>1
<1>3. \A s \in SubjectsOf(cond) : /\ s < subject => LatestIs(<<cond, s>>, {"succeeded"})
                                  /\ s > subject => Ready(cond, s)
  BY RecordInHand
<1>4. ASSUME NEW s \in SubjectsOf(cond), s # subject
      PROVE  LatestIs(<<cond, s>>, {"succeeded"})' <=> LatestIs(<<cond, s>>, {"succeeded"})
  <2>1. attempts'[<<cond, s>>] = attempts[<<cond, s>>]
    BY <1>1, <1>4, RequestFacts DEF This
  <2> QED BY <2>1 DEF LatestIs, Latest
<1>5. ASSUME NEW s \in SubjectsOf(cond), s # subject
      PROVE  LatestIs(<<cond, s>>, {"intent", "succeeded"})' <=> Ready(cond, s)
  <2>1. attempts'[<<cond, s>>] = attempts[<<cond, s>>]
    BY <1>1, <1>5, RequestFacts DEF This
  <2> QED BY <2>1 DEF LatestIs, Latest, Ready
<1>6. ASSUME NEW s \in SubjectsOf(cond), s < subject + 1
      PROVE  attempts'[<<cond, s>>] # <<>> /\ Latest(<<cond, s>>)'.state = "succeeded"
  <2>1. CASE s = subject
    BY <2>1 DEF This, LatestIs
  <2>2. CASE s # subject
    <3>1. s < subject
      BY <1>2, <1>6, <2>2
    <3> QED BY <1>3, <1>4, <2>2, <3>1 DEF LatestIs
  <2> QED BY <2>1, <2>2
<1>7. ASSUME NEW s \in SubjectsOf(cond), s > subject
      PROVE  attempts'[<<cond, s>>] # <<>> /\ Latest(<<cond, s>>)'.state \in {"intent", "succeeded"}
  <2>1. s # subject
    BY <1>2, <1>7
  <2> QED BY <1>3, <1>5, <1>7, <2>1 DEF LatestIs
<1>8. SubjectsOf(cond)' = SubjectsOf(cond)
  BY DEF SubjectsOf, FirstSubject, Variant
<1>9. WorkIsReady'
  <2>1. \A s \in SubjectsOf(cond) : s > subject + 1 => s > subject
    BY <1>2
  <2>2. \A s \in SubjectsOf(cond) : /\ s < subject + 1 => LatestIs(<<cond, s>>, {"succeeded"})'
                                    /\ s > subject => Ready(cond, s)'
    BY <1>6, <1>7 DEF LatestIs, Ready
  <2>3. \A s \in SubjectsOf(cond) : s > subject + 1 => Ready(cond, s)'
    BY <2>1, <2>2
  <2>4. Ready(cond, subject)'
    BY <1>2, <2>2
  <2> QED BY <1>8, <2>2, <2>3, <2>4 DEF WorkIsReady
<1>10. PlaceIsSound'
  BY <1>1, <1>2, <1>8 DEF PlaceIsSound
<1> QED BY <1>9, <1>10

\* An answer that came back: the record in hand is answered, the others stay.
LEMMA AnswerKeeps ==
    ASSUME AblationInv, NEW r \in Requests, NEW new \in AttemptRecords, Rewrites(r, new), step = "sent",
           new.state = "succeeded", new.calls = 1, step' = "work", cond' = cond, live' = live, retry' = retry
    PROVE  /\ AttemptTypes' /\ AttemptsAreSound' /\ ResendIsAllowed' /\ CallsAreCounted' /\ BudgetsHold'
           /\ Latest(r)' = new /\ LatestIs(r, {"succeeded"})'
           /\ \A q \in Requests : q # r => attempts'[q] = attempts[q]
<1>1. /\ AttemptTypes' /\ AttemptsAreSound' /\ attempts'[r] # <<>> /\ Latest(r)' = new
      /\ \A S : LatestIs(r, S)' <=> new.state \in S
      /\ \A q \in Requests : q # r => attempts'[q] = attempts[q]
  BY RewriteKeeps
<1>2. Latest(r).calls = 1 /\ ~Latest(r).metered
  BY RecordInHand DEF Rewrites
<1>3. Cardinality(Paid(r))' = Cardinality(Paid(r)) /\ CostsNoMore(r)
  BY <1>2, CallStays
<1>4. CountsInNat
  BY CountsTyped DEF AblationInv
<1>5. sent' = sent /\ retries' = retries /\ r = This
  BY DEF Rewrites
<1>6. CallsAreCounted'
  <2>1. Cardinality(Paid(r))' >= Cardinality(Paid(r))
    BY <1>3, <1>4 DEF CountsInNat
  <2> QED BY <1>1, <1>5, <2>1, CallsStayCounted
<1>7. BudgetsHold'
  <2>1. ASSUME NEW q \in Requests
        PROVE  Cardinality(Paid(q))' <= Cardinality(Paid(q)) /\ CostsNoMore(q)
    <3>1. CASE q = r
      BY <1>3, <1>4, <3>1 DEF CountsInNat
    <3>2. CASE q # r
      <4>1. Cardinality(Paid(q))' = Cardinality(Paid(q)) /\ CostsSame(q)
        BY <1>1, <3>2, SameRecords
      <4> QED BY <1>4, <4>1, SameIsNoMore DEF CountsInNat
    <3> QED BY <3>1, <3>2
  <2> QED BY <1>1, <2>1, BudgetsKept DEF AblationInv
<1>8. ResendIsAllowed'
  <2>1. ASSUME NEW q \in Requests, attempts'[q] = <<>> \/ LatestIs(q, {"intent", "skipped"})'
        PROVE  sent[q] <= retries
    <3>1. CASE q = r
      BY <1>1, <2>1, <3>1
    <3>2. CASE q # r
      <4>1. attempts'[q] = attempts[q]
        BY <1>1, <3>2
      <4> QED BY <2>1, <4>1 DEF LatestIs, Latest, AblationInv, ResendIsAllowed
    <3> QED BY <3>1, <3>2
  <2>2. \A q \in Requests : Ahead(q)' => Ahead(q)
    BY DEF Ahead
  <2> QED BY <1>5, <2>1, <2>2, ResendKept
<1> QED BY <1>1, <1>6, <1>7, <1>8

LEMMA VerifierAnswersKeeps ==
    ASSUME AblationInv, NEW verdict \in {"supported", "unsupported"}, VerifierAnswers(verdict)
    PROVE  AblationInv'
<1> DEFINE new == [Latest(This) EXCEPT !.state = "succeeded", !.metered = TRUE, !.verdict = verdict]
<1>1. /\ step = "sent" /\ subject # ReportSubject /\ Rewrite(This, new) /\ step' = "work" /\ subject' = subject + 1
      /\ UNCHANGED <<rows, policy, live, cond, retry, starts, retries, sent>>
  BY DEF VerifierAnswers
<1>2. This \in Requests /\ Latest(This) \in AttemptRecords /\ Latest(This).calls = 1 /\ ~Recoveries(This)
      /\ subject \in SubjectsOf(cond)
  BY <1>1, RequestInHand, RecordInHand
<1>3. new \in AttemptRecords /\ new.state = "succeeded" /\ new.calls = 1
  BY <1>2 DEF AttemptRecords
<1>4. RecordIsSound(new)
  BY <1>3 DEF RecordIsSound
<1> HIDE DEF new
<1>5. PICK r \in Requests : r = This
  BY <1>2
<1>6. Rewrites(r, new)
  BY <1>1, <1>2, <1>4, <1>5, RowsAreKept DEF Rewrites
<1>7. /\ AttemptTypes' /\ AttemptsAreSound' /\ ResendIsAllowed' /\ CallsAreCounted' /\ BudgetsHold'
      /\ LatestIs(r, {"succeeded"})' /\ \A q \in Requests : q # r => attempts'[q] = attempts[q]
  BY <1>1, <1>3, <1>6, AnswerKeeps
<1>8. PlaceIsSound' /\ WorkIsReady'
  BY <1>1, <1>5, <1>7, WorkMovesOn
<1>9. ReportsRest' /\ RowsRest'
  <2>1. r[2] # ReportSubject
    BY <1>1, <1>5 DEF This
  <2> QED BY <1>1, <1>2, <1>5, <1>7, <2>1, ReportsStay DEF AblationInv
<1> QED BY <1>7, <1>8, <1>9 DEF AblationInv

LEMMA ReportAnswersKeeps ==
    ASSUME AblationInv, ReportAnswers
    PROVE  AblationInv'
<1> DEFINE new == [Latest(This) EXCEPT !.state = "succeeded", !.metered = TRUE, !.included = Prepared(cond)]
<1>1. /\ step = "sent" /\ subject = ReportSubject /\ Rewrite(This, new) /\ step' = "work" /\ subject' = subject
      /\ UNCHANGED <<rows, policy, live, cond, retry, starts, retries, sent>>
  BY DEF ReportAnswers
<1>2. This \in Requests /\ Latest(This) \in AttemptRecords /\ Latest(This).calls = 1 /\ ~Recoveries(This)
      /\ subject \in SubjectsOf(cond) /\ cond \in Conditions
  BY <1>1, RequestInHand, RecordInHand
<1>3. new \in AttemptRecords /\ new.state = "succeeded" /\ new.calls = 1 /\ new.included = Prepared(cond)
  <2>1. Prepared(cond) \in SUBSET ClaimIds
    BY DEF Prepared
  <2> HIDE DEF Prepared
  <2> QED BY <1>2, <2>1 DEF AttemptRecords
<1>4. RecordIsSound(new)
  BY <1>3 DEF RecordIsSound
<1> HIDE DEF new
<1>5. PICK r \in Requests : r = This
  BY <1>2
<1>6. Rewrites(r, new)
  BY <1>1, <1>2, <1>4, <1>5, RowsAreKept DEF Rewrites
<1>7. /\ AttemptTypes' /\ AttemptsAreSound' /\ ResendIsAllowed' /\ CallsAreCounted' /\ BudgetsHold'
      /\ Latest(r)' = new /\ LatestIs(r, {"succeeded"})'
      /\ \A q \in Requests : q # r => attempts'[q] = attempts[q]
  BY <1>1, <1>3, <1>6, AnswerKeeps
<1>8. /\ \A s \in SubjectsOf(cond) : s # subject => s < subject /\ <<cond, s>> \in Requests /\ <<cond, s>> # r
      /\ SubjectsOf(cond) = FirstSubject(cond) .. ReportSubject /\ FirstSubject(cond) \in Nat /\ ReportSubject \in Nat
      /\ ClaimIds = 1 .. ReportSubject - 1 /\ (Variant(cond) = "V-on" => ClaimIds \subseteq SubjectsOf(cond))
      /\ Variant(cond) \in {"V-on", "V-off"}
  <2>1. /\ SubjectsOf(cond) = FirstSubject(cond) .. ReportSubject /\ FirstSubject(cond) \in Nat /\ ReportSubject \in Nat
        /\ ClaimIds = 1 .. ReportSubject - 1 /\ (Variant(cond) = "V-on" => ClaimIds \subseteq SubjectsOf(cond))
        /\ Variant(cond) \in {"V-on", "V-off"}
    BY <1>2, StudyFacts
  <2>2. \A s \in SubjectsOf(cond) : s # subject => s < subject
    BY <1>1, <2>1
  <2>3. \A s \in SubjectsOf(cond) : <<cond, s>> \in Requests
    BY <1>2, RequestFacts
  <2> QED BY <1>5, <2>1, <2>2, <2>3 DEF This
<1>9. ASSUME NEW s \in SubjectsOf(cond)
      PROVE  LatestIs(<<cond, s>>, {"succeeded"})' /\ (s # subject => attempts'[<<cond, s>>] = attempts[<<cond, s>>])
  <2>1. CASE s = subject
    BY <1>1, <1>5, <1>7, <2>1 DEF This, LatestIs, Latest
  <2>2. CASE s # subject
    <3>1. s < subject /\ attempts'[<<cond, s>>] = attempts[<<cond, s>>]
      BY <1>7, <1>8, <2>2
    <3>2. LatestIs(<<cond, s>>, {"succeeded"})
      BY <1>1, <3>1, RecordInHand
    <3> QED BY <1>1, <3>1, <3>2 DEF LatestIs, Latest
  <2> QED BY <2>1, <2>2
<1>10. Prepared(cond)' = Prepared(cond)
  <2>1. CASE Variant(cond) = "V-off"
    BY <1>1, <2>1 DEF Prepared, Variant
  <2>2. CASE Variant(cond) = "V-on"
    <3>1. ASSUME NEW s \in ClaimIds PROVE Latest(<<cond, s>>)' = Latest(<<cond, s>>)
      <4>1. s \in SubjectsOf(cond) /\ s # subject
        BY <1>1, <1>8, <2>2
      <4> QED BY <1>1, <1>9, <4>1 DEF Latest
    <3> QED BY <1>1, <2>2, <3>1 DEF Prepared, Variant
  <2> QED BY <1>8, <2>1, <2>2
<1>11. ReportsRest'
  <2>1. ASSUME NEW c \in Conditions, LatestIs(<<c, ReportSubject>>, {"succeeded"})'
        PROVE  /\ \A s \in SubjectsOf(c) : LatestIs(<<c, s>>, {"succeeded"})'
               /\ Latest(<<c, ReportSubject>>)'.included = Prepared(c)'
    <3>1. CASE c = cond
      BY <1>1, <1>3, <1>5, <1>7, <1>9, <1>10, <3>1 DEF This
    <3>2. CASE c # cond
      <4>1. \A s \in SubjectsOf(c) : attempts'[<<c, s>>] = attempts[<<c, s>>]
        <5>1. \A s \in SubjectsOf(c) : <<c, s>> \in Requests /\ <<c, s>> # r
          BY <1>5, <3>2, RequestFacts DEF This
        <5> QED BY <1>7, <5>1
      <4>2. /\ ReportSubject \in SubjectsOf(c) /\ (Variant(c) = "V-on" => ClaimIds \subseteq SubjectsOf(c))
            /\ Variant(c) \in {"V-on", "V-off"}
        BY StudyFacts
      <4>3. LatestIs(<<c, ReportSubject>>, {"succeeded"})
        BY <2>1, <4>1, <4>2 DEF LatestIs, Latest
      <4>4. (\A s \in SubjectsOf(c) : LatestIs(<<c, s>>, {"succeeded"})) /\ Latest(<<c, ReportSubject>>).included = Prepared(c)
        BY <4>3 DEF AblationInv, ReportsRest
      <4>5. Prepared(c)' = Prepared(c)
        BY <4>1, <4>2 DEF Prepared, Latest, Variant
      <4> QED BY <4>1, <4>2, <4>4, <4>5 DEF LatestIs, Latest
    <3> QED BY <3>1, <3>2
  <2> QED BY <2>1 DEF ReportsRest
<1>12. RowsRest'
  <2>1. ASSUME NEW c \in Conditions, rows[c].status = "ok"
        PROVE  attempts'[<<c, ReportSubject>>] = attempts[<<c, ReportSubject>>]
    <3>1. LatestIs(<<c, ReportSubject>>, {"succeeded"})
      BY <2>1 DEF AblationInv, RowsRest
    <3>2. <<c, ReportSubject>> # r
      BY <1>2, <1>5, <3>1 DEF Recoveries
    <3>3. <<c, ReportSubject>> \in Requests
      BY StudyFacts, RequestFacts
    <3> QED BY <1>7, <3>2, <3>3
  <2> QED BY <1>1, <2>1 DEF AblationInv, RowsRest, LatestIs, Latest
<1>13. PlaceIsSound'
  BY <1>1 DEF AblationInv, PlaceIsSound, SubjectsOf, FirstSubject, Variant
<1>14. WorkIsReady'
  <2>1. \A s \in SubjectsOf(cond) : ~(s > subject)
    BY <1>1, <1>8
  <2>2. Ready(cond, subject)'
    BY <1>1, <1>2, <1>9 DEF Ready, LatestIs, Latest
  <2>3. SubjectsOf(cond)' = SubjectsOf(cond)
    BY <1>1 DEF SubjectsOf, FirstSubject, Variant
  <2> QED BY <1>1, <1>9, <2>1, <2>2, <2>3 DEF WorkIsReady
<1> QED BY <1>7, <1>11, <1>12, <1>13, <1>14 DEF AblationInv

LEMMA PrepareKeeps ==
    ASSUME AblationInv, Prepare PROVE AblationInv'
<1>1. /\ step = "prepare" /\ ~(Blocked(This) /\ ~retry) /\ Advance
      /\ UNCHANGED <<rows, policy, live, cond, retry, starts, retries, sent>>
  BY DEF Prepare
<1>2. /\ This \in Requests /\ cond \in Conditions /\ subject \in SubjectsOf(cond) /\ cond \notin live
      /\ attempts[This] \in Seq(AttemptRecords)
  BY <1>1, RequestInHand DEF AblationInv, PlaceIsSound
<1>3. PICK r \in Requests : r = This
  BY <1>2
<1> DEFINE more == Append(attempts[r], Intent)
<1>4. attempts' = IF NeedsIntent(r) THEN [attempts EXCEPT ![r] = more] ELSE attempts
  BY <1>2, <1>3 DEF Prepare, AblationInv, AttemptTypes
<1>5. \A q \in Requests : q # r => attempts'[q] = attempts[q]
  BY <1>4 DEF AblationInv, AttemptTypes
<1>6. Intent \in AttemptRecords /\ RecordIsSound(Intent) /\ Intent.state = "intent" /\ Intent.calls = 0
  BY DEF Intent, AttemptRecords, RecordIsSound
<1>7. /\ more \in Seq(AttemptRecords) /\ Len(more) = Len(attempts[r]) + 1 /\ more # <<>>
      /\ more[Len(attempts[r]) + 1] = Intent
      /\ \A i \in 1 .. Len(attempts[r]) : more[i] = attempts[r][i]
      /\ Len(attempts[r]) \in Nat /\ DOMAIN more = 1 .. Len(attempts[r]) + 1
      /\ DOMAIN attempts[r] = 1 .. Len(attempts[r])
  BY <1>2, <1>3, <1>6, AppendProperties, LenProperties, EmptySeq
<1> HIDE DEF more
<1>8. NeedsIntent(r) => attempts'[r] = more
  BY <1>4 DEF AblationInv, AttemptTypes
<1>9. attempts' \in [Requests -> Seq(AttemptRecords)]
  BY <1>4, <1>7 DEF AblationInv, AttemptTypes
<1>10. AttemptTypes'
  BY <1>1, <1>9 DEF AttemptTypes, AblationInv
<1>11. NeedsIntent(r) => Latest(r)' = Intent /\ \A S : LatestIs(r, S)' <=> "intent" \in S
  BY <1>6, <1>7, <1>8 DEF Latest, LatestIs
<1>12. ~NeedsIntent(r) => attempts' = attempts /\ LatestIs(r, {"intent", "succeeded"})
  BY <1>4 DEF NeedsIntent
<1>13. AttemptsAreSound'
  <2>1. CASE ~NeedsIntent(r)
    BY <1>12, <2>1 DEF AblationInv, AttemptsAreSound
  <2>2. CASE NeedsIntent(r)
    <3>1. ASSUME NEW q \in Requests, NEW i \in 1 .. Len(attempts'[q])
          PROVE  RecordIsSound(attempts'[q][i]) /\ (i < Len(attempts'[q]) => attempts'[q][i].state # "succeeded")
      <4>1. CASE q # r
        BY <1>5, <3>1, <4>1 DEF AblationInv, AttemptsAreSound
      <4>2. CASE q = r /\ i = Len(attempts[r]) + 1
        <5>1. Len(attempts'[q]) = Len(attempts[r]) + 1 /\ attempts'[q][i] = Intent
          BY <1>7, <1>8, <2>2, <4>2
        <5> QED BY <1>6, <1>7, <4>2, <5>1
      <4>3. CASE q = r /\ i # Len(attempts[r]) + 1
        <5>1. i \in 1 .. Len(attempts[r]) /\ attempts'[q][i] = attempts[r][i]
          BY <1>7, <1>8, <2>2, <3>1, <4>3
        <5>2. RecordIsSound(attempts[r][i]) /\ (i < Len(attempts[r]) => attempts[r][i].state # "succeeded")
          BY <5>1 DEF AblationInv, AttemptsAreSound
        <5>3. i = Len(attempts[r]) => attempts[r][i].state # "succeeded"
          <6>1. attempts[r] # <<>> => Latest(r).state # "succeeded"
            BY <2>2 DEF NeedsIntent, LatestIs
          <6>2. i = Len(attempts[r]) => attempts[r] # <<>>
            BY <5>1, EmptySeq
          <6> QED BY <6>1, <6>2 DEF Latest
        <5>4. i < Len(attempts[r]) \/ i = Len(attempts[r])
          BY <1>7, <5>1
        <5> QED BY <5>1, <5>2, <5>3, <5>4
      <4> QED BY <4>1, <4>2, <4>3
    <3> QED BY <3>1 DEF AttemptsAreSound
  <2> QED BY <2>1, <2>2
<1>14. /\ FirstSubject(cond) \in Nat /\ ReportSubject \in Nat /\ FirstSubject(cond) \in SubjectsOf(cond)
       /\ SubjectsOf(cond) = FirstSubject(cond) .. ReportSubject
  BY <1>2, StudyFacts
<1>15. /\ step' = IF subject = ReportSubject THEN "work" ELSE "prepare"
       /\ subject' = IF subject = ReportSubject THEN FirstSubject(cond) ELSE subject + 1
  BY <1>1 DEF Advance
<1>16. subject' \in SubjectsOf(cond) /\ step' \in {"prepare", "work"}
  BY <1>2, <1>14, <1>15
<1>17. SubjectsOf(cond)' = SubjectsOf(cond) /\ cond' = cond
  BY <1>1 DEF SubjectsOf, FirstSubject, Variant
<1>18. PlaceIsSound'
  BY <1>1, <1>2, <1>16, <1>17 DEF PlaceIsSound
<1>19. ASSUME NEW s \in SubjectsOf(cond), s <= subject PROVE Ready(cond, s)'
  <2>1. CASE s = subject
    <3>1. LatestIs(r, {"intent", "succeeded"})'
      <4>1. CASE NeedsIntent(r)
        BY <1>11, <4>1
      <4>2. CASE ~NeedsIntent(r)
        BY <1>12, <4>2 DEF LatestIs, Latest
      <4> QED BY <4>1, <4>2
    <3> QED BY <1>3, <1>17, <2>1, <3>1 DEF Ready, LatestIs, Latest, This
  <2>2. CASE s # subject
    <3>1. s < subject
      BY <1>2, <1>14, <1>19, <2>2
    <3>2. Ready(cond, s)
      BY <1>1, <3>1 DEF AblationInv, WorkIsReady
    <3>3. <<cond, s>> \in Requests /\ <<cond, s>> # r
      BY <1>2, <1>3, <2>2, RequestFacts DEF This
    <3> QED BY <1>5, <1>17, <3>2, <3>3 DEF Ready, LatestIs, Latest
  <2> QED BY <2>1, <2>2
<1>20. WorkIsReady'
  <2>1. CASE subject = ReportSubject
    <3>1. \A s \in SubjectsOf(cond) : s <= subject /\ ~(s < FirstSubject(cond))
      BY <1>14, <2>1
    <3>2. \A s \in SubjectsOf(cond) : Ready(cond, s)'
      BY <1>19, <3>1
    <3>3. step' = "work" /\ subject' = FirstSubject(cond)
      BY <1>15, <2>1
    <3>4. Ready(cond, subject)'
      BY <1>14, <1>17, <3>2, <3>3 DEF Ready, LatestIs, Latest
    <3> QED BY <1>17, <3>1, <3>2, <3>3, <3>4 DEF WorkIsReady, Ready
  <2>2. CASE subject # ReportSubject
    <3>1. \A s \in SubjectsOf(cond) : s < subject + 1 => s <= subject
      BY <1>2, <1>14
    <3>2. step' = "prepare" /\ subject' = subject + 1
      BY <1>15, <2>2
    <3>3. \A s \in SubjectsOf(cond) : s < subject' => Ready(cond, s)'
      BY <1>19, <3>1, <3>2
    <3> QED BY <1>17, <3>2, <3>3 DEF WorkIsReady
  <2> QED BY <2>1, <2>2
<1>21. ASSUME NEW q \in Requests, attempts'[q] = <<>> \/ LatestIs(q, {"intent", "skipped"})'
       PROVE  sent[q] <= retries
  <2>1. CASE q # r
    BY <1>5, <1>21, <2>1 DEF AblationInv, ResendIsAllowed, LatestIs, Latest
  <2>2. CASE q = r /\ ~NeedsIntent(r)
    BY <1>12, <1>21, <2>2 DEF AblationInv, ResendIsAllowed, LatestIs, Latest
  <2>3. CASE q = r /\ NeedsIntent(r)
    <3>1. CASE attempts[r] = <<>> \/ LatestIs(r, {"intent", "skipped"})
      BY <2>3, <3>1 DEF AblationInv, ResendIsAllowed
    <3>2. CASE attempts[r] # <<>> /\ ~LatestIs(r, {"intent", "skipped"})
      <4>1. Latest(r).state \in {"dispatched", "failed", "unknown"}
        <5>1. Latest(r) \in AttemptRecords
          <6>1. Len(attempts[r]) \in DOMAIN attempts[r]
            BY <1>2, <1>3, <1>7, <3>2, EmptySeq
          <6> QED BY <1>2, <1>3, <1>7, <6>1, LenProperties DEF Latest
        <5> QED BY <2>3, <3>2, <5>1 DEF LatestIs, NeedsIntent, AttemptRecords
      <4>2. Blocked(r)
        BY <3>2, <4>1 DEF Blocked, LatestIs
      <4>3. retry
        BY <1>1, <1>3, <4>2
      <4>4. Ahead(r)
        BY <1>1, <1>2, <1>3, <1>14 DEF Ahead, This
      <4> QED BY <1>1, <2>3, <4>3, <4>4 DEF AblationInv, ResendIsAllowed
    <3> QED BY <3>1, <3>2
  <2> QED BY <2>1, <2>2, <2>3
<1>22. ResendIsAllowed'
  <2>1. ASSUME NEW q \in Requests, Ahead(q)' PROVE Ahead(q)
    <3>1. q[1] \notin live /\ (q[1] # cond \/ (step' = "prepare" /\ q[2] >= subject'))
      BY <1>1, <2>1 DEF Ahead
    <3>2. q[2] \in Nat /\ subject \in Nat
      <4>1. q[1] \in Conditions /\ q[2] \in SubjectsOf(q[1])
        BY RequestFacts
      <4>2. SubjectsOf(q[1]) \subseteq 1 .. ReportSubject
        BY <4>1, StudyFacts
      <4> QED BY <1>2, <1>14, <4>1, <4>2
    <3>3. step' = "prepare" => subject' = subject + 1
      BY <1>15
    <3>4. step' = "prepare" /\ q[2] >= subject' => q[2] >= subject
      BY <3>2, <3>3
    <3> QED BY <1>1, <3>1, <3>4 DEF Ahead
  <2> QED BY <1>1, <1>16, <1>21, <2>1, ResendKept
<1>23. Paid(r)' = Paid(r) /\ Unmetered(r)' = Unmetered(r)
  <2>1. CASE ~NeedsIntent(r)
    BY <1>12, <2>1, SameRecords
  <2>2. CASE NeedsIntent(r)
    <3>1. Paid(r)' = Paid(r)
      BY <1>6, <1>7, <1>8, <2>2 DEF Paid
    <3>2. \A i \in Paid(r) : attempts'[r][i] = attempts[r][i]
      BY <1>7, <1>8, <2>2 DEF Paid
    <3> QED BY <3>1, <3>2 DEF Unmetered
  <2> QED BY <2>1, <2>2
<1>24. \A q \in Requests : Cardinality(Paid(q))' = Cardinality(Paid(q)) /\ CostsSame(q)
  <2>1. ASSUME NEW q \in Requests PROVE Cardinality(Paid(q))' = Cardinality(Paid(q)) /\ CostsSame(q)
    <3>1. CASE q = r
      BY <1>23, <3>1 DEF CostAt, CostsSame
    <3>2. CASE q # r
      BY <1>5, <3>2, SameRecords
    <3> QED BY <3>1, <3>2
  <2> QED BY <2>1
<1>25. CountsInNat
  BY CountsTyped DEF AblationInv
<1>26. CallsAreCounted'
  <2>1. Cardinality(Paid(r))' >= Cardinality(Paid(r))
    BY <1>24, <1>25 DEF CountsInNat
  <2> QED BY <1>1, <1>5, <1>10, <1>16, <2>1, CallsStayCounted
<1>27. BudgetsHold'
  <2>1. \A q \in Requests : Cardinality(Paid(q))' <= Cardinality(Paid(q)) /\ CostsNoMore(q)
    BY <1>24, <1>25, SameIsNoMore DEF CountsInNat
  <2> QED BY <1>10, <2>1, BudgetsKept DEF AblationInv
<1>28. ReportsRest' /\ RowsRest'
  <2>1. CASE ~NeedsIntent(r)
    BY <1>1, <1>12, <2>1 DEF AblationInv, ReportsRest, RowsRest, LatestIs, Latest, Prepared
  <2>2. CASE NeedsIntent(r)
    <3>1. ~Recoveries(r) /\ ~Recoveries(r)'
      <4>1. ~LatestIs(r, {"succeeded"})
        BY <2>2 DEF NeedsIntent, LatestIs
      <4>2. ~LatestIs(r, {"succeeded"})'
        BY <1>11, <2>2
      <4> QED BY <4>1, <4>2 DEF Recoveries
    <3> QED BY <1>1, <1>5, <3>1, ReportsStay DEF AblationInv
  <2> QED BY <2>1, <2>2
<1> QED BY <1>10, <1>13, <1>18, <1>20, <1>22, <1>26, <1>27, <1>28 DEF AblationInv

LEMMA DispatchKeeps ==
    ASSUME AblationInv, Dispatch PROVE AblationInv'
<1> DEFINE new == [Latest(This) EXCEPT !.state = "dispatched", !.calls = 1]
<1>1. /\ step = "work" /\ ~Recoveries(This) /\ MayDispatch(This) /\ Rewrite(This, new) /\ step' = "dispatched"
      /\ UNCHANGED <<rows, policy, live, cond, subject, retry, starts, retries, sent>>
  BY DEF Dispatch
<1>2. /\ This \in Requests /\ Latest(This) \in AttemptRecords
      /\ Latest(This).calls = 0 /\ ~Latest(This).metered /\ sent[This] <= retries
      /\ \A s \in SubjectsOf(cond) : /\ s < subject => LatestIs(<<cond, s>>, {"succeeded"})
                                     /\ s > subject => Ready(cond, s)
  BY <1>1, RequestInHand, RecordInHand
<1>3. new \in AttemptRecords /\ new.state = "dispatched" /\ new.calls = 1 /\ ~new.metered
  BY <1>2 DEF AttemptRecords
<1>4. RecordIsSound(new)
  BY <1>3 DEF RecordIsSound
<1> HIDE DEF new
<1>5. PICK r \in Requests : r = This
  BY <1>2
<1>6. Rewrites(r, new)
  BY <1>1, <1>2, <1>4, <1>5, RowsAreKept DEF Rewrites
<1>7. /\ AttemptTypes' /\ AttemptsAreSound' /\ attempts'[r] # <<>>
      /\ \A S : LatestIs(r, S)' <=> new.state \in S
      /\ \A q \in Requests : q # r => attempts'[q] = attempts[q]
  BY <1>3, <1>6, RewriteKeeps
<1>8. Cardinality(Paid(r))' = Cardinality(Paid(r)) + 1 /\ CostsOneMore(r)
  BY <1>2, <1>3, <1>5, <1>6, CallAdded
<1>9. BudgetsHold'
  BY <1>1, <1>3, <1>5, <1>6, <1>8, DispatchIsPaid
<1>10. SubjectsOf(cond)' = SubjectsOf(cond) /\ cond' = cond /\ subject' = subject
  BY <1>1 DEF SubjectsOf, FirstSubject, Variant
<1>11. This' = r /\ This = <<cond, subject>>
  BY <1>5, <1>10 DEF This
<1>12. PlaceIsSound'
  BY <1>1, <1>10 DEF AblationInv, PlaceIsSound
<1>13. WorkIsReady'
  <2>1. ASSUME NEW s \in SubjectsOf(cond), s # subject
        PROVE  attempts'[<<cond, s>>] = attempts[<<cond, s>>]
    <3>1. cond \in Conditions
      BY <1>1, RequestInHand
    <3>2. <<cond, s>> \in Requests /\ <<cond, s>> # r
      BY <1>5, <1>11, <2>1, <3>1, RequestFacts
    <3> QED BY <1>7, <3>2
  <2>2. subject \in Nat /\ \A s \in SubjectsOf(cond) : s \in Nat
    <3>1. cond \in Conditions /\ subject \in SubjectsOf(cond)
      BY <1>1, RequestInHand
    <3>2. SubjectsOf(cond) \subseteq 1 .. ReportSubject
      BY <3>1, StudyFacts
    <3> QED BY <3>1, <3>2
  <2>3. \A s \in SubjectsOf(cond) : /\ s < subject => LatestIs(<<cond, s>>, {"succeeded"})'
                                    /\ s > subject => Ready(cond, s)'
    <3>1. \A s \in SubjectsOf(cond) : s < subject \/ s > subject => s # subject
      BY <2>2
    <3> QED BY <1>2, <1>10, <2>1, <3>1 DEF LatestIs, Latest, Ready
  <2>4. LatestIs(r, {"dispatched"})'
    BY <1>3, <1>7
  <2>5. LatestIs(This, {"dispatched"})'
    BY <1>11, <2>4 DEF LatestIs, Latest
  <2> QED BY <1>1, <1>10, <2>3, <2>5 DEF WorkIsReady
<1>14. ResendIsAllowed'
  <2>1. ASSUME NEW q \in Requests
        PROVE  /\ sent'[q] <= retries' + 1
               /\ attempts'[q] = <<>> \/ LatestIs(q, {"intent", "skipped"})' => sent'[q] <= retries'
               /\ step' # "down" /\ retry' /\ Ahead(q)' => sent'[q] <= retries'
    <3>1. /\ sent[q] <= retries + 1 /\ sent' = sent /\ retries' = retries
          /\ attempts[q] = <<>> \/ LatestIs(q, {"intent", "skipped"}) => sent[q] <= retries
          /\ retry /\ Ahead(q) => sent[q] <= retries
      BY <1>1 DEF AblationInv, ResendIsAllowed
    <3>2. Ahead(q)' => Ahead(q)
      BY <1>1 DEF Ahead
    <3>3. attempts'[q] = <<>> \/ LatestIs(q, {"intent", "skipped"})'
            => q # r /\ (attempts[q] = <<>> \/ LatestIs(q, {"intent", "skipped"}))
      <4>1. ~LatestIs(r, {"intent", "skipped"})'
        BY <1>3, <1>7
      <4>2. CASE q = r
        BY <1>7, <4>1, <4>2
      <4>3. CASE q # r
        BY <1>7, <4>3 DEF LatestIs, Latest
      <4> QED BY <4>2, <4>3
    <3> QED BY <1>1, <3>1, <3>2, <3>3
  <2>2. sent'[This'] <= retries'
    BY <1>1, <1>2, <1>5, <1>11
  <2> QED BY <2>1, <2>2 DEF ResendIsAllowed
<1>15. CallsAreCounted'
  <2>1. CountsInNat
    BY CountsTyped DEF AblationInv
  <2>2. \A q \in Requests : sent[q] \in Nat /\ sent[q] <= Cardinality(Paid(q)) /\ Cardinality(Paid(q)) \in Nat
    BY <2>1 DEF AblationInv, AttemptTypes, CallsAreCounted, LedgerCoversCalls, CountsInNat
  <2>3. ASSUME NEW q \in Requests PROVE sent'[q] <= Cardinality(Paid(q))'
    <3>1. CASE q = r
      BY <1>1, <1>8, <2>2, <3>1
    <3>2. CASE q # r
      BY <1>1, <1>7, <2>2, <3>2, SameRecords
    <3> QED BY <3>1, <3>2
  <2>4. sent'[r] + 1 <= Cardinality(Paid(r))'
    BY <1>1, <1>8, <2>2
  <2>5. Paid(This)' = Paid(r)'
    BY <1>11 DEF Paid
  <2> QED BY <1>11, <2>3, <2>4, <2>5 DEF CallsAreCounted, LedgerCoversCalls
<1>16. ReportsRest' /\ RowsRest'
  <2>1. ~Recoveries(r) /\ ~Recoveries(r)'
    <3>1. ~LatestIs(r, {"succeeded"})'
      BY <1>3, <1>7
    <3> QED BY <1>1, <1>5, <3>1 DEF Recoveries
  <2> QED BY <1>1, <1>7, <2>1, ReportsStay DEF AblationInv
<1> QED BY <1>7, <1>9, <1>12, <1>13, <1>14, <1>15, <1>16 DEF AblationInv

LEMMA SendKeeps ==
    ASSUME AblationInv, Send PROVE AblationInv'
<1>1. /\ step = "dispatched" /\ step' = "sent" /\ sent' = [sent EXCEPT ![This] = @ + 1]
      /\ attempts' = attempts /\ rows' = rows /\ live' = live /\ cond' = cond /\ subject' = subject /\ retry' = retry
      /\ retries' = retries
  BY DEF Send
<1>2. This \in Requests /\ sent \in [Requests -> Nat] /\ retries \in Nat
  BY <1>1, RequestInHand DEF AblationInv, AttemptTypes
<1>3. /\ sent' \in [Requests -> Nat] /\ sent'[This] = sent[This] + 1
      /\ \A q \in Requests : q # This => sent'[q] = sent[q]
  BY <1>1, <1>2
<1>4. sent[This] <= retries /\ sent[This] + 1 <= Cardinality(Paid(This)) /\ LatestIs(This, {"dispatched"})
  BY <1>1 DEF AblationInv, ResendIsAllowed, CallsAreCounted, WorkIsReady
<1>5. \A r, S : /\ LatestIs(r, S)' <=> LatestIs(r, S)
                /\ Paid(r)' = Paid(r) /\ CostsSame(r) /\ Latest(r)' = Latest(r)
  BY <1>1, SameRecords
<1>6. AttemptTypes' /\ AttemptsAreSound'
  BY <1>1, <1>3 DEF AblationInv, AttemptTypes, AttemptsAreSound
<1>7. PlaceIsSound'
  BY <1>1 DEF AblationInv, PlaceIsSound, SubjectsOf, FirstSubject, Variant
<1>8. WorkIsReady'
  <2>1. \A c, s : Ready(c, s)' <=> Ready(c, s)
    BY <1>1 DEF Ready, LatestIs, Latest
  <2>2. \A s \in SubjectsOf(cond) : /\ s < subject => LatestIs(<<cond, s>>, {"succeeded"})
                                    /\ s > subject => Ready(cond, s)
    BY <1>1, RecordInHand
  <2>3. SubjectsOf(cond)' = SubjectsOf(cond) /\ This' = This
    BY <1>1 DEF SubjectsOf, FirstSubject, Variant, This
  <2> QED BY <1>1, <1>4, <1>5, <2>1, <2>2, <2>3 DEF WorkIsReady, LatestIs, Latest, Ready
<1>9. ResendIsAllowed'
  <2>1. ASSUME NEW q \in Requests
        PROVE  /\ sent'[q] <= retries + 1
               /\ attempts[q] = <<>> \/ LatestIs(q, {"intent", "skipped"}) => sent'[q] <= retries
               /\ step' # "down" /\ retry' /\ Ahead(q)' => sent'[q] <= retries
    <3>1. /\ sent[q] <= retries + 1
          /\ attempts[q] = <<>> \/ LatestIs(q, {"intent", "skipped"}) => sent[q] <= retries
          /\ retry /\ Ahead(q) => sent[q] <= retries
      BY <1>1 DEF AblationInv, ResendIsAllowed
    <3>2. Ahead(q)' => Ahead(q) /\ q # This
      BY <1>1 DEF Ahead, This
    <3>3. CASE q # This
      BY <1>1, <1>3, <3>1, <3>2, <3>3
    <3>4. CASE q = This
      <4>1. ~(attempts[q] = <<>> \/ LatestIs(q, {"intent", "skipped"}))
        BY <1>4, <3>4 DEF LatestIs
      <4>2. sent'[q] <= retries + 1
        BY <1>2, <1>3, <1>4, <3>4
      <4> QED BY <3>2, <3>4, <4>1, <4>2
    <3> QED BY <3>3, <3>4
  <2> QED BY <1>1, <1>5, <2>1 DEF ResendIsAllowed
<1>10. CallsAreCounted'
  <2>1. ASSUME NEW q \in Requests PROVE sent'[q] <= Cardinality(Paid(q))
    <3>1. sent[q] <= Cardinality(Paid(q))
      BY DEF AblationInv, CallsAreCounted, LedgerCoversCalls
    <3> QED BY <1>3, <1>4, <3>1
  <2> QED BY <1>1, <1>5, <2>1 DEF CallsAreCounted, LedgerCoversCalls
<1>11. BudgetsHold'
  <2>1. \A R : CallsOf(R)' = CallsOf(R)
    BY <1>5 DEF CallsOf
  <2>2. Billable' = Billable /\ Exposed' = Exposed
    BY <1>5 DEF Billable, Exposed, Owed, Charges, CostsSame
  <2> QED BY <2>1, <2>2 DEF AblationInv, BudgetsHold
<1>12. ReportsRest'
  BY <1>1 DEF AblationInv, ReportsRest, LatestIs, Latest, Prepared
<1>13. RowsRest'
  BY <1>1, RowsAreKept
<1> QED BY <1>6, <1>7, <1>8, <1>9, <1>10, <1>11, <1>12, <1>13 DEF AblationInv

LEMMA IdlingKeeps ==
    ASSUME AblationInv, UNCHANGED ablationVars PROVE AblationInv'
BY DEF ablationVars, AblationInv, AttemptTypes, AttemptsAreSound, PlaceIsSound, WorkIsReady, Ready,
       ResendIsAllowed, Ahead, CallsAreCounted, LedgerCoversCalls, BudgetsHold, CallsOf, Exposed, Billable,
       Owed, CostAt,
       Unmetered, Paid, ReportsRest, RowsRest, Prepared, Latest, LatestIs, This

LEMMA AblationPreserved == AblationInv /\ [AblationNext]_ablationVars => AblationInv'
<1> SUFFICES ASSUME AblationInv, [AblationNext]_ablationVars PROVE AblationInv'
  OBVIOUS
<1>1. ASSUME NEW flag \in BOOLEAN, NEW p \in {"stop", "bounded_reserve"}, Start(flag, p) PROVE AblationInv'
  BY <1>1, StartKeeps
<1>2. CASE Crash \/ BlockResend
  BY <1>2, StoppingKeeps
<1>3. CASE Prepare
  BY <1>3, PrepareKeeps
<1>4. CASE UseRecovered
  BY <1>4, UseRecoveredKeeps
<1>5. CASE Dispatch
  BY <1>5, DispatchKeeps
<1>6. CASE SkipForBudget \/ NotSent
  BY <1>6, SkipKeeps
<1>7. CASE Send
  BY <1>7, SendKeeps
<1>8. ASSUME NEW verdict \in {"supported", "unsupported"}, VerifierAnswers(verdict) PROVE AblationInv'
  BY <1>8, VerifierAnswersKeeps
<1>9. CASE \/ \E how \in {"timeout", "lost", "rejected"} : VerifierFails(how)
           \/ \E how \in {"metered", "timeout", "lost", "crashed"} : ReportFails(how)
  BY <1>9, FailsKeeps
<1>10. CASE ReportAnswers
  BY <1>10, ReportAnswersKeeps
<1>11. CASE AcceptReport \/ \E budget \in BOOLEAN : RejectReport(budget)
  BY <1>11, VerdictOnReportKeeps
<1>12. CASE UNCHANGED ablationVars
  BY <1>12, IdlingKeeps
<1> QED BY <1>1, <1>2, <1>3, <1>4, <1>5, <1>6, <1>7, <1>8, <1>9, <1>10, <1>11, <1>12 DEF AblationNext

(* However often the study is killed, resumed and told to resend: the       *)
(* checkpoint counts every call that went out, calls and exposure stay      *)
(* inside the frozen budget, and an accepted row shows the report written   *)
(* from exactly the claims its verifier answers left in                     *)
(* (verification_ablation/runner.py, ledger.py).                            *)
THEOREM StudyKeepsItsAccount == AblationSpec => []StudyIsAccounted
<1>1. AblationInv => StudyIsAccounted
  <2> SUFFICES ASSUME AblationInv PROVE StudyIsAccounted
    OBVIOUS
  <2>1. LedgerCoversCalls
    BY DEF AblationInv, CallsAreCounted
  <2>2. \A r \in Requests : sent[r] \in Nat /\ Cardinality(Paid(r)) \in Nat /\ sent[r] <= Cardinality(Paid(r))
    BY <2>1, CountsTyped DEF AblationInv, AttemptTypes, CountsInNat, LedgerCoversCalls
  <2>3. ASSUME NEW R \in SUBSET Requests, IsFiniteSet(R)
        PROVE  /\ SumFunction([r \in R |-> sent[r]]) \in Nat /\ CallsOf(R) \in Nat
               /\ SumFunction([r \in R |-> sent[r]]) <= CallsOf(R)
    <3> DEFINE f == [r \in R |-> sent[r]]
               e == [r \in R |-> Cardinality(Paid(r))]
    <3>1. SumFunction(f) = SumFunctionOnSet(f, R) /\ CallsOf(R) = SumFunctionOnSet(e, R)
      BY DEF CallsOf, SumFunction
    <3>2. \A r \in R : f[r] \in Nat /\ e[r] \in Nat /\ f[r] <= e[r]
      BY <2>2
    <3> HIDE DEF f, e
    <3>3. /\ SumFunctionOnSet(f, R) \in Nat /\ SumFunctionOnSet(e, R) \in Nat
          /\ SumFunctionOnSet(f, R) <= SumFunctionOnSet(e, R)
      BY <2>3, <3>2, SumMonotone, SumType
    <3>4. SumFunction(f) \in Nat /\ CallsOf(R) \in Nat /\ SumFunction(f) <= CallsOf(R)
      BY <3>1, <3>3
    <3> QED BY <3>4 DEF f
  <2>4. StudyStaysFunded
    <3>1. /\ VerifierRequests \in SUBSET Requests /\ ReportRequests \in SUBSET Requests
          /\ IsFiniteSet(VerifierRequests) /\ IsFiniteSet(ReportRequests)
      BY RequestFacts DEF VerifierRequests, ReportRequests
    <3>2. CallsOf(VerifierRequests) <= MaxVerifierCalls /\ CallsOf(ReportRequests) <= MaxReportCalls
          /\ Billable <= MaxCost /\ Exposed <= MaxCost + (LostCharge - Reserve)
      BY DEF AblationInv, BudgetsHold
    <3>3. SumFunction([r \in VerifierRequests |-> sent[r]]) <= MaxVerifierCalls
      BY <2>3, <3>1, <3>2, AblationAssumption
    <3>4. SumFunction([r \in ReportRequests |-> sent[r]]) <= MaxReportCalls
      BY <2>3, <3>1, <3>2, AblationAssumption
    <3> QED BY <3>2, <3>3, <3>4 DEF StudyStaysFunded
  <2>5. RowsMatchVerdicts
    BY DEF AblationInv, RowsRest, ReportsRest, RowsMatchVerdicts
  <2> QED BY <2>1, <2>4, <2>5 DEF StudyIsAccounted
<1> QED BY <1>1, AblationInitially, AblationPreserved, PTL DEF AblationSpec

(* An answered request never goes out again, and a lost one only once more  *)
(* for every start that was told to resend it (runner.run).                 *)
THEOREM NoAnswerIsBoughtTwice == AblationSpec => NothingIsResent
<1>1. AblationInv /\ [AblationNext]_ablationVars =>
        [\A r \in Requests : sent'[r] > sent[r] =>
            /\ sent[r] <= retries
            /\ \A i \in DOMAIN attempts[r] : attempts[r][i].state # "succeeded"]_ablationVars
  <2> SUFFICES ASSUME AblationInv, AblationNext, NEW r \in Requests, sent'[r] > sent[r]
               PROVE  /\ sent[r] <= retries
                      /\ \A i \in DOMAIN attempts[r] : attempts[r][i].state # "succeeded"
    OBVIOUS
  <2>1. sent[r] \in Nat /\ sent \in [Requests -> Nat]
    BY DEF AblationInv, AttemptTypes
  <2>2. sent' # sent
    BY <2>1
  <2>3. Send
    BY <2>2 DEF AblationNext, Start, Crash, Prepare, BlockResend, UseRecovered, Dispatch, SkipForBudget, NotSent,
                VerifierAnswers, VerifierFails, ReportAnswers, AcceptReport, RejectReport, ReportFails
  <2>4. step = "dispatched" /\ r = This
    BY <2>1, <2>3 DEF Send
  <2>5. sent[r] <= retries
    BY <2>4 DEF AblationInv, ResendIsAllowed
  <2>6. Latest(r).state = "dispatched" /\ attempts[r] # <<>>
    BY <2>4, RecordInHand, RequestInHand
  <2>7. DOMAIN attempts[r] = 1 .. Len(attempts[r]) /\ Len(attempts[r]) \in Nat
    BY CountsAreNumbers DEF AblationInv
  <2>8. ASSUME NEW i \in 1 .. Len(attempts[r]) PROVE attempts[r][i].state # "succeeded"
    <3>1. CASE i = Len(attempts[r])
      BY <2>6, <3>1 DEF Latest
    <3>2. CASE i # Len(attempts[r])
      <4>1. i < Len(attempts[r])
        BY <2>7, <3>2
      <4> QED BY <4>1 DEF AblationInv, AttemptsAreSound
    <3> QED BY <3>1, <3>2
  <2> QED BY <2>5, <2>7, <2>8
<1> QED BY <1>1, AblationInitially, AblationPreserved, PTL DEF AblationSpec, NothingIsResent

-----------------------------------------------------------------------------
(* The prospective gate: any targets, strata and bounds, any processes.    *)

GoldRows == [record : Nat, confirmed : BOOLEAN, previous : Nat]
ConditionRows == [record : Nat, gold : Nat, verdict : Verdicts, sound : BOOLEAN, previous : Nat]

GateTyped ==
    /\ captures \in Seq(CaptureRows)
    /\ golds \in Seq(GoldRows)
    /\ conditions \in Seq(ConditionRows)
    /\ DOMAIN job = Operators

\* What lets a condition be revealed of a record; none of it is ever taken back.
MayReveal(row) ==
    /\ row.record \in Records /\ captures[row.record].eligible
    /\ row.gold \in 1 .. Revision(row.record)
    /\ BatchSize >= InitialTarget

ConditionsRest ==
    /\ \A i \in 1 .. Len(conditions) : MayReveal(conditions[i])
    /\ \A i, j \in 1 .. Len(conditions) : conditions[i].record = conditions[j].record => i = j
ChecksRest ==
    \A p \in Operators :
        /\ job[p].op \in {"none", "capture", "gold", "condition"}
        /\ job[p].op = "capture" => job[p].row \in CaptureRows
        /\ job[p].op = "gold" => job[p].row \in GoldRows
        /\ job[p].op = "condition" => job[p].row \in ConditionRows /\ MayReveal(job[p].row)

GateInv == GateTyped /\ ConditionsRest /\ ChecksRest

\* The captures and the Gold there were stay as they were.
LogsGrow ==
    /\ Len(captures) <= Len(captures') /\ \A i \in 1 .. Len(captures) : captures'[i] = captures[i]
    /\ Len(golds) <= Len(golds') /\ \A i \in 1 .. Len(golds) : golds'[i] = golds[i]

GateFinite ==
    /\ Len(captures) \in Nat /\ Len(golds) \in Nat /\ Len(conditions) \in Nat
    /\ IsFiniteSet(EligibleReal) /\ BatchSize \in Nat
    /\ \A r : IsFiniteSet(GoldsOf(r)) /\ Revision(r) \in Nat

LEMMA BatchIsFinite == GateTyped => GateFinite
<1> SUFFICES ASSUME GateTyped PROVE GateFinite
  OBVIOUS
<1>1. Len(captures) \in Nat /\ Len(golds) \in Nat /\ Len(conditions) \in Nat
  BY LenProperties DEF GateTyped
<1>2. IsFiniteSet(1 .. Len(captures)) /\ IsFiniteSet(1 .. Len(golds))
  BY <1>1, FS_Interval
<1>3. EligibleReal \subseteq 1 .. Len(captures)
  BY DEF EligibleReal, Records
<1>4. IsFiniteSet(EligibleReal) /\ BatchSize \in Nat
  BY <1>2, <1>3, FS_Subset, FS_CardinalityType DEF BatchSize
<1>5. ASSUME NEW r PROVE IsFiniteSet(GoldsOf(r)) /\ Revision(r) \in Nat
  <2>1. GoldsOf(r) \subseteq 1 .. Len(golds)
    BY DEF GoldsOf
  <2> QED BY <1>2, <2>1, FS_Subset, FS_CardinalityType DEF Revision
<1> QED BY <1>1, <1>4, <1>5 DEF GateFinite

\* What may be revealed may still be revealed when the logs have grown.
LEMMA RevealStays ==
    ASSUME GateTyped, GateTyped', LogsGrow, NEW row, MayReveal(row)
    PROVE  MayReveal(row)'
<1>1. GateFinite /\ GateFinite'
  BY BatchIsFinite, PTL
<1>2. /\ Len(captures) \in Nat /\ Len(golds) \in Nat /\ BatchSize \in Nat
      /\ IsFiniteSet(EligibleReal) /\ Revision(row.record) \in Nat
      /\ Len(captures') \in Nat /\ Len(golds') \in Nat /\ BatchSize' \in Nat
      /\ IsFiniteSet(EligibleReal') /\ IsFiniteSet(GoldsOf(row.record)') /\ Revision(row.record)' \in Nat
  BY <1>1 DEF GateFinite
<1>3. row.record \in Records' /\ captures'[row.record] = captures[row.record]
  BY <1>2 DEF MayReveal, Records, LogsGrow
<1>4. BatchSize <= BatchSize'
  <2>1. EligibleReal \subseteq EligibleReal'
    BY <1>2 DEF EligibleReal, Real, Records, LogsGrow
  <2> QED BY <1>2, <2>1, FS_Subset DEF BatchSize
<1>5. Revision(row.record) <= Revision(row.record)'
  <2>1. GoldsOf(row.record) \subseteq GoldsOf(row.record)'
    BY <1>2 DEF GoldsOf, LogsGrow
  <2> QED BY <1>2, <2>1, FS_Subset DEF Revision
<1>6. BatchSize' >= InitialTarget
  BY <1>2, <1>4, GateAssumption DEF MayReveal
<1>7. row.gold \in 1 .. Revision(row.record)'
  BY <1>2, <1>5 DEF MayReveal
<1>8. captures'[row.record].eligible
  BY <1>3 DEF MayReveal
<1> QED BY <1>3, <1>6, <1>7, <1>8 DEF MayReveal

LEMMA GateInitially == GateInit => GateInv
<1> SUFFICES ASSUME GateInit PROVE GateInv
  OBVIOUS
<1>1. Len(captures) = 0 /\ Len(golds) = 0 /\ Len(conditions) = 0
  BY DEF GateInit
<1>2. GateTyped
  BY DEF GateInit, GateTyped
<1> QED BY <1>1, <1>2 DEF GateInit, GateInv, ConditionsRest, ChecksRest, Idle

\* A step that reveals nothing: a process has checked, captured or frozen a Gold, or is gone.
LEMMA NothingIsRevealed ==
    ASSUME GateInv, GateTyped', LogsGrow, conditions' = conditions, NEW p \in Operators,
           \A q \in Operators : q # p => job'[q] = job[q],
           /\ job'[p].op \in {"none", "capture", "gold", "condition"}
           /\ job'[p].op = "capture" => job'[p].row \in CaptureRows
           /\ job'[p].op = "gold" => job'[p].row \in GoldRows
           /\ job'[p].op = "condition" => job'[p].row \in ConditionRows /\ MayReveal(job'[p].row)
    PROVE  GateInv'
<1>1. ConditionsRest'
  BY RevealStays DEF GateInv, ConditionsRest
<1>2. ASSUME NEW q \in Operators
      PROVE  /\ job'[q].op \in {"none", "capture", "gold", "condition"}
             /\ job'[q].op = "capture" => job'[q].row \in CaptureRows
             /\ job'[q].op = "gold" => job'[q].row \in GoldRows
             /\ job'[q].op = "condition" => job'[q].row \in ConditionRows /\ MayReveal(job[q].row)'
  <2>1. CASE q = p
    BY <2>1, RevealStays DEF GateInv
  <2>2. CASE q # p
    BY <2>2, RevealStays DEF GateInv, ChecksRest
  <2> QED BY <2>1, <2>2
<1>3. ChecksRest'
  BY <1>2 DEF ChecksRest
<1> QED BY <1>1, <1>3 DEF GateInv

LEMMA AProcessChecks ==
    ASSUME GateInv, NEW p \in Operators,
           \/ \E row \in CaptureRows : CheckCapture(p, row)
           \/ \E r \in Records, confirmed \in BOOLEAN : CheckGold(p, r, confirmed)
           \/ \E r \in Records, verdict \in Verdicts, sound \in BOOLEAN :
                 CheckCondition(p, r, verdict, sound)
           \/ Abandon(p)
    PROVE  GateInv'
<1>1. UNCHANGED <<captures, golds, conditions>>
  BY DEF CheckCapture, CheckGold, CheckCondition, Abandon
<1>2. /\ Len(captures) \in Nat /\ Len(golds) \in Nat /\ Len(conditions) \in Nat
      /\ \A r : IsFiniteSet(GoldsOf(r)) /\ Revision(r) \in Nat
  BY BatchIsFinite DEF GateInv, GateFinite
<1>3. DOMAIN job' = Operators /\ \A q \in Operators : q # p => job'[q] = job[q]
  BY DEF CheckCapture, CheckGold, CheckCondition, Abandon, GateInv, GateTyped
<1>4. GateTyped' /\ LogsGrow
  BY <1>1, <1>2, <1>3 DEF GateInv, GateTyped, LogsGrow
<1>5. ASSUME NEW row \in CaptureRows, CheckCapture(p, row)
      PROVE  job'[p].op = "capture" /\ job'[p].row \in CaptureRows
  BY <1>5 DEF CheckCapture, GateInv, GateTyped
<1>6. ASSUME NEW r \in Records, NEW confirmed \in BOOLEAN, CheckGold(p, r, confirmed)
      PROVE  job'[p].op = "gold" /\ job'[p].row \in GoldRows
  BY <1>2, <1>6 DEF CheckGold, GateInv, GateTyped, GoldRows, Records
<1>7. ASSUME NEW r \in Records, NEW verdict \in Verdicts, NEW sound \in BOOLEAN,
             CheckCondition(p, r, verdict, sound)
      PROVE  job'[p].op = "condition" /\ job'[p].row \in ConditionRows /\ MayReveal(job'[p].row)
  <2> DEFINE row == [record |-> r, gold |-> Revision(r), verdict |-> verdict,
                     sound |-> sound, previous |-> Len(conditions)]
  <2>1. job'[p].op = "condition" /\ job'[p].row = row
    BY <1>7 DEF CheckCondition, GateInv, GateTyped
  <2>2. row \in ConditionRows
    BY <1>2 DEF ConditionRows, Records
  <2>3. Revision(r) \in 1 .. Revision(r)
    <3>1. Revision(r) # 0
      BY <1>2, <1>7, FS_EmptySet DEF CheckCondition, Revision
    <3> QED BY <1>2, <3>1
  <2>4. MayReveal(row)
    BY <1>7, <2>3 DEF CheckCondition, MayReveal
  <2> HIDE DEF row
  <2> QED BY <2>1, <2>2, <2>4
<1>8. Abandon(p) => job'[p].op = "none"
  BY DEF Abandon, Idle, GateInv, GateTyped
<1> QED BY <1>1, <1>3, <1>4, <1>5, <1>6, <1>7, <1>8, NothingIsRevealed

\* A captured question or a frozen Gold is appended, or its number was taken.
LEMMA ALogGrows ==
    ASSUME GateInv, NEW p \in Operators, InsertCapture(p) \/ InsertGold(p)
    PROVE  GateInv'
<1>1. /\ job' = [job EXCEPT ![p] = Idle] /\ conditions' = conditions
      /\ \/ captures' = captures \/ (captures' = Append(captures, job[p].row) /\ job[p].row \in CaptureRows)
      /\ \/ golds' = golds \/ (golds' = Append(golds, job[p].row) /\ job[p].row \in GoldRows)
  BY DEF InsertCapture, InsertGold, GateInv, ChecksRest
<1>2. Len(captures) \in Nat /\ Len(golds) \in Nat
  BY BatchIsFinite DEF GateInv, GateFinite
<1>3. /\ captures' \in Seq(CaptureRows) /\ Len(captures) <= Len(captures')
      /\ \A i \in 1 .. Len(captures) : captures'[i] = captures[i]
  <2>1. CASE captures' = captures
    BY <1>2, <2>1 DEF GateInv, GateTyped
  <2>2. CASE captures' = Append(captures, job[p].row) /\ job[p].row \in CaptureRows
    BY <1>2, <2>2, AppendProperties DEF GateInv, GateTyped
  <2> QED BY <1>1, <2>1, <2>2
<1>4. /\ golds' \in Seq(GoldRows) /\ Len(golds) <= Len(golds')
      /\ \A i \in 1 .. Len(golds) : golds'[i] = golds[i]
  <2>1. CASE golds' = golds
    BY <1>2, <2>1 DEF GateInv, GateTyped
  <2>2. CASE golds' = Append(golds, job[p].row) /\ job[p].row \in GoldRows
    BY <1>2, <2>2, AppendProperties DEF GateInv, GateTyped
  <2> QED BY <1>1, <2>1, <2>2
<1>5. /\ DOMAIN job' = Operators /\ job'[p].op = "none"
      /\ \A q \in Operators : q # p => job'[q] = job[q]
  BY <1>1 DEF GateInv, GateTyped, Idle
<1>6. GateTyped' /\ LogsGrow
  BY <1>1, <1>3, <1>4, <1>5 DEF GateInv, GateTyped, LogsGrow
<1> QED BY <1>1, <1>5, <1>6, NothingIsRevealed

\* A condition is revealed, or its record was revealed by another process meanwhile.
LEMMA AConditionIsRevealed ==
    ASSUME GateInv, NEW p \in Operators, InsertCondition(p)
    PROVE  GateInv'
<1> DEFINE row == job[p].row
           n == Len(conditions)
<1>1. row \in ConditionRows /\ MayReveal(row) /\ n \in Nat /\ Len(captures) \in Nat /\ Len(golds) \in Nat
  BY BatchIsFinite DEF InsertCondition, GateInv, ChecksRest, GateFinite
<1>2. job' = [job EXCEPT ![p] = Idle] /\ captures' = captures /\ golds' = golds
  BY DEF InsertCondition
<1>3. /\ DOMAIN job' = Operators /\ job'[p].op = "none"
      /\ \A q \in Operators : q # p => job'[q] = job[q]
  BY <1>2 DEF GateInv, GateTyped, Idle
<1>4. LogsGrow
  BY <1>1, <1>2 DEF LogsGrow
<1>5. CASE row.record \in Revealed
  <2>1. conditions' = conditions
    BY <1>5 DEF InsertCondition
  <2>2. GateTyped'
    BY <1>2, <1>3, <2>1 DEF GateInv, GateTyped
  <2> QED BY <1>3, <1>4, <2>1, <2>2, NothingIsRevealed
<1>6. CASE row.record \notin Revealed
  <2>1. conditions' = Append(conditions, row)
    BY <1>6 DEF InsertCondition
  <2> HIDE DEF row
  <2>2. /\ conditions' \in Seq(ConditionRows) /\ Len(conditions') = n + 1
        /\ conditions'[n + 1] = row /\ \A i \in 1 .. n : conditions'[i] = conditions[i]
    BY <1>1, <2>1, AppendProperties DEF GateInv, GateTyped
  <2>3. \A i \in 1 .. n : conditions[i].record # row.record
    BY <1>6 DEF Revealed
  <2>4. GateTyped'
    BY <1>2, <1>3, <2>2 DEF GateInv, GateTyped
  <2>5. ASSUME NEW i \in 1 .. Len(conditions') PROVE MayReveal(conditions[i])'
    <3>1. PICK shown : shown = conditions'[i]
      OBVIOUS
    <3>2. MayReveal(shown)
      <4>1. CASE i = n + 1
        BY <1>1, <2>2, <3>1, <4>1
      <4>2. CASE i # n + 1
        <5>1. i \in 1 .. n
          BY <1>1, <2>2, <4>2
        <5> QED BY <2>2, <3>1, <5>1 DEF GateInv, ConditionsRest
      <4> QED BY <4>1, <4>2
    <3>3. MayReveal(shown)'
      BY <1>4, <2>4, <3>2, RevealStays DEF GateInv
    <3> QED BY <3>1, <3>3 DEF MayReveal, Records, Revision, GoldsOf
  <2>6. ASSUME NEW i \in 1 .. Len(conditions'), NEW j \in 1 .. Len(conditions'),
               conditions'[i].record = conditions'[j].record
        PROVE  i = j
    <3>1. i \in 1 .. n \/ i = n + 1
      BY <1>1, <2>2
    <3>2. j \in 1 .. n \/ j = n + 1
      BY <1>1, <2>2
    <3> QED BY <2>2, <2>3, <2>6, <3>1, <3>2 DEF GateInv, ConditionsRest
  <2>7. ConditionsRest'
    BY <2>5, <2>6 DEF ConditionsRest
  <2>8. ASSUME NEW q \in Operators
        PROVE  /\ job'[q].op \in {"none", "capture", "gold", "condition"}
               /\ job'[q].op = "capture" => job'[q].row \in CaptureRows
               /\ job'[q].op = "gold" => job'[q].row \in GoldRows
               /\ job'[q].op = "condition" => job'[q].row \in ConditionRows /\ MayReveal(job[q].row)'
    <3>1. CASE q = p
      BY <1>3, <3>1
    <3>2. CASE q # p
      BY <1>3, <1>4, <2>4, <3>2, RevealStays DEF GateInv, ChecksRest
    <3> QED BY <3>1, <3>2
  <2>9. ChecksRest'
    BY <2>8 DEF ChecksRest
  <2> QED BY <2>4, <2>7, <2>9 DEF GateInv
<1> QED BY <1>5, <1>6

LEMMA GatePreserved == GateInv /\ [GateNext]_gateVars => GateInv'
<1> SUFFICES ASSUME GateInv, [GateNext]_gateVars PROVE GateInv'
  OBVIOUS
<1>1. CASE UNCHANGED gateVars
  BY <1>1 DEF gateVars, GateInv, GateTyped, ConditionsRest, ChecksRest, MayReveal, Records,
              Revision, GoldsOf, BatchSize, EligibleReal, Real
<1>2. CASE GateNext
  <2>1. PICK p \in Operators :
           \/ \E row \in CaptureRows : CheckCapture(p, row)
           \/ InsertCapture(p)
           \/ \E r \in Records, confirmed \in BOOLEAN : CheckGold(p, r, confirmed)
           \/ InsertGold(p)
           \/ \E r \in Records, verdict \in Verdicts, sound \in BOOLEAN :
                  CheckCondition(p, r, verdict, sound)
           \/ InsertCondition(p)
           \/ Abandon(p)
    BY <1>2 DEF GateNext
  <2> QED BY <2>1, AProcessChecks, ALogGrows, AConditionIsRevealed
<1> QED BY <1>1, <1>2

\* No condition is revealed early, of a question that is not eligible, against a Gold that
\* was not frozen before, or twice, for any number of processes that check and insert in
\* any order and may be gone in between: what attach_condition checks, each with a read of
\* its own, is never taken back, and the table holds one condition of a record, which
\* settles the one check that another process can overtake (M9P2Store.attach_condition,
\* freeze_gold, capture).
THEOREM RevealsStayOrdered == GateSpec => []RevealsAreOrdered
<1>1. ASSUME GateInv PROVE RevealsAreOrdered
  <2>1. Len(conditions) \in Nat
    BY <1>1, BatchIsFinite DEF GateInv, GateFinite
  <2>2. ASSUME conditions # <<>> PROVE BatchSize >= InitialTarget
    <3>1. Len(conditions) # 0
      BY <1>1, <2>2, EmptySeq DEF GateInv, GateTyped
    <3>2. 1 \in 1 .. Len(conditions)
      BY <2>1, <3>1
    <3> QED BY <1>1, <3>2 DEF GateInv, ConditionsRest, MayReveal
  <2> QED BY <1>1, <2>2 DEF GateInv, ConditionsRest, MayReveal, RevealsAreOrdered
<1> QED BY <1>1, GateInitially, GatePreserved, PTL DEF GateSpec

=============================================================================
