-------------------------- MODULE ObservationLedger --------------------------
(***************************************************************************)
(* The observation ledger M9P0Store: consecutive questions on which the    *)
(* frozen retriever B5 ran, each reviewed by a human, over and over if     *)
(* need be.  Every read and the insert is a statement of its own, and what *)
(* a process has read is not locked until it inserts.  Hashes are          *)
(* abstracted to the number of the entry a row links to; an ambiguous or   *)
(* rejected review is never counted, so what it says is left out.          *)
(***************************************************************************)
EXTENDS Integers, Sequences, FiniteSets, FiniteSetsExt

CONSTANTS
    Reviewers,                  \* the processes that use the ledger at a time
    InitialWindow, MaxWindow,   \* 30 and 50 eligible questions
    MinMisses, MinCorpusMisses, MinGraphMisses, MinCauses,
    Causes, Paths,              \* the root causes and path findings reviewers use
    MaxObservations, MaxReviews \* bounds: rows captured, revisions of one record

ASSUME LedgerAssumption ==
    /\ IsFiniteSet(Reviewers) /\ Reviewers # {}
    /\ {MaxWindow, MaxObservations, MaxReviews} \subseteq Nat

VARIABLES
    observations,  \* the captured rows, in sequence
    reviews,       \* record |-> its review revisions, oldest first
    work           \* what a process has checked and is about to insert

ledgerVars == <<observations, reviews, work>>

-----------------------------------------------------------------------------
NoWork == [op |-> "none"]
GraphCauses == {"G1_ALIAS", "G2_RELATION", "G3_RANKING", "G4_GRAPH_DATA"}
PathOf == [G2_RELATION |-> "path_missing", G3_RANKING |-> "path_found",
           G4_GRAPH_DATA |-> "path_invalid"]

\* What the Gold of a review says of the frozen B5 answer: nothing missed, something
\* missed that the corpus has, or only papers outside the corpus.
Misses == {"covered", "in_corpus", "outside"}
Reviews == [status : {"confirmed"}, miss : Misses, cause : Causes, path : Paths]
           \cup [status : {"ambiguous", "rejected"}, miss : {"covered"}, cause : {"none"},
                 path : {"not_applicable"}]

\* _validate_review: which confirmed reviews a record may get.
Consistent(review) ==
    /\ review.miss = "covered" => review.cause = "none" /\ review.path = "not_applicable"
    /\ review.miss # "covered" => review.cause \notin {"none", "N4_BOUNDARY_AMBIGUOUS"}
    /\ review.cause \in GraphCauses => review.miss = "in_corpus"
    /\ review.cause = "N1_CORPUS_GAP" => review.miss = "outside"
    /\ review.cause \in DOMAIN PathOf => review.path = PathOf[review.cause]
Acceptable(record, review) ==
    IF observations[record].eligible
    THEN review.status = "confirmed" => Consistent(review)
    ELSE review.status = "rejected"

-----------------------------------------------------------------------------
Observed == 1 .. Len(observations)
EligibleReviews == {r \in Observed : observations[r].real /\ observations[r].eligible}
LastReview(r) == reviews[r][Len(reviews[r])]
Reviewed == {r \in EligibleReviews : reviews[r] # <<>>}
Missed == {r \in Reviewed : LastReview(r).status = "confirmed" /\ LastReview(r).miss # "covered"}
CorpusMisses == {r \in Missed : LastReview(r).miss = "in_corpus"}
GraphMisses == {r \in CorpusMisses : LastReview(r).cause \in GraphCauses}
GraphCausesSeen == {LastReview(r).cause : r \in GraphMisses}

\* verify_integrity: rows are numbered without a gap, and each row and each revision
\* links to the one before it.
ChainValid ==
    /\ \A i \in Observed : observations[i].sequence = i /\ observations[i].previous = i - 1
    /\ \A r \in Observed : \A i \in 1 .. Len(reviews[r]) :
           reviews[r][i].revision = i /\ reviews[r][i].previous = i - 1

GateReady ==
    /\ Cardinality(EligibleReviews) >= InitialWindow
    /\ Reviewed = EligibleReviews /\ ChainValid
    /\ Cardinality(Missed) >= MinMisses
    /\ Cardinality(CorpusMisses) >= MinCorpusMisses
    /\ Cardinality(GraphMisses) >= MinGraphMisses
    /\ Cardinality(GraphCausesSeen) >= MinCauses
WindowFull == Cardinality(EligibleReviews) >= MaxWindow /\ Reviewed = EligibleReviews /\ ChainValid
P0Decision == IF GateReady THEN "GO_IMPLEMENT"
              ELSE IF WindowFull THEN "NO_GO_INSUFFICIENT_NEED" ELSE "COLLECT_MORE"

-----------------------------------------------------------------------------
LedgerInit ==
    /\ observations = <<>>
    /\ reviews = [r \in 1 .. MaxObservations |-> <<>>]
    /\ work = [p \in Reviewers |-> NoWork]

\* The first statement of a capture counts the eligible questions there are ...
CountEligible(p, real, eligible) ==
    /\ work[p] = NoWork
    /\ real /\ eligible => Cardinality(EligibleReviews) < MaxWindow
    /\ work' = [work EXCEPT ![p] = [op |-> "counted",
                   row |-> [real |-> real, eligible |-> eligible]]]
    /\ UNCHANGED <<observations, reviews>>

\* ... the second reads the row that is last by then.
ReadLast(p) ==
    /\ work[p].op = "counted"
    /\ Len(observations) < MaxObservations
    /\ work' = [work EXCEPT ![p] = [op |-> "capture",
                   row |-> [real |-> work[p].row.real, eligible |-> work[p].row.eligible,
                            sequence |-> Len(observations) + 1,
                            previous |-> Len(observations)]]]
    /\ UNCHANGED <<observations, reviews>>

\* The sequence number is the primary key.
InsertObservation(p) ==
    /\ work[p].op = "capture"
    /\ observations' = IF \E r \in Observed : observations[r].sequence = work[p].row.sequence
                       THEN observations ELSE Append(observations, work[p].row)
    /\ work' = [work EXCEPT ![p] = NoWork]
    /\ UNCHANGED reviews

\* The submission names the revision it replaces.
CheckReview(p, r, review) ==
    /\ work[p] = NoWork
    /\ Len(reviews[r]) < MaxReviews
    /\ Acceptable(r, review)
    /\ work' = [work EXCEPT ![p] = [op |-> "review", record |-> r,
                   row |-> [status |-> review.status, miss |-> review.miss,
                            cause |-> review.cause, revision |-> Len(reviews[r]) + 1,
                            previous |-> Len(reviews[r])]]]
    /\ UNCHANGED <<observations, reviews>>

\* Record and revision are the primary key.
NeverTaken(r, revision) == FALSE
TakenRevision(r, revision) == \E i \in 1 .. Len(reviews[r]) : reviews[r][i].revision = revision
InsertReview(p) ==
    /\ work[p].op = "review"
    /\ LET r == work[p].record
       IN  reviews' = IF TakenRevision(r, work[p].row.revision) THEN reviews
                      ELSE [reviews EXCEPT ![r] = Append(@, work[p].row)]
    /\ work' = [work EXCEPT ![p] = NoWork]
    /\ UNCHANGED observations

LedgerNext ==
    \E p \in Reviewers :
        \/ \E real, eligible \in BOOLEAN : CountEligible(p, real, eligible)
        \/ ReadLast(p)
        \/ InsertObservation(p)
        \/ \E r \in Observed, review \in Reviews : CheckReview(p, r, review)
        \/ InsertReview(p)

LedgerSpec == LedgerInit /\ [][LedgerNext]_ledgerVars

-----------------------------------------------------------------------------
\* However the statements of the processes interleave, the ledger verifies, the frozen
\* window is exceeded by no more questions than processes had counted before it was full,
\* a question that counts for the graph is one the corpus could have answered, and a full
\* window that is reviewed is decided (capture, review, verify_integrity, public_report).
LedgerStaysValid ==
    /\ ChainValid
    /\ Cardinality(EligibleReviews) <= MaxWindow + (Cardinality(Reviewers) - 1)
    /\ \A r \in Reviewed : LastReview(r).status = "confirmed"
           /\ LastReview(r).cause \in GraphCauses => r \in CorpusMisses
    /\ Cardinality(EligibleReviews) >= MaxWindow /\ Reviewed = EligibleReviews => P0Decision # "COLLECT_MORE"

=============================================================================
