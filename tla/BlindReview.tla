---------------------------- MODULE BlindReview ----------------------------
(***************************************************************************)
(* The blind review of a finished comparison (scholargraph/blind_review.py *)
(* and evaluation.py): the two answers to a question are shown as A and B, *)
(* the labels are kept in a second file, and a completed packet is imported*)
(* only if nothing but the scores was changed.                             *)
(*                                                                         *)
(* A digest of a row is the row's immutable content itself: two digests    *)
(* are equal exactly when the contents are.  Texts, notes and questions'   *)
(* wording are abstracted to the identity of the answer shown.             *)
(***************************************************************************)
EXTENDS Integers, Sequences, FiniteSets, FiniteSetsExt, SequencesExt

CONSTANTS
    ReviewQuestions,   \* 1 .. n; the blind identity of a question is its number
    ReviewEligible,    \* the questions whose scores decide
    Answers,           \* what a report may say; NoAnswer is an empty report
    NoAnswer,
    Marks,             \* the marks a reviewer may write, the ones outside 0 .. 4 included
    Seeds,             \* what a seed swaps: sets of questions
    MaxPackets,        \* bound: how often a packet is prepared
    MaxEdits           \* bound: edits of a packet beyond its scores

ASSUME ReviewAssumption ==
    /\ IsFiniteSet(ReviewQuestions) /\ ReviewQuestions # {}
    /\ ReviewQuestions = 1 .. Cardinality(ReviewQuestions)
    /\ ReviewEligible \subseteq ReviewQuestions
    /\ Seeds \subseteq SUBSET ReviewQuestions

VARIABLES
    lineEndings,   \* how the question files were checked out, "LF" or "CRLF"
    reports,       \* the private archive: question |-> the two reports
    packet,        \* the reviewer's CSV, a sequence of rows
    labels,        \* the private mapping: question |-> entry
    writing,       \* the seed whose mapping is still to be written, or NoStep
    comparison,    \* the imported comparison, or NoComparison
    refusal,       \* why the last import was refused
    packets, edits

reviewVars == <<lineEndings, reports, packet, labels, writing, comparison, refusal,
                packets, edits>>

-----------------------------------------------------------------------------
Blank == -1
NoStep == {0}
NoComparison == [decision |-> "none", b3 |-> [q \in ReviewQuestions |-> Blank],
                 b4 |-> [q \in ReviewQuestions |-> Blank]]
NoLabels == [q \in {} |-> Blank]

\* An empty report is shown as a marker with the status of its row.
Shown(answer) == answer
FailureCount(variant) == Cardinality({q \in ReviewQuestions : reports[q][variant] = NoAnswer})

\* question_set_sha256 hashes with normalised line endings, file_sha256 the raw bytes.
NormalisedHash == "CRLF"
RawHash == lineEndings

ReviewInit ==
    /\ lineEndings \in {"LF", "CRLF"}
    /\ reports \in [ReviewQuestions -> [b3 : Answers, b4 : Answers]]
    /\ packet = <<>>
    /\ labels = NoLabels
    /\ writing = NoStep
    /\ comparison = NoComparison
    /\ refusal = "none"
    /\ packets = 0 /\ edits = 0

-----------------------------------------------------------------------------
Pair(q, swapped) ==
    LET plain == [a |-> Shown(reports[q].b3), b |-> Shown(reports[q].b4)]
    IN IF q \in swapped THEN [a |-> plain.b, b |-> plain.a] ELSE plain

BlankRow(q, swapped) == [id |-> q, question |-> q, a |-> Pair(q, swapped).a,
                         b |-> Pair(q, swapped).b, scoreA |-> Blank, scoreB |-> Blank]
Immutable(row) == [id |-> row.id, question |-> row.question, a |-> row.a, b |-> row.b]

(***************************************************************************)
(* A packet is prepared: the CSV is replaced first, its mapping second.    *)
(* The process may be killed in between.  (The model ends with the first   *)
(* comparison that is imported.)                                           *)
(***************************************************************************)
PreparePacket(swapped) ==
    /\ packets < MaxPackets
    /\ writing = NoStep /\ comparison = NoComparison
    /\ packet' = [i \in 1 .. Cardinality(ReviewQuestions) |-> BlankRow(i, swapped)]
    /\ writing' = swapped
    /\ packets' = packets + 1
    /\ UNCHANGED <<lineEndings, reports, labels, comparison, refusal, edits>>

WriteLabels ==
    /\ writing # NoStep
    /\ labels' = [q \in ReviewQuestions |->
                    [labelA |-> IF q \in writing THEN "b4" ELSE "b3",
                     digest |-> Immutable(BlankRow(q, writing)),
                     sources |-> reports[q]]]
    /\ writing' = NoStep
    /\ UNCHANGED <<lineEndings, reports, packet, comparison, refusal, packets, edits>>

KilledBeforeLabels ==
    /\ writing # NoStep
    /\ writing' = NoStep
    /\ UNCHANGED <<lineEndings, reports, packet, labels, comparison, refusal, packets, edits>>

-----------------------------------------------------------------------------
Reviewing == packet # <<>> /\ writing = NoStep /\ comparison = NoComparison

Score(i, side, mark) ==
    /\ Reviewing
    /\ packet' = [packet EXCEPT ![i][side] = mark]
    /\ UNCHANGED <<lineEndings, reports, labels, writing, comparison, refusal, packets, edits>>

\* The file is a spreadsheet: a row may be dropped, repeated, or its cells exchanged.
Edit(rowsAfter) ==
    /\ Reviewing
    /\ edits < MaxEdits
    /\ packet' = rowsAfter
    /\ edits' = edits + 1
    /\ UNCHANGED <<lineEndings, reports, labels, writing, comparison, refusal, packets>>

SwapAnswers(i) == [packet EXCEPT ![i].a = packet[i].b, ![i].b = packet[i].a]
EditRow(i) ==
    \/ Edit(RemoveAt(packet, i))
    \/ Edit(Append(packet, packet[i]))
    \/ Edit(SwapAnswers(i))

-----------------------------------------------------------------------------
IsScore(mark) == mark \in 0 .. 4
Entry(row) == labels[row.id]

\* Every check of import_blind_scores in its order; the first that fails names the refusal.
RowIsScored(row) ==
    /\ row.id \in DOMAIN labels
    /\ IsScore(row.scoreA) /\ IsScore(row.scoreB)
RowIsValid(row) ==
    /\ row.id \in DOMAIN labels
    /\ Immutable(row) = Entry(row).digest
    /\ Entry(row).sources = reports[row.question]
    /\ IsScore(row.scoreA) /\ IsScore(row.scoreB)
RowsAreDistinct == \A i, j \in DOMAIN packet : packet[i].id = packet[j].id => i = j
Refusals ==
    (IF NormalisedHash # RawHash THEN <<"question_sets">> ELSE <<>>) \o
    (IF labels = NoLabels THEN <<"mapping">> ELSE <<>>) \o
    (IF Len(packet) # Cardinality(DOMAIN labels) THEN <<"coverage">> ELSE <<>>) \o
    (IF ~RowsAreDistinct \/ \E i \in DOMAIN packet : ~RowIsValid(packet[i])
     THEN <<"rows">> ELSE <<>>)

RowOf(q) == CHOOSE i \in DOMAIN packet : packet[i].id = q
MarkOf(q, variant) == IF labels[q].labelA = variant THEN packet[RowOf(q)].scoreA
                                                    ELSE packet[RowOf(q)].scoreB

\* B3B4Evaluator.compare on the revealed scores.
Delta(scores) == SumFunction([q \in ReviewEligible |-> scores.b4[q] - scores.b3[q]])
ReviewDecision(scores) ==
    IF Delta(scores) <= 0 \/ FailureCount("b4") > FailureCount("b3")
    THEN "keep_disabled_no_clear_benefit"
    ELSE "human_review_required"

ImportScores ==
    /\ Reviewing
    /\ IF Refusals # <<>>
       THEN refusal' = Head(Refusals) /\ UNCHANGED comparison
       ELSE LET scores == [b3 |-> [q \in ReviewQuestions |-> MarkOf(q, "b3")],
                           b4 |-> [q \in ReviewQuestions |-> MarkOf(q, "b4")]]
            IN /\ comparison' = [decision |-> ReviewDecision(scores),
                                 b3 |-> scores.b3, b4 |-> scores.b4]
               /\ refusal' = "none"
    /\ UNCHANGED <<lineEndings, reports, packet, labels, writing, packets, edits>>

-----------------------------------------------------------------------------
ReviewNext ==
    \/ \E swapped \in Seeds : PreparePacket(swapped)
    \/ WriteLabels \/ KilledBeforeLabels
    \/ \E i \in DOMAIN packet, side \in {"scoreA", "scoreB"}, mark \in Marks :
          Score(i, side, mark)
    \/ \E i \in DOMAIN packet : EditRow(i)
    \/ ImportScores

ReviewSpec == ReviewInit /\ [][ReviewNext]_reviewVars

-----------------------------------------------------------------------------
\* The marks of the packet that stand beside an answer.
MarksBeside(q, answer) ==
    {packet[i].scoreA : i \in {k \in DOMAIN packet : packet[k].id = q /\ packet[k].a = answer}}
    \cup
    {packet[i].scoreB : i \in {k \in DOMAIN packet : packet[k].id = q /\ packet[k].b = answer}}

(***************************************************************************)
(* Whatever seeds were used, whatever was edited and wherever a            *)
(* preparation was killed: an imported comparison credits each variant     *)
(* with the mark that stands beside its own answer, and ScholarGraph is    *)
(* put forward only when its answers to the eligible questions were marked *)
(* higher altogether and failed no more often.                             *)
(***************************************************************************)
ScoresReachTheirVariant ==
    comparison # NoComparison =>
        /\ \A q \in ReviewQuestions :
              /\ comparison.b3[q] \in MarksBeside(q, Shown(reports[q].b3))
              /\ comparison.b4[q] \in MarksBeside(q, Shown(reports[q].b4))
              /\ comparison.b3[q] \in 0 .. 4 /\ comparison.b4[q] \in 0 .. 4
        /\ comparison.decision = "human_review_required" =>
              /\ Delta(comparison) > 0
              /\ FailureCount("b4") <= FailureCount("b3")
=============================================================================
