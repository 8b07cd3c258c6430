------------------------ MODULE EvidenceAcquisition ------------------------
(***************************************************************************)
(* From a paper to the evidence drawn from its full text (evidence/): the  *)
(* PDF is acquired, ingested by DocuMind, bound, retrieved from and        *)
(* analysed, and what the collection created in DocuMind is deleted again. *)
(* Collections run at the same time, share the directory of PDFs and the   *)
(* DocuMind service, and can be lost and started again.                    *)
(***************************************************************************)
EXTENDS Naturals, Sequences, FiniteSets, SequencesExt

CONSTANTS Collections,    \* processes that collect evidence
          HashChecked,    \* those that hand the recorded hashes to ingest_papers
          RepositoryOf,   \* the binding database of each collection
          NPapers,        \* every collection is about papers 1 .. NPapers
          Revisions,      \* contents a paper's PDF can have (strings)
          MaxRetrievals,  \* requests per paper (client.py: max_attempts)
          MaxDrafts,      \* model calls per paper (analysis.py: max_attempts)
          MaxAcquisitions \* bound: how often a collection is started

ASSUME AcquisitionAssumption ==
    /\ {NPapers, MaxRetrievals, MaxDrafts, MaxAcquisitions} \subseteq Nat \ {0}
    /\ {"none", "junk"} \cap Revisions = {}
    \* Every task, and every run of a script, has a binding database of its own.
    /\ \A c, d \in Collections : RepositoryOf[c] = RepositoryOf[d] => c = d

VARIABLES
    arxiv,     \* the revision arXiv serves of each paper
    files,     \* the shared directory of PDFs
    documind,  \* the active index of each document, named by its source
    bindings,  \* each repository's binding of each paper
    run,       \* what each collection is doing
    disk,      \* the start of the collection that wrote each artifact
    creator,   \* history: the collection that created each document
    deletions  \* history: who deleted a document of whom

acquisitionVars == <<arxiv, files, documind, bindings, run, disk, creator, deletions>>

Subjects == 1 .. NPapers
NoRevision == [p \in Subjects |-> "none"]
Artifacts == <<"reports", "manifest">>    \* four files, then the manifest

IdleRun == [at |-> "off", starts |-> 0, temp |-> NoRevision, sums |-> NoRevision, hash |-> NoRevision,
            listed |-> {}, created |-> << >>, next |-> 1, sent |-> "none",
            read |-> "none", tries |-> [p \in Subjects |-> 0], got |-> NoRevision,
            bound |-> NoRevision, analysed |-> {}, sound |-> TRUE]

Bound(c) == bindings[RepositoryOf[c]]
InStage(c, stages) == run[c].at \in stages
Enter(c, stage) == run' = [run EXCEPT ![c].at = stage]
IsPdf(p) == files[p] \in Revisions

AcquisitionInit ==
    /\ arxiv \in [Subjects -> Revisions]
    /\ files \in [Subjects -> {"none", "junk"} \union Revisions]
    /\ documind = NoRevision
    /\ bindings = [r \in {RepositoryOf[c] : c \in Collections} |-> NoRevision]
    /\ run = [c \in Collections |-> IdleRun]
    /\ disk = [c \in Collections |-> [a \in 1 .. Len(Artifacts) |-> 0]]
    /\ creator = [p \in Subjects |-> "none"]
    /\ deletions = {}

Revise ==
    /\ \E p \in Subjects : \E r \in Revisions \ {arxiv[p]} : arxiv' = [arxiv EXCEPT ![p] = r]
    /\ UNCHANGED <<files, documind, bindings, run, disk, creator, deletions>>

StartCollection(c) ==
    /\ InStage(c, {"off", "failed"})
    /\ run[c].starts < MaxAcquisitions
    /\ run' = [run EXCEPT ![c] = [IdleRun EXCEPT !.at = "acquire", !.starts = run[c].starts + 1]]
    /\ UNCHANGED <<arxiv, files, documind, bindings, disk, creator, deletions>>

-----------------------------------------------------------------------------
(* acquire_pdf: a PDF that is there is used; otherwise a new one is written  *)
(* beside it and renamed. What is recorded is the hash of what is there then.*)
RecordSum(c, p) ==
    /\ InStage(c, {"acquire"})
    /\ run[c].sums[p] = "none" /\ run[c].temp[p] = "none"
    /\ IsPdf(p)
    /\ run' = [run EXCEPT ![c].sums[p] = files[p]]
    /\ UNCHANGED <<arxiv, files, documind, bindings, disk, creator, deletions>>

Download(c, p) ==
    /\ InStage(c, {"acquire"})
    /\ run[c].sums[p] = "none" /\ run[c].temp[p] = "none"
    /\ ~IsPdf(p)
    /\ run' = [run EXCEPT ![c].temp[p] = arxiv[p]]
    /\ UNCHANGED <<arxiv, files, documind, bindings, disk, creator, deletions>>

ReplaceFile(c, p) ==
    /\ InStage(c, {"acquire"})
    /\ run[c].temp[p] # "none"
    /\ files' = [files EXCEPT ![p] = run[c].temp[p]]
    /\ run' = [run EXCEPT ![c].temp[p] = "none"]
    /\ UNCHANGED <<arxiv, documind, bindings, disk, creator, deletions>>

-----------------------------------------------------------------------------
(* ingest_papers: one listing, then paper after paper.                       *)
Present == {p \in Subjects : documind[p] # "none"}

ListDocuments(c) ==
    /\ InStage(c, {"acquire"})
    /\ \A p \in Subjects : run[c].sums[p] # "none"
    /\ run' = [run EXCEPT ![c].at = "check", ![c].listed = Present]
    /\ UNCHANGED <<arxiv, files, documind, bindings, disk, creator, deletions>>

Current(c) == run[c].next

(* The PDF is hashed again.  A task and the smoke run compare this with the  *)
(* hash of the acquisition, the preparation of the B3/B4 study does not      *)
(* (prepare_m6_b3_b4_evidence.py:416).                                       *)
CheckSource(c) ==
    LET p == Current(c) IN
    /\ InStage(c, {"check"})
    /\ IsPdf(p)
    /\ c \in HashChecked => files[p] = run[c].sums[p]
    /\ run' = [run EXCEPT ![c].at = "upload", ![c].hash[p] = files[p]]
    /\ UNCHANGED <<arxiv, files, documind, bindings, disk, creator, deletions>>

(* The file is read again for the upload. DocuMind indexes what it is sent   *)
(* and makes that the active index of the document.                          *)
Upload(c) ==
    LET p == Current(c) IN
    /\ InStage(c, {"upload"})
    /\ documind' = [documind EXCEPT ![p] = files[p]]
    /\ creator' = [creator EXCEPT ![p] = IF documind[p] = "none" THEN c ELSE @]
    /\ run' = [run EXCEPT ![c].at = "confirm", ![c].sent = files[p]]
    /\ UNCHANGED <<arxiv, files, bindings, disk, deletions>>

UploadConfirmed(c) ==
    LET p == Current(c) IN files[p] = run[c].hash[p] /\ run[c].sent = run[c].hash[p]

ConfirmUpload(c) ==
    LET p == Current(c) IN
    /\ InStage(c, {"confirm"})
    /\ UploadConfirmed(c)
    /\ run' = [run EXCEPT ![c].at = "detail",
                          ![c].created = IF p \in run[c].listed THEN @ ELSE Append(@, p),
                          ![c].listed = @ \union {p}]
    /\ UNCHANGED <<arxiv, files, documind, bindings, disk, creator, deletions>>

CheckActive(c) ==
    /\ InStage(c, {"detail"})
    /\ documind[Current(c)] = run[c].sent
    /\ run' = [run EXCEPT ![c].at = "bind", ![c].read = Bound(c)[Current(c)]]
    /\ UNCHANGED <<arxiv, files, documind, bindings, disk, creator, deletions>>

(* The repository compares with what was read, and then replaces it.         *)
MayPut(c) ==
    LET now == Bound(c)[Current(c)] IN
    now = run[c].read \/ now = run[c].sent

PutBinding(c) ==
    /\ InStage(c, {"bind"})
    /\ MayPut(c)
    /\ bindings' = [bindings EXCEPT ![RepositoryOf[c]][Current(c)] = run[c].sent]
    /\ run' = [run EXCEPT ![c].at = IF Current(c) < NPapers THEN "check" ELSE "retrieve",
                          ![c].next = @ + 1]
    /\ UNCHANGED <<arxiv, files, documind, disk, creator, deletions>>

-----------------------------------------------------------------------------
(* retrieve: the answer names the index and the source it is drawn from, and *)
(* must be of the binding that was asked for.                                *)
AnyAnswer(binding, answer) == answer # "none"
InScope(binding, answer) == answer # "none" /\ answer = binding

Retrieve(c, p) ==
    /\ InStage(c, {"retrieve"})
    /\ run[c].got[p] = "none" /\ run[c].tries[p] < MaxRetrievals
    /\ Bound(c)[p] # "none"
    /\ InScope(Bound(c)[p], documind[p])
    /\ run' = [run EXCEPT ![c].got[p] = documind[p], ![c].bound[p] = Bound(c)[p],
                          ![c].tries[p] = 0]
    /\ UNCHANGED <<arxiv, files, documind, bindings, disk, creator, deletions>>

RetrieveAgain(c, p) ==
    /\ InStage(c, {"retrieve"})
    /\ run[c].got[p] = "none" /\ run[c].tries[p] + 1 < MaxRetrievals
    /\ run' = [run EXCEPT ![c].tries[p] = @ + 1]
    /\ UNCHANGED <<arxiv, files, documind, bindings, disk, creator, deletions>>

(* Every retrieval is over before a model is asked.                          *)
Barrier(c) ==
    /\ InStage(c, {"retrieve"})
    /\ \A p \in Subjects : run[c].got[p] # "none"
    /\ Enter(c, "analyse")
    /\ UNCHANGED <<arxiv, files, documind, bindings, disk, creator, deletions>>

(* A draft that cites what it was not given, or a number its quote does not  *)
(* have, is asked for again; an accepted one becomes evidence of the binding.*)
AnalysePaper(c, p) ==
    /\ InStage(c, {"analyse"})
    /\ p \notin run[c].analysed /\ run[c].tries[p] < MaxDrafts
    /\ run' = [run EXCEPT ![c].analysed = @ \union {p}]
    /\ UNCHANGED <<arxiv, files, documind, bindings, disk, creator, deletions>>

DraftRejected(c, p) ==
    /\ InStage(c, {"analyse"})
    /\ p \notin run[c].analysed /\ run[c].tries[p] + 1 < MaxDrafts
    /\ run' = [run EXCEPT ![c].tries[p] = @ + 1]
    /\ UNCHANGED <<arxiv, files, documind, bindings, disk, creator, deletions>>

Written(c) == Cardinality({a \in DOMAIN disk[c] : disk[c][a] = run[c].starts})

Persist(c) ==
    /\ InStage(c, {"analyse"})
    /\ run[c].analysed = Subjects
    /\ Written(c) < Len(Artifacts)
    /\ disk' = [disk EXCEPT ![c][Written(c) + 1] = run[c].starts]
    /\ UNCHANGED <<arxiv, files, documind, bindings, run, creator, deletions>>

FinishCollection(c) ==
    /\ InStage(c, {"analyse"})
    /\ Written(c) = Len(Artifacts)
    /\ Enter(c, "cleanup")
    /\ UNCHANGED <<arxiv, files, documind, bindings, disk, creator, deletions>>

(* Any check that fails, and any request, ends the collection; once papers   *)
(* are being ingested, what it created is deleted all the same.              *)
Working == {"acquire", "check", "upload", "confirm", "detail", "bind", "retrieve", "analyse"}
FalterCollection(c) ==
    /\ InStage(c, Working)
    /\ run' = [run EXCEPT ![c].at = IF InStage(c, {"acquire"}) THEN "failed" ELSE "cleanup",
                          ![c].sound = FALSE]
    /\ UNCHANGED <<arxiv, files, documind, bindings, disk, creator, deletions>>

-----------------------------------------------------------------------------
(* cleanup_documents: the last one first; one that is gone counts as deleted,*)
(* and a failure does not stop the rest.                                     *)
DeleteDocument(c) ==
    LET p == Last(run[c].created) IN
    /\ InStage(c, {"cleanup"})
    /\ run[c].created # << >>
    /\ documind' = [documind EXCEPT ![p] = "none"]
    /\ deletions' = IF documind[p] = "none" THEN deletions
                    ELSE deletions \union {[by |-> c, of |-> creator[p]]}
    /\ run' = [run EXCEPT ![c].created = Front(@)]
    /\ UNCHANGED <<arxiv, files, bindings, disk, creator>>

DeletionFails(c) ==
    /\ InStage(c, {"cleanup"})
    /\ run[c].created # << >>
    /\ run' = [run EXCEPT ![c].created = Front(@), ![c].sound = FALSE]
    /\ UNCHANGED <<arxiv, files, documind, bindings, disk, creator, deletions>>

EndCollection(c) ==
    /\ InStage(c, {"cleanup"})
    /\ run[c].created = << >>
    /\ Enter(c, IF run[c].sound THEN "done" ELSE "failed")
    /\ UNCHANGED <<arxiv, files, documind, bindings, disk, creator, deletions>>

LoseCollection(c) ==
    /\ InStage(c, Working \union {"cleanup"})
    /\ Enter(c, "off")
    /\ UNCHANGED <<arxiv, files, documind, bindings, disk, creator, deletions>>

AcquisitionNext ==
    \/ Revise
    \/ \E c \in Collections :
          \/ StartCollection(c) \/ ListDocuments(c) \/ CheckSource(c) \/ Upload(c)
          \/ ConfirmUpload(c) \/ CheckActive(c) \/ PutBinding(c) \/ Barrier(c)
          \/ Persist(c) \/ FinishCollection(c) \/ FalterCollection(c)
          \/ DeleteDocument(c) \/ DeletionFails(c) \/ EndCollection(c) \/ LoseCollection(c)
          \/ \E p \in Subjects :
                \/ RecordSum(c, p) \/ Download(c, p) \/ ReplaceFile(c, p)
                \/ Retrieve(c, p) \/ RetrieveAgain(c, p)
                \/ AnalysePaper(c, p) \/ DraftRejected(c, p)

AcquisitionSpec == AcquisitionInit /\ [][AcquisitionNext]_acquisitionVars

-----------------------------------------------------------------------------
(* A piece of evidence is drawn from the PDF that its collection hashed and  *)
(* uploaded, and says so: whatever the other collections do to the file, the *)
(* document and its index between the steps; and where the collection hands  *)
(* over the hashes of the acquisition, that is the PDF it acquired           *)
(* (live.py:343-400; client.py:235-246; analysis.py:380-400).                *)
EvidenceIsOfItsSource ==
    \A c \in Collections : \A p \in run[c].analysed :
        /\ run[c].got[p] = run[c].hash[p] /\ run[c].bound[p] = run[c].hash[p]
        /\ c \in HashChecked => run[c].hash[p] = run[c].sums[p]

(* A collection deletes only documents it created ("only the documents newly *)
(* created by this run are cleaned up", docs/M10_P3_ACQUISITION_REVIEW.md:30;*)
(* docs/INTERFACE.md:96; README.md:63).                                      *)
CleanupIsOwn == \A d \in deletions : d.by = d.of
=============================================================================
