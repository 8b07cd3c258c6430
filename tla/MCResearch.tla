----------------------------- MODULE MCResearch -----------------------------
(* The parts of a research run, from the records of the sources to the       *)
(* verified report.  They share no variable: "part" says which one a         *)
(* behaviour is about, and the others stay in one of their initial states.   *)
EXTENDS SourceRecords, SearchIdentity, SearchHttp, EvidenceAcquisition,
        WorkflowGraph, Verification, ResearchRun

CONSTANT Parts
VARIABLE part

MCCutoffs == {NoDay, 0, 1, 2}

(* Six candidates, as the sources give them: a publication, an arXiv DOI,    *)
(* a work without other identifiers, a preprint of the year before, one that *)
(* knows its publication, and a record that takes it for another work.       *)
CandidateRecord(doi, arxivId, openalex, semantic, priority) ==
    [doi |-> doi, arxiv |-> arxivId, openalex |-> openalex, semantic |-> semantic,
     title |-> "t", year |-> 1, priority |-> priority]
MCCandidates ==
    {CandidateRecord("d1", "none", "none", "none", 4),
     CandidateRecord("ad1", "a1", "w1", "none", 3), CandidateRecord("none", "none", "w2", "none", 3),
     [CandidateRecord("none", "a1", "none", "none", 2) EXCEPT !.year = 0],
     CandidateRecord("d1", "a2", "none", "none", 2),
     CandidateRecord("d2", "a2", "none", "s1", 1)}
MCArxivOfDoi == [ad1 |-> "a1"]

MCRepositoryOf == [c \in Collections |-> c]

(* Two answers of the search service, one of which covers the subquestion.   *)
MCAnswers == {[papers |-> {1, 2}, covered |-> {}], [papers |-> {1, 3}, covered |-> {"a"}]}
MCLimits == [rounds |-> 2, queries |-> 2, api |-> 2, candidates |-> 2,
             fulltext |-> 2, workers |-> 2]

(* Evidence of every kind the validator tells apart: sound, of a paper whose *)
(* binding or chunk changed since, and missing.                              *)
Evidence(exists, binding, chunk) ==
    [exists |-> exists, paper |-> TRUE, versionTarget |-> TRUE, analyzed |-> TRUE,
     intact |-> TRUE, fulltext |-> TRUE, binding |-> binding, chunk |-> chunk]
MCEvidenceKinds ==
    {Evidence(TRUE, "same", "same"), Evidence(TRUE, "changed", "same"),
     Evidence(TRUE, "same", "changed"), Evidence(FALSE, "same", "same")}
MCClaimKinds ==
    [critical : BOOLEAN, counter : BOOLEAN, numbersFound : {TRUE}, edgesFound : {TRUE},
     asked : {TRUE}]

MCSearchAnswers ==
    {[found |-> {1}, ok |-> TRUE], [found |-> {1, 2}, ok |-> FALSE],
     [found |-> {3}, ok |-> TRUE]}
MCExpansionAnswers == {[found |-> {1, 2}, ok |-> FALSE]}
MCFate == <<"kept", "kept", "legacy">>

-----------------------------------------------------------------------------
RecordsPart ==
    /\ \/ part = "records"
       \/ /\ part # "records"
          /\ work = [published |-> 0, latest |-> 0, versions |-> 1]
          /\ record = [source |-> "arxiv", complete |-> TRUE, precision |-> "day",
                       onArxiv |-> TRUE, dated |-> TRUE]
          /\ request = [from |-> 0, to |-> 0, before |-> NoDay]
    /\ RecordsInit
IdentityPart ==
    /\ \/ part = "identity"
       \/ part # "identity" /\ batch = <<CHOOSE c \in Candidates : TRUE>>
    /\ IdentityInit
EvidencePart ==
    /\ \/ part = "evidence"
       \/ /\ part # "evidence"
          /\ arxiv = [p \in Subjects |-> CHOOSE r \in Revisions : TRUE]
          /\ files = NoRevision
    /\ AcquisitionInit
\* Caches that are new, or hold what the seeds once were answered.
MCCached == {[s \in Sources |-> [search |-> "none", seeds |-> body, references |-> "none"]] :
                body \in {"none", "garbled"}}
HttpPart ==
    /\ HttpInit
    /\ part = "http" \/ \A s \in Sources : stored[s].seeds = "none"
VerificationPart ==
    /\ \/ part = "verification"
       \/ /\ part # "verification"
          /\ claim = [c \in ClaimIds |-> CHOOSE k \in ClaimKinds : TRUE]
          /\ support = [c \in ClaimIds |-> {}]
    /\ VerificationInit

MCInit ==
    /\ part \in Parts
    /\ RecordsPart /\ IdentityPart /\ HttpPart /\ EvidencePart
    /\ WorkflowInit /\ VerificationPart /\ ResearchInit

MCNext ==
    /\ part' = part
    /\ \/ part = "records" /\ RecordsNext
             /\ UNCHANGED <<identityVars, httpVars, acquisitionVars, workflowVars,
                            verificationVars, researchVars>>
       \/ part = "identity" /\ IdentityNext
             /\ UNCHANGED <<recordsVars, httpVars, acquisitionVars, workflowVars,
                            verificationVars, researchVars>>
       \/ part = "http" /\ HttpNext
             /\ UNCHANGED <<recordsVars, identityVars, acquisitionVars, workflowVars,
                            verificationVars, researchVars>>
       \/ part = "evidence" /\ AcquisitionNext
             /\ UNCHANGED <<recordsVars, identityVars, httpVars, workflowVars,
                            verificationVars, researchVars>>
       \/ part = "workflow" /\ WorkflowNext
             /\ UNCHANGED <<recordsVars, identityVars, httpVars, acquisitionVars,
                            verificationVars, researchVars>>
       \/ part = "verification" /\ VerificationNext
             /\ UNCHANGED <<recordsVars, identityVars, httpVars, acquisitionVars,
                            workflowVars, researchVars>>
       \/ part = "run" /\ ResearchNext
             /\ UNCHANGED <<recordsVars, identityVars, httpVars, acquisitionVars,
                            workflowVars, verificationVars>>

mcVars == <<part, recordsVars, identityVars, httpVars, acquisitionVars, workflowVars,
            verificationVars, researchVars>>
MCSpec == MCInit /\ [][MCNext]_mcVars
=============================================================================
