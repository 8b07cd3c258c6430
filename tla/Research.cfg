SPECIFICATION MCSpec
CONSTANTS
    Parts = {"records", "identity", "http", "evidence", "workflow", "verification", "run"}
    Days = {0, 1, 2, 3}
    YearDays = 2
    Cutoffs <- MCCutoffs
    Candidates <- MCCandidates
    ArxivOfDoi <- MCArxivOfDoi
    MaxCandidates = 4
    Sources = {"openalex", "arxiv"}
    CitationSource = "openalex"
    MaxRequests = 3
    HttpAttempts = 2
    Interval = 1
    Delays = {0, 2}
    MaxExpansions = 2
    Cached <- MCCached
    MaxClock = 20
    Collections = {"c1", "c2"}
    HashChecked = {"c1"}
    RepositoryOf <- MCRepositoryOf
    NPapers = 1
    Revisions = {"r1", "r2"}
    MaxRetrievals = 2
    MaxDrafts = 2
    MaxAcquisitions = 1
    Papers = {1, 2, 3}
    Subquestions = {"a"}
    Answers <- MCAnswers
    Limits <- MCLimits
    MaxCrashes = 2
    NClaims = 2
    ClaimKinds <- MCClaimKinds
    EvidenceKinds <- MCEvidenceKinds
    MaxVerifyRuns = 3
    MaxRounds = 2
    SearchAnswers <- MCSearchAnswers
    ExpansionAnswers <- MCExpansionAnswers
    Fate <- MCFate
    MinPapers = 1
    MaxPapers = 2
    MaxDiscovered = 1
    Scopes = 1
    WallClock = 1
    ApprovedDeadline = 2
    MaxSessions = 2
    MaxTime = 2
INVARIANTS
    KeptIsProvable
    PapersAreTheirIdentities
    EvidenceIsOfItsSource
    WorkflowIsAccounted
    VerdictsAreSound
    ResumeReproduces
    ResultIsEarned
    SourcesAreSpared
PROPERTIES
    DispatchIsInTime
\* every part has an end
CHECK_DEADLOCK FALSE
