SPECIFICATION MCSpec
CONSTANTS
    Parts = {"ablation", "schemes", "gate", "observations", "paired", "blind"}
    Questions = {1}
    ClaimIds = {1, 2}
    VariantOrder <- MCVariantOrder
    MaxVerifierCalls = 3
    MaxReportCalls = 3
    MaxCost = 7
    CallPrice = 1
    Reserve = 2
    LostReserve = 4
    MaxStarts = 3
    Qs = {1, 2}
    BaselineShare = 2
    FullShare = 5
    SelectiveShare = 3
    MaxComparisons = 3
    Operators = {p1}
    InitialTarget = 1
    MaxTarget = 3
    MinOpportunities = 1
    MinRecoveries = 1
    MinStrata = 1
    Strata = {"s1"}
    Verdicts = {"hit", "recovered"}
    MaxCaptures = 3
    MaxGold = 3
    Reviewers = {p1, p2}
    InitialWindow = 1
    MaxWindow = 1
    MinMisses = 1
    MinCorpusMisses = 1
    MinGraphMisses = 1
    MinCauses = 1
    Causes = {"none", "G2_RELATION", "N1_CORPUS_GAP"}
    Paths = {"path_missing", "not_applicable"}
    MaxObservations = 3
    MaxReviews = 1
    Pairs = {1, 2}
    Scope <- MCScope
    Eligible = {1}
    PairClaims = {1, 2}
    ClaimOf <- MCClaimOf
    InvalidClaims = {2}
    Draft = {"supported", "unsupported"}
    MaxAsked = 2
    MaxAskedCost = 5
    AskEstimate = 2
    MaxReports = 5
    MaxReportCost = 10
    ReportEstimate = 2
    Prices = {1, 2}
    MaxRuns = 3
    ReviewQuestions = {1}
    ReviewEligible = {1}
    Answers = {"none", "x"}
    NoAnswer = "none"
    Marks = {0, 4}
    Seeds <- MCSeeds
    MaxPackets = 2
    MaxEdits = 1
INVARIANTS
    StudyIsAccounted
    HardCapHolds
    GateIsFair
    LedgerStaysValid
    RunIsAccounted
    ScoresReachTheirVariant
PROPERTIES
    NothingIsResent
\* every study has an end
CHECK_DEADLOCK FALSE
