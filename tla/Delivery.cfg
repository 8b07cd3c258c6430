SPECIFICATION MCFairSpec
CONSTANTS
    Parts = {"queue", "exports", "stream"}
    t1 = t1
    t2 = t2
    w1 = w1
    w2 = w2
    Tasks <- MCTasks
    Workers <- MCWorkers
    MaxQueueSize = 1
    MaxSubmissions = 2
    NoSubmission = NoSubmission
    worker = worker
    retry = retry
    Missing = Missing
    Writers <- WithRetry
    MaxFaults = 1
    MaxRestarts = 1
    Progress <- MCProgress
    Heard <- MCHeard
    MaxEvents = 3
    MaxAttempts = 2
    MaxCuts = 3
    MaxRetries = 1
    End = End
INVARIANTS
    SubmissionsAreTracked
    ReadyMeansStored
    ReportsAgree
    TimelineIsWhole
PROPERTIES
    AcceptedWorkFinishes
    ImplementsContract
    StreamIsClosed
    EndIsLearned
\* a drained pool and a stream whose end was seen have no further step
CHECK_DEADLOCK FALSE
