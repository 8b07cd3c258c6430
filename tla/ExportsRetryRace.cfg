SPECIFICATION MCSpec
CONSTANTS
    Parts = {"exports"}
    t1 = t1
    t2 = t2
    w1 = w1
    w2 = w2
    Tasks <- MCTasks
    Workers <- MCWorkers
    MaxQueueSize = 1
    MaxSubmissions = 2
    NoSubmission = NoSubmission
    worker = worker
    retry = retry
    Missing = Missing
    Writers <- WithRetry
    MaxFaults = 0
    MaxRestarts = 0
    Progress <- MCProgress
    Heard <- MCHeard
    MaxEvents = 3
    MaxAttempts = 2
    MaxCuts = 3
    MaxRetries = 1
    End = End
PROPERTIES
    NoteIsTruthful
