SPECIFICATION FairSpec
CONSTANTS
    t1 = t1
    t2 = t2
    w1 = w1
    NoTask = NoTask
    Tasks <- TwoTasks
    Settings <- Deterministic
    Workers <- OneWorker
    MaxQueueSize = 1
    MaxPlanVersions = 0
    MaxRestarts = 0
    FailingAudits = {"decision"}
PROPERTIES
    QueuedIsServed
    TerminalIsAnnounced
    CancellingEnds

