SPECIFICATION FairSpec
CONSTANTS
    t1 = t1
    t2 = t2
    w1 = w1
    NoTask = NoTask
    Tasks <- OneTask
    Settings <- LiveOnly
    Workers <- OneWorker
    MaxQueueSize = 1
    MaxPlanVersions = 1
    MaxRestarts = 0
    FailingAudits = {}
PROPERTIES
    CancellingEnds
