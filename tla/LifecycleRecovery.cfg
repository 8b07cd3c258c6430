SPECIFICATION Spec
CONSTANTS
    t1 = t1
    t2 = t2
    w1 = w1
    NoTask = NoTask
    Tasks <- OneTask
    Settings <- Researching
    Workers <- OneWorker
    MaxQueueSize = 1
    MaxPlanVersions = 2
    MaxRestarts = 2
    FailingAudits = {"decision", "outcome"}
INVARIANTS
    AdmittedWorkIsFunded
    DecisionsHold
    RecoveryIsBounded
PROPERTIES
    CancelledRealNeverPublishes
    

