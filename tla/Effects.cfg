SPECIFICATION MCSpec
CONSTANTS
    Parts = {"journal", "budget", "planning", "fence"}
    a = a
    b = b
    c = c
    Calls <- MCCalls
    StageOf <- MCStageOf
    Reserve <- MCReserve
    NStages = 2
    Envelope = 4
    CallAttempts = 2
    Overrun = 1
    ReadMayFail = TRUE
    MaxRestarts = 2
    MaxResumes = 2
    Unmeasured = Unmeasured
    demo = demo
    real = real
    Tasks <- Both
    RealTasks <- OneReal
    Amounts = {1, 2}
    Capacity = 3
    MaxUsage = 2
    MaxStartups = 2
    NoRow = NoRow
    NotSettled = NotSettled
    NoEvent = NoEvent
    MaxGenerations = 2
    PhaseCalls = 1
    MaxVersions = 2
    MaxPlanCrashes = 2
    Operations = {o1, o2}
    MaxTrees = 3
    MaxArchives = 2
    MaxStops = 2
INVARIANTS
    NothingIsReissued
    SpendIsMeasured
    RunsKnowTheirPast
    ReservationsHold
    PlanningCallsAreAuthorized
    NothingIsRepeated
PROPERTIES
    RealExposureIsHeld
    ApprovedPlanStands
\* a task, a start-up that was refused and a directory come to an end
CHECK_DEADLOCK FALSE
