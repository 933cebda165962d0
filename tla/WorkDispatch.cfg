SPECIFICATION DFairSpec
CONSTANTS
    Workers <- TwoWorkers
    Fleets <- SomeFleets
    Jobs <- SomeJobs
    Forever <- NoQuota
    UnitSize = 1
    ResultSize = 3
    SocketSize = 2
    Faults <- AllFaults
    MaxCalls = 2
    MaxCrashes = 1
INVARIANTS
    DInductive
    UnitsAreDealtOnce
    OkMeansAnswered
    AnswersAreCurrent
    AppliedIsCanonical
    RegisteredIsConnected
PROPERTIES
    CallReturns
    WorkersLeave
CHECK_DEADLOCK FALSE
