SPECIFICATION DFairSpec
CONSTANTS
    Workers <- TwoWorkers
    Fleets <- TwoEqual
    Jobs <- OneJob
    Forever <- NoQuota
    UnitSize = 3
    ResultSize = 3
    SocketSize = 2
    Faults <- CrashOnly
    MaxCalls = 2
    MaxCrashes = 1
PROPERTIES
    CallReturns
CHECK_DEADLOCK FALSE
