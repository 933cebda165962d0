SPECIFICATION Spec
CONSTANTS
    c1 = c1
    c2 = c2
    r = r
    Threads <- OneThread
    Runner = r
    Lanes <- Sampled
    MaxIterations = 2
    Interval = 0
    TargetEnabled = FALSE
    MemoryBudget = FALSE
    Faults <- NoFaults
    LoadedIterations <- NoLoads
    MaxCalls = 2
INVARIANT StoppedIsReportable
