SPECIFICATION PSpec
CONSTANTS
    m = m
    w = w
    r = r
    Threads <- MWThreads
    Main = m
    Watcher = w
    Runner = r
    Lanes <- Sampled
    MaxIterations = 2
    Interval = 0
    TargetEnabled = FALSE
    MemoryBudget = FALSE
    Faults <- NoFaults
    LoadedIterations <- NoLoads
    Resuming = FALSE
    SignalFrom = "running"
    CheckpointInterval = 1
    MaxCalls = 30
INVARIANT SaveAtBoundary
