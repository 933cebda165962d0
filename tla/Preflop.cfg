SPECIFICATION PFairSpec
CONSTANTS
    m = m
    w = w
    r = r
    Threads <- MWThreads
    Main = m
    Watcher = w
    Runner = r
    Lanes <- Sampled
    MaxIterations = 3
    Interval = 2
    TargetEnabled = TRUE
    MemoryBudget = TRUE
    Faults <- AllFaults
    LoadedIterations <- FewLoads
    Resuming = TRUE
    SignalFrom = "running"
    CheckpointInterval = 1
    MaxCalls = 30
INVARIANTS
    PInductive
    CheckpointMatches
    NoThreadOutlivesSolver
    FinalCheckpointSaved
PROPERTY
    ProgramEnds
