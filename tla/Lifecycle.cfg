SPECIFICATION FairSpec
CONSTANTS
    c1 = c1
    c2 = c2
    r = r
    Threads <- TwoThreads
    Runner = r
    Lanes <- BothLanes
    MaxIterations = 2
    Interval = 1
    TargetEnabled = TRUE
    MemoryBudget = TRUE
    Faults <- RunFaults
    LoadedIterations <- SomeLoads
    MaxCalls = 2
INVARIANTS
    Inductive
    AckMeansQuiescent
    StopGrace
    CounterTracksStorage
    CompletedMeansDone
    CauseIsHonest
    DestroySafe
PROPERTIES
    ImplementsContract
    RunEndsOrIsHeld
    DestroyReturns
