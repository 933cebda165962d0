SPECIFICATION CSpec
CONSTANTS
    Keys <- TwoKeys
    Street <- SomeStreets
    Home <- SameHome
    Arrays <- TwoArrays
    Values <- Slabs
    Round <- RoundUp
    NewValues <- OddSlabs
    MinSlots = 2
    Precisions <- BothPrecisions
    PressureStreets <- SomePressure
    Shortages <- AllShortages
    Configs <- TwoConfigs
    Legacy <- OneLegacy
    MaxRestarts = 1
    MaxSaves = 1
    MaxOps = 5
INVARIANTS
    CInductive
    NoWriteIsLost
    EveryInfosetIsFound
    LoadIsExact
    FailedLoadIsPartOfTheFile
CHECK_DEADLOCK FALSE
