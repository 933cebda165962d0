SPECIFICATION Spec
CONSTANTS
    NumPlayers = 3
    StartStacks <- ThreeStacks
    Blinds <- SmallBlinds
    Variants <- TwoVariants
    Rotations = {"sequential", "random", "choice"}
    Showings <- SomeShowings
    MaxHands = 2
INVARIANTS
    GInductive
PROPERTIES
    AwardIsExact
CHECK_DEADLOCK FALSE
