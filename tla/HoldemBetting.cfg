SPECIFICATION Spec
CONSTANTS
    PlayerCount = 3
    Games <- SomeGames
    Edges <- SomeEdges
INVARIANTS
    BInductive
    ChipsAreConserved
    ActorOwesADecision
    RoundIsSettled
    OfferedActionsApply
    PotIsPaidOut
    NobodyWinsMoreThanCovered
    SlicesPayTheSame
PROPERTIES
    ShortAllInReopensNothing
    EveryStepNearsTheEnd
CHECK_DEADLOCK FALSE
