SPECIFICATION Spec
CONSTANTS
    PlayerCount = 3
    Games <- TreeGames
    Edges <- PotEdges
INVARIANTS
    TreeSizesKeepTheirMeaning
CHECK_DEADLOCK FALSE
