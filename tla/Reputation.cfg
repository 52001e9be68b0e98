CONSTANTS
    Services = {s1, s2}
    DeployBlock = 3
    BlockTime = 2
    Window = 5
    ChunkBlocks = 2
    MaxBlock = 8
    NoScore = NoScore
SPECIFICATION Spec
SYMMETRY ServicesSym
INVARIANTS
    WindowCountedOnce
    ScoresAreOfTheirWindow
    EveryListingIsScored
CHECK_DEADLOCK FALSE
