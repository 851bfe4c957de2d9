SPECIFICATION GraphSpec
CONSTANTS
    Orders <- TriggerFirst
    Kind <- BothKinds
    Choices <- WellPorted
    MaxEdges = 5
    MaxIterations = 1
INVARIANTS
    BackEdgesCutLoops
    StructuredLoopsClose
    NothingStranded
    JoinsWaitForAll
CHECK_DEADLOCK FALSE
