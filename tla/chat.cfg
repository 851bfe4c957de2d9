SPECIFICATION FairSpec
CONSTANTS
    m1 = m1
    m2 = m2
    Turns = {m1, m2}
    NoTurn = NoTurn
    Callers = {p1}
    MaxQueues = 2
    MaxCalls = 1
    MaxCrashes = 1
INVARIANTS
    OneTurnAtATime
    RunsOpenTurns
    GatedToolsAskFirst
PROPERTIES
    TurnsEnd
    ShutdownReturns
CHECK_DEADLOCK FALSE
