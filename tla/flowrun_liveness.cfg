SPECIFICATION FairSpec
CONSTANTS
    Runs = {r1}
    Workers = {w1}
    Callers = {c1}
    Drain = Drain
    Timer = Timer
    Boot = Boot
    NoProc = NoProc
    NoRun = NoRun
    G <- LoopGraph
    OnTimeout <- Reject
    Budget <- StopAndReplay
    MaxIterations = 1
INVARIANTS
    RunningHasOwner
PROPERTIES
    RunsSettle
    TimedApprovalsSettle
CHECK_DEADLOCK FALSE
