SPECIFICATION Spec
CONSTANTS
    Runs = {r1}
    Workers = {w1}
    Callers = {c1, c2}
    Drain = Drain
    Timer = Timer
    Boot = Boot
    NoProc = NoProc
    NoRun = NoRun
    G <- ForkGraph
    OnTimeout <- Reject
    Budget <- Faultless
    MaxIterations = 1
INVARIANTS
    CompletedIsExhausted
CHECK_DEADLOCK FALSE
