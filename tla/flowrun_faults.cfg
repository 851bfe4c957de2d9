SPECIFICATION Spec
CONSTANTS
    Runs = {r1}
    Workers = {w1}
    Callers = {c1, c2}
    Drain = Drain
    Timer = Timer
    Boot = Boot
    NoProc = NoProc
    NoRun = NoRun
    G <- GateGraph
    OnTimeout <- Fail
    Budget <- OneOfEach
    MaxIterations = 1
SYMMETRY ProcSymmetry
INVARIANTS
    SingleFlight
    NoRerun
    CompletedHasNoParked
PROPERTIES
    RecordOnce
    RefinesLedger
CHECK_DEADLOCK FALSE
