SPECIFICATION FairSpec
CONSTANTS
    o1 = o1
    d1 = d1
    d2 = d2
    c1 = c1
    c2 = c2
    Owners = {o1}
    Deps = {d1, d2}
    Callers = {c1, c2}
    NoCaller = NoCaller
    MaxRequests = 4
    MaxFaults = 1
INVARIANTS
    RowsAreTrue
    EnvHasRuntime
PROPERTIES
    OperationsEnd
CHECK_DEADLOCK FALSE
