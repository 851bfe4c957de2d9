SPECIFICATION Spec
CONSTANTS
    h1 = h1
    c1 = c1
    c2 = c2
    Handlers = {h1}
    Callers = {c1, c2}
    Main = Main
    NoCaller = NoCaller
    MaxRequests = 2
    MaxSpawns = 2
SYMMETRY Symmetry
INVARIANTS
    OneSpawner
    NoOrphan
    NeverKilledInCall
    RestartsTakeHold
CHECK_DEADLOCK FALSE
