SPECIFICATION FairSpec
CONSTANTS
    w1 = w1
    t1 = t1
    t2 = t2
    Workflows = {w1}
    Triggers = {t1, t2}
    Keys = {k1}
    Choices <- AnyPolicy
    Entry <- BothTriggers
    Parking = {}
    DrainLimit = 3
    Budget <- Disturbed
INVARIANTS
    OneRunPerFiring
    OneAtATime
    RunningIsPooled
PROPERTIES
    DisposedNeverRuns
    FiringsSettle
CHECK_DEADLOCK FALSE
