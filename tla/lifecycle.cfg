SPECIFICATION FairSpec
CONSTANTS
    w1 = w1
    t1 = t1
    t2 = t2
    Workflows = {w1}
    Triggers = {t1, t2}
    NoWf = NoWf
    NoTrigger = NoTrigger
    Entry <- FirstTrigger
    Callers = {p1}
    Reporters = {r1}
    Settlers = {s1, s2}
    MaxQueued = 1
    MaxEvents = 6
INVARIANTS
    BindingsFollowLifecycle
    ListenersAreHot
PROPERTIES
    DrainEnds
CHECK_DEADLOCK FALSE
