SPECIFICATION MemorySpec
CONSTANTS
    Protected = 2
    Hot = 0
    Warm = 1
    MaxSends = 3
    MaxEvents = 1
INVARIANTS
    NothingForgotten
    NothingTwice
    TaskIsSeen
CHECK_DEADLOCK FALSE
