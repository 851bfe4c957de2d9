SPECIFICATION Spec
CONSTANTS
    Plain = {d1, d2}
    Documents = {d1, d2}
    Conv = Conv
    Messages = {m1}
    NoMsg = NoMsg
    Slack = 1
    QueueSize = 1
    EmbedBatch = 1
    MaxClock = 3
    MaxEvents = 1
SYMMETRY Symmetry
INVARIANTS
    IndexHeals
    VectorsMatch
    VectorsAwaited
CHECK_DEADLOCK FALSE
