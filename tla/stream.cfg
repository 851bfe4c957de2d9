SPECIFICATION FairSpec
CONSTANTS
    c1 = c1
    c2 = c2
    Clients = {c1, c2}
    BufSize = 2
    Capacity = 3
    MaxSeq = 4
    MaxEphemeral = 1
    MaxRestarts = 1
PROPERTIES
    RefinesLog
    CatchesUp
