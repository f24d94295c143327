CONSTANTS
    k1 = k1
    k2 = k2
    Mutation <- Calls
    Old <- ErasedCell
    OldDisk = 2
    MaxWrites = 5
    MaxRequests = 0
    MaxStops = 0
    BufferSize = 1
    MemLimit = 1
    QMax = 1
    CompactAt = 4
    Slack = 3
    MaxWayMerge = 4
SPECIFICATION FairSpec
PROPERTY FlushReturns
CHECK_DEADLOCK FALSE
