CONSTANTS
    k1 = k1
    k2 = k2
    Mutation <- Calls
    Old <- ErasedCell
    OldDisk = 2
    MaxWrites = 4
    MaxRequests = 1
    MaxStops = 1
    BufferSize = 2
    MemLimit = 1
    QMax = 1
    CompactAt = 4
    Slack = 3
    MaxWayMerge = 4
SPECIFICATION FairSpec
INVARIANTS
    TypeOK
    ReadsSeeNewest
    SyncedSurvives
    StateNamesItsFiles
    CompactionsAreValid
PROPERTY WorkEnds
CHECK_DEADLOCK FALSE
