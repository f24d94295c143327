CONSTANTS
    s1 = s1
    l1 = l1
    l2 = l2
    d0 = d0
    d1 = d1
    d2 = d2
    d3 = d3
    None = None
    Work = Work
    SerializeMax = 2
    NRows = 3
    Log <- OneLog
    Disk <- FourDisks
    InitChain <- TwoLoaded
    Syncers = {}
SPECIFICATION FairSpec
INVARIANTS
    TypeOK
    KnownTablets
    TabletsPartitionRows
    RefsCountHolders
    WritesReadable
    MetaIsRepairable
    RepairKeepsSaved
PROPERTY Settles
CHECK_DEADLOCK FALSE
