CONSTANTS
    s1 = s1
    l1 = l1
    d0 = d0
    d1 = d1
    d2 = d2
    None = None
    Work = Work
    SerializeMax = 2
    NRows = 2
    Log <- OneLog
    Disk <- ThreeDisks
    InitChain <- OneLoaded
    Syncers = {}
    MaxGcRuns = 1
SPECIFICATION GcSpec
INVARIANT
    GarbageIsUnused
CHECK_DEADLOCK FALSE
