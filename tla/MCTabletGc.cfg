CONSTANTS
    s1 = s1
    l1 = l1
    d0 = d0
    d1 = d1
    d2 = d2
    None = None
    Work = Work
    SerializeMax = 2
    NRows = 2
    Log <- OneLog
    Disk <- ThreeDisks
    InitChain <- OneLoaded
    Syncers = {s1}
    MaxGcRuns = 1
VIEW WithoutAcked
SPECIFICATION GcSpec
INVARIANTS
    RefsCountHolders
    CollectorKeepsSavedFiles
    SavedFilesKept
    SavedIsCurrent
CHECK_DEADLOCK FALSE
