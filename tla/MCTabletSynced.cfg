CONSTANTS
    s1 = s1
    l1 = l1
    l2 = l2
    d0 = d0
    d1 = d1
    d2 = d2
    d3 = d3
    None = None
    Work = Work
    SerializeMax = 2
    NRows = 2
    Log <- OneLog
    Disk <- ThreeDisks
    InitChain <- OneLoaded
    Syncers = {s1}
SPECIFICATION Spec
INVARIANT SyncedIsRecoverable
CHECK_DEADLOCK FALSE
