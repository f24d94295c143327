CONSTANTS
    None = None
    Cell = {1, 2, 3}
    RowOf <- Versions
    Matching = {1, 2, 3}
    Histories = {0, 2}
    NBuffers = 2
    MaxFailures = 2
    NObjects = 1
    MaxScanners = 5
    MaxOthers = 1
    MaxFaults = 1
    MaxPurges = 2
SPECIFICATION FairSpec
INVARIANTS
    BufferForFetch
    RunsAreCached
    NoScannerLeft
PROPERTIES
    ImplementsOrderedScan
    ScanFinishes
CHECK_DEADLOCK FALSE
