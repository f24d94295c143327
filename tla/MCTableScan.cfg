CONSTANTS
    f1 = f1
    f2 = f2
    None = None
    NRows = 3
    Cell = {1, 2, 5}
    RowOf <- TwoPerRow
    InitTable = {2, 5}
    Frag = {f1, f2}
    InitFrags = {f1}
    MaxWrites = 2
SPECIFICATION FairSpec
INVARIANT OpenFilesExist
PROPERTIES
    ImplementsOrderedScan
    GetsReturn
CHECK_DEADLOCK FALSE
