CONSTANTS
    f1 = f1
    f2 = f2
    None = None
    NRows = 2
    Cell = {1, 2, 3}
    RowOf <- TwoPerRow
    InitTable = {1, 2, 3}
    Frag = {f1, f2}
    InitFrags = {f1}
    MaxWrites = 0
SPECIFICATION Spec
INVARIANT ScanComplete
CHECK_DEADLOCK FALSE
