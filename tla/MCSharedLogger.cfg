CONSTANTS
    c1 = c1
    c2 = c2
    u1 = u1
    None = None
    Client = {c1, c2}
    Tab = {u1}
    MaxWrites = 2
    BufferMax = 2
    GroupMax = 2
    CommitMax = 1
    SerializeMax = 1
SPECIFICATION FairSpec
INVARIANTS
    LogKeepsOrder
    TablesMatchLog
    LoggerSyncIsDurable
    ShutdownLogsAll
PROPERTY CallsReturn
CHECK_DEADLOCK FALSE
