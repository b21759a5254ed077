SPECIFICATION Spec
CONSTANTS
    reader = reader
    writer = writer
    e1 = e1
    Conns <- MCConns
    SubIds = {s1}
    Events = {e1}
    Filters <- MCFilters
    NoFilter = NoFilter
    NoConn = NoConn
    NoEvent = NoEvent
    NoId = NoId
    QueueSize = 1
    MaxAuthAttempts = 1
    Budget <- MCBudget
    Sends <- MCSends
    ReaderBudget = 4
    WriterBudget = 2
    MayLeave = {reader}
    MayBeBlocked = {}
CHECK_DEADLOCK FALSE
INVARIANT NotifiedIsStored
