SPECIFICATION FairSpec
CONSTANTS
    reader = reader
    writer = writer
    e1 = e1
    Conns <- MCAlone
    SubIds = {s1}
    Events = {e1}
    Filters <- MCFilters
    NoFilter = NoFilter
    NoConn = NoConn
    NoEvent = NoEvent
    NoId = NoId
    QueueSize = 1
    MaxAuthAttempts = 1
    Budget <- MCAloneBudget
    Sends <- MCAloneSends
    ReaderBudget = 4
    WriterBudget = 1
    MayLeave = {reader}
    MayBeBlocked = {reader}
CHECK_DEADLOCK FALSE
INVARIANT NoGap
PROPERTIES Delivered BlockedGoes ProcessorExits
