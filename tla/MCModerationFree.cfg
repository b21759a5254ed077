SPECIFICATION Spec
CONSTANTS
    e1 = e1
    e2 = e2
    d1 = d1
    d2 = d2
    s1 = s1
    s2 = s2
    Events <- OnePost
    Disputes <- TwoDisputes
    Slots <- OneSlot
    Answers = {"pass", "block"}
    EventBatch = 2
    DisputeBatch = 1
    Retention = 0
    Relay = Relay
    Nobody = Nobody
    Free = Free
    NoTicket = NoTicket
    MaxPublishes = 1
    MaxSubmits = 2
    MaxUnblocks = 0
    MaxDeletes = 0
    MaxRestarts = 0
    MaxTime = 1
INVARIANTS FreeOnce
CHECK_DEADLOCK FALSE
