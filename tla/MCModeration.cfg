SPECIFICATION Spec
CONSTANTS
    e1 = e1
    e2 = e2
    d1 = d1
    d2 = d2
    s1 = s1
    s2 = s2
    Events <- OnePost
    Disputes <- OneDispute
    Slots <- TwoSlots
    Answers = {"pass", "block", "error"}
    EventBatch = 2
    DisputeBatch = 1
    Retention = 0
    Relay = Relay
    Nobody = Nobody
    Free = Free
    NoTicket = NoTicket
    MaxPublishes = 2
    MaxSubmits = 2
    MaxUnblocks = 1
    MaxDeletes = 1
    MaxRestarts = 1
    MaxTime = 1
SYMMETRY MCSymmetry
INVARIANTS FailedHidden DisputesOnRecord
CHECK_DEADLOCK FALSE
