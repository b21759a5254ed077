SPECIFICATION FairSpec
CONSTANTS
    e1 = e1
    e2 = e2
    d1 = d1
    d2 = d2
    s1 = s1
    s2 = s2
    Events <- OnePost
    Disputes <- OneDispute
    Slots <- TwoSlots
    Answers = {"pass", "block"}
    EventBatch = 2
    DisputeBatch = 1
    Retention = 0
    Relay = Relay
    Nobody = Nobody
    Free = Free
    NoTicket = NoTicket
    MaxPublishes = 3
    MaxSubmits = 2
    MaxUnblocks = 1
    MaxDeletes = 0
    MaxRestarts = 0
    MaxTime = 0
INVARIANT NothingUnreviewed
PROPERTIES ReviewsEnd DisputesAnswered
CHECK_DEADLOCK FALSE
