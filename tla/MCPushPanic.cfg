SPECIFICATION Spec
CONSTANTS
    alice = alice
    bob = bob
    nobody = nobody
    wrap = wrap
    reply = reply
    old = old
    phoneA = phoneA
    phoneB = phoneB
    ws1 = ws1
    ws2 = ws2
    Users <- MCUsers
    NoUser = NoUser
    Events <- MCEvents
    KindOf <- MCKind
    AuthorOf <- MCAuthor
    Mentions <- MCMention
    RefOf <- MCRef
    NoEvent = NoEvent
    Devices <- MCDevices
    OwnerOf <- MCOwner
    TokenOf <- MCToken
    Conns <- OneConn
    Script <- OneScript
    Requests <- NoReqs
    Workers = {w1}
    QueueSize = 1
    RetryAttempts = 2
    MaxIDs = 5
    MaxServices = 2
    NoTask = NoTask
CHECK_DEADLOCK FALSE
INVARIANT RetryGivesUp
