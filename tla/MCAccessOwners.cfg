SPECIFICATION Spec
CONSTANTS
    Users = {1, 2}
    Checks = {c1, c2}
    c1 = c1
    c2 = c2
    Setters = {1, 2}
    Settings <- MCSettings
    Start <- MCListed
    TTL = 2
    MaxTime = 5
    MaxMoves = 2
    MaxFaults = 0
INVARIANT OneOwner
CHECK_DEADLOCK FALSE
SYMMETRY Symmetry
