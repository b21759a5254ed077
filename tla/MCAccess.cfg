SPECIFICATION Spec
CONSTANTS
    Users = {1}
    Checks = {c1, c2}
    c1 = c1
    c2 = c2
    Setters = {1}
    Settings <- MCSettings
    Start <- MCStart
    TTL = 2
    MaxTime = 5
    MaxMoves = 2
    MaxFaults = 1
INVARIANTS Timely
CHECK_DEADLOCK FALSE
SYMMETRY Symmetry
