SPECIFICATION Spec
CONSTANTS
    None = None
    c1 = c1
    c2 = c2
    Conns <- MCConns
    Letters <- MCLetters
    Includes <- MCIncludes
    Width = 6
    DefaultLimit = 5
    Signed <- MCSigned
    Now = 3
    Whitelist <- MCWhitelist
    Registered <- MCRegistered
    Handled <- MCHandled
    AllowUnregistered = TRUE
    Formats <- MCFormats
    Emojis = {"+"}
    Markdown = {"clean"}
    Blobs = {"blob"}
    Scripts <- MCScripts
    UnderReview = {11}
    Filters <- MCFilters
    MaxFaults = 1
INVARIANTS NothingLost NewestKept QueryRight
PROPERTY OwnEventsOnly
CHECK_DEADLOCK FALSE
