SPECIFICATION DagSpec
CONSTANTS
    s1 = s1
    s2 = s2
    d1 = d1
    Links <- MCLinks
    Name <- MCName
    Keys <- MCKeys
    Unwanted = {"w"}
    Uploads <- MCUploads
    Downloads <- MCDownloads
    Plans <- FoundPlans
    Allowed <- MCAllowed
    MaxFaults = 0
INVARIANT OwnersKept Unstored
CHECK_DEADLOCK FALSE
