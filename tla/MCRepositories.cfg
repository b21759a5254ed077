SPECIFICATION Spec
CONSTANTS
    None = None
    c1 = c1
    c2 = c2
    Conns <- MCConns
    Keys <- MCKeys
    Letters <- MCLetters
    Includes <- MCIncludes
    Width = 6
    DefaultLimit = 5
    Repo <- MCRepo
    Org <- MCOrg
    Clone <- MCClone
    RelayURLs = {"wss"}
    Topic <- MCTopic
    BlacklistPaths <- MCPaths
    Files <- MCFiles
    Invited = {1}
    OverrideKinds <- MCOverrides
    Scenes <- MCScenes
    Batch = 2
    MaxPasses = 3
    MaxFaults = 1
    MaxRestarts = 1
INVARIANTS KeepsOne OneAuthority CascadeComplete GraphsKept AccessRules
CHECK_DEADLOCK FALSE
