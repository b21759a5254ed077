SPECIFICATION SettingsSpec
CONSTANTS
    Plans <- FoundPlans
    MaxFailures = 1
    MaxRestarts = 1
INVARIANTS Saved NeverPartial NeverCut AppliesLast
PROPERTIES RestartAgrees Untouched
CHECK_DEADLOCK FALSE
