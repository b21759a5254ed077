SPECIFICATION SettingsSpec
CONSTANTS
    Plans <- MCPlans
    MaxFailures = 1
    MaxRestarts = 1
INVARIANTS Kept LiveFollows
CHECK_DEADLOCK FALSE
