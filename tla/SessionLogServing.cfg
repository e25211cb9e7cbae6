SPECIFICATION LogFairSpec
CONSTANTS
    MaxCalls = 4
    MaxCrashes = 2
    MaxFailures = 1
INVARIANTS LogTypeOK InOrder NothingDropped
PROPERTY LogCatchesUp
CHECK_DEADLOCK FALSE
