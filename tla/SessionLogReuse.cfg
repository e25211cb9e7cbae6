SPECIFICATION LogSpec
CONSTANTS
    MaxCalls = 4
    MaxCrashes = 1
    MaxFailures = 0
INVARIANT ResumedNeverReuses
CHECK_DEADLOCK FALSE
