SPECIFICATION Spec
CONSTANTS
    Processes = 4
    MaxCrashes = 1
    MaxRestarts = 2
    FailLimit = 2
INVARIANT MonitorStops
CHECK_DEADLOCK FALSE
