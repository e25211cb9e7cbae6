SPECIFICATION Spec
CONSTANTS
    Processes = 4
    MaxCrashes = 1
    MaxRestarts = 2
    FailLimit = 2
INVARIANTS TypeOK OneLeader StopEndsWhatItSees
CHECK_DEADLOCK FALSE
