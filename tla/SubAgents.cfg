SPECIFICATION FairSpec
CONSTANTS
    s1 = s1  a1 = a1  a2 = a2
    Sessions = {s1}
    Agents = {a1, a2}
    MaxWorkers = 1
    MaxWorkersGlobal = 2
    AutoRetry = 1
    MaxCleanups = 1
INVARIANTS TypeOK CountersAgree CapHolds
PROPERTIES ResultIsFinal EveryoneHears
CHECK_DEADLOCK FALSE
