SPECIFICATION FairSpec
CONSTANTS
    Messages = {m1, m2, m3}
    NoRow = NoRow
    MaxDepth = 3
    Modes = {"async", "socket"}
    Backend = "memory"
    Mishaps = {}
    MaxAborts = 0
PROPERTY QueueDrains
CHECK_DEADLOCK FALSE
