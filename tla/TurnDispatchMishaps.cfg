SPECIFICATION Spec
CONSTANTS
    Messages = {m1, m2}
    NoRow = NoRow
    MaxDepth = 2
    Modes = {"async", "wait", "replace", "socket"}
    Backend = "memory"
    Mishaps = {"pause", "busy_server", "early_failure", "slow_turn"}
    MaxAborts = 1
SYMMETRY Symmetric
INVARIANTS TypeOK RowTurnHoldsSlot NothingStranded
CHECK_DEADLOCK FALSE
