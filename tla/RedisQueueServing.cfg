SPECIFICATION Spec
CONSTANTS
    Rows = {r1, r2, r3}
    Users = {u1}
    NoUser = NoUser
    NoRow = NoRow
    MaxDepth = 2
    LeaseTicks = 2
    MaxArrivals = 3
    MaxCrashes = 1
    Faults = {"late_beats", "vanishing_turns"}
SYMMETRY Symmetric
INVARIANTS TypeOK ArrivalOrder DepthBounded QueuedIsReachable
PROPERTIES TerminalIsFinal ImplementsSessionFifo
CHECK_DEADLOCK FALSE
