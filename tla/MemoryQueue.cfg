SPECIFICATION FairSpec
CONSTANTS
    Rows = {r1, r2, r3}
    Users = {u1}
    NoUser = NoUser
    NoRow = NoRow
    MaxDepth = 2
    LeaseTicks = 2
    MaxArrivals = 3
    MaxTurns = 2
    Faults = {"vanishing_turns", "late_beats"}
INVARIANTS TypeOK OneTurnAtATime
PROPERTIES VanishedTurnIsReaped ImplementsSessionFifo
CHECK_DEADLOCK FALSE
