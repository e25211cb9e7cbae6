SPECIFICATION FairSpec
CONSTANTS
    Rows = {r1, r2}
    Users = {u1, u2}
    NoUser = NoUser
    NoRow = NoRow
    MaxDepth = 2
    LeaseTicks = 3
    MaxArrivals = 2
    MaxCrashes = 2
    Faults = {"vanishing_turns", "boot_crash", "boot_error"}
INVARIANTS OneTurnAtATime NoOvertaking RunningIsRecoverable
PROPERTY LeaseFreesSlot
CHECK_DEADLOCK FALSE
