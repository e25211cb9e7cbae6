SPECIFICATION FairSpec
CONSTANTS
    Apps = {a1, a2}
    Modules = {m1, m2}
    Callers = {k1, k2}
    Entries = {1, 2, 3, 4}
    Links = {1, 2, 3, 4, 5}
    MaxOutages = 1
    MaxOps = 3
INVARIANTS TypeOK SharersAreTracked
PROPERTIES LosesOnlyAbandoned Heals
CHECK_DEADLOCK FALSE
