CONSTANTS
    Procs = {p1, p2, p3}
    MaxWrites = 3
    MaxLost = 1
SPECIFICATION PostSpec
CHECK_DEADLOCK FALSE
INVARIANTS StaleHasCause
PROPERTY EventuallyEnforced
