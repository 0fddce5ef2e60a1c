CONSTANTS
    Procs = {p1, p2}
    Ips = {i1}
    MaxReqs = 2
    Window = 1
    PurgeEvery = 2
    MaxTime = 3
    MaxCount = 3
    None = None
SPECIFICATION ServerSpec
CHECK_DEADLOCK FALSE
INVARIANTS AtMostTwoWindows ServesWithStorage CutOffOnlyByDeadline
PROPERTIES RefusedInWindow ShutdownEnds
