CONSTANTS
    Fields = {name, bio}
    Values = {v1, v2}
    Procs = {p1, p2}
    Empty = Empty
    MaxWrites = 2
    MaxLost = 1
SPECIFICATION Spec
CHECK_DEADLOCK FALSE
INVARIANTS SerialCoherent
PROPERTIES SerialPatchExact EventuallyCoherent
