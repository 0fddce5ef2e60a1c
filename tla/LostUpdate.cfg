CONSTANTS
    Fields = {name, bio}
    Values = {v1, v2}
    Procs = {p1, p2}
    Empty = Empty
    MaxWrites = 2
    MaxLost = 0
SPECIFICATION Spec
CHECK_DEADLOCK FALSE
PROPERTY PatchExact
