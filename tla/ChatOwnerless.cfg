CONSTANTS
    Driver = "postgres"
    Users = {u1, u2}
    Registered = {u1, u2}
    Chats = {c1}
    Procs = {p1, p2}
    NoRequest = NoRequest
    MaxFailures = 0
SPECIFICATION Spec
CHECK_DEADLOCK FALSE
INVARIANT OwnerPresent
