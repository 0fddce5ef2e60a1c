CONSTANTS
    Driver = "postgres"
    Users = {u1, u2, u3, x}
    Registered = {u1, u2, u3}
    Chats = {c1, c2}
    Procs = {p1}
    NoRequest = NoRequest
    MaxFailures = 1
SPECIFICATION ListSpec
SYMMETRY Symmetry
CHECK_DEADLOCK FALSE
INVARIANTS OwnerPresent PicksOldest
PROPERTIES SuccessionByAge LeaveLeaves ImplementsGroup
