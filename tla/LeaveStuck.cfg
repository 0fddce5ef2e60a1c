CONSTANTS
    Driver = "mysql"
    Users = {u1, u2}
    Registered = {u1, u2}
    Chats = {c1}
    Procs = {p1}
    NoRequest = NoRequest
    MaxFailures = 1
SPECIFICATION Spec
CHECK_DEADLOCK FALSE
PROPERTY LeaveLeaves
