CONSTANTS
    Driver = "mysql"
    Users = {u1, u2, u3}
    Registered = {u1, u2, u3}
    Chats = {c1}
    Procs = {p1, p2}
    NoRequest = NoRequest
    MaxFailures = 0
SPECIFICATION AuditSpec
SYMMETRY Symmetry
CHECK_DEADLOCK FALSE
INVARIANTS DirectIntact FounderKeepsGroup
PROPERTIES AuthorityRequired RankRespected
