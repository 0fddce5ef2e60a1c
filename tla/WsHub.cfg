CONSTANTS
    Users = {u1, u2}
    Chats = {h1}
    Conns = {a, b}
    BufferSize = 2
    MaxEvents = 3
    MaxFailures = 1
SPECIFICATION FairSpec
CHECK_DEADLOCK FALSE
INVARIANTS InOrder DrainNeverBlocks NoGhosts LastOneOut OfflineHasCause
PROPERTY BothPumpsEnd
