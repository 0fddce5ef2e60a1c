CONSTANTS
    Users = {u1, u2}
    Reader = u1
    Ids = {1, 2, 3}
    MaxTime = 3
    MaxSkew = 1
    MaxDeleted = 1
    LimitParams = {0, 1, 9}
    DefaultLimit = 2
    MaxLimit = 3
    Nil = Nil
SPECIFICATION InboxSpec
CHECK_DEADLOCK FALSE
INVARIANTS StrictlyOlder NothingSkipped NoPanic NoIdlePages MarkFirstMissesNothing ReadStaysRead MissedOnlyByRace
