CONSTANTS
    Ids = {i1, i2}
    Emails = {e1, e2}
    Names = {n1, n2, n3}
    Procs = {p1, p2}
    Nil = Nil
SPECIFICATION Spec
CHECK_DEADLOCK FALSE
SYMMETRY Symmetry
INVARIANTS UniqueLive ConfirmedLives NothingLeftBehind
PROPERTY GoneForGood
