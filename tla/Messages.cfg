CONSTANTS
    Users = {u1, u2}
    Chats = {c1, c2}
    Msgs = {m1, m2}
    Emojis = {e1, e2}
    Driver = "postgres"
    Procs = {p1, p2}
    Nil = Nil
    MaxReactions = 1
SPECIFICATION Spec
CHECK_DEADLOCK FALSE
SYMMETRY Symmetry
INVARIANTS WrittenByMembers
PROPERTIES DeletionIsFinal OwnHandOnly ImplementsConversation
