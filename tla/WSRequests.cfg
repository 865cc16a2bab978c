SPECIFICATION Spec
CONSTANTS
    s1 = s1
    s2 = s2
    g = g
    Request = {s1, s2, g}
    Spin = {s1, s2}
    WithID = {s1}
    QueueCap = 1
    MaxPings = 1
    None = None
INVARIANTS
    TypeOK
    SpinsInTurn
PROPERTIES
    LateIsRefused
    RequestsAreAnswered
    ClosedIsGone
CHECK_DEADLOCK FALSE
