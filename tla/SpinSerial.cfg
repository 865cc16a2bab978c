SPECIFICATION Spec
CONSTANTS
    Session = {s1, s2, s3}
    Conn = {c1}
    c1 = c1
    c2 = c2
    s1 = s1
    ConnOf <- OneConn
    NormalResults <- Results
    NoSession = NoSession
    AuditEnabled = TRUE
SYMMETRY Symmetry
INVARIANTS
    TypeOK
    FreeSpinPlayedOnce
    AwardIsKept
PROPERTIES
    NoBetWhileFreeSpinsLeft
CHECK_DEADLOCK FALSE
