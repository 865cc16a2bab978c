SPECIFICATION Spec
CONSTANTS
    Session = {s1, s2, s3}
    Conn = {c1, c2}
    c1 = c1
    c2 = c2
    s1 = s1
    ConnOf <- TwoConns
    NormalResults <- AwardResults
    NoSession = NoSession
    AuditEnabled = TRUE
SYMMETRY ConnSymmetry
CONSTRAINT OneFailure
INVARIANTS
    UnfinishedSpinIsTraced
    TraceIsAccurate
    RefundLeavesNothing
    FreeSpinsPaidInOrder
    FreeSpinsAddUp
CHECK_DEADLOCK FALSE
