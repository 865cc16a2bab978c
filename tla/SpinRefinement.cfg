SPECIFICATION Spec
CONSTANTS
    Session = {s1, s2}
    Conn = {c1, c2}
    c1 = c1
    c2 = c2
    s1 = s1
    ConnOf <- TwoConns
    NormalResults <- JackpotResults
    NoSession = NoSession
    AuditEnabled = TRUE
INVARIANTS
    SuccessIsPaid
    ClaimsAreTraced
PROPERTIES
    ImplementsLedger
CHECK_DEADLOCK FALSE
