SPECIFICATION Spec
CONSTANTS
    Spin = {s1, s2}
    Worker = {w1, w2}
    Shape <- Shapes
    QueueCap = 1
    MaxAttempts = 2
    None = None
INVARIANTS
    TypeOK
    TakenIsWritten
    HistoryShowsRounds
PROPERTIES
    EverySendEnds
CHECK_DEADLOCK FALSE
