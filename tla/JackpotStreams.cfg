SPECIFICATION Spec
CONSTANTS
    Pool = {p1}
    Other = {p0}
    Registered = {}
    Stream = {l1, l2}
    Buffer = 1
    Timed = {TRUE}
    MaxClock = 2
    None = None
SYMMETRY Symmetry
CONSTRAINTS TickerOnly OneJoins OneLeaves
INVARIANTS
    TypeOK
    UpdatesReachStreams
CHECK_DEADLOCK FALSE
