SPECIFICATION Spec
CONSTANTS
    Pool = {p1}
    Other = {}
    Registered = {p1}
    Stream = {l1}
    Buffer = 1
    Timed = {TRUE}
    MaxClock = 3
    None = None
CONSTRAINT FewCallbacks
PROPERTIES
    RefreshIsAccurate
CHECK_DEADLOCK FALSE
