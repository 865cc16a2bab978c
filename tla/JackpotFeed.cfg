SPECIFICATION Spec
CONSTANTS
    Pool = {p1}
    Other = {p0}
    Registered = {p1}
    Stream = {l1}
    Buffer = 1
    Timed = {TRUE, FALSE}
    MaxClock = 3
    None = None
CONSTRAINTS FewCallbacks NoneLeaves
INVARIANTS
    DirtyIsFlushed
PROPERTIES
    OnlyUndatedGoesBack
    StreamsCatchUp
CHECK_DEADLOCK FALSE
