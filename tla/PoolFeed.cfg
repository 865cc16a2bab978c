SPECIFICATION Spec
CONSTANTS
    p = p
    q = q
    Pool = {p, q}
    Own = {p}
    Feeder = {f1, f2}
    SubCap = 1
    FeedCap = 2
    Topic <- Updates
    MaxRejoins = 1
INVARIANTS
    TypeOK
    NeverOffersToClosed
    LostOnlyUnheard
PROPERTIES
    KeepsOrder
    StopEnds
    TakenArrives
CHECK_DEADLOCK FALSE
