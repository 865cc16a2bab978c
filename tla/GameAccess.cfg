SPECIFICATION Spec
CONSTANTS
    u1 = u1
    u2 = u2
    c1 = c1
    r1 = r1
    User = {u1, u2}
    Conn = {c1}
    Request = {r1}
    UserOf <- Users
    Game <- Games
    MaxChanges = 2
    None = None
INVARIANTS
    TypeOK
    RevokedIsKicked
PROPERTIES
    ServedAsConfigured
CHECK_DEADLOCK FALSE
