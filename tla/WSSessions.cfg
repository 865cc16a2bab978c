SPECIFICATION Spec
CONSTANTS
    n1 = n1
    n2 = n2
    c1 = c1
    Node = {n1, n2}
    Conn = {c1, c2}
    NodeOf <- TwoNodes
    Sub = {u1, u2}
    ConnOf <- OneSubscriber
    None = None
INVARIANTS
    TypeOK
    SupersededIsKicked
PROPERTIES
    SupersededIsClosed
    NoStreamOutlivesConn
CHECK_DEADLOCK FALSE
