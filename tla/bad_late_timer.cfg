SPECIFICATION Spec
CONSTANTS
    c1 = c1
    c2 = c2
    Conns <- OneConn
    Secure = FALSE
    MaxParts = 2
    Env = {}
INVARIANTS
    NoExpiredWaitOutlives
CHECK_DEADLOCK FALSE
