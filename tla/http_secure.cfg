SPECIFICATION FairSpec
CONSTANTS
    c1 = c1
    c2 = c2
    Conns <- OneConn
    Secure = TRUE
    MaxParts = 3
    Env = {"silentCallback", "destroyServer"}
PROPERTIES
    EventuallyRemoved
CHECK_DEADLOCK FALSE
