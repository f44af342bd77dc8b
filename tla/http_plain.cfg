SPECIFICATION Spec
CONSTANTS
    c1 = c1
    c2 = c2
    Conns <- TwoConns
    Secure = FALSE
    MaxParts = 1
    Env = {"silentCallback"}
SYMMETRY ConnSymmetry
INVARIANTS
    TypeOK
    NothingOutlives
    OneOperationAtATime
    ReadIsTimed
PROPERTIES
    TimeoutOnlyWhileReading
    RemovedByItsLastHandler
    ImplementsLifecycle
CHECK_DEADLOCK FALSE
