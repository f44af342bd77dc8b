SPECIFICATION FairSpec
CONSTANTS
    Threads = {}
    MaxWrites = 4
    Env = {"thens", "flexible"}
INVARIANTS
    OneWriteAtATime
    SentInOrder
    ThenAfterItsWrite
PROPERTIES
    EnqueuedGetsSent
CHECK_DEADLOCK FALSE
