SPECIFICATION FairSpec
CONSTANTS
    Outside = {main, other}
    main = main
    other = other
    ThreadCount = 2
    MaxPeers = 2
    MaxStarts = 2
    MaxJobs = 1
    Env = {"refuses"}
PROPERTIES
    RefusalEndsOneRequest
CHECK_DEADLOCK FALSE
