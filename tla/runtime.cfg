SPECIFICATION FairSpec
CONSTANTS
    Outside = {main, other}
    main = main
    other = other
    ThreadCount = 2
    MaxPeers = 2
    MaxStarts = 2
    MaxJobs = 2
    Env = {"refuses", "acceptThrows", "restarts", "jobThrows", "teardownsRace", "teardownInside", "setsUpAgain"}
INVARIANTS
    TornDownIsQuiet OneAcceptLoop
PROPERTIES
    PeersAreAccepted
CHECK_DEADLOCK FALSE
