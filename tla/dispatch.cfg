SPECIFICATION FairSpec
CONSTANTS
    Names = {"a", "b", "mnt", "login", ".."}
    Params = {":x"}
    Requests = {r1, r2}
    Arriving <- MCArriving
    Table <- MCTable
    Mounts <- MCMounts
    LoginPath <- MCLogin
    MaxSessions = 2
    Env = {"conditionerAnswers", "countsOverlap", "throwsLate", "silent"}
    r1 = r1
    r2 = r2
INVARIANTS
    RightRoute
    CallbackIsAuthorized
    CountsAreKept
PROPERTIES
    TerminatedStaysTerminated
    OthersAnswered
CHECK_DEADLOCK FALSE
