SPECIFICATION FairSpec
CONSTANTS
    Conns = {c1}
    Secure = TRUE
    MaxStarts = 2
    c1 = c1
    MaxMessages = 1
    MaxCloses = 2
    Env = {"threads", "closesOnClose"}
INVARIANTS
    OpenAcceptorAccepts
    OnCloseCount
PROPERTIES
    QuietAfterClose
    EndIsTold
CHECK_DEADLOCK FALSE
