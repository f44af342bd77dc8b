SPECIFICATION FairSpec
CONSTANTS
    HeaderMax = 18
    FieldMax = 3
    Requests <- MCRequests
    BufferSize = 5
    Limits = {0, 1, 3}
    SizeModulus = 64
    Env = {"otherThread", "readsAgain"}
INVARIANTS
    HeaderIndependentOfCuts
    UrlMeansWhatItEscapes
    ContinuedWithWholeBody
    AnsweredOnce
PROPERTIES
    BodyIsAnswered
CHECK_DEADLOCK FALSE
