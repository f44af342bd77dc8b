SPECIFICATION FairSpec
CONSTANTS
    MaxItems = 4
    Env = {"preBuffers", "racesStart", "finishesEarly", "joinsProducer"}
INVARIANTS
    WireInOrder
    OneWriteAtATime
    NoStalledItems
    EndsOnce
PROPERTIES
    PatientPushReturns
    LateFinishGetsRemoved
CHECK_DEADLOCK FALSE
