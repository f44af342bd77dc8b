SPECIFICATION FairSpec
CONSTANTS
    MaxBytes = 4
    MinimumAvail = 2
    SizeModulus = 16
    Env = {"pushesEarly", "pushesMuch"}
INVARIANTS
    PatientWireIsPushed
PROPERTIES
    FinishedGetsEnded
CHECK_DEADLOCK FALSE
