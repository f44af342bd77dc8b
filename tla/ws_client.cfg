SPECIFICATION FairSpec
CONSTANTS
    MaxConnects = 2
    MaxListens = 2
    MaxMessages = 2
    Env = {"mute", "unsetTimeouts", "reconnectsReading"}
PROPERTIES
    ConnectIsAnswered EndIsTold DestroyedHangsUp
CHECK_DEADLOCK FALSE
