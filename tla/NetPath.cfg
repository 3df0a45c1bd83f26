CONSTANTS
    SendRoom = 1
    Piece = 2
    Scenarios <- AllScenarios
    Keys = {"CR", "IAC"}
    MaxTyped = 2
SPECIFICATION Spec
CHECK_DEADLOCK FALSE
INVARIANTS
    TextArrives
    TypedArrives
    NothingBeforeGrant
    ConnectSound
PROPERTIES
    EverythingArrives
