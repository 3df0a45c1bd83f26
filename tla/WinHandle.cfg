CONSTANTS
    MaxInput = 4
    MaxOutput = 4
SPECIFICATION Spec
CHECK_DEADLOCK FALSE
INVARIANTS
    OneHolder
PROPERTIES
    InputIsStream
    OutputIsStream
    InputArrives
    OutputArrives
    OutputDestroyed
