CONSTANTS
    MaxInput = 1
    MaxOutput = 1
SPECIFICATION Spec
CHECK_DEADLOCK FALSE
PROPERTIES
    FreedIsDestroyed
