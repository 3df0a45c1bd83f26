SPECIFICATION Spec
CONSTANTS
    Configs <- SomeConfigs
    Wrap = 12
    Skew = 0
    Interval = 2
    Blink = 2
    Update = 1
    MaxLate = 1
    Early = 1
    SameTick = FALSE
    MaxQueue = 1
    MaxEnds = 2
INVARIANTS
    TimersSound
    OneSession
PROPERTIES
    PingsSpaced
    EndedSessionRestarts
    ArrivedIsRead
