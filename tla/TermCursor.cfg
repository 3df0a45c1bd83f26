CONSTANTS
    Widths = {2}
    Heights = {1, 2, 3}
    MaxArg = 3
    DecOm = FALSE
    WrapMode = TRUE
    NoAltScreen = FALSE
SPECIFICATION Spec
CONSTRAINT Explored
INVARIANTS
    CursorOnScreen
PROPERTIES
    MovesKeepToRegion
    PrimaryCursorKept
