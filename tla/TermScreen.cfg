CONSTANTS
    Blank = "blank"
    Configs <- SomeConfigs
SPECIFICATION Spec
INVARIANTS
    BufferSound
    RoundTripKeepsLines
    ErasedStaysErased
PROPERTIES
    ViewportHolds
    AltLeavesMain
    SelectionFollowsText
