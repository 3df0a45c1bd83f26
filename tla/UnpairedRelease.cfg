SPECIFICATION UserSpec
CONSTANTS
    Configs <- SomeConfigs
    Calls <- SomeCalls
    MaxLine = 1
    MaxShown = 2
    MouseConfigs <- SomeMouseConfigs
    WHEEL_DELTA = 3
    Turns <- SomeTurns
    MaxReports = 2
    MaxTurns = 2
    Cols = 3
    Narrow = {"a"}
    Wide = {"W"}
    Wordness <- LetterWordness
    SmallPaste = 4
    MaxSaid = 5
INVARIANTS
    ReleasesHavePresses
CHECK_DEADLOCK FALSE
