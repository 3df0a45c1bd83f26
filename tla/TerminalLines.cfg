SPECIFICATION LinesSpec
CONSTANTS
    Pages <- SomePages
    Blank <- Space
    Chars <- SomeChars
    Attrs <- SomeAttrs
    Marks <- SomeMarks
    Widths = {1, 3}
    LitMax = 4
    Grow = 2
    MaxMarks = 3
    MaxRow = 5
INVARIANTS
    RowsSound
    WindowShowsScreen
    RowsReadable
PROPERTIES
    IsTextLine
CHECK_DEADLOCK FALSE
