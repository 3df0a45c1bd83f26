CONSTANTS
    Blank = "blank"
    Configs <- OneConfig
SPECIFICATION Spec
INVARIANTS
    RowsAskedForExist
