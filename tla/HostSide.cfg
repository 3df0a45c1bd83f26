SPECIFICATION HostSpec
CONSTANTS
    Options <- SomeOptions
    Sizes = {"s1", "s2"}
    MaxOffers = 2
    MaxResizes = 1
    Protocols = {"raw", "rlogin"}
    Widths = {"w80", "w132"}
    MaxSent = 3
    MaxWritten = 8
    Wires <- Jobs
    UTF8 = TRUE
    PrintMode = TRUE
    Mouse = TRUE
    Saved = {0, 2}
    Types = {"LPT", "DRV", "FIL", "COM", "SHR"}
    Addresses = {"p1", "p2"}
    Period = 2
    Granule = 2
    MaxBytes = 4
    MaxOpens = 3
INVARIANTS
    TelnetSafe
    BackendsPlain
    JobsKept
    PrintedSound
PROPERTIES
    NegotiationSettles
    EverythingPrinted
CHECK_DEADLOCK FALSE
