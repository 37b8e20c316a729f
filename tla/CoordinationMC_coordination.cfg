SPECIFICATION FairSpec
CONSTANTS
    n1 = n1
    n2 = n2
    Node = {n1, n2}
    Value = {"20", "abc"}
    Readable = {"10", "20"}
    Default = "10"
    MaxOutages = 1
    MaxEnds = 1
    MaxWrites = 1
INVARIANTS
    Inv
    LeadersAccounted
PROPERTIES
    Takeover
    ConfigArrives
    Delisted
CHECK_DEADLOCK FALSE
