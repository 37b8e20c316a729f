SPECIFICATION Spec
CONSTANTS
    n1 = n1
    n2 = n2
    Node = {n1}
    Value = {"20"}
    Readable = {"10", "20"}
    Default = "10"
    MaxOutages = 0
    MaxEnds = 1
    MaxWrites = 0
INVARIANT
    Listed
CHECK_DEADLOCK FALSE
