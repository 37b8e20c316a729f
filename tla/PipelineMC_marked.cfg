SPECIFICATION Spec
CONSTANTS
    Msg = {m1}
    NoMsg = NoMsg
    Slot = {s1}
    Offered = {1}
    DlxInstalled = TRUE
    MaxFaults = 1
    MaxReplays = 0
CHECK_DEADLOCK FALSE
INVARIANT
    SkippedIsPersisted
