SPECIFICATION Spec
CONSTANTS
    Msg = {m1}
    NoMsg = NoMsg
    Slot = {s1}
    Offered = {1, 6}
    DlxInstalled = TRUE
    MaxFaults = 1
    MaxReplays = 1
CHECK_DEADLOCK FALSE
PROPERTY
    KeepsPromise
INVARIANT
    Inv
