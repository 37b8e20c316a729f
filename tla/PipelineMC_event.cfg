SPECIFICATION FairSpec
CONSTANTS
    Msg = {m1}
    NoMsg = NoMsg
    Slot = {s1}
    Offered = {4}
    DlxInstalled = TRUE
    MaxFaults = 0
    MaxReplays = 0
CHECK_DEADLOCK FALSE
PROPERTY
    DeviceEventEmitted
