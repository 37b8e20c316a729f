SPECIFICATION FairSpec
CONSTANTS
    Msg = {m1}
    NoMsg = NoMsg
    Slot = {s1}
    Offered = {1, 3, 4, 5}
    DlxInstalled = TRUE
    MaxFaults = 1
    MaxReplays = 1
CHECK_DEADLOCK FALSE
PROPERTIES
    EventuallyAtRest
    CalmDelivery
