SPECIFICATION Spec
CONSTANTS
    Msg = {m1}
    NoMsg = NoMsg
    Slot = {s1, s2}
    Offered = {1, 4}
    DlxInstalled = TRUE
    MaxFaults = 2
    MaxReplays = 0
SYMMETRY Interchangeable
CHECK_DEADLOCK FALSE
INVARIANTS
    TypeOK
    NoSilentLoss
    WriteOnce
    DuplicateAccounted
    AckedIsStored
PROPERTY
    DeviceChangedOnce
