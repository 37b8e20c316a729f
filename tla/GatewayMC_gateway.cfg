SPECIFICATION Spec
CONSTANTS
    batch = batch
    single = single
    BatchSize = 2
    Request = {batch, single}
    Size <- MCSize
    Batch = {batch}
    Slots = 2
    MaxAttempts = 2
    RequestPool = 2
    PoolSize = 1
    MaxFaults = 1
INVARIANTS
    TypeOK
    ConfirmedIsStored
    SlotsAccounted
    OneLossAfterOutage
PROPERTIES
    Answered
    OutageNoticed
    ShutdownEnds
CHECK_DEADLOCK FALSE
