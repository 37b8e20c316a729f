SPECIFICATION Spec
CONSTANTS
    health = health
    metrics = metrics
    reaper = reaper
    Consumer = {c1, c2}
    Periodic = {health, metrics}
    Looping = {health}
    Reaper = {reaper}
    HealthInterval = 2
    MetricsInterval = 5
    ReapInterval = 6
    Interval <- MCInterval
    Poll = 1
    RetryPause = 2
    MaxAttempts = 2
    RestartPause = 1
    HandlerTime = 1
    Prefetch = 2
    Notifies = TRUE
    Backlog = 1
    TimeoutStop = 7
    MaxClock = 10
    MaxOutages = 1
INVARIANTS
    TypeOK
    ClosesCleanly
    StopsInTime
    BackInTime
    ReapsOnceMore
SYMMETRY Interchangeable
CHECK_DEADLOCK FALSE
