SPECIFICATION Spec
CONSTANTS
    health = health
    metrics = metrics
    reaper = reaper
    Consumer = {c1}
    Periodic = {health, metrics}
    Looping = {health}
    Reaper = {}
    HealthInterval = 6
    MetricsInterval = 12
    ReapInterval = 120
    Interval <- MCInterval
    Poll = 1
    RetryPause = 1
    MaxAttempts = 2
    RestartPause = 1
    HandlerTime = 1
    Prefetch = 1
    Notifies = FALSE
    Backlog = 0
    TimeoutStop = 6
    MaxClock = 20
    MaxOutages = 0
INVARIANT
    ClosesCleanly
CHECK_DEADLOCK FALSE
