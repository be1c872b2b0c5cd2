SPECIFICATION PepSpec
CONSTANTS
    r1 = r1
    r2 = r2
    Request <- MCRequest
    MaxTime = 1
    MaxDeaths = 1
    None = None
INVARIANT StoppedOrReported
PROPERTY OthersKeepRunning
PROPERTY EventuallyAnswered
CHECK_DEADLOCK FALSE
