SPECIFICATION HttpSpec
CONSTANTS
    status = status
    card = card
    q1 = q1
    q2 = q2
    q3 = q3
    p1 = p1
    Server <- MCServer
    Request <- MCRequest
    Client <- MCClient
    MaxActive = 1
    MaxRate = 1
    Window = 2
    MaxReads = 1
    MaxTime = 4
    Null = Null
INVARIANT LimitsHold
PROPERTY EventuallyReleased
CHECK_DEADLOCK FALSE
