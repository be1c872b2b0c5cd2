SPECIFICATION Spec
CONSTANTS
    Token = {t1, t2}
    Conn = {c1, c2}
    Ttl = 1
    Skew = 1
    MaxRest = 1
    Torn = FALSE
    MaxTime = 3
    MaxRequests = 2
    MaxFaults = 2
    None = None
    Route = Route
INVARIANT AdmittedOnce
INVARIANT ToldStays
INVARIANT ChainIntact
SYMMETRY Symmetric
CHECK_DEADLOCK FALSE
