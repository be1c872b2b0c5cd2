CONSTANTS
    Timeout = 1
    CdhTimeout = 2
    TokenWait = 1
    Absent = Absent
    MaxVersion = 2
    MaxEdits = 2
    MaxBoots = 2
    RacesWithKeys = FALSE
SPECIFICATION DeliverySpec
INVARIANT OneMode
INVARIANT HelpersBounded
INVARIANT DiskOpens
INVARIANT DeliveredAsFrozen
PROPERTY BootEnds
CHECK_DEADLOCK FALSE
