SPECIFICATION FairSpec
CONSTANTS
    s1 = s1
    s2 = s2
    b1 = b1
    b2 = b2
    disk = disk
    app = app
    mesh = mesh
    Service <- MCService
    Binding <- MCBinding
    Path <- MCPath
    Wanted <- MCWanted
    DynamicPath = mesh
    NoService = NoService
    NoBinding = NoBinding
    MaxRevision = 4
    MaxInterrupts = 2
    MaxEdits = 1
    RetryOriginal = TRUE
    AdoptWhenOwned = FALSE
INVARIANT NoOrphanedSecret
INVARIANT UploadUnderOwnBinding
INVARIANT InterruptedCanBeDestroyed
PROPERTY OthersKeepTheirGrant
PROPERTY ImplementsCustody
CHECK_DEADLOCK FALSE
PROPERTY EventuallyRetired
