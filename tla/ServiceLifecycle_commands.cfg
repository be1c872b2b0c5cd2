SPECIFICATION RetireSpec
CONSTANTS
    s1 = s1
    s2 = s2
    p1 = p1
    p2 = p2
    Service <- MCService
    Proc <- MCProc
    NoService = NoService
    NoProc = NoProc
    TrusteeMode <- MCOneTrustee
    MaxCommands = 3
    MaxCrashes = 1
    DieAt <- MCDieSafely
    Redeploy = FALSE
    laptop = laptop
    partner = partner
    WithSsh <- MCOther
    Named <- MCOther
    Operator = laptop
    FirstPeerings <- MCMigrated
    NewPeerings <- MCPartner
    OldSecurity <- MCMigrated
INVARIANT InstanceOnRecord
INVARIANT MeshSettles
PROPERTY RevokedBeforeRemoval
PROPERTY EventuallyRetired
CHECK_DEADLOCK FALSE
