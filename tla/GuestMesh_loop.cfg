SPECIFICATION FairSpec
CONSTANTS
    Peer = {1, 2}
    Declared <- MCDeclared
    Control = {3}
    EgressBase = 4
    GatewayBase = 6
    IngressBase = 8
    ClientBase = 12
    Last = 16
    Offer <- MCOffer
    Boot <- MCBoot
    None = None
    Missing = Missing
    Damaged = Damaged
    MaxDeliveries = 4
    MaxDeaths = 1
    MaxFailures = 1
    MaxDamage = 1
INVARIANT EndpointKeepsPeer
INVARIANT ReachesTarget
PROPERTY ReservationsKept
PROPERTY EventuallyServed
