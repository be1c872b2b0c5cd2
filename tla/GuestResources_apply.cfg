SPECIFICATION FairSpec
CONSTANTS
    Res = {key, conf, data}
    Mutable = {data}
    Required = {key, conf}
    Management = {key}
    Ver = {1, 2}
    Own = Own
    Offer <- MCOffer
    Trustee = FALSE
    DiesUnsaved = FALSE
    MaxDeliveries = 2
    MaxFaults = 1
    MaxChanges = 1
    None = None
PROPERTY MutableKept
PROPERTY EventuallyServed
CHECK_DEADLOCK FALSE
