SPECIFICATION ConnectSpec
CONSTANTS
    GB = 15
    GiB = 16
    Argument <- MCArgument
    Inside <- MCInside
    Edited <- MCEdited
    StagedRekor = FALSE
    Session = {c1, c2}
    ReadyFile = {f1}
    Pid = {1, 2}
    Address = {"a1", "a2"}
    Resolve <- MCResolve
    TargetIp = "a1"
    CardRekor = "sigstore"
    TrustedRekor = {}
    Url <- MCUrl
    HostState <- MCHostState
    ControlPort = 3
    MaxPort = 4
    MaxCommands = 2
    MaxTicks = 2
    MaxBoots = 1
    MaxRuns = 2
    MaxEdits = 2
SYMMETRY MCSymmetry
INVARIANT AcceptedOnward
INVARIANT TunnelsKept
INVARIANT SignalsItsOwn
PROPERTY InputsKept
CHECK_DEADLOCK FALSE
