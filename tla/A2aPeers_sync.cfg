SPECIFICATION FairSpec
CONSTANTS
    alice = alice
    bob = bob
    Anyone = Anyone
    Peer = {1}
    Pin <- MCPin
    Card <- MCCard
    Proc = {1, 2}
    None = None
    MeshDelivered <- MCMesh
    MaxCommands = 2
    MaxFaults = 2
    MaxChanges = 1
INVARIANT RefusedNotReused
PROPERTY EventuallyCurrent
CHECK_DEADLOCK FALSE
