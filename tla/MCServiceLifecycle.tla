------------------------- MODULE MCServiceLifecycle -------------------------
(* Two services managed by two concurrent commands.                         *)
EXTENDS ServiceLifecycle, TLC

CONSTANTS s1, s2, p1, p2, laptop, partner

MCService == {s1, s2}
MCProc == {p1, p2}
MCOneTrustee == {s1}
MCOther == {s2}

Peering(label, role, host, scope) ==
    [label |-> label, role |-> role, cidr |-> {host}, scope |-> scope]
\* An earlier migrate made the operator's entry; another would make it again
MCMigrated == {Peering("migrated-operator", "operator", laptop, {})}
MCPartner == {Peering("partner", "peer", partner, {"mesh"})}

Points == {"build", "sync", "syncing", "record", "launch", "observe", "mesh",
           "deliver", "activate", "refresh", "revoke", "mark", "remove",
           "cleanup", "wipe", "finish", "report", "migrate"}
\* A destroy that dies between cleanup and its last write cannot be run again:
\* with DieAt <- Points TLC finds DestroyCanBeRerun violated
MCDieSafely == Points \ {"finish"}

Symmetry == Permutations(MCProc)

=============================================================================
