----------------------------- MODULE MCA2aPeers -----------------------------
(* Cards of two signers; an entry is pinned to one of them or to nobody, so    *)
(* that a new card is accepted under one pin and refused under the other.      *)
EXTENDS A2aPeers

CONSTANTS alice, bob

MCPin == {alice, Anyone}
MCCard == {[signer |-> alice], [signer |-> bob]}
MCMesh == {TRUE}

=============================================================================
