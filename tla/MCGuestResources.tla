-------------------------- MODULE MCGuestResources --------------------------
(* A credential, a resource of the operator and one of the application; a   *)
(* bootstrap may leave the last one out.                                    *)
EXTENDS GuestResources

MCOffer ==
    {[r \in Res |-> IF r \in Mutable /\ ~seeds THEN None
                    ELSE IF r \in Management THEN 1 ELSE v] : v \in Ver, seeds \in BOOLEAN}
=============================================================================
