----------------------------- MODULE MCGuestMesh -----------------------------
(* Two peers, three ports a service may declare: 1 is the application's own, 8
   lies in the pool of TNG's hidden listeners.                               *)
EXTENDS GuestMesh

MCDeclared == {1, 2, 8}
MCOffers(connect, selves) ==
    {[self |-> s, routes |-> R, connect |-> R \cap connect] : s \in selves,
        R \in {{<<2, 2>>}, {<<1, 1>>, <<1, 2>>, <<2, 8>>}}}
MCBoot == {{1}}
MCBoots == {{1}, {2}}
MCOffer == MCOffers({<<2, 8>>}, MCBoot)
MCOfferPorts == MCOffers({}, MCBoots)

=============================================================================
