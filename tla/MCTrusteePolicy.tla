--------------------------- MODULE MCTrusteePolicy ---------------------------
(* Two services and two bindings; the second binding needs one path more.   *)
EXTENDS TrusteePolicy, TLC

CONSTANTS s1, s2, b1, b2, disk, app, mesh

MCService == {s1, s2}
MCBinding == {b1, b2}
MCPath == {disk, app, mesh}
MCWanted == (b1 :> {disk}) @@ (b2 :> {disk, app})

=============================================================================
