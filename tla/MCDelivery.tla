----------------------------- MODULE MCDelivery -----------------------------
(* One service whose files have two contents. *)
EXTENDS Delivery
=============================================================================
