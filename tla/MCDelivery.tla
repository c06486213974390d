----------------------------- MODULE MCDelivery -----------------------------
(* Delivery on small instances. *)
EXTENDS Delivery

CONSTANTS s1, r1, r2

=============================================================================
