----------------------------- MODULE MCDelivery -----------------------------
(***************************************************************************)
(* Delivery with an order and a payment, and two requests for each at      *)
(* once.                                                                   *)
(***************************************************************************)
EXTENDS Delivery

CONSTANTS order, payment, i1, i2
=============================================================================
