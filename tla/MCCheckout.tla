----------------------------- MODULE MCCheckout -----------------------------
(***************************************************************************)
(* Checkout with an INT of -4 .. 3 and an int of -32 .. 31: four lines of  *)
(* three pieces at minus four cents wrap.                                  *)
(***************************************************************************)
EXTENDS Checkout, TLC

CONSTANTS a1, a2, x1, pa, pb, pz

L(p, n) == [product |-> p, quantity |-> n]

MCQuantities == -4 .. 4
MCPrices == {-4, 1}
MCRoutes == {<<pa, pb>>}

\* Two products in either order.
MCTwo == {<<L(pa, 1), L(pb, 1)>>, <<L(pb, 1), L(pa, 1)>>}

\* Lines that are refused at every stage, and sums to either side of INT.
MCCarts == MCTwo \cup
  {<< >>, <<L(pb, 1)>>, <<L(pa, 1), L(pb, 0)>>, <<L(pz, 1)>>, <<L(pa, 1), L(pb, 4)>>,
   <<L(pa, 3), L(pa, 3), L(pb, 3), L(pb, 3)>>,
   <<L(pa, -4), L(pa, -4), L(pa, -4), L(pa, -4)>>}

\* The second call orders the two products: what a cart may hold is up to the
\* first.
MCInit == Init /\ cart[a2] \in MCTwo
MCFairSpec == MCInit /\ [][Next]_vars /\ Fairness
=============================================================================
