-------------------------- MODULE MCSubscriptions --------------------------
(***************************************************************************)
(* Subscriptions with two calls, and plans that are free, paid and priced  *)
(* below zero.                                                             *)
(***************************************************************************)
EXTENDS SubscriptionsHistory, TLC

CONSTANTS a1, a2, c1, c2, p1

MCPrices == {-1, 0, 1}

Symmetry == Permutations(Calls) \cup Permutations(ComplexIds)
=============================================================================
