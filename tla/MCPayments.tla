----------------------------- MODULE MCPayments -----------------------------
(***************************************************************************)
(* Payments on a small shop: two orders with lines on the same two         *)
(* products, one of them with two lines of one product, and two payments.  *)
(***************************************************************************)
EXTENDS PaymentsHistory, TLC, FiniteSetsExt

CONSTANTS r1, r2, r3, k1, k2, o1, o2, s1, pa, pb, i1, i2, i3, i4, i5, lost

MCItems == {i1, i2, i3, i4, i5}
MCOrderOf == i1 :> o1 @@ i2 :> o1 @@ i3 :> o2 @@ i4 :> o2 @@ i5 :> o1
MCProductOf == i1 :> pa @@ i2 :> pb @@ i3 :> pb @@ i4 :> pa @@ i5 :> pa
MCQuantity == i1 :> 1 @@ i2 :> 1 @@ i3 :> 1 @@ i4 :> 2 @@ i5 :> 1
MCUnits ==
  [S \in SUBSET MCItems |-> [p \in {pa, pb} |->
     MapThenSumSet(LAMBDA i : MCQuantity[i], {i \in S : MCProductOf[i] = p})]]

\* One order with one line.
MCOneItems == {i1}
MCOneOrderOf == i1 :> o1
MCOneProductOf == i1 :> pa
MCOneQuantity == i1 :> 2
MCOneUnits == (MCOneItems :> (pa :> 2)) @@ ({} :> (pa :> 0))

MCStock == {-1, 2, 3}

Symmetry == Permutations(Requests)
=============================================================================
