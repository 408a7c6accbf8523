---------------------------- MODULE MCCatalogue ----------------------------
(***************************************************************************)
(* Catalogue with two products and a third to come, two admins and a       *)
(* reader who asks for one product a page.  Everything is in stock and on  *)
(* sale at first.                                                          *)
(***************************************************************************)
EXTENDS CatalogueHistory, TLC

CONSTANTS pa, pb, pc, ann, bob, reader

MCShelf == <<pb, pa>>
MCBaskets == {pa :> 1 @@ pb :> 0 @@ pc :> 0, pa :> 1 @@ pb :> 1 @@ pc :> 0}

Symmetry == Permutations(Admins)

MCInit ==
  /\ HInit
  /\ \A p \in Products : stock[p] = 1 /\ active[p]

MCSpec == MCInit /\ [][HNext]_hvars
=============================================================================
