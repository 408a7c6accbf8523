---------------------------- MODULE MCComplexes ----------------------------
(***************************************************************************)
(* Complexes with two phones and a complex that launches at two requests.  *)
(***************************************************************************)
EXTENDS ComplexesHistory, TLC

CONSTANTS a1, a2, a3, c1, p1, p2

MCThreshold == c1 :> 2

Symmetry == Permutations(Calls) \cup Permutations(Phones)
=============================================================================
