----------------------------- MODULE MCSessions -----------------------------
(***************************************************************************)
(* SessionsHistory with half seconds for ticks.                            *)
(***************************************************************************)
EXTENDS SessionsHistory, TLC

CONSTANTS a1, a2, a3, u1

Symmetry == Permutations(Calls)
=============================================================================
