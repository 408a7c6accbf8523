------------------------------- MODULE MCOtp -------------------------------
(***************************************************************************)
(* Otp with a code that lives three ticks and is blocked at two attempts.  *)
(***************************************************************************)
EXTENDS OtpHistory, TLC

CONSTANTS a1, a2, a3, a4, a5

Symmetry == Permutations(Calls)
=============================================================================
