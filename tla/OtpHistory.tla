----------------------------- MODULE OtpHistory -----------------------------
(***************************************************************************)
(* Otp with the history that the promises of the documentation hold in:    *)
(* whether calls have come one after the other and nothing has failed.     *)
(* The history is written and never read.                                  *)
(***************************************************************************)
EXTENDS Otp

VARIABLE orderly   \* nothing has failed, and no two calls overlapped

hvars == <<vars, orderly>>

\* No call begins while another one runs.
InOrder ==
  \A r, q \in Calls : pc[r] = "new" /\ pc'[r] # "new" => pc[q] \in {"new", "done"}

HInit == Init /\ orderly = TRUE
HNext ==
  \/ Step /\ orderly' = (orderly /\ InOrder)
  \/ (\E r \in Calls : Fail(r)) /\ orderly' = FALSE

HSpec == HInit /\ [][HNext]_hvars

-----------------------------------------------------------------------------
\* As long as calls do not overlap and nothing fails, the promises of the
\* documentation are kept.

\* At most OTPMaxAttempts wrong codes are compared with a code, to the last
\* moment of its life (README.md:92, README.md:698): the block outlives it.
WrongInOrder == orderly => WrongBounded

\* Codes are sent OTPRateLimit apart (README.md:680).
RateInOrder ==
  orderly => \A i \in Rows \ {1} : codes[i].created - codes[i - 1].created >= OTPRateLimit

\* A call that has compared the right code answers with tokens (README.md:699).
LoginInOrder ==
  [][\A r \in Calls : orderly' /\ pc[r] \in {"user", "create", "issue"} /\ pc'[r] = "done" =>
       result'[r] = "tokens"]_vars
=============================================================================
