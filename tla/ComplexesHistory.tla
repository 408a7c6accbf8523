-------------------------- MODULE ComplexesHistory --------------------------
(***************************************************************************)
(* Complexes with the history that its exact promises hold in: which       *)
(* complexes have had calls one after the other.  The history is written   *)
(* and never read.                                                         *)
(***************************************************************************)
EXTENDS Complexes

VARIABLE orderly   \* the complexes whose calls have not overlapped

hvars == <<vars, orderly>>

\* No call about c begins while another one runs.
InOrder(c) ==
  \A r, q \in Calls :
    pc[r] = "new" /\ pc'[r] # "new" /\ on'[r][1] = c /\ on[q][1] = c =>
      pc[q] \in {"new", "done"}

HInit == Init /\ orderly = ComplexIds
HNext == Next /\ orderly' = {c \in orderly : InOrder(c)}

HSpec == HInit /\ [][HNext]_hvars
HFairSpec == HSpec /\ Fairness

-----------------------------------------------------------------------------
\* Properties.

\* As long as calls about a complex do not overlap, current_requests is the
\* number of verified requests, through every failure and every status an
\* admin writes (complexes.go:69-96, admin/complexes.go:93-99).
CountInOrder ==
  \A c \in orderly : count[c] = Cardinality(Verified(c))

\* And a verification moves the complex to ThresholdStatus exactly when the
\* requests verified so far reach the threshold, and leaves the status that an
\* admin has set alone otherwise (README.md:113-115, README.md:775).
LaunchInOrder ==
  [][\A c \in orderly : commits'[c] # commits[c] =>
       LET n == Cardinality(Verified(c)')
       IN  status'[c] = IF Threshold[c] > 0 /\ n >= Threshold[c] THEN ThresholdStatus
                        ELSE status[c]]_vars
=============================================================================
