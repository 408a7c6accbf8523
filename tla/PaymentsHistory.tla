-------------------------- MODULE PaymentsHistory --------------------------
(***************************************************************************)
(* Payments with the history that settling once depends on: of which       *)
(* payments the notifications have come in order.  The history is written  *)
(* and never read.                                                         *)
(***************************************************************************)
EXTENDS Payments

VARIABLE orderly   \* the payments whose notifications came in order

hvars == <<vars, orderly>>

\* The notifications of k come one after another, and none but PAID after PAID.
InOrder(k) ==
  \A r \in Requests : pc[r] = "new" /\ pc'[r] # "new" /\ hook'[r].ref = k =>
    /\ \A q \in Requests : hook[q].ref = k => pc[q] \in {"new", "done"}
    /\ payments[k] # NoPayment /\ payments[k].status = "PAID" => hook'[r].status = "PAID"

HInit == Init /\ orderly = Refs
HNext == Next /\ orderly' = {k \in orderly : InOrder(k)}

HSpec == HInit /\ [][HNext]_hvars
HFairSpec == HSpec /\ Fairness

-----------------------------------------------------------------------------
\* Properties.

\* A payment whose notifications come in order is settled at most once, through
\* failures, retries and rollbacks, whatever is going on with other payments
\* (payments.go:60-65).
OnceInOrder == \A k \in orderly : settled[k] <= 1
=============================================================================
