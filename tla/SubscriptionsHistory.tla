------------------------ MODULE SubscriptionsHistory ------------------------
(***************************************************************************)
(* Subscriptions with the history that its promises are about: which calls *)
(* of Create nobody has raced, and whose plan cost nothing when they read  *)
(* it.  The history is written and never read.                             *)
(***************************************************************************)
EXTENDS Subscriptions

VARIABLES
  quiet,   \* the calls whose complex was not written while they ran
  free     \* the calls that have read a plan that costs nothing

hvars == <<vars, quiet, free>>

Running(r) == pc[r] \in {"plan", "insert"}

HInit == Init /\ quiet = Calls /\ free = {}

HNext ==
  /\ Next
  /\ quiet' = {r \in quiet : Running(r) => UNCHANGED complexes[on[r].complex]}
  /\ free' = free \cup {r \in Calls : /\ pc[r] = "plan" /\ pc'[r] = "insert"
                                     /\ plans[on[r].plan].price <= 0}

HSpec == HInit /\ [][HNext]_hvars

-----------------------------------------------------------------------------
\* Properties.

\* However prices change while subscriptions are made, paid, cancelled, paused
\* and resumed: one that is ACTIVE cost nothing when its plan was read, or has a
\* paid period, or was resumed; one that is PAYMENT_PENDING had a price then and
\* is not paid for (subscriptions.go:45-49, payments.go:114, README.md:797).
ActiveAccounted ==
  \A s \in Calls : Exists(s) =>
    /\ subs[s].status = "ACTIVE" => s \in free \/ subs[s].ends > 0 \/ "resumed" \in moves[s]
    /\ subs[s].status = "PAYMENT_PENDING" => s \notin free /\ subs[s].ends = 0

\* A subscription is created only in an ACTIVE complex (README.md:163,
\* README.md:796), at the moment its row appears and not only when its complex
\* was read: as long as nobody writes the complex in between.
CreatedInQuiet ==
  [][\A r \in quiet : ~Exists(r) /\ Exists(r)' => complexes[on[r].complex] = "ACTIVE"]_vars
=============================================================================
