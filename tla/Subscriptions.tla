--------------------------- MODULE Subscriptions ---------------------------
(***************************************************************************)
(* Subscriptions (internal/services/subscriptions.go) with everything that *)
(* writes what they depend on: the admin's plans and complexes, the        *)
(* actions of users and admins, and the payment service, of which only its *)
(* promise is used: a paid subscription is moved in one step (SettleSub of *)
(* Settlement, which Payments implements).                                 *)
(***************************************************************************)
EXTENDS Integers

CONSTANTS
  Calls,             \* calls of Create; the row one makes has its name
  ComplexIds, Plans, \* rows of residential_complexes and plans
  ComplexStatuses,   \* what an admin may write as a complex's status
  Prices,            \* what an admin may write as a plan's price: unchecked
  Period,            \* the 30 days a payment is good for
  MaxTime,           \* bound of the clock
  NoSub              \* no row in subscriptions

SubActions == {"CANCELED", "PAUSED", "ACTIVE"}
SubStatuses == SubActions \cup {"PAYMENT_PENDING"}
Row == [complex : ComplexIds, plan : Plans, status : SubStatuses, ends : Nat]

ASSUME DataAssumption ==
  /\ "ACTIVE" \in ComplexStatuses
  /\ Prices \subseteq Int
  /\ Period \in Nat \ {0}
  /\ MaxTime \in Nat
  /\ NoSub \notin Row

VARIABLES
  now,       \* the clock
  complexes, \* the status of each complex
  plans,     \* the price of each plan and whether it is active
  subs,      \* [Calls -> a row or NoSub]; ends is current_period_end, 0 for NULL
  pc,        \* what a call does next
  on,        \* the complex and the plan it was asked for
  status,    \* the status it gives its row
  moves      \* history: what has made the row of a call ACTIVE since

vars == <<now, complexes, plans, subs, pc, on, status, moves>>

TypeOK ==
  /\ now \in Nat
  /\ complexes \in [ComplexIds -> ComplexStatuses]
  /\ plans \in [Plans -> [price : Prices, active : BOOLEAN]]
  /\ subs \in [Calls -> Row \cup {NoSub}]
  /\ pc \in [Calls -> {"new", "plan", "insert", "done"}]
  /\ on \in [Calls -> [complex : ComplexIds, plan : Plans]]
  /\ status \in [Calls -> SubStatuses]
  /\ moves \in [Calls -> SUBSET {"settled", "resumed"}]

Init ==
  /\ now = 0
  /\ complexes \in [ComplexIds -> ComplexStatuses]
  /\ plans \in [Plans -> [price : Prices, active : BOOLEAN]]
  /\ subs = [s \in Calls |-> NoSub]
  /\ pc = [r \in Calls |-> "new"]
  /\ on \in [Calls -> [complex : ComplexIds, plan : Plans]]
  /\ status = [r \in Calls |-> "ACTIVE"]
  /\ moves = [s \in Calls |-> {}]

Goto(r, label) == pc' = [pc EXCEPT ![r] = label]

-----------------------------------------------------------------------------
\* Create: three statements, each on its own.

\* A bug to catch: the complex need only exist.
FindComplexAny(r) ==
  /\ pc[r] = "new"
  /\ Goto(r, "plan")
  /\ UNCHANGED <<now, complexes, plans, subs, on, status, moves>>

FindComplex(r) ==
  /\ pc[r] = "new"
  /\ Goto(r, IF complexes[on[r].complex] = "ACTIVE" THEN "plan" ELSE "done")
  /\ UNCHANGED <<now, complexes, plans, subs, on, status, moves>>

\* What is made of a plan whose price does, or does not, ask for a payment.
ReadPlan(r, paid) ==
  /\ pc[r] = "plan"
  /\ Goto(r, IF plans[on[r].plan].active THEN "insert" ELSE "done")
  /\ status' = [status EXCEPT ![r] = IF paid THEN "PAYMENT_PENDING" ELSE "ACTIVE"]
  /\ UNCHANGED <<now, complexes, plans, subs, on, moves>>

\* A bug to catch: a price of zero asks for a payment too.
FindPlanFromZero(r) == ReadPlan(r, plans[on[r].plan].price >= 0)

\* A price of zero or less asks for no payment.
FindPlan(r) == ReadPlan(r, plans[on[r].plan].price > 0)

\* A bug to catch: the row gets the period its caller is told of.
InsertPeriod(r) ==
  /\ pc[r] = "insert"
  /\ subs' = [subs EXCEPT ![r] = [complex |-> on[r].complex, plan |-> on[r].plan,
                                  status |-> status[r], ends |-> now + Period]]
  /\ Goto(r, "done")
  /\ UNCHANGED <<now, complexes, plans, on, status, moves>>

\* The row has no period, free plan or not: the one in the answer is not
\* stored.
Insert(r) ==
  /\ pc[r] = "insert"
  /\ subs' = [subs EXCEPT ![r] = [complex |-> on[r].complex, plan |-> on[r].plan,
                                  status |-> status[r], ends |-> 0]]
  /\ Goto(r, "done")
  /\ UNCHANGED <<now, complexes, plans, on, status, moves>>

\* A statement that fails ends the call.
Fail(r) ==
  /\ pc[r] \in {"plan", "insert"}
  /\ Goto(r, "done")
  /\ UNCHANGED <<now, complexes, plans, subs, on, status, moves>>

-----------------------------------------------------------------------------
\* cancel, pause and resume, by a user or an admin: no state is asked for.
UpdateStatus(s, a) ==
  /\ subs[s] # NoSub
  /\ subs' = [subs EXCEPT ![s].status = a]
  /\ moves' = [moves EXCEPT ![s] = IF a = "ACTIVE" THEN @ \cup {"resumed"} ELSE @]
  /\ UNCHANGED <<now, complexes, plans, pc, on, status>>

\* A payment for the subscription is PAID, at once with its effect.
Settle(s) ==
  /\ subs[s] # NoSub
  /\ subs' = [subs EXCEPT ![s].status = "ACTIVE", ![s].ends = now + Period]
  /\ moves' = [moves EXCEPT ![s] = @ \cup {"settled"}]
  /\ UNCHANGED <<now, complexes, plans, pc, on, status>>

-----------------------------------------------------------------------------
\* The admin's UpdateStatus, or a verification that reaches the threshold.
UpdateComplex(c, s) ==
  /\ complexes' = [complexes EXCEPT ![c] = s]
  /\ UNCHANGED <<now, plans, subs, pc, on, status, moves>>

UpdatePlan(p, price, active) ==
  /\ plans' = [plans EXCEPT ![p] = [price |-> price, active |-> active]]
  /\ UNCHANGED <<now, complexes, subs, pc, on, status, moves>>

Tick ==
  /\ now < MaxTime
  /\ now' = now + 1
  /\ UNCHANGED <<complexes, plans, subs, pc, on, status, moves>>

Create(r) == FindComplex(r) \/ FindPlan(r) \/ Insert(r) \/ Fail(r)

Next ==
  \/ Tick
  \/ \E r \in Calls : Create(r) \/ Settle(r)
  \/ \E s \in Calls, a \in SubActions : UpdateStatus(s, a)
  \/ \E c \in ComplexIds, s \in ComplexStatuses : UpdateComplex(c, s)
  \/ \E p \in Plans, price \in Prices, active \in BOOLEAN : UpdatePlan(p, price, active)

Spec == Init /\ [][Next]_vars

-----------------------------------------------------------------------------
\* Properties.

Exists(s) == subs[s] # NoSub

\* Only a settlement sets a period (README.md:889), it always does, and no
\* period runs further than Period from now, however often one is paid again.
PeriodPaid ==
  \A s \in Calls : Exists(s) =>
    /\ subs[s].ends > 0 <=> "settled" \in moves[s]
    /\ subs[s].ends <= now + Period
=============================================================================
