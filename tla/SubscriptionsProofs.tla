------------------------ MODULE SubscriptionsProofs ------------------------
(***************************************************************************)
(* Every ACTIVE subscription is accounted for and only a settlement sets a *)
(* period, for any plans, prices and complexes.  The invariant needs to    *)
(* know that what a row is accounted by is its own (Fresh), and that a     *)
(* call about to insert one has the status its plan's price asks for       *)
(* (Priced).  A row that nobody has raced appears in an ACTIVE complex:    *)
(* QuietActive.                                                            *)
(***************************************************************************)
EXTENDS SubscriptionsHistory, TLAPS

\* A call that has not inserted its row has none, and nothing has moved it.
Fresh ==
  \A r \in Calls : pc[r] \in {"new", "plan", "insert"} =>
    subs[r] = NoSub /\ moves[r] = {}

IInv == TypeOK /\ Fresh /\ PeriodPaid

\* There are no subscriptions at first.
THEOREM Initially == Init => IInv
<1> SUFFICES ASSUME Init PROVE IInv
  OBVIOUS
<1> USE DEF Init
<1>1. TypeOK
  BY DEF TypeOK, SubStatuses, SubActions
<1>2. Fresh /\ PeriodPaid
  BY DEF Fresh, PeriodPaid, Exists
<1> QED BY <1>1, <1>2 DEF IInv

\* A row is none of NoSub.
LEMMA Distinct == \A row \in Row : row # NoSub
  BY DataAssumption DEF DataAssumption

\* What a settlement makes of a row is a row.
LEMMA Moved ==
  ASSUME NEW row \in Row, NEW st \in SubStatuses, NEW n \in Nat
  PROVE  /\ [row EXCEPT !.status = st, !.ends = n] \in Row
         /\ [row EXCEPT !.status = st, !.ends = n].ends = n
<1>1. [row EXCEPT !.status = st] \in Row /\ [row EXCEPT !.status = st].ends = row.ends
  BY DEF Row
<1> QED BY <1>1 DEF Row

\* What a step that writes no subscription keeps.
LEMMA Untouched ==
  ASSUME IInv, UNCHANGED <<subs, moves>>, TypeOK', Fresh', now' >= now
  PROVE  IInv'
<1>1. PeriodPaid'
  <2> SUFFICES ASSUME NEW s \in Calls, Exists(s)
               PROVE  /\ subs[s].ends > 0 <=> "settled" \in moves[s]
                      /\ subs[s].ends <= now' + Period
    BY DEF PeriodPaid, Exists
  <2>1. /\ subs[s].ends > 0 <=> "settled" \in moves[s]
        /\ subs[s].ends <= now + Period
    BY DEF IInv, PeriodPaid
  <2>2. subs[s].ends \in Nat /\ now \in Nat /\ now' \in Nat /\ Period \in Nat
    BY DataAssumption DEF DataAssumption, IInv, TypeOK, Exists, Row
  <2> QED BY <2>1, <2>2
<1> QED BY <1>1 DEF IInv

\* Each action keeps the invariant.
THEOREM StepKeeps == IInv /\ [Next]_vars => IInv'
<1> SUFFICES ASSUME IInv, [Next]_vars PROVE IInv'
  OBVIOUS
<1> USE DataAssumption DEF DataAssumption
<1>t. /\ now \in Nat /\ Period \in Nat \ {0}
      /\ complexes \in [ComplexIds -> ComplexStatuses]
      /\ plans \in [Plans -> [price : Prices, active : BOOLEAN]]
      /\ subs \in [Calls -> Row \cup {NoSub}]
      /\ pc \in [Calls -> {"new", "plan", "insert", "done"}]
      /\ on \in [Calls -> [complex : ComplexIds, plan : Plans]]
      /\ status \in [Calls -> SubStatuses]
      /\ moves \in [Calls -> SUBSET {"settled", "resumed"}]
  BY DEF IInv, TypeOK
<1>1. CASE UNCHANGED vars
  BY <1>1 DEF IInv, TypeOK, Fresh, PeriodPaid, Exists, vars
<1>2. CASE Tick
  <2>1. TypeOK' /\ Fresh'
    BY <1>2, <1>t DEF Tick, TypeOK, Fresh, IInv
  <2> QED BY <1>2, <2>1, <1>t, Untouched DEF Tick
<1>3. ASSUME NEW c \in ComplexIds, NEW s \in ComplexStatuses, UpdateComplex(c, s)
      PROVE  IInv'
  <2>1. TypeOK' /\ Fresh'
    BY <1>3, <1>t DEF UpdateComplex, TypeOK, Fresh, IInv
  <2> QED BY <1>3, <2>1, <1>t, Untouched DEF UpdateComplex
<1>4. ASSUME NEW p \in Plans, NEW price \in Prices, NEW active \in BOOLEAN,
             UpdatePlan(p, price, active)
      PROVE  IInv'
  <2>1. TypeOK' /\ Fresh'
    BY <1>4, <1>t DEF UpdatePlan, TypeOK, Fresh, IInv
  <2> QED BY <1>4, <2>1, <1>t, Untouched DEF UpdatePlan
<1>5. ASSUME NEW r \in Calls, FindComplex(r) \/ Fail(r) PROVE IInv'
  <2>1. PICK label \in {"plan", "done"} : pc' = [pc EXCEPT ![r] = label]
    BY <1>5 DEF FindComplex, Fail, Goto
  <2>2. /\ UNCHANGED <<now, complexes, plans, subs, on, status, moves>>
        /\ pc[r] \in {"new", "plan", "insert"}
    BY <1>5 DEF FindComplex, Fail
  <2>3. TypeOK' /\ Fresh'
    BY <2>1, <2>2, <1>t DEF TypeOK, Fresh, IInv
  <2> QED BY <2>2, <2>3, <1>t, Untouched
<1>6. ASSUME NEW r \in Calls, FindPlan(r) PROVE IInv'
  <2>1. /\ pc' = [pc EXCEPT ![r] = IF plans[on[r].plan].active THEN "insert" ELSE "done"]
        /\ status' = [status EXCEPT ![r] = IF plans[on[r].plan].price > 0
                                           THEN "PAYMENT_PENDING" ELSE "ACTIVE"]
        /\ UNCHANGED <<now, complexes, plans, subs, on, moves>>
        /\ pc[r] = "plan"
    BY <1>6 DEF FindPlan, ReadPlan, Goto
  <2>2. TypeOK'
    BY <2>1, <1>t DEF TypeOK, SubStatuses, SubActions
  <2>3. Fresh'
    BY <2>1, <1>t DEF Fresh, IInv
  <2> QED BY <2>1, <2>2, <2>3, <1>t, Untouched
<1>7. ASSUME NEW r \in Calls, Insert(r) PROVE IInv'
  <2> DEFINE row == [complex |-> on[r].complex, plan |-> on[r].plan,
                     status |-> status[r], ends |-> 0]
  <2>1. row \in Row /\ row.status = status[r] /\ row.ends = 0
    BY <1>t DEF Row
  <2>2. /\ subs' = [subs EXCEPT ![r] = row] /\ pc' = [pc EXCEPT ![r] = "done"]
        /\ UNCHANGED <<now, complexes, plans, on, status, moves>>
        /\ moves[r] = {}
    BY <1>7 DEF Insert, Goto, IInv, Fresh
  <2> HIDE DEF row
  <2>3. TypeOK'
    BY <2>1, <2>2, <1>t DEF TypeOK
  <2>4. Fresh'
    BY <2>2, <1>t DEF IInv, Fresh
  <2>5. PeriodPaid'
    <3> SUFFICES ASSUME NEW s \in Calls, subs'[s] # NoSub
                 PROVE  /\ subs'[s].ends > 0 <=> "settled" \in moves[s]
                        /\ subs'[s].ends <= now + Period
      BY <2>2 DEF PeriodPaid, Exists
    <3>1. CASE s = r
      BY <3>1, <2>1, <2>2, <1>t
    <3>2. CASE s # r
      BY <3>2, <2>2, <1>t DEF IInv, PeriodPaid, Exists
    <3> QED BY <3>1, <3>2
  <2> QED BY <2>3, <2>4, <2>5 DEF IInv
<1>8. ASSUME NEW s \in Calls, Settle(s) PROVE IInv'
  <2> DEFINE row == [subs[s] EXCEPT !.status = "ACTIVE", !.ends = now + Period]
  <2>1. subs[s] \in Row
    BY <1>8, <1>t DEF Settle
  <2>2. /\ row \in Row
        /\ row.ends = now + Period
        /\ row.ends > 0
    <3>1. now + Period \in Nat /\ now + Period > 0
      BY <1>t
    <3>2. "ACTIVE" \in SubStatuses
      BY DEF SubStatuses, SubActions
    <3> QED BY <2>1, <3>1, <3>2, Moved
  <2>3. /\ subs' = [subs EXCEPT ![s] = row]
        /\ moves' = [moves EXCEPT ![s] = moves[s] \cup {"settled"}]
        /\ UNCHANGED <<now, complexes, plans, pc, on, status>>
    BY <1>8, <2>1 DEF Settle, Row
  <2> HIDE DEF row
  <2>4. TypeOK'
    BY <2>2, <2>3, <1>t DEF TypeOK
  <2>5. Fresh'
    BY <2>1, <2>3, <1>t, Distinct DEF IInv, Fresh
  <2>6. PeriodPaid'
    BY <2>2, <2>3, <1>t DEF IInv, PeriodPaid, Exists
  <2> QED BY <2>4, <2>5, <2>6 DEF IInv
<1>9. ASSUME NEW s \in Calls, NEW a \in SubActions, UpdateStatus(s, a) PROVE IInv'
  <2> DEFINE row == [subs[s] EXCEPT !.status = a]
             made == IF a = "ACTIVE" THEN moves[s] \cup {"resumed"} ELSE moves[s]
  <2>1. subs[s] \in Row
    BY <1>9, <1>t DEF UpdateStatus
  <2>2. row \in Row /\ row.ends = subs[s].ends /\ row.status = a
    BY <2>1, <1>t DEF Row, SubStatuses
  <2>3. /\ subs' = [subs EXCEPT ![s] = row] /\ moves' = [moves EXCEPT ![s] = made]
        /\ UNCHANGED <<now, complexes, plans, pc, on, status>>
    BY <1>9 DEF UpdateStatus
  <2>4. /\ made \in SUBSET {"settled", "resumed"}
        /\ "settled" \in made <=> "settled" \in moves[s]
    <3>1. moves[s] \in SUBSET {"settled", "resumed"}
      BY <1>t
    <3>2. CASE a = "ACTIVE"
      BY <3>1, <3>2
    <3>3. CASE a # "ACTIVE"
      BY <3>1, <3>3
    <3> QED BY <3>2, <3>3
  <2> HIDE DEF row, made
  <2>5. TypeOK'
    BY <2>2, <2>3, <2>4, <1>t DEF TypeOK
  <2>6. Fresh'
    BY <2>1, <2>3, <1>t, Distinct DEF IInv, Fresh
  <2>7. PeriodPaid'
    <3>1. subs[s] # NoSub
      BY <2>1, Distinct
    <3> QED BY <3>1, <2>2, <2>3, <2>4, <1>t DEF IInv, PeriodPaid, Exists
  <2> QED BY <2>5, <2>6, <2>7 DEF IInv
<1> QED
  BY <1>1, <1>2, <1>3, <1>4, <1>5, <1>6, <1>7, <1>8, <1>9 DEF Next, Create

\* A subscription has a period exactly when it was settled (payments.go:114).
THEOREM PeriodIsPaid == Spec => []PeriodPaid
<1>1. IInv => PeriodPaid
  BY DEF IInv
<1> QED BY Initially, StepKeeps, <1>1, PTL DEF Spec

\* Subscriptions, plans, complexes and calls stay well typed.
THEOREM WellTyped == Spec => []TypeOK
<1>1. IInv => TypeOK
  BY DEF IInv
<1> QED BY Initially, StepKeeps, <1>1, PTL DEF Spec

-----------------------------------------------------------------------------
\* A call about to insert its row has the status that the price it read asks for;
\* before that it has read none.
Priced ==
  \A r \in Calls :
    /\ pc[r] \in {"new", "plan"} => r \notin free
    /\ pc[r] = "insert" => status[r] = IF r \in free THEN "ACTIVE" ELSE "PAYMENT_PENDING"

HInv == Priced /\ ActiveAccounted

\* No step takes a subscription that is there out of free, or puts it there.
LEMMA FreeStays ==
  ASSUME IInv, [HNext]_hvars, NEW s \in Calls, pc[s] # "plan"
  PROVE  s \in free' <=> s \in free
BY DEF HNext, hvars

LEMMA AccountedKeeps == IInv /\ HInv /\ [HNext]_hvars => HInv'
<1> SUFFICES ASSUME IInv, HInv, [HNext]_hvars PROVE HInv'
  OBVIOUS
<1> USE DataAssumption DEF DataAssumption
<1>t. /\ plans \in [Plans -> [price : Prices, active : BOOLEAN]]
      /\ subs \in [Calls -> Row \cup {NoSub}]
      /\ pc \in [Calls -> {"new", "plan", "insert", "done"}]
      /\ on \in [Calls -> [complex : ComplexIds, plan : Plans]]
      /\ status \in [Calls -> SubStatuses]
      /\ moves \in [Calls -> SUBSET {"settled", "resumed"}]
      /\ now \in Nat
  BY DEF IInv, TypeOK
<1>f. ASSUME NEW s \in Calls, Exists(s) PROVE s \in free' <=> s \in free
  BY <1>f, FreeStays DEF IInv, Fresh, Exists
\* A step that writes no subscription.
<1>u. ASSUME UNCHANGED <<subs, moves>> PROVE ActiveAccounted'
  BY <1>u, <1>f DEF HInv, ActiveAccounted, Exists
\* A step that moves no call on.
<1>p. ASSUME UNCHANGED <<pc, status>> PROVE Priced'
  <2>1. free' = free
    BY <1>p DEF HNext, hvars
  <2> QED BY <1>p, <2>1 DEF HInv, Priced
<1>1. CASE UNCHANGED vars
  BY <1>1, <1>u, <1>p DEF vars, HInv
<1>2. CASE Tick \/ \E c \in ComplexIds, st \in ComplexStatuses : UpdateComplex(c, st)
  BY <1>2, <1>u, <1>p DEF Tick, UpdateComplex, HInv
<1>3. CASE \E p \in Plans, price \in Prices, active \in BOOLEAN : UpdatePlan(p, price, active)
  BY <1>3, <1>u, <1>p DEF UpdatePlan, HInv
<1>4. ASSUME NEW r \in Calls, FindComplex(r) \/ Fail(r) PROVE HInv'
  <2>1. PICK label \in {"plan", "done"} : pc' = [pc EXCEPT ![r] = label]
    BY <1>4 DEF FindComplex, Fail, Goto
  <2>2. /\ UNCHANGED <<subs, status, moves>>
        /\ label = "plan" => pc[r] = "new"
    BY <1>4, <2>1, <1>t DEF FindComplex, Fail, Goto
  <2>3. \A q \in Calls : q \in free' <=> q \in free
    BY <2>1, <1>t DEF HNext, hvars
  <2>4. Priced'
    BY <2>1, <2>2, <2>3, <1>t DEF HInv, Priced
  <2> QED BY <2>2, <2>4, <1>u DEF HInv
<1>5. ASSUME NEW r \in Calls, FindPlan(r) PROVE HInv'
  <2> DEFINE plan == plans[on[r].plan]
  <2>1. /\ pc' = [pc EXCEPT ![r] = IF plan.active THEN "insert" ELSE "done"]
        /\ status' = [status EXCEPT ![r] = IF plan.price > 0 THEN "PAYMENT_PENDING" ELSE "ACTIVE"]
        /\ UNCHANGED <<subs, moves>>
        /\ pc[r] = "plan" /\ plan.price \in Int
    BY <1>5, <1>t DEF FindPlan, ReadPlan, Goto
  <2>2. /\ r \notin free
        /\ plan.active => (r \in free' <=> plan.price <= 0)
    <3>1. r \notin free
      BY <2>1 DEF HInv, Priced
    <3>2. HNext
      BY <2>1, <1>t DEF hvars, vars
    <3> QED BY <2>1, <3>1, <3>2, <1>t DEF HNext
  <2>3. ASSUME NEW q \in Calls, q # r PROVE q \in free' <=> q \in free
    <3>1. pc'[q] = pc[q]
      BY <2>1, <2>3, <1>t
    <3> QED BY <3>1 DEF HNext, hvars
  <2> HIDE DEF plan
  <2>4. Priced'
    BY <2>1, <2>2, <2>3, <1>t DEF HInv, Priced
  <2> QED BY <2>1, <2>4, <1>u DEF HInv
<1>6. ASSUME NEW r \in Calls, Insert(r) PROVE HInv'
  <2> DEFINE row == [complex |-> on[r].complex, plan |-> on[r].plan,
                     status |-> status[r], ends |-> 0]
  <2>1. row \in Row /\ row.status = status[r] /\ row.ends = 0
    BY <1>t DEF Row
  <2>2. /\ subs' = [subs EXCEPT ![r] = row] /\ pc' = [pc EXCEPT ![r] = "done"]
        /\ UNCHANGED <<status, moves>> /\ pc[r] = "insert"
    BY <1>6 DEF Insert, Goto
  <2> HIDE DEF row
  <2>3. \A q \in Calls : q \in free' <=> q \in free
    BY <2>2, <1>t DEF HNext, hvars
  <2>4. Priced'
    BY <2>2, <2>3, <1>t DEF HInv, Priced
  <2>5. ActiveAccounted'
    BY <2>1, <2>2, <2>3, <1>t DEF HInv, Priced, ActiveAccounted, Exists
  <2> QED BY <2>4, <2>5 DEF HInv
<1>7. ASSUME NEW s \in Calls, Settle(s) PROVE HInv'
  <2> DEFINE row == [subs[s] EXCEPT !.status = "ACTIVE", !.ends = now + Period]
  <2>1. subs[s] \in Row /\ now + Period \in Nat /\ now + Period > 0
    <3>1. subs[s] \in Row
      BY <1>7, <1>t DEF Settle
    <3> QED BY <3>1, <1>t
  <2>2. row.status = "ACTIVE" /\ row.ends > 0
    BY <2>1 DEF Row
  <2>3. /\ subs' = [subs EXCEPT ![s] = row]
        /\ \A q \in Calls : moves[q] \subseteq moves'[q]
        /\ UNCHANGED <<pc, status>> /\ Exists(s)
    BY <1>7, <2>1, <1>t DEF Settle, Row, Exists
  <2> HIDE DEF row
  <2>4. ActiveAccounted'
    BY <2>2, <2>3, <1>f, <1>t DEF HInv, ActiveAccounted, Exists
  <2> QED BY <2>3, <2>4, <1>p DEF HInv
<1>8. ASSUME NEW s \in Calls, NEW a \in SubActions, UpdateStatus(s, a) PROVE HInv'
  <2> DEFINE row == [subs[s] EXCEPT !.status = a]
  <2>1. subs[s] \in Row
    BY <1>8, <1>t DEF UpdateStatus
  <2>2. row.status = a /\ row.ends = subs[s].ends /\ a # "PAYMENT_PENDING"
    BY <2>1 DEF Row, SubActions
  <2>3. /\ subs' = [subs EXCEPT ![s] = row]
        /\ \A q \in Calls : moves[q] \subseteq moves'[q]
        /\ a = "ACTIVE" => "resumed" \in moves'[s]
        /\ UNCHANGED <<pc, status>> /\ Exists(s)
    BY <1>8, <1>t DEF UpdateStatus, Exists
  <2> HIDE DEF row
  <2>4. ActiveAccounted'
    BY <2>2, <2>3, <1>f, <1>t DEF HInv, ActiveAccounted, Exists
  <2> QED BY <2>3, <2>4, <1>p DEF HInv
<1> QED
  BY <1>1, <1>2, <1>3, <1>4, <1>5, <1>6, <1>7, <1>8 DEF HNext, hvars, Next, Create

\* An ACTIVE subscription cost nothing when its plan was read, or has a paid
\* period, or was resumed, and one that is PAYMENT_PENDING had a price and is not
\* paid for (subscriptions.go:45-49), however prices change meanwhile.
THEOREM ActiveIsAccounted == HSpec => []ActiveAccounted
<1>1. HInit => IInv /\ HInv
  BY Initially DEF HInit, Init, HInv, Priced, ActiveAccounted, Exists
<1>2. IInv /\ HInv /\ [HNext]_hvars => (IInv /\ HInv)'
  <2>1. [HNext]_hvars => [Next]_vars
    BY DEF HNext, hvars
  <2> QED BY <2>1, StepKeeps, AccountedKeeps
<1>3. IInv /\ HInv => ActiveAccounted
  BY DEF HInv
<1> QED BY <1>1, <1>2, <1>3, PTL DEF HSpec

-----------------------------------------------------------------------------
\* The complex that a call has read to be ACTIVE still is, if nobody has
\* written it while the call ran.
QuietActive ==
  /\ quiet \subseteq Calls
  /\ \A r \in quiet : Running(r) => complexes[on[r].complex] = "ACTIVE"

\* Whatever a step does to the complexes, and whichever calls it ends.
LEMMA QuietKeeps == TypeOK /\ QuietActive /\ [HNext]_hvars => QuietActive'
<1> SUFFICES ASSUME TypeOK, QuietActive, [HNext]_hvars PROVE QuietActive'
  OBVIOUS
<1>0. CASE UNCHANGED hvars
  BY <1>0 DEF hvars, vars, QuietActive, Running
<1> SUFFICES ASSUME HNext, NEW r \in quiet', Running(r)'
             PROVE  complexes'[on'[r].complex] = "ACTIVE"
  BY <1>0 DEF QuietActive, HNext
<1>1. r \in Calls /\ r \in quiet /\ on' = on
      /\ (Running(r) => UNCHANGED complexes[on[r].complex])
  <2>1. on' = on
    BY DEF HNext, Next, Tick, Create, FindComplex, FindPlan, ReadPlan, Insert, Fail, Settle,
           UpdateStatus, UpdateComplex, UpdatePlan
  <2> QED BY <2>1 DEF HNext, QuietActive
<1>2. CASE Running(r)
  BY <1>1, <1>2 DEF QuietActive
<1>3. CASE ~Running(r)
  <2>1. \A q \in Calls : pc'[q] # pc[q] => FindComplex(q) \/ Running(q)
    <3> SUFFICES ASSUME NEW q \in Calls, pc'[q] # pc[q] PROVE FindComplex(q) \/ Running(q)
      OBVIOUS
    <3>1. PICK p \in Calls : Create(p)
      BY DEF HNext, Next, Tick, Settle, UpdateStatus, UpdateComplex, UpdatePlan
    <3>2. p = q
      BY <3>1 DEF Create, FindComplex, FindPlan, ReadPlan, Insert, Fail, Goto, TypeOK
    <3> QED BY <3>1, <3>2 DEF Create, FindPlan, ReadPlan, Insert, Fail, Running
  <2>2. FindComplex(r)
    BY <1>1, <1>3, <2>1 DEF Running
  <2>3. complexes[on[r].complex] = "ACTIVE" /\ complexes' = complexes
    BY <2>2, <1>1 DEF FindComplex, Goto, Running, TypeOK
  <2> QED BY <2>3, <1>1
<1> QED BY <1>2, <1>3

\* A subscription whose complex nobody writes between its reading and the
\* insertion appears in an ACTIVE complex (README.md:163, README.md:796): the
\* three statements of Create lose that promise only to a write in between.
THEOREM CreatedInActive == HSpec => CreatedInQuiet
<1>1. HInit => IInv /\ QuietActive
  BY Initially DEF HInit, Init, QuietActive, Running
<1>2. IInv /\ QuietActive /\ [HNext]_hvars => (IInv /\ QuietActive)'
  <2>1. [HNext]_hvars => [Next]_vars
    BY DEF HNext, hvars
  <2>2. IInv => TypeOK
    BY DEF IInv
  <2> QED BY <2>1, <2>2, StepKeeps, QuietKeeps
<1>3. IInv /\ QuietActive /\ [HNext]_hvars =>
        [\A r \in quiet : ~Exists(r) /\ Exists(r)' => complexes[on[r].complex] = "ACTIVE"]_vars
  <2> SUFFICES ASSUME IInv, QuietActive, HNext, NEW r \in quiet, ~Exists(r), Exists(r)'
               PROVE  complexes[on[r].complex] = "ACTIVE"
    BY DEF hvars
  <2>1. r \in Calls /\ subs \in [Calls -> Row \cup {NoSub}]
    BY DEF QuietActive, IInv, TypeOK
  <2>2. PICK q \in Calls : Insert(q) \/ Settle(q) \/ \E a \in SubActions : UpdateStatus(q, a)
    BY DEF HNext, Next, Tick, Create, FindComplex, FindPlan, ReadPlan, Fail, UpdateComplex, UpdatePlan, Exists
  <2>3. q = r
    BY <2>1, <2>2 DEF Insert, Settle, UpdateStatus, Exists
  <2>4. Insert(r)
    BY <2>2, <2>3 DEF Settle, UpdateStatus, Exists
  <2> QED BY <2>4 DEF QuietActive, Insert, Running
<1> QED BY <1>1, <1>2, <1>3, PTL DEF HSpec, CreatedInQuiet
=============================================================================
