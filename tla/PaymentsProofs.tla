--------------------------- MODULE PaymentsProofs ---------------------------
(***************************************************************************)
(* Theorems about Payments, for every set of requests, payments, orders    *)
(* and products.  The inductive invariant is TypeOK /\ TxInv.              *)
(***************************************************************************)
EXTENDS PaymentsHistory, FiniteSetTheorems, WellFoundedInduction, TLAPS

IInv == TypeOK /\ TxInv

-----------------------------------------------------------------------------
\* Lemmas.

\* What a request is about does not depend on what others have.
LEMMA RequestStable ==
  ASSUME NEW r \in Requests, RequestInv(r),
         UNCHANGED <<payments, stock>>,
         pc'[r] = pc[r], hook'[r] = hook[r], todo'[r] = todo[r], cur'[r] = cur[r],
         seen'[r] = seen[r], draft'[r] = draft[r], locks'[r] = locks[r]
  PROVE  RequestInv(r)'
<1>1. /\ Payment(r)' = Payment(r) /\ Entity(r)' = Entity(r) /\ PaysOrder(r)' = PaysOrder(r)
      /\ Lines(Entity(r))' = Lines(Entity(r))
      /\ \A p : View(r, p)' = View(r, p)
  BY DEF Payment, Entity, PaysOrder, Lines, View
<1>2. LocksByStage(r)' /\ DraftsLocked(r)'
  BY <1>1 DEF RequestInv, LocksByStage, DraftsLocked, Nothing
<1>3. StageOf(r)'
  BY <1>1 DEF RequestInv, StageOf, Lines
<1>4. DraftsExact(r)'
  BY <1>1 DEF RequestInv, DraftsExact, Lines
<1> QED BY <1>2, <1>3, <1>4 DEF RequestInv

THEOREM Initially == Init => IInv
<1> SUFFICES ASSUME Init PROVE IInv
  OBVIOUS
<1>1. TypeOK
  <2>1. payments \in [Refs -> PaymentRow \cup {NoPayment}]
    BY DEF Init
  <2>2. orders \in [Orders -> OrderStatuses] /\ subs \in [Subs -> SubStatuses]
    BY TextAssumption DEF Init, SubStatuses
  <2>3. stock \in [Products -> Int]
    BY TextAssumption DEF Init
  <2>4. draft \in [Requests -> [Products -> Int \cup {Unwritten}]]
    BY DEF Init, Nothing
  <2>5. pc \in [Requests -> Stages \cup {"new", "abandoned", "done"}]
    BY DEF Init
  <2>6. QED
    BY <2>1, <2>2, <2>3, <2>4, <2>5 DEF Init, TypeOK
<1>2. LocksExclusive
  BY DEF Init, LocksExclusive
<1>3. ASSUME NEW r \in Requests PROVE RequestInv(r)
  <2>1. pc[r] = "new" /\ locks[r] = {} /\ draft[r] = Nothing /\ todo[r] = {}
    BY DEF Init
  <2>2. QED
    BY <2>1 DEF RequestInv, LocksByStage, StageOf, DraftsLocked, DraftsExact, Stages, Nothing
<1>4. QED
  BY <1>1, <1>2, <1>3 DEF IInv, TxInv

-----------------------------------------------------------------------------
\* Every action keeps the tables and the requests well typed.

LEMMA ContinueType ==
  ASSUME TypeOK, NEW r \in Requests, NEW rest \in SUBSET Items, Continue(r, rest)
  PROVE  /\ pc' \in [Requests -> Stages \cup {"new", "abandoned", "done"}]
         /\ todo' \in [Requests -> SUBSET Items]
         /\ cur' \in [Requests -> Items \cup {NoItem}]
BY DEF TypeOK, Continue, Stages

LEMMA FinishType ==
  ASSUME TypeOK, NEW r \in Requests, NEW label \in {"abandoned", "done"}, End(r, label)
  PROVE  /\ pc' \in [Requests -> Stages \cup {"new", "abandoned", "done"}]
         /\ hook' \in [Requests -> Hooks \cup {NoHook}]
         /\ todo' \in [Requests -> SUBSET Items]
         /\ cur' \in [Requests -> Items \cup {NoItem}]
         /\ seen' \in [Requests -> Int]
         /\ draft' \in [Requests -> [Products -> Int \cup {Unwritten}]]
         /\ locks' \in [Requests -> SUBSET Rows]
BY DEF TypeOK, End, Nothing

LEMMA LineType ==
  ASSUME TypeOK, NEW r \in Requests, RequestInv(r), pc[r] \in {"select", "update"}
  PROVE  /\ cur[r] \in Items
         /\ ProductOf[cur[r]] \in Products
         /\ Quantity[cur[r]] \in Nat \ {0}
         /\ View(r, ProductOf[cur[r]]) \in Int
         /\ seen[r] \in Int
<1>1. cur[r] \in Items
  BY DEF TypeOK, RequestInv, StageOf
<1>2. ProductOf[cur[r]] \in Products /\ Quantity[cur[r]] \in Nat \ {0}
  BY <1>1, LinesAssumption
<1>3. QED
  BY <1>1, <1>2 DEF TypeOK, View

LEMMA TypeStep == IInv /\ [Next]_vars => TypeOK'
<1> SUFFICES ASSUME IInv, [Next]_vars PROVE TypeOK'
  OBVIOUS
<1>a. TypeOK /\ \A r \in Requests : RequestInv(r)
  BY DEF IInv, TxInv
<1>1. ASSUME NEW k \in Refs, NEW t \in Types, NEW e \in Entities, InitPayment(k, t, e)
      PROVE  TypeOK'
  BY <1>a, <1>1, TextAssumption DEF TypeOK, InitPayment, PaymentRow, local
<1>2. ASSUME NEW o \in Orders, NEW s \in OrderStatuses, AdminUpdateOrder(o, s)
      PROVE  TypeOK'
  BY <1>a, <1>2 DEF TypeOK, AdminUpdateOrder, local
<1>3. ASSUME NEW p \in Products, NEW n \in StockLevels, AdminUpdateProduct(p, n)
      PROVE  TypeOK'
  BY <1>a, <1>3, TextAssumption DEF TypeOK, AdminUpdateProduct, local
<1>4. ASSUME NEW s \in Subs, NEW a \in SubActions, UpdateSubStatus(s, a)
      PROVE  TypeOK'
  BY <1>a, <1>4 DEF TypeOK, UpdateSubStatus, local, SubStatuses
<1>5. ASSUME NEW r \in Requests, Request(r)
      PROVE  TypeOK'
  <2>1. ASSUME NEW k \in Refs, NEW s \in Statuses, HandleWebhook(r, k, s)
        PROVE  TypeOK'
    BY <1>a, <2>1 DEF TypeOK, HandleWebhook, Hooks, Stages, tables
  <2>2. ASSUME Begin(r) PROVE TypeOK'
    BY <1>a, <2>2 DEF TypeOK, Begin, Stages, tables
  <2>3. ASSUME UpdatePayment(r) PROVE TypeOK'
    <3>1. hook[r].ref \in Refs
      BY <1>a, <2>3 DEF UpdatePayment, RequestInv, StageOf, Stages, Hooks
    <3>2. QED
      BY <1>a, <2>3, <3>1 DEF TypeOK, UpdatePayment, Lock, Rows, Stages, tables
  <2>4. ASSUME UpdateEntity(r) PROVE TypeOK'
    <3>1. EntityRows(r) \subseteq Rows
      BY DEF EntityRows, Rows
    <3>2. QED
      BY <1>a, <2>4, <3>1 DEF TypeOK, UpdateEntity, Lock, Stages, tables
  <2>5. ASSUME ReadItems(r) PROVE TypeOK'
    <3>1. Lines(Entity(r)) \in SUBSET Items
      BY DEF Lines
    <3>2. QED
      BY <1>a, <2>5, <3>1, ContinueType DEF TypeOK, ReadItems, tables
  <2>6. ASSUME SelectForUpdate(r) PROVE TypeOK'
    <3>1. ProductOf[cur[r]] \in Rows /\ View(r, ProductOf[cur[r]]) \in Int
      BY <1>a, <2>6, LineType DEF SelectForUpdate, Rows
    <3>2. QED
      BY <1>a, <2>6, <3>1 DEF TypeOK, SelectForUpdate, Lock, Stages, tables
  <2>7. ASSUME UpdateStock(r) PROVE TypeOK'
    <3>1. /\ ProductOf[cur[r]] \in Rows /\ ProductOf[cur[r]] \in Products
          /\ seen[r] - Quantity[cur[r]] \in Int
      BY <1>a, <2>7, LineType DEF UpdateStock, Rows
    <3>2. todo[r] \ {cur[r]} \in SUBSET Items
      BY <1>a DEF TypeOK
    <3>3. draft' \in [Requests -> [Products -> Int \cup {Unwritten}]]
      BY <1>a, <2>7, <3>1 DEF TypeOK, UpdateStock
    <3>4. QED
      BY <1>a, <2>7, <3>1, <3>2, <3>3, ContinueType DEF TypeOK, UpdateStock, Lock, tables
  <2>8. ASSUME Commit(r) PROVE TypeOK'
    <3>1. hook[r] \in Hooks /\ Payment(r) \in PaymentRow
      BY <1>a, <2>8 DEF Commit, RequestInv, StageOf, Stages
    <3>2. payments' \in [Refs -> PaymentRow \cup {NoPayment}]
      BY <1>a, <2>8, <3>1 DEF TypeOK, Commit, Payment, PaymentRow, Hooks
    <3>3. orders' \in [Orders -> OrderStatuses] /\ subs' \in [Subs -> SubStatuses]
      BY <1>a, <2>8, TextAssumption DEF TypeOK, Commit, SubStatuses, SubActions
    <3>4. stock' \in [Products -> Int]
      BY <1>a, <2>8 DEF TypeOK, Commit, View
    <3>5. settled' \in [Refs -> Nat]
      <4>1. hook[r].ref \in Refs
        BY <3>1 DEF Hooks
      <4>2. settled[hook[r].ref] + 1 \in Nat
        BY <1>a, <4>1 DEF TypeOK
      <4>3. QED
        BY <1>a, <2>8, <4>1, <4>2 DEF TypeOK, Commit
    <3>6. QED
      BY <1>a, <2>8, <3>2, <3>3, <3>4, <3>5, FinishType DEF TypeOK, Commit, Finish
  <2>9. ASSUME Interrupt(r) \/ StatementFails(r) \/ ReapAbandoned(r) \/ DeadlockVictim(r)
        PROVE  TypeOK'
    BY <1>a, <2>9, FinishType
    DEF TypeOK, Interrupt, StatementFails, ReapAbandoned, DeadlockVictim, Shadowed, End, Finish, tables
  <2>10. ASSUME ItemsFail(r) PROVE TypeOK'
    BY <1>a, <2>10 DEF TypeOK, ItemsFail, tables
  <2>11. QED
    BY <1>5, <2>1, <2>2, <2>3, <2>4, <2>5, <2>6, <2>7, <2>8, <2>9, <2>10
    DEF Request, Receive, Statement
<1>6. ASSUME UNCHANGED vars PROVE TypeOK'
  BY <1>a, <1>6 DEF TypeOK, vars
<1>7. QED
  BY <1>1, <1>2, <1>3, <1>4, <1>5, <1>6 DEF Next, Others

-----------------------------------------------------------------------------
\* Every action keeps the locks exclusive and the drafts exact.

LEMMA LockStep ==
  ASSUME TypeOK, LocksExclusive, NEW r \in Requests, NEW rows \in SUBSET Rows,
         \A row \in rows : Free(r, row), Lock(r, rows)
  PROVE  /\ LocksExclusive'
         /\ locks'[r] = locks[r] \cup rows
         /\ \A q \in Requests \ {r} : locks'[q] = locks[q]
BY DEF TypeOK, LocksExclusive, Lock, Free, Rivals

\* The end of a transaction leaves nothing behind.
LEMMA FinishStep ==
  ASSUME TypeOK, LocksExclusive, NEW r \in Requests, NEW label \in {"abandoned", "done"},
         End(r, label)
  PROVE  /\ LocksExclusive'
         /\ RequestInv(r)'
         /\ \A q \in Requests \ {r} :
              /\ pc'[q] = pc[q] /\ hook'[q] = hook[q] /\ todo'[q] = todo[q]
              /\ cur'[q] = cur[q] /\ seen'[q] = seen[q] /\ draft'[q] = draft[q]
              /\ locks'[q] = locks[q]
<1>1. LocksExclusive'
  BY DEF TypeOK, LocksExclusive, End
<1>2. pc'[r] = label /\ locks'[r] = {} /\ draft'[r] = Nothing /\ todo'[r] = {}
  BY DEF TypeOK, End
<1>3. RequestInv(r)'
  BY <1>2 DEF RequestInv, LocksByStage, StageOf, DraftsLocked, DraftsExact, Stages, Nothing
<1>4. QED
  BY <1>1, <1>3 DEF TypeOK, End

\* A step that touches only the request r keeps the invariant if it keeps it
\* for r.
LEMMA LocalStep ==
  ASSUME TypeOK, TxInv, NEW r \in Requests, LocksExclusive', RequestInv(r)',
         UNCHANGED <<payments, stock>>,
         \A q \in Requests \ {r} :
           /\ pc'[q] = pc[q] /\ hook'[q] = hook[q] /\ todo'[q] = todo[q]
           /\ cur'[q] = cur[q] /\ seen'[q] = seen[q] /\ draft'[q] = draft[q]
           /\ locks'[q] = locks[q]
  PROVE  TxInv'
<1>1. ASSUME NEW q \in Requests \ {r} PROVE RequestInv(q)'
  BY RequestStable, Zenon DEF TxInv
<1>2. QED
  BY <1>1 DEF TxInv

\* The steps of the other writers.
LEMMA OthersStep ==
  ASSUME IInv, Others
  PROVE  TxInv'
<1> USE DEF IInv, TxInv
<1>1. UNCHANGED <<pc, hook, todo, cur, seen, draft, locks>>
  BY DEF Others, InitPayment, AdminUpdateOrder, AdminUpdateProduct, UpdateSubStatus, local
<1>2. LocksExclusive'
  BY <1>1 DEF LocksExclusive
<1>3. ASSUME UNCHANGED <<payments, stock>>, NEW r \in Requests PROVE RequestInv(r)'
  BY <1>1, <1>3, RequestStable
<1>4. ASSUME NEW k \in Refs, NEW t \in Types, NEW e \in Entities, InitPayment(k, t, e),
             NEW r \in Requests
      PROVE  RequestInv(r)'
  <2>1. UNCHANGED stock
    BY <1>4 DEF InitPayment
  <2>2. CASE pc[r] \in Stages
    <3>1. hook[r] \in Hooks /\ Payment(r) \in PaymentRow
      BY <2>2 DEF RequestInv, StageOf
    <3>2. payments'[hook[r].ref] = payments[hook[r].ref]
      BY <1>4, <3>1, NothingAssumption DEF TypeOK, InitPayment, Payment, Hooks
    <3>3. /\ Payment(r)' = Payment(r) /\ Entity(r)' = Entity(r) /\ PaysOrder(r)' = PaysOrder(r)
          /\ Lines(Entity(r))' = Lines(Entity(r))
          /\ \A p : View(r, p)' = View(r, p)
      BY <1>1, <2>1, <3>2 DEF Payment, Entity, PaysOrder, Lines, View
    <3>4. LocksByStage(r)' /\ DraftsLocked(r)'
      BY <1>1, <3>3 DEF RequestInv, LocksByStage, DraftsLocked, Nothing
    <3>5. StageOf(r)'
      BY <1>1, <3>3 DEF RequestInv, StageOf, Lines
    <3>6. DraftsExact(r)'
      BY <1>1, <2>1, <3>3 DEF RequestInv, DraftsExact, Lines
    <3>7. QED
      BY <3>4, <3>5, <3>6 DEF RequestInv
  <2>3. CASE pc[r] \notin Stages
    BY <1>1, <2>3
    DEF RequestInv, LocksByStage, StageOf, DraftsLocked, DraftsExact, Stages, Nothing
  <2>4. QED
    BY <2>2, <2>3
<1>5. ASSUME NEW p \in Products, NEW n \in StockLevels, AdminUpdateProduct(p, n),
             NEW r \in Requests
      PROVE  RequestInv(r)'
  <2>1. draft[r][p] = Unwritten
    BY <1>5 DEF AdminUpdateProduct, Unlocked, RequestInv, DraftsLocked
  <2>2. \A x \in Products \ {p} : stock'[x] = stock[x]
    BY <1>5 DEF TypeOK, AdminUpdateProduct
  <2>3. pc[r] = "update" => ProductOf[cur[r]] \in Products \ {p}
    BY <1>5, LineType DEF AdminUpdateProduct, Unlocked, RequestInv, LocksByStage
  <2>4. DraftsExact(r)'
    <3>1. /\ Payment(r)' = Payment(r) /\ Entity(r)' = Entity(r) /\ PaysOrder(r)' = PaysOrder(r)
          /\ Lines(Entity(r))' = Lines(Entity(r))
      BY <1>1, <1>5 DEF AdminUpdateProduct, Payment, Entity, PaysOrder, Lines
    <3>2. pc[r] = "update" =>
            View(r, ProductOf[cur[r]])' = View(r, ProductOf[cur[r]])
      BY <1>1, <2>2, <2>3 DEF View
    <3>3. \A x \in Products : draft[r][x] # Unwritten => stock'[x] = stock[x]
      BY <2>1, <2>2
    <3> QED BY <1>1, <3>1, <3>2, <3>3 DEF RequestInv, DraftsExact, Lines
  <2>5. QED
    BY <1>1, <1>5, <2>4
    DEF AdminUpdateProduct, RequestInv, LocksByStage, StageOf, DraftsLocked, Payment,
        Entity, PaysOrder, Lines, Nothing
<1>6. QED
  <2>1. ASSUME NEW o \in Orders, NEW s \in OrderStatuses, AdminUpdateOrder(o, s)
        PROVE  TxInv'
    BY <1>2, <1>3, <2>1 DEF AdminUpdateOrder
  <2>2. ASSUME NEW s \in Subs, NEW a \in SubActions, UpdateSubStatus(s, a)
        PROVE  TxInv'
    BY <1>2, <1>3, <2>2 DEF UpdateSubStatus
  <2>3. QED
    BY <1>2, <1>4, <1>5, <2>1, <2>2 DEF Others

\* The commit of one request leaves the others what they rely on: the rows of
\* their drafts are not written, their payment keeps its type and entity.
LEMMA CommitStep ==
  ASSUME IInv, NEW r \in Requests, Commit(r)
  PROVE  TxInv'
<1> USE DEF IInv, TxInv
<1>1. End(r, "done") /\ pc[r] = "commit"
  BY DEF Commit, Finish
<1>2. hook[r] \in Hooks /\ Payment(r) \in PaymentRow
  BY <1>1 DEF RequestInv, StageOf, Stages
<1>3. ASSUME NEW q \in Requests \ {r} PROVE RequestInv(q)'
  <2>1. /\ pc'[q] = pc[q] /\ hook'[q] = hook[q] /\ todo'[q] = todo[q]
        /\ cur'[q] = cur[q] /\ seen'[q] = seen[q] /\ draft'[q] = draft[q]
        /\ locks'[q] = locks[q]
    BY <1>1, FinishStep
  <2>2. ASSUME NEW p \in locks[q] \cap Products PROVE stock'[p] = stock[p]
    <3>1. draft[r][p] = Unwritten
      BY <2>2 DEF RequestInv, DraftsLocked, LocksExclusive
    <3>2. QED
      BY <3>1 DEF Commit, View
  <2>3. ASSUME pc[q] \in Stages
        PROVE  /\ hook[q] \in Hooks
               /\ Payment(q) \in PaymentRow
               /\ payments'[hook[q].ref] \in PaymentRow
               /\ payments'[hook[q].ref].type = Payment(q).type
               /\ payments'[hook[q].ref].entity = Payment(q).entity
    <3>1. hook[q] \in Hooks /\ Payment(q) \in PaymentRow
      BY <2>3 DEF RequestInv, StageOf
    <3>2. payments' = [payments EXCEPT ![hook[r].ref].status = hook[r].status]
      BY DEF Commit
    <3>3. CASE hook[q].ref = hook[r].ref
      BY <1>2, <3>1, <3>2, <3>3 DEF TypeOK, Payment, PaymentRow, Hooks
    <3>4. CASE hook[q].ref # hook[r].ref
      BY <1>2, <3>1, <3>2, <3>4 DEF TypeOK, Payment, Hooks
    <3>5. QED
      BY <3>1, <3>3, <3>4
  <2>4. ASSUME pc[q] \in Stages
        PROVE  Lines(Entity(q))' = Lines(Entity(q)) /\ PaysOrder(q)' = PaysOrder(q)
    BY <2>1, <2>3, <2>4 DEF Lines, Entity, PaysOrder, Payment
  <2>5. StageOf(q)'
    BY <2>1, <2>3, <2>4 DEF RequestInv, StageOf, Payment, Stages
  <2>6. LocksByStage(q)' /\ DraftsLocked(q)'
    BY <2>1, <2>4 DEF RequestInv, LocksByStage, DraftsLocked, Nothing, Stages
  <2>7. DraftsExact(q)'
    <3>1. \A p \in Products : draft[q][p] # Unwritten => stock'[p] = stock[p]
      BY <2>2 DEF RequestInv, DraftsLocked
    <3>2. pc[q] = "update" => View(q, ProductOf[cur[q]])' = View(q, ProductOf[cur[q]])
      BY <2>1, <2>2, LineType DEF RequestInv, LocksByStage, View
    <3>3. QED
      BY <2>1, <2>4, <3>1, <3>2 DEF RequestInv, DraftsExact, Stages
  <2>8. QED
    BY <2>5, <2>6, <2>7 DEF RequestInv
<1>4. QED
  BY <1>1, <1>3, FinishStep

\* What is left of an order shrinks by the line that is done.
LEMMA LineDone ==
  ASSUME NEW S \in SUBSET Items, NEW i \in S, NEW p \in Products
  PROVE  /\ Units[S][p] \in Nat /\ Units[S \ {i}][p] \in Nat /\ Units[{}][p] = 0
         /\ Units[S][p] = Units[S \ {i}][p] + (IF ProductOf[i] = p THEN Quantity[i] ELSE 0)
BY UnitsAssumption

LEMMA SelectStep ==
  ASSUME IInv, NEW r \in Requests, SelectForUpdate(r)
  PROVE  TxInv'
<1> USE DEF IInv, TxInv
<1> DEFINE p == ProductOf[cur[r]]
<1>1. /\ cur[r] \in Items /\ p \in Products /\ Quantity[cur[r]] \in Nat
      /\ View(r, p) \in Int
  BY LineType DEF SelectForUpdate
<1>2. /\ LocksExclusive'
      /\ locks'[r] = locks[r] \cup {p}
      /\ \A q \in Requests \ {r} : locks'[q] = locks[q]
  BY <1>1, LockStep DEF SelectForUpdate, Rows
<1>3. /\ UNCHANGED <<payments, stock, hook, todo, cur, draft>>
      /\ seen'[r] = View(r, p)
      /\ pc'[r] = IF View(r, p) - Quantity[cur[r]] < 0 THEN "abandoned" ELSE "update"
      /\ pc[r] = "select"
  BY DEF SelectForUpdate, TypeOK, tables
<1>4. StageOf(r)' /\ LocksByStage(r)'
  BY <1>2, <1>3 DEF RequestInv, StageOf, LocksByStage, Payment, PaysOrder, Entity, Lines, Stages
<1>5. DraftsLocked(r)'
  BY <1>2, <1>3 DEF RequestInv, DraftsLocked
<1>6. DraftsExact(r)'
  <2>1. /\ PaysOrder(r)' = PaysOrder(r) /\ Lines(Entity(r))' = Lines(Entity(r))
        /\ View(r, p)' = View(r, p)
    BY <1>3 DEF Payment, PaysOrder, Entity, Lines, View
  <2>2. DraftsExact(r)
    BY DEF RequestInv
  <2>3. pc'[r] = "update" => seen'[r] = View(r, p)' /\ seen'[r] - Quantity[cur'[r]] >= 0
    BY <1>1, <1>3, <2>1
  <2>4. pc'[r] \in {"abandoned", "update"}
    BY <1>3
  <2> HIDE DEF IInv, TxInv
  <2>5. PaysOrder(r)' /\ pc'[r] \in {"select", "update", "commit"} => PaysOrder(r) /\ pc[r] = "select"
    BY <1>3, <2>1
  <2> QED BY <1>3, <2>1, <2>2, <2>3, <2>4, <2>5 DEF DraftsExact
<1>7. QED
  BY <1>2, <1>4, <1>5, <1>6, LocalStep DEF RequestInv, SelectForUpdate, TypeOK, tables

LEMMA UpdateStockStep ==
  ASSUME IInv, NEW r \in Requests, UpdateStock(r)
  PROVE  TxInv'
<1> USE DEF IInv, TxInv
<1> DEFINE p == ProductOf[cur[r]]
           n == seen[r] - Quantity[cur[r]]
<1>1. /\ cur[r] \in Items /\ p \in Products /\ Quantity[cur[r]] \in Nat
      /\ View(r, p) \in Int /\ seen[r] \in Int
  BY LineType DEF UpdateStock
<1>2. /\ LocksExclusive'
      /\ locks'[r] = locks[r] \cup {p}
      /\ \A q \in Requests \ {r} : locks'[q] = locks[q]
  BY <1>1, LockStep DEF UpdateStock, Rows
<1>3. /\ UNCHANGED <<payments, stock, hook, seen>>
      /\ pc[r] = "update"
      /\ todo'[r] = todo[r] \ {cur[r]}
      /\ draft'[r] = [draft[r] EXCEPT ![p] = n]
      /\ \/ todo'[r] = {} /\ pc'[r] = "commit"
         \/ cur'[r] \in todo'[r] /\ pc'[r] = "select"
  BY DEF UpdateStock, Continue, TypeOK, tables
<1>4. /\ cur[r] \in todo[r] /\ todo[r] \subseteq Lines(Entity(r)) /\ PaysOrder(r)
      /\ hook[r] \in Hooks /\ Payment(r) \in PaymentRow
  BY <1>3 DEF RequestInv, StageOf, Stages
<1>5. /\ seen[r] = View(r, p) /\ n >= 0
      /\ \A x \in Products :
           LET left == Units[Lines(Entity(r))][x] - Units[todo[r]][x]
           IN  IF draft[r][x] = Unwritten THEN left = 0 ELSE draft[r][x] = stock[x] - left
  BY <1>3, <1>4 DEF RequestInv, DraftsExact
<1>6. Payment(r)' = Payment(r) /\ PaysOrder(r)' /\ Lines(Entity(r))' = Lines(Entity(r))
  BY <1>3, <1>4 DEF Payment, PaysOrder, Entity, Lines
<1>7. StageOf(r)' /\ LocksByStage(r)'
  BY <1>3, <1>4, <1>6 DEF StageOf, LocksByStage, Stages
<1>8. DraftsLocked(r)'
  BY <1>1, <1>2, <1>3, <1>5, <1>6 DEF RequestInv, DraftsLocked, TypeOK
<1>9. ASSUME NEW x \in Products
      PROVE  LET left == Units[Lines(Entity(r))][x] - Units[todo'[r]][x]
             IN  IF draft'[r][x] = Unwritten THEN left = 0 ELSE draft'[r][x] = stock[x] - left
  <2>1. /\ Units[todo[r]][x] \in Nat /\ Units[todo'[r]][x] \in Nat
        /\ Units[todo[r]][x] = Units[todo'[r]][x] + (IF p = x THEN Quantity[cur[r]] ELSE 0)
        /\ Units[Lines(Entity(r))][x] \in Nat
    <3>1. todo[r] \in SUBSET Items /\ Lines(Entity(r)) \in SUBSET Items
      BY DEF TypeOK, Lines
    <3>2. Units[Lines(Entity(r))][x] \in Nat
      BY <3>1, UnitsAssumption
    <3>3. /\ Units[todo[r]][x] \in Nat /\ Units[todo[r] \ {cur[r]}][x] \in Nat
          /\ Units[todo[r]][x] = Units[todo[r] \ {cur[r]}][x]
                                + (IF p = x THEN Quantity[cur[r]] ELSE 0)
      <4> HIDE DEF IInv, TxInv
      <4>1. cur[r] \in todo[r]
        BY <1>4
      <4> QED BY <3>1, <4>1, LineDone
    <3>4. todo'[r] = todo[r] \ {cur[r]}
      BY <1>3
    <3>5. QED
      BY <3>2, <3>3, <3>4
  <2>2. CASE x = p
    <3>1. draft'[r][x] = n /\ n \in Int /\ n # Unwritten
      BY <1>1, <1>3, <2>2, NothingAssumption DEF TypeOK
    <3>2. View(r, p) = stock[p] - (Units[Lines(Entity(r))][p] - Units[todo[r]][p])
      BY <1>1, <1>5, <2>1, <2>2 DEF View, TypeOK
    <3>3. QED
      BY <1>1, <1>5, <2>1, <2>2, <3>1, <3>2 DEF TypeOK
  <2>3. CASE x # p
    BY <1>1, <1>3, <1>5, <2>1, <2>3 DEF TypeOK
  <2>4. QED
    BY <2>2, <2>3
<1>10. DraftsExact(r)'
  BY <1>3, <1>6, <1>9 DEF DraftsExact
<1>11. QED
  BY <1>2, <1>7, <1>8, <1>10, LocalStep DEF RequestInv, UpdateStock, Continue, TypeOK, tables

LEMMA RequestStep ==
  ASSUME IInv, NEW r \in Requests, Request(r)
  PROVE  TxInv'
<1> USE DEF IInv, TxInv
<1>1. ASSUME NEW k \in Refs, NEW s \in Statuses, HandleWebhook(r, k, s)
      PROVE  TxInv'
  <2>1. LocksExclusive'
    BY <1>1 DEF HandleWebhook, LocksExclusive
  <2>2. /\ hook'[r] = [ref |-> k, status |-> s] /\ locks'[r] = {} /\ draft'[r] = Nothing
        /\ pc'[r] = IF Acknowledged(k, s) THEN "done" ELSE "begin"
        /\ todo'[r] = {}
    BY <1>1 DEF HandleWebhook, TypeOK, RequestInv, LocksByStage, StageOf, DraftsLocked
  <2>3. pc'[r] = "begin" => Payment(r)' \in PaymentRow
    BY <1>1, <2>2 DEF HandleWebhook, Acknowledged, Payment, TypeOK, tables
  <2>4. RequestInv(r)'
    BY <2>2, <2>3
    DEF RequestInv, LocksByStage, StageOf, DraftsLocked, DraftsExact, Hooks, Stages, Nothing
  <2>5. QED
    BY <1>1, <2>1, <2>4, LocalStep DEF HandleWebhook, TypeOK, tables
<1>2. ASSUME Begin(r) PROVE TxInv'
  <2>1. LocksExclusive'
    BY <1>2 DEF Begin, LocksExclusive
  <2>2. RequestInv(r)'
    BY <1>2 DEF Begin, TypeOK, tables, RequestInv, LocksByStage, StageOf, DraftsLocked,
                DraftsExact, Payment, PaysOrder, Entity, Stages, Nothing
  <2>3. QED
    BY <1>2, <2>1, <2>2, LocalStep DEF Begin, TypeOK, tables
<1>3. ASSUME UpdatePayment(r) PROVE TxInv'
  <2>1. hook[r] \in Hooks /\ Payment(r) \in PaymentRow /\ hook[r].ref \in Rows
    BY <1>3 DEF UpdatePayment, RequestInv, StageOf, Stages, Hooks, Rows
  <2>2. /\ LocksExclusive'
        /\ locks'[r] = locks[r] \cup {hook[r].ref}
        /\ \A q \in Requests \ {r} : locks'[q] = locks[q]
    BY <1>3, <2>1, LockStep DEF UpdatePayment
  <2>3. /\ UNCHANGED <<payments, stock, hook, todo, cur, seen, draft>>
        /\ pc[r] = "payment"
        /\ pc'[r] = IF PaysOrder(r) \/ PaysSub(r) THEN "entity" ELSE "commit"
        /\ locks[r] = {} /\ draft[r] = Nothing
    BY <1>3 DEF UpdatePayment, TypeOK, tables, RequestInv, LocksByStage, DraftsLocked
  <2>4. pc'[r] = "commit" => ~PaysOrder(r)' /\ todo[r] = {}
    BY <2>3 DEF PaysOrder, Payment, RequestInv, StageOf
  <2>5. RequestInv(r)'
    BY <2>1, <2>2, <2>3, <2>4
    DEF RequestInv, LocksByStage, StageOf, DraftsLocked, DraftsExact, Payment, Stages, Nothing
  <2>6. QED
    BY <1>3, <2>2, <2>5, LocalStep DEF UpdatePayment, TypeOK, tables
<1>4. ASSUME UpdateEntity(r) PROVE TxInv'
  <2>1. EntityRows(r) \in SUBSET Rows
    BY DEF EntityRows, Rows
  <2>2. /\ LocksExclusive'
        /\ \A q \in Requests \ {r} : locks'[q] = locks[q]
    BY <1>4, <2>1, LockStep DEF UpdateEntity
  <2>3. /\ UNCHANGED <<payments, stock, hook, todo, cur, seen, draft>>
        /\ pc[r] = "entity"
        /\ pc'[r] = IF PaysOrder(r) THEN "items" ELSE "commit"
        /\ draft[r] = Nothing
        /\ hook[r] \in Hooks /\ Payment(r) \in PaymentRow
    BY <1>4 DEF UpdateEntity, TypeOK, tables, RequestInv, StageOf, DraftsLocked, Stages
  <2>4. PaysOrder(r)' = PaysOrder(r)
    BY <2>3 DEF PaysOrder, Payment
  <2>5. pc'[r] = "commit" => todo[r] = {}
    BY <2>3 DEF RequestInv, StageOf
  <2>6. RequestInv(r)'
    BY <2>3, <2>4, <2>5
    DEF RequestInv, LocksByStage, StageOf, DraftsLocked, DraftsExact, Payment, Stages, Nothing
  <2>7. QED
    BY <1>4, <2>2, <2>6, LocalStep DEF UpdateEntity, TypeOK, tables
<1>5. ASSUME ReadItems(r) PROVE TxInv'
  <2>1. LocksExclusive'
    BY <1>5 DEF ReadItems, LocksExclusive
  <2>2. /\ UNCHANGED <<payments, stock, hook, seen, draft, locks>>
        /\ todo'[r] = Lines(Entity(r))
        /\ \/ todo'[r] = {} /\ pc'[r] = "commit"
           \/ cur'[r] \in todo'[r] /\ pc'[r] = "select"
        /\ draft[r] = Nothing /\ PaysOrder(r)
        /\ hook[r] \in Hooks /\ Payment(r) \in PaymentRow
    BY <1>5 DEF ReadItems, Continue, TypeOK, tables, RequestInv, StageOf, DraftsLocked, Stages
  <2>3. Payment(r)' = Payment(r) /\ PaysOrder(r)' /\ Lines(Entity(r))' = Lines(Entity(r))
    BY <2>2 DEF Payment, PaysOrder, Entity, Lines
  <2>4. \A p \in Products : Units[Lines(Entity(r))][p] \in Nat
    BY UnitsAssumption DEF Lines
  <2>5. DraftsExact(r)'
    BY <2>2, <2>3, <2>4 DEF DraftsExact, Nothing
  <2>6. StageOf(r)' /\ LocksByStage(r)' /\ DraftsLocked(r)'
    BY <2>2, <2>3 DEF StageOf, LocksByStage, DraftsLocked, Stages, Nothing
  <2>7. QED
    BY <1>5, <2>1, <2>5, <2>6, LocalStep DEF RequestInv, ReadItems, Continue, TypeOK, tables
<1>6. ASSUME ItemsFail(r) PROVE TxInv'
  <2>1. LocksExclusive'
    BY <1>6 DEF ItemsFail, LocksExclusive
  <2>2. RequestInv(r)'
    BY <1>6 DEF ItemsFail, TypeOK, tables, RequestInv, LocksByStage, StageOf, DraftsLocked,
                DraftsExact, Stages, Nothing
  <2>3. QED
    BY <1>6, <2>1, <2>2, LocalStep DEF ItemsFail, TypeOK, tables
<1>7. ASSUME Interrupt(r) \/ StatementFails(r) \/ ReapAbandoned(r) \/ DeadlockVictim(r)
      PROVE  TxInv'
  BY <1>7, FinishStep, LocalStep
  DEF Interrupt, StatementFails, ReapAbandoned, DeadlockVictim, Shadowed, End, Finish, tables
<1>8. QED
  BY <1>1, <1>2, <1>3, <1>4, <1>5, <1>6, <1>7, CommitStep, SelectStep, UpdateStockStep
  DEF Request, Receive, Statement

THEOREM StepKeeps == IInv /\ [Next]_vars => IInv'
<1>1. ASSUME IInv, UNCHANGED vars PROVE TxInv'
  BY <1>1, RequestStable DEF IInv, TxInv, vars, LocksExclusive
<1>2. QED
  BY <1>1, TypeStep, OthersStep, RequestStep DEF IInv, Next

-----------------------------------------------------------------------------
\* The inductive invariant holds in every reachable state: the tables stay
\* well typed, and what a settlement has drafted is the committed stock less
\* the lines it has gone through, whatever interleaves (payments.go:71-121).
THEOREM Invariance == Spec => [](TypeOK /\ TxInv)
<1>1. QED
  BY Initially, StepKeeps, PTL DEF Spec, IInv

\* Tables and webhooks stay well typed.
THEOREM WellTyped == Spec => []TypeOK
<1>1. QED
  BY Invariance, PTL

-----------------------------------------------------------------------------
\* No settlement takes a product below zero, whatever is written meanwhile:
\* the check of payments.go:102-105 holds of the stock that is committed.
THEOREM NoOverselling == Spec => NeverOversold
<1>1. ASSUME IInv, [Next]_vars, settled' # settled, NEW p \in Products
      PROVE  stock'[p] = stock[p] \/ stock'[p] >= 0
  <2>1. PICK r \in Requests : Commit(r)
    BY <1>1 DEF Next, Others, Request, Receive, Statement, InitPayment, AdminUpdateOrder,
       AdminUpdateProduct, UpdateSubStatus, HandleWebhook, Begin, UpdatePayment, UpdateEntity,
       ReadItems, SelectForUpdate, UpdateStock, Interrupt, StatementFails, ItemsFail, ReapAbandoned,
       DeadlockVictim, vars
  <2>2. stock'[p] = View(r, p)
    BY <2>1 DEF Commit
  <2>3. QED
    BY <1>1, <2>2 DEF IInv, TxInv, RequestInv, DraftsLocked, View
<1>2. IInv /\ [Next]_vars => [settled' # settled =>
        \A p \in Products : stock'[p] = stock[p] \/ stock'[p] >= 0]_vars
  BY <1>1 DEF vars
<1>3. QED
  BY <1>2, Initially, StepKeeps, PTL DEF Spec, NeverOversold

-----------------------------------------------------------------------------
\* Deadlocks.  A request that waits at the payment holds nothing; the lock on a
\* payment is wanted only there; an UPDATE of the stock has its row locked.

LEMMA DeadlockShapeHolds == IInv => DeadlockShape
<1> SUFFICES ASSUME IInv, NEW C \in SUBSET Requests, DeadlockSet(C)
             PROVE  /\ \A r \in C : pc[r] = "select"
                    /\ \E r, q \in C : ProductOf[cur[r]] # ProductOf[cur[q]]
  BY DEF DeadlockShape
<1> USE DEF IInv, TxInv
<1>1. ASSUME NEW r \in C
      PROVE  /\ Wanted(r) # {} /\ locks[r] # {}
             /\ pc[r] \in {"entity", "select", "update"}
  <2>1. Wanted(r) # {} /\ locks[r] # {}
    BY DEF DeadlockSet, WaitsFor
  <2>2. pc[r] # "payment"
    BY <2>1 DEF RequestInv, LocksByStage
  <2>3. QED
    BY <2>1, <2>2 DEF Wanted
<1>2. ASSUME NEW r \in C
      PROVE  pc[r] # "update"
  <2>1. ASSUME pc[r] = "update" PROVE FALSE
    <3>1. Wanted(r) = {ProductOf[cur[r]]} /\ ProductOf[cur[r]] \in locks[r]
      BY <2>1 DEF Wanted, RequestInv, LocksByStage
    <3>2. PICK q \in C : q \in Requests \ {r} /\ Wanted(r) \cap locks[q] # {}
      BY DEF DeadlockSet, WaitsFor, Rivals
    <3>3. QED
      BY <3>1, <3>2 DEF LocksExclusive
  <2>2. QED
    BY <2>1
<1>3. ASSUME NEW r \in C
      PROVE  pc[r] # "entity"
  <2>1. ASSUME pc[r] = "entity" PROVE FALSE
    <3>1. locks[r] = {hook[r].ref} /\ hook[r].ref \in Refs
      BY <2>1 DEF RequestInv, LocksByStage, StageOf, Stages, Hooks
    <3>2. PICK q \in C : hook[r].ref \in Wanted(q)
      BY <3>1 DEF DeadlockSet, WaitsFor
    <3>3. pc[q] \in {"select", "update"} => Wanted(q) \subseteq Products
      BY LineType DEF Wanted
    <3>4. pc[q] = "entity" => Wanted(q) \subseteq Orders \cup Subs
      BY DEF Wanted, EntityRows
    <3>5. QED
      BY <1>1, <3>1, <3>2, <3>3, <3>4, TablesDisjoint
  <2>2. QED
    BY <2>1
<1>4. \A r \in C : pc[r] = "select"
  BY <1>1, <1>2, <1>3
<1>5. ASSUME NEW r \in C
      PROVE  \E q \in C : q \in Requests \ {r} /\ ProductOf[cur[r]] \in locks[q]
  <2>1. Wanted(r) = {ProductOf[cur[r]]}
    BY <1>4 DEF Wanted
  <2>2. QED
    BY <2>1 DEF DeadlockSet, WaitsFor, Rivals
<1>6. PICK r \in C, q \in C : q \in Requests \ {r} /\ ProductOf[cur[r]] \in locks[q]
  BY <1>5 DEF DeadlockSet
<1>7. PICK x \in C : x \in Requests \ {q} /\ ProductOf[cur[q]] \in locks[x]
  BY <1>5
<1>8. ProductOf[cur[r]] # ProductOf[cur[q]]
  BY <1>6, <1>7 DEF LocksExclusive
<1>9. QED
  BY <1>4, <1>8

\* Every cycle of waiting transactions is a cycle of SELECT ... FOR UPDATEs
\* over two products or more (payments.go:99): taking the products in one order
\* would rule deadlocks out.
THEOREM DeadlocksOverProducts == Spec => []DeadlockShape
BY Initially, StepKeeps, DeadlockShapeHolds, PTL DEF Spec

-----------------------------------------------------------------------------
\* Standstill.  A request that waits for a row waits for a transaction, and
\* transactions are finitely many, since each has a connection of the pool.

Open == {q \in Requests : pc[q] \in InTx}

\* A transaction is opened by BEGIN alone.
LEMMA FinitelyOpen == TypeOK /\ IsFiniteSet(Open) /\ [Next]_vars => IsFiniteSet(Open)'
<1> SUFFICES ASSUME TypeOK, IsFiniteSet(Open), [Next]_vars PROVE IsFiniteSet(Open')
  BY DEF Open
<1>1. CASE UNCHANGED vars \/ Others
  BY <1>1 DEF Open, vars, Others, InitPayment, AdminUpdateOrder, AdminUpdateProduct,
              UpdateSubStatus, local
<1>2. ASSUME NEW r \in Requests, Request(r) PROVE IsFiniteSet(Open')
  <2>1. \A q \in Requests \ {r} : pc'[q] = pc[q]
    BY <1>2 DEF TypeOK, Request, Receive, Statement, HandleWebhook, Begin, UpdatePayment,
                UpdateEntity, ReadItems, SelectForUpdate, UpdateStock, Continue, Commit, Interrupt,
                StatementFails, ItemsFail, ReapAbandoned, DeadlockVictim, Shadowed, End, Finish
  <2>2. Open' \subseteq Open \cup {r}
    BY <2>1 DEF Open
  <2>3. IsFiniteSet(Open \cup {r})
    BY FS_AddElement
  <2> QED BY <2>2, <2>3, FS_Subset
<1> QED BY <1>1, <1>2 DEF Next

\* Where everybody waits for somebody of the same finitely many, some of them
\* wait for each other in a cycle: take the least set that waits for itself;
\* everybody in it is waited for, or it would not be the least.
LEMMA WaitersDeadlock ==
  ASSUME NEW S \in SUBSET Requests, IsFiniteSet(S), S # {},
         \A r \in S : \E q \in S : WaitsFor(r, q)
  PROVE  \E r \in S : Deadlocked(r)
<1> DEFINE Waiting == {C \in SUBSET S : C # {} /\ \A r \in C : \E q \in C : WaitsFor(r, q)}
<1>1. /\ IsWellFoundedOn(StrictSubsetOrdering(S), FiniteSubsetsOf(S))
      /\ FiniteSubsetsOf(S) = SUBSET S
  BY FS_StrictSubsetOrderingWellFounded, FS_FiniteSubsetsOfFinite
<1>2. PICK C \in Waiting : \A D \in Waiting : <<D, C>> \notin StrictSubsetOrdering(S)
  <2>1. S \in Waiting /\ Waiting \subseteq SUBSET S
    OBVIOUS
  <2> HIDE DEF Waiting
  <2>2. Waiting \subseteq FiniteSubsetsOf(S) /\ Waiting # {}
    BY <1>1, <2>1
  <2> QED BY <1>1, <2>2, WFMin
<1>3. C \in SUBSET S /\ C # {} /\ \A r \in C : \E q \in C : WaitsFor(r, q)
  OBVIOUS
<1>4. ASSUME NEW x \in C PROVE \E q \in C : WaitsFor(q, x)
  <2> SUFFICES ASSUME \A q \in C : ~WaitsFor(q, x) PROVE FALSE
    OBVIOUS
  <2> DEFINE D == C \ {x}
  <2>1. D \in SUBSET S /\ D # {}
    BY <1>3 DEF WaitsFor, Rivals
  <2>2. \A r \in D : \E q \in D : WaitsFor(r, q)
    BY <1>3
  <2>3. <<D, C>> \in StrictSubsetOrdering(S)
    BY <1>3 DEF StrictSubsetOrdering
  <2> QED BY <1>2, <2>1, <2>2, <2>3
<1>5. DeadlockSet(C)
  BY <1>3, <1>4 DEF DeadlockSet
<1>6. C \in SUBSET Requests
  BY <1>3
<1> QED BY <1>3, <1>5, <1>6 DEF Deadlocked

\* Everybody who has a row locked, or waits for one, is in service.
LEMMA StuckOnPool == IInv /\ IsFiniteSet(Open) => StuckOnlyOnPool
<1> DEFINE serving == {r \in Requests : pc[r] \notin {"new", "done"}}
<1> SUFFICES ASSUME IInv, IsFiniteSet(Open), serving # {}, \A r \in serving : ~CanMove(r)
             PROVE  ~Available /\ \E r \in serving : pc[r] = "items"
  BY DEF StuckOnlyOnPool
<1> USE DEF IInv, TxInv
<1>1. ASSUME NEW r \in serving
      PROVE  /\ pc[r] \in {"begin", "items"} => ~Available
             /\ pc[r] \notin {"commit", "abandoned"}
             /\ pc[r] \notin {"begin", "items"} =>
                  ~Deadlocked(r) /\ \E q \in Requests : WaitsFor(r, q)
  <2>1. pc[r] \in Stages \cup {"abandoned"} /\ ~CanMove(r)
    BY DEF TypeOK
  <2>2. pc[r] \notin {"begin", "items", "commit", "abandoned"} =>
          ~Deadlocked(r) /\ \E q \in Requests : WaitsFor(r, q)
    <3> SUFFICES ASSUME pc[r] \notin {"begin", "items", "commit", "abandoned"}
                 PROVE  ~Deadlocked(r) /\ \E q \in Requests : WaitsFor(r, q)
      OBVIOUS
    <3>1. ~(Deadlocked(r) \/ \A row \in Wanted(r) : Free(r, row))
      BY <2>1 DEF CanMove
    <3> QED BY <3>1 DEF Free, WaitsFor, Rivals
  <2> QED BY <2>1, <2>2 DEF CanMove
<1>2. SUFFICES ASSUME \A r \in serving : pc[r] # "items" PROVE FALSE
  BY <1>1
<1> DEFINE H == {r \in Requests : pc[r] \in {"entity", "select", "update"}}
<1>3. ASSUME NEW r \in Requests, NEW q \in Requests, WaitsFor(r, q) PROVE q \in H
  <2>1. locks[q] # {}
    BY <1>3 DEF WaitsFor
  <2>2. pc[q] \in Stages \cup {"new", "abandoned", "done"}
    BY DEF TypeOK
  <2>3. pc[q] \notin {"new", "begin", "payment", "done"}
    BY <2>1 DEF RequestInv, LocksByStage
  <2> QED BY <2>2, <2>3, <1>1, <1>2 DEF Stages
<1>4. IsFiniteSet(H)
  <2>1. H \subseteq Open
    BY DEF Open, InTx, Stages
  <2> QED BY <2>1, FS_Subset
<1>5. H = {}
  <2> SUFFICES ASSUME H # {} PROVE FALSE
    OBVIOUS
  <2>1. \A r \in H : ~Deadlocked(r) /\ \E q \in H : WaitsFor(r, q)
    BY <1>1, <1>3
  <2>2. H \in SUBSET Requests
    OBVIOUS
  <2> HIDE DEF H
  <2> QED BY <2>1, <2>2, <1>4, WaitersDeadlock
<1>6. ASSUME NEW r \in serving PROVE pc[r] = "begin"
  <2>1. \A q \in Requests : ~WaitsFor(r, q)
    BY <1>3, <1>5
  <2> QED BY <2>1, <1>1, <1>2
<1>7. Open = {}
  BY <1>6 DEF Open, InTx, Stages
<1>8. Available
  BY <1>7, FS_EmptySet, PoolAssumption DEF Available, Open
<1> QED BY <1>1, <1>6, <1>8

\* When no webhook in service can move, every connection is held and a
\* transaction waits for the second one that Orders.Items takes
\* (payments.go:93): row locks alone never stop the service, however many
\* requests, orders and products there are.
THEOREM StuckOnPoolAlone == Spec => []StuckOnlyOnPool
<1>1. Init => IInv /\ IsFiniteSet(Open)
  <2>1. Init => Open = {}
    BY DEF Init, Open, InTx, Stages
  <2> QED BY <2>1, Initially, FS_EmptySet
<1>2. IInv /\ IsFiniteSet(Open) /\ [Next]_vars => (IInv /\ IsFiniteSet(Open))'
  BY StepKeeps, FinitelyOpen DEF IInv
<1> QED BY <1>1, <1>2, StuckOnPool, PTL DEF Spec

-----------------------------------------------------------------------------
\* Settling once.  Between the reading of a payment and the end of what was
\* decided on it, nobody else decides on the same payment.

Serving(k) == {r \in Requests : pc[r] \notin {"new", "done"} /\ hook[r].ref = k}

SettledOnce(k) ==
  /\ \A r, q \in Serving(k) : r = q
  /\ settled[k] <= 1
  /\ settled[k] > 0 => /\ payments[k] # NoPayment /\ payments[k].status = "PAID"
                       /\ Serving(k) = {}

HInv == orderly \subseteq Refs /\ \A k \in orderly : SettledOnce(k)

\* A step that settles nothing, and after which nobody serves a payment who
\* did not before.
LEMMA NobodyBegins ==
  ASSUME NEW k, SettledOnce(k), Serving(k)' \subseteq Serving(k), settled' = settled,
         payments[k] # NoPayment => payments'[k] = payments[k]
  PROVE  SettledOnce(k)'
BY DEF SettledOnce

\* Each action keeps payments whose notifications come in order settled once.
LEMMA HistoryKeeps == IInv /\ HInv /\ [HNext]_hvars => HInv'
<1> SUFFICES ASSUME IInv, HInv, [HNext]_hvars PROVE HInv'
  OBVIOUS
<1> USE DEF IInv, TxInv
<1>0. CASE UNCHANGED hvars
  <2>1. \A k : Serving(k)' = Serving(k)
    BY <1>0 DEF hvars, vars, Serving
  <2> QED BY <1>0, <2>1 DEF hvars, vars, HInv, SettledOnce
<1> SUFFICES ASSUME HNext, NEW k \in orderly' PROVE SettledOnce(k)'
  BY <1>0 DEF HInv, HNext
<1>a. k \in Refs /\ SettledOnce(k) /\ InOrder(k)
  BY DEF HNext, HInv
<1>1. CASE Others
  <2>1. UNCHANGED <<pc, hook, settled>>
    BY <1>1 DEF Others, InitPayment, AdminUpdateOrder, AdminUpdateProduct, UpdateSubStatus, local
  <2>2. payments[k] # NoPayment => payments'[k] = payments[k]
    BY <1>1, <1>a DEF Others, InitPayment, AdminUpdateOrder, AdminUpdateProduct, UpdateSubStatus,
                      TypeOK
  <2>3. Serving(k)' = Serving(k)
    BY <2>1 DEF Serving
  <2> QED BY <2>1, <2>2, <2>3, <1>a, NobodyBegins
<1>2. ASSUME NEW r \in Requests, NEW j \in Refs, NEW s \in Statuses, HandleWebhook(r, j, s)
      PROVE  SettledOnce(k)'
  <2>1. /\ pc[r] = "new" /\ UNCHANGED <<payments, settled>>
        /\ hook'[r] = [ref |-> j, status |-> s]
        /\ pc'[r] = IF Acknowledged(j, s) THEN "done" ELSE "begin"
        /\ \A q \in Requests \ {r} : pc'[q] = pc[q] /\ hook'[q] = hook[q]
    BY <1>2 DEF HandleWebhook, TypeOK, tables
  <2>2. CASE j # k \/ Acknowledged(j, s)
    <3>1. Serving(k)' \subseteq Serving(k)
      BY <2>1, <2>2 DEF Serving
    <3> QED BY <2>1, <3>1, <1>a, NobodyBegins
  <2>3. CASE j = k /\ ~Acknowledged(j, s)
    <3>1. /\ \A q \in Requests : hook[q].ref = k => pc[q] \in {"new", "done"}
          /\ payments[k] # NoPayment /\ payments[k].status = "PAID" => s = "PAID"
      BY <2>1, <2>3, <1>a DEF InOrder
    <3>2. ~(settled[k] > 0)
      BY <2>3, <3>1, <1>a DEF SettledOnce, Acknowledged
    <3>3. Serving(k)' \subseteq {r}
      BY <2>1, <3>1 DEF Serving
    <3> QED BY <2>1, <3>2, <3>3, <1>a DEF SettledOnce
  <2> QED BY <2>2, <2>3
<1>3. ASSUME NEW r \in Requests, Commit(r) PROVE SettledOnce(k)'
  <2>1. /\ hook[r] \in Hooks /\ Payment(r) \in PaymentRow
        /\ pc[r] = "commit" /\ pc' = [pc EXCEPT ![r] = "done"] /\ hook' = hook
        /\ payments' = [payments EXCEPT ![hook[r].ref].status = hook[r].status]
        /\ settled' = [settled EXCEPT ![hook[r].ref] = IF PaysOrder(r) THEN @ + 1 ELSE @]
    BY <1>3 DEF Commit, Finish, End, RequestInv, StageOf, Stages
  <2>2. Serving(k)' \subseteq Serving(k) \ {r}
    BY <2>1 DEF Serving, TypeOK
  <2>3. CASE hook[r].ref # k
    <3>1. settled'[k] = settled[k] /\ payments'[k] = payments[k]
      BY <2>1, <2>3, <1>a DEF TypeOK
    <3> QED BY <3>1, <2>2, <1>a DEF SettledOnce
  <2>4. CASE hook[r].ref = k
    <3>1. r \in Serving(k)
      BY <2>1, <2>4 DEF Serving
    <3>2. Serving(k)' = {} /\ settled[k] = 0
      BY <2>2, <3>1, <1>a DEF SettledOnce, TypeOK
    <3>3. settled'[k] = IF PaysOrder(r) THEN 1 ELSE 0
      BY <2>1, <2>4, <3>2, <1>a DEF TypeOK
    <3>4. PaysOrder(r) => payments'[k] # NoPayment /\ payments'[k].status = "PAID"
      <4>1. payments'[k] = [Payment(r) EXCEPT !.status = hook[r].status]
        BY <2>1, <2>4, <1>a DEF TypeOK, Payment
      <4>2. payments'[k] \in PaymentRow /\ payments'[k].status = hook[r].status
        BY <4>1, <2>1 DEF PaymentRow, Hooks
      <4> QED BY <4>2, NothingAssumption DEF PaysOrder
    <3> QED BY <3>2, <3>3, <3>4 DEF SettledOnce
  <2> QED BY <2>3, <2>4
<1>4. ASSUME NEW r \in Requests, Request(r), ~Receive(r), ~Commit(r) PROVE SettledOnce(k)'
  <2>1. /\ UNCHANGED <<payments, settled, hook>>
        /\ \A q \in Requests \ {r} : pc'[q] = pc[q]
    BY <1>4 DEF TypeOK, Request, Statement, Begin, UpdatePayment, UpdateEntity, ReadItems,
                SelectForUpdate, UpdateStock, Continue, Interrupt, StatementFails, ItemsFail, ReapAbandoned,
                DeadlockVictim, Shadowed, End, Finish, tables
  <2>2. pc[r] \in {"new", "done"} => pc'[r] \in {"new", "done"}
    BY <1>4 DEF TypeOK, Request, Statement, Begin, UpdatePayment, UpdateEntity, ReadItems,
                SelectForUpdate, UpdateStock, Interrupt, StatementFails, ItemsFail, ReapAbandoned,
                DeadlockVictim, Shadowed, End, Finish, Stages
  <2>3. Serving(k)' \subseteq Serving(k)
    BY <2>1, <2>2 DEF Serving
  <2> QED BY <2>1, <2>3, <1>a, NobodyBegins
<1> QED
  BY <1>1, <1>2, <1>3, <1>4 DEF HNext, Next, Request, Receive

\* A payment whose notifications come in order is settled at most once, however
\* many come, fail and are sent again, and whatever other payments do
\* (payments.go:60-65).
THEOREM SettledOnceInOrder == HSpec => []OnceInOrder
<1>1. HInit => IInv /\ HInv
  <2>1. HInit => HInv
    BY DEF HInit, Init, HInv, SettledOnce, Serving
  <2> QED BY <2>1, Initially DEF HInit
<1>2. IInv /\ HInv /\ [HNext]_hvars => (IInv /\ HInv)'
  <2>1. [HNext]_hvars => [Next]_vars
    BY DEF HNext, hvars
  <2> QED BY <2>1, StepKeeps, HistoryKeeps
<1>3. IInv /\ HInv => OnceInOrder
  BY DEF HInv, SettledOnce, OnceInOrder
<1> QED BY <1>1, <1>2, <1>3, PTL DEF HSpec

-----------------------------------------------------------------------------
\* Payments implements Settlement: a commit is one abstract step, and every
\* other step of a request changes none of the tables.

LEMMA CommitSettles ==
  ASSUME IInv, NEW r \in Requests, Commit(r)
  PROVE  \E k \in Refs :
           \/ \E s \in Statuses : Promise!Record(k, s)
           \/ Promise!SettleOrder(k)
           \/ Promise!SettleSub(k)
<1> USE DEF IInv, TxInv
<1> DEFINE k == hook[r].ref
           s == hook[r].status
<1>1. /\ k \in Refs /\ s \in Statuses /\ payments[k] \in PaymentRow
      /\ payments[k] # NoPayment /\ todo[r] = {} /\ pc[r] = "commit"
  BY NothingAssumption DEF Commit, RequestInv, StageOf, Stages, Hooks, Payment
<1>2. payments' = [payments EXCEPT ![k].status = s]
  BY DEF Commit
<1>3. CASE PaysOrder(r)
  <2>1. subs' = subs
    BY <1>3 DEF Commit, PaysOrder, PaysSub, TypeOK
  <2>2. ASSUME NEW p \in Products
        PROVE  /\ Units[Lines(Entity(r))][p] \in Nat /\ stock[p] \in Int
               /\ stock'[p] = stock[p] - Units[Lines(Entity(r))][p]
               /\ Units[Lines(Entity(r))][p] > 0 => stock[p] >= Units[Lines(Entity(r))][p]
    <3>1. Units[Lines(Entity(r))][p] \in Nat /\ Units[todo[r]][p] = 0
      BY <1>1, UnitsAssumption DEF Lines
    <3>2. stock'[p] = View(r, p)
      BY DEF Commit
    <3>3. LET left == Units[Lines(Entity(r))][p] - Units[todo[r]][p]
          IN  IF draft[r][p] = Unwritten THEN left = 0 ELSE draft[r][p] = stock[p] - left
      BY <1>1, <1>3 DEF RequestInv, DraftsExact
    <3>4. draft[r][p] # Unwritten => draft[r][p] >= 0
      BY DEF RequestInv, DraftsLocked
    <3>5. QED
      BY <3>1, <3>2, <3>3, <3>4 DEF View, TypeOK
  <2>3. CASE Entity(r) \in Orders
    <3>1. orders' = [orders EXCEPT ![Entity(r)] = "PAID"]
      BY <1>3, <2>3 DEF Commit, TypeOK
    <3>2. stock' = [p \in Products |-> stock[p] - Units[Lines(Entity(r))][p]]
      BY <2>2 DEF Commit
    <3>3. Promise!SettleOrder(k)
      BY <1>1, <1>2, <1>3, <2>1, <2>2, <2>3, <3>1, <3>2
      DEF Promise!SettleOrder, Promise!Lines, Lines, Entity, Payment, PaysOrder
    <3>4. QED
      BY <1>1, <3>3
  <2>4. CASE Entity(r) \notin Orders
    <3>1. orders' = orders
      BY <2>4 DEF Commit, TypeOK
    <3>2. Lines(Entity(r)) = {}
      BY <2>4, LinesAssumption DEF Lines
    <3>3. \A p \in Products : stock'[p] = stock[p]
      BY <2>2, <3>2, UnitsAssumption
    <3>4. stock' = stock
      BY <3>3 DEF Commit, TypeOK
    <3>5. Promise!Record(k, s)
      BY <1>1, <1>2, <1>3, <2>1, <2>4, <3>1, <3>4
      DEF Promise!Record, Promise!Owed, PaysOrder, Entity, Payment
    <3>6. QED
      BY <1>1, <3>5
  <2>5. QED
    BY <2>3, <2>4
<1>4. CASE ~PaysOrder(r)
  <2>1. orders' = orders
    BY <1>4 DEF Commit, TypeOK
  <2>2. stock' = stock
    BY <1>1, <1>4 DEF Commit, RequestInv, DraftsLocked, View, Nothing, TypeOK
  <2>3. CASE PaysSub(r) /\ Entity(r) \in Subs
    <3>1. subs' = [subs EXCEPT ![Entity(r)] = "ACTIVE"]
      BY <2>3 DEF Commit, TypeOK
    <3>2. Promise!SettleSub(k)
      BY <1>1, <1>2, <2>1, <2>2, <2>3, <3>1
      DEF Promise!SettleSub, Entity, Payment, PaysSub
    <3>3. QED
      BY <1>1, <3>2
  <2>4. CASE ~(PaysSub(r) /\ Entity(r) \in Subs)
    <3>1. subs' = subs
      BY <2>4 DEF Commit, TypeOK
    <3>2. s = "PAID" => Promise!Owed(k) = {}
      BY <1>4, <2>4 DEF Promise!Owed, PaysOrder, PaysSub, Entity, Payment
    <3>3. Promise!Record(k, s)
      BY <1>1, <1>2, <2>1, <2>2, <3>1, <3>2 DEF Promise!Record
    <3>4. QED
      BY <1>1, <3>3
  <2>5. QED
    BY <2>3, <2>4
<1>5. QED
  BY <1>3, <1>4

\* Whatever interleaves, deadlocks, fails or is interrupted, the tables move as
\* if every payment status were recorded with all of its effects in one step.
THEOREM Implements == Spec => Settles
<1>1. Init => Promise!Init
  BY DEF Init, Promise!Init
<1>2. ASSUME IInv, [Next]_vars PROVE [Promise!Next]_(Promise!tables)
  <2>1. ASSUME Others PROVE Promise!Next
    BY <2>1 DEF Others, InitPayment, AdminUpdateOrder, AdminUpdateProduct, UpdateSubStatus,
       Promise!Next, Promise!Create, Promise!WriteOrder, Promise!WriteStock, Promise!WriteSub
  <2>2. ASSUME NEW r \in Requests, Commit(r) PROVE Promise!Next
    BY <1>2, <2>2, CommitSettles DEF Promise!Next
  <2>3. ASSUME NEW r \in Requests, Request(r), ~Commit(r) PROVE UNCHANGED tables
    BY <2>3 DEF Request, Receive, Statement, HandleWebhook, Begin, UpdatePayment, UpdateEntity,
       ReadItems, SelectForUpdate, UpdateStock, Interrupt, StatementFails, ItemsFail, ReapAbandoned,
       DeadlockVictim
  <2>4. QED
    BY <1>2, <2>1, <2>2, <2>3 DEF Next, vars, tables, Promise!tables
<1>3. QED
  BY <1>1, <1>2, Initially, StepKeeps, PTL DEF Spec, Settles, Promise!Spec
=============================================================================
