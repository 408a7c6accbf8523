------------------------------ MODULE Payments ------------------------------
(***************************************************************************)
(* The payment service (internal/services/payments.go) and every writer of *)
(* the rows its transaction touches.  A webhook of a payment provider is   *)
(* an HTTP request served by a goroutine of its own: it looks the payment  *)
(* up on the connection pool, and then moves the payment, the order or the *)
(* subscription paid for, and the stock of the products sold, in a single  *)
(* PostgreSQL transaction (READ COMMITTED, row locks held to its end).     *)
(*                                                                         *)
(* The committed tables are payments, orders, subs and stock; what a       *)
(* transaction has written and not yet committed is in draft.              *)
(***************************************************************************)
EXTENDS Integers, FiniteSets

CONSTANTS
  Requests,        \* the webhook requests; each is received and served once
  Refs,            \* the pairs (provider, provider_payment_id) of payments
  Orders,          \* rows of orders
  Subs,            \* rows of subscriptions
  Products,        \* rows of products
  Items,           \* rows of order_items
  OrderOf,         \* order_items.order_id
  ProductOf,       \* order_items.product_id
  Quantity,        \* order_items.quantity
  Units,           \* Units[S][p]: the quantity of product p in the lines S
  Types,           \* what a client may send as type: unchecked text
  Entities,        \* what a client may send as entity_id: unchecked text
  Statuses,        \* what a provider may send as a payment's status
  OrderStatuses,   \* what an admin may write as an order's status
  StockLevels,     \* what an admin may write as a product's stock
  MaxOpenConns,    \* the connections of the pool
  NoPayment,       \* no row in payments
  NoItem,          \* no order line
  Unwritten        \* a product the transaction has not written

PaymentRow == [type : Types, entity : Entities, status : Statuses]
SubActions == {"CANCELED", "PAUSED", "ACTIVE"}
SubStatuses == SubActions \cup {"PAYMENT_PENDING"}
Rows == Refs \cup Orders \cup Subs \cup Products

ASSUME TablesDisjoint ==
  /\ Refs \cap (Orders \cup Subs \cup Products) = {}
  /\ Orders \cap (Subs \cup Products) = {}
  /\ Subs \cap Products = {}

\* An order can only be created with positive quantities
\* (internal/services/orders.go:33).
ASSUME LinesAssumption ==
  /\ OrderOf \in [Items -> Orders]
  /\ ProductOf \in [Items -> Products]
  /\ Quantity \in [Items -> Nat \ {0}]
  /\ IsFiniteSet(Items)

\* Units is the sum of the quantities, told by its two equations.
ASSUME UnitsAssumption ==
  /\ Units \in [SUBSET Items -> [Products -> Nat]]
  /\ \A p \in Products : Units[{}][p] = 0
  /\ \A S \in SUBSET Items : \A i \in S : \A p \in Products :
       Units[S][p] = Units[S \ {i}][p] + (IF ProductOf[i] = p THEN Quantity[i] ELSE 0)

ASSUME TextAssumption ==
  /\ Orders \cup Subs \subseteq Entities
  /\ {"INIT", "PAID"} \subseteq Statuses
  /\ {"NEW", "PAID"} \subseteq OrderStatuses
  /\ StockLevels \subseteq Int

ASSUME PoolAssumption == MaxOpenConns \in Nat \ {0}

ASSUME NothingAssumption ==
  /\ NoPayment \notin PaymentRow
  /\ NoItem \notin Items
  /\ Unwritten \notin Int

VARIABLES
  payments,   \* [Refs -> PaymentRow or NoPayment]
  orders,     \* the status of each order
  subs,       \* the status of each subscription
  stock,      \* the stock of each product
  pc,         \* the statement a request runs next
  hook,       \* the payment and the status a request was sent
  todo,       \* the lines its loop has still to deduct
  cur,        \* the line its loop is at
  seen,       \* the stock it read for that line
  draft,      \* its uncommitted writes to products
  locks,      \* the rows its transaction holds locked
  settled     \* history: committed settlements of each payment

tables == <<payments, orders, subs, stock>>
local  == <<pc, hook, todo, cur, seen, draft, locks>>
vars   == <<payments, orders, subs, stock, pc, hook, todo, cur, seen, draft,
            locks, settled>>

\* The statements of updatePaymentAndEntity from its BEGIN on, and
\* "abandoned": it has returned an error and kept its transaction and connection.
Stages == {"begin", "payment", "entity", "items", "select", "update", "commit"}
InTx   == (Stages \ {"begin"}) \cup {"abandoned"}

Nothing == [p \in Products |-> Unwritten]
NoHook  == [ref |-> NoPayment, status |-> "INIT"]
Hooks   == [ref : Refs, status : Statuses]

TypeOK ==
  /\ payments \in [Refs -> PaymentRow \cup {NoPayment}]
  /\ orders \in [Orders -> OrderStatuses]
  /\ subs \in [Subs -> SubStatuses]
  /\ stock \in [Products -> Int]
  /\ pc \in [Requests -> Stages \cup {"new", "abandoned", "done"}]
  /\ hook \in [Requests -> Hooks \cup {NoHook}]
  /\ todo \in [Requests -> SUBSET Items]
  /\ cur \in [Requests -> Items \cup {NoItem}]
  /\ seen \in [Requests -> Int]
  /\ draft \in [Requests -> [Products -> Int \cup {Unwritten}]]
  /\ locks \in [Requests -> SUBSET Rows]
  /\ settled \in [Refs -> Nat]

Init ==
  /\ payments = [k \in Refs |-> NoPayment]
  /\ orders = [o \in Orders |-> "NEW"]
  /\ subs = [s \in Subs |-> "PAYMENT_PENDING"]
  /\ stock \in [Products -> StockLevels]
  /\ pc = [r \in Requests |-> "new"]
  /\ hook = [r \in Requests |-> NoHook]
  /\ todo = [r \in Requests |-> {}]
  /\ cur = [r \in Requests |-> NoItem]
  /\ seen = [r \in Requests |-> 0]
  /\ draft = [r \in Requests |-> Nothing]
  /\ locks = [r \in Requests |-> {}]
  /\ settled = [k \in Refs |-> 0]

-----------------------------------------------------------------------------
\* What a request works on.

Payment(r) == payments[hook[r].ref]   \* its type and entity never change
Entity(r)  == Payment(r).entity
Lines(e)   == {i \in Items : OrderOf[i] = e}

PaysOrder(r) == Payment(r).type = "order" /\ hook[r].status = "PAID"

\* A bug to catch: the type of the payment is not looked at.
PaysSubUntyped(r) == hook[r].status = "PAID"

PaysSub(r) == Payment(r).type = "subscription" /\ hook[r].status = "PAID"

\* A bug to catch: the row is taken to exist.
EntityRowsUnchecked(r) == {Entity(r)}

\* The rows that the UPDATE of the entity matches: none when the client gave
\* an entity_id that no row of the table has.
EntityRows(r) ==
  IF PaysOrder(r) THEN {Entity(r)} \cap Orders ELSE {Entity(r)} \cap Subs

\* A bug to catch: the stock is read on the pool, not in the transaction.
ViewOnPool(r, p) == stock[p]

\* The stock of a product as the transaction of r reads it.
View(r, p) == IF draft[r][p] = Unwritten THEN stock[p] ELSE draft[r][p]

-----------------------------------------------------------------------------
\* Row locks: PostgreSQL makes a statement wait while another transaction
\* holds the row it writes or selects FOR UPDATE.

\* A bug to catch: statements run on the pool, where the request's own
\* transaction is one more rival.
RivalsOnPool(r) == Requests

Rivals(r) == Requests \ {r}

Free(r, row) == \A q \in Rivals(r) : row \notin locks[q]
Unlocked(row) == \A q \in Requests : row \notin locks[q]

Lock(r, rows) == locks' = [locks EXCEPT ![r] = @ \cup rows]

\* The rows the next statement of r has to lock.
Wanted(r) ==
  CASE pc[r] = "payment"            -> {hook[r].ref}
    [] pc[r] = "entity"             -> EntityRows(r)
    [] pc[r] \in {"select", "update"} -> {ProductOf[cur[r]]}
    [] OTHER                        -> {}

WaitsFor(r, q) == q \in Rivals(r) /\ Wanted(r) \cap locks[q] # {}

\* A cycle of waiting transactions, and the requests caught in one.
DeadlockSet(C) ==
  /\ C # {}
  /\ \A r \in C : /\ \E q \in C : WaitsFor(r, q)
                  /\ \E q \in C : WaitsFor(q, r)
Deadlocked(r) == \E C \in SUBSET Requests : r \in C /\ DeadlockSet(C)

-----------------------------------------------------------------------------
\* The pool: a transaction keeps a connection to its end, every other statement
\* takes one for its own duration, and waits while there is none.

Available == Cardinality({q \in Requests : pc[q] \in InTx}) < MaxOpenConns

-----------------------------------------------------------------------------
\* Payments.Init: the client names the entity and the provider's payment;
\* the unique index on (provider, provider_payment_id) refuses a second row.

InitPayment(k, t, e) ==
  /\ Available
  /\ payments[k] = NoPayment
  /\ payments' = [payments EXCEPT ![k] = [type |-> t, entity |-> e, status |-> "INIT"]]
  /\ UNCHANGED <<orders, subs, stock, local, settled>>

\* A bug to catch: the status the payment has is not compared.
AcknowledgedUnknown(k, s) == payments[k] = NoPayment

\* HandleWebhook: the payment is read outside the transaction.  An unknown
\* payment is an error, a status it already has is acknowledged, and any
\* other status goes on to updatePaymentAndEntity.
Acknowledged(k, s) == payments[k] = NoPayment \/ payments[k].status = s

HandleWebhook(r, k, s) ==
  /\ pc[r] = "new"
  /\ Available
  /\ hook' = [hook EXCEPT ![r] = [ref |-> k, status |-> s]]
  /\ pc' = [pc EXCEPT ![r] = IF Acknowledged(k, s) THEN "done" ELSE "begin"]
  /\ UNCHANGED <<tables, todo, cur, seen, draft, locks, settled>>

\* BEGIN, on a connection of the pool.
Begin(r) ==
  /\ pc[r] = "begin"
  /\ Available
  /\ pc' = [pc EXCEPT ![r] = "payment"]
  /\ UNCHANGED <<tables, hook, todo, cur, seen, draft, locks, settled>>

\* UPDATE payments SET status ... WHERE id.
UpdatePayment(r) ==
  /\ pc[r] = "payment"
  /\ Free(r, hook[r].ref)
  /\ Lock(r, {hook[r].ref})
  /\ pc' = [pc EXCEPT ![r] = IF PaysOrder(r) \/ PaysSub(r) THEN "entity" ELSE "commit"]
  /\ UNCHANGED <<tables, hook, todo, cur, seen, draft, settled>>

\* UPDATE orders SET status = 'PAID', or UPDATE subscriptions SET status =
\* 'ACTIVE' and its period.
UpdateEntity(r) ==
  /\ pc[r] = "entity"
  /\ \A row \in EntityRows(r) : Free(r, row)
  /\ Lock(r, EntityRows(r))
  /\ pc' = [pc EXCEPT ![r] = IF PaysOrder(r) THEN "items" ELSE "commit"]
  /\ UNCHANGED <<tables, hook, todo, cur, seen, draft, settled>>

\* The loop over the lines goes on with any of the lines left (the query that
\* reads them has no ORDER BY), or is over.
Continue(r, rest) ==
  /\ todo' = [todo EXCEPT ![r] = rest]
  /\ \/ /\ rest = {}
        /\ cur' = [cur EXCEPT ![r] = NoItem]
        /\ pc' = [pc EXCEPT ![r] = "commit"]
     \/ \E i \in rest : /\ cur' = [cur EXCEPT ![r] = i]
                        /\ pc' = [pc EXCEPT ![r] = "select"]

\* Orders.Items, on a second connection of the pool.
ReadItems(r) ==
  /\ pc[r] = "items"
  /\ Available
  /\ Continue(r, Lines(Entity(r)))
  /\ UNCHANGED <<tables, hook, seen, draft, locks, settled>>

\* Bugs to catch: a SELECT without FOR UPDATE, and one without the check.
SelectPlain(r) ==
  /\ pc[r] = "select"
  /\ seen' = [seen EXCEPT ![r] = View(r, ProductOf[cur[r]])]
  /\ pc' = [pc EXCEPT ![r] =
              IF seen'[r] - Quantity[cur[r]] < 0 THEN "abandoned" ELSE "update"]
  /\ UNCHANGED <<tables, hook, todo, cur, draft, locks, settled>>

SelectUnchecked(r) ==
  /\ pc[r] = "select"
  /\ Free(r, ProductOf[cur[r]])
  /\ Lock(r, {ProductOf[cur[r]]})
  /\ seen' = [seen EXCEPT ![r] = View(r, ProductOf[cur[r]])]
  /\ pc' = [pc EXCEPT ![r] = "update"]
  /\ UNCHANGED <<tables, hook, todo, cur, draft, settled>>

\* SELECT stock FROM products WHERE id FOR UPDATE, and the check of it.  The
\* error leaves by a return that the deferred rollback does not see (its err
\* is another variable): the transaction stays open, its rows locked.
SelectForUpdate(r) ==
  LET p == ProductOf[cur[r]]
  IN  /\ pc[r] = "select"
      /\ Free(r, p)
      /\ Lock(r, {p})
      /\ seen' = [seen EXCEPT ![r] = View(r, p)]
      /\ pc' = [pc EXCEPT ![r] =
                  IF View(r, p) - Quantity[cur[r]] < 0 THEN "abandoned" ELSE "update"]
      /\ UNCHANGED <<tables, hook, todo, cur, draft, settled>>

\* UPDATE products SET stock = newStock WHERE id.
UpdateStock(r) ==
  LET p == ProductOf[cur[r]]
  IN  /\ pc[r] = "update"
      /\ Free(r, p)
      /\ Lock(r, {p})
      /\ draft' = [draft EXCEPT ![r][p] = seen[r] - Quantity[cur[r]]]
      /\ Continue(r, todo[r] \ {cur[r]})
      /\ UNCHANGED <<tables, hook, seen, settled>>

\* PostgreSQL is done with the transaction, either way: its locks and its
\* uncommitted writes are gone.
End(r, label) ==
  /\ pc' = [pc EXCEPT ![r] = label]
  /\ todo' = [todo EXCEPT ![r] = {}]
  /\ cur' = [cur EXCEPT ![r] = NoItem]
  /\ seen' = [seen EXCEPT ![r] = 0]
  /\ draft' = [draft EXCEPT ![r] = Nothing]
  /\ locks' = [locks EXCEPT ![r] = {}]
  /\ UNCHANGED hook

\* The transaction is over for the service too, and the request answered.
Finish(r) == End(r, "done")

Commit(r) ==
  /\ pc[r] = "commit"
  /\ payments' = [payments EXCEPT ![hook[r].ref].status = hook[r].status]
  /\ orders' = [o \in Orders |-> IF PaysOrder(r) /\ o = Entity(r) THEN "PAID" ELSE orders[o]]
  /\ subs' = [s \in Subs |-> IF PaysSub(r) /\ s = Entity(r) THEN "ACTIVE" ELSE subs[s]]
  /\ stock' = [p \in Products |-> View(r, p)]
  /\ settled' = [settled EXCEPT ![hook[r].ref] = IF PaysOrder(r) THEN @ + 1 ELSE @]
  /\ Finish(r)

-----------------------------------------------------------------------------
\* Ways a transaction ends without a commit; all of them roll it back.

\* A statement fails whose error the deferred rollback sees, the request's
\* context ends (database/sql then rolls back), or the process stops.
Interrupt(r) ==
  /\ pc[r] \in Stages
  /\ Finish(r)
  /\ UNCHANGED <<tables, settled>>

\* The error of a statement of the loop is shadowed (payments.go:93): nobody
\* rolls back.  PostgreSQL aborts the transaction by itself, the connection
\* stays taken.
Shadowed(r) == pc[r] \in {"select", "update"}

StatementFails(r) ==
  /\ Shadowed(r)
  /\ End(r, "abandoned")
  /\ UNCHANGED <<tables, settled>>

\* Orders.Items fails on its own connection: the error is shadowed like that
\* of SelectForUpdate, and the transaction stays open.
ItemsFail(r) ==
  /\ pc[r] = "items"
  /\ pc' = [pc EXCEPT ![r] = "abandoned"]
  /\ UNCHANGED <<tables, hook, todo, cur, seen, draft, locks, settled>>

\* A bug to catch: a transaction begun with a context that outlives the request.
ReapDetached(r) ==
  /\ pc[r] = "abandoned"
  /\ pc' = [pc EXCEPT ![r] = "done"]
  /\ UNCHANGED <<tables, hook, todo, cur, seen, draft, locks, settled>>

\* net/http cancels the context of a request when its handler has returned,
\* and database/sql then rolls back the transaction begun with it.
ReapAbandoned(r) ==
  /\ pc[r] = "abandoned"
  /\ Finish(r)
  /\ UNCHANGED <<tables, settled>>

\* PostgreSQL's deadlock detector aborts a transaction of the cycle, by an
\* error of the statement that waits.
DeadlockVictim(r) ==
  /\ Deadlocked(r)
  /\ End(r, IF Shadowed(r) THEN "abandoned" ELSE "done")
  /\ UNCHANGED <<tables, settled>>

-----------------------------------------------------------------------------
\* The other writers: single statements, each a transaction of its own, that
\* wait for the row and overwrite it with what the client sent.

AdminUpdateOrder(o, s) ==
  /\ Available /\ Unlocked(o)
  /\ orders' = [orders EXCEPT ![o] = s]
  /\ UNCHANGED <<payments, subs, stock, local, settled>>

AdminUpdateProduct(p, n) ==
  /\ Available /\ Unlocked(p)
  /\ stock' = [stock EXCEPT ![p] = n]
  /\ UNCHANGED <<payments, orders, subs, local, settled>>

UpdateSubStatus(s, a) ==
  /\ Available /\ Unlocked(s)
  /\ subs' = [subs EXCEPT ![s] = a]
  /\ UNCHANGED <<payments, orders, stock, local, settled>>

-----------------------------------------------------------------------------
Statement(r) ==
  \/ Begin(r) \/ UpdatePayment(r) \/ UpdateEntity(r) \/ ReadItems(r)
  \/ SelectForUpdate(r) \/ UpdateStock(r) \/ Commit(r)

Receive(r) == \E k \in Refs, s \in Statuses : HandleWebhook(r, k, s)

Request(r) ==
  \/ Receive(r) \/ Statement(r)
  \/ Interrupt(r) \/ StatementFails(r) \/ ItemsFail(r) \/ ReapAbandoned(r) \/ DeadlockVictim(r)

Others ==
  \/ \E k \in Refs, t \in Types, e \in Entities : InitPayment(k, t, e)
  \/ \E o \in Orders, s \in OrderStatuses : AdminUpdateOrder(o, s)
  \/ \E p \in Products, n \in StockLevels : AdminUpdateProduct(p, n)
  \/ \E s \in Subs, a \in SubActions : UpdateSubStatus(s, a)

Next == Others \/ \E r \in Requests : Request(r)

Spec == Init /\ [][Next]_vars

\* A goroutine that can run its next statement runs it, database/sql rolls
\* back once the context is cancelled, PostgreSQL's deadlock detector runs.
Fairness == \A r \in Requests : /\ WF_vars(Statement(r))
                                /\ WF_vars(ReapAbandoned(r))
                                /\ WF_vars(DeadlockVictim(r))

FairSpec == Spec /\ Fairness

-----------------------------------------------------------------------------
\* Properties.

\* Rows locked by one transaction are locked by no other.
LocksExclusive ==
  \A r, q \in Requests : r # q => locks[r] \cap locks[q] = {}

\* What each stage holds locked.
LocksByStage(r) ==
  /\ pc[r] \in {"new", "begin", "payment", "done"} => locks[r] = {}
  /\ pc[r] = "entity" => locks[r] = {hook[r].ref}
  /\ pc[r] = "update" => ProductOf[cur[r]] \in locks[r]

\* What each stage knows of its payment and its lines.
StageOf(r) ==
  /\ pc[r] \in Stages => hook[r] \in Hooks /\ Payment(r) \in PaymentRow
  /\ pc[r] \in {"items", "select", "update"} => PaysOrder(r)
  /\ pc[r] \in {"select", "update"} => cur[r] \in todo[r] /\ todo[r] \subseteq Lines(Entity(r))
  /\ pc[r] \notin {"select", "update", "abandoned"} => todo[r] = {}

\* Products are written only under their lock and never below zero.
DraftsLocked(r) ==
  /\ \A p \in Products : draft[r][p] # Unwritten => p \in locks[r] /\ draft[r][p] >= 0
  /\ pc[r] \notin {"select", "update", "commit", "abandoned"} => draft[r] = Nothing
  /\ pc[r] = "commit" /\ ~PaysOrder(r) => draft[r] = Nothing

\* The lines done so far are out of the drafts, and nothing else is: the
\* committed stock a draft was computed from is still the committed stock.
DraftsExact(r) ==
  /\ pc[r] \in {"select", "update", "commit"} /\ PaysOrder(r) =>
       \A p \in Products :
         LET left == Units[Lines(Entity(r))][p] - Units[todo[r]][p]
         IN  IF draft[r][p] = Unwritten THEN left = 0 ELSE draft[r][p] = stock[p] - left
  /\ pc[r] = "update" =>
       /\ seen[r] = View(r, ProductOf[cur[r]])
       /\ seen[r] - Quantity[cur[r]] >= 0

RequestInv(r) == LocksByStage(r) /\ StageOf(r) /\ DraftsLocked(r) /\ DraftsExact(r)

\* At every step of every interleaving, what a settlement has written and not
\* yet committed is the committed stock less the lines it has gone through:
\* no other webhook and no admin write has come between the SELECT FOR UPDATE
\* and the absolute UPDATE of payments.go:99-106.
TxInv ==
  /\ LocksExclusive
  /\ \A r \in Requests : RequestInv(r)

\* No settlement takes the stock of a product below zero, whatever else is
\* settled or written meanwhile (payments.go:102-105).
NeverOversold ==
  [][settled' # settled =>
       \A p \in Products : stock'[p] = stock[p] \/ stock'[p] >= 0]_vars

\* Webhooks can deadlock only over the rows of two or more products: the locks
\* on the payment and on the order are never part of a cycle.
DeadlockShape ==
  \A C \in SUBSET Requests : DeadlockSet(C) =>
    /\ \A r \in C : pc[r] = "select"
    /\ \E r, q \in C : ProductOf[cur[r]] # ProductOf[cur[q]]

\* A request of C can run, wait for the rollback of its transaction or be
\* chosen by the deadlock detector.
CanMove(r) ==
  CASE pc[r] \in {"begin", "items"} -> Available
    [] pc[r] \in {"commit", "abandoned"} -> TRUE
    [] OTHER -> Deadlocked(r) \/ \A row \in Wanted(r) : Free(r, row)

\* When no webhook in service can move, a transaction is waiting for the second
\* connection that Orders.Items takes (payments.go:93), and all connections
\* are held: row locks alone never stop the service.
StuckOnlyOnPool ==
  LET serving == {r \in Requests : pc[r] \notin {"new", "done"}}
  IN  serving # {} /\ (\A r \in serving : ~CanMove(r)) =>
        ~Available /\ \E r \in serving : pc[r] = "items"

\* Every webhook received is answered and its transaction over, with its
\* effects committed or rolled back, if the pool has a connection to spare.
EveryRequestEnds == \A r \in Requests : pc[r] # "new" ~> pc[r] = "done"

\* A payment is settled at most once (README.md:886).
AtMostOnce == \A k \in Refs : settled[k] <= 1

\* The service settles payments as if each were one step: all of the effects
\* of a status or none, whatever interleaves, deadlocks or fails.
Promise == INSTANCE Settlement
Settles == Promise!Spec
=============================================================================
