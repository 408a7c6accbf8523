------------------------------ MODULE Checkout ------------------------------
(***************************************************************************)
(* Orders as they are made: Create of internal/services/orders.go and its  *)
(* transaction in internal/repositories/orders.go, next to the admin's     *)
(* price edits and to the settlements of Payments, of which only the row   *)
(* locks on products matter here.  INSERT INTO order_items locks the       *)
(* product its foreign key names FOR KEY SHARE: orders do not exclude each *)
(* other, but a settlement's SELECT ... FOR UPDATE excludes them and is    *)
(* excluded by them.                                                       *)
(* Go's int squares the range of PostgreSQL's INT: an INT column holds     *)
(* -Half .. Half - 1, an int wraps modulo 4 * Half * Half.                 *)
(***************************************************************************)
EXTENDS Integers, Sequences

CONSTANTS
  Calls,        \* calls of Create; the order one makes has its name
  Settlers,     \* transactions that settle orders
  Products,     \* rows of products
  Named,        \* what a client may send as product_id
  Quantities,   \* what a client may send as quantity
  Carts,        \* what a client may ask for
  Routes,       \* the products of orders being settled, as Items lists them
  Prices,       \* what an admin may write as a price
  Half,         \* 2^31
  NoOrder       \* no row in orders

Actors  == Calls \cup Settlers
Int4    == -Half .. Half - 1
Wrap(n) == ((n + 2 * Half * Half) % (4 * Half * Half)) - 2 * Half * Half

Asked  == [product : Named, quantity : Quantities]
Priced == [product : Products, quantity : Int4, price : Int4]
Order  == [total : Int4, lines : Seq(Priced)]

ASSUME DataAssumption ==
  /\ Half \in Nat \ {0}
  /\ Prices \subseteq Int4
  /\ Quantities \subseteq Int
  /\ Products \subseteq Named
  /\ Carts \subseteq Seq(Asked)
  /\ Routes \subseteq Seq(Products)
  /\ Calls \cap Settlers = {}
  /\ NoOrder \notin Order

VARIABLES
  price,   \* products.price_cents
  cart,    \* what each call was asked for
  pc,      \* what a call or a settlement does next
  at,      \* the line, or the product of its route, it is at
  total,   \* the total a call has added up
  quote,   \* the prices it has read
  rows,    \* the order_items it has inserted and not yet committed
  locks,   \* the products whose rows a transaction has locked
  route,   \* the products a settlement locks
  orders   \* [Calls -> the committed order or NoOrder]

local == <<at, total, quote, rows>>
vars  == <<price, cart, pc, at, total, quote, rows, locks, route, orders>>

TypeOK ==
  /\ price \in [Products -> Int4]
  /\ cart \in [Calls -> Carts]
  /\ pc \in [Actors -> {"get", "order", "item", "commit", "take", "done"}]
  /\ at \in [Actors -> Nat \ {0}]
  /\ total \in [Calls -> Int]
  /\ quote \in [Calls -> Seq(Int4)]
  /\ rows \in [Calls -> Seq(Priced)]
  /\ locks \in [Actors -> SUBSET Products]
  /\ route \in [Settlers -> Routes]
  /\ orders \in [Calls -> Order \cup {NoOrder}]

Init ==
  /\ price \in [Products -> Prices]
  /\ cart \in [Calls -> Carts]
  /\ pc = [x \in Actors |-> IF x \in Calls THEN "get" ELSE "take"]
  /\ at = [x \in Actors |-> 1]
  /\ total = [r \in Calls |-> 0]
  /\ quote = [r \in Calls |-> << >>]
  /\ rows = [r \in Calls |-> << >>]
  /\ locks = [x \in Actors |-> {}]
  /\ route \in [Settlers -> Routes]
  /\ orders = [r \in Calls |-> NoOrder]

Line(r) == cart[r][at[r]]
Done(r) == at[r] > Len(cart[r])
Goto(x, label) == pc' = [pc EXCEPT ![x] = label]
Advance(x) == at' = [at EXCEPT ![x] = @ + 1]
Lock(x, p) == locks' = [locks EXCEPT ![x] = @ \cup {p}]
Release(x) == locks' = [locks EXCEPT ![x] = {}]

\* The end of a call or transaction that leaves nothing behind.
End(x) ==
  /\ Goto(x, "done")
  /\ Release(x)
  /\ UNCHANGED <<price, cart, local, route, orders>>

-----------------------------------------------------------------------------
\* Locks.  A settlement excludes everybody, an order only settlements.

\* A bug to catch: orders exclude each other too.
RivalsAll(x) == Actors \ {x}

Rivals(x) == IF x \in Settlers THEN Actors \ {x} ELSE Settlers
Free(x, p) == \A y \in Rivals(x) : p \notin locks[y]

\* The product the next statement of x locks.
Wanted(x) ==
  CASE pc[x] = "item" /\ ~Done(x)                -> {Line(x).product}
    [] pc[x] = "take" /\ at[x] <= Len(route[x])  -> {route[x][at[x]]}
    [] OTHER                                     -> {}

WaitsFor(x, y) == y \in Rivals(x) /\ Wanted(x) \cap locks[y] # {}

DeadlockSet(C) ==
  /\ C # {}
  /\ \A x \in C : (\E y \in C : WaitsFor(x, y)) /\ (\E y \in C : WaitsFor(y, x))
Deadlocked(x) == \E C \in SUBSET Actors : x \in C /\ DeadlockSet(C)

-----------------------------------------------------------------------------
\* OrderService.Create: the lines are priced one by one, on the pool.

\* A bug to catch: any quantity will do.
RefusedUnknown(r) == Line(r).product \notin Products

\* A quantity that is not positive, or no such product.
Refused(r) == Line(r).quantity <= 0 \/ Line(r).product \notin Products

GetProduct(r) ==
  /\ pc[r] = "get"
  /\ ~Done(r)
  /\ ~Refused(r)
  /\ LET p == price[Line(r).product]
     IN  /\ total' = [total EXCEPT ![r] = Wrap(@ + Wrap(p * Line(r).quantity))]
         /\ quote' = [quote EXCEPT ![r] = Append(@, p)]
  /\ Advance(r)
  /\ UNCHANGED <<price, cart, pc, rows, locks, route, orders>>

\* An empty cart, a line that is refused, or a total that is not an INT.
Refuse(r) ==
  /\ pc[r] = "get"
  /\ IF Done(r) THEN cart[r] = << >> \/ total[r] \notin Int4 ELSE Refused(r)
  /\ End(r)

\* A bug to catch: the total goes unchecked into the column.
InsertOrderAny(r) ==
  /\ pc[r] = "get"
  /\ Done(r)
  /\ cart[r] # << >>
  /\ Goto(r, "item")
  /\ at' = [at EXCEPT ![r] = 1]
  /\ UNCHANGED <<price, cart, total, quote, rows, locks, route, orders>>

\* OrderRepository.Create: BEGIN, INSERT INTO orders.  The total must be an INT.
InsertOrder(r) ==
  /\ pc[r] = "get"
  /\ Done(r)
  /\ cart[r] # << >> /\ total[r] \in Int4
  /\ Goto(r, "item")
  /\ at' = [at EXCEPT ![r] = 1]
  /\ UNCHANGED <<price, cart, total, quote, rows, locks, route, orders>>

\* A bug to catch: the error of a line is lost, and the loop goes on.
InsertItemAnyway(r) ==
  /\ pc[r] = "item"
  /\ ~Done(r)
  /\ Free(r, Line(r).product)
  /\ IF Line(r).quantity \in Int4
     THEN rows' = [rows EXCEPT ![r] = Append(@,
            [product |-> Line(r).product, quantity |-> Line(r).quantity, price |-> quote[r][at[r]]])]
     ELSE UNCHANGED rows
  /\ Lock(r, Line(r).product)
  /\ Advance(r)
  /\ UNCHANGED <<price, cart, pc, total, quote, route, orders>>

\* INSERT INTO order_items, with the price that was read; the quantity must be
\* an INT too.
InsertItem(r) ==
  /\ pc[r] = "item"
  /\ ~Done(r)
  /\ Line(r).quantity \in Int4
  /\ Free(r, Line(r).product)
  /\ rows' = [rows EXCEPT ![r] = Append(@,
       [product |-> Line(r).product, quantity |-> Line(r).quantity, price |-> quote[r][at[r]]])]
  /\ Lock(r, Line(r).product)
  /\ Advance(r)
  /\ UNCHANGED <<price, cart, pc, total, quote, route, orders>>

\* A quantity that is not an INT: the transaction is rolled back.
RejectItem(r) ==
  /\ pc[r] = "item"
  /\ ~Done(r)
  /\ Line(r).quantity \notin Int4
  /\ End(r)

\* A bug to catch: success is returned without a commit.
CommitForgotten(r) ==
  /\ pc[r] = "item"
  /\ Done(r)
  /\ Goto(r, "done")
  /\ UNCHANGED <<price, cart, local, locks, route, orders>>

Commit(r) ==
  /\ pc[r] = "item"
  /\ Done(r)
  /\ orders' = [orders EXCEPT ![r] = [total |-> total[r], lines |-> rows[r]]]
  /\ Release(r)
  /\ Goto(r, "done")
  /\ UNCHANGED <<price, cart, local, route>>

\* Any statement may fail, or the request be cancelled.
Fail(r) == pc[r] \in {"get", "item"} /\ End(r)

-----------------------------------------------------------------------------
\* A settlement of Payments, as this component meets it.

SelectForUpdate(x) ==
  /\ pc[x] = "take"
  /\ at[x] <= Len(route[x])
  /\ Free(x, route[x][at[x]])
  /\ Lock(x, route[x][at[x]])
  /\ Advance(x)
  /\ UNCHANGED <<price, cart, pc, total, quote, rows, route, orders>>

\* It commits at the end of its route, or fails on the way.
Settled(x) == pc[x] = "take" /\ at[x] > Len(route[x]) /\ End(x)
Abort(x) == pc[x] = "take" /\ End(x)

\* The admin's Update of a product: a statement of its own, which waits for
\* settlements and not for orders.
UpdatePrice(p, n) ==
  /\ \A x \in Settlers : p \notin locks[x]
  /\ price' = [price EXCEPT ![p] = n]
  /\ UNCHANGED <<cart, pc, local, locks, route, orders>>

\* PostgreSQL fails a statement of a deadlock: the transaction is rolled back.
DeadlockVictim(x) == Deadlocked(x) /\ End(x)

-----------------------------------------------------------------------------
Create(r) ==
  \/ GetProduct(r) \/ Refuse(r)
  \/ InsertOrder(r) \/ InsertItem(r) \/ RejectItem(r) \/ Commit(r)

Settle(x) == SelectForUpdate(x) \/ Settled(x)

Next ==
  \/ \E r \in Calls : Create(r) \/ Fail(r)
  \/ \E x \in Settlers : Settle(x) \/ Abort(x)
  \/ \E x \in Actors : DeadlockVictim(x)
  \/ \E p \in Products, n \in Prices : UpdatePrice(p, n)

Spec == Init /\ [][Next]_vars

\* Statements that can run are answered, and PostgreSQL finds every deadlock.
\* No failure is fair.
Fairness ==
  /\ \A r \in Calls : WF_vars(Create(r))
  /\ \A x \in Settlers : WF_vars(Settle(x))
  /\ \A x \in Actors : WF_vars(DeadlockVictim(x))

FairSpec == Spec /\ Fairness

-----------------------------------------------------------------------------
\* Properties.

Made(r) == orders[r] # NoOrder

\* What is visible of orders are their lines; what a transaction has inserted
\* and not committed is not, nor is which statement a call is at.
Promise == INSTANCE Ordering WITH
  asked  <- cart,
  quoted <- quote,
  placed <- [r \in Calls |-> IF Made(r) THEN orders[r].lines ELSE NoOrder]

\* Whatever fails, deadlocks or changes its price meanwhile, an order has every
\* line it was asked for, at the price that was read for it, or is not there,
\* and it stays as it was made (orders.go:32-66, repositories/orders.go:35-64):
\* its lines may be the constant Items of Payments.
Ordered == Promise!Spec

\* What lines come to, in whole numbers.
Worth(s) ==
  LET upto[n \in 0 .. Len(s)] ==
        IF n = 0 THEN 0 ELSE upto[n - 1] + s[n].price * s[n].quantity
  IN  upto[Len(s)]

\* total_cents is what the lines of the order come to at the prices stored
\* with them, though sums wrap (orders.go:40-41), prices may be negative and
\* change between the lines: up to four lines, a sum that has wrapped is no
\* INT.  From five lines on this is not so.
TotalExact ==
  \A r \in Calls : Made(r) /\ Len(cart[r]) <= 4 =>
    orders[r].total = Worth(orders[r].lines)

\* Orders do not wait for each other in a cycle: a deadlock has a settlement
\* in it, and is over two products at least.
DeadlockShape ==
  \A C \in SUBSET Actors : DeadlockSet(C) =>
    /\ C \cap Settlers # {}
    /\ \E x, y \in C : Wanted(x) # Wanted(y)

\* Every call is answered, however prices, orders and settlements interleave.
EveryOrderEnds == \A r \in Calls : <>(pc[r] = "done")
=============================================================================
