----------------------------- MODULE Settlement -----------------------------
(***************************************************************************)
(* What the payment service promises the rest of the system: every payment *)
(* status is recorded together with all of its effects or not at all, a    *)
(* paid order takes exactly the quantities of its lines out of the stock,  *)
(* and it takes them only where the stock suffices.  There are no          *)
(* requests, transactions, locks or connections here: each operation is    *)
(* one step.  Payments implements this specification.                      *)
(***************************************************************************)
EXTENDS Integers

CONSTANTS
  Refs, Orders, Subs, Products, Items, OrderOf, Units,
  Types, Entities, Statuses, OrderStatuses, SubActions, StockLevels, NoPayment

VARIABLES
  payments,   \* [Refs -> a payment or NoPayment]
  orders,     \* the status of each order
  subs,       \* the status of each subscription
  stock       \* the stock of each product

tables == <<payments, orders, subs, stock>>

Lines(e) == {i \in Items : OrderOf[i] = e}

Init ==
  /\ payments = [k \in Refs |-> NoPayment]
  /\ orders = [o \in Orders |-> "NEW"]
  /\ subs = [s \in Subs |-> "PAYMENT_PENDING"]
  /\ stock \in [Products -> StockLevels]

Create(k, t, e) ==
  /\ payments[k] = NoPayment
  /\ payments' = [payments EXCEPT ![k] = [type |-> t, entity |-> e, status |-> "INIT"]]
  /\ UNCHANGED <<orders, subs, stock>>

\* The row payment k pays for, if there is such a row.
Owed(k) ==
  CASE payments[k].type = "order"        -> {payments[k].entity} \cap Orders
    [] payments[k].type = "subscription" -> {payments[k].entity} \cap Subs
    [] OTHER                             -> {}

\* A status that pays for nothing changes nothing else.
Record(k, s) ==
  /\ payments[k] # NoPayment
  /\ s = "PAID" => Owed(k) = {}
  /\ payments' = [payments EXCEPT ![k].status = s]
  /\ UNCHANGED <<orders, subs, stock>>

\* The order of payment k is paid and its goods leave the stock.
SettleOrder(k) ==
  LET o    == payments[k].entity
      sold == Units[Lines(o)]
  IN  /\ payments[k] # NoPayment
      /\ payments[k].type = "order"
      /\ o \in Orders
      /\ \A p \in Products : sold[p] > 0 => stock[p] >= sold[p]
      /\ payments' = [payments EXCEPT ![k].status = "PAID"]
      /\ orders' = [orders EXCEPT ![o] = "PAID"]
      /\ stock' = [p \in Products |-> stock[p] - sold[p]]
      /\ UNCHANGED subs

\* The subscription of payment k is paid.
SettleSub(k) ==
  LET s == payments[k].entity
  IN  /\ payments[k] # NoPayment
      /\ payments[k].type = "subscription"
      /\ s \in Subs
      /\ payments' = [payments EXCEPT ![k].status = "PAID"]
      /\ subs' = [subs EXCEPT ![s] = "ACTIVE"]
      /\ UNCHANGED <<orders, stock>>

WriteOrder(o, s) ==
  /\ orders' = [orders EXCEPT ![o] = s]
  /\ UNCHANGED <<payments, subs, stock>>

WriteSub(s, a) ==
  /\ subs' = [subs EXCEPT ![s] = a]
  /\ UNCHANGED <<payments, orders, stock>>

WriteStock(p, n) ==
  /\ stock' = [stock EXCEPT ![p] = n]
  /\ UNCHANGED <<payments, orders, subs>>

Next ==
  \/ \E k \in Refs, t \in Types, e \in Entities : Create(k, t, e)
  \/ \E k \in Refs, s \in Statuses : Record(k, s)
  \/ \E k \in Refs : SettleOrder(k) \/ SettleSub(k)
  \/ \E o \in Orders, s \in OrderStatuses : WriteOrder(o, s)
  \/ \E s \in Subs, a \in SubActions : WriteSub(s, a)
  \/ \E p \in Products, n \in StockLevels : WriteStock(p, n)

Spec == Init /\ [][Next]_tables
=============================================================================
