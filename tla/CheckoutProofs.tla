--------------------------- MODULE CheckoutProofs ---------------------------
(***************************************************************************)
(* Theorems about Checkout, for every set of calls, settlements, carts,    *)
(* prices and products, and for every width of INT.                        *)
(***************************************************************************)
EXTENDS Checkout, SequenceTheorems, TLAPS

\* While a call prices its cart: one quote for every line it is past.
Quoting(r) ==
  pc[r] = "get" =>
    /\ orders[r] = NoOrder
    /\ rows[r] = << >>
    /\ at[r] = Len(quote[r]) + 1
    /\ Len(quote[r]) <= Len(cart[r])

\* Row i of a call is line i of its cart, at the price it was quoted.
RowExact(r, i) ==
  rows[r][i] = [product |-> cart[r][i].product, quantity |-> cart[r][i].quantity,
                price |-> quote[r][i]]

\* While its transaction is open: every line was quoted and asks for a product
\* that exists, and the rows inserted are those of the lines it is past.
Inserting(r) ==
  pc[r] = "item" =>
    /\ orders[r] = NoOrder
    /\ cart[r] # << >>
    /\ total[r] \in Int4
    /\ Len(quote[r]) = Len(cart[r])
    /\ at[r] = Len(rows[r]) + 1
    /\ Len(rows[r]) <= Len(cart[r])
    /\ \A i \in 1 .. Len(rows[r]) : RowExact(r, i)

\* Lines that were quoted ask for products that exist.
QuotedExist(r) ==
  \A i \in 1 .. Len(quote[r]) : cart[r][i].product \in Products /\ cart[r][i].quantity > 0

CallInv(r) ==
  /\ Quoting(r)
  /\ Inserting(r)
  /\ Len(quote[r]) <= Len(cart[r])
  /\ QuotedExist(r)

\* The inductive invariant.
IInv ==
  /\ TypeOK
  /\ \A x \in Settlers : pc[x] \in {"take", "done"}
  /\ \A r \in Calls : CallInv(r)

-----------------------------------------------------------------------------
\* An int that wraps is an integer still.
LEMMA WrapInt == \A n \in Int : Wrap(n) \in Int
<1>1. Half \in Nat \ {0}
  BY DataAssumption
<1> DEFINE H == Half * Half
<1>2. H \in Nat \ {0}
  BY <1>1
<1>3. 4 * Half * Half = 4 * H /\ 2 * Half * Half = 2 * H
  BY <1>1
<1> HIDE DEF H
<1>4. ASSUME NEW n \in Int PROVE ((n + 2 * H) % (4 * H)) - 2 * H \in Int
  BY <1>2
<1>5. QED
  BY <1>3, <1>4 DEF Wrap

\* What a cart holds at each of its places.
LEMMA CartLine ==
  ASSUME TypeOK, NEW r \in Calls
  PROVE  /\ cart[r] \in Seq(Asked)
         /\ \A i \in 1 .. Len(cart[r]) : /\ cart[r][i].product \in Named
                                         /\ cart[r][i].quantity \in Int
<1>1. cart[r] \in Seq(Asked)
  BY DataAssumption DEF TypeOK
<1>2. \A i \in 1 .. Len(cart[r]) : cart[r][i] \in Asked
  BY <1>1
<1>3. QED
  BY <1>1, <1>2, DataAssumption DEF Asked

THEOREM Initially == Init => IInv
<1> SUFFICES ASSUME Init PROVE IInv
  OBVIOUS
<1>1. TypeOK
  <2>1. price \in [Products -> Int4]
    BY DataAssumption DEF Init
  <2>2. \A x \in Actors : pc[x] \in {"get", "take"}
    BY DEF Init
  <2>3. << >> \in Seq(Int4) /\ << >> \in Seq(Priced)
    OBVIOUS
  <2>4. /\ pc \in [Actors -> {"get", "order", "item", "commit", "take", "done"}]
        /\ at \in [Actors -> Nat \ {0}]
        /\ locks \in [Actors -> SUBSET Products]
    BY <2>2 DEF Init
  <2>5. /\ quote \in [Calls -> Seq(Int4)] /\ rows \in [Calls -> Seq(Priced)]
        /\ orders \in [Calls -> Order \cup {NoOrder}]
        /\ total \in [Calls -> Int]
    BY <2>3 DEF Init
  <2>6. QED
    BY <2>1, <2>4, <2>5 DEF Init, TypeOK
<1>2. \A x \in Settlers : pc[x] \in {"take", "done"}
  BY DataAssumption DEF Init, Actors
<1>3. ASSUME NEW r \in Calls PROVE CallInv(r)
  <2>1. cart[r] \in Seq(Asked)
    BY <1>1, CartLine
  <2>2. pc[r] = "get" /\ quote[r] = << >> /\ rows[r] = << >> /\ at[r] = 1 /\ orders[r] = NoOrder
    BY DEF Init, Actors
  <2>3. QED
    BY <2>1, <2>2 DEF CallInv, Quoting, Inserting, QuotedExist
<1>4. QED
  BY <1>1, <1>2, <1>3 DEF IInv

-----------------------------------------------------------------------------
\* One lemma for each action that changes what a call knows.

\* A step that leaves the call r as it is, or ends it, preserves its part.
LEMMA Untouched ==
  ASSUME NEW r \in Calls, CallInv(r),
         UNCHANGED <<cart[r], quote[r], rows[r]>>,
         \/ pc'[r] = "done"
         \/ UNCHANGED <<pc[r], at[r], total[r], orders[r]>>
  PROVE  CallInv(r)'
BY DEF CallInv, Quoting, Inserting, QuotedExist, RowExact

LEMMA GetProductStep ==
  ASSUME IInv, NEW r \in Calls, GetProduct(r)
  PROVE  IInv'
<1> DEFINE i == at[r]
           p == price[Line(r).product]
<1>1. TypeOK /\ CallInv(r)
  BY DEF IInv
<1>2. /\ i \in 1 .. Len(cart[r])
      /\ Line(r) = cart[r][i] /\ Line(r).quantity \in Int /\ Line(r).quantity > 0
      /\ Line(r).product \in Products
  <2>1. i \in Nat \ {0} /\ i <= Len(cart[r])
    BY <1>1, CartLine DEF GetProduct, Done, TypeOK, Actors
  <2>2. QED
    BY <1>1, <2>1, CartLine DEF GetProduct, Refused, Line
<1>3. p \in Int4 /\ p \in Int
  BY <1>1, <1>2, DataAssumption DEF TypeOK, Int4
<1>4. /\ quote' = [quote EXCEPT ![r] = Append(@, p)]
      /\ quote[r] \in Seq(Int4) /\ Len(quote[r]) = i - 1 /\ Len(quote[r]) \in Nat
  <2>1. quote' = [quote EXCEPT ![r] = Append(@, p)] /\ pc[r] = "get"
    BY DEF GetProduct
  <2>2. quote[r] \in Seq(Int4)
    BY <1>1 DEF TypeOK
  <2>3. i = Len(quote[r]) + 1
    BY <1>1, <2>1 DEF CallInv, Quoting
  <2>4. Len(quote[r]) \in Nat
    BY <2>2, LenProperties
  <2> QED BY <2>1, <2>2, <2>3, <2>4
<1>5. /\ quote'[r] = Append(quote[r], p) /\ quote'[r] \in Seq(Int4)
      /\ Len(quote'[r]) = i
      /\ \A j \in 1 .. i - 1 : quote'[r][j] = quote[r][j]
  <2>1. quote'[r] = Append(quote[r], p)
    BY <1>1, <1>4 DEF TypeOK
  <2>2. QED
    BY <1>2, <1>3, <1>4, <2>1, AppendProperties
<1>6. total'[r] \in Int /\ total' = [total EXCEPT ![r] = total'[r]]
  <2>1. total[r] \in Int /\ p * Line(r).quantity \in Int
    BY <1>1, <1>2, <1>3 DEF TypeOK
  <2>2. Wrap(p * Line(r).quantity) \in Int
    BY <2>1, WrapInt
  <2>3. Wrap(total[r] + Wrap(p * Line(r).quantity)) \in Int
    BY <2>1, <2>2, WrapInt
  <2>4. QED
    BY <1>1, <2>3 DEF GetProduct, TypeOK
<1>7. TypeOK'
  <2>1. /\ total' \in [Calls -> Int] /\ quote' \in [Calls -> Seq(Int4)]
        /\ at' \in [Actors -> Nat \ {0}]
    BY <1>1, <1>4, <1>5, <1>6 DEF GetProduct, Advance, TypeOK, Actors
  <2>2. QED
    BY <1>1, <2>1 DEF GetProduct, TypeOK
<1>8. CallInv(r)'
  <2>1. pc'[r] = "get" /\ at'[r] = i + 1 /\ cart' = cart /\ rows' = rows /\ orders' = orders
    BY <1>1 DEF GetProduct, Advance, TypeOK, Actors
  <2>2. QuotedExist(r)'
    BY <1>1, <1>2, <1>5, <2>1 DEF CallInv, QuotedExist
  <2>3. orders[r] = NoOrder /\ rows[r] = << >>
    BY <1>1 DEF GetProduct, CallInv, Quoting
  <2>4. Quoting(r)'
    BY <1>2, <1>5, <2>1, <2>3 DEF Quoting
  <2>5. Inserting(r)'
    BY <2>1 DEF Inserting
  <2>6. Len(quote'[r]) <= Len(cart'[r])
    BY <1>2, <1>5, <2>1
  <2>7. QED
    BY <2>2, <2>4, <2>5, <2>6 DEF CallInv
<1>9. ASSUME NEW q \in Calls, q # r PROVE CallInv(q)'
  <2>1. UNCHANGED <<cart[q], quote[q], rows[q], pc[q], at[q], total[q], orders[q]>>
    BY <1>1, <1>9 DEF GetProduct, Advance, TypeOK, Actors
  <2>2. QED
    BY <2>1, Untouched DEF IInv
<1>10. QED
  BY <1>7, <1>8, <1>9 DEF IInv, GetProduct

LEMMA InsertOrderStep ==
  ASSUME IInv, NEW r \in Calls, InsertOrder(r)
  PROVE  IInv'
<1>1. TypeOK /\ CallInv(r)
  BY DEF IInv
<1>2. TypeOK'
  BY <1>1 DEF InsertOrder, Goto, TypeOK, Actors
<1>3. CallInv(r)'
  <2>1. /\ pc'[r] = "item" /\ at'[r] = 1
        /\ UNCHANGED <<cart, quote, rows, orders, total>>
        /\ cart[r] # << >> /\ total[r] \in Int4
    BY <1>1 DEF InsertOrder, Goto, TypeOK, Actors
  <2>2. Len(cart[r]) \in Nat /\ Len(quote[r]) \in Nat
    BY <1>1, CartLine DEF TypeOK
  <2>3. rows[r] = << >> /\ Len(quote[r]) = Len(cart[r]) /\ orders[r] = NoOrder
    BY <1>1, <2>2 DEF InsertOrder, Done, CallInv, Quoting
  <2>4. QED
    BY <1>1, <2>1, <2>2, <2>3 DEF CallInv, Quoting, Inserting, QuotedExist
<1>4. ASSUME NEW q \in Calls, q # r PROVE CallInv(q)'
  <2>1. UNCHANGED <<cart[q], quote[q], rows[q], pc[q], at[q], total[q], orders[q]>>
    BY <1>1, <1>4 DEF InsertOrder, Goto, TypeOK, Actors
  <2>2. QED
    BY <2>1, Untouched DEF IInv
<1>5. \A x \in Settlers : pc'[x] \in {"take", "done"}
  BY <1>1, DataAssumption DEF IInv, InsertOrder, Goto, TypeOK, Actors
<1>6. QED
  BY <1>2, <1>3, <1>4, <1>5 DEF IInv

LEMMA InsertItemStep ==
  ASSUME IInv, NEW r \in Calls, InsertItem(r)
  PROVE  IInv'
<1> DEFINE i   == at[r]
           row == [product |-> Line(r).product, quantity |-> Line(r).quantity,
                   price |-> quote[r][i]]
<1>1. TypeOK /\ CallInv(r)
  BY DEF IInv
<1>2. /\ i \in 1 .. Len(cart[r]) /\ Line(r) = cart[r][i]
      /\ rows[r] \in Seq(Priced) /\ i = Len(rows[r]) + 1 /\ Len(rows[r]) \in Nat
  BY <1>1, CartLine DEF InsertItem, Done, Line, TypeOK, Actors, CallInv, Inserting
<1>3. Line(r).product \in Products /\ Line(r).quantity \in Int4 /\ quote[r][i] \in Int4
  BY <1>1, <1>2 DEF InsertItem, TypeOK, CallInv, Inserting, QuotedExist
<1>4. row \in Priced
  BY <1>3 DEF Priced
<1>5. /\ rows' = [rows EXCEPT ![r] = Append(@, row)]
      /\ rows'[r] = Append(rows[r], row) /\ rows'[r] \in Seq(Priced)
      /\ Len(rows'[r]) = i /\ rows'[r][i] = row
      /\ \A j \in 1 .. Len(rows[r]) : rows'[r][j] = rows[r][j]
  BY <1>1, <1>2, <1>4, AppendProperties DEF InsertItem, TypeOK
<1>6. TypeOK'
  <2>1. /\ rows' \in [Calls -> Seq(Priced)] /\ at' \in [Actors -> Nat \ {0}]
        /\ locks' \in [Actors -> SUBSET Products]
    BY <1>1, <1>3, <1>5 DEF InsertItem, Advance, Lock, TypeOK, Actors
  <2>2. QED
    BY <1>1, <2>1 DEF InsertItem, TypeOK
<1>7. CallInv(r)'
  <2>1. /\ pc'[r] = "item" /\ at'[r] = i + 1
        /\ UNCHANGED <<cart, quote, orders, total>>
    BY <1>1 DEF InsertItem, Advance, TypeOK, Actors
  <2>2. ASSUME NEW j \in 1 .. Len(rows'[r]) PROVE RowExact(r, j)'
    <3>1. CASE j = i
      BY <1>2, <1>5, <2>1, <3>1 DEF RowExact
    <3>2. CASE j # i
      <4>1. j \in 1 .. Len(rows[r])
        BY <1>2, <1>5, <3>2
      <4>2. RowExact(r, j)
        BY <1>1, <4>1 DEF InsertItem, CallInv, Inserting
      <4>3. QED
        BY <1>5, <2>1, <4>1, <4>2 DEF RowExact
    <3>3. QED
      BY <3>1, <3>2
  <2>3. /\ Inserting(r) /\ Len(quote[r]) <= Len(cart[r]) /\ QuotedExist(r)
        /\ pc[r] = "item"
    BY <1>1 DEF CallInv, InsertItem
  <2>4. Inserting(r)'
    BY <1>2, <1>5, <2>1, <2>2, <2>3 DEF Inserting
  <2>5. QED
    BY <2>1, <2>3, <2>4 DEF CallInv, Quoting, QuotedExist
<1>8. ASSUME NEW q \in Calls, q # r PROVE CallInv(q)'
  <2>1. UNCHANGED <<cart[q], quote[q], rows[q], pc[q], at[q], total[q], orders[q]>>
    BY <1>1, <1>8 DEF InsertItem, Advance, TypeOK, Actors
  <2>2. QED
    BY <2>1, Untouched DEF IInv
<1>9. QED
  BY <1>6, <1>7, <1>8 DEF IInv, InsertItem

LEMMA CommitStep ==
  ASSUME IInv, NEW r \in Calls, Commit(r)
  PROVE  IInv'
<1>1. TypeOK /\ CallInv(r)
  BY DEF IInv
<1>2. [total |-> total[r], lines |-> rows[r]] \in Order
  BY <1>1 DEF Commit, CallInv, Inserting, TypeOK, Order
<1>3. TypeOK'
  BY <1>1, <1>2 DEF Commit, Goto, Release, local, TypeOK, Actors
<1>4. ASSUME NEW q \in Calls PROVE CallInv(q)'
  <2>1. /\ UNCHANGED <<cart[q], quote[q], rows[q]>>
        /\ pc'[q] = "done" \/ UNCHANGED <<pc[q], at[q], total[q], orders[q]>>
    BY <1>1 DEF Commit, Goto, Release, local, TypeOK, Actors
  <2>2. QED
    BY <2>1, Untouched DEF IInv
<1>5. \A x \in Settlers : pc'[x] \in {"take", "done"}
  BY <1>1 DEF IInv, Commit, Goto, TypeOK, Actors
<1>6. QED
  BY <1>3, <1>4, <1>5 DEF IInv

\* Calls and settlements that end without an effect.
LEMMA EndStep ==
  ASSUME IInv, NEW x \in Actors, End(x)
  PROVE  IInv'
<1>1. TypeOK
  BY DEF IInv
<1>2. TypeOK'
  BY <1>1 DEF End, Goto, Release, local, TypeOK, Actors
<1>3. ASSUME NEW q \in Calls PROVE CallInv(q)'
  <2>1. /\ UNCHANGED <<cart[q], quote[q], rows[q]>>
        /\ pc'[q] = "done" \/ UNCHANGED <<pc[q], at[q], total[q], orders[q]>>
    BY <1>1 DEF End, Goto, Release, local, TypeOK, Actors
  <2>2. QED
    BY <2>1, Untouched DEF IInv
<1>4. \A y \in Settlers : pc'[y] \in {"take", "done"}
  BY <1>1 DEF IInv, End, Goto, TypeOK, Actors
<1>5. QED
  BY <1>2, <1>3, <1>4 DEF IInv

\* Settlements and the admin move nothing that a call knows.
LEMMA OthersStep ==
  ASSUME IInv,
         \/ \E x \in Settlers : SelectForUpdate(x)
         \/ \E p \in Products, n \in Prices : UpdatePrice(p, n)
  PROVE  IInv'
<1>1. TypeOK
  BY DEF IInv
<1>2. ASSUME NEW x \in Settlers, SelectForUpdate(x) PROVE IInv'
  <2>1. route[x] \in Seq(Products) /\ at[x] \in Nat \ {0} /\ at[x] <= Len(route[x])
    BY <1>1, <1>2, DataAssumption DEF TypeOK, SelectForUpdate, Actors
  <2>2. route[x][at[x]] \in Products
    BY <2>1
  <2>3. TypeOK'
    BY <1>1, <1>2, <2>2 DEF SelectForUpdate, Lock, Advance, TypeOK, Actors
  <2>4. ASSUME NEW q \in Calls PROVE CallInv(q)'
    <3>1. q # x
      BY DataAssumption
    <3>2. UNCHANGED <<cart[q], quote[q], rows[q], pc[q], at[q], total[q], orders[q]>>
      BY <1>1, <1>2, <3>1 DEF SelectForUpdate, Advance, TypeOK, Actors
    <3>3. QED
      BY <3>2, Untouched DEF IInv
  <2>5. QED
    BY <1>2, <2>3, <2>4 DEF IInv, SelectForUpdate
<1>3. ASSUME NEW p \in Products, NEW n \in Prices, UpdatePrice(p, n) PROVE IInv'
  <2>1. TypeOK'
    BY <1>1, <1>3, DataAssumption DEF UpdatePrice, local, TypeOK
  <2>2. ASSUME NEW q \in Calls PROVE CallInv(q)'
    <3>1. UNCHANGED <<cart[q], quote[q], rows[q], pc[q], at[q], total[q], orders[q]>>
      BY <1>3 DEF UpdatePrice, local
    <3>2. QED
      BY <3>1, Untouched DEF IInv
  <2>3. QED
    BY <1>3, <2>1, <2>2 DEF IInv, UpdatePrice
<1>4. QED
  BY <1>2, <1>3

LEMMA Inductive == IInv /\ [Next]_vars => IInv'
<1> SUFFICES ASSUME IInv, [Next]_vars PROVE IInv'
  OBVIOUS
<1>1. ASSUME NEW r \in Calls, Create(r) \/ Fail(r) PROVE IInv'
  <2>1. CASE GetProduct(r)
    BY <2>1, GetProductStep
  <2>2. CASE InsertOrder(r)
    BY <2>2, InsertOrderStep
  <2>3. CASE InsertItem(r)
    BY <2>3, InsertItemStep
  <2>4. CASE Commit(r)
    BY <2>4, CommitStep
  <2>5. CASE Refuse(r) \/ RejectItem(r) \/ Fail(r)
    <3>1. r \in Actors /\ End(r)
      BY <2>5 DEF Refuse, RejectItem, Fail, Actors
    <3>2. QED
      BY <3>1, EndStep
  <2>6. QED
    BY <1>1, <2>1, <2>2, <2>3, <2>4, <2>5 DEF Create
<1>2. ASSUME NEW x \in Settlers, Settle(x) \/ Abort(x) PROVE IInv'
  <2>1. CASE SelectForUpdate(x)
    BY <2>1, OthersStep
  <2>2. CASE Settled(x) \/ Abort(x)
    <3>1. x \in Actors /\ End(x)
      BY <2>2 DEF Settled, Abort, Actors
    <3>2. QED
      BY <3>1, EndStep
  <2>3. QED
    BY <1>2, <2>1, <2>2 DEF Settle
<1>3. ASSUME NEW x \in Actors, DeadlockVictim(x) PROVE IInv'
  <2>1. End(x)
    BY <1>3 DEF DeadlockVictim
  <2>2. QED
    BY <2>1, EndStep
<1>4. ASSUME NEW p \in Products, NEW n \in Prices, UpdatePrice(p, n) PROVE IInv'
  BY <1>4, OthersStep
<1>5. CASE UNCHANGED vars
  <2>1. TypeOK'
    BY <1>5 DEF vars, IInv, TypeOK
  <2>2. ASSUME NEW q \in Calls PROVE CallInv(q)'
    <3>1. UNCHANGED <<cart[q], quote[q], rows[q], pc[q], at[q], total[q], orders[q]>>
      BY <1>5 DEF vars
    <3>2. QED
      BY <3>1, Untouched DEF IInv
  <2>3. QED
    BY <1>5, <2>1, <2>2 DEF vars, IInv
<1>6. QED
  BY <1>1, <1>2, <1>3, <1>4, <1>5 DEF Next

-----------------------------------------------------------------------------
\* The data of calls, orders and settlements stay well typed: what is stored of
\* an order is of the widths of its columns.
THEOREM WellTyped == Spec => []TypeOK
BY Initially, Inductive, PTL DEF Spec, IInv

-----------------------------------------------------------------------------
\* Deadlocks.  Rows are never locked by two transactions that exclude each
\* other; a cycle over a single product would need that.

LocksCompatible ==
  \A x \in Actors : \A y \in Rivals(x) : locks[x] \cap locks[y] = {}

LEMMA RivalsSymmetric ==
  \A x, y \in Actors : y \in Rivals(x) <=> x \in Rivals(y)
BY DataAssumption DEF Rivals, Actors

LEMMA LockStep ==
  ASSUME TypeOK, LocksCompatible, NEW x \in Actors, NEW p \in Products,
         Free(x, p), Lock(x, p)
  PROVE  LocksCompatible'
<1> SUFFICES ASSUME NEW y \in Actors, NEW z \in Rivals(y)
             PROVE  locks'[y] \cap locks'[z] = {}
  BY DEF LocksCompatible, Rivals
<1>1. z \in Actors /\ z # y /\ y \in Rivals(z)
  BY RivalsSymmetric, DataAssumption DEF Rivals, Actors
<1>2. locks[y] \cap locks[z] = {}
  BY DEF LocksCompatible
<1>3. \A a \in Actors : locks'[a] = IF a = x THEN locks[a] \cup {p} ELSE locks[a]
  BY DEF Lock, TypeOK
<1>4. CASE y = x
  BY <1>1, <1>2, <1>3, <1>4 DEF Free
<1>5. CASE z = x
  BY <1>1, <1>2, <1>3, <1>5 DEF Free
<1>6. QED
  BY <1>1, <1>2, <1>3, <1>4, <1>5

LEMMA ReleaseStep ==
  ASSUME TypeOK, LocksCompatible, NEW x \in Actors, Release(x)
  PROVE  LocksCompatible'
<1>1. \A a \in Actors : locks'[a] \subseteq locks[a]
  BY DEF Release, TypeOK
<1>2. QED
  BY <1>1 DEF LocksCompatible, Rivals, Actors

LEMMA LocksInductive == IInv /\ LocksCompatible /\ [Next]_vars => LocksCompatible'
<1> SUFFICES ASSUME IInv, LocksCompatible, [Next]_vars PROVE LocksCompatible'
  OBVIOUS
<1>1. TypeOK
  BY DEF IInv
<1>2. ASSUME UNCHANGED locks PROVE LocksCompatible'
  BY <1>2 DEF LocksCompatible, Rivals
<1>3. ASSUME NEW r \in Calls, Create(r) \/ Fail(r) PROVE LocksCompatible'
  <2>1. CASE GetProduct(r) \/ InsertOrder(r)
    BY <1>2, <2>1 DEF GetProduct, InsertOrder
  <2>2. CASE InsertItem(r)
    <3>1. Line(r).product \in Products
      <4>1. CallInv(r) /\ at[r] \in 1 .. Len(quote[r])
        BY <1>1, <2>2, CartLine
        DEF IInv, CallInv, Inserting, InsertItem, Done, TypeOK, Actors
      <4>2. QED
        BY <4>1 DEF CallInv, QuotedExist, Line
    <3>2. Free(r, Line(r).product) /\ Lock(r, Line(r).product) /\ r \in Actors
      BY <2>2 DEF InsertItem, Actors
    <3>3. QED
      BY <1>1, <3>1, <3>2, LockStep
  <2>3. CASE Commit(r) \/ Refuse(r) \/ RejectItem(r) \/ Fail(r)
    <3>1. r \in Actors /\ Release(r)
      BY <2>3 DEF Commit, Refuse, RejectItem, Fail, End, Actors
    <3>2. QED
      BY <1>1, <3>1, ReleaseStep
  <2>4. QED
    BY <1>3, <2>1, <2>2, <2>3 DEF Create
<1>4. ASSUME NEW x \in Settlers, Settle(x) \/ Abort(x) PROVE LocksCompatible'
  <2>1. CASE SelectForUpdate(x)
    <3>1. x \in Actors /\ route[x] \in Seq(Products) /\ at[x] \in 1 .. Len(route[x])
      BY <1>1, <2>1, DataAssumption DEF TypeOK, SelectForUpdate, Actors
    <3>2. route[x][at[x]] \in Products
      BY <3>1
    <3>3. QED
      BY <1>1, <2>1, <3>1, <3>2, LockStep DEF SelectForUpdate
  <2>2. CASE Settled(x) \/ Abort(x)
    <3>1. x \in Actors /\ Release(x)
      BY <2>2 DEF Settled, Abort, End, Actors
    <3>2. QED
      BY <1>1, <3>1, ReleaseStep
  <2>3. QED
    BY <1>4, <2>1, <2>2 DEF Settle
<1>5. ASSUME NEW x \in Actors, DeadlockVictim(x) PROVE LocksCompatible'
  BY <1>1, <1>5, ReleaseStep DEF DeadlockVictim, End
<1>6. ASSUME NEW p \in Products, NEW n \in Prices, UpdatePrice(p, n) PROVE LocksCompatible'
  BY <1>2, <1>6 DEF UpdatePrice
<1>7. CASE UNCHANGED vars
  BY <1>2, <1>7 DEF vars
<1>8. QED
  BY <1>3, <1>4, <1>5, <1>6, <1>7 DEF Next

LEMMA ShapeFollows == LocksCompatible => DeadlockShape
<1> SUFFICES ASSUME LocksCompatible, NEW C \in SUBSET Actors, DeadlockSet(C)
             PROVE  /\ C \cap Settlers # {}
                    /\ \E x, y \in C : Wanted(x) # Wanted(y)
  BY DEF DeadlockShape
<1>1. PICK x \in C : TRUE
  BY DEF DeadlockSet
<1>2. PICK y \in C : WaitsFor(x, y)
  BY DEF DeadlockSet
<1>3. PICK z \in C : WaitsFor(y, z)
  BY DEF DeadlockSet
<1>4. C \cap Settlers # {}
  BY <1>1, <1>2, DataAssumption DEF WaitsFor, Rivals, Actors
<1>5. Wanted(x) # Wanted(y)
  <2>1. PICK p : p \in Wanted(x) \cap locks[y]
    BY <1>2 DEF WaitsFor
  <2>2. PICK q : q \in Wanted(y) \cap locks[z]
    BY <1>3 DEF WaitsFor
  <2>3. z \in Rivals(y) /\ y \in Actors
    BY <1>3 DEF WaitsFor
  <2>4. p # q
    BY <2>1, <2>2, <2>3 DEF LocksCompatible
  <2>5. \A a, b \in Wanted(x) : a = b
    BY DEF Wanted
  <2>6. QED
    BY <2>1, <2>2, <2>4, <2>5
<1>6. QED
  BY <1>4, <1>5

\* A deadlock of orders and settlements always has a settlement in it, and two
\* products: PostgreSQL can always end it by failing one of them.
THEOREM DeadlocksNeedSettlement == Spec => []DeadlockShape
<1>1. Init => LocksCompatible
  BY DEF Init, LocksCompatible, Rivals, Actors
<1>2. QED
  BY <1>1, Initially, Inductive, LocksInductive, ShapeFollows, PTL DEF Spec

-----------------------------------------------------------------------------
\* The refinement: GetProduct is Quote, Commit is Place, the admin's write is
\* WritePrice, and everything else leaves what Ordering sees alone.

placedLines == [r \in Calls |-> IF Made(r) THEN orders[r].lines ELSE NoOrder]

LEMMA MapsInit == Init => Promise!Init
<1> SUFFICES ASSUME Init PROVE Promise!Init
  OBVIOUS
<1>1. placedLines = [r \in Calls |-> NoOrder]
  BY DEF Init, Made, placedLines
<1>2. QED
  BY <1>1 DEF Init, Promise!Init, placedLines

LEMMA MapsCommit ==
  ASSUME IInv, NEW r \in Calls, Commit(r)
  PROVE  Promise!Place(r)
<1>1. TypeOK /\ CallInv(r) /\ pc[r] = "item" /\ at[r] > Len(cart[r])
  BY DEF IInv, Commit, Done
<1>2. /\ orders[r] = NoOrder /\ cart[r] # << >> /\ Len(quote[r]) = Len(cart[r])
      /\ rows[r] \in Seq(Priced) /\ Len(rows[r]) = Len(cart[r])
      /\ \A i \in 1 .. Len(rows[r]) : RowExact(r, i)
  <2>1. Inserting(r) /\ rows[r] \in Seq(Priced) /\ cart[r] \in Seq(Asked)
    BY <1>1, CartLine DEF CallInv, TypeOK
  <2>2. Len(rows[r]) \in Nat /\ Len(cart[r]) \in Nat
    BY <2>1, LenProperties
  <2>3. QED
    BY <1>1, <2>1, <2>2 DEF Inserting
<1>3. rows[r] = Promise!Lines(r)
  <2>1. rows[r] = [i \in 1 .. Len(rows[r]) |-> rows[r][i]]
    BY <1>2
  <2>2. \A i \in 1 .. Len(cart[r]) :
          rows[r][i] = [product |-> cart[r][i].product, quantity |-> cart[r][i].quantity,
                        price |-> quote[r][i]]
    BY <1>2 DEF RowExact
  <2>3. QED
    BY <1>2, <2>1, <2>2 DEF Promise!Lines
<1>4. [total |-> total[r], lines |-> rows[r]] # NoOrder
  <2>1. [total |-> total[r], lines |-> rows[r]] \in Order
    BY <1>1, <1>2 DEF CallInv, Inserting, Order
  <2>2. QED
    BY <2>1, DataAssumption
<1>5. placedLines' = [placedLines EXCEPT ![r] = rows[r]]
  BY <1>1, <1>4 DEF Commit, TypeOK, placedLines, Made
<1>6. QED
  BY <1>2, <1>3, <1>5 DEF Promise!Place, placedLines, Commit, local, Made

LEMMA MapsNext ==
  ASSUME IInv, [Next]_vars
  PROVE  [Promise!Next]_(Promise!all)
<1> USE DEF Promise!Next, Promise!all
<1>1. ASSUME UNCHANGED <<price, cart, quote, orders>>
      PROVE  UNCHANGED Promise!all
  BY <1>1 DEF Made
<1>2. ASSUME NEW r \in Calls, GetProduct(r) PROVE Promise!Quote(r)
  <2>1. TypeOK /\ CallInv(r)
    BY DEF IInv
  <2>2. /\ at[r] = Len(quote[r]) + 1 /\ orders[r] = NoOrder /\ at[r] <= Len(cart[r])
    BY <1>2, <2>1, CartLine DEF GetProduct, Done, CallInv, Quoting, TypeOK, Actors
  <2>3. cart[r][at[r]].product \in Products /\ cart[r][at[r]].quantity > 0
    BY <1>2, <2>1, <2>2, CartLine DEF GetProduct, Refused, Line, TypeOK, Actors
  <2>4. QED
    BY <1>2, <2>2, <2>3 DEF GetProduct, Line, Promise!Quote, Made
<1>3. ASSUME NEW x \in Actors, End(x) PROVE UNCHANGED Promise!all
  BY <1>1, <1>3 DEF End, local
<1>4. ASSUME NEW r \in Calls, Create(r) \/ Fail(r) PROVE [Promise!Next]_(Promise!all)
  <2>1. CASE GetProduct(r)
    BY <1>2, <2>1
  <2>2. CASE InsertOrder(r)
    BY <1>1, <2>2 DEF InsertOrder
  <2>3. CASE InsertItem(r)
    BY <1>1, <2>3 DEF InsertItem
  <2>4. CASE Commit(r)
    BY <2>4, MapsCommit
  <2>5. CASE Refuse(r) \/ RejectItem(r) \/ Fail(r)
    BY <1>3, <2>5 DEF Refuse, RejectItem, Fail, Actors
  <2>6. QED
    BY <1>4, <2>1, <2>2, <2>3, <2>4, <2>5 DEF Create
<1>5. ASSUME NEW x \in Settlers, Settle(x) \/ Abort(x) PROVE UNCHANGED Promise!all
  <2>1. CASE SelectForUpdate(x)
    BY <1>1, <2>1 DEF SelectForUpdate
  <2>2. CASE Settled(x) \/ Abort(x)
    BY <1>3, <2>2 DEF Settled, Abort, Actors
  <2>3. QED
    BY <1>5, <2>1, <2>2 DEF Settle
<1>6. ASSUME NEW x \in Actors, DeadlockVictim(x) PROVE UNCHANGED Promise!all
  BY <1>3, <1>6 DEF DeadlockVictim
<1>7. ASSUME NEW p \in Products, NEW n \in Prices, UpdatePrice(p, n)
      PROVE  Promise!WritePrice(p, n)
  BY <1>7 DEF UpdatePrice, local, Promise!WritePrice, Made
<1>8. CASE UNCHANGED vars
  BY <1>1, <1>8 DEF vars
<1>9. QED
  BY <1>4, <1>5, <1>6, <1>7, <1>8 DEF Next

\* Every order is made in one step, whole, of the prices its call has read, and
\* is never changed by any other call, settlement, failure or deadlock.
THEOREM Implements == Spec => Ordered
BY MapsInit, Initially, Inductive, MapsNext, PTL DEF Spec, Ordered, Promise!Spec

-----------------------------------------------------------------------------
\* Totals.  An int that wraps is off by whole multiples of its range; the
\* products of two INTs are small enough that four of them, if they come to an
\* INT after wrapping, came to that INT before it.

Modulus == 4 * Half * Half

\* What the first four of a cart's quoted lines come to.
Term(r, i) == quote[r][i] * cart[r][i].quantity
Piece(r, i) == IF i <= Len(quote[r]) THEN Term(r, i) ELSE 0
FirstFour(r) == Piece(r, 1) + Piece(r, 2) + Piece(r, 3) + Piece(r, 4)

\* The total of a call is what it has priced so far, up to whole ranges.
Added(r) ==
  pc[r] \in {"get", "item"} /\ Len(quote[r]) <= 4 =>
    \E k \in Int : total[r] = FirstFour(r) + k * Modulus

\* Worth by cases: its recursion is unfolded for sequences of up to four.
LEMMA WorthOfFour ==
  ASSUME NEW s \in Seq(Priced), Len(s) <= 4
  PROVE  Worth(s) =   (IF 1 <= Len(s) THEN s[1].price * s[1].quantity ELSE 0)
                    + (IF 2 <= Len(s) THEN s[2].price * s[2].quantity ELSE 0)
                    + (IF 3 <= Len(s) THEN s[3].price * s[3].quantity ELSE 0)
                    + (IF 4 <= Len(s) THEN s[4].price * s[4].quantity ELSE 0)
<1> DEFINE L == Len(s)
           t == [n \in 1 .. L |-> s[n].price * s[n].quantity]
           w == [n \in 0 .. L |-> IF n = 0 THEN 0 ELSE IF n = 1 THEN t[1]
                                  ELSE IF n = 2 THEN t[1] + t[2]
                                  ELSE IF n = 3 THEN t[1] + t[2] + t[3]
                                  ELSE t[1] + t[2] + t[3] + t[4]]
           f == CHOOSE g : g = [n \in 0 .. L |-> IF n = 0 THEN 0 ELSE g[n - 1] + t[n]]
<1>1. L \in 0 .. 4 /\ \A n \in 1 .. L : t[n] \in Int
  <2>1. \A n \in 1 .. L : s[n] \in Priced
    OBVIOUS
  <2>2. \A x \in Priced : x.price * x.quantity \in Int
    BY DataAssumption DEF Priced, Int4
  <2>3. L \in 0 .. 4
    <3>1. Len(s) \in Nat /\ L = Len(s) /\ Len(s) <= 4
      BY LenProperties
    <3> HIDE DEF t, w, f, L
    <3> QED BY <3>1
  <2>4. \A n \in 1 .. L : t[n] = s[n].price * s[n].quantity
    OBVIOUS
  <2> HIDE DEF t
  <2> QED BY <2>1, <2>2, <2>3, <2>4
<1>2. \A n \in 1 .. L : t[n] = s[n].price * s[n].quantity
  OBVIOUS
<1>3. Worth(s) = f[L]
  <2>1. (CHOOSE g : g = [n \in 0 .. Len(s) |->
             IF n = 0 THEN 0 ELSE g[n - 1] + s[n].price * s[n].quantity]) = f
    <3>1. \A g : [n \in 0 .. Len(s) |-> IF n = 0 THEN 0 ELSE g[n - 1] + s[n].price * s[n].quantity]
               = [n \in 0 .. L |-> IF n = 0 THEN 0 ELSE g[n - 1] + t[n]]
      BY <1>1
    <3> QED BY <3>1
  <2> QED BY <2>1 DEF Worth
<1> HIDE DEF t
<1>4. w = [n \in 0 .. L |-> IF n = 0 THEN 0 ELSE w[n - 1] + t[n]]
  <2> SUFFICES ASSUME NEW n \in 0 .. L, n # 0 PROVE w[n] = w[n - 1] + t[n]
    OBVIOUS
  <2>1. n \in 1 .. 4 /\ n - 1 \in 0 .. L /\ \A m \in 1 .. n : t[m] \in Int
    BY <1>1
  <2>2. CASE n = 1
    BY <2>1, <2>2
  <2>3. CASE n = 2
    BY <2>1, <2>3
  <2>4. CASE n = 3
    BY <2>1, <2>4
  <2>5. CASE n = 4
    BY <2>1, <2>5
  <2> QED BY <2>1, <2>2, <2>3, <2>4, <2>5
<1>5. f = [n \in 0 .. L |-> IF n = 0 THEN 0 ELSE f[n - 1] + t[n]]
  <2> HIDE DEF w
  <2> QED BY <1>4
<1> HIDE DEF f, w
<1>6. /\ f[0] = 0
      /\ 1 <= L => f[1] = t[1]
      /\ 2 <= L => f[2] = t[1] + t[2]
      /\ 3 <= L => f[3] = t[1] + t[2] + t[3]
      /\ 4 <= L => f[4] = t[1] + t[2] + t[3] + t[4]
  <2>1. \A n \in 1 .. L : f[n] = f[n - 1] + t[n]
    BY <1>1, <1>5
  <2>2. f[0] = 0
    BY <1>1, <1>5
  <2>3. 1 <= L => f[1] = t[1]
    BY <1>1, <2>1, <2>2
  <2>4. 2 <= L => f[2] = t[1] + t[2]
    BY <1>1, <2>1, <2>3
  <2>5. 3 <= L => f[3] = t[1] + t[2] + t[3]
    BY <1>1, <2>1, <2>4
  <2>6. 4 <= L => f[4] = t[1] + t[2] + t[3] + t[4]
    BY <1>1, <2>1, <2>5
  <2> QED BY <2>2, <2>3, <2>4, <2>5, <2>6
<1> QED
  <2>1. f[L] =   (IF 1 <= L THEN t[1] ELSE 0) + (IF 2 <= L THEN t[2] ELSE 0)
               + (IF 3 <= L THEN t[3] ELSE 0) + (IF 4 <= L THEN t[4] ELSE 0)
    <3>1. L = 0 \/ L = 1 \/ L = 2 \/ L = 3 \/ L = 4
      BY <1>1
    <3> QED BY <1>1, <1>6, <3>1
  <2> QED BY <1>1, <1>2, <1>3, <2>1

\* What Wrap adds to an integer is a multiple of the range.
LEMMA WrapOff == \A n \in Int : \E k \in Int : Wrap(n) = n + k * Modulus
<1> DEFINE M == 4 * Half * Half
<1>1. M \in Nat \ {0} /\ 2 * Half * Half \in Int
  <2>1. Half \in Nat \ {0}
    BY DataAssumption
  <2>2. Half * Half \in Nat \ {0} /\ M = 4 * (Half * Half) /\ 2 * Half * Half = 2 * (Half * Half)
    BY <2>1
  <2> HIDE DEF M
  <2> QED BY <2>2
<1> HIDE DEF M
<1>2. ASSUME NEW a \in Int PROVE a \div M \in Int /\ a = M * (a \div M) + (a % M)
  BY <1>1
<1>3. ASSUME NEW n \in Int PROVE \E k \in Int : Wrap(n) = n + k * M
  <2> DEFINE a == n + 2 * Half * Half
             d == a \div M
  <2>1. a \in Int
    BY <1>1
  <2>2. d \in Int /\ a % M = a - M * d
    <3>1. d \in Int /\ a = M * d + (a % M)
      BY <1>2, <2>1
    <3>2. a % M \in Int
      BY <1>1, <2>1
    <3> HIDE DEF d, a
    <3>3. M * d \in Int
      BY <1>1, <3>1
    <3> QED BY <3>1, <3>2, <3>3, <2>1
  <2>3. Wrap(n) = (a % M) - 2 * Half * Half
    BY DEF Wrap, M
  <2>4. -d \in Int /\ (-d) * M = -(M * d) /\ M * d \in Int
    BY <2>2, <1>1
  <2>5. Wrap(n) = n + (-d) * M
    BY <1>1, <2>2, <2>3, <2>4
  <2> QED BY <2>4, <2>5
<1> QED BY <1>3 DEF M, Modulus

\* The product of an INT and a positive INT.
LEMMA ProductBound ==
  ASSUME NEW H \in Nat \ {0}, NEW p \in -H .. H - 1, NEW q \in 1 .. H - 1
  PROVE  /\ p * q \in Int
         /\ -(H * H - H) <= p * q
         /\ p * q <= H * H - H
<1>1. p \in Int /\ q \in Nat /\ p + H \in Nat /\ H - 1 - q \in Nat /\ H - 1 - p \in Nat
  OBVIOUS
<1>2. /\ (p + H) * q = p * q + H * q /\ (p + H) * q \in Nat
      /\ (H - 1 - q) * H = H * H - H - H * q /\ (H - 1 - q) * H \in Nat
      /\ (H - 1 - p) * q = H * q - q - p * q /\ (H - 1 - p) * q \in Nat
      /\ p * q \in Int /\ H * q \in Int /\ H * H \in Int
  BY <1>1
<1> QED BY <1>1, <1>2

\* A sum of four such products that comes to an INT up to whole ranges is that
\* INT.
LEMMA SumUnwrapped ==
  ASSUME NEW x \in Int, NEW n \in Int4, NEW k \in Int, n = x + k * Modulus,
         -(4 * (Half * Half - Half)) <= x, x <= 4 * (Half * Half - Half)
  PROVE  n = x
<1>1. Half \in Nat \ {0} /\ n \in Int /\ -Half <= n /\ n <= Half - 1
  BY DataAssumption DEF Int4
<1> DEFINE Q == Half * Half
<1>2. Q \in Nat \ {0} /\ Modulus = 4 * Q
  BY <1>1 DEF Modulus
<1>3. -(4 * Q - 4 * Half) <= x /\ x <= 4 * Q - 4 * Half
  BY <1>1
<1> HIDE DEF Q
<1>4. k * Modulus = 4 * (k * Q) /\ k * Q \in Int
  BY <1>2
<1>5. CASE k >= 1
  <2>1. (k - 1) * Q \in Nat /\ (k - 1) * Q = k * Q - Q
    BY <1>2, <1>5
  <2> QED BY <1>1, <1>2, <1>3, <1>4, <2>1
<1>6. CASE k <= -1
  <2>1. (-1 - k) * Q \in Nat /\ (-1 - k) * Q = -Q - k * Q
    BY <1>2, <1>6
  <2> QED BY <1>1, <1>2, <1>3, <1>4, <2>1
<1>7. CASE k = 0
  BY <1>2, <1>7
<1> QED BY <1>5, <1>6, <1>7

\* Pricing a line adds its term.
LEMMA PricingAdds ==
  ASSUME IInv, NEW r \in Calls, Added(r), GetProduct(r)
  PROVE  Added(r)'
<1> DEFINE i == at[r]
           p == price[Line(r).product]
           x == p * Line(r).quantity
<1>1. TypeOK /\ CallInv(r) /\ TypeOK'
  BY GetProductStep DEF IInv
<1>2. /\ i \in 1 .. Len(cart[r]) /\ Line(r) = cart[r][i]
      /\ Line(r).quantity \in Int /\ Line(r).product \in Products
  <2>1. i \in Nat \ {0} /\ i <= Len(cart[r])
    BY <1>1, CartLine DEF GetProduct, Done, TypeOK, Actors
  <2> QED BY <1>1, <2>1, CartLine DEF GetProduct, Refused, Line
<1>3. p \in Int4 /\ p \in Int /\ x \in Int /\ total[r] \in Int
  <2>1. p \in Int4 /\ total[r] \in Int
    BY <1>1, <1>2 DEF TypeOK
  <2>2. p \in Int
    BY <2>1, DataAssumption DEF Int4
  <2> HIDE DEF p
  <2>3. x \in Int
    BY <2>2, <1>2
  <2> QED BY <2>1, <2>2, <2>3
<1>4. /\ quote[r] \in Seq(Int4) /\ Len(quote[r]) = i - 1
      /\ quote'[r] = Append(quote[r], p) /\ pc[r] = "get"
      /\ total'[r] = Wrap(total[r] + Wrap(x)) /\ cart' = cart
  <2>1. /\ quote' = [quote EXCEPT ![r] = Append(@, p)] /\ pc[r] = "get" /\ cart' = cart
        /\ total' = [total EXCEPT ![r] = Wrap(@ + Wrap(x))]
    BY DEF GetProduct
  <2>2. /\ quote[r] \in Seq(Int4) /\ quote'[r] = Append(quote[r], p)
        /\ total'[r] = Wrap(total[r] + Wrap(x))
    <3> HIDE DEF x, p
    <3> QED BY <1>1, <2>1 DEF TypeOK
  <2>3. i = Len(quote[r]) + 1
    BY <1>1, <2>1 DEF CallInv, Quoting
  <2>4. Len(quote[r]) \in Nat
    BY <2>2, LenProperties
  <2> HIDE DEF x, p
  <2> QED BY <2>1, <2>2, <2>3, <2>4
<1>5. /\ Len(quote'[r]) = i /\ quote'[r][i] = p
      /\ \A j \in 1 .. i - 1 : quote'[r][j] = quote[r][j]
  BY <1>2, <1>3, <1>4, AppendProperties
<1>6. SUFFICES ASSUME i <= 4 PROVE \E k \in Int : total'[r] = FirstFour(r)' + k * Modulus
  BY <1>5 DEF Added
<1>7. PICK k \in Int : total[r] = FirstFour(r) + k * Modulus
  BY <1>2, <1>4, <1>6 DEF Added
<1>8. i \in 1 .. 4
  BY <1>2, <1>6
<1>9. /\ \A j \in 1 .. 4 : Piece(r, j) \in Int
      /\ \A j \in 1 .. 4 : Piece(r, j)' = IF j = i THEN x ELSE Piece(r, j)
      /\ Piece(r, i) = 0
  <2>1. \A j \in 1 .. i - 1 : quote[r][j] \in Int /\ cart[r][j].quantity \in Int
    <3>1. \A j \in 1 .. i - 1 : quote[r][j] \in Int4 /\ j \in 1 .. Len(cart[r])
      BY <1>2, <1>4, CartLine, <1>1
    <3> QED BY <3>1, <1>1, CartLine, DataAssumption DEF Int4
  <2>2. ASSUME NEW j \in 1 .. 4 PROVE Piece(r, j) \in Int
    BY <1>4, <1>8, <2>1 DEF Piece, Term
  <2>3. ASSUME NEW j \in 1 .. 4 PROVE Piece(r, j)' = IF j = i THEN x ELSE Piece(r, j)
    <3>1. CASE j = i
      BY <3>1, <1>2, <1>4, <1>5 DEF Piece, Term
    <3>2. CASE j < i
      BY <3>2, <1>4, <1>5, <1>8 DEF Piece, Term
    <3>3. CASE j > i
      BY <3>3, <1>4, <1>5, <1>8 DEF Piece
    <3> QED BY <3>1, <3>2, <3>3, <1>8
  <2>4. Piece(r, i) = 0
    BY <1>4, <1>8 DEF Piece
  <2> QED BY <2>2, <2>3, <2>4
<1> HIDE DEF x
<1>10. FirstFour(r) \in Int /\ FirstFour(r)' = FirstFour(r) + x
  <2>1. i = 1 \/ i = 2 \/ i = 3 \/ i = 4
    BY <1>8
  <2> QED BY <1>3, <1>9, <2>1 DEF FirstFour
<1>11. PICK m \in Int : Wrap(x) = x + m * Modulus
  BY <1>3, WrapOff
<1>12. PICK l \in Int : Wrap(total[r] + Wrap(x)) = total[r] + Wrap(x) + l * Modulus
  <2>1. total[r] + Wrap(x) \in Int
    BY <1>3, WrapInt
  <2> QED BY <2>1, WrapOff
<1>13. Modulus \in Int
  BY DataAssumption DEF Modulus
<1>14. total'[r] = FirstFour(r)' + (k + m + l) * Modulus
  <2>1. /\ (k + m + l) * Modulus = k * Modulus + m * Modulus + l * Modulus
        /\ k * Modulus \in Int /\ m * Modulus \in Int /\ l * Modulus \in Int
    BY <1>13
  <2> QED BY <1>3, <1>4, <1>7, <1>10, <1>11, <1>12, <2>1
<1> QED BY <1>14

\* A committed total is what the committed lines come to.
LEMMA CommitExact ==
  ASSUME IInv, NEW r \in Calls, Added(r), Commit(r), Len(cart[r]) <= 4
  PROVE  total[r] = Worth(rows[r])
<1>1. TypeOK /\ CallInv(r) /\ pc[r] = "item"
  BY DEF IInv, Commit
<1> DEFINE n == Len(cart[r])
<1>2. /\ rows[r] \in Seq(Priced) /\ Len(rows[r]) = n /\ Len(quote[r]) = n /\ n \in 0 .. 4
      /\ total[r] \in Int4
      /\ \A i \in 1 .. n : RowExact(r, i) /\ cart[r][i].quantity > 0
  <2>1. n \in Nat /\ rows[r] \in Seq(Priced) /\ Len(rows[r]) \in Nat
    BY <1>1, CartLine DEF TypeOK
  <2>2. /\ at[r] > n /\ at[r] = Len(rows[r]) + 1 /\ Len(rows[r]) <= n /\ Len(quote[r]) = n
        /\ total[r] \in Int4
    <3>1. ~(at[r] <= n) /\ at[r] \in Nat
      BY <1>1, <2>1 DEF Commit, Done, TypeOK, Actors
    <3> QED BY <1>1, <2>1, <3>1 DEF Commit, Done, CallInv, Inserting
  <2>3. Len(rows[r]) = n
    BY <2>1, <2>2
  <2>4. ASSUME NEW i \in 1 .. n PROVE RowExact(r, i)
    BY <1>1, <2>1, <2>3, <2>4 DEF CallInv, Inserting
  <2>5. ASSUME NEW i \in 1 .. n PROVE cart[r][i].quantity > 0
    BY <1>1, <2>1, <2>2, <2>5 DEF CallInv, Inserting, QuotedExist
  <2>6. n \in 0 .. 4
    <3>1. n \in Nat /\ n <= 4
      BY <2>1
    <3> HIDE DEF n
    <3> QED BY <3>1
  <2>7. \A i \in 1 .. n : RowExact(r, i) /\ cart[r][i].quantity > 0
    BY <2>4, <2>5
  <2> HIDE DEF n
  <2> QED BY <2>1, <2>2, <2>3, <2>6, <2>7
<1>3. ASSUME NEW i \in 1 .. n
      PROVE  /\ rows[r][i].price * rows[r][i].quantity = Term(r, i)
             /\ Term(r, i) \in Int
             /\ -(Half * Half - Half) <= Term(r, i)
             /\ Term(r, i) <= Half * Half - Half
  <2>1. rows[r][i] \in Priced
    BY <1>2
  <2>2. /\ rows[r][i].price = quote[r][i] /\ rows[r][i].quantity = cart[r][i].quantity
        /\ cart[r][i].quantity > 0
    <3>1. RowExact(r, i) /\ cart[r][i].quantity > 0
      BY <1>2
    <3> QED BY <3>1 DEF RowExact
  <2>3. quote[r][i] \in -Half .. Half - 1 /\ cart[r][i].quantity \in 1 .. Half - 1
    <3>1. rows[r][i].price \in Int4 /\ rows[r][i].quantity \in Int4
      BY <2>1 DEF Priced
    <3> QED BY <3>1, <2>2, DataAssumption DEF Int4
  <2> QED BY <2>2, <2>3, ProductBound, DataAssumption DEF Term
<1>4. Half * Half - Half \in Nat
  <2>1. Half \in Nat \ {0}
    BY DataAssumption
  <2>2. Half * Half - Half = Half * (Half - 1) /\ Half - 1 \in Nat
    BY <2>1
  <2> QED BY <2>1, <2>2
<1> DEFINE B == Half * Half - Half
<1>5. ASSUME NEW i \in 1 .. 4
      PROVE  /\ Piece(r, i) = IF i <= n THEN rows[r][i].price * rows[r][i].quantity ELSE 0
             /\ Piece(r, i) \in Int /\ -B <= Piece(r, i) /\ Piece(r, i) <= B
  <2>1. CASE i <= n
    BY <2>1, <1>2, <1>3 DEF Piece
  <2>2. CASE ~(i <= n)
    BY <2>2, <1>2, <1>4 DEF Piece
  <2> QED BY <2>1, <2>2
<1>6. FirstFour(r) = Worth(rows[r])
  <2>1. Worth(rows[r]) =   (IF 1 <= n THEN rows[r][1].price * rows[r][1].quantity ELSE 0)
                         + (IF 2 <= n THEN rows[r][2].price * rows[r][2].quantity ELSE 0)
                         + (IF 3 <= n THEN rows[r][3].price * rows[r][3].quantity ELSE 0)
                         + (IF 4 <= n THEN rows[r][4].price * rows[r][4].quantity ELSE 0)
    BY <1>2, WorthOfFour
  <2>2. /\ Piece(r, 1) = IF 1 <= n THEN rows[r][1].price * rows[r][1].quantity ELSE 0
        /\ Piece(r, 2) = IF 2 <= n THEN rows[r][2].price * rows[r][2].quantity ELSE 0
        /\ Piece(r, 3) = IF 3 <= n THEN rows[r][3].price * rows[r][3].quantity ELSE 0
        /\ Piece(r, 4) = IF 4 <= n THEN rows[r][4].price * rows[r][4].quantity ELSE 0
    <3>1. 1 \in 1 .. 4 /\ 2 \in 1 .. 4 /\ 3 \in 1 .. 4 /\ 4 \in 1 .. 4
      OBVIOUS
    <3> QED BY <3>1, <1>5
  <2> QED BY <2>1, <2>2 DEF FirstFour
<1>7. FirstFour(r) \in Int /\ -(4 * B) <= FirstFour(r) /\ FirstFour(r) <= 4 * B
  <2> HIDE DEF B
  <2>1. B \in Nat
    BY <1>4 DEF B
  <2> QED BY <1>5, <2>1 DEF FirstFour
<1>8. PICK k \in Int : total[r] = FirstFour(r) + k * Modulus
  BY <1>1, <1>2 DEF Added
<1>9. total[r] = FirstFour(r)
  BY <1>2, <1>7, <1>8, SumUnwrapped
<1> QED BY <1>6, <1>9

TInv == TotalExact /\ \A r \in Calls : Added(r)

\* What a step leaves of a call's total.
LEMMA TotalsUntouched ==
  ASSUME NEW r \in Calls, Added(r), UNCHANGED <<cart[r], quote[r], total[r]>>,
         pc'[r] \in {"get", "item"} => pc[r] \in {"get", "item"}
  PROVE  Added(r)'
BY DEF Added, FirstFour, Piece, Term, Modulus

\* Each action keeps totals exact.
LEMMA TotalsKeep == IInv /\ TInv /\ [Next]_vars => TInv'
<1> SUFFICES ASSUME IInv, TInv, [Next]_vars PROVE TInv'
  OBVIOUS
<1>t. TypeOK
  BY DEF IInv
<1>1. ASSUME NEW r \in Calls, GetProduct(r) PROVE TInv'
  <2>1. TotalExact'
    BY <1>1 DEF GetProduct, TInv, TotalExact, Made
  <2>2. ASSUME NEW q \in Calls, q # r PROVE Added(q)'
    <3>1. UNCHANGED <<cart[q], quote[q], total[q], pc[q]>>
      BY <1>1, <1>t, <2>2 DEF GetProduct, TypeOK
    <3> QED BY <3>1, TotalsUntouched DEF TInv
  <2> QED BY <1>1, <2>1, <2>2, PricingAdds DEF TInv
<1>2. ASSUME NEW r \in Calls, Commit(r) PROVE TInv'
  <2>1. ASSUME NEW q \in Calls, Made(q)', Len(cart'[q]) <= 4
        PROVE  orders'[q].total = Worth(orders'[q].lines)
    <3>1. cart' = cart /\ orders' = [orders EXCEPT ![r] = [total |-> total[r], lines |-> rows[r]]]
      BY <1>2 DEF Commit
    <3>2. CASE q = r
      BY <1>2, <1>t, <2>1, <3>1, <3>2, CommitExact DEF TInv, TypeOK
    <3>3. CASE q # r
      BY <1>t, <2>1, <3>1, <3>3 DEF TInv, TotalExact, Made, TypeOK
    <3> QED BY <3>2, <3>3
  <2>2. ASSUME NEW q \in Calls PROVE Added(q)'
    <3>1. /\ UNCHANGED <<cart[q], quote[q], total[q]>>
          /\ pc'[q] \in {"get", "item"} => pc[q] \in {"get", "item"}
      BY <1>2, <1>t DEF Commit, Goto, local, TypeOK, Actors
    <3> QED BY <3>1, TotalsUntouched DEF TInv
  <2> QED BY <2>1, <2>2 DEF TInv, TotalExact
<1>3. ASSUME UNCHANGED <<cart, quote, total, orders>>,
             \A q \in Calls : pc'[q] \in {"get", "item"} => pc[q] \in {"get", "item"}
      PROVE  TInv'
  <2>1. TotalExact'
    BY <1>3 DEF TInv, TotalExact, Made
  <2> QED BY <2>1, <1>3, TotalsUntouched DEF TInv
<1>4. ASSUME NEW x \in Actors, End(x) PROVE TInv'
  BY <1>3, <1>4, <1>t DEF End, Goto, local, TypeOK, Actors
<1>5. ASSUME NEW r \in Calls, InsertOrder(r) \/ InsertItem(r) PROVE TInv'
  <2>1. UNCHANGED <<cart, quote, total, orders>>
    BY <1>5 DEF InsertOrder, InsertItem
  <2>2. \A q \in Calls : pc'[q] \in {"get", "item"} => pc[q] \in {"get", "item"}
    BY <1>5, <1>t DEF InsertOrder, InsertItem, Goto, TypeOK, Actors
  <2> QED BY <1>3, <2>1, <2>2
<1>6. ASSUME \/ \E x \in Settlers : SelectForUpdate(x)
             \/ \E p \in Products, n \in Prices : UpdatePrice(p, n)
      PROVE  TInv'
  BY <1>3, <1>6 DEF SelectForUpdate, UpdatePrice, local
<1>7. CASE UNCHANGED vars
  BY <1>3, <1>7 DEF vars
<1> QED
  BY <1>1, <1>2, <1>4, <1>5, <1>6, <1>7
  DEF Next, Create, Refuse, RejectItem, Fail, Settle, Settled, Abort, DeadlockVictim, Actors

\* An order of up to four lines costs exactly what its lines come to at the
\* prices stored with them, for every width of INT, though the sums wrap and
\* prices may be negative (orders.go:40-41, orders.go:57-64).
THEOREM TotalsAreExact == Spec => []TotalExact
<1>1. Init => TInv
  <2> SUFFICES ASSUME Init PROVE TInv
    OBVIOUS
  <2>1. TotalExact
    BY DEF Init, TotalExact, Made
  <2>2. ASSUME NEW r \in Calls PROVE Added(r)
    <3>1. FirstFour(r) = 0 /\ total[r] = 0
      BY DEF Init, FirstFour, Piece
    <3>2. Modulus \in Int
      BY DataAssumption DEF Modulus
    <3>3. total[r] = FirstFour(r) + 0 * Modulus
      BY <3>1, <3>2
    <3> QED BY <3>3 DEF Added
  <2> QED BY <2>1, <2>2 DEF TInv
<1>2. TInv => TotalExact
  BY DEF TInv
<1> QED BY <1>1, <1>2, Initially, Inductive, TotalsKeep, PTL DEF Spec
=============================================================================
