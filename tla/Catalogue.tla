------------------------------ MODULE Catalogue ------------------------------
(***************************************************************************)
(* The store catalogue (internal/repositories/products.go): admins create  *)
(* products and save forms that hold the whole row as it was when they     *)
(* were loaded, settlements take goods out of the stock, and customers     *)
(* read the list page by page while it changes.  Every request is one      *)
(* statement, or a settlement, which is one step as Settlement promises.   *)
(* Whoever fills in the forms and turns the pages is external.             *)
(***************************************************************************)
EXTENDS Integers, Sequences, FiniteSets

CONSTANTS
  Products,   \* what can be a product
  Shelf,      \* the products there are at first, newest first
  Admins, Readers,
  Amounts,    \* the units an admin counts, adds or takes away
  Baskets,    \* the units of each product that a paid order takes
  FormLimit,  \* the admin's list is the newest hundred (admin/products.go:64)
  PageSize,   \* the limit a customer asks for, or 20
  MaxWrites,  \* bound of the saves and sales
  NoForm

Forms == [product : Products, stock : Int, active : BOOLEAN]

ASSUME DataAssumption ==
  /\ Shelf \in Seq(Products)
  /\ \A i, j \in 1 .. Len(Shelf) : Shelf[i] = Shelf[j] => i = j
  /\ Amounts \subseteq Int
  /\ Baskets \subseteq [Products -> Nat]
  /\ FormLimit \in Nat /\ PageSize \in Nat \ {0} /\ MaxWrites \in Nat
  /\ NoForm \notin Forms

VARIABLES
  shelf,      \* the products there are, as ORDER BY created_at DESC has them
  stock,      \* their units
  active,     \* whether they are on sale
  form,       \* [Admins -> the form that is open, or NoForm]
  turn,       \* [Readers -> {"none", "reading", "done"}]
  inStock,    \* whether a reader asks for what is in stock only
  offset,     \* where its next page begins
  seen,       \* how often it was shown each product
  supplied,   \* history: the units admins meant to be there, sold ones included
  sold,       \* history: the units sold
  missed,     \* history: the units that left and came since a form was loaded
  slack,      \* history: the units the stock may be over and under the books
  writes      \* how many saves and sales there were

shop    == <<shelf, stock, active>>
books   == <<supplied, sold, slack>>
readers == <<turn, inStock, offset, seen>>
vars    == <<shop, form, readers, books, missed, writes>>

Elements(s) == {s[i] : i \in 1 .. Len(s)}

\* The types; no product is listed twice, and forms are for products there are.
TypeOK ==
  /\ shelf \in Seq(Products)
  /\ stock \in [Products -> Int]
  /\ active \in [Products -> BOOLEAN]
  /\ form \in [Admins -> Forms \cup {NoForm}]
  /\ turn \in [Readers -> {"none", "reading", "done"}]
  /\ inStock \in [Readers -> BOOLEAN]
  /\ offset \in [Readers -> Nat]
  /\ seen \in [Readers -> [Products -> Nat]]
  /\ supplied \in [Products -> Int]
  /\ sold \in [Products -> Nat]
  /\ missed \in [Admins -> [out : Nat, in : Nat]]
  /\ slack \in [Products -> [over : Nat, under : Nat]]
  /\ writes \in Nat
  /\ \A i, j \in 1 .. Len(shelf) : shelf[i] = shelf[j] => i = j
  /\ \A a \in Admins : form[a] # NoForm => form[a].product \in Elements(shelf)

Init ==
  /\ shelf = Shelf
  /\ stock \in [Products -> Amounts]
  /\ active \in [Products -> BOOLEAN]
  /\ form = [a \in Admins |-> NoForm]
  /\ turn = [r \in Readers |-> "none"]
  /\ inStock = [r \in Readers |-> FALSE]
  /\ offset = [r \in Readers |-> 0]
  /\ seen = [r \in Readers |-> [p \in Products |-> 0]]
  /\ supplied = stock
  /\ sold = [p \in Products |-> 0]
  /\ missed = [a \in Admins |-> [out |-> 0, in |-> 0]]
  /\ slack = [p \in Products |-> [over |-> 0, under |-> 0]]
  /\ writes = 0

-----------------------------------------------------------------------------
\* Units of p that leave or come while forms for it are open.
Moved(p, out, in) ==
  [a \in Admins |-> IF form[a] # NoForm /\ form[a].product = p
                    THEN [out |-> missed[a].out + out, in |-> missed[a].in + in]
                    ELSE missed[a]]

Rise(n, m) == IF m > n THEN m - n ELSE 0

Counted == writes < MaxWrites /\ writes' = writes + 1

\* A bug to catch: the id is not a primary key.
CreateAgain(p, n, b) ==
  /\ shelf' = <<p>> \o shelf
  /\ stock' = [stock EXCEPT ![p] = n]
  /\ active' = [active EXCEPT ![p] = b]
  /\ supplied' = [supplied EXCEPT ![p] = n]
  /\ UNCHANGED <<form, readers, sold, slack, missed, writes>>

\* INSERT: created_at is the moment of it, so the row is the first of the list.
\* Stock is not checked, by the handler or by the column.
Create(p, n, b) ==
  /\ p \notin Elements(shelf)
  /\ shelf' = <<p>> \o shelf
  /\ stock' = [stock EXCEPT ![p] = n]
  /\ active' = [active EXCEPT ![p] = b]
  /\ supplied' = [supplied EXCEPT ![p] = n]
  /\ UNCHANGED <<form, readers, sold, slack, missed, writes>>

\* An admin opens the form of a product on the admin's list.
LoadForm(a, p) ==
  /\ \E i \in 1 .. Len(shelf) : i <= FormLimit /\ shelf[i] = p
  /\ form' = [form EXCEPT ![a] = [product |-> p, stock |-> stock[p], active |-> active[p]]]
  /\ missed' = [missed EXCEPT ![a] = [out |-> 0, in |-> 0]]
  /\ UNCHANGED <<shop, readers, books, writes>>

\* UPDATE of every column of p, to n units.
Write(p, n, b) ==
  /\ Counted
  /\ stock' = [stock EXCEPT ![p] = n]
  /\ active' = [active EXCEPT ![p] = b]
  /\ UNCHANGED <<shelf, readers, sold>>

\* The form of a is saved, with n units: it should have been add more, or less,
\* than it was loaded with.
Save(a, n, add, b) ==
  LET p == form[a].product
  IN  /\ form[a] # NoForm
      /\ Write(p, n, b)
      /\ form' = [form EXCEPT ![a] = NoForm]
      /\ missed' = Moved(p, Rise(n, stock[p]), Rise(stock[p], n))
      /\ supplied' = [supplied EXCEPT ![p] = @ + add]
      /\ slack' = [slack EXCEPT ![p] = [over  |-> @.over + missed[a].out,
                                        under |-> @.under + missed[a].in]]

\* A bug to catch: what was to be added is written as the stock.
SaveUnits(a, add, b) == Save(a, add, add, b)

\* The stock a form is saved with is the one it was loaded with, or units more
\* or less.
SaveForm(a, add, b) == Save(a, form[a].stock + add, add, b)

\* The body of a PATCH that says nothing of the stock writes zero.
SaveWithoutStock(p, b) ==
  /\ p \in Elements(shelf)
  /\ Write(p, 0, b)
  /\ missed' = Moved(p, Rise(0, stock[p]), Rise(stock[p], 0))
  /\ slack' = [slack EXCEPT ![p] = [over  |-> @.over + Rise(stock[p], 0),
                                    under |-> @.under + Rise(0, stock[p])]]
  /\ UNCHANGED <<form, supplied>>

\* An order is settled: all of its goods leave the stock, where it suffices.
\* Nothing asks whether they are on sale still.
Sell(b) ==
  /\ \A p \in Products : b[p] > 0 => p \in Elements(shelf) /\ stock[p] >= b[p]
  /\ Counted
  /\ stock' = [p \in Products |-> stock[p] - b[p]]
  /\ sold' = [p \in Products |-> sold[p] + b[p]]
  /\ missed' = [a \in Admins |->
                 IF form[a] # NoForm THEN [missed[a] EXCEPT !.out = @ + b[form[a].product]]
                 ELSE missed[a]]
  /\ UNCHANGED <<shelf, active, form, readers, supplied, slack>>

-----------------------------------------------------------------------------
\* Customers.

\* The places of the rows List selects for reader r.
Listed(r) ==
  {i \in 1 .. Len(shelf) : active[shelf[i]] /\ (inStock[r] => stock[shelf[i]] > 0)}

OpenList(r, only) ==
  /\ turn[r] = "none"
  /\ turn' = [turn EXCEPT ![r] = "reading"]
  /\ inStock' = [inStock EXCEPT ![r] = only]
  /\ UNCHANGED <<shop, form, offset, seen, books, missed, writes>>

\* LIMIT and OFFSET: the products that come after the first from of the list.
Page(r, from) ==
  LET rank(i) == Cardinality({j \in Listed(r) : j <= i})
  IN  {shelf[i] : i \in {j \in Listed(r) : rank(j) \in from + 1 .. from + PageSize}}

\* Reader r is shown a page, and turns pages until one is not full.
Show(r, page) ==
  /\ turn[r] = "reading"
  /\ seen' = [seen EXCEPT ![r] = [p \in Products |-> @[p] + IF p \in page THEN 1 ELSE 0]]
  /\ offset' = [offset EXCEPT ![r] = @ + PageSize]
  /\ turn' = [turn EXCEPT ![r] = IF Cardinality(page) < PageSize THEN "done" ELSE "reading"]
  /\ UNCHANGED <<shop, form, inStock, books, missed, writes>>

\* Bugs to catch: OFFSET counts from one; or the last product of a page is the
\* first of the next.
TurnPageFromOne(r) == Show(r, Page(r, offset[r] + 1))
TurnPageOverlapping(r) == Show(r, Page(r, Rise(1, offset[r])))

TurnPage(r) == Show(r, Page(r, offset[r]))

-----------------------------------------------------------------------------
Next ==
  \/ \E p \in Products, n \in Amounts, b \in BOOLEAN : Create(p, n, b)
  \/ \E a \in Admins, p \in Products : LoadForm(a, p)
  \/ \E a \in Admins, add \in Amounts, b \in BOOLEAN : SaveForm(a, add, b)
  \/ \E p \in Products, b \in BOOLEAN : SaveWithoutStock(p, b)
  \/ \E b \in Baskets : Sell(b)
  \/ \E r \in Readers, only \in BOOLEAN : OpenList(r, only)
  \/ \E r \in Readers : TurnPage(r)

Spec == Init /\ [][Next]_vars

-----------------------------------------------------------------------------
\* Properties.

\* Whatever admins save over each other and over settlements, the stock and
\* what was sold come to what admins meant to supply, but for the units that
\* left or came behind the back of a form before it was saved: goods sold while
\* a form was open may be sold again, and nothing else (admin/products.go:99).
Accounted ==
  \A p \in Products :
    /\ stock[p] + sold[p] <= supplied[p] + slack[p].over
    /\ stock[p] + sold[p] >= supplied[p] - slack[p].under
=============================================================================
