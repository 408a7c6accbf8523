-------------------------- MODULE CatalogueProofs --------------------------
(***************************************************************************)
(* Theorems about Catalogue, for every set of products, admins, readers,   *)
(* amounts and baskets, and every size of a page.                          *)
(***************************************************************************)
EXTENDS CatalogueHistory, FiniteSetTheorems, TLAPS

\* What an open form says of the stock is right but for what it has missed.
FormCounts(a) ==
  form[a] # NoForm =>
    /\ form[a].stock <= stock[form[a].product] + missed[a].out
    /\ form[a].stock >= stock[form[a].product] - missed[a].in

\* What is not there yet has not been sold.
Unsold == \A p \in Products : p \notin Elements(shelf) => sold[p] = 0

\* The inductive invariant.
IInv ==
  /\ TypeOK
  /\ Accounted
  /\ Unsold
  /\ \A a \in Admins : FormCounts(a)

-----------------------------------------------------------------------------
LEMMA RiseNat ==
  \A n, m \in Int : Rise(n, m) \in Nat /\ Rise(n, m) >= m - n
BY DEF Rise

\* An open form is a form.
LEMMA OpenForm ==
  ASSUME TypeOK, NEW a \in Admins, form[a] # NoForm
  PROVE  /\ form[a] \in Forms
         /\ form[a].product \in Products /\ form[a].stock \in Int
BY DEF TypeOK, Forms

THEOREM Initially == Init => IInv
<1> SUFFICES ASSUME Init PROVE IInv
  OBVIOUS
<1>1. stock \in [Products -> Int]
  BY DataAssumption DEF Init
<1>2. TypeOK
  BY <1>1, DataAssumption DEF Init, TypeOK
<1>3. QED
  BY <1>1, <1>2 DEF Init, IInv, Accounted, Unsold, FormCounts

\* What is missed while p changes from stock[p] to n units.
LEMMA MovedType ==
  ASSUME TypeOK, NEW p \in Products, NEW n \in Int,
         missed' = Moved(p, Rise(n, stock[p]), Rise(stock[p], n))
  PROVE  /\ missed' \in [Admins -> [out : Nat, in : Nat]]
         /\ \A a \in Admins :
              IF form[a] # NoForm /\ form[a].product = p
              THEN /\ missed'[a].out >= missed[a].out + stock[p] - n
                   /\ missed'[a].in >= missed[a].in + n - stock[p]
              ELSE missed'[a] = missed[a]
<1> DEFINE o == Rise(n, stock[p])
           i == Rise(stock[p], n)
<1>1. o \in Nat /\ i \in Nat /\ o >= stock[p] - n /\ i >= n - stock[p]
  BY RiseNat DEF TypeOK
<1> HIDE DEF o, i
<1>2. missed' = [a \in Admins |-> IF form[a] # NoForm /\ form[a].product = p
                                  THEN [out |-> missed[a].out + o, in |-> missed[a].in + i]
                                  ELSE missed[a]]
  BY DEF Moved, o, i
<1>3. ASSUME NEW a \in Admins
      PROVE  /\ missed'[a] \in [out : Nat, in : Nat]
             /\ IF form[a] # NoForm /\ form[a].product = p
                THEN /\ missed'[a].out >= missed[a].out + stock[p] - n
                     /\ missed'[a].in >= missed[a].in + n - stock[p]
                ELSE missed'[a] = missed[a]
  <2>1. missed[a] \in [out : Nat, in : Nat] /\ stock[p] \in Int
    BY DEF TypeOK
  <2>2. CASE form[a] # NoForm /\ form[a].product = p
    <3>1. missed'[a] = [out |-> missed[a].out + o, in |-> missed[a].in + i]
      BY <1>2, <2>2
    <3>2. missed[a].out \in Nat /\ missed[a].in \in Nat
      BY <2>1
    <3>3. QED
      BY <1>1, <2>1, <2>2, <3>1, <3>2
  <2>3. CASE ~(form[a] # NoForm /\ form[a].product = p)
    BY <1>2, <2>1, <2>3
  <2>4. QED
    BY <2>2, <2>3
<1>4. missed' \in [Admins -> [out : Nat, in : Nat]]
  BY <1>2, <1>3
<1>5. QED
  BY <1>3, <1>4

LEMMA CreateStep ==
  ASSUME IInv, NEW p \in Products, NEW n \in Amounts, NEW b \in BOOLEAN, Create(p, n, b)
  PROVE  IInv'
<1>1. TypeOK /\ n \in Int
  BY DataAssumption DEF IInv
<1>2. /\ shelf' \in Seq(Products)
      /\ \A i, j \in 1 .. Len(shelf') : shelf'[i] = shelf'[j] => i = j
      /\ Elements(shelf') = Elements(shelf) \cup {p}
  <2>1. shelf \in Seq(Products) /\ <<p>> \in Seq(Products) /\ shelf' = <<p>> \o shelf
    BY <1>1 DEF TypeOK, Create
  <2>2. /\ Len(shelf) \in Nat /\ Len(shelf') = 1 + Len(shelf)
        /\ shelf'[1] = p
        /\ \A i \in 2 .. Len(shelf') : shelf'[i] = shelf[i - 1]
    BY <2>1
  <2>3. \A i \in 2 .. Len(shelf') : i - 1 \in 1 .. Len(shelf)
    BY <2>2
  <2>4. \A i \in 1 .. Len(shelf) : i + 1 \in 2 .. Len(shelf') /\ shelf'[i + 1] = shelf[i]
    BY <2>2
  <2>5. \A i \in 1 .. Len(shelf) : shelf[i] # p
    BY DEF Create, Elements
  <2>6. \A i, j \in 1 .. Len(shelf') : shelf'[i] = shelf'[j] => i = j
    <3> SUFFICES ASSUME NEW i \in 1 .. Len(shelf'), NEW j \in 1 .. Len(shelf'),
                        shelf'[i] = shelf'[j]
                 PROVE  i = j
      OBVIOUS
    <3>1. CASE i = 1 \/ j = 1
      BY <2>2, <2>3, <2>5, <3>1
    <3>2. CASE i # 1 /\ j # 1
      <4>1. i - 1 \in 1 .. Len(shelf) /\ j - 1 \in 1 .. Len(shelf)
        BY <2>2, <3>2
      <4>2. shelf[i - 1] = shelf[j - 1]
        BY <2>2, <3>2
      <4>3. i - 1 = j - 1
        BY <1>1, <4>1, <4>2 DEF TypeOK
      <4>4. QED
        BY <2>2, <4>3
    <3>3. QED
      BY <3>1, <3>2
  <2>7. Elements(shelf') = Elements(shelf) \cup {p}
    <3>1. ASSUME NEW q \in Elements(shelf') PROVE q \in Elements(shelf) \cup {p}
      <4>1. PICK i \in 1 .. Len(shelf') : shelf'[i] = q
        BY DEF Elements
      <4>2. CASE i = 1
        BY <2>2, <4>1, <4>2
      <4>3. CASE i # 1
        <5>1. i \in 2 .. Len(shelf')
          BY <2>2, <4>3
        <5>2. shelf[i - 1] = q /\ i - 1 \in 1 .. Len(shelf)
          BY <2>2, <2>3, <4>1, <5>1
        <5>3. QED
          BY <5>2 DEF Elements
      <4>4. QED
        BY <4>2, <4>3
    <3>2. p \in Elements(shelf')
      <4>1. 1 \in 1 .. Len(shelf')
        BY <2>2
      <4>2. QED
        BY <2>2, <4>1 DEF Elements
    <3>3. ASSUME NEW q \in Elements(shelf) PROVE q \in Elements(shelf')
      <4>1. PICK i \in 1 .. Len(shelf) : shelf[i] = q
        BY DEF Elements
      <4>2. i + 1 \in 1 .. Len(shelf') /\ shelf'[i + 1] = q
        BY <2>2, <2>4, <4>1
      <4>3. QED
        BY <4>2 DEF Elements
    <3>4. QED
      BY <3>1, <3>2, <3>3
  <2>8. QED
    BY <2>1, <2>6, <2>7
<1>3. TypeOK'
  BY <1>1, <1>2 DEF TypeOK, Create, readers
<1>4. /\ sold[p] = 0
      /\ stock' = [stock EXCEPT ![p] = n] /\ supplied' = [supplied EXCEPT ![p] = n]
      /\ UNCHANGED <<form, sold, slack, missed>>
      /\ p \notin Elements(shelf)
  BY DEF IInv, Unsold, Create
<1>5. Unsold'
  BY <1>2, <1>4 DEF IInv, Unsold
<1>6. ASSUME NEW q \in Products
      PROVE  /\ stock'[q] + sold'[q] <= supplied'[q] + slack'[q].over
             /\ stock'[q] + sold'[q] >= supplied'[q] - slack'[q].under
  <2>1. CASE q = p
    <3>1. slack[p].over \in Nat /\ slack[p].under \in Nat
      BY <1>1 DEF TypeOK
    <3>2. stock'[p] = n /\ supplied'[p] = n /\ sold'[p] = 0 /\ slack' = slack
      BY <1>1, <1>4 DEF TypeOK
    <3>3. QED
      BY <1>1, <2>1, <3>1, <3>2
  <2>2. CASE q # p
    <3>1. stock'[q] = stock[q] /\ supplied'[q] = supplied[q]
      BY <1>1, <1>4, <2>2 DEF TypeOK
    <3>2. QED
      BY <1>4, <3>1 DEF IInv, Accounted
  <2>3. QED
    BY <2>1, <2>2
<1>7. ASSUME NEW a \in Admins PROVE FormCounts(a)'
  <2> SUFFICES ASSUME form[a] # NoForm PROVE FormCounts(a)'
    BY <1>4 DEF FormCounts
  <2>1. form[a].product \in Products /\ form[a].product # p
    BY <1>1, <1>4, OpenForm DEF TypeOK
  <2>2. stock'[form[a].product] = stock[form[a].product]
    BY <1>1, <1>4, <2>1 DEF TypeOK
  <2>3. QED
    BY <1>4, <2>2 DEF IInv, FormCounts
<1>8. QED
  BY <1>3, <1>5, <1>6, <1>7 DEF IInv, Accounted

LEMMA LoadFormStep ==
  ASSUME IInv, NEW a \in Admins, NEW p \in Products, LoadForm(a, p)
  PROVE  IInv'
<1>1. TypeOK
  BY DEF IInv
<1> DEFINE f == [product |-> p, stock |-> stock[p], active |-> active[p]]
<1>2. f \in Forms /\ f # NoForm /\ p \in Elements(shelf)
  <2>1. stock[p] \in Int /\ active[p] \in BOOLEAN
    BY <1>1 DEF TypeOK
  <2>2. f \in Forms
    BY <2>1 DEF Forms
  <2>3. p \in Elements(shelf)
    BY DEF LoadForm, Elements
  <2>4. QED
    BY <2>2, <2>3, DataAssumption
<1>3. form' = [form EXCEPT ![a] = f] /\ missed' = [missed EXCEPT ![a] = [out |-> 0, in |-> 0]]
  BY DEF LoadForm
<1>4. TypeOK'
  <2>1. form' \in [Admins -> Forms \cup {NoForm}]
    BY <1>1, <1>2, <1>3 DEF TypeOK
  <2>2. missed' \in [Admins -> [out : Nat, in : Nat]]
    BY <1>1, <1>3 DEF TypeOK
  <2>3. \A c \in Admins : form'[c] # NoForm => form'[c].product \in Elements(shelf)
    BY <1>1, <1>2, <1>3 DEF TypeOK
  <2>4. QED
    BY <1>1, <2>1, <2>2, <2>3 DEF TypeOK, LoadForm, shop, readers, books
<1>5. Accounted' /\ Unsold'
  BY DEF IInv, Accounted, Unsold, LoadForm, shop, books
<1>6. ASSUME NEW c \in Admins PROVE FormCounts(c)'
  <2>1. CASE c = a
    <3>1. form'[c] = f /\ missed'[c] = [out |-> 0, in |-> 0] /\ stock[p] \in Int
      BY <1>1, <1>3, <2>1 DEF TypeOK
    <3>2. f.product = p /\ f.stock = stock[p] /\ missed'[c].out = 0 /\ missed'[c].in = 0
      BY <3>1
    <3>3. stock' = stock
      BY DEF LoadForm, shop
    <3>4. QED
      BY <3>1, <3>2, <3>3 DEF FormCounts
  <2>2. CASE c # a
    BY <1>1, <1>3, <2>2 DEF IInv, TypeOK, FormCounts, LoadForm, shop
  <2>3. QED
    BY <2>1, <2>2
<1>7. QED
  BY <1>4, <1>5, <1>6 DEF IInv

\* The books admit m units more over, and n more under.
LEMMA Written ==
  ASSUME slack \in [Products -> [over : Nat, under : Nat]],
         NEW p \in Products, NEW m \in Nat, NEW n \in Nat,
         slack' = [slack EXCEPT ![p] = [over |-> @.over + m, under |-> @.under + n]]
  PROVE  /\ slack' \in [Products -> [over : Nat, under : Nat]]
         /\ slack'[p].over = slack[p].over + m
         /\ slack'[p].under = slack[p].under + n
<1>1. slack[p] \in [over : Nat, under : Nat]
  OBVIOUS
<1>2. slack[p].over \in Nat /\ slack[p].under \in Nat
  BY <1>1
<1> DEFINE new == [over |-> slack[p].over + m, under |-> slack[p].under + n]
<1>3. /\ new \in [over : Nat, under : Nat]
      /\ new.over = slack[p].over + m /\ new.under = slack[p].under + n
  BY <1>2
<1>4. slack' = [slack EXCEPT ![p] = new]
  OBVIOUS
<1> HIDE DEF new
<1>5. QED
  BY <1>3, <1>4

\* A row is written, and no form but those in closed is closed.
LEMMA FormsMiss ==
  ASSUME IInv, NEW p \in Products, NEW n \in Int,
         stock' = [stock EXCEPT ![p] = n],
         missed' = Moved(p, Rise(n, stock[p]), Rise(stock[p], n)),
         NEW a \in Admins, form'[a] \in {form[a], NoForm}
  PROVE  FormCounts(a)'
<1> SUFFICES ASSUME form[a] # NoForm, form'[a] = form[a]
             PROVE  /\ form[a].stock <= stock'[form[a].product] + missed'[a].out
                    /\ form[a].stock >= stock'[form[a].product] - missed'[a].in
  BY DEF FormCounts
<1>1. TypeOK /\ FormCounts(a)
  BY DEF IInv
<1>2. /\ stock[form[a].product] \in Int /\ stock[p] \in Int /\ form[a].stock \in Int
      /\ form[a].product \in Products
      /\ missed[a].out \in Nat /\ missed[a].in \in Nat
      /\ missed'[a].out \in Nat /\ missed'[a].in \in Nat
  <2>1. form[a].stock \in Int /\ form[a].product \in Products
    BY <1>1, OpenForm
  <2>2. stock[form[a].product] \in Int /\ stock[p] \in Int /\ missed[a] \in [out : Nat, in : Nat]
    BY <1>1, <2>1 DEF TypeOK
  <2>3. missed' \in [Admins -> [out : Nat, in : Nat]]
    BY <1>1, MovedType
  <2>4. missed'[a] \in [out : Nat, in : Nat]
    BY <2>3
  <2> QED BY <2>1, <2>2, <2>4
<1>3. CASE form[a].product = p
  <2>1. /\ missed'[a].out >= missed[a].out + stock[p] - n
        /\ missed'[a].in >= missed[a].in + n - stock[p]
    BY <1>1, <1>3, MovedType
  <2>2. stock'[p] = n
    BY <1>1 DEF TypeOK
  <2>3. QED
    BY <1>1, <1>2, <1>3, <2>1, <2>2 DEF FormCounts
<1>4. CASE form[a].product # p
  <2>1. missed'[a] = missed[a] /\ stock'[form[a].product] = stock[form[a].product]
    <3>1. missed'[a] = missed[a]
      BY <1>1, <1>4, MovedType
    <3> QED BY <1>1, <1>2, <1>4, <3>1 DEF TypeOK
  <2>2. QED
    BY <1>1, <2>1 DEF FormCounts
<1>5. QED
  BY <1>3, <1>4

LEMMA SaveFormStep ==
  ASSUME IInv, NEW a \in Admins, NEW add \in Amounts, NEW b \in BOOLEAN, SaveForm(a, add, b)
  PROVE  IInv'
<1> DEFINE p == form[a].product
           n == form[a].stock + add
<1>1. TypeOK /\ FormCounts(a) /\ Accounted /\ Unsold
  BY DEF IInv
<1>2. /\ form[a] # NoForm /\ p \in Products /\ form[a].stock \in Int
      /\ add \in Int /\ n \in Int /\ p \in Elements(shelf)
  <2>1. form[a] # NoForm
    BY DEF SaveForm, Save
  <2>2. add \in Int
    BY DataAssumption
  <2>3. QED
    BY <1>1, <2>1, <2>2, OpenForm DEF TypeOK
<1>3. /\ stock' = [stock EXCEPT ![p] = n]
      /\ active' = [active EXCEPT ![p] = b]
      /\ form' = [form EXCEPT ![a] = NoForm]
      /\ missed' = Moved(p, Rise(n, stock[p]), Rise(stock[p], n))
      /\ supplied' = [supplied EXCEPT ![p] = @ + add]
      /\ slack' = [slack EXCEPT ![p] = [over  |-> @.over + missed[a].out,
                                        under |-> @.under + missed[a].in]]
      /\ writes' = writes + 1
      /\ UNCHANGED <<shelf, readers, sold>>
  BY DEF SaveForm, Save, Write, Counted
<1> HIDE DEF p, n
<1>4. missed' \in [Admins -> [out : Nat, in : Nat]]
  BY <1>1, <1>2, <1>3, MovedType
<1>5. /\ missed[a].out \in Nat /\ missed[a].in \in Nat
      /\ slack[p].over \in Nat /\ slack[p].under \in Nat
      /\ stock[p] \in Int /\ sold[p] \in Nat /\ supplied[p] \in Int
  BY <1>1, <1>2 DEF TypeOK
<1>6. /\ slack' \in [Products -> [over : Nat, under : Nat]]
      /\ slack'[p].over = slack[p].over + missed[a].out
      /\ slack'[p].under = slack[p].under + missed[a].in
  BY <1>1, <1>2, <1>3, <1>5, Written DEF TypeOK
<1>7. TypeOK'
  <2>1. stock' \in [Products -> Int] /\ active' \in [Products -> BOOLEAN]
    BY <1>1, <1>2, <1>3 DEF TypeOK
  <2>2. /\ form' \in [Admins -> Forms \cup {NoForm}]
        /\ \A c \in Admins : form'[c] # NoForm => form'[c].product \in Elements(shelf)
    BY <1>1, <1>3 DEF TypeOK
  <2>3. supplied' \in [Products -> Int] /\ writes' \in Nat
    BY <1>1, <1>2, <1>3 DEF TypeOK
  <2>4. QED
    BY <1>1, <1>3, <1>4, <1>6, <2>1, <2>2, <2>3 DEF TypeOK, readers
<1>8. ASSUME NEW q \in Products
      PROVE  /\ stock'[q] + sold'[q] <= supplied'[q] + slack'[q].over
             /\ stock'[q] + sold'[q] >= supplied'[q] - slack'[q].under
  <2>1. CASE q = p
    <3>1. /\ stock[p] + sold[p] <= supplied[p] + slack[p].over
          /\ stock[p] + sold[p] >= supplied[p] - slack[p].under
      BY <1>1, <1>2 DEF Accounted
    <3>2. form[a].stock <= stock[p] + missed[a].out /\ form[a].stock >= stock[p] - missed[a].in
      BY <1>1, <1>2 DEF FormCounts, p
    <3>3. /\ stock'[p] = form[a].stock + add /\ sold'[p] = sold[p]
          /\ supplied'[p] = supplied[p] + add
      BY <1>1, <1>2, <1>3 DEF TypeOK, n
    <3>4. QED
      BY <1>2, <1>5, <1>6, <2>1, <3>1, <3>2, <3>3
  <2>2. CASE q # p
    BY <1>1, <1>3, <2>2 DEF TypeOK, Accounted
  <2>3. QED
    BY <2>1, <2>2
<1>9. ASSUME NEW c \in Admins PROVE FormCounts(c)'
  <2>1. form'[c] \in {form[c], NoForm}
    BY <1>1, <1>3 DEF TypeOK
  <2>2. QED
    BY <1>2, <1>3, <2>1, FormsMiss
<1>10. QED
  BY <1>1, <1>3, <1>7, <1>8, <1>9 DEF IInv, Accounted, Unsold

LEMMA SaveWithoutStockStep ==
  ASSUME IInv, NEW p \in Products, NEW b \in BOOLEAN, SaveWithoutStock(p, b)
  PROVE  IInv'
<1>1. TypeOK /\ Accounted /\ Unsold /\ 0 \in Int
  BY DEF IInv
<1> DEFINE o == Rise(0, stock[p])
           u == Rise(stock[p], 0)
<1>2. /\ stock' = [stock EXCEPT ![p] = 0]
      /\ active' = [active EXCEPT ![p] = b]
      /\ missed' = Moved(p, o, u)
      /\ slack' = [slack EXCEPT ![p] = [over |-> @.over + u, under |-> @.under + o]]
      /\ writes' = writes + 1
      /\ UNCHANGED <<shelf, readers, sold, form, supplied>>
  BY DEF SaveWithoutStock, Write, Counted
<1>3. missed' \in [Admins -> [out : Nat, in : Nat]]
  BY <1>1, <1>2, MovedType
<1>4. stock[p] \in Int /\ o \in Nat /\ u \in Nat /\ o >= stock[p] /\ u >= 0 - stock[p]
  <2>1. stock[p] \in Int
    BY <1>1 DEF TypeOK
  <2>2. o \in Nat /\ o >= stock[p] - 0
    BY <2>1 DEF Rise
  <2>3. u \in Nat /\ u >= 0 - stock[p]
    BY <2>1 DEF Rise
  <2>4. QED
    BY <2>1, <2>2, <2>3
<1> HIDE DEF o, u
<1>5. /\ slack[p].over \in Nat /\ slack[p].under \in Nat
      /\ sold[p] \in Nat /\ supplied[p] \in Int
  BY <1>1 DEF TypeOK
<1>6. /\ slack' \in [Products -> [over : Nat, under : Nat]]
      /\ slack'[p].over = slack[p].over + u
      /\ slack'[p].under = slack[p].under + o
  BY <1>1, <1>2, <1>4, <1>5, Written DEF TypeOK
<1>7. TypeOK'
  <2>1. stock' \in [Products -> Int] /\ active' \in [Products -> BOOLEAN] /\ writes' \in Nat
    BY <1>1, <1>2 DEF TypeOK
  <2>2. QED
    BY <1>1, <1>2, <1>3, <1>6, <2>1 DEF TypeOK, readers
<1>8. ASSUME NEW q \in Products
      PROVE  /\ stock'[q] + sold'[q] <= supplied'[q] + slack'[q].over
             /\ stock'[q] + sold'[q] >= supplied'[q] - slack'[q].under
  <2>1. CASE q = p
    <3>1. /\ stock[p] + sold[p] <= supplied[p] + slack[p].over
          /\ stock[p] + sold[p] >= supplied[p] - slack[p].under
      BY <1>1 DEF Accounted
    <3>2. stock'[p] = 0 /\ sold'[p] = sold[p] /\ supplied'[p] = supplied[p]
      BY <1>1, <1>2 DEF TypeOK
    <3>3. QED
      BY <1>4, <1>5, <1>6, <2>1, <3>1, <3>2
  <2>2. CASE q # p
    BY <1>1, <1>2, <2>2 DEF TypeOK, Accounted
  <2>3. QED
    BY <2>1, <2>2
<1>9. ASSUME NEW c \in Admins PROVE FormCounts(c)'
  <2>1. missed' = Moved(p, Rise(0, stock[p]), Rise(stock[p], 0)) /\ form'[c] \in {form[c], NoForm}
    BY <1>2 DEF o, u
  <2>2. QED
    BY <1>1, <1>2, <2>1, FormsMiss
<1>10. QED
  BY <1>1, <1>2, <1>7, <1>8, <1>9 DEF IInv, Accounted, Unsold

LEMMA SellStep ==
  ASSUME IInv, NEW b \in Baskets, Sell(b)
  PROVE  IInv'
<1>1. TypeOK /\ Accounted /\ Unsold /\ b \in [Products -> Nat]
  BY DataAssumption DEF IInv
<1>2. /\ stock' = [p \in Products |-> stock[p] - b[p]]
      /\ sold' = [p \in Products |-> sold[p] + b[p]]
      /\ missed' = [a \in Admins |->
           IF form[a] # NoForm THEN [missed[a] EXCEPT !.out = @ + b[form[a].product]] ELSE missed[a]]
      /\ writes' = writes + 1
      /\ UNCHANGED <<shelf, active, form, readers, supplied, slack>>
  BY DEF Sell, Counted
<1>3. ASSUME NEW a \in Admins, form[a] # NoForm
      PROVE  /\ missed'[a] \in [out : Nat, in : Nat]
             /\ missed'[a].out = missed[a].out + b[form[a].product]
             /\ missed'[a].in = missed[a].in
             /\ missed[a].out \in Nat /\ missed[a].in \in Nat /\ b[form[a].product] \in Nat
             /\ form[a].product \in Products /\ form[a].stock \in Int
  <2>1. /\ missed[a] \in [out : Nat, in : Nat]
        /\ form[a].product \in Products /\ form[a].stock \in Int
        /\ b[form[a].product] \in Nat
    BY <1>1, <1>3, OpenForm DEF TypeOK
  <2>2. missed'[a] = [missed[a] EXCEPT !.out = @ + b[form[a].product]]
    BY <1>2, <1>3
  <2>3. QED
    BY <2>1, <2>2
<1>4. missed' \in [Admins -> [out : Nat, in : Nat]]
  <2>1. ASSUME NEW a \in Admins PROVE missed'[a] \in [out : Nat, in : Nat]
    BY <1>1, <1>2, <1>3 DEF TypeOK
  <2>2. QED
    BY <1>2, <2>1
<1>5. /\ stock' \in [Products -> Int] /\ sold' \in [Products -> Nat]
      /\ \A p \in Products : /\ stock'[p] + sold'[p] = stock[p] + sold[p]
                             /\ stock'[p] = stock[p] - b[p]
  BY <1>1, <1>2 DEF TypeOK
<1>6. TypeOK'
  <2>1. writes' \in Nat
    BY <1>1, <1>2 DEF TypeOK
  <2>2. QED
    BY <1>1, <1>2, <1>4, <1>5, <2>1 DEF TypeOK, readers
<1>7. Accounted'
  BY <1>1, <1>2, <1>5 DEF Accounted
<1>8. Unsold'
  <2> SUFFICES ASSUME NEW p \in Products, p \notin Elements(shelf) PROVE sold'[p] = 0
    BY <1>2 DEF Unsold
  <2>1. b[p] = 0 /\ sold[p] = 0
    BY <1>1 DEF Sell, Unsold
  <2>2. QED
    BY <1>2, <2>1
<1>9. ASSUME NEW a \in Admins PROVE FormCounts(a)'
  <2> SUFFICES ASSUME form[a] # NoForm
               PROVE  /\ form[a].stock <= stock'[form[a].product] + missed'[a].out
                      /\ form[a].stock >= stock'[form[a].product] - missed'[a].in
    BY <1>2 DEF FormCounts
  <2>1. /\ form[a].stock <= stock[form[a].product] + missed[a].out
        /\ form[a].stock >= stock[form[a].product] - missed[a].in
    BY DEF IInv, FormCounts
  <2>2. /\ stock[form[a].product] \in Int
        /\ stock'[form[a].product] = stock[form[a].product] - b[form[a].product]
    BY <1>1, <1>3, <1>5 DEF TypeOK
  <2>3. QED
    BY <1>3, <2>1, <2>2
<1>10. QED
  BY <1>6, <1>7, <1>8, <1>9 DEF IInv

LEMMA OpenListStep ==
  ASSUME IInv, NEW r \in Readers, NEW only \in BOOLEAN, OpenList(r, only)
  PROVE  IInv'
<1>1. TypeOK'
  BY DEF IInv, TypeOK, OpenList, shop, books
<1>2. QED
  BY <1>1 DEF IInv, OpenList, shop, books, Accounted, Unsold, FormCounts

LEMMA TurnPageStep ==
  ASSUME IInv, NEW r \in Readers, TurnPage(r)
  PROVE  IInv'
<1>1. TypeOK
  BY DEF IInv
<1>2. TypeOK'
  <2>1. seen' \in [Readers -> [Products -> Nat]]
    <3>1. \A q \in Readers : seen[q] \in [Products -> Nat]
      BY <1>1 DEF TypeOK
    <3> DEFINE more == [p \in Products |->
                         seen[r][p] + IF p \in Page(r, offset[r]) THEN 1 ELSE 0]
    <3>2. more \in [Products -> Nat]
      BY <3>1
    <3>3. seen' = [seen EXCEPT ![r] = more]
      BY DEF TurnPage, Show
    <3>4. QED
      BY <1>1, <3>2, <3>3 DEF TypeOK
  <2>2. offset' \in [Readers -> Nat]
    BY <1>1, DataAssumption DEF TypeOK, TurnPage, Show
  <2>3. turn' \in [Readers -> {"none", "reading", "done"}]
    BY <1>1 DEF TypeOK, TurnPage, Show
  <2>4. QED
    BY <1>1, <2>1, <2>2, <2>3 DEF TypeOK, TurnPage, Show, shop, books
<1>3. QED
  BY <1>2 DEF IInv, TurnPage, Show, shop, books, Accounted, Unsold, FormCounts

-----------------------------------------------------------------------------
THEOREM Preserved == IInv /\ [Next]_vars => IInv'
<1> SUFFICES ASSUME IInv, [Next]_vars PROVE IInv'
  OBVIOUS
<1>1. CASE \E p \in Products, n \in Amounts, b \in BOOLEAN : Create(p, n, b)
  BY <1>1, CreateStep
<1>2. CASE \E a \in Admins, p \in Products : LoadForm(a, p)
  BY <1>2, LoadFormStep
<1>3. CASE \E a \in Admins, add \in Amounts, b \in BOOLEAN : SaveForm(a, add, b)
  BY <1>3, SaveFormStep
<1>4. CASE \E p \in Products, b \in BOOLEAN : SaveWithoutStock(p, b)
  BY <1>4, SaveWithoutStockStep
<1>5. CASE \E b \in Baskets : Sell(b)
  BY <1>5, SellStep
<1>6. CASE \E r \in Readers, only \in BOOLEAN : OpenList(r, only)
  BY <1>6, OpenListStep
<1>7. CASE \E r \in Readers : TurnPage(r)
  BY <1>7, TurnPageStep
<1>8. CASE UNCHANGED vars
  BY <1>8 DEF IInv, vars, shop, readers, books, TypeOK, Accounted, Unsold, FormCounts
<1>9. QED
  BY <1>1, <1>2, <1>3, <1>4, <1>5, <1>6, <1>7, <1>8 DEF Next

THEOREM Invariant == Spec => []IInv
<1>1. Init => IInv
  BY Initially
<1>2. IInv /\ [Next]_vars => IInv'
  BY Preserved
<1>3. QED
  BY <1>1, <1>2, PTL DEF Spec

\* The types; no product is listed twice, and forms are for products there are.
THEOREM WellTyped == Spec => []TypeOK
<1>1. IInv => TypeOK
  BY DEF IInv
<1>2. QED
  BY <1>1, Invariant, PTL

\* Stock and sales come to what was supplied, but for what forms have missed.
THEOREM BooksBalance == Spec => []Accounted
<1>1. IInv => Accounted
  BY DEF IInv
<1>2. QED
  BY <1>1, Invariant, PTL

-----------------------------------------------------------------------------
\* Places in a list: L holds the rows that are selected, of a shelf s.

Place(L, i) == Cardinality({j \in L : j <= i})
Top(L, o)   == {i \in L : Place(L, i) <= o}
At(s, I)    == {s[i] : i \in I}

NoTwice(s) == \A i, j \in 1 .. Len(s) : s[i] = s[j] => i = j

\* What two shelves share comes in the same order on both.
SameOrder(s, t) ==
  \A i, k \in 1 .. Len(s), j, m \in 1 .. Len(t) :
    s[i] = t[j] /\ s[k] = t[m] => (i < k <=> j < m)

\* A finite set is what it shares with B and the rest.
LEMMA Parts ==
  ASSUME NEW F, IsFiniteSet(F), NEW B
  PROVE  /\ IsFiniteSet(F \cap B) /\ IsFiniteSet(F \ B)
         /\ Cardinality(F) = Cardinality(F \cap B) + Cardinality(F \ B)
         /\ Cardinality(F) \in Nat
         /\ Cardinality(F \cap B) \in Nat /\ Cardinality(F \ B) \in Nat
<1>1. IsFiniteSet(F \cap B) /\ IsFiniteSet(F \ B)
  <2>1. F \cap B \in SUBSET F /\ F \ B \in SUBSET F
    OBVIOUS
  <2> QED BY <2>1, FS_Subset
<1>2. (F \cap B) \cup (F \ B) = F /\ (F \cap B) \cap (F \ B) = {}
  OBVIOUS
<1>3. Cardinality((F \cap B) \cup (F \ B)) =
        Cardinality(F \cap B) + Cardinality(F \ B) - Cardinality((F \cap B) \cap (F \ B))
  BY <1>1, FS_Union
<1>4. /\ Cardinality(F \cap B) \in Nat /\ Cardinality(F \ B) \in Nat
      /\ Cardinality(F) \in Nat /\ Cardinality({}) = 0
  BY <1>1, FS_CardinalityType, FS_EmptySet
<1> QED BY <1>1, <1>2, <1>3, <1>4

\* Disjoint parts of a finite set come to no more than it.
LEMMA Apart ==
  ASSUME NEW G, IsFiniteSet(G), NEW X \in SUBSET G, NEW Y \in SUBSET G, X \cap Y = {}
  PROVE  /\ Cardinality(X) \in Nat /\ Cardinality(Y) \in Nat /\ Cardinality(G) \in Nat
         /\ Cardinality(X) + Cardinality(Y) <= Cardinality(G)
<1>1. G \cap X = X /\ Y \in SUBSET (G \ X)
  OBVIOUS
<1>2. /\ Cardinality(G) = Cardinality(X) + Cardinality(G \ X) /\ IsFiniteSet(G \ X)
      /\ Cardinality(G) \in Nat /\ Cardinality(X) \in Nat /\ Cardinality(G \ X) \in Nat
  BY <1>1, Parts
<1>3. Cardinality(Y) <= Cardinality(G \ X) /\ IsFiniteSet(Y)
  BY <1>1, <1>2, FS_Subset
<1>4. Cardinality(Y) \in Nat
  BY <1>3, FS_CardinalityType
<1> QED BY <1>2, <1>3, <1>4

\* A set of naturals has a least.
LEMMA Least ==
  ASSUME NEW S \in SUBSET Nat, S # {}
  PROVE  \E n \in S : \A m \in S : n <= m
<1>1. PICK n \in S : \A m \in S : <<m, n>> \notin OpToRel(<, Nat)
  BY NatLessThanWellFounded, WFMin
<1>2. \A m \in S : ~(m < n)
  BY <1>1 DEF OpToRel
<1> QED BY <1>2

\* Later rows have later places.
LEMMA Places ==
  ASSUME NEW n \in Nat, NEW L \in SUBSET (1 .. n)
  PROVE  /\ IsFiniteSet(L)
         /\ \A i \in L : Place(L, i) \in Nat /\ Place(L, i) >= 1
         /\ \A i, j \in L : i < j => Place(L, i) < Place(L, j)
<1>1. IsFiniteSet(L)
  <2>1. IsFiniteSet(1 .. n)
    BY FS_Interval
  <2> QED BY <2>1, FS_Subset
<1>2. ASSUME NEW i \in L
      PROVE  /\ IsFiniteSet({j \in L : j <= i}) /\ Place(L, i) \in Nat /\ Place(L, i) >= 1
  <2> DEFINE U == {j \in L : j <= i}
  <2>1. U \in SUBSET L /\ i \in U
    OBVIOUS
  <2> HIDE DEF U
  <2>2. IsFiniteSet(U)
    BY <1>1, <2>1, FS_Subset
  <2>3. Cardinality(U) \in Nat /\ Cardinality(U) # 0
    BY <2>1, <2>2, FS_CardinalityType, FS_EmptySet
  <2> QED BY <2>2, <2>3 DEF U, Place
<1>3. ASSUME NEW i \in L, NEW j \in L, i < j PROVE Place(L, i) < Place(L, j)
  <2> DEFINE U == {k \in L : k <= i}
             W == {k \in L : k <= j}
  <2>1. U \in SUBSET W /\ j \in W /\ j \notin U
    <3>1. i \in Nat /\ j \in Nat /\ \A k \in L : k \in Nat
      OBVIOUS
    <3>2. \A k \in L : k <= i => k <= j
      BY <1>3, <3>1
    <3>3. ~(j <= i) /\ j <= j
      BY <1>3, <3>1
    <3> QED BY <3>2, <3>3
  <2> HIDE DEF U, W
  <2>2. IsFiniteSet(W) /\ Cardinality(U) \in Nat /\ Cardinality(W) \in Nat
    BY <1>2 DEF U, W, Place
  <2>3. Cardinality(U) <= Cardinality(W) /\ Cardinality(U) # Cardinality(W)
    BY <2>1, <2>2, FS_Subset
  <2> QED BY <2>2, <2>3 DEF U, W, Place
<1> QED BY <1>1, <1>2, <1>3

\* The rows up to place o are o, or all there are.
LEMMA TopSize ==
  ASSUME NEW n \in Nat, NEW L \in SUBSET (1 .. n), NEW o \in Nat
  PROVE  /\ IsFiniteSet(Top(L, o))
         /\ Cardinality(Top(L, o)) \in Nat
         /\ Cardinality(Top(L, o)) <= o
         /\ Top(L, o) # L => Cardinality(Top(L, o)) = o
<1> DEFINE T == Top(L, o)
<1>1. T \in SUBSET L /\ L \in SUBSET Nat
  BY DEF Top
<1>2. IsFiniteSet(L) /\ IsFiniteSet(T) /\ Cardinality(T) \in Nat
  BY <1>1, Places, FS_Subset, FS_CardinalityType
<1>3. /\ \A i \in L : Place(L, i) \in Nat /\ i \in Nat /\ i <= n
      /\ \A i, j \in L : i < j => Place(L, i) < Place(L, j)
      /\ \A i \in L : i \in T <=> Place(L, i) <= o
  <2>1. \A i \in L : i \in Nat /\ i <= n
    OBVIOUS
  <2> QED BY <2>1, Places DEF Top
<1> HIDE DEF T
<1>4. Cardinality(T) <= o
  <2>1. CASE T = {}
    BY <2>1, FS_EmptySet
  <2>2. CASE T # {}
    <3> DEFINE S == {n - i : i \in T}
    <3>1. S \in SUBSET Nat /\ S # {}
      <4>1. \A i \in T : i \in Nat /\ i <= n
        BY <1>1, <1>3
      <4>2. \A i \in T : n - i \in Nat
        BY <4>1
      <4> QED BY <4>2, <2>2
    <3>2. PICK d \in S : \A m \in S : d <= m
      <4> HIDE DEF S
      <4> QED BY <3>1, Least
    <3>3. PICK i \in T : d = n - i
      OBVIOUS
    <3>4. ASSUME NEW j \in T PROVE j <= i
      <4>1. n - i <= n - j
        BY <3>2, <3>3
      <4>2. i \in Nat /\ j \in Nat
        BY <1>1, <1>3
      <4> QED BY <4>1, <4>2
    <3>5. T \in SUBSET {j \in L : j <= i} /\ {j \in L : j <= i} \in SUBSET L
      BY <1>1, <3>4
    <3>6. Cardinality(T) <= Place(L, i)
      BY <1>2, <3>5, FS_Subset DEF Place
    <3>7. Place(L, i) <= o /\ Place(L, i) \in Nat
      BY <1>1, <1>3
    <3> QED BY <1>2, <3>6, <3>7
  <2> QED BY <2>1, <2>2
<1>5. ASSUME T # L PROVE Cardinality(T) >= o
  <2>1. L \ T \in SUBSET Nat /\ L \ T # {}
    BY <1>1, <1>5
  <2>2. PICK i \in L \ T : \A m \in L \ T : i <= m
    BY <2>1, Least
  <2>3. i \in L /\ Place(L, i) > o /\ Place(L, i) \in Nat
    BY <1>3, <2>2
  <2>4. {j \in L : j <= i} \ {i} \in SUBSET T
    <3> SUFFICES ASSUME NEW j \in L, j <= i, j # i, j \notin T PROVE FALSE
      OBVIOUS
    <3>1. i <= j /\ i \in Nat /\ j \in Nat
      BY <1>1, <2>2
    <3> QED BY <3>1
  <2> DEFINE U == {j \in L : j <= i}
  <2>5. U \in SUBSET L /\ i \in U
    BY <1>1, <2>3
  <2> HIDE DEF U
  <2>6. IsFiniteSet(U) /\ Cardinality(U \ {i}) = Cardinality(U) - 1
    BY <1>2, <2>5, FS_Subset, FS_RemoveElement
  <2>7. Cardinality(U \ {i}) <= Cardinality(T)
    BY <1>2, <2>4, FS_Subset DEF U
  <2> QED BY <1>2, <2>3, <2>6, <2>7 DEF U, Place
<1> QED BY <1>2, <1>4, <1>5 DEF T

\* What stands at the selected places is as much as the places are.
LEMMA AtSize ==
  ASSUME NEW s \in Seq(Products), NoTwice(s), NEW I \in SUBSET (1 .. Len(s))
  PROVE  /\ IsFiniteSet(At(s, I))
         /\ Cardinality(At(s, I)) = Cardinality(I)
         /\ \A i \in 1 .. Len(s) : s[i] \in At(s, I) <=> i \in I
<1>1. IsFiniteSet(I)
  <2>1. IsFiniteSet(1 .. Len(s))
    BY FS_Interval
  <2> QED BY <2>1, FS_Subset
<1> DEFINE f == [i \in I |-> s[i]]
           A == At(s, I)
<1>2. f \in Surjection(I, A)
  BY DEF Surjection, At
<1>3. f \in Injection(I, A)
  <2>1. f \in [I -> A]
    BY DEF At
  <2>2. \A i, j \in I : f[i] = f[j] => i = j
    BY DEF NoTwice
  <2> HIDE DEF f, A
  <2> QED BY <2>1, <2>2 DEF Injection, IsInjective
<1> HIDE DEF f, A
<1>4. IsFiniteSet(A) /\ Cardinality(A) = Cardinality(I)
  BY <1>1, <1>2, <1>3, FS_Surjection
<1>5. ASSUME NEW i \in 1 .. Len(s) PROVE s[i] \in At(s, I) <=> i \in I
  BY DEF At, NoTwice
<1> QED BY <1>4, <1>5 DEF A

\* The first o products of one list that were not among the first o of the
\* other list, but on it, are no more than those of the first o of the other
\* that are not on the one.
LEMMA Shift ==
  ASSUME NEW s \in Seq(Products), NoTwice(s), NEW L \in SUBSET (1 .. Len(s)),
         NEW t \in Seq(Products), NoTwice(t), NEW K \in SUBSET (1 .. Len(t)),
         SameOrder(s, t), NEW o \in Nat
  PROVE  Cardinality((At(t, Top(K, o)) \cap At(s, L)) \ At(s, Top(L, o)))
           <= Cardinality(At(s, Top(L, o)) \ At(t, K))
<1> DEFINE F == At(s, Top(L, o))
           G == At(t, Top(K, o))
           A == At(s, L)
           B == At(t, K)
           N == (G \cap A) \ F
<1>1. Top(L, o) \in SUBSET L /\ Top(K, o) \in SUBSET K /\ Len(s) \in Nat /\ Len(t) \in Nat
  BY DEF Top
<1>2. /\ IsFiniteSet(F) /\ IsFiniteSet(G)
      /\ Cardinality(F) = Cardinality(Top(L, o)) /\ Cardinality(G) = Cardinality(Top(K, o))
  BY <1>1, AtSize
<1>3. /\ Cardinality(G) <= o /\ Cardinality(G) \in Nat /\ Cardinality(F) \in Nat
      /\ Top(L, o) # L => Cardinality(F) = o
  BY <1>1, <1>2, TopSize
<1>4. ASSUME NEW p \in N
      PROVE  Top(L, o) # L /\ F \cap B \subseteq G
  <2>1. PICK j \in Top(K, o) : t[j] = p
    BY DEF At
  <2>2. PICK i \in L : s[i] = p
    BY DEF At
  <2>3. i \notin Top(L, o)
    BY <2>2 DEF At
  <2>4. ASSUME NEW q \in F \cap B PROVE q \in G
    <3>1. PICK k \in Top(L, o) : s[k] = q
      BY <2>4 DEF At
    <3>2. PICK m \in K : t[m] = q
      BY <2>4 DEF At
    <3>3. /\ k \in L /\ i \in 1 .. Len(s) /\ k \in 1 .. Len(s)
          /\ j \in K /\ j \in 1 .. Len(t) /\ m \in 1 .. Len(t)
      BY <1>1
    <3>4. /\ Place(L, k) \in Nat /\ Place(L, i) \in Nat /\ Place(K, j) \in Nat /\ Place(K, m) \in Nat
          /\ i < k => Place(L, i) < Place(L, k)
          /\ m < j => Place(K, m) < Place(K, j)
      BY <1>1, <3>3, Places
    <3>5. Place(L, k) <= o /\ ~(Place(L, i) <= o) /\ Place(K, j) <= o
      BY <2>3 DEF Top
    <3>6. k < i
      BY <3>3, <3>4, <3>5
    <3>7. m < j
      BY <2>1, <2>2, <3>1, <3>2, <3>3, <3>6 DEF SameOrder
    <3>8. m \in Top(K, o)
      <4>1. Place(K, m) <= o
        BY <3>4, <3>5, <3>7
      <4> QED BY <4>1 DEF Top
    <3> QED BY <3>2, <3>8 DEF At
  <2> QED BY <2>2, <2>3, <2>4
<1> HIDE DEF F, G, A, B
<1>5. CASE N = {}
  <2>1. Cardinality(F \ B) \in Nat
    BY <1>2, Parts
  <2>2. Cardinality(N) = 0
    BY <1>5, FS_EmptySet
  <2> HIDE DEF N
  <2>3. Cardinality(N) <= Cardinality(F \ B)
    BY <2>1, <2>2
  <2> QED BY <2>3 DEF N, F, G, A, B
<1>6. CASE N # {}
  <2>1. Cardinality(F) = o /\ F \cap B \subseteq G
    BY <1>3, <1>4, <1>6
  <2>2. F \cap B \in SUBSET G /\ N \in SUBSET G /\ (F \cap B) \cap N = {}
    BY <2>1
  <2> HIDE DEF N
  <2>3. /\ Cardinality(F \cap B) + Cardinality(N) <= Cardinality(G)
        /\ Cardinality(F \cap B) \in Nat /\ Cardinality(N) \in Nat
    BY <1>2, <2>2, Apart
  <2>4. /\ Cardinality(F) = Cardinality(F \cap B) + Cardinality(F \ B)
        /\ Cardinality(F \ B) \in Nat
    BY <1>2, Parts
  <2>5. Cardinality(N) <= Cardinality(F \ B)
    BY <1>3, <2>1, <2>3, <2>4
  <2> QED BY <2>5 DEF N, F, G, A, B
<1> QED BY <1>5, <1>6

LEMMA OrderTurns == \A s, t : SameOrder(s, t) => SameOrder(t, s)
BY DEF SameOrder

\* A set that two others cover is no larger than both.
LEMMA Covered ==
  ASSUME NEW X, NEW Y, IsFiniteSet(X), IsFiniteSet(Y), NEW Z \in SUBSET (X \cup Y)
  PROVE  /\ IsFiniteSet(Z)
         /\ Cardinality(Z) \in Nat /\ Cardinality(X) \in Nat /\ Cardinality(Y) \in Nat
         /\ Cardinality(Z) <= Cardinality(X) + Cardinality(Y)
<1>1. IsFiniteSet(X \cap Y) /\ IsFiniteSet(X \cup Y)
  BY FS_Union, Parts
<1>2. /\ Cardinality(X \cup Y) = Cardinality(X) + Cardinality(Y) - Cardinality(X \cap Y)
      /\ Cardinality(X) \in Nat /\ Cardinality(Y) \in Nat /\ Cardinality(X \cap Y) \in Nat
  BY <1>1, FS_Union, FS_CardinalityType
<1>3. IsFiniteSet(Z) /\ Cardinality(Z) <= Cardinality(X \cup Y)
  BY <1>1, FS_Subset
<1>4. Cardinality(Z) \in Nat
  BY <1>3, FS_CardinalityType
<1> QED BY <1>2, <1>3, <1>4

-----------------------------------------------------------------------------
\* What a reader is past, and what it has still to come to.
Ahead(r)  == At(shelf, Top(Listed(r), offset[r]))
Behind(r) == List(r) \ Ahead(r)

\* A reader that has not begun has no history.
Unread(r) ==
  turn[r] = "none" =>
    offset[r] = 0 /\ Shown(r) = {} /\ came[r] = 0 /\ left[r] = 0 /\ again[r] = 0

\* While it reads: of what has been listed all the time, it is past no more
\* products it was not shown than have left.
Passed(r) ==
  turn[r] = "reading" =>
    /\ steady[r] \subseteq List(r)
    /\ Cardinality((steady[r] \cap Ahead(r)) \ Shown(r)) <= left[r]

Ended(r) == turn[r] = "done" => Cardinality(steady[r] \ Shown(r)) <= left[r]

\* What it was shown again, and what it is still to be shown again as the list
\* is now, is no more than have come.
Twice(r) ==
  /\ turn[r] = "reading" => again[r] + Cardinality(Shown(r) \cap Behind(r)) <= came[r]
  /\ turn[r] # "reading" => again[r] <= came[r]

ReaderInv(r) ==
  /\ came[r] \in Nat /\ left[r] \in Nat /\ again[r] \in Nat
  /\ Unread(r) /\ Passed(r) /\ Ended(r) /\ Twice(r)

\* The inductive invariant with the history.
HInv == IInv /\ \A r \in Readers : ReaderInv(r)

\* What a step adds to the history of one reader.
Watched(r) ==
  /\ turn[r] = "none" => steady'[r] = List(r)'
  /\ turn[r] = "reading" => /\ steady'[r] = steady[r] \cap List(r)'
                            /\ came'[r] = came[r] + Cardinality(List(r)' \ List(r))
                            /\ left'[r] = left[r] + Cardinality(List(r) \ List(r)')
  /\ turn[r] = "done" => steady'[r] = steady[r]
  /\ turn[r] # "reading" => came'[r] = came[r] + 0 /\ left'[r] = left[r] + 0
  /\ again'[r] = again[r] + Cardinality({p \in Shown(r) : seen'[r][p] > seen[r][p]})

LEMMA Watches ==
  ASSUME Watch, NEW r \in Readers
  PROVE  Watched(r)
<1>1. turn[r] = "none" => steady'[r] = List(r)'
  BY DEF Watch
<1>2. turn[r] = "reading" => steady'[r] = steady[r] \cap List(r)'
  BY DEF Watch
<1>3. turn[r] = "done" => steady'[r] = steady[r]
  BY DEF Watch
<1>4. again'[r] = again[r] + Cardinality({p \in Shown(r) : seen'[r][p] > seen[r][p]})
  BY DEF Watch
<1>5. /\ came'[r] = came[r] + Growth(r, List(r), List(r)')
      /\ left'[r] = left[r] + Growth(r, List(r)', List(r))
  BY DEF Watch
<1> QED BY <1>1, <1>2, <1>3, <1>4, <1>5 DEF Growth, Watched

\* Lists and what is ahead are finite sets of products.
LEMMA Lists ==
  ASSUME shelf \in Seq(Products), NoTwice(shelf), NEW r \in Readers
  PROVE  /\ Listed(r) \in SUBSET (1 .. Len(shelf))
         /\ List(r) = At(shelf, Listed(r))
         /\ IsFiniteSet(List(r))
         /\ Ahead(r) \subseteq List(r)
<1>1. Listed(r) \in SUBSET (1 .. Len(shelf))
  BY DEF Listed
<1>2. List(r) = At(shelf, Listed(r))
  BY DEF List, At
<1>3. Ahead(r) \subseteq List(r)
  BY <1>2 DEF Ahead, Top, At
<1> QED BY <1>1, <1>2, <1>3, AtSize

\* The list changes and the reader does not move.
LEMMA ListMoves ==
  ASSUME NEW r \in Readers, ReaderInv(r), Watched(r), turn[r] = "reading",
         shelf \in Seq(Products), NoTwice(shelf), shelf' \in Seq(Products), NoTwice(shelf'),
         SameOrder(shelf, shelf'), offset[r] \in Nat,
         turn'[r] = turn[r], offset'[r] = offset[r], seen'[r] = seen[r],
         again'[r] = again[r]
  PROVE  ReaderInv(r)'
<1> DEFINE A == List(r)
           B == List(r)'
           F == Ahead(r)
           G == Ahead(r)'
           S == Shown(r)
           P == steady[r]
<1>1. /\ IsFiniteSet(A) /\ IsFiniteSet(B) /\ F \subseteq A /\ G \subseteq B
      /\ Listed(r) \in SUBSET (1 .. Len(shelf)) /\ A = At(shelf, Listed(r))
      /\ Listed(r)' \in SUBSET (1 .. Len(shelf')) /\ B = At(shelf', Listed(r)')
  <2>1. /\ IsFiniteSet(B) /\ G \subseteq B
        /\ Listed(r)' \in SUBSET (1 .. Len(shelf')) /\ B = At(shelf', Listed(r)')
    <3>1. Listed(r)' \in SUBSET (1 .. Len(shelf'))
      BY DEF Listed
    <3>2. B = At(shelf', Listed(r)')
      BY DEF List, At
    <3>3. G \subseteq B
      BY <3>2 DEF Ahead, Top, At
    <3> QED BY <3>1, <3>2, <3>3, AtSize
  <2> QED BY <2>1, Lists
<1>2. F = At(shelf, Top(Listed(r), offset[r])) /\ G = At(shelf', Top(Listed(r)', offset[r]))
  BY DEF Ahead
<1>3. Cardinality((G \cap A) \ F) <= Cardinality(F \ B)
  BY <1>1, <1>2, Shift
<1>4. Cardinality((F \cap B) \ G) <= Cardinality(G \ A)
  <2>1. SameOrder(shelf', shelf)
    BY OrderTurns
  <2> HIDE DEF A, B, F, G
  <2> QED BY <1>1, <1>2, <2>1, Shift
<1>5. /\ Shown(r)' = S /\ steady'[r] = P \cap B
      /\ came'[r] = came[r] + Cardinality(B \ A) /\ left'[r] = left[r] + Cardinality(A \ B)
  BY DEF Shown, Watched
<1>6. /\ came[r] \in Nat /\ left[r] \in Nat /\ again[r] \in Nat
      /\ P \subseteq A /\ Cardinality((P \cap F) \ S) <= left[r]
      /\ again[r] + Cardinality(S \cap (A \ F)) <= came[r]
  BY DEF ReaderInv, Passed, Twice, Behind
<1>7. /\ Behind(r)' = B \ G /\ Ahead(r)' = G /\ List(r)' = B
  BY DEF Behind
<1> HIDE DEF A, B, F, G, S, P
<1>8. IsFiniteSet(F) /\ IsFiniteSet(G)
  BY <1>1, FS_Subset
<1>9. /\ Cardinality(A \ B) \in Nat /\ Cardinality(B \ A) \in Nat
      /\ Cardinality(G \ A) \in Nat /\ Cardinality(F \ B) \in Nat
  BY <1>1, <1>8, Parts
<1>10. Cardinality(((P \cap B) \cap G) \ S) <= left[r] + Cardinality(A \ B)
  <2> DEFINE X == (P \cap F) \ S
             Y == (G \cap A) \ F
             Z == ((P \cap B) \cap G) \ S
  <2>1. X \in SUBSET F /\ Y \in SUBSET G /\ Z \in SUBSET (X \cup Y)
    BY <1>6
  <2>2. IsFiniteSet(X) /\ IsFiniteSet(Y)
    BY <1>8, <2>1, FS_Subset
  <2>3. F \ B \in SUBSET (A \ B) /\ IsFiniteSet(A \ B)
    BY <1>1, Parts
  <2>4. Cardinality(F \ B) <= Cardinality(A \ B)
    BY <2>3, FS_Subset
  <2>5. Cardinality(X) <= left[r] /\ Cardinality(Y) <= Cardinality(F \ B)
    BY <1>3, <1>6
  <2> HIDE DEF X, Y, Z
  <2>6. /\ Cardinality(Z) <= Cardinality(X) + Cardinality(Y)
        /\ Cardinality(Z) \in Nat /\ Cardinality(X) \in Nat /\ Cardinality(Y) \in Nat
    BY <2>1, <2>2, Covered
  <2>7. Cardinality(Z) <= left[r] + Cardinality(A \ B)
    BY <1>6, <1>9, <2>4, <2>5, <2>6
  <2> QED BY <2>7 DEF Z
<1>11. again[r] + Cardinality(S \cap (B \ G)) <= came[r] + Cardinality(B \ A)
  <2> DEFINE X == S \cap (A \ F)
             Y == (F \cap B) \ G
             Z == S \cap (B \ G)
             V == (B \ A) \ G
             W == X \cup Y
  <2>1. X \in SUBSET A /\ Y \in SUBSET F /\ V \in SUBSET B /\ Z \in SUBSET (W \cup V)
    OBVIOUS
  <2>2. IsFiniteSet(X) /\ IsFiniteSet(Y) /\ IsFiniteSet(V) /\ IsFiniteSet(B \ A)
    BY <1>1, <1>8, <2>1, FS_Subset, Parts
  <2>3. /\ Cardinality(G \ A) + Cardinality(V) <= Cardinality(B \ A)
        /\ Cardinality(V) \in Nat
    <3>1. G \ A \in SUBSET (B \ A) /\ V \in SUBSET (B \ A) /\ (G \ A) \cap V = {}
      BY <1>1
    <3> QED BY <2>2, <3>1, Apart
  <2>4. Cardinality(Y) <= Cardinality(G \ A) /\ again[r] + Cardinality(X) <= came[r]
    BY <1>4, <1>6
  <2> HIDE DEF X, Y, Z, V
  <2>5. /\ Cardinality(W) <= Cardinality(X) + Cardinality(Y) /\ IsFiniteSet(W)
        /\ Cardinality(W) \in Nat /\ Cardinality(X) \in Nat /\ Cardinality(Y) \in Nat
    BY <2>2, Covered
  <2> HIDE DEF W
  <2>6. Cardinality(Z) <= Cardinality(W) + Cardinality(V) /\ Cardinality(Z) \in Nat
    BY <2>1, <2>2, <2>5, Covered
  <2>7. again[r] + Cardinality(Z) <= came[r] + Cardinality(B \ A)
    <3>1. Cardinality(Z) <= Cardinality(X) + (Cardinality(Y) + Cardinality(V))
      BY <2>3, <2>5, <2>6
    <3>2. Cardinality(Y) + Cardinality(V) <= Cardinality(B \ A)
      BY <1>9, <2>3, <2>4, <2>5
    <3>3. /\ again[r] \in Nat /\ came[r] \in Nat /\ Cardinality(B \ A) \in Nat
          /\ Cardinality(Y) + Cardinality(V) \in Nat
      BY <1>6, <1>9, <2>3, <2>5
    <3> QED BY <2>4, <2>5, <2>6, <3>1, <3>2, <3>3
  <2> QED BY <2>7 DEF Z
<1>12. Passed(r)'
  BY <1>5, <1>7, <1>10 DEF Passed
<1>13. Twice(r)'
  BY <1>5, <1>7, <1>11 DEF Twice
<1>14. came'[r] \in Nat /\ left'[r] \in Nat /\ again'[r] \in Nat
  BY <1>5, <1>6, <1>9
<1>15. Unread(r)' /\ Ended(r)'
  BY DEF Unread, Ended
<1> QED BY <1>12, <1>13, <1>14, <1>15 DEF ReaderInv

\* A page is what comes after what the reader is past.
LEMMA PageNext ==
  ASSUME TypeOK, NEW r \in Readers
  PROVE  /\ At(shelf, Top(Listed(r), offset[r] + PageSize)) = Ahead(r) \cup Page(r, offset[r])
         /\ Page(r, offset[r]) \subseteq Behind(r)
         /\ Page(r, offset[r]) \subseteq Products
<1> DEFINE L == Listed(r)
           o == offset[r]
           J == {j \in L : Place(L, j) \in o + 1 .. o + PageSize}
           Q == Page(r, o)
<1>1. Q = At(shelf, J)
  BY DEF Page, Place, At
<1>2. /\ L \in SUBSET (1 .. Len(shelf)) /\ List(r) = At(shelf, L)
      /\ shelf \in Seq(Products) /\ NoTwice(shelf)
      /\ o \in Nat /\ PageSize \in Nat
  BY Lists, DataAssumption DEF TypeOK, NoTwice
<1>3. \A i \in L : Place(L, i) \in Nat /\ i \in 1 .. Len(shelf)
  <2> HIDE DEF L
  <2>1. Len(shelf) \in Nat
    BY <1>2
  <2> QED BY <1>2, <2>1, Places
<1>4. Ahead(r) = At(shelf, Top(L, o))
  BY DEF Ahead
<1> HIDE DEF L, o, Q
<1>n. ASSUME NEW i \in L
      PROVE  /\ Place(L, i) <= o + PageSize <=> Place(L, i) <= o \/ Place(L, i) \in o + 1 .. o + PageSize
             /\ ~(Place(L, i) <= o /\ Place(L, i) \in o + 1 .. o + PageSize)
  BY <1>2, <1>3
<1>5. Top(L, o + PageSize) = Top(L, o) \cup J
  BY <1>n DEF Top
<1>6. Top(L, o) \cap J = {} /\ J \in SUBSET (1 .. Len(shelf)) /\ J \in SUBSET L
  BY <1>2, <1>n DEF Top
<1> HIDE DEF J
<1>7. At(shelf, Top(L, o + PageSize)) = Ahead(r) \cup Q
  BY <1>1, <1>4, <1>5 DEF At
<1>8. Top(L, o) \in SUBSET (1 .. Len(shelf))
  BY <1>2 DEF Top
<1>9. ASSUME NEW p \in Q PROVE p \in Behind(r) /\ p \in Products
  <2>1. PICK j \in J : p = shelf[j]
    BY <1>1 DEF At
  <2>2. j \in 1 .. Len(shelf) /\ j \in L /\ j \notin Top(L, o)
    BY <1>6
  <2>3. p \in List(r)
    BY <1>2, <2>1, <2>2 DEF At
  <2>4. p \notin Ahead(r)
    BY <1>2, <1>4, <1>8, <2>1, <2>2, AtSize
  <2>5. p \in Products
    BY <1>2, <2>1, <2>2
  <2> QED BY <2>3, <2>4, <2>5 DEF Behind
<1> QED BY <1>7, <1>9 DEF L, o, Q

\* The reader turns the page.
LEMMA PageTurns ==
  ASSUME TypeOK, NEW r \in Readers, ReaderInv(r), Watched(r), TurnPage(r)
  PROVE  ReaderInv(r)'
<1> DEFINE A == List(r)
           F == Ahead(r)
           S == Shown(r)
           P == steady[r]
           o == offset[r]
           Q == Page(r, o)
           G == At(shelf, Top(Listed(r), o + PageSize))
<1>1. /\ shelf \in Seq(Products) /\ NoTwice(shelf) /\ o \in Nat /\ PageSize \in Nat
      /\ seen[r] \in [Products -> Nat] /\ turn[r] = "reading"
  BY DataAssumption DEF TypeOK, NoTwice, TurnPage, Show
<1>2. /\ Listed(r) \in SUBSET (1 .. Len(shelf)) /\ A = At(shelf, Listed(r))
      /\ IsFiniteSet(A) /\ F \subseteq A
  BY <1>1, Lists
<1>3. /\ shelf' = shelf /\ stock' = stock /\ active' = active /\ inStock' = inStock
      /\ offset'[r] = o + PageSize
      /\ turn'[r] = IF Cardinality(Q) < PageSize THEN "done" ELSE "reading"
      /\ \A p \in Products : seen'[r][p] = seen[r][p] + IF p \in Q THEN 1 ELSE 0
  BY DEF TurnPage, Show, shop, TypeOK
<1>4. Listed(r)' = Listed(r) /\ List(r)' = A
  BY <1>3 DEF Listed, List
<1>5. Ahead(r)' = G /\ Behind(r)' = A \ G
  BY <1>3, <1>4 DEF Ahead, Behind
<1>6. G = F \cup Q /\ Q \subseteq A \ F /\ Q \subseteq Products
  BY PageNext DEF Behind
<1>7. Shown(r)' = S \cup Q /\ {p \in S : seen'[r][p] > seen[r][p]} = S \cap Q
  <2>1. \A p \in Products : seen[r][p] \in Nat
    BY <1>1
  <2> HIDE DEF Q
  <2>2. \A p \in Products : /\ seen'[r][p] > 0 <=> seen[r][p] > 0 \/ p \in Q
                            /\ seen'[r][p] > seen[r][p] <=> p \in Q
    BY <1>3, <2>1
  <2> QED BY <1>6, <2>2 DEF Shown
<1>8. /\ came[r] \in Nat /\ left[r] \in Nat /\ again[r] \in Nat
      /\ P \subseteq A /\ Cardinality((P \cap F) \ S) <= left[r]
      /\ again[r] + Cardinality(S \cap (A \ F)) <= came[r]
  BY <1>1 DEF ReaderInv, Passed, Twice, Behind
<1>9. /\ steady'[r] = P \cap A
      /\ came'[r] = came[r] + Cardinality(A \ A) /\ left'[r] = left[r] + Cardinality(A \ A)
      /\ again'[r] = again[r] + Cardinality(S \cap Q)
  BY <1>1, <1>4, <1>7 DEF Watched
<1>10. Cardinality(A \ A) = 0
  <2> HIDE DEF A
  <2>1. A \ A = {}
    OBVIOUS
  <2> QED BY <2>1, FS_EmptySet
<1>11. steady'[r] = P /\ came'[r] = came[r] /\ left'[r] = left[r]
  BY <1>8, <1>9, <1>10
<1>12. /\ IsFiniteSet(F) /\ IsFiniteSet(Q) /\ Cardinality(Q) \in Nat
       /\ Cardinality(F) \in Nat /\ Cardinality(F) <= o
       /\ G # A => Cardinality(G) = o + PageSize
  <2>1. Top(Listed(r), o) \in SUBSET (1 .. Len(shelf))
        /\ Top(Listed(r), o + PageSize) \in SUBSET (1 .. Len(shelf))
    BY <1>2 DEF Top
  <2>2. IsFiniteSet(F) /\ Cardinality(F) = Cardinality(Top(Listed(r), o))
    BY <1>1, <2>1, AtSize DEF Ahead
  <2>3. Cardinality(G) = Cardinality(Top(Listed(r), o + PageSize))
    BY <1>1, <2>1, AtSize
  <2>4. Len(shelf) \in Nat /\ o + PageSize \in Nat
    BY <1>1
  <2>5. /\ Cardinality(Top(Listed(r), o)) <= o /\ Cardinality(Top(Listed(r), o)) \in Nat
        /\ Top(Listed(r), o + PageSize) # Listed(r) =>
             Cardinality(Top(Listed(r), o + PageSize)) = o + PageSize
    BY <1>1, <1>2, <2>4, TopSize
  <2>6. G # A => Top(Listed(r), o + PageSize) # Listed(r)
    BY <1>2
  <2>7. IsFiniteSet(Q)
    BY <1>2, <1>6, FS_Subset
  <2>8. Cardinality(Q) \in Nat
    BY <2>7, FS_CardinalityType
  <2> QED BY <2>2, <2>3, <2>5, <2>6, <2>7, <2>8
<1> HIDE DEF A, F, S, P, o, Q, G
<1>13. /\ Cardinality(S \cap Q) \in Nat
       /\ Cardinality(S \cap (A \ G)) \in Nat
       /\ Cardinality(S \cap (A \ F)) \in Nat
       /\ Cardinality(S \cap (A \ F)) = Cardinality(S \cap Q) + Cardinality(S \cap (A \ G))
       /\ (S \cup Q) \cap (A \ G) = S \cap (A \ G)
  <2> DEFINE X == S \cap (A \ F)
  <2>1. X \in SUBSET A /\ X \cap Q = S \cap Q /\ X \ Q = S \cap (A \ G)
    BY <1>6
  <2>2. (S \cup Q) \cap (A \ G) = S \cap (A \ G)
    BY <1>6
  <2> HIDE DEF X
  <2>3. IsFiniteSet(X)
    BY <1>2, <2>1, FS_Subset
  <2>4. /\ Cardinality(X) = Cardinality(X \cap Q) + Cardinality(X \ Q) /\ Cardinality(X) \in Nat
        /\ Cardinality(X \cap Q) \in Nat /\ Cardinality(X \ Q) \in Nat
    BY <2>3, Parts
  <2> QED BY <2>1, <2>2, <2>4 DEF X
<1>14. again'[r] \in Nat /\ again'[r] + Cardinality(S \cap (A \ G)) <= came[r]
  BY <1>8, <1>9, <1>13
<1>15. Cardinality((P \cap G) \ (S \cup Q)) <= left[r]
  <2> DEFINE X == (P \cap F) \ S
             Z == (P \cap G) \ (S \cup Q)
  <2>1. Z \in SUBSET X /\ X \in SUBSET F
    BY <1>6
  <2>2. Cardinality(X) <= left[r]
    BY <1>8
  <2> HIDE DEF X, Z
  <2>3. IsFiniteSet(X)
    BY <1>12, <2>1, FS_Subset
  <2>4. IsFiniteSet(Z) /\ Cardinality(Z) <= Cardinality(X)
    BY <2>1, <2>3, FS_Subset
  <2>5. Cardinality(Z) \in Nat /\ Cardinality(X) \in Nat
    BY <2>3, <2>4, FS_CardinalityType
  <2>6. Cardinality(Z) <= left[r]
    BY <1>8, <2>2, <2>4, <2>5
  <2> QED BY <2>6 DEF Z
<1>16. Passed(r)'
  <2>1. steady[r]' = P /\ List(r)' = A /\ Shown(r)' = S \cup Q /\ Ahead(r)' = G /\ left[r]' = left[r]
    BY <1>4, <1>5, <1>7, <1>11
  <2> QED BY <1>8, <1>15, <2>1 DEF Passed
<1>17. Twice(r)'
  <2>1. Shown(r)' = S \cup Q /\ Behind(r)' = A \ G /\ came[r]' = came[r] /\ again[r]' = again'[r]
    BY <1>5, <1>7, <1>11
  <2>2. again'[r] <= came[r]
    BY <1>8, <1>13, <1>14
  <2> QED BY <1>13, <1>14, <2>1, <2>2 DEF Twice
<1>18. Ended(r)'
  <2> SUFFICES ASSUME turn'[r] = "done" PROVE Cardinality(P \ (S \cup Q)) <= left[r]
    BY <1>7, <1>11 DEF Ended
  <2>1. Cardinality(Q) < PageSize
    BY <1>3
  <2>2. Cardinality(G) <= Cardinality(F) + Cardinality(Q) /\ Cardinality(G) \in Nat
    BY <1>6, <1>12, Covered
  <2>3. G = A
    BY <1>1, <1>12, <2>1, <2>2
  <2>4. P \cap G = P
    BY <1>8, <2>3
  <2> QED BY <1>15, <2>4
<1>19. turn'[r] # "none"
  BY <1>3
<1>20. came'[r] \in Nat /\ left'[r] \in Nat /\ again'[r] \in Nat
  BY <1>8, <1>11, <1>14
<1> QED BY <1>16, <1>17, <1>18, <1>19, <1>20 DEF ReaderInv, Unread

\* A reader that opens the list is past nothing.
LEMMA ListOpens ==
  ASSUME TypeOK, TypeOK', NEW r \in Readers, ReaderInv(r), Watched(r),
         turn[r] = "none", turn'[r] = "reading", offset'[r] = offset[r], seen'[r] = seen[r],
         again'[r] = again[r]
  PROVE  ReaderInv(r)'
<1>1. /\ offset[r] = 0 /\ Shown(r) = {} /\ came[r] = 0 /\ left[r] = 0 /\ again[r] = 0
      /\ came[r] \in Nat /\ left[r] \in Nat /\ again[r] \in Nat
  BY DEF ReaderInv, Unread
<1>2. /\ Shown(r)' = {} /\ steady'[r] = List(r)'
      /\ came'[r] = 0 /\ left'[r] = 0 /\ again'[r] = 0
  BY <1>1 DEF Watched, Shown
<1>3. Ahead(r)' = {}
  <2>1. Len(shelf') \in Nat /\ Listed(r)' \in SUBSET (1 .. Len(shelf'))
    BY DEF TypeOK, Listed
  <2>2. \A i \in Listed(r)' : Place(Listed(r)', i) \in Nat /\ Place(Listed(r)', i) >= 1
    BY <2>1, Places
  <2>3. Top(Listed(r)', 0) = {}
    BY <2>2 DEF Top
  <2>4. Ahead(r)' = At(shelf', Top(Listed(r)', 0))
    BY <1>1 DEF Ahead
  <2> QED BY <2>3, <2>4 DEF At
<1>4. Passed(r)'
  BY <1>2, <1>3, FS_EmptySet DEF Passed
<1>5. Twice(r)'
  BY <1>2, FS_EmptySet DEF Twice
<1> QED BY <1>2, <1>4, <1>5 DEF ReaderInv, Unread, Ended

\* The list changes and a reader that does not read stays as it is.
LEMMA Rests ==
  ASSUME NEW r \in Readers, ReaderInv(r), Watched(r), turn[r] # "reading",
         turn'[r] = turn[r], offset'[r] = offset[r], seen'[r] = seen[r],
         again'[r] = again[r]
  PROVE  ReaderInv(r)'
<1>1. /\ came[r] \in Nat /\ left[r] \in Nat /\ again[r] \in Nat
      /\ Unread(r) /\ Ended(r) /\ Twice(r)
  BY DEF ReaderInv
<1>2. came'[r] = came[r] /\ left'[r] = left[r] /\ Shown(r)' = Shown(r)
  BY <1>1 DEF Watched, Shown
<1>3. turn[r] = "done" => steady'[r] = steady[r]
  BY DEF Watched
<1>4. Unread(r)'
  BY <1>1, <1>2 DEF Unread
<1>5. Ended(r)'
  BY <1>1, <1>2, <1>3 DEF Ended
<1>6. Twice(r)' /\ Passed(r)'
  BY <1>1, <1>2 DEF Twice, Passed
<1> QED BY <1>1, <1>2, <1>4, <1>5, <1>6 DEF ReaderInv

\* No step changes the order of what is on the shelf.
LEMMA OrderStays ==
  ASSUME TypeOK, Next
  PROVE  SameOrder(shelf, shelf')
<1>1. CASE shelf' = shelf
  BY <1>1 DEF TypeOK, SameOrder
<1>2. ASSUME NEW p \in Products, NEW n \in Amounts, NEW b \in BOOLEAN, Create(p, n, b)
      PROVE  SameOrder(shelf, shelf')
  <2>1. /\ Len(shelf) \in Nat /\ Len(shelf') = 1 + Len(shelf) /\ shelf'[1] = p
        /\ \A i \in 2 .. Len(shelf') : i - 1 \in 1 .. Len(shelf) /\ shelf'[i] = shelf[i - 1]
    <3>1. shelf \in Seq(Products) /\ <<p>> \in Seq(Products) /\ shelf' = <<p>> \o shelf
      BY <1>2 DEF TypeOK, Create
    <3> QED BY <3>1
  <2>2. \A i \in 1 .. Len(shelf) : shelf[i] # p
    BY <1>2 DEF Create, Elements
  <2>3. ASSUME NEW i \in 1 .. Len(shelf), NEW j \in 1 .. Len(shelf'), shelf[i] = shelf'[j]
        PROVE  j = i + 1
    <3>1. j # 1
      BY <2>1, <2>2, <2>3
    <3>2. j \in 2 .. Len(shelf')
      BY <2>1, <3>1
    <3>3. shelf[i] = shelf[j - 1] /\ j - 1 \in 1 .. Len(shelf)
      BY <2>1, <2>3, <3>2
    <3>4. i = j - 1
      BY <3>3 DEF TypeOK
    <3> QED BY <2>1, <3>4
  <2>4. ASSUME NEW i \in 1 .. Len(shelf), NEW k \in 1 .. Len(shelf),
               NEW j \in 1 .. Len(shelf'), NEW m \in 1 .. Len(shelf'),
               shelf[i] = shelf'[j], shelf[k] = shelf'[m]
        PROVE  i < k <=> j < m
    <3>1. j = i + 1 /\ m = k + 1 /\ i \in Nat /\ k \in Nat
      BY <2>1, <2>3, <2>4
    <3> QED BY <3>1
  <2> QED BY <2>4 DEF SameOrder
<1>3. shelf' = shelf \/ \E p \in Products, n \in Amounts, b \in BOOLEAN : Create(p, n, b)
  BY DEF Next, LoadForm, SaveForm, Save, SaveWithoutStock, Write, Sell, OpenList, TurnPage, Show,
         shop
<1> QED BY <1>1, <1>2, <1>3

\* What a step does to a reader.
LEMMA ReaderSteps ==
  ASSUME TypeOK, Next, NEW r \in Readers
  PROVE  \/ turn'[r] = turn[r] /\ offset'[r] = offset[r] /\ seen'[r] = seen[r]
         \/ /\ turn[r] = "none" /\ turn'[r] = "reading"
            /\ offset'[r] = offset[r] /\ seen'[r] = seen[r]
         \/ TurnPage(r)
<1>1. CASE UNCHANGED readers
  BY <1>1 DEF readers
<1>2. ASSUME NEW q \in Readers, NEW only \in BOOLEAN, OpenList(q, only)
      PROVE  \/ turn'[r] = turn[r] /\ offset'[r] = offset[r] /\ seen'[r] = seen[r]
             \/ /\ turn[r] = "none" /\ turn'[r] = "reading"
                /\ offset'[r] = offset[r] /\ seen'[r] = seen[r]
  BY <1>2 DEF OpenList, TypeOK
<1>3. ASSUME NEW q \in Readers, TurnPage(q), q # r
      PROVE  turn'[r] = turn[r] /\ offset'[r] = offset[r] /\ seen'[r] = seen[r]
  BY <1>3 DEF TurnPage, Show, TypeOK
<1>4. \/ UNCHANGED readers
      \/ \E q \in Readers, only \in BOOLEAN : OpenList(q, only)
      \/ \E q \in Readers : TurnPage(q)
  BY DEF Next, Create, LoadForm, SaveForm, Save, SaveWithoutStock, Write, Sell
<1> QED BY <1>1, <1>2, <1>3, <1>4

\* Nothing is shown again to a reader that is shown nothing.
LEMMA NothingAgain ==
  ASSUME TypeOK, NEW r \in Readers, ReaderInv(r), Watched(r), seen'[r] = seen[r]
  PROVE  again'[r] = again[r]
<1>1. \A p \in Products : ~(seen'[r][p] > seen[r][p])
  BY DEF TypeOK
<1>2. {p \in Shown(r) : seen'[r][p] > seen[r][p]} = {}
  BY <1>1 DEF Shown
<1>3. Cardinality({p \in Shown(r) : seen'[r][p] > seen[r][p]}) = 0
  BY <1>2, FS_EmptySet
<1>4. again'[r] = again[r] + 0 /\ again[r] \in Nat
  BY <1>3 DEF Watched, ReaderInv
<1> QED BY <1>4

LEMMA HistoryBegins == HInit => HInv
<1> SUFFICES ASSUME HInit PROVE HInv
  OBVIOUS
<1>1. IInv
  BY Initially DEF HInit
<1>2. ASSUME NEW r \in Readers PROVE ReaderInv(r)
  <2>1. /\ turn[r] = "none" /\ offset[r] = 0 /\ Shown(r) = {}
        /\ came[r] = 0 /\ left[r] = 0 /\ again[r] = 0
    BY DEF HInit, Init, Shown
  <2> QED BY <2>1 DEF ReaderInv, Unread, Passed, Ended, Twice
<1> QED BY <1>1, <1>2 DEF HInv

LEMMA HistoryKeeps == HInv /\ [HNext]_hvars => HInv'
<1> SUFFICES ASSUME HInv, [HNext]_hvars PROVE HInv'
  OBVIOUS
<1>1. IInv /\ TypeOK /\ \A r \in Readers : ReaderInv(r)
  BY DEF HInv, IInv
<1>2. CASE UNCHANGED hvars
  <2>1. UNCHANGED vars /\ UNCHANGED history
    BY <1>2 DEF hvars
  <2>2. IInv'
    BY <1>1, <2>1, Preserved
  <2>3. ASSUME NEW r \in Readers PROVE ReaderInv(r)'
    <3>1. /\ shelf' = shelf /\ stock' = stock /\ active' = active
          /\ turn' = turn /\ inStock' = inStock /\ offset' = offset /\ seen' = seen
          /\ steady' = steady /\ came' = came /\ left' = left /\ again' = again
      BY <2>1 DEF vars, shop, readers, history
    <3>2. Listed(r)' = Listed(r)
      BY <3>1 DEF Listed
    <3>3. List(r)' = List(r) /\ Ahead(r)' = Ahead(r) /\ Shown(r)' = Shown(r)
      BY <3>1, <3>2 DEF List, Ahead, Shown
    <3>4. Behind(r)' = Behind(r)
      BY <3>3 DEF Behind
    <3> QED BY <1>1, <3>1, <3>3, <3>4 DEF ReaderInv, Unread, Passed, Ended, Twice
  <2> QED BY <2>2, <2>3 DEF HInv
<1>3. CASE HNext
  <2>1. Next /\ Watch
    BY <1>3 DEF HNext
  <2>2. IInv'
    BY <1>1, <2>1, Preserved
  <2>3. TypeOK'
    BY <2>2 DEF IInv
  <2>4. ASSUME NEW r \in Readers PROVE ReaderInv(r)'
    <3>1. ReaderInv(r) /\ Watched(r)
      BY <1>1, <2>1, Watches
    <3>2. CASE TurnPage(r)
      BY <1>1, <3>1, <3>2, PageTurns
    <3>3. CASE seen'[r] = seen[r] /\ offset'[r] = offset[r]
      <4>1. again'[r] = again[r]
        BY <1>1, <3>1, <3>3, NothingAgain
      <4>2. CASE turn[r] = "none" /\ turn'[r] = "reading"
        BY <1>1, <2>3, <3>1, <3>3, <4>1, <4>2, ListOpens
      <4>3. CASE turn'[r] = turn[r] /\ turn[r] # "reading"
        BY <3>1, <3>3, <4>1, <4>3, Rests
      <4>4. CASE turn'[r] = turn[r] /\ turn[r] = "reading"
        <5>1. /\ shelf \in Seq(Products) /\ NoTwice(shelf) /\ offset[r] \in Nat
              /\ shelf' \in Seq(Products) /\ NoTwice(shelf')
          BY <1>1, <2>3 DEF TypeOK, NoTwice
        <5>2. SameOrder(shelf, shelf')
          BY <1>1, <2>1, OrderStays
        <5> QED BY <3>1, <3>3, <4>1, <4>4, <5>1, <5>2, ListMoves
      <4>5. turn'[r] = turn[r] \/ (turn[r] = "none" /\ turn'[r] = "reading") \/ TurnPage(r)
        BY <1>1, <2>1, ReaderSteps
      <4> QED BY <3>2, <4>2, <4>3, <4>4, <4>5
    <3> QED BY <1>1, <2>1, <3>2, <3>3, ReaderSteps
  <2> QED BY <2>2, <2>4 DEF HInv
<1> QED BY <1>2, <1>3

LEMMA HistoryInvariant == HSpec => []HInv
<1> QED BY HistoryBegins, HistoryKeeps, PTL DEF HSpec

\* However the list changes while a reader turns its pages, it misses no more
\* of what was listed all the time than have left the list in front of it.
THEOREM OnlyLeaversHide == HSpec => []MissedOnlyByLeavers
<1>1. HInv => MissedOnlyByLeavers
  BY DEF HInv, ReaderInv, Ended, MissedOnlyByLeavers
<1> QED BY <1>1, HistoryInvariant, PTL

\* And it is shown no more products again than have come on the list.
THEOREM OnlyComersRepeat == HSpec => []RepeatedOnlyByComers
<1>1. ASSUME HInv, NEW r \in Readers PROVE again[r] <= came[r]
  <2>1. ReaderInv(r) /\ TypeOK
    BY <1>1 DEF HInv, IInv
  <2>2. CASE turn[r] # "reading"
    BY <2>1, <2>2 DEF ReaderInv, Twice
  <2>3. CASE turn[r] = "reading"
    <3>1. again[r] + Cardinality(Shown(r) \cap Behind(r)) <= came[r]
      BY <2>1, <2>3 DEF ReaderInv, Twice
    <3>2. IsFiniteSet(List(r)) /\ Shown(r) \cap Behind(r) \in SUBSET List(r)
      BY <2>1, Lists DEF TypeOK, NoTwice, Behind
    <3>3. Cardinality(Shown(r) \cap Behind(r)) \in Nat
      <4> DEFINE X == Shown(r) \cap Behind(r)
      <4> HIDE DEF X
      <4>1. X \in SUBSET List(r)
        BY <3>2 DEF X
      <4>2. IsFiniteSet(X)
        BY <3>2, <4>1, FS_Subset
      <4>3. Cardinality(X) \in Nat
        BY <4>2, FS_CardinalityType
      <4> QED BY <4>3 DEF X
    <3>4. again[r] \in Nat /\ came[r] \in Nat
      BY <2>1 DEF ReaderInv
    <3> QED BY <3>1, <3>3, <3>4
  <2> QED BY <2>2, <2>3
<1>2. HInv => RepeatedOnlyByComers
  BY <1>1 DEF RepeatedOnlyByComers
<1> QED BY <1>2, HistoryInvariant, PTL
=============================================================================
