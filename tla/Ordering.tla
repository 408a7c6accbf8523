------------------------------ MODULE Ordering ------------------------------
(***************************************************************************)
(* What the order service promises the rest of the system: a cart is       *)
(* priced line by line at the prices of the moment, and the order with all *)
(* of its lines, at those prices, is there in one step or never; nothing   *)
(* changes it after.  There are no statements, transactions, locks,        *)
(* settlements or failures here.  Checkout implements this specification.  *)
(***************************************************************************)
EXTENDS Integers, Sequences

CONSTANTS Calls, Products, Carts, Prices, NoOrder

VARIABLES
  price,    \* the price of each product
  asked,    \* the cart of each call
  quoted,   \* the prices it has been quoted so far
  placed    \* the lines of its order, or NoOrder

all == <<price, asked, quoted, placed>>

Init ==
  /\ price \in [Products -> Prices]
  /\ asked \in [Calls -> Carts]
  /\ quoted = [r \in Calls |-> << >>]
  /\ placed = [r \in Calls |-> NoOrder]

Quote(r) ==
  LET i == Len(quoted[r]) + 1
  IN  /\ placed[r] = NoOrder
      /\ i <= Len(asked[r])
      /\ asked[r][i].product \in Products
      /\ asked[r][i].quantity > 0
      /\ quoted' = [quoted EXCEPT ![r] = Append(@, price[asked[r][i].product])]
      /\ UNCHANGED <<price, asked, placed>>

\* The lines asked for, at the prices quoted.
Lines(r) ==
  [i \in 1 .. Len(asked[r]) |-> [product  |-> asked[r][i].product,
                                 quantity |-> asked[r][i].quantity,
                                 price    |-> quoted[r][i]]]

Place(r) ==
  /\ placed[r] = NoOrder
  /\ asked[r] # << >>
  /\ Len(quoted[r]) = Len(asked[r])
  /\ placed' = [placed EXCEPT ![r] = Lines(r)]
  /\ UNCHANGED <<price, asked, quoted>>

WritePrice(p, n) ==
  /\ price' = [price EXCEPT ![p] = n]
  /\ UNCHANGED <<asked, quoted, placed>>

Next ==
  \/ \E r \in Calls : Quote(r) \/ Place(r)
  \/ \E p \in Products, n \in Prices : WritePrice(p, n)

Spec == Init /\ [][Next]_all
=============================================================================
