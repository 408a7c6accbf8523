SPECIFICATION HSpec
CONSTANTS
  r1 = r1
  r2 = r2
  r3 = r3
  k1 = k1
  k2 = k2
  o1 = o1
  o2 = o2
  s1 = s1
  pa = pa
  pb = pb
  i1 = i1
  i2 = i2
  i3 = i3
  i4 = i4
  i5 = i5
  lost = lost
  Requests = {r1, r2}
  Refs = {k1}
  Orders = {o1, o2}
  Subs = {}
  Products = {pa, pb}
  Items <- MCItems
  OrderOf <- MCOrderOf
  ProductOf <- MCProductOf
  Quantity <- MCQuantity
  Units <- MCUnits
  Types = {"order"}
  Entities = {o1, o2}
  Statuses = {"INIT", "PAID"}
  OrderStatuses = {"NEW", "PAID"}
  StockLevels = {2, 6}
  MaxOpenConns = 4
  NoPayment = NoPayment
  NoItem = NoItem
  Unwritten = Unwritten
SYMMETRY Symmetry
INVARIANTS
  AtMostOnce
