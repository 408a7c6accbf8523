SPECIFICATION MCFairSpec
CONSTANTS
  a1 = a1
  a2 = a2
  x1 = x1
  pa = pa
  pb = pb
  pz = pz
  Calls = {a1, a2}
  Settlers = {x1}
  Products = {pa, pb}
  Named = {pa, pb, pz}
  Quantities <- MCQuantities
  Carts <- MCCarts
  Routes <- MCRoutes
  Prices <- MCPrices
  Half = 4
  NoOrder = NoOrder
CHECK_DEADLOCK FALSE
INVARIANTS
  TypeOK
  TotalExact
  DeadlockShape
PROPERTIES
  Ordered
  EveryOrderEnds
