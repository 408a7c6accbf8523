SPECIFICATION HSpec
CONSTANTS
  a1 = a1
  a2 = a2
  c1 = c1
  c2 = c2
  p1 = p1
  Calls = {a1, a2}
  ComplexIds = {c1, c2}
  Plans = {p1}
  ComplexStatuses = {"ACTIVE", "PLANNED"}
  Prices <- MCPrices
  Period = 2
  MaxTime = 3
  NoSub = NoSub
SYMMETRY Symmetry
INVARIANTS
  ActiveAccounted
  PeriodPaid
PROPERTIES
  CreatedInQuiet
