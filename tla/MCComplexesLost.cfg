SPECIFICATION HSpec
CONSTANTS
  a1 = a1
  a2 = a2
  a3 = a3
  c1 = c1
  p1 = p1
  p2 = p2
  Calls = {a1, a2, a3}
  ComplexIds = {c1}
  Phones = {p1, p2}
  Threshold <- MCThreshold
  ThresholdStatus = "PLANNED"
  Statuses = {"COLLECTING", "PLANNED"}
  MaxOpenConns = 2
CHECK_DEADLOCK FALSE
SYMMETRY Symmetry
INVARIANTS
  CountExact
