SPECIFICATION HSpec
CONSTANTS
  a1 = a1
  a2 = a2
  a3 = a3
  u1 = u1
  Calls = {a1, a2, a3}
  Users = {u1}
  Second = 2
  AccessTTL = 3
  RefreshTTL = 4
  MaxTime = 8
  NoToken = NoToken
SYMMETRY Symmetry
CHECK_DEADLOCK FALSE
INVARIANTS
  AccessWindow
  AdminFollows
  RevokedIsFinal
