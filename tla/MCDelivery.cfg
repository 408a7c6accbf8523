SPECIFICATION FairSpec
CONSTANTS
  order = order
  payment = payment
  i1 = i1
  i2 = i2
  Posts = {order}
  Hooks = {payment}
  Tries = {i1, i2}
  WriteTimeout = 2
  Grace = 2
  NewFor = 1
  MaxFaults = 2
INVARIANTS
  TypeOK
  ToldInEffect
  OncePatient
  TwiceOnlyUntold
  ShutdownSpares
PROPERTIES
  EveryTaskTold
