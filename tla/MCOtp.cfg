SPECIFICATION HSpec
CONSTANTS
  a1 = a1
  a2 = a2
  a3 = a3
  a4 = a4
  a5 = a5
  Calls = {a1, a2, a3, a4, a5}
  OTPTTL = 3
  OTPRateLimit = 2
  OTPMaxAttempts = 2
  MaxTime = 8
SYMMETRY Symmetry
CHECK_DEADLOCK FALSE
INVARIANTS
  TypeOK
  NeverBlockedEarly
  WrongInOrder
  RateInOrder
PROPERTIES
  LoginInOrder
