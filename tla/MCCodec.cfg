CONSTANTS
  Sent <- MCSent
  HashLen = 3
  IntMax = 7
  MaxDamage = 2
SPECIFICATION Spec
INVARIANTS
  RoundTrip
  NeverPassesForOp
CHECK_DEADLOCK FALSE
