CONSTANTS
  UintRange = 16
  Wide = {"w"}
  MaxComps = 2
  Openings <- MCOpenings
  Comps <- MCDecoded
  MaxHistory = 3
SPECIFICATION Spec
INVARIANTS
  FollowerHasTheDocument
  SticksOnlyOnEmpty
  CrashesOnlyEmptyAndLimited
CHECK_DEADLOCK FALSE
