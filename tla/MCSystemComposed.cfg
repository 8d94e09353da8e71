CONSTANTS
  UintRange = 64
  Wide = {}
  Clients <- MCClients2
  InitialText <- MCText1
  Edits <- FreshOrOriginal
  MaxEdits = 2
SPECIFICATION Spec
INVARIANTS
  Converged
CHECK_DEADLOCK FALSE
