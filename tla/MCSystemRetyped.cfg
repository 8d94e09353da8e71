CONSTANTS
  UintRange = 64
  Wide = {}
  Clients <- MCClients2
  InitialText <- MCText2
  Edits <- Retyped
  MaxEdits = 2
SPECIFICATION Spec
INVARIANTS
  Converged
CHECK_DEADLOCK FALSE
