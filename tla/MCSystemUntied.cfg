CONSTANTS
  UintRange = 64
  Wide = {}
  Clients <- MCClients2
  InitialText <- MCText2
  Edits <- FreshMixed
  MaxEdits = 2
SPECIFICATION UntiedSpec
INVARIANTS
  Bridge
  AckedAsAnticipated
  Converged
  HashFindsTheVersion
CHECK_DEADLOCK FALSE
