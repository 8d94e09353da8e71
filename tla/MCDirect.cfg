CONSTANTS
  UintRange = 256
  Wide = {}
  Clients <- MCClients2
  InitialText <- MCText2
  Edits <- Careless
  MaxEdits = 2
  Applications <- MCOneQueue
SPECIFICATION DirectSpec
PROPERTIES
  AsQueued
CHECK_DEADLOCK FALSE
