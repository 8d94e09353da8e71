CONSTANTS
  UintRange = 256
  Wide = {}
  Clients <- MCClients2
  InitialText <- MCNoText
  Edits <- FreshInserts
  MaxEdits = 2
  Applications <- MCNoQueue
SPECIFICATION DirectFairSpec
PROPERTIES
  CallsReturn
CHECK_DEADLOCK FALSE
