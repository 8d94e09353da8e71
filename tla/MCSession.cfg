CONSTANTS
  UintRange = 64
  Wide = {}
  Clients <- MCClients3
  Founders <- MCFounders
  InitialText <- MCNoText
  Edits <- UnevenInserts
  MaxEdits = 2
SPECIFICATION SessionFairSpec
INVARIANTS
  Bridge
  InsidersConverge
PROPERTIES
  EventuallyAcknowledged
CHECK_DEADLOCK FALSE
