CONSTANTS
  UintRange = 64
  Wide = {}
  Clients <- MCClients2
  InitialText <- MCText1
  Edits <- Careless
  MaxEdits = 3
SPECIFICATION EditorSpec
INVARIANTS
  TypeOK
  AckDiscipline
  OneInFlight
  BufferFollows
  CallersStayInRange
  InSync
PROPERTIES
  ServedInOrder
CHECK_DEADLOCK FALSE
