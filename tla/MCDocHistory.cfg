CONSTANTS
  UintRange = 16
  Wide = {"w"}
  MaxComps = 2
  Texts <- MCTexts
  FirstComps <- MCFirst
  LaterComps <- MCWritten
  MaxSize = {0, 3}
  MaxHistory = 4
SPECIFICATION Spec
INVARIANTS
  ComposedIsReplay
  HashChain
  CatchesUp
  WithinMaxSize
  ReloadsTheSame
PROPERTIES
  RefusedForCause
CHECK_DEADLOCK FALSE
