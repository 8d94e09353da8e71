CONSTANTS
  MaxComps = 3
  MaxCount = 2
  DecodedComps = 2
  Pairs <- MCPairs
  Texts <- MCTexts
SPECIFICATION Spec
INVARIANTS
  Aligned
  ResultSpans
  TP1
  MergeKeepsIntentions
  ComposeIsSequence
  FailsForCause
PROPERTIES
  EveryTurnAdvances
CHECK_DEADLOCK FALSE
