CONSTANTS
  Blocks = {b1, b2, b3, b4, b5, b6, b7, b8, b9}
  Counts <- MCCounts
  Strings <- MCStrings
  Elements = {"p"}
  Fmts <- MCFmts
  MaxCalls = 4
  Chars <- MCChars
  Stray = {128, 191, 248, 255}
  MaxChars = 3
  SizeMax = 255
SPECIFICATION PartsSpec
INVARIANTS
  NoFault
  NothingLeaked
  MeansTheCalls
  CopyIsEqual
  LastValueCounts
  SlicesAreCharacters
  LengthCounts
CHECK_DEADLOCK FALSE
