CONSTANTS
  Payloads <- MCPayloads
  Samples = 3
  RomTries = 2
  BlockTries = 2
  FlakyTables = TRUE
  HasContext = TRUE
  MaxGlitches = 5
  MaxLoads = 2
  MaxKeys = 2
SPECIFICATION LoadSpec
INVARIANTS
  NeverSilentlyWrong
  StageReturned
  IntactLoads
  KeyKept
PROPERTY LoadEnds
CHECK_DEADLOCK FALSE
