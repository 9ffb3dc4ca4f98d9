CONSTANTS
  CmdlineMax = 3
  Images <- MCImages
  Commands <- MCCommands
  MaxCommands = 3
  MaxCuts = 2
SPECIFICATION Spec
INVARIANTS
  Persisted
  CutLeavesOldOrNew
  AtMostOnce
CHECK_DEADLOCK FALSE
