CONSTANTS
  Trees <- AgpTrees
  Rams <- AgpRams
  MaxBus = 3
  MaxBridges = 16
  IoBase = 8
  MemMin = 128
  RootAlign = 32
  IoAlign = 4
  MemAlign = 2
SPECIFICATION Spec
INVARIANT WindowsCover
CHECK_DEADLOCK FALSE
