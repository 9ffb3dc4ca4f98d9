CONSTANTS
  Capacity = 3
  Word = 5
  MaxChunk = 2
  Packets = 2
  Tries = 3
  MaxCount = 3
  MaxFaults = 2
SPECIFICATION Spec
INVARIANTS
  ReadsAreRight
  InStep
  SelectionRepairs
  ReadsSucceed
PROPERTY CallsReturn
CHECK_DEADLOCK FALSE
