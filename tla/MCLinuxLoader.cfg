CONSTANTS
  Total = 10
  Reserved = 2
  Runtime = {2}
  Scratch = {5}
  Machines <- MCMachines
  Tables <- MCTables
  MaxFailures = 2
SPECIFICATION Spec
INVARIANTS
  JumpIntact
  ReturnSafe
  MapHonest
PROPERTY LoaderEnds
CHECK_DEADLOCK FALSE
