CONSTANTS
  Word = 32
  Lba28 = 8
  Batch = 2
  UsbBatch = 3
  Spt = 2
  FewHeads = 1
  ManyHeads = 2
  MaxCylinders = 2
  Tries = 3
  FloppyHeads = 1
  FloppySpt = 2
  Machines <- MCMachines
  Counts = {0, 1, 3, 5}
  MaxFaults = 2
SPECIFICATION Spec
INVARIANTS
  ReadRight
  BootHonest
  RefusalsHaveCause
PROPERTY ScanEnds
CHECK_DEADLOCK FALSE
