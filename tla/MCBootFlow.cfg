CONSTANTS
  Platforms <- MCPlatforms
  Roms <- MCRoms
  Media <- MCMedia
  MaxResets = 1
  MaxFailures = 1
  MaxKeys = 1
SPECIFICATION Spec
INVARIANTS
  HeapSuffices
  MaintenanceHonoured
PROPERTIES
  NeverRelearned
  BootEnds
CHECK_DEADLOCK FALSE
