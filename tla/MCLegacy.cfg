CONSTANTS
  Times <- MCTimes
  Modes <- MCModes
  MaxUpdates = 2
  Midnight = 2
  Slots = 3
  Programs <- MCPrograms
SPECIFICATION Spec
INVARIANTS
  AnswersReachCaller
  MidnightOnce
  KeysInOrder
  ClockKept
CHECK_DEADLOCK FALSE
