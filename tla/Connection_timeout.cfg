\* The limit of 30 s is never applied.
CONSTANTS
  N = 2
  Tick = 1
  Report = 3
  Limit = 4
  MaxWaited = 8
  MayFail = FALSE
SPECIFICATION Spec
INVARIANTS GivesUpInTime
CHECK_DEADLOCK FALSE
