\* A master and three workers, started in any order; connecting may fail.
CONSTANTS
  N = 4
  Tick = 1
  Report = 3
  Limit = 4
  MaxWaited = 8
  MayFail = TRUE
SPECIFICATION FairSpec
INVARIANTS TypeOK ReadyMeansAllUp NoDoubleConnect
PROPERTIES AllReady LossReachesJoined
CHECK_DEADLOCK FALSE
