SPECIFICATION FairSpec
CONSTANTS
  User = {u}
  Worker = {w1, w2}
  Every = 2
  Limit = 1
  MaxAhead = 2
  MaxRecords = 3
  MaxList = 2
  MaxFaults = 1
CHECK_DEADLOCK FALSE
INVARIANTS
  TypeOK
  NothingLost
  LossIsBounded
  OncePerPeriod
PROPERTIES
  RecordsArrive
