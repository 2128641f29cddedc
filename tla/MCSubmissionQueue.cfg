SPECIFICATION FairSpec
CONSTANTS
  Session = {s1, s2}
  Worker = {w1, w2}
  MaxRows = 2
  MaxStamp = 2
  MaxFaults = 1
CHECK_DEADLOCK FALSE
INVARIANTS
  TypeOK
  FinishedOnce
  WaitsAlone
  EventsAreExact
PROPERTY RowsEnd
