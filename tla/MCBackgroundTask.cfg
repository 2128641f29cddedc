SPECIFICATION FairSpec
CONSTANTS
  Worker = {w1, w2}
  Web = {u1, u2}
  MaxRetries = 1
  MaxCalls = 3
CHECK_DEADLOCK FALSE
INVARIANTS
  TypeOK
  CompletedIffDone
PROPERTIES
  CancelIsFinal
  TaskEnds
