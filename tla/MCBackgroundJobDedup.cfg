SPECIFICATION JobSpec
CONSTANTS
  Caller = {c1, c2}
  Worker = {w1, w2}
  MaxRetry = 2
  MaxCalls = 4
SYMMETRY Symmetry
CHECK_DEADLOCK FALSE
INVARIANT NeverQueuedTwice
