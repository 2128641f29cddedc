SPECIFICATION FairSpec
CONSTANTS
  Recipient = {r1, r2}
  Flusher = {f1}
  Web = {w1}
  RetryLimit = 1
  MayOverrun = TRUE
  MayForce = TRUE
  MaxAttempts = 4
  MaxManual = 1
CHECK_DEADLOCK FALSE
INVARIANTS
  TypeOK
  SentMeansDelivered
  DuplicatesHaveACause
  RetryBudget
PROPERTY EmailSettles
