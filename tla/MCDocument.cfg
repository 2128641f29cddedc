SPECIFICATION FairSpec
CONSTANTS
  Session = {s1, s2}
  Worker = {w1}
  NoProc = NoProc
  Unsubmittable = FALSE
  MaxStamp = 2
  MaxQueued = 2
CHECK_DEADLOCK FALSE
INVARIANTS
  ModifiedIdentifiesVersion
  IInv
PROPERTIES
  DocumentIsAtomic
  SavesEnd
  LockGoesWithItsJob
