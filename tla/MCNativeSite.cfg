SPECIFICATION FairSpec
CONSTANTS
  Container = {c1, c2, c3}
  Action = {a1}
  None = None
  Lease = 4
  WorkEnd = 5
  Install = 1
  Setup = 1
  Step = 1
  MaxChanges = 1
CHECK_DEADLOCK FALSE
INVARIANTS
  AllocatedOnce
  ReportedWasOwned
  ReportedIsBacked
  IInv
PROPERTIES
  LeaseIsNeverExtended
  ContainersEnd
