SPECIFICATION FairSpec
CONSTANTS
  Proc = {p1, p2, p3}
  Limit = 2
  MaxFailures = 3
INVARIANTS
  CleanPoolIsBounded
  IInv
PROPERTY PoolHeals
