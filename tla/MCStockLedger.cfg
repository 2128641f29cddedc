SPECIFICATION FairSpec
CONSTANTS
  v1 = v1
  v2 = v2
  v3 = v3
  Voucher = {v1, v2, v3}
  Time <- TimeOf
  Qty <- QtyOf
  Chunk = 1
  MaxReposts = 1
  MaxFaults = 1
CHECK_DEADLOCK FALSE
INVARIANTS
  TypeOK
  LedgerIsExact
  StaleIsCovered
PROPERTIES
  ValuesSettle
