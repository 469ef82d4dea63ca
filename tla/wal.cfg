SPECIFICATION Spec
CONSTANTS
  c1 = c1
  c2 = c2
  c3 = c3
  None = None
  Conns = {c1, c2, c3}
  NReader = 3
  MaxPage = 2
  MaxTx = 3
  MaxFrame = 4
  Settings <- AllSettings
INVARIANTS SnapshotIsolation StoreIsCommitted BackfillInLog
PROPERTY IsSnapshotStore
