SPECIFICATION Spec
CONSTANTS
  c1 = c1
  c2 = c2
  None = None
  Conns = {c1, c2}
  MaxPage = 3
  MaxTx = 3
  Settings <- AllSettings
SYMMETRY Connections
INVARIANTS TypeOK Durable StoreIsCommitted WriteAhead ReadersSeeStore
PROPERTIES CutIsSafe IsAtomicStore
