SPECIFICATION Spec
CONSTANTS
  c1 = c1
  c2 = c2
  None = None
  Conns = {c1}
  MaxPage = 3
  MaxTx = 4
  Settings <- StaleSettings
INVARIANT ReadersSeeStore
