SPECIFICATION Spec
CONSTANTS
  a1 = a1
  a2 = a2
  b1 = b1
  b2 = b2
  pa = pa
  pb = pb
  Conns = {a1, a2, b1, b2}
  Procs = {pa, pb}
  ProcOf <- MCProcOf
INVARIANTS TypeOK Exclusion Backed NothingLeaks ReservedIsSeen
PROPERTY IsFileLock PendingBlocksProcesses
