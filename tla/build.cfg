SPECIFICATION Spec
CONSTANTS
  Order <- Kinds
  MaxBuilds = 3
  MaxHurts = 1
  MaxCleans = 1
INVARIANTS
  BuiltUnlessHurt
  RebuildIsCheap
CHECK_DEADLOCK FALSE
