SPECIFICATION Spec
CONSTANTS
  Order <- BuildSh
  MaxBuilds = 1
  MaxHurts = 0
  MaxCleans = 0
INVARIANTS
  CompiledByBuild
CHECK_DEADLOCK FALSE
