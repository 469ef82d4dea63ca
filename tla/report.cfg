SPECIFICATION MCSpec
CONSTANTS
  None = None
  Programs <- TwoPrograms
  Scripts <- AllScripts
  Goals <- GoalsOf
INVARIANTS
  OverheadLineFinal
  OverheadSkips
  NumbersFinal
  OverIsReported
CHECK_DEADLOCK FALSE
