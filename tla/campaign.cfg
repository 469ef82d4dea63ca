SPECIFICATION MCSpec
CONSTANTS
  s1 = s1
  s2 = s2
  None = None
  Shells = {s1, s2}
  Plans <- AlonePlans
  Menu <- AllScripts
  Benchmarks <- MakeJson
  Overheads <- LibsAndUtils
  Utils <- Cat
  AllUtils <- Cat
  Built = {"make", "json", "libosip", "cat"}
  Results = {r}
  MaxKills = 2
INVARIANTS
  TypeOK
  OwnInputs
  LegsPrepared
  BaselineClean
  LogMatchesLoop
