SPECIFICATION MCFairSpec
CONSTANTS
  s1 = s1
  s2 = s2
  None = None
  Shells = {s1, s2}
  Plans <- LabelPlans
  Menu <- AllScripts
  Benchmarks <- Sqlite
  Overheads <- LibsAndUtils
  Utils <- Cat
  AllUtils <- Cat
  Built = {"sqlite", "libosip", "cat"}
  Results = {r}
  MaxKills = 1
INVARIANTS
  LabelHonest
  PairsComparable
  OneWriter
PROPERTIES
  NeverStuck
  OverheadEnds
  WriteOnce
