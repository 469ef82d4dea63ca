SPECIFICATION MCSpec
CONSTANTS
  Keys <- MCKeys
  Lower <- MCLower
  strHash <- MCHash
  d1 = d1
  d2 = d2
  Data = {d1,d2}
  NULL = NULL
  Threshold = 1
  SoftLimit = 3
INVARIANTS BucketsPartition LoadBounded
PROPERTY IsDictionary
