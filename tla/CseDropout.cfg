\* The graph alone, with a node that draws a dropout mask.
SPECIFICATION LocalSpec
CONSTANTS
  Parts = {"graph"}
  Dir = {d1, d2}
  NoDir = NoDir
  FeatureId = {0, 1}
  ZeroId = {1}
  MaxShard = 2
  RemoveZeros = TRUE
  ExpireThreshold = 1
  MaxRun = 3
  MaxCrash = 1
  MaxCut = 1
  Key = {1, 2, 3, 4}
  Val = {v1, v2}
  NoVal = NoVal
  NoKey = NoKey
  Hash <- Hash4
  MinBucket = 4
  MaxSize = 3
  Table = {t1, t2}
  Id = {a}
  UpdateThreshold = 2
  DistanceThreshold = 1
  MaxValue = 3
  Step <- StepValues
  Batch = 2
  XSize = 2
  HistSize = 1
  MaxLine = 3
  MaxFile = 2
  MaxNode = 5
  Kind = {"variable", "dropout", "add"}
INVARIANT TargetsKeepMeaning
CHECK_DEADLOCK FALSE
