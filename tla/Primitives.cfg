SPECIFICATION Spec
CONSTANTS
  I8Max = 3
  UszMax = 20
  UrMax = 4
  Block = 4
  I64Max = 100
  SparseRatio = 2
  DenseRatio = 2
  Word = 4
  Seeds <- MCSeeds
  Lists <- MCLists
  AxisLists <- MCAxisLists
  Times <- MCTimes
  Keys <- MCKeys
  GroupArgs <- MCGroupArgs
  ChunkFrom = 2
  ChunkRatio = 1
  FilterFrom = 2
  FilterRatio = 4
  Sizes <- MCSizes
  EmptyCells = FALSE
  MaxSteps = 1
  MaxIa = 4
  MaxRank = 2
CHECK_DEADLOCK FALSE
INVARIANTS
  ResultsProper
  AsDefined
  UnderReplaces
