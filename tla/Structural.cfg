SPECIFICATION Spec
CONSTANTS
  I8Max = 3
  UszMax = 20
  UrMax = 4
  Block = 4
  I64Max = 100
  Seeds <- MCSeeds
  Parts <- MCParts
  Numbs <- MCNumbs
  Vectors <- MCVectors
  Axes <- MCAxes
  MaxSteps = 1
  MaxIa = 4
  MaxRank = 2
  OvertakeSorted = FALSE
  SlowBackwards = FALSE
CHECK_DEADLOCK FALSE
INVARIANTS
  ResultsProper
  AsPromised
  RepeatIsIteration
  UnderIsLocal
