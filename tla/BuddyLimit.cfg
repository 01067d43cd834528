CONSTANTS
  MaxBucket = 1
  Size <- ThreeTimes
  ALSZ = 1
  HeapMax = 12
  Bases <- TwoBases
  ReplInterrupt = TRUE
  GCDepths = {0, 1}
SPECIFICATION FairSpec
PROPERTIES
  OOMOnlyAfterCollection
  Answered
