CONSTANTS
  MaxBucket = 2
  Size <- PowersOfTwo
  ALSZ = 1
  HeapMax = 5
  Bases <- TwoBases
  ReplInterrupt = FALSE
  GCDepths = {1}
SPECIFICATION Spec
INVARIANTS
  NoOverlap
  Tiled
  FreeListsSound
  NothingWasted
  CountersExact
PROPERTIES
  ImplementsHeap
