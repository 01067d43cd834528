CONSTANTS
  N = 3
  Slots = {1, 2}
  MaxRefs = 5
  MaxHeld = 2
  MaxLost = 1
  MaxSamples = 2
SPECIFICATION Spec
VIEW View
INVARIANTS
  LiveKept
  RefcExact
  FreedOnce
PROPERTIES
  Complete
