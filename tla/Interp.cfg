CONSTANTS
  NObj = 4
  MaxStack = 3
  MaxFrames = 2
  MaxLines = 1
  MaxRefs = 5
  NBodies = 2
  Exported = {1}
SPECIFICATION Spec
CHECK_DEADLOCK FALSE
INVARIANTS
  CountsExact
  OutOnlyWhileModified
PROPERTIES
  OnlyLoopsStay
