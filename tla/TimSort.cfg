SPECIFICATION Spec
CONSTANTS
  Inputs <- MCInputs
  Bits = 2
CHECK_DEADLOCK FALSE
INVARIANTS
  RunsTile
  StackShrinks
  RunsSorted
PROPERTIES
  Ends
