CONSTANTS
  ZeroVal = zero
  None = none
  v1 = v1
  v2 = v2
  Val <- MCVal
  MaxOffset = 6
  MaxCalls = 1
SPECIFICATION Spec
SYMMETRY Symmetry
INVARIANT ConsumedIsZero
PROPERTY ImplementsFifo
