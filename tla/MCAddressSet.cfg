CONSTANTS
  ZeroAddr = zero
  a1 = a1
  a2 = a2
  a3 = a3
  Addr <- MCAddr
  Versions = {11}
  Cap = 4
  MaxCalls = 1
SPECIFICATION Spec
INVARIANT Consistent
PROPERTY ImplementsMemberSet
