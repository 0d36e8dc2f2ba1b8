CONSTANTS
  Count = 2
  MaxGas = 2
  MaxBurns = 3
  Given <- MCGiven
  Pairs <- MCPairs

SPECIFICATION Spec

INVARIANTS
  TypeOK
  TotalIsSum
  ChecksAreExact
  BurnedCountsAllKinds
