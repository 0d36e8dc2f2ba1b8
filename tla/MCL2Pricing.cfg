CONSTANTS
  computation = computation
  l1Calldata = l1Calldata
  Kinds <- MCKinds
  SingleKinds <- MCSingleKinds
  Params <- MCParams
  Values <- MCValues
  InitialParams <- MCInitialParams
  Weights <- MCWeights
  Fees <- MCFees
  InitialFees <- MCInitialFees
  Cap = 2
  MaxU64 = 3
  MaxU32 = 2
  MaxCalls = 1
  Targets = {2}
  Windows = {3}
  MultiWindows = {2}
  Backlogs = {1}
SPECIFICATION Spec
INVARIANTS TypeOK NothingIsLeft MaxWeightIsLargest
PROPERTIES LegacyBacklogIsExact MigratesAtMostOne
