CONSTANTS
  Base = 3
  Width = 3
  Offset <- MCOffset
  Window = 3
  HashGas = 2
  ChainId = 7
  GasLimits = {1, 2}
  MaxBlock = 4
  MaxDepth = 3

SPECIFICATION Spec

INVARIANTS
  TypeOK
  PrecompilesFollowSpec
  HashesOfWindow
  AliasIsUndone
