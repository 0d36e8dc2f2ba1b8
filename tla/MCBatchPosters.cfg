CONSTANTS
  ZeroAddr = zero
  a1 = a1
  a2 = a2
  Addr <- MCAddr
  Cap = 3
  MaxI256 = 12
  MaxCalls = 1
  Balances <- MCBalances
SPECIFICATION PosterSpec
SYMMETRY Symmetry
INVARIANTS TotalIsSum DueIsListed
PROPERTY NewPosterIsOwedNothing
