CONSTANTS
  Sequencer = seq
  ZeroAddr = seq
  a1 = a1
  Addr <- MCAddr
  Cap = 2
  MaxI256 = 60
  MaxU64 = 3
  MaxU256 = 4
  MaxTime = 3
  MaxOwed = 2
  MaxCalls = 1
  Amounts = {4}
  Units = {2}
  Spendings = {1}
  BaseFees = {1}
  Rewards = {1}
  Caps = {0, 5000}
  Equilibria = {6}
  Inertias = {1}
  Versions = {1, 3, 7, 10}
  Geneses = {1, 3}
  UpgradeCap = 5000
SPECIFICATION OldSpec
INVARIANTS OldTypeOK TotalIsSumFrom2 PoolIsBookedFrom10
PROPERTY TimeAdvancesAlways
