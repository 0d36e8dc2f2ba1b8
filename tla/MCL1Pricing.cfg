CONSTANTS
  Sequencer = seq
  ZeroAddr = seq
  a1 = a1
  Addr <- MCAddr
  Cap = 2
  MaxI256 = 60
  MaxU64 = 2
  MaxU256 = 3
  MaxTime = 2
  MaxOwed = 2
  MaxCalls = 1
  Amounts = {3}
  Units = {2}
  Spendings = {1}
  BaseFees = {1}
  Rewards = {1}
  Caps = {0, 5000}
  Equilibria = {2}
  Inertias = {1}
SPECIFICATION Spec
INVARIANTS TotalIsSum NeverOverpaid RewardsKept PoolIsBooked
PROPERTY TimeAdvances
