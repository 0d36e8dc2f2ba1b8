CONSTANTS
  Sequencer = seq
  ZeroAddr = seq
  a1 = a1
  Addr <- MCAddr
  Cap = 2
  MaxI256 = 60
  MaxU64 = 3
  MaxU256 = 8
  MaxTime = 2
  MaxOwed = 5
  MaxCalls = 1
  Amounts = {3}
  Units = {2}
  Spendings = {2}
  BaseFees = {1}
  Rewards = {1}
  Caps = {0, 5000}
  Equilibria = {2}
  Inertias = {1}
SPECIFICATION Spec
INVARIANT CreditKept
