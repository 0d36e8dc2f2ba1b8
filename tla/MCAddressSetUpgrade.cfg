CONSTANTS
  ZeroAddr = zero
  a1 = a1
  a2 = a2
  a3 = a3
  Addr <- MCAddr
  Versions = {10, 11}
  Cap = 4
  MaxCalls = 1
SPECIFICATION UpgradeSpec
SYMMETRY Symmetry
INVARIANT ListEndsAtSize
PROPERTY OnlyAddAdds
