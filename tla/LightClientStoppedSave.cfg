SPECIFICATION Spec
CONSTANTS
  Passwords = {p1, p2}
  NoPw = noPw
  Foreign <- mcImports
  Imports <- mcImports
  Gap = 1
  Background = {rpc}
  NewPools = {"t"}
  UsedAddresses = {0}
  MaxKeys = 2
  NewZ = 1
  NewO = 0
  MaxBatches = 1
SYMMETRY mcSymmetry
CHECK_DEADLOCK FALSE
INVARIANT
  SeedOnDisk
