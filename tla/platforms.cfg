SPECIFICATION Spec
CONSTANTS
  avalanche = avalanche
  evm = evm
  solana = solana
  p1 = p1
  p2 = p2
  Platforms = {avalanche, evm, solana}
  Default = avalanche
  Evm = evm
  Rank <- MCRank
  Observed = {avalanche, evm, solana}
  KeepsListener = {avalanche, evm}
  Passes = {p1, p2}
  MaxSwitches = 1
  MaxTargets = 2
SYMMETRY PassSymmetry
INVARIANTS
  TypeOK
  WalletPageIsLive
  PassSkipsLive
PROPERTIES
  DisconnectSparesOthers
  StaysOnTab
